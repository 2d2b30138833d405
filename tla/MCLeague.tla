------------------------------- MODULE MCLeague -------------------------------
(* Small instances of League for TLC. *)
EXTENDS League

\* Two rivals in the lowest league; a user at the top and one in no league.
LeagueStarts == {<<1, 1>>, <<2, 0>>}

=============================================================================
