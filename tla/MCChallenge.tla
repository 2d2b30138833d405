----------------------------- MODULE MCChallenge -----------------------------
(* Small instances of Challenge for TLC. *)
EXTENDS Challenge
=============================================================================
