------------------------------ MODULE MCOutbox ------------------------------
(* Small instances of Outbox for TLC: events are numbered, the older first. *)
EXTENDS Outbox
=============================================================================
