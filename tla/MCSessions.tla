----------------------------- MODULE MCSessions -----------------------------
(* Small instances of Accounts over Sessions for TLC. *)
EXTENDS Accounts, TLC

\* Devices are interchangeable, and so are requests.
SessionSymmetry == Permutations(Device) \cup Permutations(Request)
=============================================================================
