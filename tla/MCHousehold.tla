----------------------------- MODULE MCHousehold -----------------------------
(* Small instances of Household for TLC. *)
EXTENDS Household, TLC

\* Users are interchangeable, and so are requests and households.
HouseholdSymmetry ==
    Permutations(User) \cup Permutations(Request) \cup Permutations(Household)
=============================================================================
