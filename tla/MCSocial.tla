------------------------------- MODULE MCSocial -------------------------------
(* Small instances of Messages over Friends for TLC. *)
EXTENDS Messages, TLC

\* Users are interchangeable within the premium ones and the others.
SocialSymmetry ==
    Permutations(User \ Premium) \cup Permutations(Premium) \cup Permutations(Request)
=============================================================================
