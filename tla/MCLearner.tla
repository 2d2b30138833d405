------------------------------- MODULE MCLearner -------------------------------
(* A small instance of Learner for TLC. *)
EXTENDS Learner, TLC

\* The requests are interchangeable, and so are the accounts that do not play.
Symmetry == Permutations(Proc) \cup Permutations(Users \ Players)

\* Several accounts that redeem are explored by themselves: nothing else has
\* written a row, but for its hearts, and no time has passed.
Redeeming == {u \in Users : row[u].referredBy # None}
                \cup {req[p].user : p \in {q \in Proc : req[q].op = "redeem"}}
NothingElse ==
    /\ now = 0
    /\ \A p \in Proc : req[p].op \in {"none", "redeem"}
    /\ \A u \in Users :
          /\ session[u].reviewed = None
          /\ [row[u] EXCEPT !.hearts = 1, !.anchor = 0, !.referredBy = None] = NewRow
FewRedeem == Cardinality(Redeeming) <= 1 \/ NothingElse
=============================================================================
