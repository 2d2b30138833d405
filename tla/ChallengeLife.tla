---------------------------- MODULE ChallengeLife ----------------------------
(***************************************************************************)
(* What a challenge is to its participants: the statuses of `transition`   *)
(* in core/challengeRules.ts, with winners and rewards decided in the one  *)
(* step that completes it.  Each challenge goes its own way.               *)
(***************************************************************************)
EXTENDS Sequences

CONSTANTS Challenge, User

VARIABLES status, winners, reward

vars == <<status, winners, reward>>

Init ==
    /\ status = [c \in Challenge |-> "absent"]
    /\ winners = [c \in Challenge |-> {}]
    /\ reward = [c \in Challenge |-> [u \in User |-> <<>>]]

Become(c, before, after) ==
    /\ status[c] \in before
    /\ status' = [status EXCEPT ![c] = after]

Open(c)  == Become(c, {"absent"}, "pending") /\ UNCHANGED <<winners, reward>>
Start(c) == Become(c, {"pending"}, "active") /\ UNCHANGED <<winners, reward>>
Cancel(c) ==
    Become(c, {"pending", "active"}, "cancelled") /\ UNCHANGED <<winners, reward>>

\* Some participants win, some are rewarded: winners as winners, others as
\* having reached the target.
Complete(c) ==
    /\ Become(c, {"active"}, "completed")
    /\ \E W \in SUBSET User, R \in SUBSET User :
         /\ winners' = [winners EXCEPT ![c] = W]
         /\ reward' = [reward EXCEPT ![c] = [u \in User |->
                         IF u \notin R THEN <<>>
                         ELSE IF u \in W THEN <<"win">> ELSE <<"complete">>]]

Next == \E c \in Challenge : Open(c) \/ Start(c) \/ Cancel(c) \/ Complete(c)

Spec == Init /\ [][Next]_vars
=============================================================================
