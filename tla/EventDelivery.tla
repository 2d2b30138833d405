---------------------------- MODULE EventDelivery ----------------------------
(***************************************************************************)
(* What the outbox promises to the code that writes events, without        *)
(* workers, leases or crashes: an event is tried a bounded number of       *)
(* times, its handlers take effect in their order of registration, and it  *)
(* is delivered only when all of them have.  Effects may still happen      *)
(* after the delivery (a late second worker): delivery is at least once.   *)
(* Where a process without handlers empties the outbox too (Discards), it  *)
(* may close an event unhandled.                                           *)
(***************************************************************************)
EXTENDS Naturals

CONSTANTS Event, NHandlers, MaxAttempts, Discards

VARIABLES state,    \* unwritten, pending, delivered, discarded or removed
          tries,    \* attempts begun
          effects   \* the handlers that have taken effect at least once

vars == <<state, tries, effects>>

Handler == 1..NHandlers

Init ==
    /\ state = [e \in Event |-> "unwritten"]
    /\ tries = [e \in Event |-> 0]
    /\ effects = [e \in Event |-> {}]

Submit(e) ==
    /\ state[e] = "unwritten"
    /\ state' = [state EXCEPT ![e] = "pending"]
    /\ UNCHANGED <<tries, effects>>

Try(S) ==
    /\ \A e \in S : state[e] = "pending" /\ tries[e] < MaxAttempts
    /\ tries' = [e \in Event |-> IF e \in S THEN tries[e] + 1 ELSE tries[e]]
    /\ UNCHANGED <<state, effects>>

Apply(e, h) ==
    /\ tries[e] > 0
    /\ \A g \in Handler : g < h => g \in effects[e]
    /\ effects' = [effects EXCEPT ![e] = @ \cup {h}]
    /\ UNCHANGED <<state, tries>>

Deliver(e) ==
    /\ state[e] \in {"pending", "discarded"}
    /\ effects[e] = Handler
    /\ state' = [state EXCEPT ![e] = "delivered"]
    /\ UNCHANGED <<tries, effects>>

Discard(e) ==
    /\ Discards
    /\ state[e] = "pending" /\ tries[e] > 0
    /\ state' = [state EXCEPT ![e] = "discarded"]
    /\ UNCHANGED <<tries, effects>>

Remove(e) ==
    /\ state[e] \in {"pending", "delivered", "discarded"}
    /\ state' = [state EXCEPT ![e] = "removed"]
    /\ UNCHANGED <<tries, effects>>

Next ==
    \/ \E e \in Event : Submit(e) \/ Deliver(e) \/ Discard(e) \/ Remove(e)
    \/ \E e \in Event, h \in Handler : Apply(e, h)
    \/ \E S \in SUBSET Event : Try(S)

Spec == Init /\ [][Next]_vars
=============================================================================
