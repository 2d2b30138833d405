------------------------------- MODULE Outbox -------------------------------
(***************************************************************************)
(* The transactional outbox of core/outbox.ts.  A request writes a         *)
(* DomainEvent in its own transaction; workers claim events under a lease, *)
(* run every handler registered in THEIR process for the event's type, and *)
(* mark the event processed or failed.                                     *)
(*                                                                         *)
(* A worker is one call of drainOutbox or processEventNow.  Server workers *)
(* live in the API process, whose app.ts imports the handler modules.  Job *)
(* workers live in the maintenance command, which imports none of them, so *)
(* its `handlers` map is empty.                                            *)
(*                                                                         *)
(* Each database transaction is one action; nothing else is atomic.        *)
(***************************************************************************)
EXTENDS Integers, FiniteSets

CONSTANTS Event,         \* event identifiers, numbered by createdAt
          ServerWorker,  \* drains running in the API process
          JobWorker,     \* drains running in the maintenance command
          NHandlers,     \* handlers the API process registers for an event
          MaxAttempts,   \* claims an event may receive (5)
          BatchLimit,    \* events of one claim (20)
          MaxRounds,     \* claims of one drain (100)
          LeaseLen       \* duration of a lease, in ticks (5 minutes)

Worker  == ServerWorker \cup JobWorker
Handler == 1..NHandlers
Ticket  == 1..MaxAttempts

ASSUME OutboxAssumption ==
    /\ Event \subseteq Nat
    /\ ServerWorker \cap JobWorker = {}
    /\ NHandlers \in Nat \ {0}
    /\ MaxAttempts \in Nat \ {0}
    /\ BatchLimit \in Nat \ {0}
    /\ MaxRounds \in Nat \ {0}
    /\ LeaseLen \in Nat

VARIABLES
    stored,     \* the row: not yet written, in the table, or deleted
    attempts,   \* DomainEvent.attempts
    claimAge,   \* time since DomainEvent.claimedAt, NoClaim when it is NULL
    processed,  \* DomainEvent.processedAt is set
    pc,         \* where the worker is
    rounds,     \* claims the drain has made
    ticket,     \* ticket[w][e]: the attempt w holds on e, 0 when it holds none
    step,       \* the handler the worker runs next on its current event
    \* history, read by no guard
    ran,        \* ran[e][h]: the attempts in which handler h ran to its end
    lost,       \* lost[e]: the attempts that ended without markDone
    doneIn      \* doneIn[e]: the processes whose worker marked e processed

rowVars  == <<stored, attempts, claimAge, processed>>
workVars == <<pc, rounds, ticket, step>>
histVars == <<ran, lost, doneIn>>
vars     == <<rowVars, workVars, histVars>>

NoClaim == -1
Expired == LeaseLen + 1   \* ages beyond the lease are not told apart
Age     == 0..Expired

TypeOK ==
    /\ stored    \in [Event -> {"unwritten", "stored", "deleted"}]
    /\ attempts  \in [Event -> 0..MaxAttempts]
    /\ claimAge  \in [Event -> Age \cup {NoClaim}]
    /\ processed \in [Event -> BOOLEAN]
    /\ pc        \in [Worker -> {"idle", "claiming", "handling", "failing"}]
    /\ rounds    \in [Worker -> 0..MaxRounds]
    /\ ticket    \in [Worker -> [Event -> 0..MaxAttempts]]
    /\ step      \in [Worker -> 1..(NHandlers + 1)]
    /\ ran       \in [Event -> [Handler -> SUBSET Ticket]]
    /\ lost      \in [Event -> SUBSET Ticket]
    /\ doneIn    \in [Event -> SUBSET {"api", "job"}]

Init ==
    /\ stored    = [e \in Event |-> "unwritten"]
    /\ attempts  = [e \in Event |-> 0]
    /\ claimAge  = [e \in Event |-> NoClaim]
    /\ processed = [e \in Event |-> FALSE]
    /\ pc        = [w \in Worker |-> "idle"]
    /\ rounds    = [w \in Worker |-> 0]
    /\ ticket    = [w \in Worker |-> [e \in Event |-> 0]]
    /\ step      = [w \in Worker |-> 1]
    /\ ran       = [e \in Event |-> [h \in Handler |-> {}]]
    /\ lost      = [e \in Event |-> {}]
    /\ doneIn    = [e \in Event |-> {}]

-----------------------------------------------------------------------------
(* The table *)

\* enqueue, as part of the caller's transaction.  Commits need not follow the
\* order of createdAt, so any unwritten event may come next.
Enqueue(e) ==
    /\ stored[e] = "unwritten"
    /\ stored' = [stored EXCEPT ![e] = "stored"]
    /\ UNCHANGED <<attempts, claimAge, processed, workVars, histVars>>

\* purgeFriendsData deletes events processed more than 14 days ago.
Purge(e) ==
    /\ stored[e] = "stored" /\ processed[e]
    /\ stored' = [stored EXCEPT ![e] = "deleted"]
    /\ UNCHANGED <<attempts, claimAge, processed, workVars, histVars>>

\* Deleting an account cascades to its events, whatever their state.
DeleteAccount(e) ==
    /\ stored[e] = "stored"
    /\ stored' = [stored EXCEPT ![e] = "deleted"]
    /\ UNCHANGED <<attempts, claimAge, processed, workVars, histVars>>

ClaimableProcessed(e) == \* mutant: processedAt is not looked at
    /\ stored[e] = "stored" /\ attempts[e] < MaxAttempts
    /\ claimAge[e] = NoClaim \/ claimAge[e] > LeaseLen
ClaimableOnce(e) ==      \* mutant: a lease never expires
    /\ stored[e] = "stored" /\ ~processed[e] /\ attempts[e] < MaxAttempts
    /\ claimAge[e] = NoClaim

Claimable(e) ==
    /\ stored[e] = "stored"
    /\ ~processed[e]
    /\ attempts[e] < MaxAttempts
    /\ claimAge[e] = NoClaim \/ claimAge[e] > LeaseLen

\* ORDER BY "createdAt" LIMIT: the oldest claimable events.
Oldest == {e \in Event :
             /\ Claimable(e)
             /\ Cardinality({f \in Event : Claimable(f) /\ f < e}) < BatchLimit}

-----------------------------------------------------------------------------
(* The workers *)

Holds(w, e) == ticket[w][e] # 0

\* The batch is processed in the order of the rows.
IsCurrent(w, e) ==
    /\ Holds(w, e)
    /\ \A f \in Event : Holds(w, f) => e <= f

Process(w)    == IF w \in JobWorker THEN "job" ELSE "api"
Registered(w) == IF w \in JobWorker THEN 0 ELSE NHandlers

\* The worker's function goes on, or returns and its locals are gone.
Continue(w, where) ==
    /\ pc' = [pc EXCEPT ![w] = where]
    /\ rounds' = [rounds EXCEPT ![w] = IF where = "idle" THEN 0 ELSE @]

StartDrain(w) ==
    /\ pc[w] = "idle"
    /\ pc' = [pc EXCEPT ![w] = "claiming"]
    /\ UNCHANGED <<rowVars, rounds, ticket, step, histVars>>

TakeBatchUncounted(w, B) ==   \* mutant: a claim after an expired lease is not counted
    /\ attempts' = [e \in Event |->
           IF e \in B /\ claimAge[e] = NoClaim THEN attempts[e] + 1 ELSE attempts[e]]
    /\ claimAge' = [e \in Event |-> IF e \in B THEN 0 ELSE claimAge[e]]
    /\ ticket' = [ticket EXCEPT ![w] = [e \in Event |-> IF e \in B THEN attempts'[e] ELSE 0]]
    /\ step' = [step EXCEPT ![w] = 1]
    /\ pc' = [pc EXCEPT ![w] = "handling"]
    /\ UNCHANGED <<stored, processed, histVars>>

\* The claim transaction: the rows of batch B get one more attempt and a
\* fresh lease, and the worker keeps the number of the attempt it makes.
TakeBatch(w, B) ==
    /\ attempts' = [e \in Event |-> IF e \in B THEN attempts[e] + 1 ELSE attempts[e]]
    /\ claimAge' = [e \in Event |-> IF e \in B THEN 0 ELSE claimAge[e]]
    /\ ticket' = [ticket EXCEPT ![w] =
                    [e \in Event |-> IF e \in B THEN attempts[e] + 1 ELSE 0]]
    /\ step' = [step EXCEPT ![w] = 1]
    /\ pc' = [pc EXCEPT ![w] = "handling"]
    /\ UNCHANGED <<stored, processed, histVars>>

ClaimBatch(w) ==
    /\ pc[w] = "claiming"
    /\ rounds[w] < MaxRounds
    /\ Oldest # {}
    /\ TakeBatch(w, Oldest)
    /\ rounds' = [rounds EXCEPT ![w] = @ + 1]

\* An empty batch ends the drain.
EndDrain(w) ==
    /\ pc[w] = "claiming"
    /\ Oldest = {}
    /\ Continue(w, "idle")
    /\ UNCHANGED <<rowVars, ticket, step, histVars>>

\* processEventNow claims one given event, if it is free, and makes no other
\* round.
ProcessEventNow(w, e) ==
    /\ w \in ServerWorker
    /\ pc[w] = "idle"
    /\ Claimable(e)
    /\ TakeBatch(w, {e})
    /\ rounds' = [rounds EXCEPT ![w] = MaxRounds]

RunHandler(w) ==
    /\ pc[w] = "handling"
    /\ step[w] <= Registered(w)
    /\ \E e \in Event :
         /\ IsCurrent(w, e)
         /\ ran' = [ran EXCEPT ![e][step[w]] = @ \cup {ticket[w][e]}]
    /\ step' = [step EXCEPT ![w] = @ + 1]
    /\ UNCHANGED <<rowVars, pc, rounds, ticket, lost, doneIn>>

\* A handler throws, or markDone does.
Throw(w) ==
    /\ pc[w] = "handling"
    /\ pc' = [pc EXCEPT ![w] = "failing"]
    /\ step' = [step EXCEPT ![w] = 1]
    /\ UNCHANGED <<rowVars, rounds, ticket, histVars>>

LetGoOfBatch(w, e) ==   \* mutant: the rest of the batch is dropped
    /\ ticket' = [ticket EXCEPT ![w] = [f \in Event |-> 0]]
    /\ step' = [step EXCEPT ![w] = 1]
    /\ Continue(w, IF rounds[w] < MaxRounds THEN "claiming" ELSE "idle")
LetGoHalfway(w, e) ==   \* mutant: the next event starts where this one ended
    /\ ticket' = [ticket EXCEPT ![w][e] = 0]
    /\ step' = step
    /\ Continue(w, IF \E f \in Event \ {e} : Holds(w, f) THEN "handling"
                   ELSE IF rounds[w] < MaxRounds THEN "claiming" ELSE "idle")

\* The worker is through with e: it goes on with the rest of its batch, then
\* with another round unless it has made them all.
LetGo(w, e) ==
    /\ ticket' = [ticket EXCEPT ![w][e] = 0]
    /\ step' = [step EXCEPT ![w] = 1]
    /\ Continue(w, IF \E f \in Event \ {e} : Holds(w, f) THEN "handling"
                   ELSE IF rounds[w] < MaxRounds THEN "claiming" ELSE "idle")

\* markDone writes the row unconditionally: nothing checks that the lease is
\* still the worker's own.
MarkDone(w) ==
    /\ pc[w] = "handling"
    /\ step[w] > Registered(w)
    /\ \E e \in Event :
         /\ IsCurrent(w, e)
         /\ stored[e] = "stored"
         /\ processed' = [processed EXCEPT ![e] = TRUE]
         /\ claimAge' = [claimAge EXCEPT ![e] = NoClaim]
         /\ doneIn' = [doneIn EXCEPT ![e] = @ \cup {Process(w)}]
         /\ LetGo(w, e)
    /\ UNCHANGED <<stored, attempts, ran, lost>>

\* markFailed too: it clears claimedAt, whoever set it.
MarkFailed(w) ==
    /\ pc[w] = "failing"
    /\ \E e \in Event :
         /\ IsCurrent(w, e)
         /\ stored[e] = "stored"
         /\ claimAge' = [claimAge EXCEPT ![e] = NoClaim]
         /\ lost' = [lost EXCEPT ![e] = @ \cup {ticket[w][e]}]
         /\ LetGo(w, e)
    /\ UNCHANGED <<stored, attempts, processed, ran, doneIn>>

\* markFailed throws, as it must when the row is gone; the error is swallowed.
MarkFailedThrows(w) ==
    /\ pc[w] = "failing"
    /\ \E e \in Event :
         /\ IsCurrent(w, e)
         /\ lost' = [lost EXCEPT ![e] = @ \cup {ticket[w][e]}]
         /\ LetGo(w, e)
    /\ UNCHANGED <<rowVars, ran, doneIn>>

\* The process dies: every attempt it held is lost, the rows keep their lease.
Crash(w) ==
    /\ pc[w] # "idle"
    /\ lost' = [e \in Event |-> lost[e] \cup ({ticket[w][e]} \ {0})]
    /\ ticket' = [ticket EXCEPT ![w] = [e \in Event |-> 0]]
    /\ step' = [step EXCEPT ![w] = 1]
    /\ Continue(w, "idle")
    /\ UNCHANGED <<rowVars, ran, doneIn>>

Older(a) == IF a = NoClaim \/ a = Expired THEN a ELSE a + 1

Tick ==
    /\ claimAge' = [e \in Event |-> Older(claimAge[e])]
    /\ UNCHANGED <<stored, attempts, processed, pc, rounds, ticket, step, histVars>>

-----------------------------------------------------------------------------

Work(w) ==
    \/ ClaimBatch(w) \/ EndDrain(w)
    \/ RunHandler(w) \/ Throw(w)
    \/ MarkDone(w) \/ MarkFailed(w) \/ MarkFailedThrows(w)

Next ==
    \/ \E e \in Event : Enqueue(e) \/ Purge(e) \/ DeleteAccount(e)
    \/ \E w \in Worker : StartDrain(w) \/ Work(w) \/ Crash(w)
    \/ \E w \in Worker, e \in Event : ProcessEventNow(w, e)
    \/ Tick

Spec == Init /\ [][Next]_vars

\* Time passes; the scheduled job keeps starting, goes on, and does not die every
\* single time before its first query.  A worker of the server may hang.
Fairness ==
    /\ WF_vars(Tick)
    /\ \A w \in JobWorker :
         WF_vars(StartDrain(w)) /\ WF_vars(Work(w)) /\ SF_vars(ClaimBatch(w))

FairSpec == Spec /\ Fairness

-----------------------------------------------------------------------------
(* Properties *)

\* An attempt is never used up silently.  Every attempt counted on an event
\* not yet processed was lost (its worker failed or died) or is being made by
\* a worker right now: an event abandoned with attempts = 5 was really given
\* up five times.  claimBatch counts the attempt, and only markDone, a
\* failure or a crash ends it.
AttemptsAccounted ==
    \A e \in Event : ~processed[e] =>
        \A n \in 1..attempts[e] :
            n \in lost[e] \/ \E w \in Worker : ticket[w][e] = n

\* Two workers may work on the same event once a lease has expired, but never
\* in the same attempt, so each handler runs at most once per attempt and at
\* most MaxAttempts times, crashes and expiries included.
OneWorkerPerAttempt ==
    \A e \in Event : \A v, w \in Worker :
        Holds(v, e) /\ v # w => ticket[v][e] # ticket[w][e]

\* markDone comes after the handlers: an event a server worker marked
\* processed had every handler run to its end, all in one and the same
\* attempt.
ServerDoneMeansHandled ==
    \A e \in Event : "api" \in doneIn[e] =>
        \E n \in Ticket : \A h \in Handler : n \in ran[e][h]

\* An event is delivered once a server worker has marked it; the job, which has no
\* handler, discards those it marks.
Status(e) ==
    CASE stored[e] = "unwritten" -> "unwritten"
      [] stored[e] = "deleted" -> "removed"
      [] stored[e] = "stored" /\ processed[e] ->
           IF "api" \in doneIn[e] THEN "delivered" ELSE "discarded"
      [] stored[e] = "stored" /\ ~processed[e] -> "pending"
Effects(e) == {h \in Handler : ran[e][h] # {}}

Delivery == INSTANCE EventDelivery WITH
    state    <- [e \in Event |-> Status(e)],
    tries    <- attempts,
    effects  <- [e \in Event |-> Effects(e)],
    Discards <- JobWorker # {}

\* Claims, lease expiries, late workers and crashes never deliver an event
\* before all its handlers took effect, nor try one that is no longer pending,
\* and nobody but the job closes one unhandled.
ImplementsDelivery == Delivery!Spec

\* What lesson.service.ts promises of an event whose immediate processing
\* failed: it stays in the queue and the job handles it.
ProcessedMeansHandled ==
    \A e \in Event : processed[e] => \A h \in Handler : ran[e][h] # {}

\* Every event of the table is in the end processed, given up or deleted: the
\* rescue job picks up what a dead worker had claimed once its lease is over.
Settled(e) == processed[e] \/ attempts[e] = MaxAttempts \/ stored[e] = "deleted"
EventuallySettled ==
    \A e \in Event : stored[e] = "stored" ~> Settled(e)
=============================================================================
