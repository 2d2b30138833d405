--------------------------- MODULE DeliveryProofs ---------------------------
(***************************************************************************)
(* Proofs about what is delivered: the events of Outbox, for every number  *)
(* of events, workers, handlers, attempts, rounds and every batch size and *)
(* lease; and below, the pushes of Notifications, for every number of      *)
(* users, processes, requests and tokens, every page size, time zone and   *)
(* list of thresholds.                                                     *)
(***************************************************************************)
EXTENDS Outbox, Notifications, FiniteSetTheorems, WellFoundedInduction, TLAPS

\* Only an attempt the row has counted is held, and only by a running worker.
TicketsCounted ==
    \A w \in Worker, e \in Event :
        Holds(w, e) => ticket[w][e] <= attempts[e] /\ pc[w] \in {"handling", "failing"}

\* On its current event a worker has run, in its own attempt, every handler
\* before `step`.
StepsRan ==
    \A w \in Worker, e \in Event : IsCurrent(w, e) =>
        \A h \in Handler : h < step[w] => ticket[w][e] \in ran[e][h]

\* A row not yet written is not processed, one that a worker marked is.
RowsMarked ==
    \A e \in Event : /\ stored[e] = "unwritten" => ~processed[e]
                     /\ doneIn[e] # {} => processed[e]

\* The inductive invariant.
IInv ==
    /\ TypeOK
    /\ RowsMarked
    /\ TicketsCounted
    /\ StepsRan
    /\ AttemptsAccounted
    /\ OneWorkerPerAttempt
    /\ ServerDoneMeansHandled

-----------------------------------------------------------------------------

\* Initialisation of the inductive invariant.
LEMMA InitInv == Init => IInv
<1> SUFFICES ASSUME Init PROVE IInv
  OBVIOUS
<1> USE OutboxAssumption DEF Init, Worker, Handler, Ticket, Age, Expired, NoClaim
<1>1. TypeOK
  BY DEF TypeOK
<1>2. \A w \in Worker, e \in Event : ~Holds(w, e)
  BY DEF Holds
<1>3. TicketsCounted /\ StepsRan /\ OneWorkerPerAttempt
  BY <1>2 DEF TicketsCounted, StepsRan, OneWorkerPerAttempt, IsCurrent
<1>4. AttemptsAccounted
  BY DEF AttemptsAccounted
<1>5. ServerDoneMeansHandled
  BY DEF ServerDoneMeansHandled
<1>6. RowsMarked
  BY DEF RowsMarked
<1> QED
  BY <1>1, <1>3, <1>4, <1>5, <1>6 DEF IInv

\* A worker that goes on or returns keeps the types of its locals.
LEMMA ContinueType ==
    ASSUME TypeOK, NEW w \in Worker,
           NEW where \in {"idle", "claiming", "handling", "failing"}, Continue(w, where)
    PROVE  /\ pc' \in [Worker -> {"idle", "claiming", "handling", "failing"}]
           /\ rounds' \in [Worker -> 0..MaxRounds]
BY OutboxAssumption DEF TypeOK, Continue, Age, Expired

\* So does a worker that lets its current event go (runClaimed).
LEMMA LetGoType ==
    ASSUME TypeOK, NEW w \in Worker, NEW e \in Event, LetGo(w, e)
    PROVE  /\ pc' \in [Worker -> {"idle", "claiming", "handling", "failing"}]
           /\ rounds' \in [Worker -> 0..MaxRounds]
           /\ ticket' \in [Worker -> [Event -> 0..MaxAttempts]]
           /\ step' \in [Worker -> 1..(NHandlers + 1)]
<1> DEFINE where == IF \E f \in Event \ {e} : Holds(w, f) THEN "handling"
                    ELSE IF rounds[w] < MaxRounds THEN "claiming" ELSE "idle"
<1>1. where \in {"idle", "claiming", "handling", "failing"}
  OBVIOUS
<1>2. Continue(w, where)
  BY DEF LetGo
<1> HIDE DEF where
<1>3. ticket' \in [Worker -> [Event -> 0..MaxAttempts]]
  BY OutboxAssumption DEF LetGo, TypeOK
<1>4. step' \in [Worker -> 1..(NHandlers + 1)]
  BY OutboxAssumption DEF LetGo, TypeOK
<1> QED
  BY <1>1, <1>2, <1>3, <1>4, ContinueType

\* The claim transaction keeps the types: attempts stays within MaxAttempts
\* because only claimable events are taken.
LEMMA TakeBatchType ==
    ASSUME TypeOK, NEW w \in Worker, NEW B, \A e \in B : Claimable(e), TakeBatch(w, B),
           rounds' \in [Worker -> 0..MaxRounds]
    PROVE  TypeOK'
<1> USE OutboxAssumption
<1>1. attempts' \in [Event -> 0..MaxAttempts]
  BY DEF TypeOK, TakeBatch, Claimable
<1>2. claimAge' \in [Event -> Age \cup {NoClaim}]
  BY DEF TypeOK, TakeBatch, Age, Expired
<1>3. ticket' \in [Worker -> [Event -> 0..MaxAttempts]]
  <2> DEFINE t == [e \in Event |-> IF e \in B THEN attempts[e] + 1 ELSE 0]
  <2>1. t \in [Event -> 0..MaxAttempts]
    BY DEF TypeOK, Claimable
  <2>2. ticket' = [ticket EXCEPT ![w] = t]
    BY DEF TakeBatch
  <2> HIDE DEF t
  <2> QED
    BY <2>1, <2>2 DEF TypeOK
<1>4. step' \in [Worker -> 1..(NHandlers + 1)]
  BY DEF TypeOK, TakeBatch, Age, Expired
<1>5. pc' \in [Worker -> {"idle", "claiming", "handling", "failing"}]
  BY DEF TypeOK, TakeBatch
<1> QED
  BY <1>1, <1>2, <1>3, <1>4, <1>5 DEF TypeOK, TakeBatch, histVars

\* Every step keeps the types.
LEMMA TypeStep == TypeOK /\ [Next]_vars => TypeOK'
<1> SUFFICES ASSUME TypeOK, [Next]_vars PROVE TypeOK'
  OBVIOUS
<1> USE OutboxAssumption DEF rowVars, workVars, histVars
<1>1. ASSUME NEW e \in Event, Enqueue(e) \/ Purge(e) \/ DeleteAccount(e) PROVE TypeOK'
  BY <1>1 DEF Enqueue, Purge, DeleteAccount, TypeOK
<1>2. ASSUME NEW w \in Worker, StartDrain(w) PROVE TypeOK'
  BY <1>2 DEF StartDrain, TypeOK
<1>3. ASSUME NEW w \in Worker, ClaimBatch(w) PROVE TypeOK'
  <2>1. \A e \in Oldest : Claimable(e)
    BY DEF Oldest
  <2>2. rounds' \in [Worker -> 0..MaxRounds]
    BY <1>3 DEF ClaimBatch, TypeOK
  <2> QED
    BY <1>3, <2>1, <2>2, TakeBatchType DEF ClaimBatch
<1>4. ASSUME NEW w \in Worker, EndDrain(w) PROVE TypeOK'
  <2>1. Continue(w, "idle")
    BY <1>4 DEF EndDrain
  <2> QED
    BY <1>4, <2>1, ContinueType DEF EndDrain, TypeOK
<1>5. ASSUME NEW w \in Worker, NEW e \in Event, ProcessEventNow(w, e) PROVE TypeOK'
  <2>1. rounds' \in [Worker -> 0..MaxRounds]
    BY <1>5 DEF ProcessEventNow, TypeOK
  <2>2. \A f \in {e} : Claimable(f)
    BY <1>5 DEF ProcessEventNow
  <2> QED
    BY <1>5, <2>1, <2>2, TakeBatchType DEF ProcessEventNow
<1>6. ASSUME NEW w \in Worker, RunHandler(w) PROVE TypeOK'
  <2>1. PICK e \in Event : /\ IsCurrent(w, e)
                           /\ ran' = [ran EXCEPT ![e][step[w]] = @ \cup {ticket[w][e]}]
    BY <1>6 DEF RunHandler
  <2>2. step[w] \in Handler /\ ticket[w][e] \in Ticket
    BY <1>6, <2>1 DEF RunHandler, Registered, IsCurrent, Holds, Handler, Ticket, TypeOK
  <2>3. ran' \in [Event -> [Handler -> SUBSET Ticket]]
    BY <2>1, <2>2 DEF TypeOK
  <2>4. step' \in [Worker -> 1..(NHandlers + 1)]
    BY <1>6, <2>2 DEF RunHandler, TypeOK, Handler
  <2> QED
    BY <1>6, <2>3, <2>4 DEF RunHandler, TypeOK
<1>7. ASSUME NEW w \in Worker, Throw(w) PROVE TypeOK'
  BY <1>7 DEF Throw, TypeOK
<1>8. ASSUME NEW w \in Worker, MarkDone(w) PROVE TypeOK'
  <2>1. PICK e \in Event : /\ processed' = [processed EXCEPT ![e] = TRUE]
                           /\ claimAge' = [claimAge EXCEPT ![e] = NoClaim]
                           /\ doneIn' = [doneIn EXCEPT ![e] = @ \cup {Process(w)}]
                           /\ LetGo(w, e)
    BY <1>8 DEF MarkDone
  <2> QED
    BY <1>8, <2>1, LetGoType DEF MarkDone, TypeOK, Process
<1>9. ASSUME NEW w \in Worker, MarkFailed(w) \/ MarkFailedThrows(w) PROVE TypeOK'
  <2>1. PICK e \in Event :
          /\ IsCurrent(w, e)
          /\ claimAge' = [claimAge EXCEPT ![e] = NoClaim] \/ claimAge' = claimAge
          /\ lost' = [lost EXCEPT ![e] = @ \cup {ticket[w][e]}]
          /\ LetGo(w, e)
    BY <1>9 DEF MarkFailed, MarkFailedThrows
  <2>2. ticket[w][e] \in Ticket
    BY <2>1 DEF IsCurrent, Holds, Ticket, TypeOK
  <2>3. lost' \in [Event -> SUBSET Ticket]
    BY <2>1, <2>2 DEF TypeOK
  <2>4. claimAge' \in [Event -> Age \cup {NoClaim}]
    BY <2>1 DEF TypeOK
  <2> QED
    BY <1>9, <2>1, <2>3, <2>4, LetGoType DEF MarkFailed, MarkFailedThrows, TypeOK
<1>10. ASSUME NEW w \in Worker, Crash(w) PROVE TypeOK'
  <2>1. Continue(w, "idle")
    BY <1>10 DEF Crash
  <2>2. lost' \in [Event -> SUBSET Ticket]
    BY <1>10 DEF Crash, TypeOK, Ticket
  <2>3. ticket' \in [Worker -> [Event -> 0..MaxAttempts]]
    BY <1>10 DEF Crash, TypeOK
  <2> QED
    BY <1>10, <2>1, <2>2, <2>3, ContinueType DEF Crash, TypeOK
<1>11. ASSUME Tick PROVE TypeOK'
  <2>1. \A a \in Age : Older(a) \in Age
    BY DEF Older, Age, Expired, NoClaim
  <2>2. Older(NoClaim) = NoClaim /\ 0 \in Age
    BY DEF Older, Age, Expired
  <2>3. claimAge' \in [Event -> Age \cup {NoClaim}]
    BY <1>11, <2>1, <2>2 DEF Tick, TypeOK
  <2> QED
    BY <1>11, <2>3 DEF Tick, TypeOK
<1>12. CASE UNCHANGED vars
  BY <1>12 DEF vars, TypeOK
<1> QED
  BY <1>1, <1>2, <1>3, <1>4, <1>5, <1>6, <1>7, <1>8, <1>9, <1>10, <1>11, <1>12
     DEF Next, Work

\* Only an event that is held is marked, and then it is processed.
LEMMA MarkedStep == TypeOK /\ RowsMarked /\ [Next]_vars => RowsMarked'
<1> SUFFICES ASSUME TypeOK, RowsMarked, [Next]_vars PROVE RowsMarked'
  OBVIOUS
<1> USE DEF rowVars, histVars
<1>1. CASE \E f \in Event : Enqueue(f) \/ Purge(f) \/ DeleteAccount(f)
  BY <1>1 DEF Enqueue, Purge, DeleteAccount, RowsMarked, TypeOK
<1>2. ASSUME NEW w \in Worker, MarkDone(w) PROVE RowsMarked'
  <2>1. PICK e \in Event : /\ stored[e] = "stored"
                           /\ processed' = [processed EXCEPT ![e] = TRUE]
                           /\ doneIn' = [doneIn EXCEPT ![e] = @ \cup {Process(w)}]
    BY <1>2 DEF MarkDone
  <2>2. processed'[e] /\ stored' = stored
    BY <1>2, <2>1 DEF MarkDone, TypeOK
  <2>3. \A f \in Event \ {e} : processed'[f] = processed[f] /\ doneIn'[f] = doneIn[f]
    BY <2>1 DEF TypeOK
  <2> QED
    BY <2>1, <2>2, <2>3 DEF RowsMarked
<1>3. ASSUME UNCHANGED <<stored, processed, doneIn>> PROVE RowsMarked'
  BY <1>3 DEF RowsMarked
<1>4. ASSUME NEW w \in Worker, ClaimBatch(w) \/ \E f \in Event : ProcessEventNow(w, f)
      PROVE  RowsMarked'
  BY <1>3, <1>4 DEF ClaimBatch, ProcessEventNow, TakeBatch
<1>5. ASSUME NEW w \in Worker, StartDrain(w) \/ EndDrain(w) \/ RunHandler(w) \/ Throw(w)
                               \/ MarkFailed(w) \/ MarkFailedThrows(w) \/ Crash(w)
      PROVE  RowsMarked'
  BY <1>3, <1>5 DEF StartDrain, EndDrain, RunHandler, Throw, MarkFailed, MarkFailedThrows, Crash
<1>6. CASE Tick \/ UNCHANGED vars
  BY <1>3, <1>6 DEF Tick, vars
<1> QED
  BY <1>1, <1>2, <1>4, <1>5, <1>6 DEF Next, Work

-----------------------------------------------------------------------------
(* Preservation of the other conjuncts, one lemma per shape of step. *)

Others == TicketsCounted /\ StepsRan /\ AttemptsAccounted /\ OneWorkerPerAttempt
          /\ ServerDoneMeansHandled

\* Steps that touch no attempt: the table's, time, and a worker that holds
\* nothing and starts or ends.
LEMMA QuietInv ==
    ASSUME IInv, UNCHANGED <<attempts, processed, ticket, step, histVars>>,
           NEW w \in Worker, pc[w] \in {"idle", "claiming"},
           \A v \in Worker \ {w} : pc'[v] = pc[v]
    PROVE  Others'
<1> USE DEF IInv, histVars
<1>1. \A v \in Worker, e \in Event : Holds(v, e)' <=> Holds(v, e)
  BY DEF Holds
<1>2. TicketsCounted'
  BY <1>1 DEF TicketsCounted
<1>3. StepsRan'
  BY <1>1 DEF StepsRan, IsCurrent
<1>4. AttemptsAccounted' /\ OneWorkerPerAttempt' /\ ServerDoneMeansHandled'
  BY <1>1 DEF AttemptsAccounted, OneWorkerPerAttempt, ServerDoneMeansHandled
<1> QED
  BY <1>2, <1>3, <1>4 DEF Others

\* A claim: the new attempt has a number nobody holds yet.
LEMMA TakeBatchInv ==
    ASSUME IInv, NEW w \in Worker, NEW B \in SUBSET Event,
           pc[w] \in {"idle", "claiming"}, TakeBatch(w, B)
    PROVE  Others'
<1> USE DEF IInv, histVars
<1>1. \A e \in Event : ticket[w][e] = 0
  BY DEF TicketsCounted, Holds
<1>2. \A v \in Worker, e \in Event :
        ticket'[v][e] = IF v # w THEN ticket[v][e]
                        ELSE IF e \in B THEN attempts[e] + 1 ELSE 0
  BY DEF TakeBatch, TypeOK
<1>3. \A e \in Event : attempts'[e] = IF e \in B THEN attempts[e] + 1 ELSE attempts[e]
  BY DEF TakeBatch
<1>4. \A v \in Worker, e \in Event :
        attempts[e] \in Nat /\ ticket[v][e] \in Nat /\ ticket[v][e] <= attempts[e]
  BY OutboxAssumption DEF TypeOK, TicketsCounted, Holds
<1>5. /\ \A v \in Worker \ {w} : pc'[v] = pc[v] /\ step'[v] = step[v]
      /\ pc'[w] = "handling" /\ step'[w] = 1
      /\ UNCHANGED <<processed, ran, lost, doneIn>>
  BY DEF TakeBatch, TypeOK
<1>6. TicketsCounted'
  BY <1>2, <1>3, <1>4, <1>5 DEF TicketsCounted, Holds
<1>7. StepsRan'
  <2> SUFFICES ASSUME NEW v \in Worker, NEW e \in Event, IsCurrent(v, e)',
                      NEW h \in Handler, h < step'[v]
               PROVE  ticket'[v][e] \in ran'[e][h]
    BY DEF StepsRan
  <2>1. CASE v = w
    BY <2>1, <1>5 DEF Handler
  <2>2. CASE v # w
    <3>1. IsCurrent(v, e)
      BY <2>2, <1>2 DEF IsCurrent, Holds
    <3> QED
      BY <3>1, <2>2, <1>2, <1>5 DEF StepsRan
  <2> QED
    BY <2>1, <2>2
<1>8. AttemptsAccounted'
  <2> SUFFICES ASSUME NEW e \in Event, ~processed[e], NEW n \in 1..attempts'[e], n \notin lost[e]
               PROVE  \E v \in Worker : ticket'[v][e] = n
    BY <1>5 DEF AttemptsAccounted
  <2>1. CASE n \in 1..attempts[e]
    <3>1. PICK v \in Worker : ticket[v][e] = n
      BY <2>1 DEF AttemptsAccounted
    <3>2. v # w
      BY <3>1, <1>1, <2>1
    <3> QED
      BY <3>1, <3>2, <1>2
  <2>2. CASE n \notin 1..attempts[e]
    <3>1. e \in B /\ n = attempts[e] + 1
      BY <2>2, <1>3, <1>4
    <3> QED
      BY <3>1, <1>2
  <2> QED
    BY <2>1, <2>2
<1>9. OneWorkerPerAttempt'
  BY <1>2, <1>4 DEF OneWorkerPerAttempt, Holds
<1>10. ServerDoneMeansHandled'
  BY <1>5 DEF ServerDoneMeansHandled
<1> QED
  BY <1>6, <1>7, <1>8, <1>9, <1>10 DEF Others

\* One more handler has run in the worker's own attempt.
LEMMA RunHandlerInv ==
    ASSUME IInv, NEW w \in Worker, RunHandler(w)
    PROVE  Others'
<1> USE DEF IInv
<1>1. PICK e \in Event : /\ IsCurrent(w, e)
                         /\ ran' = [ran EXCEPT ![e][step[w]] = @ \cup {ticket[w][e]}]
  BY DEF RunHandler
<1>2. step' = [step EXCEPT ![w] = @ + 1] /\ step[w] \in Handler /\ step[w] \in Nat
      /\ UNCHANGED <<attempts, processed, ticket, pc, lost, doneIn>>
  BY OutboxAssumption DEF RunHandler, rowVars, Registered, TypeOK, Handler
<1>3. \A f \in Event : \A h \in Handler : ran[f][h] \subseteq ran'[f][h]
  BY <1>1, <1>2 DEF TypeOK
<1>4. ticket[w][e] \in ran'[e][step[w]]
  BY <1>1, <1>2 DEF TypeOK
<1>5. TicketsCounted' /\ AttemptsAccounted' /\ OneWorkerPerAttempt'
  BY <1>2 DEF TicketsCounted, AttemptsAccounted, OneWorkerPerAttempt, Holds
<1>6. ServerDoneMeansHandled'
  BY <1>2, <1>3 DEF ServerDoneMeansHandled
<1>7. StepsRan'
  <2> SUFFICES ASSUME NEW v \in Worker, NEW f \in Event, IsCurrent(v, f)',
                      NEW h \in Handler, h < step'[v]
               PROVE  ticket'[v][f] \in ran'[f][h]
    BY DEF StepsRan
  <2>1. IsCurrent(v, f)
    BY <1>2 DEF IsCurrent, Holds
  <2>2. CASE h < step[v]
    BY <2>1, <2>2, <1>2, <1>3 DEF StepsRan
  <2>3. CASE ~(h < step[v])
    <3>1. v = w /\ h = step[w]
      BY <2>3, <1>2 DEF TypeOK, Handler
    <3>2. f = e
      BY <3>1, <2>1, <1>1, OutboxAssumption DEF IsCurrent
    <3> QED
      BY <3>1, <3>2, <1>2, <1>4
  <2> QED
    BY <2>2, <2>3
<1> QED
  BY <1>5, <1>6, <1>7 DEF Others

\* The current event is let go: done, or its attempt is lost.
LEMMA LetGoInv ==
    ASSUME IInv, NEW w \in Worker, NEW e \in Event, Holds(w, e), LetGo(w, e),
           UNCHANGED <<attempts, ran>>,
           \A f \in Event \ {e} : processed'[f] = processed[f] /\ doneIn'[f] = doneIn[f],
           \A f \in Event : lost[f] \subseteq lost'[f],
           processed'[e] \/ (processed'[e] = processed[e] /\ ticket[w][e] \in lost'[e]),
           \/ "api" \in doneIn'[e] => "api" \in doneIn[e]
           \/ \E n \in Ticket : \A h \in Handler : n \in ran[e][h]
    PROVE  Others'
<1> USE DEF IInv
<1> DEFINE where == IF \E f \in Event \ {e} : Holds(w, f) THEN "handling"
                    ELSE IF rounds[w] < MaxRounds THEN "claiming" ELSE "idle"
<1>1. pc' = [pc EXCEPT ![w] = where]
  BY DEF LetGo, Continue
<1>2. \A v \in Worker, f \in Event :
        ticket'[v][f] = IF v = w /\ f = e THEN 0 ELSE ticket[v][f]
  BY DEF LetGo, TypeOK
<1>3. step' = [step EXCEPT ![w] = 1]
  BY DEF LetGo
<1>4. TicketsCounted'
  <2> SUFFICES ASSUME NEW v \in Worker, NEW f \in Event, Holds(v, f)'
               PROVE  ticket'[v][f] <= attempts[f] /\ pc'[v] \in {"handling", "failing"}
    BY DEF TicketsCounted
  <2>1. Holds(v, f) /\ ticket'[v][f] = ticket[v][f] /\ (v = w => f # e)
    BY <1>2 DEF Holds
  <2>2. v = w => pc'[v] = "handling"
    BY <2>1, <1>1 DEF TypeOK
  <2>3. v # w => pc'[v] = pc[v]
    BY <1>1 DEF TypeOK
  <2> QED
    BY <2>1, <2>2, <2>3 DEF TicketsCounted
<1>5. StepsRan'
  <2> SUFFICES ASSUME NEW v \in Worker, NEW f \in Event, IsCurrent(v, f)',
                      NEW h \in Handler, h < step'[v]
               PROVE  ticket'[v][f] \in ran[f][h]
    BY DEF StepsRan
  <2>1. v # w
    BY <1>3 DEF TypeOK, Handler
  <2>2. IsCurrent(v, f) /\ step'[v] = step[v]
    BY <2>1, <1>2, <1>3 DEF IsCurrent, Holds, TypeOK
  <2> QED
    BY <2>1, <2>2, <1>2 DEF StepsRan
<1>6. AttemptsAccounted'
  <2> SUFFICES ASSUME NEW f \in Event, ~processed'[f], NEW n \in 1..attempts[f], n \notin lost'[f]
               PROVE  \E v \in Worker : ticket'[v][f] = n
    BY DEF AttemptsAccounted
  <2>1. PICK v \in Worker : ticket[v][f] = n
    BY DEF AttemptsAccounted
  <2>2. ~(v = w /\ f = e)
    BY <2>1
  <2> QED
    BY <2>1, <2>2, <1>2
<1>7. OneWorkerPerAttempt'
  BY <1>2 DEF OneWorkerPerAttempt, Holds
<1>8. ServerDoneMeansHandled'
  BY DEF ServerDoneMeansHandled
<1> QED
  BY <1>4, <1>5, <1>6, <1>7, <1>8 DEF Others

\* A crash loses every attempt the worker held.
LEMMA CrashInv ==
    ASSUME IInv, NEW w \in Worker, Crash(w)
    PROVE  Others'
<1> USE DEF IInv
<1>1. /\ UNCHANGED <<attempts, processed, ran, doneIn>>
      /\ pc' = [pc EXCEPT ![w] = "idle"]
      /\ step' = [step EXCEPT ![w] = 1]
  BY DEF Crash, Continue, rowVars
<1>2. \A v \in Worker, f \in Event : ticket'[v][f] = IF v = w THEN 0 ELSE ticket[v][f]
  BY DEF Crash, TypeOK
<1>3. \A f \in Event : lost'[f] = lost[f] \cup ({ticket[w][f]} \ {0})
  BY DEF Crash
<1>4. TicketsCounted'
  BY <1>1, <1>2 DEF TicketsCounted, Holds, TypeOK
<1>5. StepsRan'
  <2> SUFFICES ASSUME NEW v \in Worker, NEW f \in Event, IsCurrent(v, f)',
                      NEW h \in Handler, h < step'[v]
               PROVE  ticket'[v][f] \in ran[f][h]
    BY <1>1 DEF StepsRan
  <2>1. v # w
    BY <1>2 DEF IsCurrent, Holds
  <2>2. IsCurrent(v, f) /\ step'[v] = step[v]
    BY <2>1, <1>1, <1>2 DEF IsCurrent, Holds, TypeOK
  <2> QED
    BY <2>1, <2>2, <1>2 DEF StepsRan
<1>6. AttemptsAccounted'
  <2> SUFFICES ASSUME NEW f \in Event, ~processed[f], NEW n \in 1..attempts[f], n \notin lost'[f]
               PROVE  \E v \in Worker : ticket'[v][f] = n
    BY <1>1 DEF AttemptsAccounted
  <2>1. PICK v \in Worker : ticket[v][f] = n
    BY <1>3 DEF AttemptsAccounted
  <2>2. v # w
    BY <2>1, <1>3
  <2> QED
    BY <2>1, <2>2, <1>2
<1>7. OneWorkerPerAttempt'
  BY <1>2 DEF OneWorkerPerAttempt, Holds
<1>8. ServerDoneMeansHandled'
  BY <1>1 DEF ServerDoneMeansHandled
<1> QED
  BY <1>4, <1>5, <1>6, <1>7, <1>8 DEF Others

\* The inductive step.
LEMMA NextInv == IInv /\ [Next]_vars => IInv'
<1> SUFFICES ASSUME IInv, [Next]_vars PROVE Others'
  BY TypeStep, MarkedStep DEF IInv, Others
<1> USE DEF IInv
<1>1. ASSUME NEW e \in Event, Enqueue(e) \/ Purge(e) \/ DeleteAccount(e) PROVE Others'
  BY <1>1 DEF Enqueue, Purge, DeleteAccount, workVars, histVars, Others, TicketsCounted,
     StepsRan, IsCurrent, Holds, AttemptsAccounted, OneWorkerPerAttempt, ServerDoneMeansHandled
<1>2. ASSUME NEW w \in Worker, StartDrain(w) \/ EndDrain(w) PROVE Others'
  <2>1. /\ UNCHANGED <<attempts, processed, ticket, step, histVars>>
        /\ pc[w] \in {"idle", "claiming"}
        /\ \A v \in Worker \ {w} : pc'[v] = pc[v]
    BY <1>2 DEF StartDrain, EndDrain, Continue, rowVars, TypeOK
  <2> QED
    BY <2>1, QuietInv
<1>3. ASSUME NEW w \in Worker, ClaimBatch(w) PROVE Others'
  BY <1>3, TakeBatchInv DEF ClaimBatch, Oldest
<1>4. ASSUME NEW w \in Worker, NEW e \in Event, ProcessEventNow(w, e) PROVE Others'
  BY <1>4, TakeBatchInv DEF ProcessEventNow
<1>5. ASSUME NEW w \in Worker, RunHandler(w) PROVE Others'
  BY <1>5, RunHandlerInv
<1>6. ASSUME NEW w \in Worker, Throw(w) PROVE Others'
  <2>1. /\ UNCHANGED <<attempts, processed, ticket, histVars>>
        /\ pc' = [pc EXCEPT ![w] = "failing"]
        /\ step' = [step EXCEPT ![w] = 1]
    BY <1>6 DEF Throw, rowVars
  <2>2. TicketsCounted'
    BY <2>1 DEF TicketsCounted, Holds, TypeOK
  <2>3. ASSUME NEW v \in Worker, NEW e \in Event, IsCurrent(v, e)',
               NEW h \in Handler, h < step'[v]
        PROVE  ticket'[v][e] \in ran'[e][h]
    <3>1. v # w
      BY <2>1, <2>3 DEF TypeOK, Handler
    <3>2. step'[v] = step[v] /\ IsCurrent(v, e)
      BY <2>1, <2>3, <3>1 DEF TypeOK, IsCurrent, Holds
    <3> QED
      BY <2>1, <2>3, <3>2 DEF StepsRan, histVars
  <2> QED
    BY <2>1, <2>2, <2>3 DEF Others, StepsRan, AttemptsAccounted, OneWorkerPerAttempt, Holds,
       ServerDoneMeansHandled, histVars
<1>7. ASSUME NEW w \in Worker, MarkDone(w) PROVE Others'
  <2>1. PICK e \in Event : /\ IsCurrent(w, e)
                           /\ processed' = [processed EXCEPT ![e] = TRUE]
                           /\ doneIn' = [doneIn EXCEPT ![e] = @ \cup {Process(w)}]
                           /\ LetGo(w, e)
    BY <1>7 DEF MarkDone
  <2>2. UNCHANGED <<attempts, ran, lost>> /\ step[w] > Registered(w)
    BY <1>7 DEF MarkDone
  <2>3. \/ "api" \in doneIn'[e] => "api" \in doneIn[e]
        \/ \E n \in Ticket : \A h \in Handler : n \in ran[e][h]
    <3>1. CASE w \in JobWorker
      BY <2>1, <3>1 DEF Process, TypeOK
    <3>2. CASE w \notin JobWorker
      <4>1. \A h \in Handler : ticket[w][e] \in ran[e][h]
        BY <2>1, <2>2, <3>2, OutboxAssumption DEF StepsRan, Registered, Handler, TypeOK
      <4>2. ticket[w][e] \in Ticket
        BY <2>1 DEF IsCurrent, Holds, Ticket, TypeOK
      <4> QED
        BY <4>1, <4>2
    <3> QED
      BY <3>1, <3>2
  <2>4. \A f \in Event \ {e} : processed'[f] = processed[f] /\ doneIn'[f] = doneIn[f]
    BY <2>1 DEF TypeOK
  <2>5. processed'[e]
    BY <2>1 DEF TypeOK
  <2>6. Holds(w, e) /\ \A f \in Event : lost[f] \subseteq lost'[f]
    BY <2>1, <2>2 DEF IsCurrent
  <2> QED
    BY <2>1, <2>2, <2>3, <2>4, <2>5, <2>6, LetGoInv
<1>8. ASSUME NEW w \in Worker, MarkFailed(w) \/ MarkFailedThrows(w) PROVE Others'
  <2>1. PICK e \in Event : /\ IsCurrent(w, e)
                           /\ lost' = [lost EXCEPT ![e] = @ \cup {ticket[w][e]}]
                           /\ LetGo(w, e)
    BY <1>8 DEF MarkFailed, MarkFailedThrows
  <2>2. UNCHANGED <<attempts, ran, processed, doneIn>>
    BY <1>8 DEF MarkFailed, MarkFailedThrows, rowVars
  <2>3. Holds(w, e) /\ ticket[w][e] \in lost'[e] /\ \A f \in Event : lost[f] \subseteq lost'[f]
    BY <2>1 DEF TypeOK, IsCurrent
  <2> QED
    BY <2>1, <2>2, <2>3, LetGoInv
<1>9. ASSUME NEW w \in Worker, Crash(w) PROVE Others'
  BY <1>9, CrashInv
<1>10. ASSUME Tick PROVE Others'
  BY <1>10 DEF Tick, histVars, Others, TicketsCounted, StepsRan, IsCurrent, Holds,
     AttemptsAccounted, OneWorkerPerAttempt, ServerDoneMeansHandled
<1>11. CASE UNCHANGED vars
  BY <1>11 DEF vars, rowVars, workVars, histVars, Others, TicketsCounted, StepsRan, IsCurrent,
     Holds, AttemptsAccounted, OneWorkerPerAttempt, ServerDoneMeansHandled
<1> QED
  BY <1>1, <1>2, <1>3, <1>4, <1>5, <1>6, <1>7, <1>8, <1>9, <1>10, <1>11
     DEF Next, Work

\* The invariant holds in every reachable state.
LEMMA Invariance == Spec => []IInv
<1>1. IInv /\ [Next]_vars => IInv'
  BY NextInv
<1> QED
  BY InitInv, <1>1, PTL DEF Spec

-----------------------------------------------------------------------------
(* The theorems *)

\* The variables of the outbox keep their types in every reachable state.
THEOREM TypeCorrect == Spec => []TypeOK
BY Invariance, PTL DEF IInv

\* core/outbox.ts, claimBatch and runClaimed: an attempt counted on an event
\* is never used up without having been made and having failed.
THEOREM AttemptsNeverVanish == Spec => []AttemptsAccounted
BY Invariance, PTL DEF IInv

\* core/outbox.ts, claimBatch: whatever leases expire, no two workers ever
\* make the same attempt on an event.
THEOREM AttemptsAreExclusive == Spec => []OneWorkerPerAttempt
BY Invariance, PTL DEF IInv

\* core/outbox.ts, runClaimed: an event marked processed by the API process
\* had all its handlers run in a single attempt.
THEOREM ServerDeliversWhole == Spec => []ServerDoneMeansHandled
BY Invariance, PTL DEF IInv

\* The refinement mapping takes initial states to initial states.
LEMMA InitRefines == Init => Delivery!Init
<1> SUFFICES ASSUME Init PROVE Delivery!Init
  OBVIOUS
<1>1. \A e \in Event : Status(e) = "unwritten" /\ Effects(e) = {}
  BY DEF Init, Status, Effects
<1> QED
  BY <1>1 DEF Init, Delivery!Init

\* A step that leaves status, attempts and effects alone is a stutter.
LEMMA StutterRefines ==
    ASSUME UNCHANGED <<stored, processed, attempts, ran, doneIn>>
    PROVE  UNCHANGED Delivery!vars
<1>1. \A e \in Event : Status(e)' = Status(e) /\ Effects(e)' = Effects(e)
  BY DEF Status, Effects
<1> QED
  BY <1>1 DEF Delivery!vars

\* Each step of the outbox is a step of at-least-once delivery or a stutter.
LEMMA StepRefines == IInv /\ [Next]_vars => [Delivery!Next]_(Delivery!vars)
<1> SUFFICES ASSUME IInv, [Next]_vars
             PROVE  Delivery!Next \/ UNCHANGED Delivery!vars
  OBVIOUS
<1> USE DEF IInv
<1>1. ASSUME NEW e \in Event, Enqueue(e) PROVE Delivery!Next
  <2>1. \A f \in Event : Effects(f)' = Effects(f)
    BY <1>1 DEF Enqueue, histVars, Effects
  <2>2. \A f \in Event \ {e} : Status(f)' = Status(f)
    BY <1>1 DEF Enqueue, histVars, Status, TypeOK
  <2>3. Status(e) = "unwritten"
    BY <1>1 DEF Enqueue, Status
  <2>4. ~processed[e]
    BY <1>1 DEF Enqueue, RowsMarked
  <2>5. Status(e)' = "pending"
    BY <1>1, <2>4 DEF Enqueue, Status, TypeOK
  <2>6. Delivery!Submit(e)
    BY <1>1, <2>1, <2>2, <2>3, <2>5 DEF Delivery!Submit, Enqueue
  <2> QED
    BY <2>6 DEF Delivery!Next
<1>2. ASSUME NEW e \in Event, Purge(e) \/ DeleteAccount(e) PROVE Delivery!Next
  <2>1. \A f \in Event : Effects(f)' = Effects(f)
    BY <1>2 DEF Purge, DeleteAccount, histVars, Effects
  <2>2. \A f \in Event \ {e} : Status(f)' = Status(f)
    BY <1>2 DEF Purge, DeleteAccount, histVars, Status, TypeOK
  <2>3. Status(e) \in {"pending", "delivered", "discarded"}
    BY <1>2 DEF Purge, DeleteAccount, Status, TypeOK
  <2>4. stored'[e] = "deleted" /\ attempts' = attempts
    BY <1>2 DEF Purge, DeleteAccount, TypeOK
  <2>5. Status(e)' = "removed"
    BY <2>4 DEF Status
  <2>6. Delivery!Remove(e)
    BY <2>1, <2>2, <2>3, <2>4, <2>5 DEF Delivery!Remove
  <2> QED
    BY <2>6 DEF Delivery!Next
<1>3. ASSUME NEW w \in Worker, NEW B \in SUBSET Event, \A e \in B : Claimable(e), TakeBatch(w, B)
      PROVE  Delivery!Next
  <2>1. \A f \in Event : Effects(f)' = Effects(f) /\ Status(f)' = Status(f)
    BY <1>3 DEF TakeBatch, histVars, Effects, Status
  <2>2. \A f \in B : Status(f) = "pending" /\ attempts[f] < MaxAttempts
    BY <1>3 DEF Claimable, Status
  <2>3. attempts' = [e \in Event |-> IF e \in B THEN attempts[e] + 1 ELSE attempts[e]]
    BY <1>3 DEF TakeBatch
  <2>4. Delivery!Try(B)
    BY <2>1, <2>2, <2>3 DEF Delivery!Try
  <2> QED
    BY <2>4 DEF Delivery!Next
<1>4. ASSUME NEW w \in Worker, ClaimBatch(w) PROVE Delivery!Next
  BY <1>3, <1>4 DEF ClaimBatch, Oldest
<1>5. ASSUME NEW w \in Worker, NEW e \in Event, ProcessEventNow(w, e) PROVE Delivery!Next
  BY <1>3, <1>5 DEF ProcessEventNow
<1>6. ASSUME NEW w \in Worker, RunHandler(w) PROVE Delivery!Next
  <2>1. PICK e \in Event : /\ IsCurrent(w, e)
                           /\ ran' = [ran EXCEPT ![e][step[w]] = @ \cup {ticket[w][e]}]
    BY <1>6 DEF RunHandler
  <2>2. step[w] \in Handler /\ UNCHANGED <<stored, processed, attempts, doneIn>>
    BY <1>6, OutboxAssumption DEF RunHandler, rowVars, Registered, TypeOK, Handler
  <2>3. attempts[e] > 0
    BY <2>1, OutboxAssumption DEF TicketsCounted, IsCurrent, Holds, TypeOK
  <2>4. \A g \in Handler : g < step[w] => g \in Effects(e)
    BY <2>1 DEF StepsRan, Effects
  <2>5. \A f \in Event \ {e} : Effects(f)' = Effects(f)
    BY <2>1 DEF Effects, TypeOK
  <2>6. Effects(e)' = Effects(e) \cup {step[w]}
    <3>1. \A h \in Handler :
            ran'[e][h] = IF h = step[w] THEN ran[e][h] \cup {ticket[w][e]} ELSE ran[e][h]
      BY <2>1, <2>2 DEF TypeOK
    <3> QED
      BY <2>2, <3>1 DEF Effects
  <2>7. \A f \in Event : Status(f)' = Status(f)
    BY <2>2 DEF Status
  <2>8. Delivery!Apply(e, step[w])
    BY <2>2, <2>3, <2>4, <2>5, <2>6, <2>7 DEF Delivery!Apply, Delivery!Handler, Handler
  <2> QED
    BY <2>2, <2>8 DEF Delivery!Next, Delivery!Handler, Handler
<1>7. ASSUME NEW w \in Worker, MarkDone(w) PROVE Delivery!Next \/ UNCHANGED Delivery!vars
  <2>1. PICK e \in Event : /\ IsCurrent(w, e)
                           /\ stored[e] = "stored"
                           /\ processed' = [processed EXCEPT ![e] = TRUE]
                           /\ doneIn' = [doneIn EXCEPT ![e] = @ \cup {Process(w)}]
    BY <1>7 DEF MarkDone
  <2>2. UNCHANGED <<stored, attempts, ran>> /\ step[w] > Registered(w)
    BY <1>7 DEF MarkDone
  <2>3. \A f \in Event : Effects(f)' = Effects(f)
    BY <2>2 DEF Effects
  <2>4. \A f \in Event \ {e} : Status(f)' = Status(f)
    BY <2>1, <2>2 DEF Status, TypeOK
  <2>5. processed'[e] /\ stored'[e] = "stored" /\ doneIn'[e] = doneIn[e] \cup {Process(w)}
    BY <2>1, <2>2 DEF TypeOK
  <2>6. CASE w \in JobWorker /\ processed[e]
    <3>1. Status(e)' = Status(e)
      BY <2>1, <2>5, <2>6 DEF Status, Process
    <3> QED
      BY <2>2, <2>3, <2>4, <3>1 DEF Delivery!vars
  <2>7. CASE w \in JobWorker /\ ~processed[e]
    <3>1. Status(e) = "pending" /\ Status(e)' = "discarded"
      BY <2>1, <2>5, <2>7 DEF Status, Process, RowsMarked
    <3>2. attempts[e] > 0
      BY <2>1, OutboxAssumption DEF TicketsCounted, IsCurrent, Holds, TypeOK
    <3>3. Delivery!Discard(e)
      BY <2>2, <2>3, <2>4, <2>7, <3>1, <3>2 DEF Delivery!Discard
    <3> QED
      BY <3>3 DEF Delivery!Next
  <2>8. CASE w \notin JobWorker /\ "api" \in doneIn[e]
    <3>1. Status(e)' = Status(e)
      BY <2>1, <2>5, <2>8 DEF Status, RowsMarked
    <3> QED
      BY <2>2, <2>3, <2>4, <3>1 DEF Delivery!vars
  <2>9. CASE w \notin JobWorker /\ "api" \notin doneIn[e]
    <3>1. \A h \in Handler : h < step[w]
      BY <2>2, <2>9, OutboxAssumption DEF Registered, Handler, TypeOK
    <3>2. Effects(e) = Handler
      BY <2>1, <3>1 DEF StepsRan, Effects
    <3>3. Status(e) \in {"pending", "discarded"}
      BY <2>1, <2>9 DEF Status
    <3>4. Status(e)' = "delivered"
      BY <2>5, <2>9 DEF Status, Process
    <3>5. Delivery!Deliver(e)
      BY <2>2, <2>3, <2>4, <3>2, <3>3, <3>4 DEF Delivery!Deliver, Delivery!Handler, Handler
    <3> QED
      BY <3>5 DEF Delivery!Next
  <2> QED
    BY <2>6, <2>7, <2>8, <2>9
<1>8. ASSUME NEW w \in Worker, StartDrain(w) \/ EndDrain(w) \/ Throw(w) \/ MarkFailed(w)
                               \/ MarkFailedThrows(w) \/ Crash(w)
      PROVE  UNCHANGED Delivery!vars
  <2>1. UNCHANGED <<stored, processed, attempts, ran, doneIn>>
    BY <1>8 DEF StartDrain, EndDrain, Throw, MarkFailed, MarkFailedThrows, Crash, rowVars, histVars
  <2> QED
    BY <2>1, StutterRefines
<1>9. CASE Tick \/ UNCHANGED vars
  <2>1. UNCHANGED <<stored, processed, attempts, ran, doneIn>>
    BY <1>9 DEF Tick, vars, rowVars, histVars
  <2> QED
    BY <2>1, StutterRefines
<1> QED
  BY <1>1, <1>2, <1>4, <1>5, <1>6, <1>7, <1>8, <1>9 DEF Next, Work

\* core/outbox.ts, with its job: at-least-once delivery with bounded attempts, but for
\* the events that the maintenance command, if it runs, closes unhandled.
THEOREM OutboxImplementsDelivery == Spec => ImplementsDelivery
<1>1. Init => Delivery!Init
  BY InitRefines
<1>2. IInv /\ [Next]_vars => [Delivery!Next]_(Delivery!vars)
  BY StepRefines
<1> QED
  BY <1>1, <1>2, Invariance, PTL DEF Spec, ImplementsDelivery, Delivery!Spec

(***************************************************************************)
(* Notifications.                                                          *)
(***************************************************************************)

PassSlot == Job \X Pass
Entry    == User \X (Days \cup Stage)
PassOps  == [step : {"page", "user", "push", "disable", "mark"}, t : Time,
             cursor : User \cup {0}, page : SUBSET Entry, tokens : SUBSET Token]
RequestOps ==
    {NoOp} \cup [step : {"friend"}, u : User]
           \cup [step : {"sync"}, u : User, t : Time, row : Person]
           \cup [step : {"push", "disable"}, t : {0}, cursor : {0}, page : {{}},
                 tokens : SUBSET Token]

\* The types of what requests and passes have read, and of the history.
SlotsTyped   == /\ op \in [Slot -> Ops]
                /\ \A r \in Request : op[r] \in RequestOps
                /\ \A s \in PassSlot : op[s] \in {NoOp} \cup PassOps
HistoryTyped == /\ alerts \in [User -> [Days -> Nat]]
                /\ aways \in [User -> [DOMAIN Threshold -> Nat]]
                /\ excused \in Nat
PersonsTyped == person \in [User -> Person]

\* What a pass k has read: every entry is of another user, not beyond the cursor, and
\* carries the mark that the pass writes.
Formed(k, o) ==
    /\ o.step = "page" => o.page = {}
    /\ o.step # "page" => o.page # {}
    /\ \A x \in o.page : \A y \in o.page : x[1] = y[1] => x = y
    /\ \A x \in o.page : o.cursor = 0 \/ x[1] <= o.cursor
    /\ k = "alert" => \A x \in o.page : x[2] = LocalDay(x[1], o.t)
    /\ k = "away" => \A x \in o.page : x[2] \in DOMAIN Threshold

\* Only the run of a living process has passes, and they are of the past.
PassesFormed ==
    \A j \in Job, k \in Pass : op[<<j, k>>] # NoOp =>
        j \in running /\ Formed(k, op[<<j, k>>]) /\ op[<<j, k>>].t <= now

-----------------------------------------------------------------------------
(* Lemmas about the operators.                                               *)

\* The turn is that of a user of the page with the least number.
LEMMA TurnIsFirst ==
    ASSUME NEW page \in SUBSET Entry, page # {}
    PROVE  Turn(page) \in page /\ \A y \in page : Turn(page)[1] <= y[1]
<1> DEFINE ids == {x[1] : x \in page}
<1>1. ids \subseteq Nat /\ ids # {}
  BY DEF Entry, User
<1>2. PICK n \in ids : \A m \in ids : ~(<<m, n>> \in OpToRel(<, Nat))
  <2> HIDE DEF ids
  <2> QED
    BY <1>1, NatLessThanWellFounded, WFMin
<1>3. \A m \in ids : n <= m
  <2>1. \A m \in ids : m \in Nat /\ n \in Nat
    BY <1>1, <1>2
  <2>2. \A m \in ids : ~(m < n)
    <3> TAKE m \in ids
    <3>1. <<m, n>> \in Nat \X Nat
      BY <2>1
    <3>2. ASSUME m < n PROVE <<m, n>> \in OpToRel(<, Nat)
      BY <3>1, <3>2 DEF OpToRel
    <3> QED
      BY <1>2, <3>2
  <2> QED
    BY <2>1, <2>2
<1>4. PICK x \in page : x[1] = n
  BY <1>2
<1>5. \A y \in page : x[1] <= y[1]
  BY <1>3, <1>4
<1> QED
  BY <1>5 DEF Turn

\* A day comes after the days of earlier times.
LEMMA DaysAdvance ==
    ASSUME NEW u \in User, NEW t \in Int, NEW v \in Int
    PROVE  LocalDay(u, t) \in Int /\ (t <= v => LocalDay(u, t) <= LocalDay(u, v))
<1>1. Zone[u] \in Int /\ Day \in Nat \ {0}
  BY NotificationsAssumption
<1>2. \A a \in Int, b \in Int : a <= b => a \div Day <= b \div Day
  BY <1>1, Z3
<1>3. \A a \in Int : a \div Day \in Int
  BY <1>1
<1>4. t + Zone[u] \in Int /\ v + Zone[u] \in Int /\ (t <= v => t + Zone[u] <= v + Zone[u])
  BY <1>1
<1> QED
  BY <1>2, <1>3, <1>4 DEF LocalDay

\* The days of the times of the model.
LEMMA DaysAreInt == Days \subseteq Int /\ \A u \in User, t \in Time : LocalDay(u, t) \in Days
<1>1. Time \subseteq Int
  BY NotificationsAssumption DEF Time
<1> QED
  BY <1>1, DaysAdvance DEF Days

\* The stage reached grows with the absence, and is that of a threshold when positive.
LEMMA ReachedGrows ==
    ASSUME NEW n \in Int, NEW m \in Int
    PROVE  /\ Reached(n) \in Stage /\ Reached(n) \in Nat
           /\ n <= m => Reached(n) <= Reached(m)
<1>1. Threshold \in Seq(Nat) /\ Len(Threshold) \in Nat /\ Day \in Nat
  BY NotificationsAssumption
<1>2. DOMAIN Threshold = 1..Len(Threshold)
  BY <1>1
<1>3. IsFiniteSet(DOMAIN Threshold) /\ Cardinality(DOMAIN Threshold) = Len(Threshold)
  <2> DEFINE n0 == Len(Threshold)
  <2>0. n0 \in Nat /\ n0 \in Int
    BY <1>1
  <2> HIDE DEF n0
  <2>1. /\ IsFiniteSet(1..n0)
        /\ Cardinality(1..n0) = IF 1 > n0 THEN 0 ELSE n0 - 1 + 1
    BY <2>0, FS_Interval
  <2>2. Cardinality(1..n0) = n0
    BY <2>0, <2>1
  <2> QED
    BY <1>2, <2>1, <2>2 DEF n0
<1> DEFINE P(x) == {i \in DOMAIN Threshold : Threshold[i] * Day <= x}
<1>4. \A x \in Int : IsFiniteSet(P(x)) /\ Cardinality(P(x)) \in Nat
                     /\ Cardinality(P(x)) <= Len(Threshold)
  BY <1>3, FS_Subset, FS_CardinalityType
<1>5. n <= m => P(n) \subseteq P(m)
  <2>1. \A i \in DOMAIN Threshold : Threshold[i] * Day \in Int
    BY <1>1, <1>2
  <2> QED
    BY <2>1
<1>6. n <= m => Cardinality(P(n)) <= Cardinality(P(m))
  BY <1>4, <1>5, FS_Subset
<1>7. Reached(n) = Cardinality(P(n)) /\ Reached(m) = Cardinality(P(m))
  BY DEF Reached
<1> HIDE DEF P
<1> QED
  BY <1>1, <1>4, <1>6, <1>7 DEF Stage

\* A stage that is reached is a threshold, unless it is none.
LEMMA StagesAreThresholds == Stage = {0} \cup DOMAIN Threshold /\ Stage \subseteq Nat
<1>1. Threshold \in Seq(Nat) /\ Len(Threshold) \in Nat
  BY NotificationsAssumption
<1> QED
  BY <1>1 DEF Stage

\* What a user has after a synchronisation of what was read of him.
LEMMA SettledPerson ==
    ASSUME NEW p \in Person, NEW today \in Int
    PROVE  /\ Settle(p, today) \in Person
           /\ Settle(p, today).alert = p.alert /\ Settle(p, today).stage = p.stage
           /\ Settle(p, today).seen = p.seen
<1>1. /\ p.prefs \in SUBSET Prefs /\ p.streak \in BOOLEAN /\ p.frozen \in BOOLEAN
      /\ p.active \in Int /\ p.alert \in Days \cup {Never} /\ p.seen \in Int /\ p.stage \in Stage
  BY DEF Person
<1>2. Settle(p, today) \in {p, [p EXCEPT !.frozen = FALSE], [p EXCEPT !.frozen = TRUE],
                            [p EXCEPT !.streak = FALSE, !.frozen = FALSE]}
  <2>1. today - p.active \in Int
    BY <1>1
  <2>2. CASE today - p.active <= 0
    BY <2>1, <2>2 DEF Settle
  <2>3. CASE today - p.active = 1
    BY <2>1, <2>3 DEF Settle
  <2>4. CASE today - p.active > 1
    BY <2>1, <2>4 DEF Settle
  <2> QED
    BY <2>1, <2>2, <2>3, <2>4
<1>3. \A b \in BOOLEAN, f \in BOOLEAN :
        [p EXCEPT !.streak = b, !.frozen = f] \in Person /\ [p EXCEPT !.frozen = f] \in Person
  BY DEF Person
<1>4. \A q \in {p, [p EXCEPT !.frozen = FALSE], [p EXCEPT !.frozen = TRUE],
                [p EXCEPT !.streak = FALSE, !.frozen = FALSE]} :
        q \in Person /\ q.alert = p.alert /\ q.stage = p.stage /\ q.seen = p.seen
  BY <1>3 DEF Person
<1> QED
  BY <1>2, <1>4

LEMMA SyncedPerson ==
    ASSUME NEW p \in Person, NEW u \in User, NEW t \in Time
    PROVE  /\ Synced(p, u, t) \in Person
           /\ Synced(p, u, t).alert = p.alert /\ Synced(p, u, t).stage = 0
<1>1. t \in Int /\ LocalDay(u, t) \in Int
  BY DaysAdvance, NotificationsAssumption DEF Time
<1> DEFINE q == Settle(p, LocalDay(u, t))
<1>2. q \in Person /\ q.alert = p.alert
  BY <1>1, SettledPerson
<1>3. Synced(p, u, t) = [q EXCEPT !.stage = 0, !.seen = IF t > @ THEN t ELSE @]
  BY DEF Synced
<1>4. 0 \in Stage
  BY StagesAreThresholds
<1> HIDE DEF q
<1>5. q.seen \in Int
  BY <1>2 DEF Person
<1>6. PICK n \in Int : Synced(p, u, t) = [q EXCEPT !.stage = 0, !.seen = n]
  BY <1>1, <1>3, <1>5
<1> QED
  BY <1>2, <1>4, <1>6 DEF Person

\* The columns of `new` where it differs from what was read, and those of `old`.
LEMMA MergedPerson ==
    ASSUME NEW new \in Person, NEW row \in Person, NEW old \in Person
    PROVE  LET q == [c \in DOMAIN old |-> IF new[c] # row[c] THEN new[c] ELSE old[c]]
           IN  /\ q \in Person
               /\ q.alert = (IF new.alert # row.alert THEN new.alert ELSE old.alert)
               /\ q.stage = (IF new.stage # row.stage THEN new.stage ELSE old.stage)
<1> DEFINE Column == {"prefs", "streak", "frozen", "active", "alert", "seen", "stage"}
           q == [c \in DOMAIN old |-> IF new[c] # row[c] THEN new[c] ELSE old[c]]
<1>1. DOMAIN old = Column
  BY DEF Person
<1>2. /\ q["alert"] = (IF new.alert # row.alert THEN new.alert ELSE old.alert)
      /\ q["stage"] = (IF new.stage # row.stage THEN new.stage ELSE old.stage)
  BY <1>1
<1>3. \A c \in Column : q[c] \in {new[c], old[c]}
  BY <1>1
<1>4. /\ q["prefs"] \in SUBSET Prefs /\ q["streak"] \in BOOLEAN /\ q["frozen"] \in BOOLEAN
      /\ q["active"] \in Int /\ q["alert"] \in Days \cup {Never}
      /\ q["seen"] \in Int /\ q["stage"] \in Stage
  <2> HIDE DEF q
  <2> QED
    BY <1>3 DEF Person
<1>5. DOMAIN q = Column
  BY <1>1
<1>6. q = [prefs |-> q["prefs"], streak |-> q["streak"], frozen |-> q["frozen"],
           active |-> q["active"], alert |-> q["alert"], seen |-> q["seen"],
           stage |-> q["stage"]]
  BY <1>1
<1>7. q \in Person
  <2> HIDE DEF q
  <2> QED
    BY <1>4, <1>6 DEF Person
<1> QED
  BY <1>2, <1>7

-----------------------------------------------------------------------------
(* Types.                                                                    *)

LEMMA OpsAreTyped == RequestOps \subseteq Ops /\ {NoOp} \cup PassOps \subseteq Ops
<1>1. 0 \in Time
  BY NotificationsAssumption DEF Time
<1>2. ASSUME NEW o \in RequestOps PROVE o \in Ops
  BY <1>1, <1>2 DEF RequestOps, Ops
<1>3. ASSUME NEW o \in {NoOp} \cup PassOps PROVE o \in Ops
  BY <1>3 DEF PassOps, Ops, Entry
<1> QED
  BY <1>2, <1>3

\* Requests are no passes.
LEMMA SlotsApart == Slot = Request \cup PassSlot /\ Request \cap PassSlot = {}
  BY NotificationsAssumption DEF Slot, PassSlot, Pass

LEMMA SlotUpdate ==
    ASSUME SlotsTyped, NEW s \in Slot, NEW o, Goto(s, o),
           s \in Request => o \in RequestOps, s \in PassSlot => o \in {NoOp} \cup PassOps
    PROVE  /\ SlotsTyped' /\ op'[s] = o
           /\ \A z \in Slot : z # s => op'[z] = op[z]
  BY OpsAreTyped, SlotsApart DEF SlotsTyped, Goto

\* Where a pass and a request go on.
LEMMA ResumeTyped ==
    ASSUME NEW o \in PassOps
    PROVE  /\ Resume(o) \in {NoOp} \cup PassOps
           /\ Resume(o) # NoOp => /\ Resume(o).t = o.t /\ Resume(o).cursor = o.cursor
                                  /\ Resume(o).page = o.page
           /\ o.page # {} => Resume(o) # NoOp /\ Resume(o).step = "user"
           /\ o.page = {} /\ o.cursor # 0 => Resume(o) # NoOp /\ Resume(o).step = "page"
           /\ o.page = {} /\ o.cursor = 0 => Resume(o) = NoOp
<1>1. CASE o.page # {}
  BY <1>1 DEF Resume, PassOps, NoOp
<1>2. CASE o.page = {} /\ o.cursor # 0
  BY <1>2 DEF Resume, PassOps, NoOp
<1>3. CASE o.page = {} /\ o.cursor = 0
  BY <1>3 DEF Resume, PassOps, NoOp
<1> QED
  BY <1>1, <1>2, <1>3

-----------------------------------------------------------------------------
(* What a step of a pass does to what it has read.                           *)

\* The pass may still read u; it has read him; it has pushed to him, and his mark is to
\* be written.
Unread(o, u)  == o # NoOp /\ u > o.cursor /\ (o.step = "page" \/ o.cursor # 0)
Paged(o, u)   == o # NoOp /\ \E x \in o.page : x[1] = u
Written(o, u) == o.step \in {"disable", "mark"} /\ Turn(o.page)[1] = u

\* Whoever is read at a page is due, and was unread.
ReadMove(k, o, o2) ==
    /\ o.step = "page" /\ o.page = {}
    /\ o2 # NoOp => o2.t = o.t /\ o2.step \in {"page", "user"}
    /\ \A u \in User : Unread(o2, u) \/ Paged(o2, u) => Unread(o, u)
    /\ o2 # NoOp => \A x \in o2.page :
           /\ x[2] = Mark(k, x[1], o.t)
           /\ k = "alert" => person[x[1]].alert # x[2]
           /\ k = "away" => person[x[1]].stage < x[2]

\* The turn is read, pushed to, and its tokens disabled.
TurnMove(o, o2) ==
    /\ o.page # {} /\ o2 # NoOp
    /\ o2.t = o.t /\ o2.cursor = o.cursor /\ o2.page = o.page
    /\ \/ o.step = "user" /\ o2.step \in {"push", "mark"}
       \/ o.step = "push" /\ o2.step \in {"disable", "mark"}
       \/ o.step = "disable" /\ o2.step = "mark"

\* The turn is over.
MarkMove(o, o2) ==
    /\ o.step = "mark" /\ o.page # {}
    /\ o2 # NoOp => /\ o2.t = o.t /\ o2.cursor = o.cursor
                    /\ o2.page = o.page \ {Turn(o.page)} /\ o2.step \in {"page", "user"}
                    /\ o2.step = "page" => o.cursor # 0
    /\ o2 = NoOp => o.page = {Turn(o.page)} /\ o.cursor = 0

\* The users of a page come after the cursor.
LEMMA PageIsNew ==
    ASSUME NEW k, NEW t, NEW c \in User \cup {0}, NEW u \in Page(k, t, c)
    PROVE  u \in User /\ Selected(k, u, t) /\ (c = 0 \/ u > c)
<1> DEFINE rows == {v \in User : Selected(k, v, t) /\ v >= c}
<1>1. u \in rows /\ (c # 0 => Cardinality({v \in rows : v < u}) \in 1..(1 + Batch - 1))
  BY DEF Page
<1>2. User \subseteq Nat
  BY NotificationsAssumption DEF User
<1>3. ASSUME c # 0, u = c PROVE FALSE
  <2>1. ASSUME NEW v \in rows PROVE ~(v < u)
    <3>1. v \in Nat /\ v >= c
      BY <1>2
    <3>2. u \in Nat /\ u = c
      BY <1>1, <1>2, <1>3
    <3> QED
      BY <3>1, <3>2
  <2>2. {v \in rows : v < u} = {}
    BY <2>1
  <2>3. Cardinality({v \in rows : v < u}) = 0
    BY <2>2, FS_EmptySet
  <2> QED
    BY <1>1, <1>3, <2>3
<1> QED
  BY <1>1, <1>2, <1>3

\* A pass reads its next page.
ReadStep(j, k, o, o2) ==
    /\ op[<<j, k>>] = o /\ op' = [op EXCEPT ![<<j, k>>] = o2]
    /\ Formed(k, o) => ReadMove(k, o, o2) /\ (o2 # NoOp => Formed(k, o2))

LEMMA ReadPageMoves ==
    ASSUME SlotsTyped, PersonsTyped, now \in Time,
           NEW j \in Job, NEW k \in Pass, ReadPage(<<j, k>>)
    PROVE  \E o \in PassOps, o2 \in {NoOp} \cup PassOps : ReadStep(j, k, o, o2)
<1> DEFINE s == <<j, k>>
<1>1. s \in PassSlot /\ s[2] = k
  BY DEF PassSlot
<1>2. PICK o : o = op[s]
  OBVIOUS
<1>3. o \in PassOps /\ o.step = "page"
  BY <1>1, <1>2 DEF SlotsTyped, ReadPage, NoOp
<1> HIDE DEF s
<1>4. o.t \in Time /\ o.cursor \in User \cup {0} /\ o.t \in Int /\ User \subseteq Nat
  BY <1>3, NotificationsAssumption DEF PassOps, Time, User
<1>5. PICK rows : rows = Page(k, o.t, o.cursor)
  OBVIOUS
<1>6. PICK due : due = {u \in rows : Due(k, u, o.t)}
  OBVIOUS
<1>7. PICK page : page = {<<u, Mark(k, u, o.t)>> : u \in due}
  OBVIOUS
<1>8. PICK last \in rows \cup {0} :
        /\ IF Cardinality(rows) = Batch THEN \A u \in rows : u <= last ELSE last = 0
        /\ op' = [op EXCEPT ![s] = Resume([o EXCEPT !.page = page, !.cursor = last])]
  <2>1. ReadPage(s)
    BY DEF s
  <2>2. /\ Page(s[2], op[s].t, op[s].cursor) = rows
        /\ {u \in rows : Due(s[2], u, op[s].t)} = due
        /\ {<<u, Mark(s[2], u, op[s].t)>> : u \in due} = page
    BY <1>1, <1>2, <1>5, <1>6, <1>7
  <2>3. LET t == op[s].t
            R == Page(s[2], t, op[s].cursor)
            D == {u \in R : Due(s[2], u, t)}
        IN \E last \in R \cup {0} :
             /\ IF Cardinality(R) = Batch THEN \A u \in R : u <= last ELSE last = 0
             /\ Goto(s, Resume([op[s] EXCEPT !.page = {<<u, Mark(s[2], u, t)>> : u \in D},
                                            !.cursor = last]))
    BY <2>1 DEF ReadPage
  <2>4. \E last \in rows \cup {0} :
          /\ IF Cardinality(rows) = Batch THEN \A u \in rows : u <= last ELSE last = 0
          /\ Goto(s, Resume([op[s] EXCEPT !.page = page, !.cursor = last]))
    BY <2>2, <2>3, Zenon
  <2> QED
    BY <1>2, <2>4 DEF Goto
<1>9. \A u \in rows : u \in User /\ Selected(k, u, o.t) /\ (o.cursor = 0 \/ u > o.cursor)
  BY <1>4, <1>5, PageIsNew
<1>10. \A u \in User : Mark(k, u, o.t) \in Days \cup Stage
  <2> TAKE u \in User
  <2>1. person[u].seen \in Int
    BY DEF PersonsTyped, Person
  <2> QED
    BY <1>4, <2>1, DaysAreInt, ReachedGrows DEF Mark
<1>11. page \in SUBSET Entry
  BY <1>6, <1>7, <1>9, <1>10 DEF Entry
<1>12. PICK q : q = [o EXCEPT !.page = page, !.cursor = last]
  OBVIOUS
<1>13. q \in PassOps /\ q.page = page /\ q.cursor = last /\ q.t = o.t /\ q.step = "page"
  BY <1>3, <1>9, <1>11, <1>12 DEF PassOps
<1>14. PICK o2 : o2 = Resume(q)
  OBVIOUS
<1>15. o2 \in {NoOp} \cup PassOps /\ op' = [op EXCEPT ![s] = o2]
  BY <1>8, <1>12, <1>13, <1>14, ResumeTyped
<1>16. /\ o2 # NoOp => o2.t = o.t /\ o2.cursor = last /\ o2.page = page
       /\ o2 # NoOp => o2.step = (IF page = {} THEN "page" ELSE "user")
       /\ o2 # NoOp => page # {} \/ last # 0
  BY <1>13, <1>14, ResumeTyped
<1>17. \A x \in page : /\ x[1] \in rows /\ x[1] \in due /\ x[2] = Mark(k, x[1], o.t)
                       /\ Due(k, x[1], o.t)
  BY <1>6, <1>7
<1>18. \A u \in rows : last = 0 \/ u <= last
  BY <1>8
<1>19. ASSUME Formed(k, o) PROVE ReadMove(k, o, o2)
  <2>1. o.page = {}
    BY <1>3, <1>19 DEF Formed
  <2>2. o2 # NoOp => o2.t = o.t /\ o2.step \in {"page", "user"}
    BY <1>16
  <2>3. ASSUME NEW u \in User, Unread(o2, u) \/ Paged(o2, u) PROVE Unread(o, u)
    <3>1. o2 # NoOp /\ (u \in rows \/ (last # 0 /\ u > last))
      BY <2>3, <1>16, <1>17 DEF Unread, Paged
    <3>2. o.cursor = 0 \/ u > o.cursor
      BY <1>4, <1>8, <1>9, <3>1
    <3>3. o # NoOp /\ u > 0
      BY <1>3, <1>4 DEF NoOp, PassOps, User
    <3> QED
      BY <1>3, <3>2, <3>3 DEF Unread
  <2>4. ASSUME NEW x \in page
        PROVE  /\ x[2] = Mark(k, x[1], o.t)
               /\ k = "alert" => person[x[1]].alert # x[2]
               /\ k = "away" => person[x[1]].stage < x[2]
    <3>1. x[1] \in User
      BY <1>9, <1>17, <2>4
    <3>2. person[x[1]].seen \in Int /\ person[x[1]].stage \in Nat
      BY <3>1, StagesAreThresholds DEF PersonsTyped, Person
    <3>3. Reached(o.t - person[x[1]].seen) \in Nat
      BY <1>4, <3>2, ReachedGrows
    <3>4. k = "alert" \/ k = "away"
      BY DEF Pass
    <3> QED
      BY <1>17, <2>4, <3>2, <3>3, <3>4 DEF Mark, Due
  <2> QED
    BY <1>3, <1>16, <2>1, <2>2, <2>3, <2>4 DEF ReadMove
<1>20. ASSUME o2 # NoOp PROVE Formed(k, o2)
  <2>1. \A x \in page : k = "alert" => x[2] = LocalDay(x[1], o.t)
    BY <1>17 DEF Mark
  <2>2. ASSUME NEW x \in page, k = "away" PROVE x[2] \in DOMAIN Threshold
    <3>1. x[1] \in User
      BY <1>9, <1>17, <2>2
    <3>2. person[x[1]].seen \in Int /\ person[x[1]].stage \in Nat
      BY <3>1, StagesAreThresholds DEF PersonsTyped, Person
    <3>3. Reached(o.t - person[x[1]].seen) \in Stage /\ Reached(o.t - person[x[1]].seen) \in Nat
      BY <1>4, <3>2, ReachedGrows
    <3>4. Reached(o.t - person[x[1]].seen) > person[x[1]].stage
      BY <1>17, <2>2 DEF Due
    <3> QED
      BY <1>17, <2>2, <3>2, <3>3, <3>4, StagesAreThresholds DEF Mark
  <2>3. \A x \in page : \A y \in page : x[1] = y[1] => x = y
    BY <1>7
  <2>4. \A x \in page : last = 0 \/ x[1] <= last
    BY <1>17, <1>18
  <2> QED
    BY <1>16, <1>20, <2>1, <2>2, <2>3, <2>4 DEF Formed
<1> QED
  BY <1>2, <1>3, <1>15, <1>19, <1>20 DEF s, ReadStep

\* What a pass with a page does next.
LEMMA StepsOfTurn ==
    ASSUME NEW o \in PassOps, NEW ts \in SUBSET Token, NEW st \in {"disable", "push", "mark"}
    PROVE  LET o2 == [o EXCEPT !.step = st, !.tokens = ts]
           IN  /\ o2 \in PassOps /\ o2.step = st /\ o2.t = o.t
               /\ o2.cursor = o.cursor /\ o2.page = o.page
  BY DEF PassOps

LEMMA SentOfTurn ==
    ASSUME NEW o \in PassOps, o.page # {}
    PROVE  /\ Sent(o) \in PassOps /\ Sent(o).step = "mark" /\ Sent(o).t = o.t
           /\ Sent(o).cursor = o.cursor /\ Sent(o).page = o.page
  BY DEF Sent, PassOps

\* Any step of a push, whosever it is: some of its tokens were rejected.
LEMMA PushSplits ==
    ASSUME NEW s \in Slot, Push(s)
    PROVE  /\ op[s].step = "push"
           /\ \E dead \in SUBSET op[s].tokens :
                /\ Goto(s, IF dead = {} THEN Sent(op[s])
                           ELSE [op[s] EXCEPT !.step = "disable", !.tokens = dead])
                /\ reported' = reported \cup dead
           /\ s \in Request => alerts' = alerts /\ aways' = aways
           /\ s \notin Request =>
                LET x == Turn(op[s].page) IN
                /\ \/ alerts' = alerts
                   \/ s[2] = "alert" /\ alerts' = [alerts EXCEPT ![x[1]][x[2]] = @ + 1]
                /\ \/ aways' = aways
                   \/ s[2] = "away" /\ aways' = [aways EXCEPT ![x[1]][x[2]] = @ + 1]
<1>1. PICK answer \in [op[s].tokens -> {"ok", "dead", "error"}] :
         LET o == op[s]
             dead == Unrecoverable(answer)
             rejected == {t \in DOMAIN answer : answer[t] = "dead"}
             counts == s \notin Request /\ \E t \in DOMAIN answer : answer[t] = "ok"
             to == IF s \in Request THEN <<Nobody, Never>> ELSE Turn(o.page)
             u == to[1]
         IN /\ Goto(s, IF dead = {} THEN Sent(o)
                       ELSE [o EXCEPT !.step = "disable", !.tokens = dead])
            /\ reported' = reported \cup rejected
            /\ alerts' = IF counts /\ s[2] = "alert"
                         THEN [alerts EXCEPT ![u][to[2]] = @ + 1] ELSE alerts
            /\ aways' = IF counts /\ s[2] = "away"
                        THEN [aways EXCEPT ![u][to[2]] = @ + 1] ELSE aways
            /\ late' = IF counts /\ s[2] = "alert" /\ StreakLost(u) THEN late \cup {u} ELSE late
  BY DEF Push
<1>2. PICK dead : dead = Unrecoverable(answer)
  OBVIOUS
<1>3. dead \in SUBSET op[s].tokens /\ dead = {t \in DOMAIN answer : answer[t] = "dead"}
  BY <1>2 DEF Unrecoverable
<1>4. /\ Goto(s, IF dead = {} THEN Sent(op[s])
                 ELSE [op[s] EXCEPT !.step = "disable", !.tokens = dead])
      /\ reported' = reported \cup dead
  BY <1>1, <1>2, <1>3
<1>5. s \in Request => alerts' = alerts /\ aways' = aways
  BY <1>1
<1>6. PICK x : x = Turn(op[s].page)
  OBVIOUS
<1>7. ASSUME s \notin Request
      PROVE  /\ \/ alerts' = alerts
                \/ s[2] = "alert" /\ alerts' = [alerts EXCEPT ![x[1]][x[2]] = @ + 1]
             /\ \/ aways' = aways
                \/ s[2] = "away" /\ aways' = [aways EXCEPT ![x[1]][x[2]] = @ + 1]
  BY <1>1, <1>6, <1>7
<1> QED
  BY <1>3, <1>4, <1>5, <1>6, <1>7 DEF Push

\* A pass does the next thing about its turn.
TurnStep(j, k, o, o2) ==
    /\ op[<<j, k>>] = o /\ op' = [op EXCEPT ![<<j, k>>] = o2]
    /\ TurnMove(o, o2) /\ Formed(k, o) /\ Formed(k, o2)
    /\ Push(<<j, k>>) <=> o.step = "push"

LEMMA TurnMoves ==
    ASSUME SlotsTyped, PassesFormed, NEW j \in Job, NEW k \in Pass,
           Remind(<<j, k>>) \/ Push(<<j, k>>) \/ DisableTokens(<<j, k>>)
    PROVE  \E o \in PassOps, o2 \in PassOps : TurnStep(j, k, o, o2)
<1> DEFINE s == <<j, k>>
<1>1. s \in PassSlot /\ s \in Slot
  BY SlotsApart DEF PassSlot
<1>2. PICK o : o = op[s]
  OBVIOUS
<1>3. o.step \in {"user", "push", "disable"}
  BY <1>2 DEF Remind, Push, DisableTokens
<1>4. o # NoOp /\ o \in PassOps
  BY <1>1, <1>2, <1>3 DEF SlotsTyped, NoOp
<1>5. Formed(k, o) /\ o.page # {}
  BY <1>2, <1>3, <1>4 DEF PassesFormed, Formed
<1> HIDE DEF s
<1>6. \E o2 \in PassOps : op' = [op EXCEPT ![s] = o2] /\ TurnMove(o, o2)
  <2>1. CASE Remind(s)
    <3>1. PICK ts \in SUBSET Token : ts = ActiveTokens(Turn(o.page)[1])
      BY DEF ActiveTokens
    <3>2. o.step = "user" /\ op' = [op EXCEPT ![s] =
             IF ts = {} THEN Sent(o) ELSE [o EXCEPT !.step = "push", !.tokens = ts]]
      BY <1>2, <2>1, <3>1 DEF Remind, Goto
    <3>3. CASE ts = {}
      <4>1. PICK o2 : o2 = Sent(o)
        OBVIOUS
      <4>2. /\ o2 \in PassOps /\ o2.step = "mark" /\ o2.t = o.t /\ o2.cursor = o.cursor
            /\ o2.page = o.page /\ o2 # NoOp
        BY <1>4, <1>5, <4>1, SentOfTurn DEF NoOp
      <4> QED
        BY <1>4, <1>5, <3>2, <3>3, <4>1, <4>2 DEF TurnMove
    <3>4. CASE ts # {}
      <4>1. PICK o2 : o2 = [o EXCEPT !.step = "push", !.tokens = ts]
        OBVIOUS
      <4>2. /\ o2 \in PassOps /\ o2.step = "push" /\ o2.t = o.t /\ o2.cursor = o.cursor
            /\ o2.page = o.page
        BY <1>4, <4>1 DEF PassOps
      <4> QED
        BY <1>5, <3>2, <3>4, <4>1, <4>2 DEF TurnMove, PassOps, NoOp
    <3> QED
      BY <3>3, <3>4
  <2>2. CASE Push(s)
    <3>1. PICK dead \in SUBSET o.tokens : Goto(s, IF dead = {} THEN Sent(o)
                           ELSE [o EXCEPT !.step = "disable", !.tokens = dead])
      BY <1>1, <1>2, <2>2, PushSplits
    <3>2. o.step = "push" /\ dead \in SUBSET Token
      BY <1>2, <1>4, <2>2 DEF Push, PassOps
    <3>3. CASE dead = {}
      <4>1. PICK o2 : o2 = Sent(o)
        OBVIOUS
      <4>2. /\ o2 \in PassOps /\ o2.step = "mark" /\ o2.t = o.t /\ o2.cursor = o.cursor
            /\ o2.page = o.page /\ o2 # NoOp
        BY <1>4, <1>5, <4>1, SentOfTurn DEF NoOp
      <4> QED
        BY <1>4, <1>5, <3>1, <3>2, <3>3, <4>1, <4>2 DEF TurnMove, Goto
    <3>4. CASE dead # {}
      <4>1. PICK o2 : o2 = [o EXCEPT !.step = "disable", !.tokens = dead]
        OBVIOUS
      <4>2. /\ o2 \in PassOps /\ o2.step = "disable" /\ o2.t = o.t /\ o2.cursor = o.cursor
            /\ o2.page = o.page
        BY <1>4, <3>2, <4>1 DEF PassOps
      <4> QED
        BY <1>5, <3>1, <3>2, <3>4, <4>1, <4>2 DEF TurnMove, PassOps, NoOp, Goto
    <3> QED
      BY <3>3, <3>4
  <2>3. CASE DisableTokens(s)
    <3>1. PICK o2 : o2 = Sent(o)
      OBVIOUS
    <3>2. /\ o2 \in PassOps /\ o2.step = "mark" /\ o2.t = o.t /\ o2.cursor = o.cursor
          /\ o2.page = o.page /\ o2 # NoOp
      BY <1>4, <1>5, <3>1, SentOfTurn DEF NoOp
    <3> QED
      BY <1>4, <1>5, <1>2, <2>3, <3>1, <3>2 DEF TurnMove, DisableTokens, Goto
  <2> QED
    BY <2>1, <2>2, <2>3 DEF s
<1>7. PICK o2 \in PassOps : op' = [op EXCEPT ![s] = o2] /\ TurnMove(o, o2)
  BY <1>6
<1>8. Formed(k, o2)
  <2>1. o2.step # "page" /\ o2.page = o.page /\ o2.cursor = o.cursor /\ o2.t = o.t
    BY <1>7 DEF TurnMove
  <2> QED
    BY <1>5, <2>1 DEF Formed
<1>9. Push(s) => o.step = "push"
  BY <1>2 DEF Push
<1>10. o.step = "push" => Push(s)
  BY <1>2 DEF Remind, DisableTokens, s
<1> QED
  BY <1>2, <1>4, <1>5, <1>7, <1>8, <1>9, <1>10 DEF s, TurnStep

\* A pass writes the mark x of its turn.
MarkStep(j, k, o, o2, x) ==
    /\ op[<<j, k>>] = o /\ op' = [op EXCEPT ![<<j, k>>] = o2]
    /\ x = Turn(o.page) /\ x \in o.page
    /\ MarkMove(o, o2) /\ Formed(k, o) /\ (o2 # NoOp => Formed(k, o2))
    /\ person' = [person EXCEPT ![x[1]] = IF k = "alert" THEN [@ EXCEPT !.alert = x[2]]
                                          ELSE [@ EXCEPT !.stage = x[2]]]
    /\ k = "away" /\ Syncing(x[1]) # {} => mixed' = mixed \cup {x[1]}
    /\ ~(k = "away" /\ Syncing(x[1]) # {}) => mixed' = mixed

LEMMA MarkMoves ==
    ASSUME SlotsTyped, PassesFormed, NEW j \in Job, NEW k \in Pass, WriteMark(<<j, k>>)
    PROVE  \E o \in PassOps, o2 \in {NoOp} \cup PassOps, x \in Entry : MarkStep(j, k, o, o2, x)
<1> DEFINE s == <<j, k>>
<1>1. s \in PassSlot /\ s \in Slot /\ s[2] = k
  BY SlotsApart DEF PassSlot
<1>2. PICK o : o = op[s]
  OBVIOUS
<1>3. o.step = "mark"
  BY <1>2 DEF WriteMark
<1>4. o # NoOp /\ o \in PassOps
  BY <1>1, <1>2, <1>3 DEF SlotsTyped, NoOp
<1>5. Formed(k, o) /\ o.page # {} /\ o.page \in SUBSET Entry
  BY <1>2, <1>3, <1>4 DEF PassesFormed, Formed, PassOps
<1> HIDE DEF s
<1>6. PICK x : x = Turn(o.page)
  OBVIOUS
<1>7. x \in o.page /\ x \in Entry
  BY <1>5, <1>6, TurnIsFirst
<1>8. WriteMark(s)
  BY DEF s
<1>9. PICK q : q = [o EXCEPT !.page = @ \ {Turn(@)}]
  OBVIOUS
<1>10. PICK o2 : o2 = Resume(q)
  OBVIOUS
<1>11. op' = [op EXCEPT ![s] = o2]
  BY <1>2, <1>8, <1>9, <1>10 DEF WriteMark, Goto
<1>12. q \in PassOps /\ q.page = o.page \ {x} /\ q.cursor = o.cursor /\ q.t = o.t
  BY <1>4, <1>6, <1>9 DEF PassOps
<1>13. /\ o2 \in {NoOp} \cup PassOps
       /\ o2 # NoOp => /\ o2.t = o.t /\ o2.cursor = o.cursor /\ o2.page = o.page \ {x}
       /\ o2 # NoOp => o2.step = (IF o.page \ {x} = {} THEN "page" ELSE "user")
       /\ o2 = NoOp => o.page \ {x} = {} /\ o.cursor = 0
       /\ o2 # NoOp /\ o2.step = "page" => o.cursor # 0
  BY <1>10, <1>12, ResumeTyped
<1>14. MarkMove(o, o2)
  BY <1>3, <1>5, <1>6, <1>7, <1>13 DEF MarkMove
<1>15. ASSUME o2 # NoOp PROVE Formed(k, o2)
  BY <1>5, <1>13, <1>15 DEF Formed
<1>16. person' = [person EXCEPT ![x[1]] = IF k = "alert" THEN [@ EXCEPT !.alert = x[2]]
                                          ELSE [@ EXCEPT !.stage = x[2]]]
  BY <1>1, <1>2, <1>6, <1>8 DEF WriteMark
<1>17. mixed' = IF k = "away" /\ Syncing(x[1]) # {} THEN mixed \cup {x[1]} ELSE mixed
  BY <1>1, <1>2, <1>6, <1>8 DEF WriteMark
<1>18. /\ k = "away" /\ Syncing(x[1]) # {} => mixed' = mixed \cup {x[1]}
       /\ ~(k = "away" /\ Syncing(x[1]) # {}) => mixed' = mixed
  BY <1>17
<1> QED
  BY <1>2, <1>4, <1>5, <1>6, <1>7, <1>11, <1>13, <1>14, <1>15, <1>16, <1>18 DEF s, MarkStep

-----------------------------------------------------------------------------
(* What a request does.                                                      *)

\* The steps of a request.
Requests(r) ==
    \/ Push(r) \/ DisableTokens(r) \/ RequestStep(r)
    \/ \E u \in User : SendToUser(r, u) \/ FriendPush(r, u) \/ Open(r, u)
    \/ \E A \in Segments : Broadcast(r, A)

LEMMA SendTyped ==
    ASSUME NEW r, NEW ts \in SUBSET Token, Send(r, ts)
    PROVE  \E o2 \in RequestOps : Goto(r, o2) /\ o2.step \notin {"sync", "disable"}
<1>1. CASE ts = {}
  BY <1>1 DEF Send, RequestOps, NoOp
<1>2. CASE ts # {}
  <2>1. Sending(ts) \in RequestOps /\ Sending(ts).step = "push"
    BY DEF Sending, RequestOps
  <2> QED
    BY <1>2, <2>1 DEF Send
<1> QED
  BY <1>1, <1>2

LEMMA RequestMoves ==
    ASSUME SlotsTyped, PersonsTyped, now \in Time, NEW r \in Request, Requests(r)
    PROVE  \E o2 \in RequestOps :
             /\ Goto(r, o2)
             /\ o2.step = "sync" => o2.row = person[o2.u] /\ person' = person /\ mixed' = mixed
             /\ o2.step = "disable" => o2.tokens \subseteq reported'
<1>1. op[r] \in RequestOps /\ r \in Slot
  BY SlotsApart DEF SlotsTyped
<1>2. CASE Push(r)
  <2>1. PICK dead \in SUBSET op[r].tokens :
          /\ Goto(r, IF dead = {} THEN Sent(op[r])
                     ELSE [op[r] EXCEPT !.step = "disable", !.tokens = dead])
          /\ reported' = reported \cup dead
    BY <1>1, <1>2, PushSplits
  <2>2. op[r].step = "push" /\ op[r].page = {} /\ op[r].tokens \in SUBSET Token
    BY <1>1, <1>2 DEF Push, RequestOps, NoOp
  <2>3. Sent(op[r]) = NoOp /\ NoOp \in RequestOps /\ NoOp.step = "none"
    BY <2>2 DEF Sent, RequestOps, NoOp
  <2>4. PICK o2 : o2 = [op[r] EXCEPT !.step = "disable", !.tokens = dead]
    OBVIOUS
  <2>5. o2 \in RequestOps /\ o2.step = "disable" /\ o2.tokens = dead
    <3> DEFINE P == [step : {"push", "disable"}, t : {0}, cursor : {0}, page : {{}},
                     tokens : SUBSET Token]
    <3>1. op[r] \in P
      BY <1>1, <2>2 DEF RequestOps, NoOp
    <3>2. o2 \in P /\ o2.step = "disable" /\ o2.tokens = dead
      BY <2>2, <2>4, <3>1
    <3> QED
      BY <3>2 DEF RequestOps
  <2> QED
    BY <2>1, <2>3, <2>4, <2>5
<1>3. CASE DisableTokens(r)
  <2>1. op[r].step = "disable" /\ op[r].page = {}
    BY <1>1, <1>3 DEF DisableTokens, RequestOps, NoOp
  <2>2. Sent(op[r]) = NoOp /\ NoOp \in RequestOps /\ NoOp.step = "none"
    BY <2>1 DEF Sent, RequestOps, NoOp
  <2> QED
    BY <1>3, <2>2 DEF DisableTokens
<1>4. NoOp \in RequestOps /\ NoOp.step = "none"
  BY DEF RequestOps, NoOp
<1>5. \A u : ActiveTokens(u) \in SUBSET Token
  BY DEF ActiveTokens
<1>6. CASE AcquireFriendPushSlot(r)
  <2>1. \/ \E u : Send(r, ActiveTokens(u))
        \/ Goto(r, NoOp)
    BY <1>6 DEF AcquireFriendPushSlot
  <2> QED
    BY <1>4, <1>5, <2>1, SendTyped
<1>7. CASE SyncUserState(r)
  BY <1>4, <1>7 DEF SyncUserState
<1>8. ASSUME NEW u \in User, SendToUser(r, u) PROVE \E ts \in SUBSET Token : Send(r, ts)
  BY <1>5, <1>8 DEF SendToUser
<1>9. ASSUME NEW A \in Segments, Broadcast(r, A) PROVE \E ts \in SUBSET Token : Send(r, ts)
  <2>1. UNION {ActiveTokens(u) : u \in A} \in SUBSET Token
    BY <1>5
  <2> QED
    BY <1>9, <2>1 DEF Broadcast
<1>10. ASSUME NEW u \in User, FriendPush(r, u) PROVE \E o2 \in RequestOps :
         Goto(r, o2) /\ o2.step = "friend"
  BY <1>10 DEF FriendPush, RequestOps
<1>11. ASSUME NEW u \in User, Open(r, u) PROVE \E o2 \in RequestOps :
         /\ Goto(r, o2) /\ o2.step = "sync" /\ o2.row = person[o2.u]
         /\ person' = person /\ mixed' = mixed
  <2>1. PICK o2 : o2 = [step |-> "sync", u |-> u, t |-> now, row |-> person[u]]
    OBVIOUS
  <2>2. o2 \in RequestOps /\ o2.step = "sync" /\ o2.row = person[o2.u]
    BY <2>1 DEF RequestOps, PersonsTyped
  <2> QED
    BY <1>11, <2>1, <2>2 DEF Open, history
<1> QED
  BY <1>2, <1>3, <1>6, <1>7, <1>8, <1>9, <1>10, <1>11, SendTyped DEF Requests, RequestStep

-----------------------------------------------------------------------------
(* The types are invariant.                                                  *)

\* The steps of the passes, those of requests, and the others.
LEMMA StepCases ==
    ASSUME [NotificationsNext]_notificationsVars
    PROVE  \/ UNCHANGED notificationsVars \/ ClockTicks \/ LockExpires
           \/ \E j \in Job : RunReminders(j) \/ RemindersEnd(j) \/ Die(j)
           \/ \E j \in Job, k \in Pass : ReadPage(<<j, k>>) \/ WriteMark(<<j, k>>)
           \/ \E j \in Job, k \in Pass : Remind(<<j, k>>) \/ Push(<<j, k>>) \/ DisableTokens(<<j, k>>)
           \/ \E r \in Request : Requests(r)
           \/ \E u \in User : CooldownEnds(u) \/ Play(u) \/ \E c \in Prefs : UpdatePrefs(u, c)
           \/ \E u \in User, t \in Token : RegisterToken(u, t) \/ RemoveToken(u, t)
<1>1. ASSUME NEW s \in Slot, Step(s)
      PROVE  \/ \E j \in Job, k \in Pass : ReadPage(<<j, k>>) \/ WriteMark(<<j, k>>)
             \/ \E j \in Job, k \in Pass : Remind(<<j, k>>) \/ Push(<<j, k>>) \/ DisableTokens(<<j, k>>)
             \/ \E r \in Request : Requests(r)
  <2>1. CASE s \in Request
    BY <1>1, <2>1 DEF Step, Requests
  <2>2. CASE s \notin Request
    <3>1. PICK j \in Job, k \in Pass : s = <<j, k>>
      BY <2>2, SlotsApart DEF PassSlot
    <3> QED
      BY <1>1, <3>1 DEF Step
  <2> QED
    BY <2>1, <2>2
<1>2. CASE UNCHANGED notificationsVars
  BY <1>2
<1>3. CASE NotificationsNext
  BY <1>1, <1>3, Zenon DEF NotificationsNext, Requests
<1> QED
  BY <1>2, <1>3

\* The lock, the processes and the clock.
CoreTyped   == /\ now \in Time /\ slot \subseteq User
               /\ lock \in Job \cup {Nobody} /\ running \subseteq Job
CountsTyped == sends \in 0..MaxSends /\ visits \in 0..MaxVisits /\ faults \in 0..MaxFaults
TokensTyped == token \in [Token -> [user : User \cup {Nobody}, off : BOOLEAN]]

AllTyped == /\ CoreTyped /\ CountsTyped /\ TokensTyped /\ PersonsTyped
            /\ SlotsTyped /\ HistoryTyped

LEMMA CoreStep ==
    ASSUME AllTyped, [NotificationsNext]_notificationsVars
    PROVE  CoreTyped' /\ CountsTyped' /\ TokensTyped'
<1> USE DEF AllTyped, CoreTyped, CountsTyped, TokensTyped
<1>0. {MaxTime, MaxSends, MaxVisits, MaxFaults, MaxMixed} \subseteq Nat
  BY NotificationsAssumption
<1>1. CASE UNCHANGED notificationsVars
  BY <1>1 DEF notificationsVars
<1>2. CASE ClockTicks
  BY <1>0, <1>2 DEF ClockTicks, Time
<1>3. CASE LockExpires
  BY <1>0, <1>3 DEF LockExpires, Fault
<1>4. ASSUME NEW j \in Job, RunReminders(j) \/ RemindersEnd(j) \/ Die(j)
      PROVE  CoreTyped' /\ CountsTyped' /\ TokensTyped'
  BY <1>0, <1>4 DEF RunReminders, RemindersEnd, Die, Fault
<1>5. ASSUME NEW s, ReadPage(s) \/ WriteMark(s) \/ Remind(s) \/ Push(s)
      PROVE  CoreTyped' /\ CountsTyped' /\ TokensTyped'
  BY <1>5 DEF ReadPage, WriteMark, Remind, Push
<1>6. ASSUME NEW s, DisableTokens(s)
      PROVE  CoreTyped' /\ CountsTyped' /\ TokensTyped'
  <2>1. \A t \in Token : [token[t] EXCEPT !.off = TRUE] \in [user : User \cup {Nobody}, off : BOOLEAN]
    OBVIOUS
  <2> QED
    BY <1>6, <2>1 DEF DisableTokens
<1>7. ASSUME NEW r \in Request, RequestStep(r)
      PROVE  CoreTyped' /\ CountsTyped' /\ TokensTyped'
  <2>1. CASE AcquireFriendPushSlot(r)
    <3>1. op[r].step = "friend" /\ op[r] \in RequestOps
      BY <2>1 DEF AcquireFriendPushSlot, SlotsTyped
    <3>2. op[r].u \in User
      BY <3>1 DEF RequestOps, NoOp
    <3> QED
      BY <2>1, <3>2 DEF AcquireFriendPushSlot
  <2>2. CASE SyncUserState(r)
    BY <2>2 DEF SyncUserState
  <2> QED
    BY <1>7, <2>1, <2>2 DEF RequestStep
<1>8. ASSUME NEW r \in Request, NEW u \in User, SendToUser(r, u) \/ FriendPush(r, u) \/ Open(r, u)
      PROVE  CoreTyped' /\ CountsTyped' /\ TokensTyped'
  BY <1>0, <1>8 DEF SendToUser, FriendPush, Open, Sends, Visit
<1>9. ASSUME NEW r \in Request, NEW A \in Segments, Broadcast(r, A)
      PROVE  CoreTyped' /\ CountsTyped' /\ TokensTyped'
  BY <1>0, <1>9 DEF Broadcast, Sends
<1>10. ASSUME NEW u \in User, CooldownEnds(u) \/ Play(u) \/ \E c \in Prefs : UpdatePrefs(u, c)
       PROVE  CoreTyped' /\ CountsTyped' /\ TokensTyped'
  BY <1>0, <1>10 DEF CooldownEnds, Play, UpdatePrefs, Visit
<1>11. ASSUME NEW u \in User, NEW t \in Token, RegisterToken(u, t) \/ RemoveToken(u, t)
       PROVE  CoreTyped' /\ CountsTyped' /\ TokensTyped'
  <2>1. \A v \in User \cup {Nobody} :
          [token EXCEPT ![t] = [user |-> v, off |-> FALSE]]
            \in [Token -> [user : User \cup {Nobody}, off : BOOLEAN]]
    OBVIOUS
  <2>2. token' \in [Token -> [user : User \cup {Nobody}, off : BOOLEAN]]
    <3>1. ASSUME RegisterToken(u, t)
          PROVE  token' \in [Token -> [user : User \cup {Nobody}, off : BOOLEAN]]
      BY <2>1, <3>1 DEF RegisterToken
    <3>2. ASSUME RemoveToken(u, t)
          PROVE  token' \in [Token -> [user : User \cup {Nobody}, off : BOOLEAN]]
      BY <2>1, <3>2 DEF RemoveToken
    <3> QED
      BY <1>11, <3>1, <3>2
  <2> QED
    BY <1>0, <1>11, <2>2 DEF RegisterToken, RemoveToken, Sends
<1> HIDE DEF AllTyped, CoreTyped, CountsTyped, TokensTyped
<1>12. ASSUME NEW r \in Request, Requests(r)
       PROVE  CoreTyped' /\ CountsTyped' /\ TokensTyped'
  BY <1>5, <1>6, <1>7, <1>8, <1>9, <1>12 DEF Requests
<1> QED
  BY <1>1, <1>2, <1>3, <1>4, <1>5, <1>6, <1>10, <1>11, <1>12, StepCases

\* Who touches the users, and how.
LEMMA PersonsStep ==
    ASSUME AllTyped, PassesFormed, [NotificationsNext]_notificationsVars
    PROVE  PersonsTyped'
<1> USE DEF AllTyped
<1>1. CASE person' = person
  BY <1>1 DEF PersonsTyped
<1>2. ASSUME NEW j \in Job, NEW k \in Pass, WriteMark(<<j, k>>) PROVE PersonsTyped'
  <2>1. PICK o \in PassOps, o2 \in {NoOp} \cup PassOps, x \in Entry : MarkStep(j, k, o, o2, x)
    BY <1>2, MarkMoves
  <2>2. x[1] \in User /\ o.t \in Time
    BY DEF Entry, PassOps
  <2> USE DEF MarkStep
  <2>3. CASE k = "alert"
    <3>1. x[2] \in Days
      BY <2>1, <2>2, <2>3, DaysAreInt DEF Formed
    <3>2. [person[x[1]] EXCEPT !.alert = x[2]] \in Person
      BY <2>2, <3>1 DEF PersonsTyped, Person
    <3> QED
      BY <2>1, <2>2, <2>3, <3>2 DEF PersonsTyped
  <2>4. CASE k = "away"
    <3>1. x[2] \in Stage
      BY <2>1, <2>4, StagesAreThresholds DEF Formed
    <3>2. [person[x[1]] EXCEPT !.stage = x[2]] \in Person
      BY <2>2, <3>1 DEF PersonsTyped, Person
    <3> QED
      BY <2>1, <2>2, <2>4, <3>2 DEF PersonsTyped
  <2> QED
    BY <2>3, <2>4 DEF Pass
<1>3. ASSUME NEW r \in Request, SyncUserState(r) PROVE PersonsTyped'
  <2>1. op[r].step = "sync" /\ op[r] \in RequestOps
    BY <1>3 DEF SyncUserState, SlotsTyped
  <2>2. op[r].u \in User /\ op[r].t \in Time /\ op[r].row \in Person
    BY <2>1 DEF RequestOps, NoOp
  <2>3. PICK new : new = Synced(op[r].row, op[r].u, op[r].t)
    OBVIOUS
  <2>4. person' = [person EXCEPT ![op[r].u] =
                    [c \in DOMAIN @ |-> IF new[c] # op[r].row[c] THEN new[c] ELSE @[c]]]
    BY <1>3, <2>3 DEF SyncUserState
  <2>5. new \in Person
    BY <2>2, <2>3, SyncedPerson
  <2>6. [c \in DOMAIN person[op[r].u] |->
           IF new[c] # op[r].row[c] THEN new[c] ELSE person[op[r].u][c]] \in Person
    BY <2>2, <2>5, MergedPerson, ZenonT(60) DEF PersonsTyped
  <2> QED
    BY <2>2, <2>4, <2>6 DEF PersonsTyped
<1>4. ASSUME NEW u \in User, Play(u) PROVE PersonsTyped'
  <2>1. LocalDay(u, now) \in Int
    BY DaysAreInt DEF CoreTyped
  <2>2. [person[u] EXCEPT !.streak = TRUE, !.frozen = FALSE, !.active = LocalDay(u, now)] \in Person
    BY <2>1 DEF PersonsTyped, Person
  <2>3. person' = [person EXCEPT ![u] =
           [person[u] EXCEPT !.streak = TRUE, !.frozen = FALSE, !.active = LocalDay(u, now)]]
    BY <1>4 DEF Play
  <2> QED
    BY <2>2, <2>3 DEF PersonsTyped
<1>5. ASSUME NEW u \in User, NEW c \in Prefs, UpdatePrefs(u, c) PROVE PersonsTyped'
  <2>1. Toggled(person[u], c) \in Person
    BY DEF PersonsTyped, Person, Toggled
  <2> QED
    BY <1>5, <2>1 DEF UpdatePrefs, PersonsTyped
<1>6. ASSUME NEW r \in Request, Requests(r), person' # person PROVE SyncUserState(r)
  BY <1>6 DEF Requests, RequestStep, Push, DisableTokens, AcquireFriendPushSlot, SendToUser,
              FriendPush, Open, Broadcast
<1>7. ASSUME NEW s, ReadPage(s) \/ Remind(s) \/ Push(s) \/ DisableTokens(s)
      PROVE  person' = person
  BY <1>7 DEF ReadPage, Remind, Push, DisableTokens
<1>8. ASSUME NEW j, \/ ClockTicks \/ LockExpires \/ RunReminders(j) \/ RemindersEnd(j) \/ Die(j)
                    \/ UNCHANGED notificationsVars
      PROVE  person' = person
  BY <1>8 DEF ClockTicks, LockExpires, RunReminders, RemindersEnd, Die, notificationsVars
<1>9. ASSUME NEW u, NEW t, CooldownEnds(u) \/ RegisterToken(u, t) \/ RemoveToken(u, t)
      PROVE  person' = person
  BY <1>9 DEF CooldownEnds, RegisterToken, RemoveToken
<1> QED
  BY <1>1, <1>2, <1>3, <1>4, <1>5, <1>6, <1>7, <1>8, <1>9, StepCases

\* The passes are as they were; so are the absences, and the marks of the users.
PassesSame ==
    /\ \A j \in Job, k \in Pass : op'[<<j, k>>] = op[<<j, k>>]
    /\ running' = running /\ lock' = lock /\ excused' = excused /\ now' = now
    /\ alerts' = alerts
AwaysSame ==
    /\ aways' = aways
    /\ \A u \in User : /\ person'[u].alert = person[u].alert
                       /\ person'[u].stage = person[u].stage
                       /\ person'[u].seen = person[u].seen

LEMMA RequestsQuiet ==
    ASSUME AllTyped, NEW r \in Request, Requests(r)
    PROVE  PassesSame /\ (AwaysSame \/ SyncUserState(r))
<1>1. PICK o2 : Goto(r, o2)
  BY RequestMoves, Zenon DEF AllTyped, CoreTyped
<1>2. \A j \in Job, k \in Pass : op'[<<j, k>>] = op[<<j, k>>]
  <2>1. op \in [Slot -> Ops]
    BY DEF AllTyped, SlotsTyped
  <2>2. \A j \in Job, k \in Pass : <<j, k>> # r /\ <<j, k>> \in Slot
    BY SlotsApart DEF PassSlot
  <2> QED
    BY <1>1, <2>1, <2>2 DEF Goto
<1>3. ASSUME Push(r) PROVE alerts' = alerts /\ aways' = aways
  BY <1>3, PushSplits, SlotsApart
<1>4. /\ running' = running /\ lock' = lock /\ excused' = excused /\ now' = now
      /\ alerts' = alerts
  <2>1. CASE Push(r)
    BY <1>3, <2>1 DEF Push
  <2>2. CASE DisableTokens(r) \/ RequestStep(r)
    BY <2>2 DEF DisableTokens, RequestStep, AcquireFriendPushSlot, SyncUserState, history
  <2>3. ASSUME NEW u \in User, SendToUser(r, u) \/ FriendPush(r, u) \/ Open(r, u)
        PROVE  /\ running' = running /\ lock' = lock /\ excused' = excused /\ now' = now
               /\ alerts' = alerts
    BY <2>3 DEF SendToUser, FriendPush, Open, history
  <2>4. ASSUME NEW A \in Segments, Broadcast(r, A)
        PROVE  /\ running' = running /\ lock' = lock /\ excused' = excused /\ now' = now
               /\ alerts' = alerts
    BY <2>4 DEF Broadcast, history
  <2> QED
    BY <2>1, <2>2, <2>3, <2>4 DEF Requests
<1>5. ASSUME ~SyncUserState(r) PROVE aways' = aways /\ person' = person
  <2>1. CASE Push(r)
    BY <1>3, <2>1 DEF Push
  <2>2. CASE DisableTokens(r) \/ RequestStep(r)
    BY <1>5, <2>2 DEF DisableTokens, RequestStep, AcquireFriendPushSlot, history
  <2>3. ASSUME NEW u \in User, SendToUser(r, u) \/ FriendPush(r, u) \/ Open(r, u)
        PROVE  aways' = aways /\ person' = person
    BY <2>3 DEF SendToUser, FriendPush, Open, history
  <2>4. ASSUME NEW A \in Segments, Broadcast(r, A)
        PROVE  aways' = aways /\ person' = person
    BY <2>4 DEF Broadcast, history
  <2> QED
    BY <2>1, <2>2, <2>3, <2>4 DEF Requests
<1> QED
  BY <1>2, <1>4, <1>5 DEF PassesSame, AwaysSame

LEMMA OthersQuiet ==
    ASSUME AllTyped,
           \/ UNCHANGED notificationsVars
           \/ \E u \in User : CooldownEnds(u) \/ Play(u) \/ \E c \in Prefs : UpdatePrefs(u, c)
           \/ \E u \in User, t \in Token : RegisterToken(u, t) \/ RemoveToken(u, t)
    PROVE  PassesSame /\ AwaysSame /\ op' = op
<1> USE DEF PassesSame, AwaysSame, history
<1>1. CASE UNCHANGED notificationsVars
  BY <1>1 DEF notificationsVars
<1>2. ASSUME NEW u \in User, CooldownEnds(u) PROVE PassesSame /\ AwaysSame /\ op' = op
  BY <1>2 DEF CooldownEnds
<1>3. ASSUME NEW u \in User, Play(u) PROVE PassesSame /\ AwaysSame /\ op' = op
  <2>1. PICK q : /\ person' = [person EXCEPT ![u] = q]
                 /\ q = [person[u] EXCEPT !.streak = TRUE, !.frozen = FALSE,
                                          !.active = LocalDay(u, now)]
    BY <1>3 DEF Play
  <2>2. /\ q.alert = person[u].alert /\ q.stage = person[u].stage
        /\ q.seen = person[u].seen
    BY <2>1 DEF AllTyped, PersonsTyped, Person
  <2> QED
    BY <1>3, <2>1, <2>2 DEF Play, AllTyped, PersonsTyped
<1>4. ASSUME NEW u \in User, NEW c \in Prefs, UpdatePrefs(u, c)
      PROVE  PassesSame /\ AwaysSame /\ op' = op
  <2>1. /\ Toggled(person[u], c).alert = person[u].alert
        /\ Toggled(person[u], c).stage = person[u].stage
        /\ Toggled(person[u], c).seen = person[u].seen
    BY DEF AllTyped, PersonsTyped, Person, Toggled
  <2> QED
    BY <1>4, <2>1 DEF UpdatePrefs, AllTyped, PersonsTyped
<1>5. ASSUME NEW u \in User, NEW t \in Token, RegisterToken(u, t) \/ RemoveToken(u, t)
      PROVE  PassesSame /\ AwaysSame /\ op' = op
  BY <1>5 DEF RegisterToken, RemoveToken
<1> QED
  BY <1>1, <1>2, <1>3, <1>4, <1>5

\* Writing the slot of one pass leaves every other slot as it was.
LEMMA PassFrame ==
    ASSUME SlotsTyped, NEW j \in Job, NEW k \in Pass, NEW o2 \in {NoOp} \cup PassOps,
           Goto(<<j, k>>, o2)
    PROVE  /\ op'[<<j, k>>] = o2
           /\ \A i \in Job, l \in Pass : <<i, l>> # <<j, k>> => op'[<<i, l>>] = op[<<i, l>>]
           /\ \A r \in Request : op'[r] = op[r]
<1>1. <<j, k>> \in Slot /\ <<j, k>> \notin Request
  BY SlotsApart DEF PassSlot
<1>2. op'[<<j, k>>] = o2 /\ \A z \in Slot : z # <<j, k>> => op'[z] = op[z]
  BY <1>1 DEF SlotsTyped, Goto
<1>3. \A i \in Job, l \in Pass : <<i, l>> \in Slot
  BY SlotsApart DEF PassSlot
<1>4. \A r \in Request : r \in Slot /\ r # <<j, k>>
  BY <1>1, SlotsApart
<1> QED
  BY <1>2, <1>3, <1>4

\* A step of a pass changes that pass.
LEMMA PassMoves ==
    ASSUME AllTyped, PassesFormed, NEW j \in Job, NEW k \in Pass, NEW o \in PassOps,
           NEW o2 \in {NoOp} \cup PassOps, op[<<j, k>>] = o, op' = [op EXCEPT ![<<j, k>>] = o2],
           o2 # NoOp => Formed(k, o2) /\ o2.t = o.t, running' = running, now' = now
    PROVE  /\ SlotsTyped' /\ PassesFormed' /\ op'[<<j, k>>] = o2
           /\ \A i \in Job, l \in Pass : <<i, l>> # <<j, k>> => op'[<<i, l>>] = op[<<i, l>>]
           /\ \A r \in Request : op'[r] = op[r]
           /\ j \in running /\ Formed(k, o) /\ o.t <= now
<1> DEFINE s == <<j, k>>
<1>1. s \in PassSlot /\ s \in Slot /\ s \notin Request
  BY SlotsApart DEF PassSlot
<1>2. /\ SlotsTyped' /\ op'[s] = o2
      /\ \A z \in Slot : z # s => op'[z] = op[z]
  BY <1>1, SlotUpdate DEF AllTyped, Goto
<1>3. \A i \in Job, l \in Pass : <<i, l>> \in Slot
  BY SlotsApart DEF PassSlot
<1>4. \A i \in Job, l \in Pass : <<i, l>> # <<j, k>> => op'[<<i, l>>] = op[<<i, l>>]
  BY <1>2, <1>3
<1>5. \A r \in Request : op'[r] = op[r]
  BY <1>1, <1>2, SlotsApart
<1>6. o # NoOp
  BY DEF PassOps, NoOp
<1>7. j \in running /\ Formed(k, o) /\ o.t <= now
  BY <1>6 DEF PassesFormed
<1>8. PassesFormed'
  <2> SUFFICES ASSUME NEW i \in Job, NEW l \in Pass, op'[<<i, l>>] # NoOp
               PROVE  i \in running /\ Formed(l, op'[<<i, l>>]) /\ op'[<<i, l>>].t <= now
    BY DEF PassesFormed
  <2>1. CASE <<i, l>> = <<j, k>>
    BY <1>2, <1>7, <2>1
  <2>2. CASE <<i, l>> # <<j, k>>
    BY <1>4, <2>2 DEF PassesFormed
  <2> QED
    BY <2>1, <2>2
<1> QED
  BY <1>2, <1>4, <1>5, <1>7, <1>8

LEMMA SlotsStep ==
    ASSUME AllTyped, PassesFormed, [NotificationsNext]_notificationsVars
    PROVE  SlotsTyped' /\ PassesFormed'
<1> USE DEF AllTyped
<1>1. ASSUME op' = op, running' = running, now' \in Int, now' >= now PROVE SlotsTyped' /\ PassesFormed'
  <2>1. SlotsTyped'
    BY <1>1 DEF SlotsTyped
  <2>2. ASSUME NEW i \in Job, NEW l \in Pass, op[<<i, l>>] # NoOp
        PROVE  i \in running /\ Formed(l, op[<<i, l>>]) /\ op[<<i, l>>].t <= now'
    <3>1. i \in running /\ Formed(l, op[<<i, l>>]) /\ op[<<i, l>>].t <= now
      BY <2>2 DEF PassesFormed
    <3>2. <<i, l>> \in PassSlot
      BY DEF PassSlot
    <3>3. op[<<i, l>>].t \in Int /\ now \in Int
      BY <2>2, <3>2, NotificationsAssumption DEF SlotsTyped, PassOps, Time, CoreTyped
    <3> QED
      BY <1>1, <3>1, <3>3
  <2>3. PassesFormed'
    BY <1>1, <2>2 DEF PassesFormed
  <2> QED
    BY <2>1, <2>3
<1>2. now \in Int /\ now >= now /\ now + 1 \in Int /\ now + 1 >= now
  BY NotificationsAssumption DEF CoreTyped, Time
<1>3. CASE ClockTicks \/ LockExpires
  BY <1>1, <1>2, <1>3 DEF ClockTicks, LockExpires
<1>4. ASSUME \/ UNCHANGED notificationsVars
             \/ \E u \in User : CooldownEnds(u) \/ Play(u) \/ \E c \in Prefs : UpdatePrefs(u, c)
             \/ \E u \in User, t \in Token : RegisterToken(u, t) \/ RemoveToken(u, t)
      PROVE  SlotsTyped' /\ PassesFormed'
  BY <1>1, <1>2, <1>4, OthersQuiet DEF PassesSame
<1>5. ASSUME NEW r \in Request, Requests(r) PROVE SlotsTyped' /\ PassesFormed'
  <2>1. PassesFormed'
    BY <1>5, RequestsQuiet DEF PassesSame, PassesFormed
  <2>2. PICK o2 \in RequestOps : Goto(r, o2)
    BY <1>5, RequestMoves, Zenon DEF CoreTyped
  <2>3. SlotsTyped'
    BY <2>2, SlotUpdate, SlotsApart
  <2> QED
    BY <2>1, <2>3
<1>6. ASSUME NEW j \in Job, NEW k \in Pass, ReadPage(<<j, k>>) PROVE SlotsTyped' /\ PassesFormed'
  <2>1. PICK o \in PassOps, o2 \in {NoOp} \cup PassOps : ReadStep(j, k, o, o2)
    BY <1>6, ReadPageMoves DEF CoreTyped
  <2>2. op[<<j, k>>] = o /\ op' = [op EXCEPT ![<<j, k>>] = o2]
    BY <2>1 DEF ReadStep
  <2>3. Formed(k, o)
    BY <2>2 DEF PassesFormed, PassOps, NoOp
  <2>4. o2 # NoOp => Formed(k, o2) /\ o2.t = o.t
    BY <2>1, <2>3 DEF ReadStep, ReadMove
  <2>5. running' = running /\ now' = now
    BY <1>6 DEF ReadPage
  <2> QED
    BY <2>2, <2>4, <2>5, PassMoves
<1>7. ASSUME NEW j \in Job, NEW k \in Pass, WriteMark(<<j, k>>) PROVE SlotsTyped' /\ PassesFormed'
  <2>1. PICK o \in PassOps, o2 \in {NoOp} \cup PassOps, x \in Entry : MarkStep(j, k, o, o2, x)
    BY <1>7, MarkMoves
  <2>2. /\ op[<<j, k>>] = o /\ op' = [op EXCEPT ![<<j, k>>] = o2]
        /\ o2 # NoOp => Formed(k, o2) /\ o2.t = o.t
    BY <2>1 DEF MarkStep, MarkMove
  <2>3. running' = running /\ now' = now
    BY <1>7 DEF WriteMark
  <2> QED
    BY <2>2, <2>3, PassMoves
<1>8. ASSUME NEW j \in Job, NEW k \in Pass, Remind(<<j, k>>) \/ Push(<<j, k>>) \/ DisableTokens(<<j, k>>)
      PROVE  SlotsTyped' /\ PassesFormed'
  <2>1. PICK o \in PassOps, o2 \in PassOps : TurnStep(j, k, o, o2)
    BY <1>8, TurnMoves
  <2>2. /\ op[<<j, k>>] = o /\ op' = [op EXCEPT ![<<j, k>>] = o2]
        /\ o2 # NoOp => Formed(k, o2) /\ o2.t = o.t
    BY <2>1 DEF TurnStep, TurnMove
  <2>3. running' = running /\ now' = now
    BY <1>8 DEF Remind, Push, DisableTokens
  <2> QED
    BY <2>2, <2>3, PassMoves
<1>9. ASSUME NEW j \in Job, RunReminders(j) PROVE SlotsTyped' /\ PassesFormed'
  <2>1. PICK o : o = [step |-> "page", t |-> now, cursor |-> 0, page |-> {}, tokens |-> {}]
    OBVIOUS
  <2>2. o \in PassOps /\ Formed("alert", o) /\ Formed("away", o) /\ o.t = now
    BY <2>1 DEF PassOps, CoreTyped, Formed
  <2>3. op' = [s \in Slot |-> IF s \in {j} \X Pass THEN o ELSE op[s]] /\ running' = running \cup {j}
        /\ now' = now
    BY <1>9, <2>1 DEF RunReminders
  <2>4. \A s \in Slot : op'[s] = IF s \in {j} \X Pass THEN o ELSE op[s]
    BY <2>3
  <2>5. \A s \in Request : s \in Slot /\ s \notin {j} \X Pass
    BY SlotsApart DEF PassSlot
  <2>6. SlotsTyped'
    <3>1. o \in Ops
      BY <2>2, OpsAreTyped
    <3>2. op' \in [Slot -> Ops]
      BY <2>3, <3>1 DEF SlotsTyped
    <3>3. \A r \in Request : op'[r] \in RequestOps
      BY <2>4, <2>5 DEF SlotsTyped
    <3>4. \A s \in PassSlot : op'[s] \in {NoOp} \cup PassOps
      BY <2>2, <2>4, SlotsApart DEF SlotsTyped
    <3> QED
      BY <3>2, <3>3, <3>4 DEF SlotsTyped
  <2>7. ASSUME NEW i \in Job, NEW l \in Pass, op'[<<i, l>>] # NoOp
        PROVE  i \in running' /\ Formed(l, op'[<<i, l>>]) /\ op'[<<i, l>>].t <= now
    <3>1. <<i, l>> \in Slot /\ l \in {"alert", "away"}
      BY SlotsApart DEF PassSlot, Pass
    <3>2. CASE i = j
      BY <1>2, <2>2, <2>3, <2>4, <3>1, <3>2
    <3>3. CASE i # j
      <4>1. op'[<<i, l>>] = op[<<i, l>>]
        BY <2>4, <3>1, <3>3
      <4> QED
        BY <2>3, <2>7, <4>1 DEF PassesFormed
    <3> QED
      BY <3>2, <3>3
  <2>8. PassesFormed'
    BY <2>3, <2>7 DEF PassesFormed
  <2> QED
    BY <2>6, <2>8
<1>10. ASSUME NEW j \in Job, Die(j) PROVE SlotsTyped' /\ PassesFormed'
  <2>1. op' = [s \in Slot |-> IF s \in {j} \X Pass THEN NoOp ELSE op[s]] /\ running' = running \ {j}
        /\ now' = now
    BY <1>10 DEF Die
  <2>2. \A s \in Slot : op'[s] = IF s \in {j} \X Pass THEN NoOp ELSE op[s]
    BY <2>1
  <2>3. \A s \in Request : s \in Slot /\ s \notin {j} \X Pass
    BY SlotsApart DEF PassSlot
  <2>4. SlotsTyped'
    <3>1. NoOp \in Ops
      BY OpsAreTyped
    <3>2. op' \in [Slot -> Ops]
      BY <2>1, <3>1 DEF SlotsTyped
    <3>3. \A r \in Request : op'[r] \in RequestOps
      BY <2>2, <2>3 DEF SlotsTyped
    <3>4. \A s \in PassSlot : op'[s] \in {NoOp} \cup PassOps
      BY <2>2, SlotsApart DEF SlotsTyped
    <3> QED
      BY <3>2, <3>3, <3>4 DEF SlotsTyped
  <2>5. ASSUME NEW i \in Job, NEW l \in Pass, op'[<<i, l>>] # NoOp
        PROVE  i \in running' /\ Formed(l, op'[<<i, l>>]) /\ op'[<<i, l>>].t <= now
    <3>1. <<i, l>> \in Slot /\ i # j /\ op'[<<i, l>>] = op[<<i, l>>]
      BY <2>2, <2>5, SlotsApart DEF PassSlot
    <3> QED
      BY <2>1, <2>5, <3>1 DEF PassesFormed
  <2>6. PassesFormed'
    BY <2>1, <2>5 DEF PassesFormed
  <2> QED
    BY <2>4, <2>6
<1>11. ASSUME NEW j \in Job, RemindersEnd(j) PROVE SlotsTyped' /\ PassesFormed'
  <2>1. op' = op /\ now' = now /\ running' = running \ {j} /\ \A k \in Pass : op[<<j, k>>] = NoOp
    BY <1>11 DEF RemindersEnd
  <2>2. SlotsTyped'
    BY <2>1 DEF SlotsTyped
  <2>3. PassesFormed'
    BY <2>1 DEF PassesFormed
  <2> QED
    BY <2>2, <2>3
<1> QED
  BY <1>3, <1>4, <1>5, <1>6, <1>7, <1>8, <1>9, <1>10, <1>11, StepCases

-----------------------------------------------------------------------------
(* The history, and the runs that lost the lock.                             *)

\* A push of a pass counts for the mark of its turn.
PushStep(k, o, x) ==
    /\ x = Turn(o.page) /\ x \in o.page
    /\ \/ alerts' = alerts
       \/ k = "alert" /\ x[2] \in Days /\ alerts' = [alerts EXCEPT ![x[1]][x[2]] = @ + 1]
    /\ \/ aways' = aways
       \/ k = "away" /\ x[2] \in DOMAIN Threshold /\ aways' = [aways EXCEPT ![x[1]][x[2]] = @ + 1]

LEMMA PushCounts ==
    ASSUME NEW j \in Job, NEW k \in Pass, NEW o \in PassOps, op[<<j, k>>] = o, Formed(k, o),
           Push(<<j, k>>)
    PROVE  \E x \in Entry : PushStep(k, o, x)
<1> DEFINE s == <<j, k>>
<1>1. s \in Slot /\ s \notin Request /\ s[2] = k /\ Push(s)
  BY SlotsApart DEF PassSlot
<1>2. o.step = "push" /\ o.page # {} /\ o.page \in SUBSET Entry /\ o.t \in Time
  BY DEF Push, Formed, PassOps
<1>3. PICK x : x = Turn(o.page)
  OBVIOUS
<1>4. x \in o.page /\ x \in Entry
  BY <1>2, <1>3, TurnIsFirst
<1> HIDE DEF s
<1>5. /\ \/ alerts' = alerts
         \/ k = "alert" /\ alerts' = [alerts EXCEPT ![x[1]][x[2]] = @ + 1]
      /\ \/ aways' = aways
         \/ k = "away" /\ aways' = [aways EXCEPT ![x[1]][x[2]] = @ + 1]
  <2>1. op[s] = o
    BY DEF s
  <2> QED
    BY <1>1, <1>3, <2>1, PushSplits
<1>6. k = "alert" => x[2] \in Days
  BY <1>2, <1>4, DaysAreInt DEF Formed, Entry
<1>7. k = "away" => x[2] \in DOMAIN Threshold
  BY <1>4 DEF Formed
<1> QED
  BY <1>3, <1>4, <1>5, <1>6, <1>7 DEF PushStep

\* What the steps of a pass that push nothing leave alone.
LEMMA StepsOfPass ==
    ASSUME NEW s
    PROVE  /\ ReadPage(s) => /\ UNCHANGED <<now, token, person, slot, lock, running, alerts, aways>>
                             /\ UNCHANGED <<excused, mixed, reported, raced>>
           /\ Remind(s) => /\ UNCHANGED <<now, token, person, slot, lock, running, alerts, aways>>
                           /\ UNCHANGED <<excused, mixed, reported, raced>>
           /\ Push(s) => /\ UNCHANGED <<now, token, person, slot, lock, running>>
                         /\ UNCHANGED <<excused, mixed, raced>>
           /\ DisableTokens(s) => /\ UNCHANGED <<now, person, slot, lock, running, alerts, aways>>
                                  /\ UNCHANGED <<excused, mixed, reported, raced>>
           /\ WriteMark(s) => /\ UNCHANGED <<now, token, slot, lock, running, alerts, aways>>
                              /\ UNCHANGED <<excused, reported, raced>>
  BY DEF ReadPage, Remind, Push, DisableTokens, WriteMark, history

LEMMA HistoryStep ==
    ASSUME AllTyped, PassesFormed, [NotificationsNext]_notificationsVars
    PROVE  HistoryTyped'
<1> USE DEF AllTyped, HistoryTyped
<1>1. CASE ClockTicks \/ LockExpires
  BY <1>1 DEF ClockTicks, LockExpires, history
<1>2. ASSUME NEW j \in Job, RunReminders(j) \/ RemindersEnd(j) \/ Die(j) PROVE HistoryTyped'
  BY <1>2 DEF RunReminders, RemindersEnd, Die, history
<1>3. ASSUME NEW s, ReadPage(s) \/ WriteMark(s) \/ Remind(s) \/ DisableTokens(s) PROVE HistoryTyped'
  BY <1>3, StepsOfPass
<1>4. ASSUME NEW j \in Job, NEW k \in Pass, Push(<<j, k>>) PROVE HistoryTyped'
  <2>1. PICK o \in PassOps, o2 \in PassOps : TurnStep(j, k, o, o2)
    BY <1>4, TurnMoves
  <2>2. PICK x \in Entry : PushStep(k, o, x)
    BY <1>4, <2>1, PushCounts DEF TurnStep
  <2>3. x[1] \in User
    BY DEF Entry
  <2>4. x[2] \in Days => [alerts EXCEPT ![x[1]][x[2]] = @ + 1] \in [User -> [Days -> Nat]]
    BY <2>3
  <2>5. x[2] \in DOMAIN Threshold =>
          [aways EXCEPT ![x[1]][x[2]] = @ + 1] \in [User -> [DOMAIN Threshold -> Nat]]
    BY <2>3
  <2>6. excused' \in Nat
    BY <1>4, StepsOfPass
  <2> QED
    BY <2>2, <2>4, <2>5, <2>6 DEF PushStep
<1>5. ASSUME NEW r \in Request, Requests(r) PROVE HistoryTyped'
  <2>1. PassesSame /\ (AwaysSame \/ SyncUserState(r))
    BY <1>5, RequestsQuiet
  <2>2. CASE AwaysSame
    BY <2>1, <2>2 DEF PassesSame, AwaysSame
  <2>3. CASE SyncUserState(r)
    <3>1. aways' = [aways EXCEPT ![op[r].u] = [k \in DOMAIN Threshold |-> 0]]
      BY <2>3 DEF SyncUserState
    <3>2. [k \in DOMAIN Threshold |-> 0] \in [DOMAIN Threshold -> Nat]
      OBVIOUS
    <3>3. aways' \in [User -> [DOMAIN Threshold -> Nat]]
      BY <3>1, <3>2
    <3> QED
      BY <2>1, <3>3 DEF PassesSame
  <2> QED
    BY <2>1, <2>2, <2>3
<1>6. ASSUME \/ UNCHANGED notificationsVars
             \/ \E u \in User : CooldownEnds(u) \/ Play(u) \/ \E c \in Prefs : UpdatePrefs(u, c)
             \/ \E u \in User, t \in Token : RegisterToken(u, t) \/ RemoveToken(u, t)
      PROVE  HistoryTyped'
  BY <1>6, OthersQuiet DEF PassesSame, AwaysSame
<1> HIDE DEF AllTyped, HistoryTyped
<1> QED
  BY <1>1, <1>2, <1>3, <1>4, <1>5, <1>6, StepCases

\* The runs that go on without the lock, each of which is excused.
Lost == running \ {lock}
LostExcused == Cardinality(Lost) <= excused

LEMMA LostIsFinite ==
    ASSUME CoreTyped, NEW A \in SUBSET Lost
    PROVE  IsFiniteSet(A) /\ Cardinality(A) \in Nat /\ IsFiniteSet(Lost) /\ Cardinality(Lost) \in Nat
           /\ Cardinality(A) <= Cardinality(Lost)
<1>1. IsFiniteSet(Job) /\ Lost \subseteq Job
  BY NotificationsAssumption DEF Lost, CoreTyped
<1>2. IsFiniteSet(Lost)
  BY <1>1, FS_Subset
<1> QED
  BY <1>2, FS_Subset, FS_CardinalityType

\* What a step does to the runs without the lock: it adds one only if it is excused.
LEMMA LostMoves ==
    ASSUME AllTyped, [NotificationsNext]_notificationsVars
    PROVE  \/ Lost' \subseteq Lost /\ excused' \in {excused, excused + 1}
           \/ LockExpires /\ lock \in running /\ Lost' = Lost \cup {lock} /\ excused' = excused + 1
<1> USE DEF Lost
<1>0. Nobody \notin running /\ lock \in Job \cup {Nobody}
  BY NotificationsAssumption DEF AllTyped, CoreTyped
<1>1. ASSUME running' = running, lock' = lock, excused' = excused
      PROVE  Lost' \subseteq Lost /\ excused' = excused
  BY <1>1
<1>2. CASE LockExpires
  BY <1>0, <1>2 DEF LockExpires, Fault
<1>3. CASE ClockTicks
  BY <1>3 DEF ClockTicks, history
<1>4. ASSUME NEW j \in Job, RunReminders(j) PROVE Lost' \subseteq Lost /\ excused' = excused
  BY <1>0, <1>4 DEF RunReminders, history
<1>5. ASSUME NEW j \in Job, RemindersEnd(j) PROVE Lost' \subseteq Lost /\ excused' = excused
  BY <1>0, <1>5 DEF RemindersEnd, history
<1>6. ASSUME NEW j \in Job, Die(j) PROVE Lost' \subseteq Lost /\ excused' = excused + 1
  BY <1>0, <1>6 DEF Die
<1>7. ASSUME NEW s, ReadPage(s) \/ WriteMark(s) \/ Remind(s) \/ Push(s) \/ DisableTokens(s)
      PROVE  running' = running /\ lock' = lock /\ excused' = excused
  BY <1>7, StepsOfPass
<1>8. ASSUME NEW r \in Request, Requests(r)
      PROVE  running' = running /\ lock' = lock /\ excused' = excused
  BY <1>8, RequestsQuiet DEF PassesSame
<1>9. ASSUME \/ UNCHANGED notificationsVars
             \/ \E u \in User : CooldownEnds(u) \/ Play(u) \/ \E c \in Prefs : UpdatePrefs(u, c)
             \/ \E u \in User, t \in Token : RegisterToken(u, t) \/ RemoveToken(u, t)
      PROVE  running' = running /\ lock' = lock /\ excused' = excused
  BY <1>9, OthersQuiet DEF PassesSame
<1> HIDE DEF Lost
<1> QED
  BY <1>1, <1>2, <1>3, <1>4, <1>5, <1>6, <1>7, <1>8, <1>9, StepCases

LEMMA LostStep ==
    ASSUME AllTyped, LostExcused, [NotificationsNext]_notificationsVars
    PROVE  LostExcused'
<1>1. CoreTyped /\ excused \in Nat
  BY DEF AllTyped, HistoryTyped
<1>2. IsFiniteSet(Lost) /\ Cardinality(Lost) \in Nat
  BY <1>1, LostIsFinite
<1>3. CASE Lost' \subseteq Lost /\ excused' \in {excused, excused + 1}
  <2>1. Cardinality(Lost') <= Cardinality(Lost) /\ Cardinality(Lost') \in Nat
    BY <1>2, <1>3, FS_Subset, FS_CardinalityType
  <2> QED
    BY <1>1, <1>2, <1>3, <2>1 DEF LostExcused
<1>4. CASE Lost' = Lost \cup {lock} /\ excused' = excused + 1
  <2>1. Cardinality(Lost \cup {lock}) \in {Cardinality(Lost), Cardinality(Lost) + 1}
    BY <1>2, FS_AddElement
  <2> QED
    BY <1>1, <1>2, <1>4, <2>1 DEF LostExcused
<1> QED
  BY <1>3, <1>4, LostMoves

-----------------------------------------------------------------------------
(* Tokens that are disabled.                                                 *)

\* A token that is about to be disabled was rejected, or registered meanwhile.
TokensReported ==
    /\ DisabledWasReported
    /\ \A s \in Slot : op[s].step = "disable" => op[s].tokens \subseteq reported \cup raced

LEMMA TokensStep ==
    ASSUME AllTyped, PassesFormed, TokensReported, [NotificationsNext]_notificationsVars
    PROVE  TokensReported'
<1>0. /\ op \in [Slot -> Ops]
      /\ \A t \in Token : token[t] \in [user : User \cup {Nobody}, off : BOOLEAN]
  BY DEF AllTyped, TokensTyped, SlotsTyped
<1>1. ASSUME \A t \in Token : token'[t].off => token[t].off, reported' = reported, raced' = raced,
             \A s \in Slot : op'[s] = op[s] \/ op'[s].step # "disable"
      PROVE  TokensReported'
  BY <1>1 DEF TokensReported, DisabledWasReported
<1>2. CASE ClockTicks \/ LockExpires \/ UNCHANGED notificationsVars
  BY <1>1, <1>2 DEF ClockTicks, LockExpires, history, notificationsVars
<1>3. ASSUME NEW j \in Job, RunReminders(j) \/ RemindersEnd(j) \/ Die(j) PROVE TokensReported'
  <2>1. \A s \in Slot : op'[s] = op[s] \/ op'[s].step # "disable"
    BY <1>0, <1>3 DEF RunReminders, RemindersEnd, Die, NoOp
  <2> QED
    BY <1>1, <1>3, <2>1 DEF RunReminders, RemindersEnd, Die, history
<1>4. ASSUME NEW s \in Slot, NEW o2, op' = [op EXCEPT ![s] = o2], o2.step # "disable"
      PROVE  \A z \in Slot : op'[z] = op[z] \/ op'[z].step # "disable"
  BY <1>0, <1>4
<1>5. ASSUME NEW j \in Job, NEW k \in Pass, ReadPage(<<j, k>>) \/ WriteMark(<<j, k>>)
      PROVE  TokensReported'
  <2>1. <<j, k>> \in Slot
    BY SlotsApart DEF PassSlot
  <2>2. \E o2 : op' = [op EXCEPT ![<<j, k>>] = o2] /\ o2.step # "disable"
    <3>1. CASE ReadPage(<<j, k>>)
      <4>1. PICK o \in PassOps, o2 \in {NoOp} \cup PassOps : ReadStep(j, k, o, o2)
        BY <3>1, ReadPageMoves DEF AllTyped, CoreTyped
      <4>2. Formed(k, o)
        BY <4>1 DEF ReadStep, PassesFormed, PassOps, NoOp
      <4>3. o2 # NoOp => o2.step \in {"page", "user"}
        BY <4>1, <4>2 DEF ReadStep, ReadMove
      <4>4. o2.step # "disable"
        BY <4>3 DEF NoOp
      <4> QED
        BY <4>1, <4>4 DEF ReadStep
    <3>2. CASE WriteMark(<<j, k>>)
      <4>1. PICK o \in PassOps, o2 \in {NoOp} \cup PassOps, x \in Entry : MarkStep(j, k, o, o2, x)
        BY <3>2, MarkMoves DEF AllTyped
      <4>2. o2 # NoOp => o2.step \in {"page", "user"}
        BY <4>1 DEF MarkStep, MarkMove
      <4>3. o2.step # "disable"
        BY <4>2 DEF NoOp
      <4> QED
        BY <4>1, <4>3 DEF MarkStep
    <3> QED
      BY <1>5, <3>1, <3>2
  <2>3. token' = token /\ reported' = reported /\ raced' = raced
    BY <1>5, StepsOfPass
  <2> QED
    BY <1>1, <1>4, <2>1, <2>2, <2>3
<1>6. ASSUME NEW j \in Job, NEW k \in Pass, Remind(<<j, k>>) PROVE TokensReported'
  <2>1. PICK o \in PassOps, o2 \in PassOps : TurnStep(j, k, o, o2)
    BY <1>6, TurnMoves DEF AllTyped
  <2>2. o.step = "user"
    BY <1>6, <2>1 DEF TurnStep, Remind
  <2>3. op' = [op EXCEPT ![<<j, k>>] = o2] /\ o2.step # "disable"
    BY <2>1, <2>2 DEF TurnStep, TurnMove
  <2>4. <<j, k>> \in Slot
    BY SlotsApart DEF PassSlot
  <2>5. token' = token /\ reported' = reported /\ raced' = raced
    BY <1>6, StepsOfPass
  <2> QED
    BY <1>1, <1>4, <2>3, <2>4, <2>5
<1>7. ASSUME NEW s \in Slot, NEW o2, op' = [op EXCEPT ![s] = o2],
             o2.step = "disable" => o2.tokens \subseteq reported', token' = token,
             reported \subseteq reported', raced' = raced
      PROVE  TokensReported'
  <2>1. \A z \in Slot : op'[z] = (IF z = s THEN o2 ELSE op[z])
    BY <1>0, <1>7
  <2>2. \A z \in Slot : op'[z].step = "disable" => op'[z].tokens \subseteq reported' \cup raced'
    BY <1>7, <2>1 DEF TokensReported
  <2>3. \A t \in Token : token'[t].off => t \in reported' \cup raced'
    BY <1>7 DEF TokensReported, DisabledWasReported
  <2> QED
    BY <2>2, <2>3 DEF TokensReported, DisabledWasReported
<1>8. ASSUME NEW j \in Job, NEW k \in Pass, Push(<<j, k>>) PROVE TokensReported'
  <2>1. PICK s : s = <<j, k>>
    OBVIOUS
  <2>2. s \in Slot /\ Push(s) /\ s \in PassSlot
    BY <1>8, <2>1, SlotsApart DEF PassSlot
  <2>3. PICK dead \in SUBSET op[s].tokens :
          /\ Goto(s, IF dead = {} THEN Sent(op[s])
                     ELSE [op[s] EXCEPT !.step = "disable", !.tokens = dead])
          /\ reported' = reported \cup dead
    BY <2>2, PushSplits
  <2>4. op[s].step = "push" /\ op[s] \in PassOps
    BY <2>2 DEF Push, AllTyped, SlotsTyped, NoOp
  <2>5. op[s].page # {}
    <3>1. op[<<j, k>>] = op[s] /\ op[s] # NoOp
      BY <2>1, <2>4 DEF PassOps, NoOp
    <3>2. Formed(k, op[s])
      BY <3>1 DEF PassesFormed
    <3> QED
      BY <2>4, <3>2 DEF Formed
  <2>6. Sent(op[s]).step = "mark"
    BY <2>4, <2>5, SentOfTurn
  <2>7. [op[s] EXCEPT !.step = "disable", !.tokens = dead].tokens = dead
    BY <2>4 DEF PassOps
  <2>8. token' = token /\ raced' = raced
    BY <2>2, StepsOfPass
  <2>9. PICK o2 : o2 = IF dead = {} THEN Sent(op[s])
                       ELSE [op[s] EXCEPT !.step = "disable", !.tokens = dead]
    OBVIOUS
  <2>10. op' = [op EXCEPT ![s] = o2] /\ (o2.step = "disable" => o2.tokens \subseteq reported')
    BY <2>3, <2>6, <2>7, <2>9 DEF Goto
  <2> QED
    BY <1>7, <2>2, <2>3, <2>8, <2>10
<1>9. ASSUME NEW s \in Slot, DisableTokens(s) PROVE TokensReported'
  <2>1. op[s].step = "disable" /\ op' = [op EXCEPT ![s] = Sent(op[s])]
    BY <1>9 DEF DisableTokens, Goto
  <2>2. Sent(op[s]).step # "disable"
    <3>1. CASE s \in Request
      <4>1. op[s].page = {}
        BY <2>1, <3>1 DEF AllTyped, SlotsTyped, RequestOps, NoOp
      <4> QED
        BY <4>1 DEF Sent, NoOp
    <3>2. CASE s \in PassSlot
      <4>1. op[s] \in PassOps
        BY <2>1, <3>2 DEF AllTyped, SlotsTyped, NoOp
      <4> QED
        BY <4>1 DEF Sent, NoOp, PassOps
    <3> QED
      BY <3>1, <3>2, SlotsApart
  <2>3. \A t \in Token : token'[t].off => token[t].off \/ t \in op[s].tokens
    <3> TAKE t \in Token
    <3>1. token'[t] = IF t \in op[s].tokens /\ token[t].user # Nobody
                      THEN [token[t] EXCEPT !.off = TRUE] ELSE token[t]
      BY <1>9 DEF DisableTokens
    <3> QED
      BY <3>1
  <2>4. reported' = reported /\ raced' = raced
    BY <1>9, StepsOfPass
  <2>5. \A z \in Slot : op'[z] = (IF z = s THEN Sent(op[s]) ELSE op[z])
    BY <1>0, <2>1
  <2>6. \A z \in Slot : op'[z].step = "disable" => op'[z].tokens \subseteq reported \cup raced
    BY <2>2, <2>5 DEF TokensReported
  <2>7. \A t \in Token : token'[t].off => t \in reported \cup raced
    BY <2>1, <2>3 DEF TokensReported, DisabledWasReported
  <2> QED
    BY <2>4, <2>6, <2>7 DEF TokensReported, DisabledWasReported
<1>10. ASSUME NEW r \in Request, Requests(r) PROVE TokensReported'
  <2>1. r \in Slot
    BY SlotsApart
  <2>2. CASE DisableTokens(r)
    BY <1>9, <2>1, <2>2
  <2>3. CASE ~DisableTokens(r)
    <3>1. PICK o2 \in RequestOps : Goto(r, o2) /\ (o2.step = "disable" => o2.tokens \subseteq reported')
      BY <1>10, RequestMoves DEF AllTyped, CoreTyped
    <3>2. token' = token /\ raced' = raced /\ reported \subseteq reported'
      <4>1. CASE Push(r)
        BY <2>1, <4>1, PushSplits, StepsOfPass
      <4>2. CASE RequestStep(r)
        BY <4>2 DEF RequestStep, AcquireFriendPushSlot, SyncUserState, history
      <4>3. ASSUME NEW u \in User, SendToUser(r, u) \/ FriendPush(r, u) \/ Open(r, u)
            PROVE  token' = token /\ raced' = raced /\ reported \subseteq reported'
        BY <4>3 DEF SendToUser, FriendPush, Open, history
      <4>4. ASSUME NEW A \in Segments, Broadcast(r, A)
            PROVE  token' = token /\ raced' = raced /\ reported \subseteq reported'
        BY <4>4 DEF Broadcast, history
      <4> QED
        BY <1>10, <2>3, <4>1, <4>2, <4>3, <4>4 DEF Requests
    <3> QED
      BY <1>7, <2>1, <3>1, <3>2 DEF Goto
  <2> QED
    BY <2>2, <2>3
<1>11. ASSUME NEW u \in User, CooldownEnds(u) \/ Play(u) \/ \E c \in Prefs : UpdatePrefs(u, c)
       PROVE  TokensReported'
  BY <1>1, <1>11 DEF CooldownEnds, Play, UpdatePrefs, history
<1>12. ASSUME NEW u \in User, NEW t \in Token, RemoveToken(u, t) PROVE TokensReported'
  <2>1. token' = [token EXCEPT ![t] = [user |-> Nobody, off |-> FALSE]]
    BY <1>12 DEF RemoveToken
  <2>2. \A v \in Token : token'[v].off => token[v].off
    BY <2>1 DEF AllTyped, TokensTyped
  <2> QED
    BY <1>1, <1>12, <2>2 DEF RemoveToken, history
<1>13. ASSUME NEW u \in User, NEW t \in Token, RegisterToken(u, t) PROVE TokensReported'
  <2>1. /\ token' = [token EXCEPT ![t] = [user |-> u, off |-> FALSE]] /\ op' = op
        /\ reported' = reported \ {t}
        /\ raced' = IF t \in Held THEN raced \cup {t} ELSE raced \ {t}
    BY <1>13 DEF RegisterToken
  <2>2. \A v \in Token : token'[v].off => token[v].off /\ v # t
    BY <2>1 DEF AllTyped, TokensTyped
  <2>3. \A v \in Token : token'[v].off => v \in reported' \cup raced'
    BY <2>1, <2>2 DEF TokensReported, DisabledWasReported
  <2>4. ASSUME NEW s \in Slot, op[s].step = "disable" PROVE op[s].tokens \subseteq reported' \cup raced'
    <3>1. op[s].tokens \subseteq Held
      BY <2>4 DEF Held
    <3>2. op[s].tokens \subseteq reported \cup raced
      BY <2>4 DEF TokensReported
    <3> QED
      BY <2>1, <3>1, <3>2
  <2> QED
    BY <2>1, <2>3, <2>4 DEF TokensReported, DisabledWasReported
<1> QED
  <2>1. \A j \in Job, k \in Pass : <<j, k>> \in Slot
    BY SlotsApart DEF PassSlot
  <2> QED
    BY <1>2, <1>3, <1>5, <1>6, <1>8, <1>9, <1>10, <1>11, <1>12, <1>13, <2>1, StepCases

-----------------------------------------------------------------------------
(* Stages and absences.                                                      *)

\* What an away pass will write fits the absence of the user, and a request that read
\* the first stage finds it still, unless he came back while he was written to.
MarksFit ==
    \A j \in Job : op[<<j, "away">>] # NoOp => \A x \in op[<<j, "away">>].page :
        x[1] \notin mixed => x[2] <= Reached(now - person[x[1]].seen)
ResetsFit ==
    \A r \in Request :
        op[r].step = "sync" /\ op[r].row.stage = 0 /\ op[r].u \notin mixed =>
            person[op[r].u].stage = 0
StagesFit == StageFits /\ MarksFit /\ ResetsFit

\* The marks, and requests that are the same or have just read the user.
LEMMA StagesQuiet ==
    ASSUME StagesFit, AllTyped,
           \A j \in Job : op'[<<j, "away">>] \in {op[<<j, "away">>], NoOp},
           \A r \in Request : \/ op'[r] = op[r]
                              \/ op'[r].step = "sync" => op'[r].row = person[op'[r].u],
           \A r \in Request : op'[r].step = "sync" => op'[r].u \in User,
           now' = now, mixed' = mixed,
           \A u \in User : person'[u].stage = person[u].stage /\ person'[u].seen = person[u].seen
    PROVE  StagesFit'
<1>1. StageFits'
  BY DEF StagesFit, StageFits, Reached
<1>2. MarksFit'
  <2> SUFFICES ASSUME NEW j \in Job, op'[<<j, "away">>] # NoOp,
                      NEW x \in op'[<<j, "away">>].page, x[1] \notin mixed
               PROVE  x[2] <= Reached(now - person'[x[1]].seen)
    BY DEF MarksFit
  <2>1. op'[<<j, "away">>] = op[<<j, "away">>]
    OBVIOUS
  <2>2. op[<<j, "away">>] \in PassOps
    BY <2>1 DEF AllTyped, SlotsTyped, PassSlot, Pass
  <2>3. x[1] \in User
    BY <2>1, <2>2 DEF PassOps, Entry
  <2>4. x[2] <= Reached(now - person[x[1]].seen)
    BY <2>1 DEF StagesFit, MarksFit
  <2> QED
    BY <2>3, <2>4
<1>3. ResetsFit'
  BY DEF StagesFit, ResetsFit
<1> QED
  BY <1>1, <1>2, <1>3 DEF StagesFit

LEMMA StagesStep ==
    ASSUME StagesFit, AllTyped, PassesFormed, [NotificationsNext]_notificationsVars
    PROVE  StagesFit'
<1>0. /\ now \in Int /\ now + 1 \in Int /\ now \in Time
      /\ \A u \in User : person[u].seen \in Int /\ person[u].stage \in Nat /\ person[u] \in Person
      /\ \A u \in User : person'[u].seen \in Int /\ person'[u].stage \in Nat /\ person'[u] \in Person
  <2>1. PersonsTyped /\ PersonsTyped'
    BY PersonsStep DEF AllTyped
  <2>2. \A u \in User : person[u] \in Person /\ person'[u] \in Person
    BY <2>1 DEF PersonsTyped
  <2>3. \A x \in Person : x.seen \in Int /\ x.stage \in Nat
    BY StagesAreThresholds DEF Person
  <2>4. now \in Int /\ now + 1 \in Int /\ now \in Time
    BY NotificationsAssumption DEF AllTyped, CoreTyped, Time
  <2> QED
    BY <2>2, <2>3, <2>4
<1>a. /\ \A r \in Request : op[r] \in RequestOps
      /\ \A j \in Job : op[<<j, "away">>] \in {NoOp} \cup PassOps
  BY DEF AllTyped, SlotsTyped, PassSlot, Pass
<1>b. ASSUME NEW r \in Request, op[r].step = "sync" PROVE op[r].u \in User
  <2>1. op[r] \in [step : {"sync"}, u : User, t : Time, row : Person]
    BY <1>a, <1>b DEF RequestOps, NoOp
  <2> QED
    BY <2>1
<1>c. \A j \in Job : op[<<j, "away">>] # NoOp => \A x \in op[<<j, "away">>].page : x[1] \in User
  BY <1>a DEF PassOps, Entry
<1>1. CASE ClockTicks
  <2>1. now' = now + 1 /\ person' = person /\ op' = op /\ mixed' = mixed
    BY <1>1 DEF ClockTicks, history
  <2>2. \A u \in User : Reached(now - person[u].seen) <= Reached((now + 1) - person[u].seen)
    <3> TAKE u \in User
    <3>1. /\ now - person[u].seen \in Int /\ (now + 1) - person[u].seen \in Int
          /\ now - person[u].seen <= (now + 1) - person[u].seen
      BY <1>0
    <3> QED
      BY <3>1, ReachedGrows
  <2>3. \A u \in User : /\ Reached(now - person[u].seen) \in Nat
                        /\ Reached((now + 1) - person[u].seen) \in Nat
    BY <1>0, ReachedGrows
  <2>4. StageFits'
    BY <1>0, <2>1, <2>2, <2>3 DEF StagesFit, StageFits
  <2>5. MarksFit'
    <3> SUFFICES ASSUME NEW j \in Job, op'[<<j, "away">>] # NoOp,
                        NEW x \in op'[<<j, "away">>].page, x[1] \notin mixed'
                 PROVE  x[2] <= Reached(now' - person'[x[1]].seen)
      BY DEF MarksFit
    <3>0. op[<<j, "away">>] # NoOp /\ x \in op[<<j, "away">>].page /\ x[1] \notin mixed
      BY <2>1
    <3>1. x[2] <= Reached(now - person[x[1]].seen) /\ x[1] \in User
      BY <1>c, <3>0 DEF StagesFit, MarksFit
    <3>2. x[2] \in Int
      <4>1. Formed("away", op[<<j, "away">>])
        BY <3>0 DEF PassesFormed, Pass
      <4> QED
        BY <3>0, <4>1, StagesAreThresholds DEF Formed
    <3> QED
      <4>1. now' = now + 1 /\ person'[x[1]].seen = person[x[1]].seen
        BY <2>1
      <4> QED
        <5>1. x[2] <= Reached((now + 1) - person[x[1]].seen)
          BY <2>2, <2>3, <3>1, <3>2
        <5>2. Reached(now' - person'[x[1]].seen) = Reached((now + 1) - person[x[1]].seen)
          BY <4>1
        <5> QED
          BY <5>1, <5>2
  <2>6. ResetsFit'
    BY <2>1 DEF StagesFit, ResetsFit
  <2> QED
    BY <2>4, <2>5, <2>6 DEF StagesFit
<1>2. ASSUME now' = now, person' = person, op' = op, mixed' = mixed PROVE StagesFit'
  BY <1>2, <1>b, StagesQuiet
<1>3. CASE LockExpires
  BY <1>2, <1>3 DEF LockExpires
<1>4. ASSUME \/ UNCHANGED notificationsVars
             \/ \E u \in User : CooldownEnds(u) \/ Play(u) \/ \E c \in Prefs : UpdatePrefs(u, c)
             \/ \E u \in User, t \in Token : RegisterToken(u, t) \/ RemoveToken(u, t)
      PROVE  StagesFit'
  <2>1. mixed' = mixed
    BY <1>4 DEF CooldownEnds, Play, UpdatePrefs, RegisterToken, RemoveToken, notificationsVars, history
  <2> QED
    BY <1>4, <1>b, <2>1, OthersQuiet, StagesQuiet DEF PassesSame, AwaysSame, Pass
<1>5. ASSUME NEW j \in Job, RemindersEnd(j) PROVE StagesFit'
  BY <1>2, <1>5 DEF RemindersEnd, history
<1>6. ASSUME NEW j \in Job, Die(j) PROVE StagesFit'
  <2>1. \A s \in Slot : op'[s] = IF s \in {j} \X Pass THEN NoOp ELSE op[s]
    BY <1>6 DEF Die
  <2>2. \A i \in Job : op'[<<i, "away">>] \in {op[<<i, "away">>], NoOp}
    BY <2>1, SlotsApart DEF PassSlot, Pass
  <2>3. \A r \in Request : op'[r] = op[r]
    BY <2>1, SlotsApart DEF PassSlot
  <2>4. now' = now /\ mixed' = mixed /\ person' = person
    BY <1>6 DEF Die
  <2> QED
    BY <1>b, <2>2, <2>3, <2>4, StagesQuiet
<1>7. ASSUME NEW j \in Job, RunReminders(j) PROVE StagesFit'
  <2>1. \A s \in Slot : op'[s] = IF s \in {j} \X Pass
           THEN [step |-> "page", t |-> now, cursor |-> 0, page |-> {}, tokens |-> {}] ELSE op[s]
    BY <1>7 DEF RunReminders
  <2>2. \A i \in Job : op'[<<i, "away">>] = op[<<i, "away">>] \/ op'[<<i, "away">>].page = {}
    BY <2>1, SlotsApart DEF PassSlot, Pass
  <2>3. \A r \in Request : op'[r] = op[r]
    BY <2>1, SlotsApart DEF PassSlot
  <2>4. now' = now /\ mixed' = mixed /\ person' = person
    BY <1>7 DEF RunReminders, history
  <2>5. MarksFit'
    BY <2>2, <2>4 DEF StagesFit, MarksFit
  <2>6. StageFits' /\ ResetsFit'
    BY <2>3, <2>4 DEF StagesFit, StageFits, ResetsFit
  <2> QED
    BY <2>5, <2>6 DEF StagesFit
\* A pass about alerts, or one whose page does not grow.
<1>8. ASSUME NEW j \in Job, NEW k \in Pass, NEW o \in PassOps, NEW o2 \in {NoOp} \cup PassOps,
             op[<<j, k>>] = o, op' = [op EXCEPT ![<<j, k>>] = o2],
             o2 # NoOp => Formed(k, o2) /\ o2.t = o.t, running' = running, now' = now,
             person' = person, mixed' = mixed,
             k = "away" /\ o2 # NoOp => \A x \in o2.page :
                 x[1] \notin mixed => x[2] <= Reached(now - person[x[1]].seen)
      PROVE  StagesFit'
  <2>1. /\ op'[<<j, k>>] = o2 /\ \A r \in Request : op'[r] = op[r]
        /\ \A i \in Job, l \in Pass : <<i, l>> # <<j, k>> => op'[<<i, l>>] = op[<<i, l>>]
    <3>1. SlotsTyped /\ Goto(<<j, k>>, o2)
      BY <1>8 DEF AllTyped, Goto
    <3> QED
      BY <3>1, PassFrame
  <2>2. MarksFit'
    <3> SUFFICES ASSUME NEW i \in Job, op'[<<i, "away">>] # NoOp,
                        NEW x \in op'[<<i, "away">>].page, x[1] \notin mixed
                 PROVE  x[2] <= Reached(now - person[x[1]].seen)
      BY <1>8 DEF MarksFit
    <3>1. "away" \in Pass
      BY DEF Pass
    <3>2. CASE <<i, "away">> = <<j, k>>
      BY <1>8, <2>1, <3>2
    <3>3. CASE <<i, "away">> # <<j, k>>
      BY <2>1, <3>1, <3>3 DEF StagesFit, MarksFit
    <3> QED
      BY <3>2, <3>3
  <2>3. StageFits' /\ ResetsFit'
    BY <1>8, <2>1 DEF StagesFit, StageFits, ResetsFit
  <2> QED
    BY <2>2, <2>3 DEF StagesFit
<1>9. ASSUME NEW j \in Job, NEW k \in Pass, ReadPage(<<j, k>>) PROVE StagesFit'
  <2>1. PICK o \in PassOps, o2 \in {NoOp} \cup PassOps : ReadStep(j, k, o, o2)
    BY <1>9, <1>0, ReadPageMoves DEF AllTyped
  <2>2. Formed(k, o) /\ o.t <= now
    BY <2>1 DEF ReadStep, PassesFormed, PassOps, NoOp
  <2>3. /\ op[<<j, k>>] = o /\ op' = [op EXCEPT ![<<j, k>>] = o2]
        /\ o2 # NoOp => Formed(k, o2) /\ o2.t = o.t
        /\ o2 # NoOp => \A x \in o2.page : x[2] = Mark(k, x[1], o.t)
    BY <2>1, <2>2 DEF ReadStep, ReadMove
  <2>4. ASSUME k = "away", o2 # NoOp, NEW x \in o2.page
        PROVE  x[2] <= Reached(now - person[x[1]].seen)
    <3>1. x[1] \in User /\ o.t \in Int
      BY <2>4, NotificationsAssumption DEF PassOps, Entry, Time
    <3>2. x[2] = Reached(o.t - person[x[1]].seen)
      BY <2>3, <2>4 DEF Mark
    <3>3. /\ o.t - person[x[1]].seen \in Int /\ now - person[x[1]].seen \in Int
          /\ o.t - person[x[1]].seen <= now - person[x[1]].seen
      BY <1>0, <2>2, <3>1
    <3> QED
      BY <3>2, <3>3, ReachedGrows
  <2>5. UNCHANGED <<now, running, person, mixed>>
    BY <1>9, StepsOfPass
  <2> QED
    BY <1>8, <2>3, <2>4, <2>5
<1>10. ASSUME NEW j \in Job, NEW k \in Pass, Remind(<<j, k>>) \/ Push(<<j, k>>) \/ DisableTokens(<<j, k>>)
       PROVE  StagesFit'
  <2>1. PICK o \in PassOps, o2 \in PassOps : TurnStep(j, k, o, o2)
    BY <1>10, TurnMoves DEF AllTyped
  <2>2. /\ op[<<j, k>>] = o /\ op' = [op EXCEPT ![<<j, k>>] = o2]
        /\ o2 # NoOp /\ Formed(k, o2) /\ o2.t = o.t /\ o2.page = o.page
    BY <2>1 DEF TurnStep, TurnMove
  <2>3. ASSUME k = "away", NEW x \in o2.page, x[1] \notin mixed
        PROVE  x[2] <= Reached(now - person[x[1]].seen)
    <3>1. op[<<j, "away">>] = o /\ o # NoOp
      BY <2>2, <2>3 DEF PassOps, NoOp
    <3> QED
      BY <2>2, <2>3, <3>1 DEF StagesFit, MarksFit
  <2>4. UNCHANGED <<now, running, person, mixed>>
    BY <1>10, StepsOfPass
  <2> QED
    BY <1>8, <2>2, <2>3, <2>4
<1>11. ASSUME NEW j \in Job, NEW k \in Pass, WriteMark(<<j, k>>) PROVE StagesFit'
  <2>1. PICK o \in PassOps, o2 \in {NoOp} \cup PassOps, x \in Entry : MarkStep(j, k, o, o2, x)
    BY <1>11, MarkMoves DEF AllTyped
  <2>2. /\ op[<<j, k>>] = o /\ op' = [op EXCEPT ![<<j, k>>] = o2] /\ x \in o.page
        /\ o2 # NoOp => Formed(k, o2) /\ o2.t = o.t /\ o2.page \subseteq o.page
        /\ Formed(k, o)
    BY <2>1 DEF MarkStep, MarkMove
  <2>3. now' = now /\ running' = running
    BY <1>11, StepsOfPass
  <2>4. /\ op'[<<j, k>>] = o2 /\ \A r \in Request : op'[r] = op[r]
        /\ \A i \in Job, l \in Pass : <<i, l>> # <<j, k>> => op'[<<i, l>>] = op[<<i, l>>]
    <3>1. SlotsTyped /\ Goto(<<j, k>>, o2)
      BY <2>2 DEF AllTyped, Goto
    <3> QED
      BY <3>1, PassFrame
  <2>5. x[1] \in User /\ o # NoOp
    BY DEF Entry, PassOps, NoOp
  <2>6. /\ \A u \in User : person'[u].seen = person[u].seen
        /\ \A u \in User : u # x[1] => person'[u].stage = person[u].stage
        /\ person'[x[1]].stage = IF k = "away" THEN x[2] ELSE person[x[1]].stage
        /\ mixed \subseteq mixed'
    <3>1. person' = [person EXCEPT ![x[1]] = IF k = "alert" THEN [@ EXCEPT !.alert = x[2]]
                                             ELSE [@ EXCEPT !.stage = x[2]]]
      BY <2>1 DEF MarkStep
    <3>2. PICK p : p = IF k = "alert" THEN [person[x[1]] EXCEPT !.alert = x[2]]
                       ELSE [person[x[1]] EXCEPT !.stage = x[2]]
      OBVIOUS
    <3>3. p.seen = person[x[1]].seen /\ p.stage = IF k = "away" THEN x[2] ELSE person[x[1]].stage
      BY <1>0, <2>5, <3>2 DEF Person, Pass
    <3>4. /\ person'[x[1]] = p /\ \A u \in User : u # x[1] => person'[u] = person[u]
      BY <2>5, <3>1, <3>2 DEF AllTyped, PersonsTyped
    <3>5. mixed \subseteq mixed'
      BY <2>1 DEF MarkStep
    <3> QED
      BY <3>3, <3>4, <3>5
  <2>7. \A i \in Job : op'[<<i, "away">>] # NoOp =>
           op[<<i, "away">>] # NoOp /\ op'[<<i, "away">>].page \subseteq op[<<i, "away">>].page
    <3> TAKE i \in Job
    <3>1. "away" \in Pass
      BY DEF Pass
    <3>2. CASE <<i, "away">> = <<j, k>>
      BY <2>2, <2>4, <2>5, <3>2
    <3>3. CASE <<i, "away">> # <<j, k>>
      BY <2>4, <3>1, <3>3
    <3> QED
      BY <3>2, <3>3
  <2>8. MarksFit'
    <3> SUFFICES ASSUME NEW i \in Job, op'[<<i, "away">>] # NoOp,
                        NEW y \in op'[<<i, "away">>].page, y[1] \notin mixed'
                 PROVE  y[2] <= Reached(now - person'[y[1]].seen)
      BY <2>3 DEF MarksFit
    <3>1. op[<<i, "away">>] # NoOp /\ y \in op[<<i, "away">>].page
      BY <2>7
    <3>2. y[1] \in User /\ y[2] <= Reached(now - person[y[1]].seen)
      BY <1>c, <2>6, <3>1 DEF StagesFit, MarksFit
    <3> QED
      BY <2>6, <3>2
  <2>9. StageFits'
    <3> SUFFICES ASSUME NEW u \in User, u \notin mixed'
                 PROVE  person'[u].stage <= Reached(now - person'[u].seen)
      BY <2>3 DEF StageFits
    <3>1. person[u].stage <= Reached(now - person[u].seen)
      BY <2>6 DEF StagesFit, StageFits
    <3>2. CASE u = x[1] /\ k = "away"
      <4>1. x[2] <= Reached(now - person[u].seen)
        BY <2>2, <2>5, <2>6, <3>2 DEF StagesFit, MarksFit
      <4> QED
        BY <2>6, <3>2, <4>1
    <3>3. CASE ~(u = x[1] /\ k = "away")
      <4>1. person'[u].stage = person[u].stage
        BY <2>6, <3>3
      <4> QED
        BY <2>6, <3>1, <4>1
    <3> QED
      BY <3>2, <3>3
  <2>10. ResetsFit'
    <3> SUFFICES ASSUME NEW r \in Request, op[r].step = "sync", op[r].row.stage = 0,
                        op[r].u \notin mixed'
                 PROVE  person'[op[r].u].stage = 0
      BY <2>4 DEF ResetsFit
    <3>1. person[op[r].u].stage = 0 /\ op[r].u \in User
      BY <1>b, <2>6 DEF StagesFit, ResetsFit
    <3>2. ASSUME op[r].u = x[1], k = "away" PROVE FALSE
      <4>1. Syncing(x[1]) # {}
        BY <3>2 DEF Syncing
      <4> QED
        BY <2>1, <3>2, <4>1 DEF MarkStep
    <3> QED
      BY <2>6, <3>1, <3>2
  <2> QED
    BY <2>8, <2>9, <2>10 DEF StagesFit
<1>12. ASSUME NEW r \in Request, Requests(r), ~SyncUserState(r) PROVE StagesFit'
  <2>1. PassesSame /\ AwaysSame
    BY <1>12, RequestsQuiet
  <2>2. PICK o2 \in RequestOps :
             /\ Goto(r, o2)
             /\ o2.step = "sync" => o2.row = person[o2.u] /\ person' = person /\ mixed' = mixed
    BY <1>12, <1>0, RequestMoves DEF AllTyped
  <2>3. mixed' = mixed
    <3>1. CASE Push(r) \/ DisableTokens(r)
      BY <3>1, StepsOfPass
    <3>2. CASE RequestStep(r)
      BY <1>12, <3>2 DEF RequestStep, AcquireFriendPushSlot, history
    <3>3. ASSUME NEW u \in User, SendToUser(r, u) \/ FriendPush(r, u) \/ Open(r, u)
          PROVE  mixed' = mixed
      BY <3>3 DEF SendToUser, FriendPush, Open, history
    <3>4. ASSUME NEW A \in Segments, Broadcast(r, A) PROVE mixed' = mixed
      BY <3>4 DEF Broadcast, history
    <3> QED
      BY <1>12, <3>1, <3>2, <3>3, <3>4 DEF Requests
  <2>4. \A z \in Request : op'[z] = (IF z = r THEN o2 ELSE op[z])
    BY <2>2, SlotsApart DEF Goto, AllTyped, SlotsTyped
  <2>5. o2.step = "sync" => o2.u \in User
    BY DEF RequestOps, NoOp
  <2>6. \A z \in Request : /\ \/ op'[z] = op[z]
                              \/ op'[z].step = "sync" => op'[z].row = person[op'[z].u]
                           /\ op'[z].step = "sync" => op'[z].u \in User
    BY <1>b, <2>2, <2>4, <2>5
  <2>7. \A j \in Job : op'[<<j, "away">>] = op[<<j, "away">>]
    BY <2>1 DEF PassesSame, Pass
  <2> QED
    BY <2>1, <2>3, <2>6, <2>7, StagesQuiet DEF PassesSame, AwaysSame
<1>13. ASSUME NEW r \in Request, Requests(r), SyncUserState(r) PROVE StagesFit'
  <2>1. PassesSame
    BY <1>13, RequestsQuiet
  <2>2. op[r].step = "sync" /\ op[r] \in RequestOps
    BY <1>13, <1>a DEF SyncUserState
  <2>3. PICK o : o = op[r]
    OBVIOUS
  <2>4. o.u \in User /\ o.t \in Time /\ o.row \in Person
    BY <2>2, <2>3 DEF RequestOps, NoOp
  <2>5. PICK new : new = Synced(o.row, o.u, o.t)
    OBVIOUS
  <2>6. new \in Person /\ new.stage = 0
    BY <2>4, <2>5, SyncedPerson
  <2>7. /\ person' = [person EXCEPT ![o.u] =
                        [c \in DOMAIN @ |-> IF new[c] # o.row[c] THEN new[c] ELSE @[c]]]
        /\ mixed' = CASE \E j \in Job : Reads(<<j, "away">>, o.u) -> mixed \cup {o.u}
                      [] OTHER -> IF person'[o.u].stage = 0 THEN mixed \ {o.u} ELSE mixed
        /\ op' = [op EXCEPT ![r] = NoOp] /\ now' = now
    BY <1>13, <2>3, <2>5 DEF SyncUserState, Goto
  <2>8. /\ \A u \in User : u # o.u => person'[u] = person[u]
        /\ person'[o.u].stage = (IF o.row.stage # 0 THEN 0 ELSE person[o.u].stage)
    <3>1. PICK q : q = [c \in DOMAIN person[o.u] |->
                          IF new[c] # o.row[c] THEN new[c] ELSE person[o.u][c]]
      OBVIOUS
    <3>2. q.stage = (IF new.stage # o.row.stage THEN new.stage ELSE person[o.u].stage)
      BY <1>0, <2>4, <2>6, <3>1, MergedPerson
    <3>3. person' = [person EXCEPT ![o.u] = q]
      BY <2>7, <3>1
    <3> QED
      BY <2>4, <2>6, <3>2, <3>3 DEF AllTyped, PersonsTyped
  <2>9. \A u \in User : u # o.u => (u \in mixed' <=> u \in mixed)
    BY <2>7
  <2>10. ASSUME o.u \notin mixed'
         PROVE  /\ person'[o.u].stage = 0
                /\ \A j \in Job : ~Reads(<<j, "away">>, o.u)
    <3>1. \A j \in Job : ~Reads(<<j, "away">>, o.u)
      BY <2>7, <2>10
    <3>2. mixed' = IF person'[o.u].stage = 0 THEN mixed \ {o.u} ELSE mixed
      BY <2>7, <3>1
    <3>3. ASSUME person'[o.u].stage # 0 PROVE FALSE
      <4>1. o.u \notin mixed /\ o.row.stage = 0 /\ person[o.u].stage # 0
        BY <2>8, <2>10, <3>2, <3>3
      <4> QED
        BY <2>2, <2>3, <4>1 DEF StagesFit, ResetsFit
    <3> QED
      BY <3>1, <3>3
  <2>11. \A z \in Request : op'[z] = (IF z = r THEN NoOp ELSE op[z])
    BY <2>7, SlotsApart DEF AllTyped, SlotsTyped
  <2>12. \A j \in Job : op'[<<j, "away">>] = op[<<j, "away">>]
    BY <2>1 DEF PassesSame, Pass
  <2>13. StageFits'
    <3> SUFFICES ASSUME NEW u \in User, u \notin mixed'
                 PROVE  person'[u].stage <= Reached(now - person'[u].seen)
      BY <2>7 DEF StageFits
    <3>1. CASE u = o.u
      <4>1. Reached(now - person'[u].seen) \in Nat
        BY <1>0, ReachedGrows
      <4> QED
        BY <2>10, <3>1, <4>1
    <3>2. CASE u # o.u
      BY <2>8, <2>9, <3>2 DEF StagesFit, StageFits
    <3> QED
      BY <3>1, <3>2
  <2>14. MarksFit'
    <3> SUFFICES ASSUME NEW j \in Job, op[<<j, "away">>] # NoOp,
                        NEW x \in op[<<j, "away">>].page, x[1] \notin mixed'
                 PROVE  x[2] <= Reached(now - person'[x[1]].seen)
      BY <2>7, <2>12 DEF MarksFit
    <3>1. x[1] \in User
      BY <1>c
    <3>2. x[1] # o.u
      BY <2>10 DEF Reads
    <3> QED
      BY <2>8, <2>9, <3>1, <3>2 DEF StagesFit, MarksFit
  <2>15. ResetsFit'
    <3> SUFFICES ASSUME NEW z \in Request, z # r, op[z].step = "sync", op[z].row.stage = 0,
                        op[z].u \notin mixed'
                 PROVE  person'[op[z].u].stage = 0
      BY <2>11 DEF ResetsFit, NoOp
    <3>1. op[z].u \in User
      BY <1>b
    <3> QED
      BY <2>8, <2>9, <2>10, <3>1 DEF StagesFit, ResetsFit
  <2> QED
    BY <2>13, <2>14, <2>15 DEF StagesFit
<1> QED
  BY <1>1, <1>3, <1>4, <1>5, <1>6, <1>7, <1>9, <1>10, <1>11, <1>12, <1>13, StepCases

-----------------------------------------------------------------------------
(* The accounts of what is sent.  A push of a mark v to u, for the pass k,   *)
(* is paid for by the first run, by a run that died, or by one that lost the *)
(* lock: it owes as long as it may still send, or write a mark that makes    *)
(* others send again.                                                        *)

Values(k)    == IF k = "alert" THEN Days ELSE DOMAIN Threshold
Pushed(k)    == IF k = "alert" THEN alerts ELSE aways
Column(k, u) == IF k = "alert" THEN person[u].alert ELSE person[u].stage

\* The pass sends nothing more for v to the user of its page, nor undoes his mark.
Finished(k, o, u, v) ==
    IF k = "alert" THEN Written(o, u) /\ LocalDay(u, o.t) = v
    ELSE \A x \in o.page : x[1] = u => IF Written(o, u) THEN x[2] >= v ELSE x[2] > v
Owing(k, o, u, v) == Unread(o, u) \/ (Paged(o, u) /\ ~Finished(k, o, u, v))
Owed(k, u, v)     == {j \in Lost : Owing(k, op[<<j, k>>], u, v)}

\* Neither the run that has the lock, whose pass is o, nor a later one will send v to u:
\* a is the mark of u, and t the time.
DoneAt(k, o, a, t, u, v) ==
    IF k = "alert"
    THEN IF o # NoOp
         THEN \/ LocalDay(u, o.t) > v
              \/ LocalDay(u, o.t) = v /\ IF Paged(o, u) THEN Written(o, u) ELSE a = v
         ELSE LocalDay(u, t) > v \/ (LocalDay(u, t) = v /\ a = v)
    ELSE IF Paged(o, u) THEN Finished(k, o, u, v) ELSE a >= v
Holding(k)    == IF lock \in running THEN op[<<lock, k>>] ELSE NoOp
Done(k, u, v) == DoneAt(k, Holding(k), Column(k, u), now, u, v)
Bit(b)        == IF b THEN 1 ELSE 0

Accounted ==
    \A k \in Pass, u \in User : \A v \in Values(k) :
        Pushed(k)[u][v] + Cardinality(Owed(k, u, v)) <= excused + Bit(Done(k, u, v))

\* The account balances when less is owed, or the first run is charged.
LEMMA AccountBalances ==
    ASSUME NEW A, IsFiniteSet(A), NEW B \in SUBSET A, NEW n \in Nat, NEW m \in Nat,
           NEW x \in Nat, NEW p \in {0, 1}, NEW q \in {0, 1}, n + Cardinality(A) <= x + p,
           \/ m = n /\ p <= q
           \/ m = n /\ B # A
           \/ m = n + 1 /\ B # A /\ p <= q
           \/ m = n + 1 /\ p < q
    PROVE  m + Cardinality(B) <= x + q
<1>1. /\ Cardinality(A) \in Nat /\ Cardinality(B) \in Nat /\ Cardinality(B) <= Cardinality(A)
      /\ B # A => Cardinality(B) # Cardinality(A)
  BY FS_Subset, FS_CardinalityType
<1>2. B # A => Cardinality(B) + 1 <= Cardinality(A)
  BY <1>1
<1> QED
  BY <1>1, <1>2

\* It balances when a run is excused, if it owes, or the first run is charged again.
LEMMA ExcuseBalances ==
    ASSUME NEW A, IsFiniteSet(A), NEW j, NEW B \in SUBSET (A \cup {j}), NEW n \in Nat,
           NEW x \in Nat, NEW p \in {0, 1}, NEW q \in {0, 1}, n + Cardinality(A) <= x + p,
           B \subseteq A \/ p <= q
    PROVE  n + Cardinality(B) <= x + 1 + q
<1>1. /\ Cardinality(A) \in Nat /\ IsFiniteSet(A \cup {j})
      /\ Cardinality(A \cup {j}) <= Cardinality(A) + 1
  <2>1. /\ IsFiniteSet(A \cup {j})
        /\ Cardinality(A \cup {j}) = IF j \in A THEN Cardinality(A) ELSE Cardinality(A) + 1
    BY FS_AddElement
  <2>2. Cardinality(A) \in Nat
    BY FS_CardinalityType
  <2> QED
    BY <2>1, <2>2
<1>2. /\ Cardinality(B) \in Nat /\ Cardinality(B) <= Cardinality(A) + 1
      /\ B \subseteq A => Cardinality(B) <= Cardinality(A)
  <2>1. Cardinality(B) \in Nat /\ Cardinality(B) <= Cardinality(A \cup {j})
    BY <1>1, FS_Subset, FS_CardinalityType
  <2>2. B \subseteq A => Cardinality(B) <= Cardinality(A)
    BY FS_Subset
  <2>3. Cardinality(A \cup {j}) \in Nat
    BY <1>1, FS_CardinalityType
  <2> QED
    BY <1>1, <2>1, <2>2, <2>3
<1> QED
  BY <1>1, <1>2

-----------------------------------------------------------------------------
(* What a step of a pass does to the account of u for v.                     *)

\* A page.
LEMMA ReadAccount ==
    ASSUME AllTyped, NEW k \in Pass, NEW u \in User, NEW v \in Values(k),
           NEW o \in PassOps, NEW o2 \in {NoOp} \cup PassOps,
           o.t <= now, ReadMove(k, o, o2), o2 # NoOp => Formed(k, o2)
    PROVE  /\ Owing(k, o2, u, v) => Owing(k, o, u, v)
           /\ DoneAt(k, o, Column(k, u), now, u, v) => DoneAt(k, o2, Column(k, u), now, u, v)
<1>1. Owing(k, o2, u, v) => Owing(k, o, u, v)
  BY DEF ReadMove, Owing
<1>2. o # NoOp /\ ~Paged(o, u) /\ o.t \in Int /\ now \in Int
  BY NotificationsAssumption DEF ReadMove, Paged, PassOps, NoOp, AllTyped, CoreTyped, Time
<1>3. PICK x \in Int : x = LocalDay(u, o.t)
  BY <1>2, DaysAdvance
<1>4. LocalDay(u, now) \in Int /\ x <= LocalDay(u, now)
  BY <1>2, <1>3, DaysAdvance
<1>5. ASSUME k = "alert", DoneAt(k, o, Column(k, u), now, u, v)
      PROVE  DoneAt(k, o2, Column(k, u), now, u, v)
  <2>1. v \in Int
    BY <1>5, DaysAreInt DEF Values
  <2>2. x > v \/ (x = v /\ person[u].alert = v)
    BY <1>2, <1>3, <1>5 DEF DoneAt, Column
  <2>3. CASE o2 = NoOp
    BY <1>4, <1>5, <2>1, <2>2, <2>3 DEF DoneAt, Column
  <2>4. CASE o2 # NoOp
    <3>1. o2.t = o.t
      BY <2>4 DEF ReadMove
    <3>2. Paged(o2, u) => person[u].alert # x
      BY <1>3, <1>5, <2>4 DEF ReadMove, Paged, Mark
    <3> QED
      BY <1>3, <1>5, <2>2, <2>4, <3>1, <3>2 DEF DoneAt, Column
  <2> QED
    BY <2>3, <2>4
<1>6. ASSUME k = "away", DoneAt(k, o, Column(k, u), now, u, v)
      PROVE  DoneAt(k, o2, Column(k, u), now, u, v)
  <2>1. person[u].stage >= v
    BY <1>2, <1>6 DEF DoneAt, Column
  <2>2. v \in Int /\ person[u].stage \in Int
    BY <1>6, StagesAreThresholds DEF Values, AllTyped, PersonsTyped, Person
  <2>3. ASSUME Paged(o2, u) PROVE Finished(k, o2, u, v)
    <3>1. o2 # NoOp /\ o2.page # {}
      BY <2>3 DEF Paged
    <3>2. o2.step = "user"
      BY <3>1 DEF ReadMove, Formed
    <3>3. \A y \in o2.page : y[1] = u => y[2] > person[u].stage /\ y[2] \in Int
      BY <1>6, <3>1, StagesAreThresholds DEF ReadMove, Formed
    <3> QED
      BY <1>6, <2>1, <2>2, <3>2, <3>3 DEF Finished, Written
  <2> QED
    BY <1>6, <2>1, <2>3 DEF DoneAt, Column
<1> QED
  BY <1>1, <1>5, <1>6 DEF Pass

\* What is done about a turn.
LEMMA TurnAccount ==
    ASSUME NEW k \in Pass, NEW u \in User, NEW v \in Values(k),
           NEW o \in PassOps, NEW o2 \in PassOps, NEW a, NEW t, TurnMove(o, o2), Formed(k, o)
    PROVE  /\ Owing(k, o2, u, v) => Owing(k, o, u, v)
           /\ DoneAt(k, o, a, t, u, v) => DoneAt(k, o2, a, t, u, v)
<1>1. /\ o # NoOp /\ o2 # NoOp /\ o2.t = o.t /\ o2.cursor = o.cursor /\ o2.page = o.page
      /\ o.step \in {"user", "push", "disable"} /\ o2.step \in {"push", "disable", "mark"}
      /\ o.step = "disable" => o2.step = "mark"
  BY DEF TurnMove, PassOps, NoOp
<1>2. Unread(o2, u) => Unread(o, u)
  BY <1>1 DEF Unread
<1>3. Paged(o2, u) <=> Paged(o, u)
  BY <1>1 DEF Paged
<1>4. Written(o, u) => Written(o2, u)
  BY <1>1 DEF Written
<1>5. Finished(k, o, u, v) => Finished(k, o2, u, v)
  <2>1. CASE k = "alert"
    BY <1>1, <1>4, <2>1 DEF Finished
  <2>2. CASE k = "away"
    <3>1. v \in Int /\ \A x \in o.page : x[2] \in Int
      BY <2>2, StagesAreThresholds DEF Formed, Values
    <3> QED
      BY <1>1, <1>4, <2>2, <3>1 DEF Finished
  <2> QED
    BY <2>1, <2>2 DEF Pass
<1>6. Owing(k, o2, u, v) => Owing(k, o, u, v)
  BY <1>2, <1>3, <1>5 DEF Owing
<1>7. DoneAt(k, o, a, t, u, v) => DoneAt(k, o2, a, t, u, v)
  BY <1>1, <1>3, <1>4, <1>5 DEF DoneAt
<1> QED
  BY <1>6, <1>7

\* A push: who owed it does no more, and it is done if the run has the lock.
LEMMA PushAccount ==
    ASSUME NEW k \in Pass, NEW o \in PassOps, NEW o2 \in PassOps, NEW x \in Entry,
           NEW a, NEW t, TurnMove(o, o2), Formed(k, o), o.step = "push", x = Turn(o.page),
           x \in o.page, x[2] \in Values(k)
    PROVE  /\ Owing(k, o, x[1], x[2]) /\ ~Owing(k, o2, x[1], x[2])
           /\ ~DoneAt(k, o, a, t, x[1], x[2]) /\ DoneAt(k, o2, a, t, x[1], x[2])
<1> DEFINE u == x[1]
           v == x[2]
<1>1. /\ o # NoOp /\ o2 # NoOp /\ o2.t = o.t /\ o2.cursor = o.cursor /\ o2.page = o.page
      /\ o2.step \in {"disable", "mark"}
  BY DEF TurnMove, PassOps, NoOp
<1>2. u \in User /\ u \in Nat /\ o.cursor \in Nat /\ o.t \in Int
  <2>1. User \subseteq Nat /\ Time \subseteq Int
    BY NotificationsAssumption DEF User, Time
  <2>2. o.cursor \in User \cup {0} /\ o.t \in Time
    BY DEF PassOps
  <2>3. u \in User
    BY DEF Entry
  <2>4. u \in Nat
    BY <2>1, <2>3
  <2>5. o.cursor \in Nat
    <3>1. \A n \in User : n \in Nat
      BY <2>1
    <3>2. o.cursor \in User \/ o.cursor = 0
      BY <2>2
    <3> QED
      BY <3>1, <3>2
  <2>6. o.t \in Int
    BY <2>1, <2>2
  <2> QED
    BY <2>3, <2>4, <2>5, <2>6
<1>3. Paged(o, u) /\ Paged(o2, u) /\ ~Written(o, u) /\ Written(o2, u)
  BY <1>1 DEF Paged, Written
<1>4. ~Unread(o2, u)
  BY <1>1, <1>2 DEF Unread, Formed
<1>5. \A y \in o.page : y[1] = u => y = x
  BY DEF Formed
<1>6. CASE k = "alert"
  <2>1. v = LocalDay(u, o.t) /\ v \in Int
    BY <1>2, <1>6, DaysAdvance DEF Formed
  <2> QED
    BY <1>1, <1>3, <1>4, <1>6, <2>1 DEF Owing, Finished, DoneAt
<1>7. CASE k = "away"
  <2>1. v \in Int
    BY <1>7, StagesAreThresholds DEF Values
  <2>2. ~Finished(k, o, u, v) /\ Finished(k, o2, u, v)
    BY <1>1, <1>3, <1>5, <1>7, <2>1 DEF Finished
  <2> QED
    BY <1>3, <1>4, <1>7, <2>2 DEF Owing, DoneAt
<1> QED
  BY <1>6, <1>7 DEF Pass

\* A mark: who wrote it owes nothing more about that user, and unless he owed, nothing
\* that is done for others is undone.
LEMMA MarkAccount ==
    ASSUME NEW k \in Pass, NEW u \in User, NEW v \in Values(k),
           NEW o \in PassOps, NEW o2 \in {NoOp} \cup PassOps, NEW x \in Entry, NEW t \in Int,
           NEW a \in Int, NEW a2, a2 = IF u = x[1] THEN x[2] ELSE a,
           o.t <= t, MarkMove(o, o2), Formed(k, o), x = Turn(o.page), x \in o.page
    PROVE  /\ Owing(k, o2, u, v) => Owing(k, o, u, v)
           /\ DoneAt(k, o, a, t, u, v) => DoneAt(k, o2, a2, t, u, v)
           /\ \/ Owing(k, o, u, v) /\ ~Owing(k, o2, u, v)
              \/ \A h : DoneAt(k, h, a, t, u, v) => DoneAt(k, h, a2, t, u, v)
<1>1. /\ o # NoOp /\ o.step = "mark" /\ o.t \in Int /\ o.cursor \in Nat /\ u \in Nat
      /\ o.page \in SUBSET Entry
  BY NotificationsAssumption DEF MarkMove, PassOps, NoOp, Time, User
<1>2. /\ \A w \in User : Written(o, w) <=> w = x[1]
      /\ Paged(o, x[1])
  BY <1>1 DEF Written, Paged
<1>3. /\ Paged(o2, u) => Paged(o, u) /\ u # x[1] /\ o2 # NoOp
      /\ u # x[1] /\ Paged(o, u) => Paged(o2, u)
      /\ o2 # NoOp => o2.page = o.page \ {x} /\ o2.t = o.t /\ ~Written(o2, u)
  <2>1. o2 # NoOp => o2.page = o.page \ {x} /\ o2.t = o.t /\ o2.step \in {"page", "user"}
    BY DEF MarkMove
  <2>2. o2 = NoOp => o.page = {x}
    BY DEF MarkMove
  <2>3. \A y \in o.page : y[1] = x[1] => y = x
    BY DEF Formed
  <2> QED
    BY <1>1, <2>1, <2>2, <2>3 DEF Paged, Written
<1>4. Unread(o2, u) => Unread(o, u) /\ u # x[1]
  <2>1. ASSUME Unread(o2, u)
        PROVE  o2 # NoOp /\ o.cursor # 0 /\ u > o.cursor
    BY <1>1, <2>1 DEF Unread, MarkMove
  <2>2. o.cursor = 0 \/ x[1] <= o.cursor
    BY DEF Formed
  <2> QED
    BY <1>1, <2>1, <2>2 DEF Unread
<1>5. x[2] \in Int /\ v \in Int
  <2>1. x[2] \in Days \cup Stage
    BY DEF Entry
  <2>2. v \in Days \cup DOMAIN Threshold
    BY DEF Values
  <2>3. Days \subseteq Int
    BY DaysAreInt
  <2>4. Stage \subseteq Int /\ DOMAIN Threshold \subseteq Int
    <3>1. Stage = {0} \cup DOMAIN Threshold /\ Stage \subseteq Nat
      BY StagesAreThresholds
    <3> HIDE DEF Stage
    <3> QED
      BY <3>1
  <2> QED
    BY <2>1, <2>2, <2>3, <2>4
<1>6. CASE u # x[1]
  <2>1. a2 = a /\ ~Written(o, u)
    BY <1>2, <1>6
  <2>2. Owing(k, o2, u, v) => Owing(k, o, u, v)
    BY <1>1, <1>3, <1>4, <2>1 DEF Owing, Finished
  <2>3. ASSUME DoneAt(k, o, a, t, u, v) PROVE DoneAt(k, o2, a, t, u, v)
    <3>1. CASE k = "alert"
      <4>1. LocalDay(u, o.t) \in Int /\ LocalDay(u, t) \in Int /\ LocalDay(u, o.t) <= LocalDay(u, t)
        BY <1>1, DaysAdvance
      <4>2. LocalDay(u, o.t) > v \/ (LocalDay(u, o.t) = v /\ ~Paged(o, u) /\ a = v)
        BY <1>1, <2>1, <2>3, <3>1 DEF DoneAt
      <4> QED
        BY <1>3, <1>5, <3>1, <4>1, <4>2 DEF DoneAt
    <3>2. CASE k = "away"
      <4>1. Paged(o, u) => Finished(k, o, u, v)
        BY <2>3, <3>2 DEF DoneAt
      <4>2. Paged(o2, u) => Finished(k, o2, u, v)
        BY <1>1, <1>3, <2>1, <3>2, <4>1 DEF Finished
      <4> QED
        BY <1>3, <1>6, <2>3, <3>2, <4>2 DEF DoneAt
    <3> QED
      BY <3>1, <3>2 DEF Pass
  <2> QED
    BY <2>1, <2>2, <2>3
<1>7. CASE u = x[1]
  <2>1. a2 = x[2] /\ ~Paged(o2, u) /\ ~Unread(o2, u) /\ ~Owing(k, o2, u, v) /\ Paged(o, u)
    BY <1>2, <1>3, <1>4, <1>7 DEF Owing
  <2>2. CASE k = "alert"
    <3>1. /\ LocalDay(u, o.t) \in Int /\ LocalDay(u, t) \in Int /\ LocalDay(u, o.t) <= LocalDay(u, t)
          /\ x[2] = LocalDay(u, o.t)
      BY <1>1, <1>7, <2>2, DaysAdvance DEF Formed
    <3>2. DoneAt(k, o, a, t, u, v) => DoneAt(k, o2, a2, t, u, v)
      BY <1>1, <1>3, <1>5, <2>1, <2>2, <3>1 DEF DoneAt
    <3>3. CASE x[2] = v
      BY <2>1, <2>2, <3>2, <3>3 DEF DoneAt
    <3>4. CASE x[2] # v
      BY <2>1, <2>2, <3>1, <3>2, <3>4 DEF Owing, Finished
    <3> QED
      BY <3>3, <3>4
  <2>3. CASE k = "away"
    <3>1. \A y \in o.page : y[1] = u => y = x
      BY <1>7 DEF Formed
    <3>2. Finished(k, o, u, v) <=> x[2] >= v
      BY <1>2, <1>7, <2>3, <3>1 DEF Finished
    <3>3. DoneAt(k, o, a, t, u, v) => DoneAt(k, o2, a2, t, u, v)
      BY <2>1, <2>3, <3>2 DEF DoneAt
    <3>4. CASE x[2] >= v
      BY <2>1, <2>3, <3>3, <3>4 DEF DoneAt
    <3>5. CASE ~(x[2] >= v)
      BY <2>1, <3>2, <3>3, <3>5 DEF Owing
    <3> QED
      BY <3>4, <3>5
  <2> QED
    BY <2>2, <2>3 DEF Pass
<1> QED
  BY <1>6, <1>7

-----------------------------------------------------------------------------
(* The accounts balance.                                                     *)

\* What has been sent, and what is owed, is counted.
LEMMA CountsAreNat ==
    ASSUME AllTyped, NEW k \in Pass, NEW u \in User, NEW v \in Values(k)
    PROVE  /\ Pushed(k)[u][v] \in Nat /\ excused \in Nat
           /\ IsFiniteSet(Owed(k, u, v)) /\ Owed(k, u, v) \subseteq Lost
           /\ Cardinality(Owed(k, u, v)) \in Nat
<1>1. Owed(k, u, v) \in SUBSET Lost
  BY DEF Owed
<1>2. /\ IsFiniteSet(Owed(k, u, v)) /\ Cardinality(Owed(k, u, v)) \in Nat
  BY <1>1, LostIsFinite DEF AllTyped
<1>3. Pushed(k)[u][v] \in Nat /\ excused \in Nat
  BY DEF AllTyped, HistoryTyped, Pushed, Values
<1> QED
  BY <1>1, <1>2, <1>3

LEMMA BitIsBinary == \A b : Bit(b) \in {0, 1}
  BY DEF Bit

\* A pass that goes from o to o2, while the mark of u goes from a to a2, sends nothing and
\* undoes nothing for others unless it owed, or it owed what it sends.
Charged(k, o, o2, a, a2, u, v) ==
    /\ Owing(k, o2, u, v) => Owing(k, o, u, v)
    /\ \/ /\ Pushed(k)'[u][v] = Pushed(k)[u][v]
          /\ DoneAt(k, o, a, now, u, v) => DoneAt(k, o2, a2, now, u, v)
          /\ \/ Owing(k, o, u, v) /\ ~Owing(k, o2, u, v)
             \/ \A h : DoneAt(k, h, a, now, u, v) => DoneAt(k, h, a2, now, u, v)
       \/ /\ Pushed(k)'[u][v] = Pushed(k)[u][v] + 1 /\ a2 = a
          /\ Owing(k, o, u, v) /\ ~Owing(k, o2, u, v)
          /\ ~DoneAt(k, o, a, now, u, v) /\ DoneAt(k, o2, a, now, u, v)

\* The step of one pass.
LEMMA PassAccount ==
    ASSUME AllTyped, AllTyped', Accounted, NEW j \in Job, NEW k \in Pass, NEW u \in User,
           NEW v \in Values(k), NEW o, NEW o2, NEW a, NEW a2,
           op[<<j, k>>] = o, op'[<<j, k>>] = o2, a = Column(k, u), a2 = Column(k, u)',
           \A i \in Job : i # j => op'[<<i, k>>] = op[<<i, k>>],
           running' = running, lock' = lock, excused' = excused, now' = now, j \in running,
           Charged(k, o, o2, a, a2, u, v)
    PROVE  Pushed(k)'[u][v] + Cardinality(Owed(k, u, v)') <= excused' + Bit(Done(k, u, v)')
<1> USE DEF Charged
<1>1. PICK A : A = Owed(k, u, v)
  OBVIOUS
<1>2. PICK B : B = Owed(k, u, v)'
  OBVIOUS
<1>3. PICK n : n = Pushed(k)[u][v]
  OBVIOUS
<1>4. PICK m : m = Pushed(k)'[u][v]
  OBVIOUS
<1>5. PICK h, h2 : h = Holding(k) /\ h2 = Holding(k)'
  OBVIOUS
<1>6. PICK p, q : /\ p = Bit(DoneAt(k, h, a, now, u, v))
                  /\ q = Bit(DoneAt(k, h2, a2, now, u, v))
  OBVIOUS
<1>7. p = Bit(Done(k, u, v)) /\ q = Bit(Done(k, u, v)') /\ p \in {0, 1} /\ q \in {0, 1}
  <2>1. p = Bit(Done(k, u, v))
    BY <1>5, <1>6 DEF Done
  <2>2. q = Bit(Done(k, u, v)')
    BY <1>5, <1>6 DEF Done
  <2> QED
    BY <1>6, <2>1, <2>2, BitIsBinary
<1>8. n \in Nat /\ excused \in Nat /\ IsFiniteSet(A)
  BY <1>1, <1>3, CountsAreNat
<1>9. m \in Nat
  BY <1>4 DEF AllTyped, HistoryTyped, Pushed, Values
<1>10. n + Cardinality(A) <= excused + p
  BY <1>1, <1>3, <1>7 DEF Accounted
<1>11. B = {i \in Lost : Owing(k, op'[<<i, k>>], u, v)}
  BY <1>2 DEF Owed, Lost
<1>12. A = {i \in Lost : Owing(k, op[<<i, k>>], u, v)}
  BY <1>1 DEF Owed
<1>13. B \subseteq A
  BY <1>11, <1>12 DEF Lost, AllTyped, CoreTyped
<1>14. CASE j = lock
  <2>1. h = o /\ h2 = o2
    BY <1>5, <1>14 DEF Holding
  <2>2. \/ m = n /\ p <= q
        \/ m = n + 1 /\ p < q
    BY <1>3, <1>4, <1>6, <2>1 DEF Bit
  <2> QED
    BY <1>2, <1>4, <1>7, <1>8, <1>9, <1>10, <1>13, <2>2, AccountBalances
<1>15. CASE j # lock
  <2>1. h2 = h
    BY <1>5, <1>15 DEF Holding, AllTyped, CoreTyped
  <2>2. j \in Lost
    BY <1>15 DEF Lost
  <2>3. Owing(k, o, u, v) /\ ~Owing(k, o2, u, v) => B # A
    BY <1>11, <1>12, <2>2
  <2>4. \/ m = n /\ p <= q
        \/ m = n /\ B # A
        \/ m = n + 1 /\ B # A /\ p <= q
    BY <1>3, <1>4, <1>6, <2>1, <2>3 DEF Bit
  <2> QED
    BY <1>2, <1>4, <1>7, <1>8, <1>9, <1>10, <1>13, <2>4, AccountBalances
<1> QED
  BY <1>14, <1>15

\* A step after which no more is owed, and nothing that was done is undone.
LEMMA QuietAccount ==
    ASSUME AllTyped, AllTyped', Accounted, NEW k \in Pass, NEW u \in User, NEW v \in Values(k),
           Lost' \subseteq Lost, excused' = excused, Pushed(k)'[u][v] = Pushed(k)[u][v],
           \A i \in Lost' : op'[<<i, k>>] = op[<<i, k>>],
           Done(k, u, v) => Done(k, u, v)'
    PROVE  Pushed(k)'[u][v] + Cardinality(Owed(k, u, v)') <= excused' + Bit(Done(k, u, v)')
<1>1. PICK A : A = Owed(k, u, v)
  OBVIOUS
<1>2. PICK B : B = Owed(k, u, v)'
  OBVIOUS
<1>3. PICK n : n = Pushed(k)[u][v]
  OBVIOUS
<1>4. PICK p, q : p = Bit(Done(k, u, v)) /\ q = Bit(Done(k, u, v)')
  OBVIOUS
<1>5. p \in {0, 1} /\ q \in {0, 1} /\ p <= q
  BY <1>4 DEF Bit
<1>6. n \in Nat /\ excused \in Nat /\ IsFiniteSet(A)
  BY <1>1, <1>3, CountsAreNat
<1>7. n + Cardinality(A) <= excused + p
  BY <1>1, <1>3, <1>4 DEF Accounted
<1>8. B \subseteq A
  BY <1>1, <1>2 DEF Owed
<1>9. n + Cardinality(B) <= excused + q
  BY <1>5, <1>6, <1>7, <1>8, AccountBalances
<1> QED
  BY <1>2, <1>3, <1>4, <1>9

\* A step that excuses a run: the run may owe, or the first run is charged again.
LEMMA ExcusedAccount ==
    ASSUME AllTyped, AllTyped', Accounted, NEW k \in Pass, NEW u \in User, NEW v \in Values(k),
           excused' = excused + 1, Pushed(k)'[u][v] = Pushed(k)[u][v], NEW j,
           Lost' \subseteq Lost \cup {j},
           \A i \in Lost' : op'[<<i, k>>] = op[<<i, k>>],
           \/ j \notin Lost'
           \/ ~Owing(k, op[<<j, k>>], u, v)
           \/ Done(k, u, v) => Done(k, u, v)'
    PROVE  Pushed(k)'[u][v] + Cardinality(Owed(k, u, v)') <= excused' + Bit(Done(k, u, v)')
<1>1. PICK A : A = Owed(k, u, v)
  OBVIOUS
<1>2. PICK B : B = Owed(k, u, v)'
  OBVIOUS
<1>3. PICK n : n = Pushed(k)[u][v]
  OBVIOUS
<1>4. PICK p, q : p = Bit(Done(k, u, v)) /\ q = Bit(Done(k, u, v)')
  OBVIOUS
<1>5. p \in {0, 1} /\ q \in {0, 1} /\ ((Done(k, u, v) => Done(k, u, v)') => p <= q)
  BY <1>4 DEF Bit
<1>6. n \in Nat /\ excused \in Nat /\ IsFiniteSet(A)
  BY <1>1, <1>3, CountsAreNat
<1>7. n + Cardinality(A) <= excused + p
  BY <1>1, <1>3, <1>4 DEF Accounted
<1>8. B \subseteq A \cup {j}
  BY <1>1, <1>2 DEF Owed
<1>9. j \notin Lost' \/ ~Owing(k, op[<<j, k>>], u, v) => B \subseteq A
  BY <1>1, <1>2 DEF Owed
<1>10. B \subseteq A \/ p <= q
  BY <1>5, <1>9
<1>11. n + Cardinality(B) <= excused + 1 + q
  BY <1>5, <1>6, <1>7, <1>8, <1>10, ExcuseBalances
<1> QED
  BY <1>2, <1>3, <1>4, <1>11

\* The time of a pass, of a user and of a value are what they are.
LEMMA AccountTypes ==
    ASSUME AllTyped, NEW k \in Pass, NEW u \in User, NEW v \in Values(k)
    PROVE  now \in Int /\ Column(k, u) \in Int /\ v \in Int
<1>1. now \in Int
  BY NotificationsAssumption DEF AllTyped, CoreTyped, Time
<1>2. person[u].alert \in Days \cup {Never} /\ person[u].stage \in Stage
  BY DEF AllTyped, PersonsTyped, Person
<1>3. Days \subseteq Int /\ Never \in Int
  BY DaysAreInt DEF Never
<1>4. Stage \subseteq Int /\ DOMAIN Threshold \subseteq Int
  <2>1. Stage = {0} \cup DOMAIN Threshold /\ Stage \subseteq Nat
    BY StagesAreThresholds
  <2> HIDE DEF Stage
  <2> QED
    BY <2>1
<1>5. person[u].alert \in Int /\ person[u].stage \in Int
  BY <1>2, <1>3, <1>4
<1>6. v \in Int
  BY <1>3, <1>4 DEF Values
<1> QED
  BY <1>1, <1>5, <1>6 DEF Column

\* Time undoes nothing.
LEMMA DoneStays ==
    ASSUME NEW k \in Pass, NEW u \in User, NEW v \in Int, NEW o, NEW a, NEW t \in Int,
           NEW t2 \in Int, t <= t2, DoneAt(k, o, a, t, u, v)
    PROVE  DoneAt(k, o, a, t2, u, v)
<1>1. /\ LocalDay(u, t) \in Int /\ LocalDay(u, t2) \in Int
      /\ LocalDay(u, t) <= LocalDay(u, t2)
  BY DaysAdvance
<1> QED
  BY <1>1 DEF DoneAt

\* Nor does the end of a pass that is over.
LEMMA DoneWithout ==
    ASSUME NEW k \in Pass, NEW u \in User, NEW v \in Int, NEW o \in PassOps, NEW a, NEW t \in Int,
           o.t <= t, Formed(k, o), DoneAt(k, o, a, t, u, v), Owing(k, o, u, v)
    PROVE  DoneAt(k, NoOp, a, t, u, v)
<1>1. o # NoOp /\ o.t \in Int /\ o.cursor \in Int /\ User \subseteq Nat
  BY NotificationsAssumption DEF PassOps, NoOp, Time, User
<1>2. /\ LocalDay(u, o.t) \in Int /\ LocalDay(u, t) \in Int
      /\ LocalDay(u, o.t) <= LocalDay(u, t)
  BY <1>1, DaysAdvance
<1>3. Paged(o, u) => ~Unread(o, u)
  <2>1. ASSUME NEW x \in o.page, x[1] = u PROVE ~Unread(o, u)
    <3>1. o.page # {} /\ (o.cursor = 0 \/ u <= o.cursor)
      BY <2>1 DEF Formed
    <3>2. o.step # "page"
      BY <3>1 DEF Formed
    <3> QED
      BY <1>1, <3>1, <3>2 DEF Unread
  <2> QED
    BY <2>1 DEF Paged
<1>4. ~Paged(NoOp, u)
  BY DEF Paged
<1>5. CASE k = "alert"
  <2>1. \/ LocalDay(u, o.t) > v
        \/ LocalDay(u, o.t) = v /\ IF Paged(o, u) THEN Written(o, u) ELSE a = v
    BY <1>1, <1>5 DEF DoneAt
  <2>2. ASSUME LocalDay(u, o.t) = v, Paged(o, u), Written(o, u) PROVE FALSE
    BY <1>3, <1>5, <2>2 DEF Owing, Finished
  <2> QED
    BY <1>2, <1>5, <2>1, <2>2 DEF DoneAt
<1>6. CASE k = "away"
  <2>1. ~Paged(o, u)
    BY <1>3, <1>6 DEF DoneAt, Owing
  <2> QED
    BY <1>4, <1>6, <2>1 DEF DoneAt
<1> QED
  BY <1>5, <1>6 DEF Pass

\* The steps of requests, of users and of the clock.
LEMMA AccountQuiet ==
    ASSUME AllTyped, AllTyped', Accounted, NEW k \in Pass, NEW u \in User, NEW v \in Values(k),
           \A j \in Job : op'[<<j, k>>] = op[<<j, k>>],
           running' = running, lock' = lock, excused' = excused, now' \in {now, now + 1},
           Pushed(k)'[u][v] = Pushed(k)[u][v], Column(k, u)' = Column(k, u)
    PROVE  Pushed(k)'[u][v] + Cardinality(Owed(k, u, v)') <= excused' + Bit(Done(k, u, v)')
<1>1. Lost' \subseteq Lost /\ \A i \in Lost' : op'[<<i, k>>] = op[<<i, k>>]
  BY DEF Lost, AllTyped, CoreTyped
<1>2. PICK h, a : h = Holding(k) /\ a = Column(k, u)
  OBVIOUS
<1>3. Holding(k)' = h
  BY <1>2 DEF Holding, AllTyped, CoreTyped
<1>4. ASSUME Done(k, u, v) PROVE Done(k, u, v)'
  <2>1. DoneAt(k, h, a, now, u, v)
    BY <1>2, <1>4 DEF Done
  <2>2. now \in Int /\ now' \in Int /\ now <= now' /\ v \in Int
    BY AccountTypes
  <2>3. DoneAt(k, h, a, now', u, v)
    BY <2>1, <2>2, DoneStays
  <2> QED
    BY <1>2, <1>3, <2>3 DEF Done
<1> QED
  BY <1>1, <1>4, QuietAccount

\* The lock runs out.
LEMMA AccountLockExpires ==
    ASSUME AllTyped, AllTyped', PassesFormed, Accounted, LockExpires,
           NEW k \in Pass, NEW u \in User, NEW v \in Values(k)
    PROVE  Pushed(k)'[u][v] + Cardinality(Owed(k, u, v)') <= excused' + Bit(Done(k, u, v)')
<1>1. /\ lock # Nobody /\ lock' = Nobody /\ op' = op /\ now' = now /\ person' = person
      /\ running' = running /\ alerts' = alerts /\ aways' = aways
  BY DEF LockExpires
<1>2. Nobody \notin running /\ Pushed(k)'[u][v] = Pushed(k)[u][v] /\ Column(k, u)' = Column(k, u)
  BY <1>1, NotificationsAssumption DEF AllTyped, CoreTyped, Pushed, Column
<1>3. Holding(k)' = NoOp
  BY <1>1, <1>2 DEF Holding
<1>4. CASE lock \notin running
  <2>1. excused' = excused
    BY <1>4 DEF LockExpires
  <2>2. Lost' \subseteq Lost /\ \A i \in Lost' : op'[<<i, k>>] = op[<<i, k>>]
    BY <1>1, <1>4 DEF Lost
  <2>3. Done(k, u, v)' <=> Done(k, u, v)
    BY <1>1, <1>2, <1>3, <1>4 DEF Done, Holding
  <2> QED
    BY <1>2, <2>1, <2>2, <2>3, QuietAccount
<1>5. CASE lock \in running
  <2>1. excused' = excused + 1
    BY <1>5 DEF LockExpires
  <2>2. Lost' \subseteq Lost \cup {lock} /\ \A i \in Lost' : op'[<<i, k>>] = op[<<i, k>>]
    BY <1>1, <1>5 DEF Lost
  <2>3. ASSUME Owing(k, op[<<lock, k>>], u, v), Done(k, u, v) PROVE Done(k, u, v)'
    <3>1. PICK o, a : o = op[<<lock, k>>] /\ a = Column(k, u)
      OBVIOUS
    <3>2. o # NoOp
      BY <2>3, <3>1 DEF Owing, Unread, Paged
    <3>3. lock \in Job /\ <<lock, k>> \in PassSlot
      BY <1>5 DEF AllTyped, CoreTyped, PassSlot
    <3>4. o \in PassOps /\ o.t <= now /\ Formed(k, o)
      BY <3>1, <3>2, <3>3 DEF AllTyped, SlotsTyped, PassesFormed
    <3>5. now \in Int /\ v \in Int
      BY AccountTypes
    <3>6. DoneAt(k, o, a, now, u, v)
      BY <1>5, <2>3, <3>1 DEF Done, Holding
    <3>7. DoneAt(k, NoOp, a, now, u, v)
      BY <2>3, <3>1, <3>4, <3>5, <3>6, DoneWithout
    <3> QED
      BY <1>1, <1>2, <1>3, <3>1, <3>7 DEF Done
  <2> QED
    BY <1>2, <2>1, <2>2, <2>3, ExcusedAccount
<1> QED
  BY <1>4, <1>5

\* A run starts, ends, or dies.
LEMMA AccountRun ==
    ASSUME AllTyped, AllTyped', Accounted, NEW j \in Job,
           RunReminders(j) \/ RemindersEnd(j) \/ Die(j),
           NEW k \in Pass, NEW u \in User, NEW v \in Values(k)
    PROVE  Pushed(k)'[u][v] + Cardinality(Owed(k, u, v)') <= excused' + Bit(Done(k, u, v)')
<1>1. /\ now' = now /\ Pushed(k)'[u][v] = Pushed(k)[u][v] /\ Column(k, u)' = Column(k, u)
  BY DEF RunReminders, RemindersEnd, Die, history, Pushed, Column
<1>2. Nobody \notin running /\ running \subseteq Job
  BY NotificationsAssumption DEF AllTyped, CoreTyped
<1>3. \A i \in Job : <<i, k>> \in Slot
  BY SlotsApart DEF PassSlot
<1>4. CASE RunReminders(j)
  <2>1. PICK o : o = [step |-> "page", t |-> now, cursor |-> 0, page |-> {}, tokens |-> {}]
    OBVIOUS
  <2>2. /\ j \notin running /\ lock = Nobody /\ lock' = j /\ running' = running \cup {j}
        /\ op' = [s \in Slot |-> IF s \in {j} \X Pass THEN o ELSE op[s]] /\ excused' = excused
    BY <1>4, <2>1 DEF RunReminders, history
  <2>3. Lost' \subseteq Lost /\ j \notin Lost'
    BY <1>2, <2>2 DEF Lost
  <2>4. \A i \in Job : op'[<<i, k>>] = IF i = j THEN o ELSE op[<<i, k>>]
    BY <1>3, <2>2
  <2>5. \A i \in Lost' : op'[<<i, k>>] = op[<<i, k>>]
    BY <1>2, <2>3, <2>4 DEF Lost
  <2>6. Holding(k) = NoOp /\ Holding(k)' = o
    BY <1>2, <2>2, <2>4 DEF Holding
  <2>7. PICK a : a = Column(k, u)
    OBVIOUS
  <2>8. DoneAt(k, NoOp, a, now, u, v) => DoneAt(k, o, a, now, u, v)
    BY <2>1 DEF DoneAt, Paged, NoOp
  <2>9. Done(k, u, v) => Done(k, u, v)'
    BY <1>1, <2>6, <2>7, <2>8 DEF Done
  <2> QED
    BY <1>1, <2>2, <2>3, <2>5, <2>9, QuietAccount
<1>5. CASE RemindersEnd(j)
  <2>1. /\ j \in running /\ op' = op /\ running' = running \ {j} /\ excused' = excused
        /\ lock' = (IF lock = j THEN Nobody ELSE lock) /\ op[<<j, k>>] = NoOp
    BY <1>5 DEF RemindersEnd, history
  <2>2. Lost' \subseteq Lost /\ \A i \in Lost' : op'[<<i, k>>] = op[<<i, k>>]
    BY <1>2, <2>1 DEF Lost
  <2>3. Holding(k)' = Holding(k)
    BY <1>2, <2>1 DEF Holding
  <2>4. Done(k, u, v) => Done(k, u, v)'
    BY <1>1, <2>3 DEF Done
  <2> QED
    BY <1>1, <2>1, <2>2, <2>4, QuietAccount
<1>6. CASE Die(j)
  <2>1. /\ j \in running /\ running' = running \ {j} /\ excused' = excused + 1 /\ lock' = lock
        /\ op' = [s \in Slot |-> IF s \in {j} \X Pass THEN NoOp ELSE op[s]]
    BY <1>6 DEF Die
  <2>2. Lost' \subseteq Lost \cup {j} /\ j \notin Lost'
    BY <2>1 DEF Lost
  <2>3. \A i \in Lost' : op'[<<i, k>>] = op[<<i, k>>]
    BY <1>2, <1>3, <2>1, <2>2 DEF Lost
  <2> QED
    BY <1>1, <2>1, <2>2, <2>3, ExcusedAccount
<1> QED
  BY <1>4, <1>5, <1>6

\* A user comes back: what was sent in his absence counts no more, and each run that owes
\* is excused already.
LEMMA AccountSync ==
    ASSUME AllTyped, AllTyped', Accounted, LostExcused, NEW r \in Request, SyncUserState(r),
           NEW k \in Pass, NEW u \in User, NEW v \in Values(k)
    PROVE  Pushed(k)'[u][v] + Cardinality(Owed(k, u, v)') <= excused' + Bit(Done(k, u, v)')
<1>1. PassesSame
  BY RequestsQuiet DEF Requests, RequestStep
<1>2. PICK o : o = op[r]
  OBVIOUS
<1>3. o.step = "sync" /\ o \in RequestOps
  BY <1>2 DEF SyncUserState, AllTyped, SlotsTyped
<1>4. o.u \in User /\ o.t \in Time /\ o.row \in Person
  BY <1>3 DEF RequestOps, NoOp
<1>5. PICK new : new = Synced(o.row, o.u, o.t)
  OBVIOUS
<1>6. new \in Person /\ new.alert = o.row.alert
  BY <1>4, <1>5, SyncedPerson
<1>7. PICK q : q = [c \in DOMAIN person[o.u] |->
                      IF new[c] # o.row[c] THEN new[c] ELSE person[o.u][c]]
  OBVIOUS
<1>8. person' = [person EXCEPT ![o.u] = q]
      /\ aways' = [aways EXCEPT ![o.u] = [i \in DOMAIN Threshold |-> 0]]
  BY <1>2, <1>5, <1>7 DEF SyncUserState
<1>9. q.alert = person[o.u].alert
  <2>1. person[o.u] \in Person
    BY <1>4 DEF AllTyped, PersonsTyped
  <2> QED
    BY <1>4, <1>6, <1>7, <2>1, MergedPerson
<1>10. CASE k = "alert" \/ u # o.u
  <2>1. Column(k, u)' = Column(k, u)
    BY <1>4, <1>8, <1>9, <1>10 DEF Column, AllTyped, PersonsTyped
  <2>2. Pushed(k)'[u][v] = Pushed(k)[u][v]
    BY <1>1, <1>4, <1>8, <1>10 DEF Pushed, PassesSame, AllTyped, HistoryTyped
  <2>3. /\ \A j \in Job : op'[<<j, k>>] = op[<<j, k>>]
        /\ running' = running /\ lock' = lock /\ excused' = excused /\ now' \in {now, now + 1}
    BY <1>1 DEF PassesSame
  <2> QED
    BY <2>1, <2>2, <2>3, AccountQuiet
<1>11. CASE k = "away" /\ u = o.u
  <2>1. Pushed(k)'[u][v] = 0
    BY <1>4, <1>8, <1>11 DEF Pushed, Values, AllTyped, HistoryTyped
  <2>2. PICK B : B = Owed(k, u, v)'
    OBVIOUS
  <2>3. B \in SUBSET Lost /\ excused' = excused /\ excused \in Nat
    BY <1>1, <2>2 DEF Owed, Lost, PassesSame, AllTyped, HistoryTyped
  <2>4. /\ Cardinality(B) \in Nat /\ Cardinality(Lost) \in Nat
        /\ Cardinality(B) <= Cardinality(Lost)
    BY <2>3, LostIsFinite DEF AllTyped
  <2>5. PICK q2 : q2 = Bit(Done(k, u, v)')
    OBVIOUS
  <2>6. q2 \in {0, 1}
    BY <2>5, BitIsBinary
  <2>7. 0 + Cardinality(B) <= excused + q2
    BY <2>3, <2>4, <2>6 DEF LostExcused
  <2> QED
    BY <2>1, <2>2, <2>3, <2>5, <2>7
<1> QED
  BY <1>10, <1>11 DEF Pass

\* A step of the pass k, in the accounts of all passes.
LEMMA AccountPass ==
    ASSUME AllTyped, AllTyped', PassesFormed, Accounted, NEW j \in Job, NEW k \in Pass,
           NEW o \in PassOps, NEW o2 \in {NoOp} \cup PassOps,
           op[<<j, k>>] = o, op' = [op EXCEPT ![<<j, k>>] = o2],
           o2 # NoOp => Formed(k, o2) /\ o2.t = o.t,
           running' = running, lock' = lock, excused' = excused, now' = now,
           NEW l \in Pass, NEW u \in User, NEW v \in Values(l), NEW a, NEW a2,
           a = Column(l, u), a2 = Column(l, u)',
           l # k => Pushed(l)'[u][v] = Pushed(l)[u][v] /\ a2 = a,
           l = k => Charged(l, o, o2, a, a2, u, v)
    PROVE  Pushed(l)'[u][v] + Cardinality(Owed(l, u, v)') <= excused' + Bit(Done(l, u, v)')
<1>1. /\ op'[<<j, k>>] = o2 /\ j \in running
      /\ \A i \in Job, m \in Pass : <<i, m>> # <<j, k>> => op'[<<i, m>>] = op[<<i, m>>]
  <2>1. SlotsTyped /\ Goto(<<j, k>>, o2)
    BY DEF AllTyped, Goto
  <2>2. o # NoOp
    BY DEF PassOps, NoOp
  <2>3. j \in running
    BY <2>2 DEF PassesFormed
  <2> QED
    BY <2>1, <2>3, PassFrame
<1>2. CASE l # k
  <2>1. \A i \in Job : op'[<<i, l>>] = op[<<i, l>>]
    BY <1>1, <1>2
  <2>2. Pushed(l)'[u][v] = Pushed(l)[u][v] /\ Column(l, u)' = Column(l, u) /\ now' \in {now, now + 1}
    BY <1>2
  <2> QED
    BY <2>1, <2>2, AccountQuiet
<1>3. CASE l = k
  <2>1. \A i \in Job : i # j => op'[<<i, l>>] = op[<<i, l>>]
    BY <1>1, <1>3
  <2>2. op[<<j, l>>] = o /\ op'[<<j, l>>] = o2 /\ Charged(l, o, o2, a, a2, u, v)
    BY <1>1, <1>3
  <2> QED
    BY <1>1, <2>1, <2>2, PassAccount
<1> QED
  BY <1>2, <1>3

\* The pass is of the past, and well formed.
LEMMA PassIsFormed ==
    ASSUME PassesFormed, NEW j \in Job, NEW k \in Pass, NEW o \in PassOps, op[<<j, k>>] = o
    PROVE  Formed(k, o) /\ o.t <= now
<1>1. o # NoOp
  BY DEF PassOps, NoOp
<1> QED
  BY <1>1 DEF PassesFormed

\* A pass reads a page.
LEMMA AccountRead ==
    ASSUME AllTyped, AllTyped', PassesFormed, Accounted,
           NEW j \in Job, NEW k \in Pass, ReadPage(<<j, k>>),
           NEW l \in Pass, NEW u \in User, NEW v \in Values(l)
    PROVE  Pushed(l)'[u][v] + Cardinality(Owed(l, u, v)') <= excused' + Bit(Done(l, u, v)')
<1>1. PICK o \in PassOps, o2 \in {NoOp} \cup PassOps : ReadStep(j, k, o, o2)
  BY ReadPageMoves DEF AllTyped, CoreTyped
<1>2. op[<<j, k>>] = o /\ op' = [op EXCEPT ![<<j, k>>] = o2]
  BY <1>1 DEF ReadStep
<1>3. Formed(k, o) /\ o.t <= now
  BY <1>2, PassIsFormed
<1>4. ReadMove(k, o, o2) /\ (o2 # NoOp => Formed(k, o2))
  BY <1>1, <1>3 DEF ReadStep
<1>5. o2 # NoOp => Formed(k, o2) /\ o2.t = o.t
  BY <1>4 DEF ReadMove
<1>6. /\ now' = now /\ running' = running /\ lock' = lock /\ person' = person
      /\ alerts' = alerts /\ aways' = aways /\ excused' = excused
  BY StepsOfPass
<1>7. PICK a, a2 : a = Column(l, u) /\ a2 = Column(l, u)'
  OBVIOUS
<1>8. Pushed(l)'[u][v] = Pushed(l)[u][v] /\ a2 = a
  BY <1>6, <1>7 DEF Pushed, Column
<1>9. ASSUME l = k PROVE Charged(l, o, o2, a, a2, u, v)
  <2>1. /\ Owing(l, o2, u, v) => Owing(l, o, u, v)
        /\ DoneAt(l, o, a, now, u, v) => DoneAt(l, o2, a, now, u, v)
    BY <1>3, <1>4, <1>7, <1>9, ReadAccount
  <2> QED
    BY <1>8, <2>1 DEF Charged
<1>10. l # k => Pushed(l)'[u][v] = Pushed(l)[u][v] /\ a2 = a
  BY <1>8
<1> QED
  BY <1>2, <1>5, <1>6, <1>7, <1>9, <1>10, AccountPass, ZenonT(60)

\* It does the next thing about a turn.
LEMMA AccountTurn ==
    ASSUME AllTyped, AllTyped', PassesFormed, Accounted, NEW j \in Job, NEW k \in Pass,
           Remind(<<j, k>>) \/ Push(<<j, k>>) \/ DisableTokens(<<j, k>>),
           NEW l \in Pass, NEW u \in User, NEW v \in Values(l)
    PROVE  Pushed(l)'[u][v] + Cardinality(Owed(l, u, v)') <= excused' + Bit(Done(l, u, v)')
<1>1. PICK o \in PassOps, o2 \in PassOps : TurnStep(j, k, o, o2)
  BY TurnMoves DEF AllTyped
<1>2. /\ op[<<j, k>>] = o /\ op' = [op EXCEPT ![<<j, k>>] = o2]
      /\ TurnMove(o, o2) /\ Formed(k, o) /\ Formed(k, o2)
      /\ Push(<<j, k>>) <=> o.step = "push"
  BY <1>1 DEF TurnStep
<1>3. o2 # NoOp => Formed(k, o2) /\ o2.t = o.t
  BY <1>2 DEF TurnMove
<1>4. /\ now' = now /\ running' = running /\ lock' = lock /\ person' = person
      /\ excused' = excused
  BY StepsOfPass
<1>5. PICK a, a2 : a = Column(l, u) /\ a2 = Column(l, u)'
  OBVIOUS
<1>6. a2 = a
  BY <1>4, <1>5 DEF Column
<1>7. \/ Pushed(l)'[u][v] = Pushed(l)[u][v]
      \/ /\ l = k /\ Pushed(l)'[u][v] = Pushed(l)[u][v] + 1 /\ o.step = "push"
         /\ \E x \in Entry : x = Turn(o.page) /\ x \in o.page /\ u = x[1] /\ v = x[2]
  <2>1. CASE ~Push(<<j, k>>)
    <3>1. UNCHANGED <<alerts, aways>>
      BY <2>1, StepsOfPass
    <3> QED
      BY <3>1 DEF Pushed
  <2>2. CASE Push(<<j, k>>)
    <3>1. PICK x \in Entry : PushStep(k, o, x)
      BY <1>2, <2>2, PushCounts
    <3>2. x[1] \in User /\ x = Turn(o.page) /\ x \in o.page
      BY <3>1 DEF Entry, PushStep
    <3>3. CASE l = "alert"
      <4>1. /\ Pushed(l) = alerts /\ Pushed(l)' = alerts' /\ v \in Days
            /\ alerts \in [User -> [Days -> Nat]]
        BY <3>3 DEF Pushed, Values, AllTyped, HistoryTyped
      <4>2. CASE alerts' = alerts
        BY <4>1, <4>2
      <4>3. CASE k = "alert" /\ x[2] \in Days /\ alerts' = [alerts EXCEPT ![x[1]][x[2]] = @ + 1]
        <5>1. CASE u = x[1] /\ v = x[2]
          BY <1>2, <2>2, <3>2, <3>3, <4>1, <4>3, <5>1
        <5>2. CASE ~(u = x[1] /\ v = x[2])
          BY <3>2, <4>1, <4>3, <5>2
        <5> QED
          BY <5>1, <5>2
      <4> QED
        BY <3>1, <4>2, <4>3 DEF PushStep
    <3>4. CASE l = "away"
      <4>1. /\ Pushed(l) = aways /\ Pushed(l)' = aways' /\ v \in DOMAIN Threshold
            /\ aways \in [User -> [DOMAIN Threshold -> Nat]]
        BY <3>4 DEF Pushed, Values, AllTyped, HistoryTyped
      <4>2. CASE aways' = aways
        BY <4>1, <4>2
      <4>3. CASE k = "away" /\ x[2] \in DOMAIN Threshold
                 /\ aways' = [aways EXCEPT ![x[1]][x[2]] = @ + 1]
        <5>1. CASE u = x[1] /\ v = x[2]
          BY <1>2, <2>2, <3>2, <3>4, <4>1, <4>3, <5>1
        <5>2. CASE ~(u = x[1] /\ v = x[2])
          BY <3>2, <4>1, <4>3, <5>2
        <5> QED
          BY <5>1, <5>2
      <4> QED
        BY <3>1, <4>2, <4>3 DEF PushStep
    <3> QED
      BY <3>3, <3>4 DEF Pass
  <2> QED
    BY <2>1, <2>2
<1>8. ASSUME l = k PROVE Charged(l, o, o2, a, a2, u, v)
  <2>1. /\ Owing(l, o2, u, v) => Owing(l, o, u, v)
        /\ DoneAt(l, o, a, now, u, v) => DoneAt(l, o2, a, now, u, v)
    BY <1>2, <1>8, TurnAccount
  <2>2. CASE Pushed(l)'[u][v] = Pushed(l)[u][v]
    BY <1>6, <2>1, <2>2 DEF Charged
  <2>3. CASE Pushed(l)'[u][v] # Pushed(l)[u][v]
    <3>1. PICK x \in Entry : /\ x = Turn(o.page) /\ x \in o.page /\ u = x[1] /\ v = x[2]
                             /\ Pushed(l)'[u][v] = Pushed(l)[u][v] + 1 /\ o.step = "push"
      BY <1>7, <2>3
    <3>2. /\ Owing(l, o, u, v) /\ ~Owing(l, o2, u, v)
          /\ ~DoneAt(l, o, a, now, u, v) /\ DoneAt(l, o2, a, now, u, v)
      BY <1>2, <1>8, <3>1, PushAccount
    <3> QED
      BY <1>6, <3>1, <3>2 DEF Charged
  <2> QED
    BY <2>2, <2>3
<1>9. /\ l # k => Pushed(l)'[u][v] = Pushed(l)[u][v] /\ a2 = a
      /\ op[<<j, k>>] = o /\ op' = [op EXCEPT ![<<j, k>>] = o2] /\ o2 \in {NoOp} \cup PassOps
  BY <1>2, <1>6, <1>7
<1> QED
  BY <1>3, <1>4, <1>5, <1>8, <1>9, AccountPass, ZenonT(60)

\* It writes a mark.
LEMMA AccountMark ==
    ASSUME AllTyped, AllTyped', PassesFormed, Accounted,
           NEW j \in Job, NEW k \in Pass, WriteMark(<<j, k>>),
           NEW l \in Pass, NEW u \in User, NEW v \in Values(l)
    PROVE  Pushed(l)'[u][v] + Cardinality(Owed(l, u, v)') <= excused' + Bit(Done(l, u, v)')
<1>1. PICK o \in PassOps, o2 \in {NoOp} \cup PassOps, x \in Entry : MarkStep(j, k, o, o2, x)
  BY MarkMoves DEF AllTyped
<1>2. /\ op[<<j, k>>] = o /\ op' = [op EXCEPT ![<<j, k>>] = o2]
      /\ x = Turn(o.page) /\ x \in o.page /\ MarkMove(o, o2) /\ Formed(k, o)
      /\ o2 # NoOp => Formed(k, o2)
      /\ person' = [person EXCEPT ![x[1]] = IF k = "alert" THEN [@ EXCEPT !.alert = x[2]]
                                            ELSE [@ EXCEPT !.stage = x[2]]]
  BY <1>1 DEF MarkStep
<1>3. o2 # NoOp => Formed(k, o2) /\ o2.t = o.t
  BY <1>2 DEF MarkMove
<1>4. /\ now' = now /\ running' = running /\ lock' = lock
      /\ alerts' = alerts /\ aways' = aways /\ excused' = excused
  BY StepsOfPass
<1>5. o.t <= now
  BY <1>2, PassIsFormed
<1>6. Pushed(l)'[u][v] = Pushed(l)[u][v]
  BY <1>4 DEF Pushed
<1>7. PICK a, a2 : a = Column(l, u) /\ a2 = Column(l, u)'
  OBVIOUS
<1>8. a2 = IF l = k /\ u = x[1] THEN x[2] ELSE a
  <2>1. x[1] \in User /\ person[x[1]] \in Person /\ person \in [User -> Person]
    BY DEF Entry, AllTyped, PersonsTyped
  <2>2. PICK q : q = person[x[1]]
    OBVIOUS
  <2>3. /\ [q EXCEPT !.alert = x[2]].alert = x[2] /\ [q EXCEPT !.alert = x[2]].stage = q.stage
        /\ [q EXCEPT !.stage = x[2]].stage = x[2] /\ [q EXCEPT !.stage = x[2]].alert = q.alert
    BY <2>1, <2>2 DEF Person
  <2>4. u # x[1] => person'[u] = person[u]
    BY <1>2, <2>1
  <2>5. person'[x[1]] = IF k = "alert" THEN [q EXCEPT !.alert = x[2]]
                        ELSE [q EXCEPT !.stage = x[2]]
    BY <1>2, <2>1, <2>2
  <2> QED
    BY <1>7, <2>2, <2>3, <2>4, <2>5 DEF Column, Pass
<1>9. ASSUME l = k PROVE Charged(l, o, o2, a, a2, u, v)
  <2>1. now \in Int /\ a \in Int
    BY <1>7, AccountTypes
  <2>2. a2 = IF u = x[1] THEN x[2] ELSE a
    BY <1>8, <1>9
  <2>3. /\ Owing(l, o2, u, v) => Owing(l, o, u, v)
        /\ DoneAt(l, o, a, now, u, v) => DoneAt(l, o2, a2, now, u, v)
        /\ \/ Owing(l, o, u, v) /\ ~Owing(l, o2, u, v)
           \/ \A h : DoneAt(l, h, a, now, u, v) => DoneAt(l, h, a2, now, u, v)
    BY <1>2, <1>5, <1>9, <2>1, <2>2, MarkAccount
  <2> QED
    BY <1>6, <2>3 DEF Charged
<1>10. /\ l # k => Pushed(l)'[u][v] = Pushed(l)[u][v] /\ a2 = a
       /\ op[<<j, k>>] = o /\ op' = [op EXCEPT ![<<j, k>>] = o2]
  BY <1>2, <1>6, <1>8
<1> QED
  BY <1>3, <1>4, <1>7, <1>9, <1>10, AccountPass, ZenonT(60)

\* Whatever step is taken, the accounts balance.
LEMMA AccountedStep ==
    ASSUME AllTyped, AllTyped', PassesFormed, LostExcused, Accounted,
           [NotificationsNext]_notificationsVars
    PROVE  Accounted'
<1> SUFFICES ASSUME NEW l \in Pass, NEW u \in User, NEW v \in Values(l)
             PROVE  Pushed(l)'[u][v] + Cardinality(Owed(l, u, v)')
                        <= excused' + Bit(Done(l, u, v)')
  BY DEF Accounted, Values
<1> DEFINE Goal == Pushed(l)'[u][v] + Cardinality(Owed(l, u, v)')
                       <= excused' + Bit(Done(l, u, v)')
<1>1. ASSUME PassesSame, AwaysSame PROVE Goal
  <2>1. Pushed(l)'[u][v] = Pushed(l)[u][v] /\ Column(l, u)' = Column(l, u)
    BY <1>1 DEF PassesSame, AwaysSame, Pushed, Column
  <2>2. /\ \A j \in Job : op'[<<j, l>>] = op[<<j, l>>]
        /\ running' = running /\ lock' = lock /\ excused' = excused /\ now' \in {now, now + 1}
    BY <1>1 DEF PassesSame
  <2> QED
    BY <2>1, <2>2, AccountQuiet
<1>2. ASSUME ClockTicks PROVE Goal
  <2>1. Pushed(l)'[u][v] = Pushed(l)[u][v] /\ Column(l, u)' = Column(l, u)
    BY <1>2 DEF ClockTicks, history, Pushed, Column
  <2>2. /\ \A j \in Job : op'[<<j, l>>] = op[<<j, l>>]
        /\ running' = running /\ lock' = lock /\ excused' = excused /\ now' \in {now, now + 1}
    BY <1>2 DEF ClockTicks, history
  <2> QED
    BY <2>1, <2>2, AccountQuiet
<1>3. ASSUME LockExpires PROVE Goal
  BY <1>3, AccountLockExpires
<1>4. ASSUME NEW j \in Job, RunReminders(j) \/ RemindersEnd(j) \/ Die(j) PROVE Goal
  BY <1>4, AccountRun
<1>5. ASSUME NEW j \in Job, NEW k \in Pass, ReadPage(<<j, k>>) \/ WriteMark(<<j, k>>) PROVE Goal
  BY <1>5, AccountRead, AccountMark
<1>6. ASSUME NEW j \in Job, NEW k \in Pass,
             Remind(<<j, k>>) \/ Push(<<j, k>>) \/ DisableTokens(<<j, k>>)
      PROVE  Goal
  BY <1>6, AccountTurn
<1>7. ASSUME NEW r \in Request, Requests(r) PROVE Goal
  <2>1. CASE SyncUserState(r)
    BY <2>1, AccountSync
  <2>2. CASE ~SyncUserState(r)
    BY <1>1, <1>7, <2>2, RequestsQuiet
  <2> QED
    BY <2>1, <2>2
<1>8. ASSUME \/ UNCHANGED notificationsVars
             \/ \E w \in User : CooldownEnds(w) \/ Play(w) \/ \E c \in Prefs : UpdatePrefs(w, c)
             \/ \E w \in User, t \in Token : RegisterToken(w, t) \/ RemoveToken(w, t)
      PROVE  Goal
  BY <1>1, <1>8, OthersQuiet
<1> HIDE DEF Goal
<1>9. /\ ClockTicks => Goal
      /\ LockExpires => Goal
      /\ (\E j \in Job : RunReminders(j) \/ RemindersEnd(j) \/ Die(j)) => Goal
  BY <1>2, <1>3, <1>4
<1>10. /\ (\E j \in Job, k \in Pass : ReadPage(<<j, k>>) \/ WriteMark(<<j, k>>)) => Goal
       /\ (\E j \in Job, k \in Pass :
             Remind(<<j, k>>) \/ Push(<<j, k>>) \/ DisableTokens(<<j, k>>)) => Goal
       /\ (\E r \in Request : Requests(r)) => Goal
  BY <1>5, <1>6, <1>7
<1>11. Goal
  BY <1>8, <1>9, <1>10, StepCases
<1> QED
  BY <1>11 DEF Goal

-----------------------------------------------------------------------------
(* The inductive invariant.                                                  *)

NotificationsInv == /\ AllTyped /\ PassesFormed /\ LostExcused
                    /\ TokensReported /\ StagesFit /\ Accounted

LEMMA NotificationsInitInv ==
    ASSUME NotificationsInit
    PROVE  NotificationsInv
<1>1. /\ now = 0 /\ slot = {} /\ lock = Nobody /\ running = {} /\ op = [s \in Slot |-> NoOp]
      /\ sends = 0 /\ visits = 0 /\ faults = 0 /\ excused = 0
      /\ alerts = [u \in User |-> [d \in Days |-> 0]]
      /\ aways = [u \in User |-> [k \in DOMAIN Threshold |-> 0]]
  BY DEF NotificationsInit
<1>2. PICK own \in Owners : token = [t \in Token |-> [user |-> own[t], off |-> FALSE]]
  BY DEF NotificationsInit
<1>3. PICK since \in Since :
         person = [u \in User |-> [prefs |-> Prefs, streak |-> TRUE,
                                   frozen |-> LocalDay(u, since) = 0, active |-> -1,
                                   alert |-> Never, stage |-> 0, seen |-> since]]
  BY DEF NotificationsInit
<1>4. /\ {MaxTime, MaxSends, MaxVisits, MaxFaults} \subseteq Nat /\ since \in Int
      /\ own \in [Token -> User \cup {Nobody}]
  BY NotificationsAssumption
<1>5. 0 \in Stage
  BY StagesAreThresholds
<1>6. CoreTyped /\ CountsTyped
  BY <1>1, <1>4 DEF CoreTyped, CountsTyped, Time
<1>7. TokensTyped
  BY <1>2, <1>4 DEF TokensTyped
<1>8. ASSUME NEW u \in User
      PROVE  person[u] \in Person /\ person[u].stage = 0 /\ person[u].seen = since
  <2>1. PICK f \in BOOLEAN : person[u] = [prefs |-> Prefs, streak |-> TRUE, frozen |-> f,
                                          active |-> -1, alert |-> Never, stage |-> 0,
                                          seen |-> since]
    BY <1>3
  <2> QED
    BY <1>4, <1>5, <2>1 DEF Person, Never
<1>9. PersonsTyped
  BY <1>3, <1>8 DEF PersonsTyped
<1>10. /\ \A s \in Slot : op[s] = NoOp
       /\ \A r \in Request : op[r] = NoOp
       /\ \A s \in PassSlot : op[s] = NoOp
       /\ \A j \in Job, k \in Pass : op[<<j, k>>] = NoOp
  BY <1>1, SlotsApart DEF PassSlot
<1>11. SlotsTyped
  <2>1. NoOp \in Ops
    BY OpsAreTyped
  <2> QED
    BY <1>1, <1>10, <2>1 DEF SlotsTyped, RequestOps
<1>12. HistoryTyped
  BY <1>1 DEF HistoryTyped
<1>13. AllTyped
  BY <1>6, <1>7, <1>9, <1>11, <1>12 DEF AllTyped
<1>14. PassesFormed
  BY <1>10 DEF PassesFormed
<1>15. Lost = {} /\ Cardinality(Lost) = 0
  BY <1>1, FS_EmptySet DEF Lost
<1>16. LostExcused
  BY <1>1, <1>15 DEF LostExcused
<1>17. NoOp.step = "none"
  BY DEF NoOp
<1>18. TokensReported
  <2>1. \A t \in Token : token[t].off = FALSE
    BY <1>2
  <2> QED
    BY <1>10, <1>17, <2>1 DEF TokensReported, DisabledWasReported
<1>19. StagesFit
  <2>1. \A u \in User : person[u].stage <= Reached(now - person[u].seen)
    <3> TAKE u \in User
    <3>1. Reached(now - person[u].seen) \in Nat
      BY <1>1, <1>4, <1>8, ReachedGrows
    <3> QED
      BY <1>8, <3>1
  <2>2. StageFits
    BY <2>1 DEF StageFits
  <2>3. MarksFit
    BY <1>10 DEF MarksFit, Pass
  <2>4. ResetsFit
    BY <1>10, <1>17 DEF ResetsFit
  <2> QED
    BY <2>2, <2>3, <2>4 DEF StagesFit
<1>20. Accounted
  <2> SUFFICES ASSUME NEW k \in Pass, NEW u \in User, NEW v \in Values(k)
               PROVE  Pushed(k)[u][v] + Cardinality(Owed(k, u, v))
                          <= excused + Bit(Done(k, u, v))
    BY DEF Accounted
  <2>1. Pushed(k)[u][v] = 0
    BY <1>1 DEF Pushed, Values
  <2>2. Owed(k, u, v) = {}
    BY <1>15 DEF Owed
  <2>3. Cardinality(Owed(k, u, v)) = 0
    BY <2>2, FS_EmptySet
  <2>4. Bit(Done(k, u, v)) \in {0, 1}
    BY BitIsBinary
  <2> QED
    BY <1>1, <2>1, <2>3, <2>4
<1> QED
  BY <1>13, <1>14, <1>16, <1>18, <1>19, <1>20 DEF NotificationsInv

LEMMA NotificationsNextInv ==
    ASSUME NotificationsInv, [NotificationsNext]_notificationsVars
    PROVE  NotificationsInv'
<1>1. /\ AllTyped /\ PassesFormed /\ LostExcused /\ TokensReported /\ StagesFit /\ Accounted
  BY DEF NotificationsInv
<1>2. AllTyped' /\ PassesFormed'
  BY <1>1, CoreStep, PersonsStep, SlotsStep, HistoryStep DEF AllTyped
<1>3. LostExcused'
  BY <1>1, LostStep
<1>4. TokensReported'
  BY <1>1, TokensStep
<1>5. StagesFit'
  BY <1>1, StagesStep
<1>6. Accounted'
  BY <1>1, <1>2, AccountedStep
<1> QED
  BY <1>2, <1>3, <1>4, <1>5, <1>6 DEF NotificationsInv

\* What passes have read is well formed, the accounts of what they send balance, stages
\* fit the absences, and tokens are disabled for what the provider said.
THEOREM NotificationsInvariant == NotificationsSpec => []NotificationsInv
<1>1. NotificationsInit => NotificationsInv
  BY NotificationsInitInv
<1>2. NotificationsInv /\ [NotificationsNext]_notificationsVars => NotificationsInv'
  BY NotificationsNextInv
<1> QED
  BY <1>1, <1>2, PTL DEF NotificationsSpec

\* Users, tokens and passes have their types.
THEOREM NotificationsTypeCorrect == NotificationsSpec => []NotificationsTypeOK
<1>1. NotificationsInv => NotificationsTypeOK
  BY DEF NotificationsInv, NotificationsTypeOK, AllTyped, CoreTyped, CountsTyped, TokensTyped,
         PersonsTyped, SlotsTyped
<1> QED
  BY <1>1, NotificationsInvariant, PTL

\* However many processes run the reminders, whatever users do meanwhile, and whenever
\* locks run out: a user is alerted once a day, and recalled once per threshold of an
\* absence, except for one more for each run that died or lost the lock (reminders.ts).
THEOREM RemindersOnce == NotificationsSpec => []RemindedOnce
<1>1. ASSUME NotificationsInv PROVE RemindedOnce
  <2>1. ASSUME NEW k \in Pass, NEW u \in User, NEW v \in Values(k)
        PROVE  Pushed(k)[u][v] <= 1 + excused
    <3>1. PICK n, c, b : /\ n = Pushed(k)[u][v] /\ c = Cardinality(Owed(k, u, v))
                         /\ b = Bit(Done(k, u, v))
      OBVIOUS
    <3>2. n \in Nat /\ c \in Nat /\ excused \in Nat
      BY <1>1, <3>1, CountsAreNat DEF NotificationsInv
    <3>3. b \in {0, 1}
      BY <3>1, BitIsBinary
    <3>4. n + c <= excused + b
      BY <1>1, <3>1 DEF NotificationsInv, Accounted
    <3> QED
      BY <3>1, <3>2, <3>3, <3>4
  <2>2. \A u \in User, d \in Days : alerts[u][d] <= 1 + excused
    <3>1. "alert" \in Pass /\ Values("alert") = Days /\ Pushed("alert") = alerts
      BY DEF Pass, Values, Pushed
    <3> QED
      BY <2>1, <3>1
  <2>3. \A u \in User : \A i \in DOMAIN Threshold : aways[u][i] <= 1 + excused
    <3>1. /\ "away" \in Pass /\ Values("away") = DOMAIN Threshold /\ Pushed("away") = aways
      BY DEF Pass, Values, Pushed
    <3> QED
      BY <2>1, <3>1
  <2> QED
    BY <2>2, <2>3 DEF RemindedOnce
<1> QED
  BY <1>1, NotificationsInvariant, PTL

\* Whoever came back is recalled again from the first threshold on, unless he came back
\* while a pass had read his row (reminders.ts, user.service.ts).
THEOREM StagesFitAbsences == NotificationsSpec => []StageFits
<1>1. NotificationsInv => StageFits
  BY DEF NotificationsInv, StagesFit
<1> QED
  BY <1>1, NotificationsInvariant, PTL

\* A device is cut off only if the provider rejected its token, for the registration it
\* has now, or it registered while a push was under way (disableTokens).
THEOREM DisabledTokensWereReported == NotificationsSpec => []DisabledWasReported
<1>1. NotificationsInv => DisabledWasReported
  BY DEF NotificationsInv, TokensReported
<1> QED
  BY <1>1, NotificationsInvariant, PTL
=============================================================================
