----------------------------- MODULE OfficeProofs -----------------------------
(***************************************************************************)
(* Proofs about Payments, for every set of payments of each type, every    *)
(* number of overlapping webhook calls, and every bound; and, below, about *)
(* Backoffice, for every set of accounts, devices, modules and grids, and  *)
(* every number of overlapping requests.  The two share no state.          *)
(***************************************************************************)
EXTENDS Payments, Backoffice, FiniteSetTheorems, TLAPS

(***************************************************************************)
(* Payments.                                                               *)
(***************************************************************************)

\* A subscription is extended before the later writes of its webhook call.
ExtendedFirst ==
    \A d \in Delivery : op[d].step \in {"recompute", "effective", "close"} =>
        op[d].p \in PremiumPayment /\ extended[op[d].p] > 0

\* What is applied in one transaction is applied exactly to the successes.
PacksServed   == \A p \in GemPayment : statut[p] = "success" <=> LedgerRows(p) # {}
OneShotServed == \A p \in OneShot : statut[p] = "success" <=> applied[p] > 0
PremiumServed == \A p \in PremiumPayment : statut[p] = "success" => extended[p] > 0

\* The rows of the ledger are numbered as they come, and the balance is their sum.
Numbered     == IsFiniteSet(ledger) /\ \A x \in ledger : x[2] < Cardinality(ledger)
LedgerCounts == Numbered /\ BalanceIsLedger

\* The inductive invariant.
IInv == TypeOK /\ ExtendedFirst /\ PacksServed /\ OneShotServed /\ PremiumServed /\ LedgerCounts

-----------------------------------------------------------------------------

\* Initialisation of the inductive invariant.
LEMMA InitInv == Init => IInv
<1> SUFFICES ASSUME Init PROVE IInv
  OBVIOUS
<1>1. TypeOK
  <2>1. op \in [Delivery -> Ops]
    BY DEF Init, Ops
  <2>2. 0 \in Month /\ 0 \in 0..MaxSpends /\ 0 \in 0..MaxCrashes
    BY PaymentsAssumption DEF Month
  <2> QED
    BY <2>1, <2>2 DEF Init, TypeOK
<1>2. ExtendedFirst
  BY DEF Init, ExtendedFirst, NoOp
<1>3. PacksServed /\ OneShotServed /\ PremiumServed
  BY DEF Init, PacksServed, OneShotServed, PremiumServed, Payment, LedgerRows
<1>4. LedgerCounts
  BY FS_EmptySet, PaymentsAssumption DEF Init, LedgerCounts, Numbered, BalanceIsLedger
<1> QED
  BY <1>1, <1>2, <1>3, <1>4 DEF IInv

\* Which payment a webhook call is about, from the step it has reached.
LEMMA AboutItsPayment ==
    ASSUME TypeOK, NEW d \in Delivery
    PROVE  /\ op[d].step = "credit" => op[d].p \in GemPayment
           /\ op[d].step \in {"refill", "repair"} => op[d].p \in OneShot
           /\ op[d].step \in {"extend", "recompute", "effective", "close"} =>
                op[d].p \in PremiumPayment
           /\ op[d].step \in {"extend", "effective"} => op[d].until \in Month
<1>1. op[d] \in Ops
  BY DEF TypeOK
<1> QED
  BY <1>1 DEF Ops, NoOp

\* The first step of a call fits the type of the payment it found pending.
LEMMA FirstStepFits ==
    ASSUME TypeOK, NEW p \in Payment
    PROVE  /\ FirstStep(p) \in Ops
           /\ FirstStep(p).step \in {"credit", "refill", "repair", "extend"}
<1>1. CASE p \in GemPayment
  <2>1. p \notin HeartPayment /\ p \notin RepairPayment
    BY <1>1, PaymentsAssumption DEF OneShot
  <2> QED
    BY <1>1, <2>1 DEF FirstStep, Ops
<1>2. CASE p \in HeartPayment
  BY <1>2, PaymentsAssumption DEF FirstStep, Ops, OneShot
<1>3. CASE p \in RepairPayment
  BY <1>3, PaymentsAssumption DEF FirstStep, Ops, OneShot
<1>4. CASE p \in PremiumPayment
  BY <1>4, PaymentsAssumption DEF FirstStep, Ops, OneShot, TypeOK
<1> QED
  BY <1>1, <1>2, <1>3, <1>4 DEF Payment, OneShot

\* The requests of the account, the provider and what the user does between
\* the payments change no call and serve nothing.
LEMMA RequestInv ==
    ASSUME IInv, NEW p \in Payment,
           \/ Subscribe(p) \/ BuyGems(p) \/ BuyHearts(p) \/ BuyRepair(p)
           \/ OpenSession(p) \/ WebhookFailed(p)
           \/ \E o \in {"paid", "expired"} : Settle(p, o)
    PROVE  IInv'
<1>1. CASE \/ CreateTransaction(p) \/ WebhookFailed(p)
  <2>1. TypeOK'
    BY <1>1 DEF IInv, TypeOK, CreateTransaction, WebhookFailed, gemVars, premVars, rowVars
  <2>2. /\ \A q \in Payment : statut'[q] = "success" <=> statut[q] = "success"
        /\ UNCHANGED <<ledger, gems, spends, applied, extended, op>>
    BY <1>1 DEF IInv, TypeOK, CreateTransaction, WebhookFailed, gemVars, premVars, rowVars
  <2>3. ExtendedFirst'
    BY <2>2 DEF IInv, ExtendedFirst
  <2>4. PacksServed' /\ OneShotServed' /\ PremiumServed'
    BY <2>2 DEF IInv, PacksServed, OneShotServed, PremiumServed, Payment, LedgerRows
  <2>5. LedgerCounts'
    BY <2>2 DEF IInv, LedgerCounts, Numbered, BalanceIsLedger
  <2> QED
    BY <2>1, <2>3, <2>4, <2>5 DEF IInv
<1>2. CASE OpenSession(p) \/ \E o \in {"paid", "expired"} : Settle(p, o)
  <2>1. TypeOK'
    BY <1>2 DEF IInv, TypeOK, OpenSession, Settle, gemVars, premVars, rowVars
  <2>2. UNCHANGED <<statut, ledger, gems, spends, applied, extended, op>>
    BY <1>2 DEF OpenSession, Settle, gemVars, premVars, rowVars
  <2> QED
    BY <2>1, <2>2 DEF IInv, ExtendedFirst, PacksServed, OneShotServed, PremiumServed, LedgerRows,
                      LedgerCounts, Numbered, BalanceIsLedger
<1> QED
  BY <1>1, <1>2 DEF Subscribe, BuyGems, BuyHearts, BuyRepair

\* What the user spends, and the streak a day of play or of absence changes.
LEMMA PlayInv == ASSUME IInv, Spend \/ Play PROVE IInv'
<1>1. TypeOK'
  <2>1. CASE Spend
    BY <2>1, PaymentsAssumption DEF IInv, TypeOK, Spend, txVars, premVars, rowVars
  <2>2. CASE Play
    <3>1. full' \in BOOLEAN /\ broken' \in BOOLEAN
      BY <2>2 DEF IInv, TypeOK, Play
    <3> QED
      BY <2>2, <3>1 DEF IInv, TypeOK, Play, txVars, gemVars, premVars
  <2> QED
    BY <2>1, <2>2
<1>2. UNCHANGED <<statut, ledger, applied, extended, op>>
  BY DEF Spend, Play, txVars, gemVars, premVars, rowVars
<1>3. LedgerCounts'
  <2>1. \/ gems' = gems - Cost /\ spends' = spends + 1
        \/ UNCHANGED <<gems, spends>>
    BY DEF Spend, Play, gemVars
  <2>2. Cardinality(ledger) \in Nat
    BY FS_CardinalityType DEF IInv, LedgerCounts, Numbered
  <2>3. /\ gems \in Int /\ spends \in Int /\ Cost \in Int /\ PackGems \in Int
        /\ gems = PackGems * Cardinality(ledger) - Cost * spends
    BY PaymentsAssumption DEF IInv, TypeOK, LedgerCounts, BalanceIsLedger
  <2>4. gems' = PackGems * Cardinality(ledger) - Cost * spends'
    <3>1. CASE UNCHANGED <<gems, spends>>
      BY <2>3, <3>1
    <3>2. CASE gems' = gems - Cost /\ spends' = spends + 1
      <4>1. Cost * (spends + 1) = Cost * spends + Cost
        BY <2>3
      <4>2. PackGems * Cardinality(ledger) \in Int /\ Cost * spends \in Int
        BY <2>2, <2>3
      <4> QED
        BY <2>3, <3>2, <4>1, <4>2
    <3> QED
      BY <2>1, <3>1, <3>2
  <2> QED
    BY <1>2, <2>4 DEF IInv, LedgerCounts, Numbered, BalanceIsLedger
<1> QED
  BY <1>1, <1>2, <1>3
    DEF IInv, ExtendedFirst, PacksServed, OneShotServed, PremiumServed, LedgerRows

\* A call that begins, and one that dies.
LEMMA CallInv ==
    ASSUME IInv, NEW d \in Delivery,
           Crash(d) \/ \E p \in Payment : WebhookPaid(d, p)
    PROVE  IInv'
<1>1. PICK o \in Ops : Goto(d, o) /\ o.step \notin {"recompute", "effective", "close"}
  <2>1. CASE Crash(d)
    BY <2>1 DEF Crash, Ops, NoOp
  <2>2. ASSUME NEW p \in Payment, WebhookPaid(d, p)
        PROVE  \E o \in Ops : Goto(d, o) /\ o.step \notin {"recompute", "effective", "close"}
    BY <2>2, FirstStepFits DEF WebhookPaid, IInv
  <2> QED
    BY <2>1, <2>2
<1>2. /\ UNCHANGED <<txVars, gemVars, premVars, rowVars>>
      /\ crashes' \in 0..MaxCrashes
  BY PaymentsAssumption DEF Crash, WebhookPaid, IInv, TypeOK
<1>3. TypeOK'
  BY <1>1, <1>2 DEF Goto, IInv, TypeOK, txVars, gemVars, premVars, rowVars
<1>4. ExtendedFirst'
  BY <1>1, <1>2 DEF Goto, IInv, TypeOK, ExtendedFirst, premVars
<1>5. PacksServed' /\ OneShotServed' /\ PremiumServed' /\ LedgerCounts'
  BY <1>2 DEF IInv, PacksServed, OneShotServed, PremiumServed, LedgerRows, LedgerCounts, Numbered,
              BalanceIsLedger, txVars, gemVars, premVars, rowVars
<1> QED
  BY <1>3, <1>4, <1>5 DEF IInv

\* The writes of a call: a pack, a refill or a repair in one transaction...
LEMMA OneTransactionInv ==
    ASSUME IInv, NEW d \in Delivery, CreditGems(d) \/ Effect(d)
    PROVE  IInv'
<1>1. Goto(d, NoOp) /\ NoOp \in Ops /\ NoOp.step \notin {"recompute", "effective", "close"}
  BY DEF CreditGems, Effect, Ops, NoOp
<1>2. ExtendedFirst'
  BY <1>1 DEF CreditGems, Effect, Goto, IInv, TypeOK, ExtendedFirst, premVars
<1>3. CASE CreditGems(d)
  <2> DEFINE n == Cardinality(ledger)
             p == op[d].p
  <2>1. p \in GemPayment /\ p \in Payment
    BY <1>3, AboutItsPayment DEF IInv, CreditGems, Payment
  <2>2. n \in Nat /\ <<p, n>> \notin ledger
    BY FS_CardinalityType DEF IInv, LedgerCounts, Numbered
  <2>3. /\ ledger' = ledger \cup {<<p, n>>} /\ gems' = gems + PackGems
        /\ statut' = [statut EXCEPT ![p] = "success"] /\ UNCHANGED spends
    BY <1>3 DEF CreditGems
  <2> HIDE DEF n, p
  <2>4. TypeOK'
    BY <1>1, <1>3, <2>1, <2>2, PaymentsAssumption
      DEF Goto, CreditGems, IInv, TypeOK, premVars, rowVars, n, p
  <2>5. \A q \in GemPayment : LedgerRows(q)' = LedgerRows(q) \cup (IF q = p THEN {<<p, n>>} ELSE {})
    BY <2>3 DEF LedgerRows
  <2>6. PacksServed'
    <3> SUFFICES ASSUME NEW q \in GemPayment
                 PROVE  statut'[q] = "success" <=> LedgerRows(q)' # {}
      BY DEF PacksServed
    <3>1. CASE q = p
      BY <2>1, <2>3, <2>5, <3>1 DEF IInv, TypeOK
    <3>2. CASE q # p
      <4>1. LedgerRows(q)' = LedgerRows(q)
        BY <2>5, <3>2
      <4>2. statut'[q] = statut[q]
        BY <2>3, <3>2 DEF IInv, TypeOK, Payment
      <4> QED
        BY <4>1, <4>2 DEF IInv, PacksServed
    <3> QED
      BY <3>1, <3>2
  <2>7. LedgerCounts'
    <3>1. IsFiniteSet(ledger') /\ Cardinality(ledger') = n + 1
      BY <2>2, <2>3, FS_AddElement DEF IInv, LedgerCounts, Numbered, n
    <3>2. ASSUME NEW x \in ledger' PROVE x[2] < n + 1
      <4>1. CASE x \in ledger
        <5>1. x[2] \in Nat /\ x[2] < n
          BY <4>1 DEF IInv, TypeOK, LedgerCounts, Numbered, n
        <5> QED
          BY <2>2, <5>1
      <4>2. CASE x = <<p, n>>
        BY <2>2, <4>2
      <4> QED
        BY <2>3, <4>1, <4>2
    <3>3. PackGems * (n + 1) = PackGems * n + PackGems
      BY <2>2, PaymentsAssumption
    <3>4. PackGems * n \in Int /\ Cost * spends \in Int /\ gems = PackGems * n - Cost * spends
      BY <2>2, PaymentsAssumption DEF IInv, TypeOK, LedgerCounts, BalanceIsLedger, n
    <3>5. gems' = PackGems * Cardinality(ledger') - Cost * spends'
      BY <2>3, <3>1, <3>3, <3>4, PaymentsAssumption
    <3> QED
      BY <3>1, <3>2, <3>5 DEF LedgerCounts, Numbered, BalanceIsLedger
  <2>8. OneShotServed' /\ PremiumServed'
    BY <1>3, <2>1, PaymentsAssumption
      DEF p, CreditGems, IInv, TypeOK, OneShotServed, PremiumServed, Payment, premVars, rowVars
  <2> QED
    BY <1>2, <2>4, <2>6, <2>8, <2>7 DEF IInv
<1>4. CASE Effect(d)
  <2>1. op[d].p \in OneShot /\ op[d].p \in Payment
    BY <1>4, AboutItsPayment DEF IInv, Effect, Payment
  <2>2. TypeOK'
    BY <1>1, <1>4, <2>1 DEF Goto, Effect, IInv, TypeOK, gemVars, premVars
  <2>3. OneShotServed'
    BY <1>4, <2>1 DEF Effect, IInv, TypeOK, OneShotServed, Payment
  <2>4. PacksServed' /\ PremiumServed'
    BY <1>4, <2>1, PaymentsAssumption
      DEF Effect, IInv, TypeOK, PacksServed, PremiumServed, LedgerRows, Payment, gemVars, premVars
  <2>5. LedgerCounts'
    BY <1>4 DEF Effect, IInv, LedgerCounts, Numbered, BalanceIsLedger, gemVars
  <2> QED
    BY <1>2, <2>2, <2>3, <2>4, <2>5 DEF IInv
<1> QED
  BY <1>3, <1>4

\* ... or a subscription, write by write: whichever calls overlap or die, the
\* status comes last.
LEMMA SubscriptionInv ==
    ASSUME IInv, NEW d \in Delivery,
           Extend(d) \/ RecomputeRead(d) \/ RecomputeWrite(d) \/ Close(d)
    PROVE  IInv'
<1> DEFINE p == op[d].p
<1>6. LedgerCounts'
  BY DEF IInv, LedgerCounts, Numbered, BalanceIsLedger, gemVars,
         Extend, RecomputeRead, RecomputeWrite, Close
<1>1. p \in PremiumPayment /\ p \in Payment
  BY AboutItsPayment DEF IInv, Extend, RecomputeRead, RecomputeWrite, Close, Payment
<1>2. op[d].step \in {"extend", "effective"} => op[d].until \in Month
  BY AboutItsPayment DEF IInv
<1> HIDE DEF p
<1>3. CASE Extend(d)
  <2>1. /\ extended' = [extended EXCEPT ![p] = @ + 1]
        /\ op' = [op EXCEPT ![d] = [step |-> "recompute", p |-> p]]
        /\ personalUntil' = op[d].until + 1 /\ op[d].until < MaxMonths /\ op[d].until \in Month
        /\ UNCHANGED <<txVars, gemVars, premiumUntil, rowVars, crashes>>
    BY <1>2, <1>3 DEF Extend, Goto, p
  <2>2. [step |-> "recompute", p |-> p] \in Ops
    BY <1>1 DEF Ops
  <2>3. TypeOK'
    BY <1>1, <2>1, <2>2, PaymentsAssumption DEF IInv, TypeOK, Month, txVars, gemVars, rowVars
  <2>4. \A q \in PremiumPayment : extended'[q] >= extended[q]
    BY <1>1, <2>1 DEF IInv, TypeOK
  <2>5. ExtendedFirst'
    BY <1>1, <2>1, <2>4 DEF IInv, TypeOK, ExtendedFirst
  <2>6. PacksServed' /\ OneShotServed' /\ PremiumServed'
    BY <2>1, <2>4 DEF IInv, TypeOK, PacksServed, OneShotServed, PremiumServed, LedgerRows,
                      txVars, gemVars, rowVars
  <2> QED
    BY <1>6, <2>3, <2>5, <2>6 DEF IInv
<1>4. CASE RecomputeRead(d) \/ RecomputeWrite(d)
  <2>1. PICK o \in Ops : o.p = p /\ op' = [op EXCEPT ![d] = o]
    BY <1>1, <1>4 DEF RecomputeRead, RecomputeWrite, Goto, Ops, p, IInv, TypeOK
  <2>2. /\ UNCHANGED <<txVars, gemVars, personalUntil, extended, rowVars, crashes>>
        /\ premiumUntil' \in Month
    BY <1>2, <1>4 DEF RecomputeRead, RecomputeWrite, premVars, IInv, TypeOK
  <2>3. extended[p] > 0
    BY <1>4 DEF RecomputeRead, RecomputeWrite, IInv, ExtendedFirst, p
  <2>4. TypeOK'
    BY <2>1, <2>2 DEF IInv, TypeOK, txVars, gemVars, rowVars
  <2>5. ExtendedFirst'
    BY <1>1, <2>1, <2>2, <2>3 DEF IInv, TypeOK, ExtendedFirst
  <2>6. PacksServed' /\ OneShotServed' /\ PremiumServed'
    BY <2>2 DEF IInv, PacksServed, OneShotServed, PremiumServed, LedgerRows, txVars, gemVars, rowVars
  <2> QED
    BY <1>6, <2>4, <2>5, <2>6 DEF IInv
<1>5. CASE Close(d)
  <2>1. /\ statut' = [statut EXCEPT ![p] = "success"] /\ op' = [op EXCEPT ![d] = NoOp]
        /\ full' = TRUE
        /\ UNCHANGED <<session, gemVars, premVars, broken, applied, crashes>>
    BY <1>5 DEF Close, Goto, p
  <2>2. extended[p] > 0
    BY <1>5 DEF Close, IInv, ExtendedFirst, p
  <2>3. NoOp \in Ops /\ NoOp.step = "none"
    BY DEF Ops, NoOp
  <2>4. TypeOK'
    BY <1>1, <2>1, <2>3 DEF IInv, TypeOK, gemVars, premVars
  <2>5. ExtendedFirst'
    BY <2>1, <2>3 DEF IInv, TypeOK, ExtendedFirst, premVars
  <2>6. PacksServed' /\ OneShotServed' /\ PremiumServed'
    BY <1>1, <2>1, <2>2, PaymentsAssumption
      DEF IInv, TypeOK, PacksServed, OneShotServed, PremiumServed, LedgerRows, Payment, gemVars,
          premVars
  <2> QED
    BY <1>6, <2>4, <2>5, <2>6 DEF IInv
<1> QED
  BY <1>3, <1>4, <1>5

\* Every step keeps the inductive invariant.
LEMMA NextInv == IInv /\ [Next]_vars => IInv'
<1> SUFFICES ASSUME IInv, [Next]_vars PROVE IInv'
  OBVIOUS
<1>1. CASE UNCHANGED vars
  BY <1>1 DEF vars, txVars, gemVars, premVars, rowVars, IInv, TypeOK, ExtendedFirst,
              PacksServed, OneShotServed, PremiumServed, LedgerRows,
              LedgerCounts, Numbered, BalanceIsLedger
<1>2. CASE Next
  BY <1>2, RequestInv, PlayInv, CallInv, OneTransactionInv, SubscriptionInv DEF Next, Apply
<1> QED
  BY <1>1, <1>2

\* The types and the order of the writes of a call hold together: a status is
\* never ahead of the effect it reports (the invariant the two below rest on).
THEOREM InductiveInvariant == Spec => []IInv
BY InitInv, NextInv, PTL DEF Spec

-----------------------------------------------------------------------------

\* Every variable keeps its type; in particular no purchase, repeated call or
\* crash takes the balance of gems below zero.
THEOREM TypeCorrect == Spec => []TypeOK
<1>1. IInv => TypeOK
  BY DEF IInv
<1> QED
  BY <1>1, InductiveInvariant, PTL

\* The balance is what the ledger says, for every price, every size of a pack and
\* every interleaving of webhook calls, of calls that die and of purchases.
THEOREM BalanceKept == Spec => []BalanceIsLedger
<1>1. IInv => BalanceIsLedger
  BY DEF IInv, LedgerCounts
<1> QED
  BY <1>1, InductiveInvariant, PTL

\* However many webhook calls repeat, overlap or die: a payment marked as a
\* success has been served, and what is applied in one transaction is never
\* applied without being marked so (applyPaidTransaction, markTransactionFailed).
THEOREM PaymentsServed == Spec => []SuccessMeansServed
<1>1. IInv => SuccessMeansServed
  BY DEF IInv, PacksServed, OneShotServed, PremiumServed, SuccessMeansServed
<1> QED
  BY <1>1, InductiveInvariant, PTL

(***************************************************************************)
(* Backoffice.                                                             *)
(***************************************************************************)

Session ==
    [member : Person, device : Device, live : BOOLEAN, pw : 0..MaxCalls,
     root : Token, since : Nat, born : Nat]
\* What a call of replacePermissions gives.
Gift == [grid : Grid, call : 0..MaxCalls]
Doing ==
    {Idle}
    \cup [step : {"issue"}, member : Person, device : Device, pw : 0..MaxCalls,
          root : Token \cup {0}, since : Nat]
    \cup [step : {"rotate", "revoke"}, t : Token]
    \cup [step : {"password"}, member : Person, pw : 0..MaxCalls]
    \cup [step : {"cut"}, member : Person]
    \cup [step : {"create", "replace"}, member : Member, grid : Grid, call : 0..MaxCalls]
    \cup [step : {"write"}, member : Member, grid : Grid, call : 0..MaxCalls,
          seen : SUBSET Row, began : SUBSET Gift]
    \cup [step : {"clear", "fill"}, call : 0..MaxCalls]

\* The types the properties need beside BackofficeTypeOK.
Typed ==
    /\ token \in [Token -> Session \cup {NoToken}]
    /\ doing \in [Request -> Doing]
    /\ cuts \in [Person -> Nat] /\ uncut \subseteq Person
    /\ doubled \in [Token -> Nat]
    /\ given \in [Person -> SUBSET Gift]

\* A request works on tokens that exist.
Referred ==
    \A r \in Request :
        /\ doing[r].step = "issue" => doing[r].root \in Used \cup {0}
        /\ doing[r].step \in {"rotate", "revoke"} => doing[r].t \in Used

\* The sessions of a login, and the requests that are about to open one.
LiveFrom(x)  == {t \in Live : token[t].root = x}
OpeningOf(x) == {r \in Request : doing[r].step = "issue" /\ doing[r].root = x}
OneAtATime ==
    \A x \in Used : Cardinality(LiveFrom(x)) + Cardinality(OpeningOf(x)) <= 1 + doubled[x]

\* What a session, or a request that is to open one, remembers of its login.
UpToDate(x) ==
    /\ person[x.member].known
    /\ x.since <= cuts[x.member]
    /\ x.pw # person[x.member].pw => x.since < cuts[x.member] \/ Changing(x.member)
SessionsKnow ==
    /\ \A t \in Used : UpToDate(token[t])
    /\ \A r \in Request : doing[r].step = "issue" => UpToDate(doing[r])
    /\ \A t \in Live : token[t].born = cuts[token[t].member]

\* The calls of replacePermissions in progress: each gives under a number of its own.
Giving == {r \in Request : doing[r].step \in {"create", "replace", "write"}}
Writing == {r \in Request : doing[r].step = "write"}
Numbers ==
    /\ \A r \in Giving : doing[r].call <= calls
    /\ \A r, s \in Giving : doing[r].call = doing[s].call => r = s
    /\ \A p \in Person : \A x \in given[p] :
          x.call <= calls /\ \A r \in Giving : doing[r].call # x.call
    /\ \A s \in Writing : \A x \in doing[s].began :
          x.call <= calls /\ \A r \in Giving : doing[r].call # x.call
\* A call that saw the last gifts saw the rows as they are.
WritersSaw ==
    \A r \in Writing : LET o == doing[r] IN
        /\ o.began = given[o.member] => o.seen = person[o.member].rows
        /\ given[o.member] = {} => o.began = {}
GiftsFinite == \A p \in Person : IsFiniteSet(given[p])
Permitted == Numbers /\ WritersSaw /\ GiftsFinite /\ PermissionsAsGiven

\* The inductive invariant of the back office.
OfficeInv == BackofficeTypeOK /\ Typed /\ Referred /\ OneAtATime /\ SessionsKnow /\ Permitted

-----------------------------------------------------------------------------

\* A session is a record of its own kind.
LEMMA SessionNotNone == ASSUME NEW x \in Session PROVE x # NoToken
<1>1. "root" \in DOMAIN x /\ "root" \notin DOMAIN NoToken
  BY DEF Session, NoToken
<1> QED
  BY <1>1

\* What a request has in hand, from the step it has reached.
LEMMA InHand ==
    ASSUME Typed, NEW r \in Request
    PROVE  /\ doing[r].step = "issue" =>
                doing[r] \in [step : {"issue"}, member : Person, device : Device,
                             pw : 0..MaxCalls, root : Token \cup {0}, since : Nat]
           /\ doing[r].step \in {"rotate", "revoke"} => doing[r].t \in Token
           /\ doing[r].step = "password" => doing[r].member \in Person /\ doing[r].pw \in 0..MaxCalls
           /\ doing[r].step = "cut" => doing[r].member \in Person
           /\ doing[r].step \in {"create", "replace", "write"} =>
                doing[r].member \in Member /\ doing[r].grid \in Grid /\ doing[r].call \in 0..MaxCalls
           /\ doing[r].step \in {"create", "replace"} =>
                doing[r] = [step |-> doing[r].step, member |-> doing[r].member,
                            grid |-> doing[r].grid, call |-> doing[r].call]
           /\ doing[r].step = "write" =>
                doing[r].seen \in SUBSET Row /\ doing[r].began \in SUBSET Gift
           /\ doing[r].step \in {"clear", "fill"} =>
                doing[r] = [step |-> doing[r].step, call |-> doing[r].call]
                /\ doing[r].call \in 0..MaxCalls
<1>1. doing[r] \in Doing
  BY DEF Typed
<1> QED
  BY <1>1 DEF Doing, Idle

\* A call of the repository is one step of one request.
LEMMA OneMoves ==
    ASSUME Typed, NEW r \in Request, NEW o \in Doing, Becomes(r, o)
    PROVE  /\ doing' \in [Request -> Doing] /\ doing'[r] = o
           /\ \A s \in Request \ {r} : doing'[s] = doing[s]
BY DEF Becomes, Typed

\* The rows of a grid are rows, one for each module of it.
LEMMA RowsFit ==
    ASSUME NEW g \in [Module -> Level \cup {"none"}], NEW c \in 0..MaxCalls
    PROVE  /\ RowsOf(g, c) \subseteq Row
           /\ \A a, b \in RowsOf(g, c) : a[1] = b[1] => a = b
BY DEF RowsOf, Row, Level

\* Sessions are revoked: they keep everything else.
LEMMA RevokedKept ==
    ASSUME BackofficeTypeOK, Typed, NEW S \in SUBSET Used,
           token' = [t \in Token |-> IF t \in S THEN [token[t] EXCEPT !.live = FALSE] ELSE token[t]]
    PROVE  /\ token' \in [Token -> Session \cup {NoToken}]
           /\ Used' = Used /\ Live' = Live \ S
           /\ \A t \in Used :
                /\ token'[t] \in [member : Person, device : Device, live : BOOLEAN,
                                  pw : 0..MaxCalls, root : Used, since : Nat, born : Nat]
                /\ token'[t].member = token[t].member /\ token'[t].pw = token[t].pw
                /\ token'[t].root = token[t].root /\ token'[t].since = token[t].since
                /\ token'[t].born = token[t].born
<1>1. \A t \in Used : token[t] \in Session
  BY DEF Used, Typed
<1>2. \A t \in S : [token[t] EXCEPT !.live = FALSE] \in Session
  BY <1>1 DEF Session
<1>3. token' \in [Token -> Session \cup {NoToken}]
  BY <1>2 DEF Typed, Used
<1>4. Used' = Used
  BY <1>1, <1>2, SessionNotNone DEF Used
<1>5. Live' = Live \ S
  <2>1. \A t \in S : token'[t].live = FALSE
    BY <1>1 DEF Used, Session
  <2>2. \A t \in Token \ S : token'[t] = token[t]
    OBVIOUS
  <2> QED
    BY <2>1, <2>2 DEF Live, Used
<1>6. \A t \in Used : token[t] \in [member : Person, device : Device, live : BOOLEAN,
                                  pw : 0..MaxCalls, root : Used, since : Nat, born : Nat]
  BY DEF BackofficeTypeOK
<1>7. \A t \in Used : token'[t] = IF t \in S THEN [token[t] EXCEPT !.live = FALSE] ELSE token[t]
  BY DEF Used
<1>8. ASSUME NEW t \in Used
      PROVE  /\ token'[t] \in [member : Person, device : Device, live : BOOLEAN,
                               pw : 0..MaxCalls, root : Used, since : Nat, born : Nat]
             /\ token'[t].member = token[t].member /\ token'[t].pw = token[t].pw
             /\ token'[t].root = token[t].root /\ token'[t].since = token[t].since
             /\ token'[t].born = token[t].born
  <2>1. CASE t \in S
    <3>1. token'[t] = [token[t] EXCEPT !.live = FALSE]
      BY <1>7, <2>1
    <3>2. token[t] \in [member : Person, device : Device, live : BOOLEAN, pw : 0..MaxCalls,
                        root : Used, since : Nat, born : Nat]
      BY <1>6
    <3>3. token'[t] \in [member : Person, device : Device, live : BOOLEAN, pw : 0..MaxCalls,
                         root : Used, since : Nat, born : Nat]
      BY ONLY <3>1, <3>2
    <3>4. /\ token'[t].member = token[t].member /\ token'[t].pw = token[t].pw
          /\ token'[t].root = token[t].root /\ token'[t].since = token[t].since
          /\ token'[t].born = token[t].born
      BY ONLY <3>1, <3>2
    <3> QED
      BY <3>3, <3>4
  <2>2. CASE t \notin S
    BY <1>6, <1>7, <2>2
  <2> QED
    BY <2>1, <2>2
<1> QED
  BY <1>3, <1>4, <1>5, <1>8

\* The types, part by part.
TokensTyped ==
    /\ token \in [Token -> Session \cup {NoToken}]
    /\ \A t \in Used : token[t] \in
         [member : Person, device : Device, live : BOOLEAN, pw : 0..MaxCalls,
          root : Used, since : Nat, born : Nat]
    /\ Used = 1..Cardinality(Used)
PeopleTyped ==
    /\ person \in [Person -> [known : BOOLEAN, pw : 0..MaxCalls, rows : SUBSET Row]]
    /\ \A p \in Person, a, b \in Row :
         {a, b} \subseteq person[p].rows /\ a[1] = b[1] => a = b
HistoryTyped ==
    /\ cuts \in [Person -> Nat] /\ uncut \subseteq Person
    /\ doubled \in [Token -> Nat]
    /\ given \in [Person -> SUBSET Gift]
RequestsTyped == doing \in [Request -> Doing] /\ Referred

LEMMA TypesAreParts ==
    BackofficeTypeOK /\ Typed /\ Referred <=>
        TokensTyped /\ PeopleTyped /\ HistoryTyped /\ RequestsTyped /\ calls \in 0..MaxCalls
BY DEF BackofficeTypeOK, Typed, TokensTyped, PeopleTyped, HistoryTyped, RequestsTyped
LEMMA TypesArePartsNext ==
    BackofficeTypeOK' /\ Typed' /\ Referred' <=>
        TokensTyped' /\ PeopleTyped' /\ HistoryTyped' /\ RequestsTyped' /\ calls' \in 0..MaxCalls
BY DEF BackofficeTypeOK, Typed, TokensTyped, PeopleTyped, HistoryTyped, RequestsTyped

\* A request goes on with a token that exists.
LEMMA RequestsStep ==
    ASSUME Typed, Referred, NEW r \in Request, NEW o \in Doing, Becomes(r, o), Used \subseteq Used',
           o.step = "issue" => o.root \in Used \cup {0},
           o.step \in {"rotate", "revoke"} => o.t \in Used
    PROVE  RequestsTyped'
<1>1. /\ doing' \in [Request -> Doing] /\ doing'[r] = o
      /\ \A s \in Request \ {r} : doing'[s] = doing[s]
  BY OneMoves
<1> QED
  BY <1>1 DEF RequestsTyped, Referred

\* The requests are counted.
LEMMA BeginCounts ==
    ASSUME calls \in 0..MaxCalls, NEW r \in Request, Begin(r)
    PROVE  doing[r] = Idle /\ calls' = calls + 1 /\ calls' \in 0..MaxCalls
BY BackofficeAssumption DEF Begin

\* A call of the service that begins, or one of the repository that opens no
\* session and writes no permission, keeps the types.
LEMMA BeginningTypes ==
    ASSUME BackofficeTypeOK, Typed, Referred, NEW r \in Request,
           \/ \E t \in Token : Refresh(r, t) \/ Logout(r, t)
           \/ \E p \in Person : \/ SetPassword(r, p)
                                \/ \E d \in Device : Login(r, p, d)
                                \/ \E g \in Grid : UpdatePermissions(r, p, g)
           \/ \E p \in Member, g \in Grid : Invite(r, p, g)
           \/ ReplaceDelete(r)
    PROVE  BackofficeTypeOK' /\ Typed' /\ Referred'
<1>1. UNCHANGED <<person, token, cuts, uncut, doubled, given>>
  BY DEF Refresh, Logout, SetPassword, Login, UpdatePermissions, Invite, ReplaceDelete, history
<1>2. calls' \in 0..MaxCalls
  <2>1. calls' = calls \/ Begin(r)
    BY DEF Refresh, Logout, SetPassword, Login, UpdatePermissions, Invite, ReplaceDelete
  <2> QED
    BY <2>1, BeginCounts DEF BackofficeTypeOK
<1>3. /\ \A p \in Person : person[p].pw \in 0..MaxCalls /\ person[p].rows \in SUBSET Row
      /\ \A p \in Person : cuts[p] \in Nat /\ given[p] \in SUBSET Gift
      /\ Member \subseteq Person /\ Live \subseteq Used
  BY DEF BackofficeTypeOK, Typed, Person, Live, Used, NoToken
<1>4. PICK o \in Doing :
        /\ Becomes(r, o)
        /\ o.step = "issue" => o.root = 0
        /\ o.step \in {"rotate", "revoke"} => o.t \in Used
  <2> DEFINE Q(o) == /\ Becomes(r, o)
                     /\ o.step = "issue" => o.root = 0
                     /\ o.step \in {"rotate", "revoke"} => o.t \in Used
  <2>1. ASSUME NEW t \in Token, Refresh(r, t) \/ Logout(r, t) PROVE \E o \in Doing : Q(o)
    <3>1. PICK st \in {"rotate", "revoke"} : Becomes(r, [step |-> st, t |-> t])
      BY <2>1 DEF Refresh, Logout
    <3>2. [step |-> st, t |-> t] \in Doing
      BY DEF Doing
    <3>3. t \in Used
      BY <1>3, <2>1 DEF Refresh, Logout
    <3> QED
      BY <3>1, <3>2, <3>3
  <2>2. ASSUME NEW p \in Person, SetPassword(r, p) PROVE \E o \in Doing : Q(o)
    <3>1. [step |-> "password", member |-> p, pw |-> calls'] \in Doing
      BY <1>2 DEF Doing
    <3> QED
      BY <2>2, <3>1 DEF SetPassword
  <2>3. ASSUME NEW p \in Person, NEW d \in Device, Login(r, p, d) PROVE \E o \in Doing : Q(o)
    <3>1. [step |-> "issue", member |-> p, device |-> d, pw |-> person[p].pw,
           root |-> 0, since |-> cuts[p]] \in Doing
      BY <1>3 DEF Doing
    <3> QED
      BY <2>3, <3>1 DEF Login
  <2>4. ASSUME NEW p \in Person, NEW g \in Grid, UpdatePermissions(r, p, g) \/ Invite(r, p, g),
               p \in Member
        PROVE  \E o \in Doing : Q(o)
    <3>1. PICK st \in {"create", "replace"} :
            Becomes(r, [step |-> st, member |-> p, grid |-> g, call |-> calls'])
      BY <2>4 DEF UpdatePermissions, Invite
    <3>2. [step |-> st, member |-> p, grid |-> g, call |-> calls'] \in Doing
      BY <1>2, <2>4 DEF Doing
    <3> QED
      BY <3>1, <3>2
  <2>5. ASSUME ReplaceDelete(r) PROVE \E o \in Doing : Q(o)
    <3>1. doing[r].member \in Member /\ doing[r].grid \in Grid /\ doing[r].call \in 0..MaxCalls
      BY <2>5, InHand DEF ReplaceDelete, At
    <3>2. [step |-> "write", member |-> doing[r].member, grid |-> doing[r].grid,
           call |-> doing[r].call, seen |-> person[doing[r].member].rows,
           began |-> given[doing[r].member]] \in Doing
      BY <1>3, <3>1 DEF Doing
    <3> QED
      BY <2>5, <3>2 DEF ReplaceDelete
  <2> QED
    BY <1>3, <2>1, <2>2, <2>3, <2>4, <2>5 DEF UpdatePermissions, Person
<1>5. Used' = Used
  BY <1>1 DEF Used
<1>6. RequestsTyped'
  BY <1>4, <1>5, RequestsStep
<1>7. TokensTyped' /\ PeopleTyped' /\ HistoryTyped'
  BY <1>1, <1>5, TypesAreParts DEF TokensTyped, PeopleTyped, HistoryTyped
<1> QED
  BY <1>2, <1>6, <1>7, TypesArePartsNext

\* So does one that revokes sessions.
LEMMA RevokingTypes ==
    ASSUME BackofficeTypeOK, Typed, Referred, NEW r \in Request,
           Rotate(r) \/ RevokeRefreshToken(r) \/ RevokeAll(r)
    PROVE  /\ BackofficeTypeOK' /\ Typed' /\ Referred'
           /\ \E S \in SUBSET Used :
                token' = [t \in Token |-> IF t \in S THEN [token[t] EXCEPT !.live = FALSE]
                                          ELSE token[t]]
<1> DEFINE Cut(S) == [t \in Token |-> IF t \in S THEN [token[t] EXCEPT !.live = FALSE] ELSE token[t]]
<1>1. PICK S \in SUBSET Used : token' = Cut(S)
  <2>1. CASE Rotate(r) \/ RevokeRefreshToken(r)
    <3>1. doing[r].t \in Used /\ token' = [token EXCEPT ![doing[r].t].live = FALSE]
      BY <2>1 DEF Rotate, RevokeRefreshToken, At, Referred
    <3>2. token' = Cut({doing[r].t})
      BY <3>1 DEF Typed
    <3> QED
      BY <3>1, <3>2
  <2>2. CASE RevokeAll(r)
    <3>1. token' = Cut({t \in Live : token[t].member = doing[r].member})
      BY <2>2 DEF RevokeAll
    <3>2. Live \subseteq Used
      BY DEF Live, Used, NoToken
    <3> QED
      BY <3>1, <3>2
  <2> QED
    BY <2>1, <2>2
<1>2. /\ token' \in [Token -> Session \cup {NoToken}]
      /\ Used' = Used
      /\ \A t \in Used :
           token'[t] \in [member : Person, device : Device, live : BOOLEAN,
                         pw : 0..MaxCalls, root : Used, since : Nat, born : Nat]
  BY <1>1, RevokedKept
<1>3. TokensTyped'
  BY <1>2, TypesAreParts DEF TokensTyped
<1>4. UNCHANGED <<person, calls, given>>
  BY DEF Rotate, RevokeRefreshToken, RevokeAll, history
<1>5. HistoryTyped'
  <2>1. CASE Rotate(r)
    <3>1. doing[r].t \in Used /\ token[doing[r].t].root \in Token
      BY <2>1, TypesAreParts DEF Rotate, At, Referred, Used, TokensTyped
    <3> QED
      BY <1>4, <2>1, <3>1, TypesAreParts DEF Rotate, HistoryTyped
  <2>2. CASE RevokeRefreshToken(r)
    BY <2>2, TypesAreParts DEF RevokeRefreshToken, HistoryTyped, history
  <2>3. CASE RevokeAll(r)
    <3>1. doing[r].member \in Person
      BY <2>3, InHand DEF RevokeAll, At
    <3>2. cuts' = [cuts EXCEPT ![doing[r].member] = @ + 1] /\ uncut' \subseteq uncut
          /\ UNCHANGED <<doubled, given>>
      BY <2>3 DEF RevokeAll
    <3> QED
      BY <3>1, <3>2, TypesAreParts DEF HistoryTyped
  <2> QED
    BY <2>1, <2>2, <2>3
<1>6. RequestsTyped'
  <2>1. PICK o \in Doing : /\ Becomes(r, o)
                           /\ o.step = "issue" => o.root \in Used
                           /\ o.step \notin {"rotate", "revoke"}
    <3>1. CASE Rotate(r)
      <4> DEFINE x == token[doing[r].t]
                 o == [step |-> "issue", member |-> x.member, device |-> x.device, pw |-> x.pw,
                       root |-> x.root, since |-> x.since]
      <4>1. x \in [member : Person, device : Device, live : BOOLEAN, pw : 0..MaxCalls,
                   root : Used, since : Nat, born : Nat]
        BY <3>1, TypesAreParts DEF Rotate, At, Referred, TokensTyped
      <4>2. Used \subseteq Token
        BY DEF Used
      <4> HIDE DEF x
      <4>3. o \in Doing
        BY <4>1, <4>2 DEF Doing
      <4>4. Becomes(r, o)
        BY <3>1 DEF Rotate, x
      <4> QED
        BY <4>1, <4>3, <4>4
    <3>2. CASE RevokeRefreshToken(r) \/ RevokeAll(r)
      BY <3>2 DEF RevokeRefreshToken, RevokeAll, End, Idle, Doing
    <3> QED
      BY <3>1, <3>2
  <2> QED
    BY <1>2, <2>1, RequestsStep
<1>7. PeopleTyped' /\ calls' \in 0..MaxCalls
  BY <1>4, TypesAreParts DEF PeopleTyped
<1> QED
  BY <1>1, <1>3, <1>5, <1>6, <1>7, TypesArePartsNext

\* The next index is free, and a new session does not change the others.
LEMMA IssueKept ==
    ASSUME BackofficeTypeOK, Typed, Referred, NEW r \in Request, IssueTokens(r),
           NEW n, n = Cardinality(Used) + 1
    PROVE  LET o == doing[r]
               x == IF o.root = 0 THEN n ELSE o.root
           IN /\ n \in Token /\ n \notin Used /\ Used' = Used \cup {n} /\ x \in Used'
              /\ o \in [step : {"issue"}, member : Person, device : Device,
                        pw : 0..MaxCalls, root : Used \cup {0}, since : Nat]
              /\ token' = [token EXCEPT ![n] =
                            [member |-> o.member, device |-> o.device, live |-> TRUE, pw |-> o.pw,
                             root |-> x, since |-> o.since, born |-> cuts[o.member]]]
              /\ token'[n] \in Session /\ Live' = Live \cup {n}
              /\ \A t \in Token \ {n} : token'[t] = token[t]
<1> DEFINE o == doing[r]
           x == IF o.root = 0 THEN n ELSE o.root
           new == [member |-> o.member, device |-> o.device, live |-> TRUE, pw |-> o.pw,
                   root |-> x, since |-> o.since, born |-> cuts[o.member]]
<1>1. /\ o \in [step : {"issue"}, member : Person, device : Device,
                pw : 0..MaxCalls, root : Token \cup {0}, since : Nat]
      /\ o.root \in Used \cup {0}
  BY InHand DEF IssueTokens, At, Referred
<1>2. n \in Token /\ n \notin Used
  <2>1. IsFiniteSet(1..MaxTokens) /\ Used \subseteq 1..MaxTokens
    BY FS_Interval, BackofficeAssumption DEF Used, Token
  <2>2. Cardinality(Used) \in Nat
    BY <2>1, FS_Subset, FS_CardinalityType
  <2> DEFINE k == Cardinality(Used)
  <2>3. Used = 1..k /\ n = k + 1
    BY DEF BackofficeTypeOK
  <2> HIDE DEF k
  <2>4. k \in Nat
    BY <2>2 DEF k
  <2>5. k # 0 => k \in Used
    BY <2>3, <2>4
  <2>6. k <= MaxTokens /\ k # MaxTokens
    <3>1. k # 0 => k \in 1..MaxTokens
      BY <2>1, <2>5
    <3>2. Used # 1..MaxTokens
      BY DEF IssueTokens, Token
    <3> QED
      BY <2>3, <2>4, <3>1, <3>2, BackofficeAssumption
  <2> QED
    BY <2>3, <2>4, <2>6, BackofficeAssumption DEF Token
<1>3. token' = [token EXCEPT ![n] = new]
  BY DEF IssueTokens
<1>4. \A p \in Person : cuts[p] \in Nat
  BY DEF Typed
<1>5. x \in Token /\ Used \subseteq Token
  BY <1>1, <1>2 DEF Used
<1> HIDE DEF o, x
<1>6. new \in Session /\ new.live = TRUE
  BY <1>1, <1>4, <1>5 DEF Session
<1> HIDE DEF new
<1>7. token'[n] = new /\ \A t \in Token \ {n} : token'[t] = token[t]
  BY <1>2, <1>3 DEF Typed
<1>8. Used' = Used \cup {n}
  <2>1. new # NoToken
    BY <1>6, SessionNotNone
  <2> QED
    BY <1>2, <1>7, <2>1 DEF Used
<1>9. Live' = Live \cup {n}
  BY <1>2, <1>6, <1>7 DEF Live
<1>10. x \in Used'
  BY <1>1, <1>8 DEF x
<1>11. o \in [step : {"issue"}, member : Person, device : Device, pw : 0..MaxCalls,
              root : Used \cup {0}, since : Nat]
  BY <1>1
<1> QED
  BY <1>2, <1>3, <1>6, <1>7, <1>8, <1>9, <1>10, <1>11 DEF o, x, new

\* Types after a request that ends, or goes on with something that names no token.
LEMMA WritingRequests ==
    ASSUME BackofficeTypeOK, Typed, Referred, NEW r \in Request, NEW o \in Doing, Becomes(r, o),
           o.step \notin {"issue", "rotate", "revoke"}, Used \subseteq Used'
    PROVE  RequestsTyped'
BY RequestsStep

LEMMA IdleIsDoing == Idle \in Doing /\ Idle.step = "none"
BY DEF Idle, Doing

\* A new session.
LEMMA IssueTypes ==
    ASSUME BackofficeTypeOK, Typed, Referred, NEW r \in Request, IssueTokens(r)
    PROVE  BackofficeTypeOK' /\ Typed' /\ Referred'
<1> DEFINE n == Cardinality(Used) + 1
           o == doing[r]
           x == IF o.root = 0 THEN n ELSE o.root
<1>1. /\ n \in Token /\ n \notin Used /\ Used' = Used \cup {n} /\ x \in Used'
      /\ o \in [step : {"issue"}, member : Person, device : Device, pw : 0..MaxCalls,
                root : Used \cup {0}, since : Nat]
      /\ token' = [token EXCEPT ![n] =
                   [member |-> o.member, device |-> o.device, live |-> TRUE, pw |-> o.pw,
                    root |-> x, since |-> o.since, born |-> cuts[o.member]]]
      /\ token'[n] \in Session
      /\ \A t \in Token \ {n} : token'[t] = token[t]
  BY IssueKept
<1>2. \A p \in Person : cuts[p] \in Nat
  BY DEF Typed
<1>3. Used = 1..Cardinality(Used) /\ n = Cardinality(Used) + 1 /\ Cardinality(Used) \in Nat
      /\ IsFiniteSet(Used)
  <2>1. IsFiniteSet(1..MaxTokens) /\ Used \subseteq 1..MaxTokens
    BY FS_Interval, BackofficeAssumption DEF Used, Token
  <2>2. IsFiniteSet(Used) /\ Cardinality(Used) \in Nat
    BY <2>1, FS_Subset, FS_CardinalityType
  <2> QED
    BY <2>2 DEF BackofficeTypeOK
<1> HIDE DEF n, x, o
<1>4. Cardinality(Used') = n
  BY <1>1, <1>3, FS_AddElement
<1>5. Used' = 1..n
  BY <1>1, <1>3
<1>6. token'[n] = [member |-> o.member, device |-> o.device, live |-> TRUE, pw |-> o.pw,
                   root |-> x, since |-> o.since, born |-> cuts[o.member]]
  BY <1>1 DEF Typed
<1>7. ASSUME NEW t \in Used'
      PROVE  token'[t] \in [member : Person, device : Device, live : BOOLEAN, pw : 0..MaxCalls,
                           root : Used', since : Nat, born : Nat]
  <2>1. CASE t = n
    <3>1. /\ o.member \in Person /\ o.device \in Device /\ o.pw \in 0..MaxCalls /\ o.since \in Nat
          /\ x \in Used'
      BY <1>1
    <3>2. cuts[o.member] \in Nat
      BY <1>2, <3>1
    <3>3. \A S, a, b, c, e, f, g :
            a \in Person /\ b \in Device /\ c \in 0..MaxCalls /\ e \in S /\ f \in Nat /\ g \in Nat =>
              [member |-> a, device |-> b, live |-> TRUE, pw |-> c, root |-> e, since |-> f,
               born |-> g] \in [member : Person, device : Device, live : BOOLEAN,
                              pw : 0..MaxCalls, root : S, since : Nat, born : Nat]
      OBVIOUS
    <3>4. token'[t] = [member |-> o.member, device |-> o.device, live |-> TRUE, pw |-> o.pw,
                       root |-> x, since |-> o.since, born |-> cuts[o.member]]
      BY <1>6, <2>1
    <3>5. [member |-> o.member, device |-> o.device, live |-> TRUE, pw |-> o.pw,
           root |-> x, since |-> o.since, born |-> cuts[o.member]]
             \in [member : Person, device : Device, live : BOOLEAN, pw : 0..MaxCalls,
                 root : Used', since : Nat, born : Nat]
      BY <3>1, <3>2, <3>3
    <3> QED
      BY <3>4, <3>5
  <2>2. CASE t # n
    <3>1. t \in Used /\ token'[t] = token[t] /\ Used \subseteq Used'
      BY <1>1, <2>2 DEF Used
    <3>2. token[t] \in [member : Person, device : Device, live : BOOLEAN, pw : 0..MaxCalls,
                        root : Used, since : Nat, born : Nat]
      BY <3>1 DEF BackofficeTypeOK
    <3> QED
      BY ONLY <3>1, <3>2
  <2> QED
    BY <2>1, <2>2
<1>8. token' \in [Token -> Session \cup {NoToken}]
  BY <1>1 DEF Typed
<1>9. TokensTyped'
  BY <1>4, <1>5, <1>7, <1>8 DEF TokensTyped
<1>10. RequestsTyped'
  BY <1>1, IdleIsDoing, WritingRequests DEF IssueTokens, End
<1>11. PeopleTyped' /\ HistoryTyped' /\ calls' \in 0..MaxCalls
  BY TypesAreParts DEF IssueTokens, PeopleTyped, HistoryTyped, history
<1> QED
  BY <1>9, <1>10, <1>11, TypesArePartsNext

\* The calls that write accounts.
LEMMA AccountTypes ==
    ASSUME BackofficeTypeOK, Typed, Referred, NEW r \in Request,
           \/ UpdatePassword(r) \/ CreateMember(r) \/ ReplaceCommit(r)
           \/ Seed(r) \/ SeedDelete(r) \/ SeedCreate(r)
    PROVE  BackofficeTypeOK' /\ Typed' /\ Referred'
<1> DEFINE Same == UNCHANGED <<token, cuts, doubled>>
<1>1. /\ Same
      /\ calls' \in 0..MaxCalls
      /\ uncut' \subseteq Person
  <2>1. CASE Seed(r)
    BY <2>1, BeginCounts DEF Seed, BackofficeTypeOK, Typed, Person
  <2>2. CASE ~Seed(r)
    BY <2>2 DEF UpdatePassword, CreateMember, ReplaceCommit, SeedDelete, SeedCreate, history,
                BackofficeTypeOK, Typed
  <2> QED
    BY <2>1, <2>2
<1>2. Owner \in Person /\ Member \subseteq Person
  BY DEF Person
<1>3. Used' = Used /\ TokensTyped'
  BY <1>1, TypesAreParts DEF Used, TokensTyped
<1>4. PeopleTyped'
  <2>1. PICK p \in Person, x \in [known : BOOLEAN, pw : 0..MaxCalls, rows : SUBSET Row] :
          /\ person' = [person EXCEPT ![p] = x]
          /\ \A a, b \in Row : {a, b} \subseteq x.rows /\ a[1] = b[1] => a = b
    <3> DEFINE Q(p, x) == /\ person' = [person EXCEPT ![p] = x]
                          /\ \A a, b \in Row : {a, b} \subseteq x.rows /\ a[1] = b[1] => a = b
               Rec == [known : BOOLEAN, pw : 0..MaxCalls, rows : SUBSET Row]
    <3> SUFFICES \E p \in Person, x \in Rec : Q(p, x)
      OBVIOUS
    <3>1. /\ person \in [Person -> Rec]
          /\ \A p \in Person : person[p] \in Rec
          /\ \A p \in Person, a, b \in Row :
               {a, b} \subseteq person[p].rows /\ a[1] = b[1] => a = b
          /\ \A p \in Person : person = [person EXCEPT ![p] = person[p]]
      BY TypesAreParts DEF PeopleTyped
    <3>2. CASE UNCHANGED person
      BY <1>2, <3>1, <3>2
    <3>3. CASE UpdatePassword(r)
      <4> DEFINE p == doing[r].member
                 x == [person[p] EXCEPT !.pw = doing[r].pw]
      <4>1. p \in Person /\ doing[r].pw \in 0..MaxCalls
        BY <3>3, InHand DEF UpdatePassword, At
      <4>2. person' = [person EXCEPT ![p] = x]
        BY <3>3 DEF UpdatePassword
      <4>3. x \in Rec /\ x.rows = person[p].rows
        BY <3>1, <4>1
      <4>4. \A a, b \in Row : {a, b} \subseteq x.rows /\ a[1] = b[1] => a = b
        BY <3>1, <4>1, <4>3
      <4> HIDE DEF x, p, Rec
      <4> QED
        BY <4>1, <4>2, <4>3, <4>4
    <3>4. CASE CreateMember(r) /\ ~UNCHANGED person
      <4> DEFINE p == doing[r].member
                 x == [person[p] EXCEPT !.known = TRUE, !.pw = doing[r].call]
      <4>1. p \in Person /\ doing[r].call \in 0..MaxCalls
        BY <1>2, <3>4, InHand DEF CreateMember, At
      <4>2. person' = [person EXCEPT ![p] = x]
        BY <3>4 DEF CreateMember
      <4>3. x \in Rec /\ x.rows = person[p].rows
        BY <3>1, <4>1
      <4> QED
        BY <3>1, <4>1, <4>2, <4>3
    <3>5. CASE ReplaceCommit(r) /\ ~UNCHANGED person
      <4> DEFINE p == doing[r].member
                 kept == Kept(person[p].rows, doing[r].seen)
                 new == RowsOf(doing[r].grid, doing[r].call)
                 x == [person[p] EXCEPT !.rows = kept \cup new]
      <4>1. /\ p \in Person /\ doing[r].call \in 0..MaxCalls
            /\ doing[r].grid \in [Module -> Level \cup {"none"}]
        BY <1>2, <3>5, InHand, BackofficeAssumption DEF ReplaceCommit, At
      <4>2. person' = [person EXCEPT ![p] = x] /\ ~Clash(kept, new)
        BY <3>5 DEF ReplaceCommit
      <4>3. kept \subseteq person[p].rows /\ person[p].rows \subseteq Row
        BY <3>1, <4>1 DEF Kept
      <4>4. new \subseteq Row /\ \A a, b \in new : a[1] = b[1] => a = b
        BY <4>1, RowsFit
      <4> HIDE DEF kept, new
      <4>5. x \in Rec /\ x.rows = kept \cup new
        BY <3>1, <4>1, <4>3, <4>4
      <4>6. ASSUME NEW a \in kept \cup new, NEW b \in kept \cup new, a[1] = b[1] PROVE a = b
        <5>1. CASE a \in kept /\ b \in kept
          BY <3>1, <4>1, <4>3, <4>6, <5>1
        <5>2. CASE a \in new /\ b \in new
          BY <4>4, <4>6, <5>2
        <5>3. ~(a \in kept /\ b \in new) /\ ~(b \in kept /\ a \in new)
          BY <4>2, <4>6 DEF Clash
        <5> QED
          BY <5>1, <5>2, <5>3
      <4> QED
        BY <4>1, <4>2, <4>5, <4>6
    <3>6. CASE Seed(r)
      <4> DEFINE x == [person[Owner] EXCEPT !.pw = calls']
      <4>1. person' = [person EXCEPT ![Owner] = x] /\ x \in Rec /\ x.rows = person[Owner].rows
        BY <1>1, <1>2, <3>1, <3>6 DEF Seed
      <4>2. \A a, b \in Row : {a, b} \subseteq x.rows /\ a[1] = b[1] => a = b
        BY <1>2, <3>1, <4>1
      <4> HIDE DEF x, Rec
      <4> QED
        BY <1>2, <4>1, <4>2
    <3>7. CASE SeedDelete(r)
      <4> DEFINE x == [person[Owner] EXCEPT !.rows = {}]
      <4>1. person' = [person EXCEPT ![Owner] = x] /\ x \in Rec /\ x.rows = {}
        BY <1>2, <3>1, <3>7 DEF SeedDelete
      <4> QED
        BY <1>2, <4>1
    <3>8. CASE SeedCreate(r) /\ ~UNCHANGED person
      <4> DEFINE x == [person[Owner] EXCEPT !.rows = RowsOf(Full, doing[r].call)]
      <4>1. doing[r].call \in 0..MaxCalls /\ Full \in [Module -> Level \cup {"none"}]
        BY <3>8, InHand DEF SeedCreate, At, Full, Level
      <4>2. /\ RowsOf(Full, doing[r].call) \subseteq Row
            /\ \A a, b \in RowsOf(Full, doing[r].call) : a[1] = b[1] => a = b
        BY <4>1, RowsFit
      <4>3. person' = [person EXCEPT ![Owner] = x]
        BY <3>8 DEF SeedCreate
      <4>4. x \in Rec /\ x.rows = RowsOf(Full, doing[r].call)
        BY <1>2, <3>1, <4>2
      <4> QED
        BY <1>2, <4>2, <4>3, <4>4
    <3> QED
      BY <3>2, <3>3, <3>4, <3>5, <3>6, <3>7, <3>8
  <2>2. person \in [Person -> [known : BOOLEAN, pw : 0..MaxCalls, rows : SUBSET Row]]
    BY TypesAreParts DEF PeopleTyped
  <2>3. person' \in [Person -> [known : BOOLEAN, pw : 0..MaxCalls, rows : SUBSET Row]]
    BY <2>1, <2>2
  <2>4. \A q \in Person : person'[q] = IF q = p THEN x ELSE person[q]
    BY <2>1, <2>2
  <2> QED
    BY <2>1, <2>3, <2>4, TypesAreParts DEF PeopleTyped
<1>5. given' \in [Person -> SUBSET Gift]
  <2>1. CASE UNCHANGED given
    BY <2>1 DEF Typed
  <2>2. CASE ~UNCHANGED given
    <3>1. ReplaceCommit(r)
      BY <2>2 DEF UpdatePassword, CreateMember, Seed, SeedDelete, SeedCreate, history
    <3> DEFINE p == doing[r].member
               y == [grid |-> doing[r].grid, call |-> doing[r].call]
    <3>2. p \in Person /\ y \in Gift
      BY <1>2, <3>1, InHand DEF ReplaceCommit, At, Gift
    <3>3. given' = [given EXCEPT ![p] = (IF given[p] = doing[r].began THEN {} ELSE given[p])
                                        \cup {y}]
      BY <2>2, <3>1 DEF ReplaceCommit
    <3> HIDE DEF y, p
    <3>4. given[p] \in SUBSET Gift
      BY <3>2 DEF Typed
    <3> QED
      BY <3>2, <3>3, <3>4 DEF Typed
  <2> QED
    BY <2>1, <2>2
<1>6. RequestsTyped'
  <2>1. PICK o \in Doing : Becomes(r, o) /\ o.step \notin {"issue", "rotate", "revoke"}
    <3>1. CASE UpdatePassword(r)
      <4>1. [step |-> "cut", member |-> doing[r].member] \in Doing
        BY <3>1, InHand DEF UpdatePassword, At, Doing
      <4> QED
        BY <3>1, <4>1 DEF UpdatePassword
    <3>2. CASE CreateMember(r)
      <4> DEFINE o == [step |-> "replace", member |-> doing[r].member, grid |-> doing[r].grid,
                       call |-> doing[r].call]
      <4>1. /\ doing[r].member \in Member /\ doing[r].grid \in Grid /\ doing[r].call \in 0..MaxCalls
            /\ doing[r] = [step |-> "create", member |-> doing[r].member, grid |-> doing[r].grid,
                           call |-> doing[r].call]
        BY <3>2, InHand DEF CreateMember, At
      <4>2. o \in Doing
        BY <4>1 DEF Doing
      <4>3. [doing[r] EXCEPT !.step = "replace"] = o
        BY <4>1
      <4> QED
        BY <3>2, <4>2, <4>3, IdleIsDoing DEF CreateMember, End
    <3>3. CASE ReplaceCommit(r) \/ SeedCreate(r)
      BY <3>3, IdleIsDoing DEF ReplaceCommit, SeedCreate, End
    <3>4. CASE Seed(r)
      <4>1. [step |-> "clear", call |-> calls'] \in Doing
        BY <1>1 DEF Doing
      <4> QED
        BY <3>4, <4>1 DEF Seed
    <3>5. CASE SeedDelete(r)
      <4> DEFINE o == [step |-> "fill", call |-> doing[r].call]
      <4>1. doing[r] = [step |-> "clear", call |-> doing[r].call] /\ doing[r].call \in 0..MaxCalls
        BY <3>5, InHand DEF SeedDelete, At
      <4>2. o \in Doing
        BY <4>1 DEF Doing
      <4>3. [doing[r] EXCEPT !.step = "fill"] = o
        BY <4>1
      <4> QED
        BY <3>5, <4>2, <4>3 DEF SeedDelete
    <3> QED
      BY <3>1, <3>2, <3>3, <3>4, <3>5
  <2> QED
    BY <1>3, <2>1, WritingRequests
<1> QED
  BY <1>1, <1>3, <1>4, <1>5, <1>6, TypesAreParts, TypesArePartsNext DEF HistoryTyped

\* A request that dies, and the log-out of devices that ends nothing.
LEMMA DyingTypes ==
    ASSUME BackofficeTypeOK, Typed, Referred, NEW r \in Request,
           \/ Die(r)
           \/ \E p \in Person, ds \in SUBSET Device \ {{}} : LogoutDevices(r, p, ds)
    PROVE  BackofficeTypeOK' /\ Typed' /\ Referred'
<1>1. UNCHANGED <<person, token, cuts, doubled, given>> /\ Used' = Used
  BY DEF Die, LogoutDevices, Used
<1>2. calls' \in 0..MaxCalls
  BY BeginCounts DEF Die, LogoutDevices, BackofficeTypeOK
<1>3. uncut' \subseteq Person
  BY InHand DEF Die, LogoutDevices, At, Typed
<1>4. RequestsTyped'
  <2>1. CASE Die(r)
    BY <1>1, <2>1, IdleIsDoing, WritingRequests DEF Die, End
  <2>2. CASE UNCHANGED doing
    BY <1>1, <2>2, TypesAreParts DEF RequestsTyped, Referred
  <2> QED
    BY <2>1, <2>2 DEF LogoutDevices
<1>5. TokensTyped' /\ PeopleTyped' /\ HistoryTyped'
  BY <1>1, <1>3, TypesAreParts DEF TokensTyped, PeopleTyped, HistoryTyped
<1> QED
  BY <1>2, <1>4, <1>5, TypesArePartsNext

\* The steps of the back office, by what they write.
Beginning(r) ==
    \/ \E t \in Token : Refresh(r, t) \/ Logout(r, t)
    \/ \E p \in Person : \/ SetPassword(r, p)
                         \/ \E d \in Device : Login(r, p, d)
                         \/ \E g \in Grid : UpdatePermissions(r, p, g)
    \/ \E p \in Member, g \in Grid : Invite(r, p, g)
Leaving(r) == \E p \in Person, ds \in SUBSET Device \ {{}} : LogoutDevices(r, p, ds)

LEMMA StepsOfTheOffice ==
    BackofficeNext <=> \E r \in Request :
        \/ Beginning(r) \/ ReplaceDelete(r)
        \/ Rotate(r) \/ RevokeRefreshToken(r) \/ RevokeAll(r)
        \/ IssueTokens(r)
        \/ UpdatePassword(r) \/ CreateMember(r) \/ ReplaceCommit(r)
        \/ Seed(r) \/ SeedDelete(r) \/ SeedCreate(r)
        \/ Die(r) \/ Leaving(r)
BY DEF BackofficeNext, Proceed, Beginning, Leaving

\* Every step keeps the types.
LEMMA OfficeTypesStep ==
    ASSUME OfficeInv, [BackofficeNext]_backofficeVars
    PROVE  BackofficeTypeOK' /\ Typed' /\ Referred'
<1>1. BackofficeTypeOK /\ Typed /\ Referred
  BY DEF OfficeInv
<1>2. CASE UNCHANGED backofficeVars
  BY <1>1, <1>2 DEF backofficeVars, history, BackofficeTypeOK, Typed, Referred, Used
<1>3. CASE BackofficeNext
  <2>1. PICK r \in Request :
        \/ Beginning(r) \/ ReplaceDelete(r)
        \/ Rotate(r) \/ RevokeRefreshToken(r) \/ RevokeAll(r)
        \/ IssueTokens(r)
        \/ UpdatePassword(r) \/ CreateMember(r) \/ ReplaceCommit(r)
        \/ Seed(r) \/ SeedDelete(r) \/ SeedCreate(r)
        \/ Die(r) \/ Leaving(r)
    BY <1>3, StepsOfTheOffice
  <2>2. CASE Beginning(r) \/ ReplaceDelete(r)
    BY <1>1, <2>2, BeginningTypes DEF Beginning
  <2>3. CASE Rotate(r) \/ RevokeRefreshToken(r) \/ RevokeAll(r)
    BY <1>1, <2>3, RevokingTypes
  <2>4. CASE IssueTokens(r)
    BY <1>1, <2>4, IssueTypes
  <2>5. CASE \/ UpdatePassword(r) \/ CreateMember(r) \/ ReplaceCommit(r)
             \/ Seed(r) \/ SeedDelete(r) \/ SeedCreate(r)
    BY <1>1, <2>5, AccountTypes
  <2>6. CASE Die(r) \/ Leaving(r)
    BY <1>1, <2>6, DyingTypes DEF Leaving
  <2> QED
    BY <2>1, <2>2, <2>3, <2>4, <2>5, <2>6
<1> QED
  BY <1>2, <1>3

-----------------------------------------------------------------------------

\* Sessions and requests that open one are finitely many, so they can be counted.
LEMMA Countable ==
    ASSUME NEW x
    PROVE  /\ IsFiniteSet(LiveFrom(x)) /\ Cardinality(LiveFrom(x)) \in Nat
           /\ IsFiniteSet(OpeningOf(x)) /\ Cardinality(OpeningOf(x)) \in Nat
<1>1. IsFiniteSet(Token) /\ LiveFrom(x) \subseteq Token
  BY FS_Interval, BackofficeAssumption DEF Token, LiveFrom, Live
<1>2. IsFiniteSet(Request) /\ OpeningOf(x) \subseteq Request
  BY BackofficeAssumption DEF OpeningOf
<1> QED
  BY <1>1, <1>2, FS_Subset, FS_CardinalityType

\* Fewer sessions and fewer requests keep the count.
LEMMA FewerKept ==
    ASSUME NEW x, LiveFrom(x)' \subseteq LiveFrom(x), OpeningOf(x)' \subseteq OpeningOf(x)
    PROVE  Cardinality(LiveFrom(x)') <= Cardinality(LiveFrom(x))
           /\ Cardinality(OpeningOf(x)') <= Cardinality(OpeningOf(x))
           /\ Cardinality(LiveFrom(x)') \in Nat /\ Cardinality(OpeningOf(x)') \in Nat
<1>1. IsFiniteSet(LiveFrom(x)) /\ IsFiniteSet(OpeningOf(x))
  BY Countable
<1> QED
  BY <1>1, FS_Subset, FS_CardinalityType

LEMMA LiveAreUsed == Live \subseteq Used
BY DEF Live, Used, NoToken

\* A step that leaves the sessions alone, and what it does next.
Quiet(r) ==
    \/ Beginning(r) \/ ReplaceDelete(r)
    \/ UpdatePassword(r) \/ CreateMember(r) \/ ReplaceCommit(r)
    \/ Seed(r) \/ SeedDelete(r) \/ SeedCreate(r)
    \/ Die(r) \/ Leaving(r)
LEMMA QuietMoves ==
    ASSUME Typed, NEW r \in Request, Quiet(r)
    PROVE  /\ UNCHANGED <<token, doubled>>
           /\ \/ UNCHANGED doing
              \/ \E o : Becomes(r, o) /\ (o.step = "issue" => o.root = 0)
<1>1. CASE Beginning(r)
  <2>1. ASSUME NEW t \in Token, Refresh(r, t) \/ Logout(r, t)
        PROVE  /\ UNCHANGED <<token, doubled>>
               /\ \E o : Becomes(r, o) /\ (o.step = "issue" => o.root = 0)
    <3>1. PICK st \in {"rotate", "revoke"} : Becomes(r, [step |-> st, t |-> t])
      BY <2>1 DEF Refresh, Logout
    <3> QED
      BY <2>1, <3>1 DEF Refresh, Logout, history
  <2>2. ASSUME NEW p \in Person, SetPassword(r, p)
        PROVE  /\ UNCHANGED <<token, doubled>>
               /\ \E o : Becomes(r, o) /\ (o.step = "issue" => o.root = 0)
    BY <2>2 DEF SetPassword, history
  <2>3. ASSUME NEW p \in Person, NEW d \in Device, Login(r, p, d)
        PROVE  /\ UNCHANGED <<token, doubled>>
               /\ \E o : Becomes(r, o) /\ (o.step = "issue" => o.root = 0)
    BY <2>3 DEF Login, history
  <2>4. ASSUME NEW p \in Person, NEW g \in Grid, UpdatePermissions(r, p, g) \/ Invite(r, p, g)
        PROVE  /\ UNCHANGED <<token, doubled>>
               /\ \E o : Becomes(r, o) /\ (o.step = "issue" => o.root = 0)
    <3>1. PICK st \in {"create", "replace"} :
            Becomes(r, [step |-> st, member |-> p, grid |-> g, call |-> calls'])
      BY <2>4 DEF UpdatePermissions, Invite
    <3> QED
      BY <2>4, <3>1 DEF UpdatePermissions, Invite, history
  <2> QED
    BY <1>1, <2>1, <2>2, <2>3, <2>4 DEF Beginning, Person
<1>2. CASE ReplaceDelete(r)
  BY <1>2 DEF ReplaceDelete, history
<1>3. CASE UpdatePassword(r)
  BY <1>3 DEF UpdatePassword, history
<1>4. CASE CreateMember(r)
  <2>1. [doing[r] EXCEPT !.step = "replace"].step = "replace"
    BY <1>4, InHand DEF CreateMember, At
  <2> QED
    BY <1>4, <2>1, IdleIsDoing DEF CreateMember, End, history
<1>5. CASE ReplaceCommit(r) \/ SeedCreate(r) \/ Die(r)
  BY <1>5, IdleIsDoing DEF ReplaceCommit, SeedCreate, Die, End, history
<1>6. CASE Seed(r)
  BY <1>6 DEF Seed
<1>7. CASE SeedDelete(r)
  <2>1. [doing[r] EXCEPT !.step = "fill"].step = "fill"
    BY <1>7, InHand DEF SeedDelete, At
  <2> QED
    BY <1>7, <2>1 DEF SeedDelete, history
<1>8. CASE Leaving(r)
  BY <1>8 DEF Leaving, LogoutDevices
<1> QED
  BY <1>1, <1>2, <1>3, <1>4, <1>5, <1>6, <1>7, <1>8 DEF Quiet

\* Of the sessions of a login one at a time is live, but for the rotations that overlap.
LEMMA OneAtATimeStep ==
    ASSUME OfficeInv, [BackofficeNext]_backofficeVars
    PROVE  OneAtATime'
<1>1. BackofficeTypeOK /\ Typed /\ Referred /\ OneAtATime
  BY DEF OfficeInv
<1>2. /\ 0 \notin Used
      /\ \A x \in Used : Cardinality(LiveFrom(x)) + Cardinality(OpeningOf(x)) <= 1 + doubled[x]
      /\ \A x \in Token : doubled[x] \in Nat
      /\ \A x \in Used : x \in Token
  BY <1>1 DEF Used, Token, OneAtATime, Typed
<1>3. ASSUME UNCHANGED token, UNCHANGED doubled, \A x \in Used : OpeningOf(x)' \subseteq OpeningOf(x)
      PROVE  OneAtATime'
  <2>1. Used' = Used /\ \A x \in Used : LiveFrom(x)' = LiveFrom(x)
    BY <1>3 DEF Used, LiveFrom, Live
  <2>2. ASSUME NEW x \in Used
        PROVE  Cardinality(LiveFrom(x)') + Cardinality(OpeningOf(x)') <= 1 + doubled'[x]
    BY <1>2, <1>3, <2>1, FewerKept, Countable
  <2> QED
    BY <2>1, <2>2 DEF OneAtATime
<1>4. CASE UNCHANGED backofficeVars
  BY <1>3, <1>4 DEF backofficeVars, history, OpeningOf
<1>5. ASSUME NEW r \in Request, Quiet(r) PROVE OneAtATime'
  <2>1. \A x \in Used : OpeningOf(x)' \subseteq OpeningOf(x)
    <3>1. CASE UNCHANGED doing
      BY <3>1 DEF OpeningOf
    <3>2. ASSUME NEW o, Becomes(r, o), o.step = "issue" => o.root = 0
          PROVE  \A x \in Used : OpeningOf(x)' \subseteq OpeningOf(x)
      <4>1. doing'[r] = o /\ \A q \in Request \ {r} : doing'[q] = doing[q]
        BY <1>1, <3>2 DEF Becomes, Typed
      <4> QED
        BY <1>2, <3>2, <4>1 DEF OpeningOf
    <3> QED
      BY <1>1, <1>5, <3>1, <3>2, QuietMoves
  <2> QED
    BY <1>1, <1>3, <1>5, <2>1, QuietMoves
<1>6. ASSUME NEW r \in Request, RevokeRefreshToken(r) \/ RevokeAll(r) PROVE OneAtATime'
  <2>1. PICK S \in SUBSET Used :
          token' = [t \in Token |-> IF t \in S THEN [token[t] EXCEPT !.live = FALSE] ELSE token[t]]
    BY <1>1, <1>6, RevokingTypes
  <2>2. Used' = Used /\ \A x \in Used : LiveFrom(x)' \subseteq LiveFrom(x)
    <3>1. /\ Used' = Used /\ Live' = Live \ S /\ Live \subseteq Used
          /\ \A t \in Used : token'[t].root = token[t].root
      BY <1>1, <2>1, RevokedKept, LiveAreUsed
    <3> QED
      BY <3>1 DEF LiveFrom
  <2>3. UNCHANGED doubled /\ \A x \in Used : OpeningOf(x)' \subseteq OpeningOf(x)
    <3>1. UNCHANGED doubled /\ doing' = [doing EXCEPT ![r] = Idle]
      BY <1>6 DEF RevokeRefreshToken, RevokeAll, End, Becomes, history
    <3>2. doing'[r] = Idle /\ \A q \in Request \ {r} : doing'[q] = doing[q]
      BY <1>1, <3>1 DEF Typed
    <3> QED
      BY <3>1, <3>2, IdleIsDoing DEF OpeningOf
  <2>4. ASSUME NEW x \in Used
        PROVE  Cardinality(LiveFrom(x)') + Cardinality(OpeningOf(x)') <= 1 + doubled'[x]
    BY <1>2, <2>2, <2>3, FewerKept, Countable
  <2> QED
    BY <2>2, <2>4 DEF OneAtATime
<1>7. ASSUME NEW r \in Request, Rotate(r) PROVE OneAtATime'
  <2>1. PICK n \in Used, y \in Used : n = doing[r].t /\ y = token[n].root /\ doing[r].step = "rotate"
    BY <1>1, <1>7 DEF Rotate, At, Referred, BackofficeTypeOK
  <2>2. token' = [t \in Token |-> IF t \in {n} THEN [token[t] EXCEPT !.live = FALSE] ELSE token[t]]
    BY <1>1, <1>7, <2>1 DEF Rotate, Typed
  <2>3. /\ Used' = Used /\ Live' = Live \ {n} /\ Live \subseteq Used
        /\ \A t \in Used : token'[t].root = token[t].root
    BY <1>1, <2>2, RevokedKept, LiveAreUsed
  <2>4. PICK o : o.step = "issue" /\ o.root = y /\ doing' = [doing EXCEPT ![r] = o]
    BY <1>7, <2>1 DEF Rotate, Becomes
  <2>5. doubled' = IF token[n].live THEN doubled ELSE [doubled EXCEPT ![y] = @ + 1]
    BY <1>7, <2>1 DEF Rotate
  <2>6. doing'[r] = o /\ \A q \in Request \ {r} : doing'[q] = doing[q]
    BY <1>1, <2>4 DEF Typed
  <2>7. OpeningOf(y)' = OpeningOf(y) \cup {r} /\ r \notin OpeningOf(y)
    BY <2>1, <2>4, <2>6 DEF OpeningOf
  <2>8. \A x \in Used \ {y} : OpeningOf(x)' = OpeningOf(x) /\ LiveFrom(x)' = LiveFrom(x)
    BY <2>1, <2>3, <2>4, <2>6 DEF OpeningOf, LiveFrom
  <2>9. LiveFrom(y)' = LiveFrom(y) \ {n} /\ (n \in LiveFrom(y) <=> token[n].live)
    BY <1>2, <2>1, <2>3 DEF LiveFrom, Live
  <2>10. Cardinality(OpeningOf(y)') = Cardinality(OpeningOf(y)) + 1
    BY <2>7, Countable, FS_AddElement
  <2>11. Cardinality(LiveFrom(y)') = Cardinality(LiveFrom(y)) - (IF token[n].live THEN 1 ELSE 0)
    <3>1. /\ Cardinality(LiveFrom(y) \ {n}) =
               IF n \in LiveFrom(y) THEN Cardinality(LiveFrom(y)) - 1 ELSE Cardinality(LiveFrom(y))
          /\ Cardinality(LiveFrom(y)) \in Nat
      BY Countable, FS_RemoveElement
    <3> QED
      BY <2>9, <3>1
  <2>12. ASSUME NEW x \in Used
         PROVE  Cardinality(LiveFrom(x)') + Cardinality(OpeningOf(x)') <= 1 + doubled'[x]
    <3>1. CASE x # y
      <4>1. doubled'[x] = doubled[x]
        BY <1>1, <1>2, <2>5, <3>1 DEF Typed
      <4> QED
        BY <1>2, <2>8, <3>1, <4>1
    <3>2. CASE x = y
      <4>1. doubled'[y] = doubled[y] + (IF token[n].live THEN 0 ELSE 1)
        BY <1>1, <1>2, <2>1, <2>5 DEF Typed
      <4>2. Cardinality(LiveFrom(y)) + Cardinality(OpeningOf(y)) <= 1 + doubled[y]
            /\ doubled[y] \in Nat
        BY <1>2, <2>1
      <4>3. Cardinality(LiveFrom(y)) \in Nat /\ Cardinality(OpeningOf(y)) \in Nat
        BY Countable
      <4> QED
        BY <2>10, <2>11, <3>2, <4>1, <4>2, <4>3
    <3> QED
      BY <3>1, <3>2
  <2> QED
    BY <2>3, <2>12 DEF OneAtATime
<1>8. ASSUME NEW r \in Request, IssueTokens(r) PROVE OneAtATime'
  <2>0. PICK n, o, y : /\ n = Cardinality(Used) + 1 /\ o = doing[r]
                       /\ y = IF o.root = 0 THEN n ELSE o.root
    OBVIOUS
  <2>1. /\ n \in Token /\ n \notin Used /\ Used' = Used \cup {n} /\ y \in Used'
        /\ o.root \in Used \cup {0}
        /\ Live' = Live \cup {n} /\ Live \subseteq Used
        /\ \A t \in Token \ {n} : token'[t] = token[t]
        /\ token' = [token EXCEPT ![n] =
                     [member |-> o.member, device |-> o.device, live |-> TRUE, pw |-> o.pw,
                      root |-> y, since |-> o.since, born |-> cuts[o.member]]]
    BY <1>1, <1>8, <2>0, IssueKept, LiveAreUsed
  <2>2. token'[n].root = y
    BY <1>1, <2>1 DEF Typed
  <2>3. /\ doing'[r] = Idle /\ \A q \in Request \ {r} : doing'[q] = doing[q]
        /\ o.step = "issue" /\ UNCHANGED doubled
    BY <1>1, <1>8, <2>0 DEF IssueTokens, At, End, Becomes, Typed, history
  <2>4. \A t \in Live : token[t].root \in Used
    BY <1>1, <2>1 DEF BackofficeTypeOK
  <2>5. \A x \in Used' : LiveFrom(x)' = IF x = y THEN LiveFrom(x) \cup {n} ELSE LiveFrom(x)
    BY <1>2, <2>1, <2>2 DEF LiveFrom
  <2>6. \A x \in Used' : OpeningOf(x)' = IF x = o.root THEN OpeningOf(x) \ {r} ELSE OpeningOf(x)
    BY <2>0, <2>3, IdleIsDoing DEF OpeningOf
  <2>7. LiveFrom(n) = {} /\ OpeningOf(n) = {}
    BY <1>1, <1>2, <2>1, <2>4 DEF LiveFrom, OpeningOf, Referred, Token
  <2>8. n \notin LiveFrom(y) /\ (o.root = y => r \in OpeningOf(y))
    BY <2>0, <2>1, <2>3 DEF LiveFrom, OpeningOf
  <2>9. ASSUME NEW x \in Used'
        PROVE  Cardinality(LiveFrom(x)') + Cardinality(OpeningOf(x)') <= 1 + doubled'[x]
    <3>1. /\ Cardinality(LiveFrom(x)) \in Nat /\ Cardinality(OpeningOf(x)) \in Nat
          /\ doubled[x] \in Nat /\ doubled'[x] = doubled[x]
      BY <1>2, <2>1, <2>3, Countable
    <3>2. CASE x = y /\ o.root = 0
      <4>1. x = n
        BY <2>0, <3>2
      <4>2. LiveFrom(x)' = {n} /\ OpeningOf(x)' = {}
        BY <1>2, <2>1, <2>5, <2>6, <2>7, <3>2, <4>1
      <4>3. Cardinality(LiveFrom(x)') = 1 /\ Cardinality(OpeningOf(x)') = 0
        BY <4>2, FS_Singleton, FS_EmptySet
      <4> QED
        BY <3>1, <4>3
    <3>3. CASE x = y /\ o.root # 0
      <4>1. x = o.root /\ x \in Used
        BY <2>0, <2>1, <3>3
      <4>2. Cardinality(LiveFrom(x)') = Cardinality(LiveFrom(x)) + 1
        BY <2>5, <2>8, <3>3, Countable, FS_AddElement
      <4>3. Cardinality(OpeningOf(x)') = Cardinality(OpeningOf(x)) - 1
        BY <2>6, <2>8, <3>3, <4>1, Countable, FS_RemoveElement
      <4> QED
        BY <1>2, <3>1, <4>1, <4>2, <4>3
    <3>4. CASE x # y
      <4>1. x # n => x \in Used
        BY <2>1
      <4>2. LiveFrom(x)' = LiveFrom(x)
        BY <2>5, <3>4
      <4>3. OpeningOf(x)' = OpeningOf(x)
        BY <2>0, <2>1, <2>6, <3>4, <1>2
      <4>4. Cardinality(LiveFrom(x)) + Cardinality(OpeningOf(x)) <= 1 + doubled[x]
        <5>1. CASE x = n
          BY <2>7, <3>1, <5>1, FS_EmptySet
        <5>2. CASE x # n
          BY <1>2, <4>1, <5>2
        <5> QED
          BY <5>1, <5>2
      <4> QED
        BY <3>1, <4>2, <4>3, <4>4
    <3> QED
      BY <3>2, <3>3, <3>4
  <2> QED
    BY <2>9 DEF OneAtATime
<1> QED
  BY <1>4, <1>5, <1>6, <1>7, <1>8, StepsOfTheOffice DEF Quiet

-----------------------------------------------------------------------------

\* A step of a request that changes no password and revokes no sessions, of a
\* member who is being changed or of another.
LEMMA PlainKept ==
    ASSUME Typed, NEW r \in Request, NEW o, NEW x, x.member \in Person, UpToDate(x),
           doing' = [doing EXCEPT ![r] = o] \/ UNCHANGED doing, doing[r].step # "cut",
           cuts' = cuts, uncut \subseteq uncut',
           person[x.member].known => person'[x.member].known,
           person'[x.member].pw = person[x.member].pw
    PROVE  UpToDate(x)'
<1>1. \A q \in Request \ {r} : doing'[q] = doing[q]
  BY DEF Typed
<1>2. Changing(x.member) => Changing(x.member)'
  BY <1>1 DEF Changing, At
<1> QED
  BY <1>2 DEF UpToDate

\* What a step may do to a request, to be told apart below.
LEMMA MovesByStep ==
    ASSUME Typed, NEW r \in Request
    PROVE  /\ Rotate(r) \/ RevokeRefreshToken(r) \/ IssueTokens(r) \/ ReplaceDelete(r)
                \/ ReplaceCommit(r) \/ SeedDelete(r) \/ SeedCreate(r) \/ Leaving(r) \/ Beginning(r) =>
              /\ UNCHANGED doing \/ \E o : doing' = [doing EXCEPT ![r] = o]
              /\ doing[r].step # "cut" /\ UNCHANGED <<cuts, uncut>>
           /\ UpdatePassword(r) \/ CreateMember(r) \/ Seed(r) =>
              /\ \E o : doing' = [doing EXCEPT ![r] = o]
              /\ doing[r].step # "cut" /\ UNCHANGED cuts /\ uncut \subseteq uncut'
<1>1. ASSUME Rotate(r) \/ RevokeRefreshToken(r) \/ IssueTokens(r) \/ ReplaceDelete(r)
             \/ ReplaceCommit(r) \/ SeedDelete(r) \/ SeedCreate(r)
      PROVE  /\ \E o : Becomes(r, o)
             /\ doing[r].step # "cut" /\ UNCHANGED <<cuts, uncut>>
  <2>1. \E o : Becomes(r, o)
    BY <1>1 DEF Rotate, RevokeRefreshToken, IssueTokens, ReplaceDelete, ReplaceCommit, SeedDelete,
                SeedCreate, End
  <2>2. doing[r].step # "cut" /\ UNCHANGED <<cuts, uncut>>
    BY <1>1 DEF Rotate, RevokeRefreshToken, IssueTokens, ReplaceDelete, ReplaceCommit, SeedDelete,
                SeedCreate, At, history
  <2> QED
    BY <2>1, <2>2
<1>2. ASSUME Beginning(r) \/ Leaving(r)
      PROVE  /\ UNCHANGED doing \/ \E o : Becomes(r, o)
             /\ doing[r].step # "cut" /\ UNCHANGED <<cuts, uncut>>
  <2>1. UNCHANGED doing \/ \E o : Becomes(r, o)
    BY <1>2 DEF Beginning, Refresh, Logout, SetPassword, Login, UpdatePermissions, Invite,
                Leaving, LogoutDevices
  <2>2. Begin(r) /\ UNCHANGED <<cuts, uncut>>
    BY <1>2 DEF Beginning, Refresh, Logout, SetPassword, Login, UpdatePermissions, Invite,
                Leaving, LogoutDevices, history
  <2> QED
    BY <2>1, <2>2, IdleIsDoing DEF Begin
<1>3. ASSUME UpdatePassword(r) \/ CreateMember(r) \/ Seed(r)
      PROVE  /\ \E o : Becomes(r, o)
             /\ doing[r].step # "cut" /\ UNCHANGED cuts /\ uncut \subseteq uncut'
  <2>1. \E o : Becomes(r, o)
    BY <1>3 DEF UpdatePassword, CreateMember, Seed, End
  <2>2. doing[r].step # "cut" /\ UNCHANGED cuts /\ uncut \subseteq uncut'
    BY <1>3, IdleIsDoing DEF UpdatePassword, CreateMember, Seed, Begin, At, history
  <2> QED
    BY <2>1, <2>2
<1> QED
  BY <1>1, <1>2, <1>3 DEF Becomes

\* The accounts after a step: passwords are written by an update, by the creation of
\* the account and by the script; an account once known stays so.
LEMMA PasswordsWritten ==
    ASSUME BackofficeTypeOK, Typed, NEW r \in Request, NEW p \in Person
    PROVE  /\ Rotate(r) \/ RevokeRefreshToken(r) \/ RevokeAll(r) \/ IssueTokens(r)
                \/ ReplaceDelete(r) \/ ReplaceCommit(r) \/ SeedDelete(r) \/ SeedCreate(r)
                \/ Leaving(r) \/ Beginning(r) \/ Die(r) =>
              person'[p].pw = person[p].pw /\ person'[p].known = person[p].known
           /\ UpdatePassword(r) =>
                /\ person'[p].known = person[p].known
                /\ doing[r].member # p => person'[p].pw = person[p].pw
           /\ CreateMember(r) =>
                /\ person[p].known => person'[p] = person[p]
           /\ Seed(r) =>
                /\ person'[p].known = person[p].known
                /\ p # Owner => person'[p].pw = person[p].pw
<1>1. /\ person \in [Person -> [known : BOOLEAN, pw : 0..MaxCalls, rows : SUBSET Row]]
      /\ \A q \in Person : person[q] \in [known : BOOLEAN, pw : 0..MaxCalls, rows : SUBSET Row]
  BY DEF BackofficeTypeOK
<1>2. CASE Rotate(r) \/ RevokeRefreshToken(r) \/ RevokeAll(r) \/ IssueTokens(r)
           \/ ReplaceDelete(r) \/ Leaving(r) \/ Beginning(r) \/ Die(r)
  <2>1. UNCHANGED person
    BY <1>2 DEF Rotate, RevokeRefreshToken, RevokeAll, IssueTokens, ReplaceDelete, Leaving, Beginning,
                Die, LogoutDevices, Refresh, Logout, SetPassword, Login, UpdatePermissions, Invite
  <2> QED
    BY <2>1
<1>3. ASSUME ReplaceCommit(r) \/ SeedDelete(r) \/ SeedCreate(r)
      PROVE  person'[p].pw = person[p].pw /\ person'[p].known = person[p].known
  <2>1. \/ UNCHANGED person
        \/ \E q, R : person' = [person EXCEPT ![q].rows = R]
    BY <1>3 DEF ReplaceCommit, SeedDelete, SeedCreate
  <2> QED
    BY <1>1, <2>1
<1>4. ASSUME UpdatePassword(r)
      PROVE  /\ person'[p].known = person[p].known
             /\ doing[r].member # p => person'[p].pw = person[p].pw
  BY <1>1, <1>4 DEF UpdatePassword
<1>5. ASSUME CreateMember(r), person[p].known PROVE person'[p] = person[p]
  BY <1>1, <1>5 DEF CreateMember
<1>6. ASSUME Seed(r)
      PROVE  /\ person'[p].known = person[p].known
             /\ p # Owner => person'[p].pw = person[p].pw
  BY <1>1, <1>6 DEF Seed
<1> QED
  BY <1>2, <1>3, <1>4, <1>5, <1>6

\* Whatever happens, what a session remembers of its login stays up to date, or the
\* password is being changed.
LEMMA StaysUpToDate ==
    ASSUME OfficeInv, [BackofficeNext]_backofficeVars,
           NEW x, x.member \in Person, x.since \in Nat, UpToDate(x)
    PROVE  UpToDate(x)'
<1>1. BackofficeTypeOK /\ Typed
  BY DEF OfficeInv
<1> DEFINE p == x.member
<1>2. CASE UNCHANGED backofficeVars
  BY <1>2 DEF backofficeVars, history, UpToDate, Changing, At
<1>3. ASSUME NEW r \in Request,
             \/ Rotate(r) \/ RevokeRefreshToken(r) \/ IssueTokens(r) \/ ReplaceDelete(r)
             \/ ReplaceCommit(r) \/ SeedDelete(r) \/ SeedCreate(r) \/ Leaving(r) \/ Beginning(r)
      PROVE  UpToDate(x)'
  <2>1. PICK o : UNCHANGED doing \/ doing' = [doing EXCEPT ![r] = o]
    BY <1>1, <1>3, MovesByStep
  <2>2. doing[r].step # "cut" /\ cuts' = cuts /\ uncut' = uncut
    BY <1>1, <1>3, MovesByStep
  <2>3. person'[x.member].pw = person[x.member].pw /\ person'[x.member].known = person[x.member].known
    BY <1>1, <1>3, PasswordsWritten
  <2> QED
    BY <1>1, <2>1, <2>2, <2>3, PlainKept
<1>4. ASSUME NEW r \in Request, UpdatePassword(r) \/ CreateMember(r) \/ Seed(r)
      PROVE  UpToDate(x)'
  <2>1. PICK o : doing' = [doing EXCEPT ![r] = o]
    BY <1>1, <1>4, MovesByStep
  <2>2. doing[r].step # "cut" /\ cuts' = cuts /\ uncut \subseteq uncut'
    BY <1>1, <1>4, MovesByStep
  <2>3. person[p].known /\ person'[p].known
    BY <1>1, <1>4, PasswordsWritten DEF UpToDate
  <2>4. CASE person'[p].pw = person[p].pw
    BY <1>1, <2>1, <2>2, <2>3, <2>4, PlainKept
  <2>5. CASE Changing(p)'
    BY <2>2, <2>3, <2>5 DEF UpToDate
  <2>6. CASE UpdatePassword(r) /\ doing[r].member = p
    <3>1. doing' = [doing EXCEPT ![r] = [step |-> "cut", member |-> p]]
      BY <2>6 DEF UpdatePassword, Becomes
    <3>2. doing'[r] = [step |-> "cut", member |-> p]
      BY <1>1, <3>1 DEF Typed
    <3>3. Changing(p)'
      BY <3>2 DEF Changing, At
    <3> QED
      BY <2>5, <3>3
  <2>7. CASE Seed(r) /\ p = Owner
    <3>1. Changing(p)'
      BY <2>7 DEF Seed, Changing
    <3> QED
      BY <2>5, <3>1
  <2> QED
    BY <1>1, <1>4, <2>3, <2>4, <2>6, <2>7, PasswordsWritten
<1>5. ASSUME NEW r \in Request, RevokeAll(r) PROVE UpToDate(x)'
  <2>1. person'[p].pw = person[p].pw /\ person'[p].known = person[p].known
    BY <1>1, <1>5, PasswordsWritten
  <2>2. doing[r].member \in Person /\ doing[r].step = "cut"
    BY <1>1, <1>5, InHand DEF RevokeAll, At
  <2>3. /\ cuts' = [cuts EXCEPT ![doing[r].member] = @ + 1]
        /\ uncut' = uncut \ {doing[r].member}
        /\ doing' = [doing EXCEPT ![r] = Idle]
    BY <1>5 DEF RevokeAll, End, Becomes
  <2>4. CASE p = doing[r].member
    <3>1. cuts'[p] = cuts[p] + 1 /\ cuts[p] \in Nat
      BY <1>1, <2>2, <2>3, <2>4 DEF Typed
    <3>2. x.since < cuts'[p]
      BY <3>1 DEF UpToDate
    <3> QED
      BY <2>1, <3>1, <3>2 DEF UpToDate
  <2>5. CASE p # doing[r].member
    <3>1. cuts'[p] = cuts[p]
      BY <1>1, <2>3, <2>5 DEF Typed
    <3>2. Changing(p) => Changing(p)'
      <4>1. \A q \in Request \ {r} : doing'[q] = doing[q]
        BY <1>1, <2>3 DEF Typed
      <4> QED
        BY <2>3, <2>5, <4>1 DEF Changing, At
    <3> QED
      BY <2>1, <3>1, <3>2 DEF UpToDate
  <2> QED
    BY <2>4, <2>5
<1>6. ASSUME NEW r \in Request, Die(r) PROVE UpToDate(x)'
  <2>1. person'[p].pw = person[p].pw /\ person'[p].known = person[p].known
    BY <1>1, <1>6, PasswordsWritten
  <2>2. /\ cuts' = cuts /\ doing' = [doing EXCEPT ![r] = Idle]
        /\ uncut' = IF doing[r].step = "cut" THEN uncut \cup {doing[r].member} ELSE uncut
    BY <1>6 DEF Die, End, Becomes, At
  <2>3. Changing(p) => Changing(p)'
    <3>1. \A q \in Request \ {r} : doing'[q] = doing[q]
      BY <1>1, <2>2 DEF Typed
    <3> QED
      BY <2>2, <3>1 DEF Changing, At
  <2> QED
    BY <2>1, <2>2, <2>3 DEF UpToDate
<1> QED
  BY <1>2, <1>3, <1>4, <1>5, <1>6, StepsOfTheOffice

\* What counts of a session for that: whose it is, its password and its login.
LEMMA SameMemory ==
    ASSUME NEW x, NEW y, x.member = y.member, x.pw = y.pw, x.since = y.since, UpToDate(y)
    PROVE  UpToDate(x)
BY DEF UpToDate
LEMMA SameMemoryNext ==
    ASSUME NEW x, NEW y, x.member = y.member, x.pw = y.pw, x.since = y.since, UpToDate(y)'
    PROVE  UpToDate(x)'
BY DEF UpToDate

\* Where the sessions come from: from sessions, or from requests about to open one.
LEMMA SessionsStem ==
    ASSUME BackofficeTypeOK, Typed, Referred, [BackofficeNext]_backofficeVars, NEW t \in Used'
    PROVE  \/ /\ t \in Used /\ token'[t].member = token[t].member /\ token'[t].pw = token[t].pw
              /\ token'[t].since = token[t].since /\ token'[t].born = token[t].born
              /\ t \in Live' => t \in Live
           \/ \E r \in Request : LET o == doing[r] IN
                /\ o.step = "issue" /\ token'[t].member = o.member /\ token'[t].pw = o.pw
                /\ token'[t].since = o.since /\ token'[t].born = cuts[o.member]
                /\ cuts' = cuts
<1>1. CASE UNCHANGED token
  BY <1>1 DEF Used, Live
<1>2. ASSUME NEW r \in Request, Rotate(r) \/ RevokeRefreshToken(r) \/ RevokeAll(r)
      PROVE  /\ t \in Used /\ token'[t].member = token[t].member /\ token'[t].pw = token[t].pw
             /\ token'[t].since = token[t].since /\ token'[t].born = token[t].born
             /\ t \in Live' => t \in Live
  <2>1. PICK S \in SUBSET Used :
          token' = [u \in Token |-> IF u \in S THEN [token[u] EXCEPT !.live = FALSE] ELSE token[u]]
    BY <1>2, RevokingTypes
  <2>2. /\ Used' = Used /\ Live' = Live \ S
        /\ token'[t].member = token[t].member /\ token'[t].pw = token[t].pw
        /\ token'[t].since = token[t].since /\ token'[t].born = token[t].born
    BY <2>1, RevokedKept
  <2>3. t \in Token
    BY DEF Used
  <2> QED
    BY <2>2, <2>3 DEF Live
<1>3. ASSUME NEW r \in Request, IssueTokens(r)
      PROVE  \/ t \in Used /\ token'[t] = token[t] /\ (t \in Live' => t \in Live)
             \/ LET o == doing[r] IN
                /\ o.step = "issue" /\ token'[t].member = o.member /\ token'[t].pw = o.pw
                /\ token'[t].since = o.since /\ token'[t].born = cuts[o.member] /\ cuts' = cuts
  <2>1. PICK n, o, x : /\ n = Cardinality(Used) + 1 /\ o = doing[r]
                       /\ x = IF o.root = 0 THEN n ELSE o.root
    OBVIOUS
  <2>2. /\ n \in Token /\ Used' = Used \cup {n} /\ n \notin Used
        /\ \A u \in Token \ {n} : token'[u] = token[u]
        /\ token' = [token EXCEPT ![n] =
                     [member |-> o.member, device |-> o.device, live |-> TRUE, pw |-> o.pw,
                      root |-> x, since |-> o.since, born |-> cuts[o.member]]]
    BY <1>3, <2>1, IssueKept
  <2>3. CASE t # n
    BY <2>2, <2>3 DEF Used, Live
  <2>4. CASE t = n
    <3>1. token'[t] = [member |-> o.member, device |-> o.device, live |-> TRUE, pw |-> o.pw,
                       root |-> x, since |-> o.since, born |-> cuts[o.member]]
      BY <2>2, <2>4 DEF Typed
    <3>2. o.step = "issue" /\ cuts' = cuts
      BY <1>3, <2>1 DEF IssueTokens, At, history
    <3> QED
      BY <2>1, <3>1, <3>2
  <2> QED
    BY <2>3, <2>4
<1>4. UNCHANGED token \/ \E r \in Request :
        Rotate(r) \/ RevokeRefreshToken(r) \/ RevokeAll(r) \/ IssueTokens(r)
  BY StepsOfTheOffice, QuietMoves DEF Quiet, backofficeVars
<1> QED
  BY <1>1, <1>2, <1>3, <1>4

\* Where the requests that open a session come from: a log-in, or a session rotated.
LEMMA OpeningsStem ==
    ASSUME BackofficeTypeOK, Typed, Referred, [BackofficeNext]_backofficeVars,
           NEW q \in Request, doing'[q].step = "issue"
    PROVE  LET o == doing'[q] IN
           \/ doing[q].step = "issue" /\ o = doing[q]
           \/ \E t \in Used : /\ o.member = token[t].member /\ o.pw = token[t].pw
                              /\ o.since = token[t].since
           \/ /\ UNCHANGED <<person, cuts>> /\ o.member \in Person /\ person[o.member].known
              /\ o.pw = person[o.member].pw /\ o.since = cuts[o.member]
<1>1. CASE doing'[q] = doing[q]
  BY <1>1
<1>2. ASSUME NEW r \in Request, Rotate(r), doing'[q] # doing[q]
      PROVE  \E t \in Used : /\ doing'[q].member = token[t].member /\ doing'[q].pw = token[t].pw
                            /\ doing'[q].since = token[t].since
  <2>1. PICK t \in Used : t = doing[r].t
    BY <1>2 DEF Rotate, At, Referred
  <2>2. doing' = [doing EXCEPT ![r] =
                   [step |-> "issue", member |-> token[t].member, device |-> token[t].device,
                    pw |-> token[t].pw, root |-> token[t].root, since |-> token[t].since]]
    BY <1>2, <2>1 DEF Rotate, Becomes
  <2>3. q = r /\ doing'[q] = [step |-> "issue", member |-> token[t].member,
                    device |-> token[t].device,
                    pw |-> token[t].pw, root |-> token[t].root, since |-> token[t].since]
    BY <1>2, <2>2 DEF Typed
  <2> QED
    BY <2>3
<1>3. ASSUME NEW r \in Request, NEW p \in Person, NEW d \in Device, Login(r, p, d),
             doing'[q] # doing[q]
      PROVE  LET o == doing'[q] IN
             /\ UNCHANGED <<person, cuts>> /\ o.member \in Person /\ person[o.member].known
             /\ o.pw = person[o.member].pw /\ o.since = cuts[o.member]
  <2>1. doing' = [doing EXCEPT ![r] =
                   [step |-> "issue", member |-> p, device |-> d, pw |-> person[p].pw,
                    root |-> 0, since |-> cuts[p]]]
    BY <1>3 DEF Login, Becomes
  <2>2. doing'[q] = [step |-> "issue", member |-> p, device |-> d, pw |-> person[p].pw,
                     root |-> 0, since |-> cuts[p]]
    BY <1>3, <2>1 DEF Typed
  <2> QED
    BY <1>3, <2>2 DEF Login, history
<1>4. ASSUME NEW r \in Request, NEW o, Becomes(r, o), o.step # "issue"
      PROVE  doing'[q] = doing[q]
  BY <1>4 DEF Becomes, Typed
<1>5. \/ UNCHANGED doing
      \/ \E r \in Request :
           \/ Rotate(r) \/ \E p \in Person, d \in Device : Login(r, p, d)
           \/ \E o : Becomes(r, o) /\ o.step # "issue"
  <2>1. ASSUME NEW r \in Request, Beginning(r)
        PROVE  \/ \E p \in Person, d \in Device : Login(r, p, d)
               \/ \E o : Becomes(r, o) /\ o.step # "issue"
    <3>1. ASSUME NEW t \in Token, Refresh(r, t) \/ Logout(r, t)
          PROVE  \E o : Becomes(r, o) /\ o.step # "issue"
      <4>1. PICK st \in {"rotate", "revoke"} : Becomes(r, [step |-> st, t |-> t])
        BY <3>1 DEF Refresh, Logout
      <4> QED
        BY <4>1
    <3>2. ASSUME NEW p \in Person, SetPassword(r, p)
          PROVE  \E o : Becomes(r, o) /\ o.step # "issue"
      BY <3>2 DEF SetPassword
    <3>3. ASSUME NEW p \in Person, NEW g \in Grid, UpdatePermissions(r, p, g) \/ Invite(r, p, g)
          PROVE  \E o : Becomes(r, o) /\ o.step # "issue"
      <4>1. PICK st \in {"create", "replace"} :
              Becomes(r, [step |-> st, member |-> p, grid |-> g, call |-> calls'])
        BY <3>3 DEF UpdatePermissions, Invite
      <4> QED
        BY <4>1
    <3> QED
      BY <2>1, <3>1, <3>2, <3>3 DEF Beginning, Person
  <2>2. ASSUME NEW r \in Request, Quiet(r), ~Beginning(r)
        PROVE  UNCHANGED doing \/ \E o : Becomes(r, o) /\ o.step # "issue"
    <3>1. CASE CreateMember(r)
      <4>1. [doing[r] EXCEPT !.step = "replace"].step = "replace"
        BY <3>1, InHand DEF CreateMember, At
      <4> QED
        BY <3>1, <4>1, IdleIsDoing DEF CreateMember, End
    <3>2. CASE SeedDelete(r)
      <4>1. [doing[r] EXCEPT !.step = "fill"].step = "fill"
        BY <3>2, InHand DEF SeedDelete, At
      <4> QED
        BY <3>2, <4>1 DEF SeedDelete
    <3>3. CASE ReplaceDelete(r) \/ UpdatePassword(r) \/ Seed(r)
      BY <3>3 DEF ReplaceDelete, UpdatePassword, Seed
    <3>4. CASE ReplaceCommit(r) \/ SeedCreate(r) \/ Die(r) \/ Leaving(r)
      BY <3>4, IdleIsDoing DEF ReplaceCommit, SeedCreate, Die, Leaving, LogoutDevices, End
    <3> QED
      BY <2>2, <3>1, <3>2, <3>3, <3>4 DEF Quiet
  <2>3. ASSUME NEW r \in Request, RevokeRefreshToken(r) \/ RevokeAll(r) \/ IssueTokens(r)
        PROVE  \E o : Becomes(r, o) /\ o.step # "issue"
    BY <2>3, IdleIsDoing DEF RevokeRefreshToken, RevokeAll, IssueTokens, End
  <2> QED
    BY <2>1, <2>2, <2>3, StepsOfTheOffice DEF Quiet, backofficeVars
<1> QED
  BY <1>1, <1>2, <1>3, <1>4, <1>5

\* Every step keeps what the sessions know of their logins.
LEMMA SessionsKnowStep ==
    ASSUME OfficeInv, [BackofficeNext]_backofficeVars
    PROVE  SessionsKnow'
<1>1. BackofficeTypeOK /\ Typed /\ Referred /\ SessionsKnow /\ BackofficeTypeOK' /\ Typed'
  BY OfficeTypesStep DEF OfficeInv
<1>3. \A t \in Used : \A y : y = token[t] => UpToDate(y)'
  <2> SUFFICES ASSUME NEW t \in Used, NEW y, y = token[t] PROVE UpToDate(y)'
    OBVIOUS
  <2>1. y.member \in Person /\ y.since \in Nat
    BY <1>1 DEF BackofficeTypeOK
  <2> QED
    BY <1>1, <2>1, StaysUpToDate DEF SessionsKnow
<1>4. \A r \in Request : \A y : doing[r].step = "issue" /\ y = doing[r] => UpToDate(y)'
  <2> SUFFICES ASSUME NEW r \in Request, NEW y, doing[r].step = "issue", y = doing[r]
               PROVE  UpToDate(y)'
    OBVIOUS
  <2>1. y.member \in Person /\ y.since \in Nat
    BY <1>1, InHand
  <2> QED
    BY <1>1, <2>1, StaysUpToDate DEF SessionsKnow
<1>5. ASSUME NEW t \in Used' PROVE UpToDate(token[t])'
  <2>1. PICK x : x = token'[t]
    OBVIOUS
  <2>2. PICK y : /\ UpToDate(y)' /\ x.member = y.member /\ x.pw = y.pw /\ x.since = y.since
    BY <1>1, <1>3, <1>4, <2>1, SessionsStem
  <2>3. UpToDate(x)'
    BY <2>2, SameMemoryNext
  <2> QED
    BY <2>1, <2>3 DEF UpToDate
<1>6. ASSUME NEW q \in Request, doing'[q].step = "issue" PROVE UpToDate(doing[q])'
  <2>1. PICK o : o = doing'[q]
    OBVIOUS
  <2>2. CASE /\ UNCHANGED <<person, cuts>> /\ o.member \in Person /\ person[o.member].known
             /\ o.pw = person[o.member].pw /\ o.since = cuts[o.member]
    <3>1. cuts[o.member] \in Nat
      BY <1>1, <2>2 DEF Typed
    <3>2. UpToDate(o)'
      BY <2>2, <3>1 DEF UpToDate
    <3> QED
      BY <2>1, <3>2 DEF UpToDate
  <2>3. CASE ~(/\ UNCHANGED <<person, cuts>> /\ o.member \in Person /\ person[o.member].known
               /\ o.pw = person[o.member].pw /\ o.since = cuts[o.member])
    <3>1. PICK y : /\ UpToDate(y)' /\ o.member = y.member /\ o.pw = y.pw /\ o.since = y.since
      BY <1>1, <1>3, <1>4, <1>6, <2>1, <2>3, OpeningsStem
    <3>2. UpToDate(o)'
      BY <3>1, SameMemoryNext
    <3> QED
      BY <2>1, <3>2 DEF UpToDate
  <2> QED
    BY <2>2, <2>3
<1>7. ASSUME NEW t \in Live' PROVE token'[t].born = cuts'[token'[t].member]
  <2>1. t \in Used' /\ token'[t].live
    BY <1>7, LiveAreUsed DEF Live, Used, NoToken
  <2>2. CASE \E r \in Request : /\ token'[t].member = doing[r].member
                                /\ token'[t].born = cuts[doing[r].member] /\ cuts' = cuts
    BY <2>2
  <2>3. CASE /\ t \in Used /\ token'[t].member = token[t].member
             /\ token'[t].born = token[t].born
             /\ t \in Live' => t \in Live
    <3>0. t \in Used /\ token'[t].member = token[t].member /\ token'[t].born = token[t].born
      BY <2>3
    <3>1. t \in Live /\ token[t].member \in Person
      <4>1. t \in Live
        BY <1>7, <2>3
      <4>2. token[t].member \in Person
        BY <1>1, <3>0 DEF BackofficeTypeOK
      <4> QED
        BY <4>1, <4>2
    <3>2. token[t].born = cuts[token[t].member]
      BY <1>1, <3>1 DEF SessionsKnow
    <3>3. CASE cuts' = cuts
      BY <3>0, <3>2, <3>3
    <3>4. ASSUME NEW r \in Request, RevokeAll(r)
          PROVE  cuts'[token[t].member] = cuts[token[t].member]
      <4>1. token' = [u \in Token |-> IF u \in Live /\ token[u].member = doing[r].member
                                      THEN [token[u] EXCEPT !.live = FALSE] ELSE token[u]]
        BY <3>4 DEF RevokeAll
      <4>2. token[t].member # doing[r].member
        <5>1. SUFFICES ASSUME token[t].member = doing[r].member PROVE FALSE
          OBVIOUS
        <5>2. t \in Token /\ token'[t] = [token[t] EXCEPT !.live = FALSE]
          BY <3>1, <4>1, <5>1 DEF Live
        <5>3. token[t] \in Session
          BY <1>1, <2>3 DEF Used, Typed
        <5> QED
          BY <2>1, <5>2, <5>3 DEF Session
      <4>3. cuts' = [cuts EXCEPT ![doing[r].member] = @ + 1]
        BY <3>4 DEF RevokeAll
      <4> QED
        BY <1>1, <3>1, <4>2, <4>3 DEF Typed
    <3>5. cuts' = cuts \/ \E r \in Request : RevokeAll(r)
      BY <1>1, StepsOfTheOffice, MovesByStep DEF Die, backofficeVars, history
    <3> QED
      BY <3>0, <3>2, <3>3, <3>4, <3>5
  <2> QED
    BY <1>1, <2>1, <2>2, <2>3, SessionsStem
<1> QED
  BY <1>5, <1>6, <1>7 DEF SessionsKnow

-----------------------------------------------------------------------------

\* A step that gives nothing.
LEMMA NothingGiven ==
    ASSUME BackofficeTypeOK, Typed, Permitted, UNCHANGED given, calls' \in Nat, calls <= calls',
           \A p \in Member : person'[p].rows = person[p].rows,
           Giving' \subseteq Giving, \A q \in Giving' : doing'[q] = doing[q]
    PROVE  Permitted'
<1>1. Writing' \subseteq Writing /\ Writing \subseteq Giving /\ Writing' \subseteq Giving'
  BY DEF Writing, Giving
<1>2. /\ \A r \in Giving : doing[r].call \in Nat /\ doing[r].member \in Member
      /\ \A p \in Person : \A x \in given[p] : x.call \in Nat
      /\ \A r \in Writing : \A x \in doing[r].began : x.call \in Nat
      /\ calls \in Nat
  BY InHand DEF Giving, Writing, Typed, Gift, BackofficeTypeOK
<1>3. Numbers'
  BY <1>1, <1>2 DEF Permitted, Numbers
<1>4. WritersSaw'
  BY <1>1, <1>2 DEF Permitted, WritersSaw
<1>5. GiftsFinite' /\ PermissionsAsGiven'
  BY DEF Permitted, GiftsFinite, PermissionsAsGiven
<1> QED
  BY <1>3, <1>4, <1>5 DEF Permitted

\* Invitations and updates of permissions take a number of their own.
LEMMA BeginGivingStep ==
    ASSUME OfficeInv, NEW r \in Request, NEW p \in Member, NEW g \in Grid,
           Invite(r, p, g) \/ UpdatePermissions(r, p, g)
    PROVE  Permitted'
<1>1. BackofficeTypeOK /\ Typed /\ Permitted
  BY DEF OfficeInv
<1>2. /\ doing[r] = Idle /\ calls \in Nat /\ calls' = calls + 1
      /\ UNCHANGED <<person, given>>
  BY <1>1, BeginCounts DEF Invite, UpdatePermissions, BackofficeTypeOK, history
<1>3. PICK o : /\ o.step \in {"create", "replace"} /\ o.call = calls' /\ o.member = p
              /\ doing' = [doing EXCEPT ![r] = o]
  <2>1. PICK st \in {"create", "replace"} :
          Becomes(r, [step |-> st, member |-> p, grid |-> g, call |-> calls'])
    BY DEF Invite, UpdatePermissions
  <2> QED
    BY <2>1 DEF Becomes
<1>4. doing'[r] = o /\ \A q \in Request \ {r} : doing'[q] = doing[q]
  BY <1>1, <1>3 DEF Typed
<1>5. Giving' = Giving \cup {r} /\ r \notin Giving /\ Writing' = Writing /\ r \notin Writing
  BY <1>2, <1>3, <1>4, IdleIsDoing DEF Giving, Writing
<1>6. /\ \A q \in Giving : doing[q].call \in Nat
      /\ \A u \in Person : \A x \in given[u] : x.call \in Nat
      /\ \A q \in Writing : \A x \in doing[q].began : x.call \in Nat
      /\ \A q \in Giving : doing'[q] = doing[q]
      /\ \A q \in Writing : doing'[q] = doing[q]
      /\ Giving \subseteq Request
  BY <1>1, <1>4, <1>5, InHand DEF Giving, Writing, Typed, Gift
<1>7. Numbers'
  <2>1. \A q \in Giving' : doing'[q].call <= calls'
    BY <1>1, <1>2, <1>3, <1>4, <1>5, <1>6 DEF Permitted, Numbers
  <2>2. \A q, t \in Giving' : doing'[q].call = doing'[t].call => q = t
    BY <1>1, <1>2, <1>3, <1>4, <1>5, <1>6 DEF Permitted, Numbers
  <2>3. \A u \in Person : \A x \in given'[u] :
          x.call <= calls' /\ \A q \in Giving' : doing'[q].call # x.call
    BY <1>1, <1>2, <1>3, <1>4, <1>5, <1>6 DEF Permitted, Numbers
  <2>4. \A t \in Writing' : \A x \in doing'[t].began :
          x.call <= calls' /\ \A q \in Giving' : doing'[q].call # x.call
    BY <1>1, <1>2, <1>3, <1>4, <1>5, <1>6 DEF Permitted, Numbers
  <2> QED
    BY <2>1, <2>2, <2>3, <2>4 DEF Numbers
<1>8. WritersSaw' /\ GiftsFinite' /\ PermissionsAsGiven'
  BY <1>1, <1>2, <1>5, <1>6 DEF Permitted, WritersSaw, GiftsFinite, PermissionsAsGiven
<1> QED
  BY <1>7, <1>8 DEF Permitted

\* The deletion sees the rows, and which gifts they are.
LEMMA ReplaceDeleteStep ==
    ASSUME OfficeInv, NEW r \in Request, ReplaceDelete(r)
    PROVE  Permitted'
<1>1. BackofficeTypeOK /\ Typed /\ Permitted
  BY DEF OfficeInv
<1>2. PICK p \in Member : p = doing[r].member /\ r \in Giving /\ r \notin Writing
  BY <1>1, InHand DEF ReplaceDelete, At, Giving, Writing
<1>3. UNCHANGED <<person, calls, given>>
  BY DEF ReplaceDelete, history
<1>4. PICK o : /\ o = [step |-> "write", member |-> p, grid |-> doing[r].grid, call |-> doing[r].call,
                      seen |-> person[p].rows, began |-> given[p]]
              /\ doing' = [doing EXCEPT ![r] = o]
  BY <1>2 DEF ReplaceDelete, Becomes
<1>5. doing'[r] = o /\ \A q \in Request \ {r} : doing'[q] = doing[q]
  BY <1>1, <1>4 DEF Typed
<1>6. Giving' = Giving /\ Writing' = Writing \cup {r}
  BY <1>2, <1>4, <1>5 DEF Giving, Writing
<1>7. /\ \A q \in Giving : doing'[q].call = doing[q].call
      /\ \A q \in Writing : doing'[q] = doing[q]
      /\ p \in Person
  BY <1>2, <1>4, <1>5 DEF Giving, Writing, Person
<1>8. Numbers'
  <2>1. \A t \in Writing' : \A x \in doing'[t].began :
          x.call <= calls' /\ \A q \in Giving' : doing'[q].call # x.call
    <3>1. ASSUME NEW x \in given[p]
          PROVE  x.call <= calls' /\ \A q \in Giving' : doing'[q].call # x.call
      BY <1>1, <1>3, <1>6, <1>7 DEF Permitted, Numbers
    <3> QED
      BY <1>1, <1>3, <1>4, <1>5, <1>6, <1>7, <3>1 DEF Permitted, Numbers
  <2> QED
    BY <1>1, <1>3, <1>6, <1>7, <2>1 DEF Permitted, Numbers
<1>9. WritersSaw'
  BY <1>1, <1>3, <1>4, <1>5, <1>6, <1>7 DEF Permitted, WritersSaw
<1>10. GiftsFinite' /\ PermissionsAsGiven'
  BY <1>1, <1>3 DEF Permitted, GiftsFinite, PermissionsAsGiven
<1> QED
  BY <1>8, <1>9, <1>10 DEF Permitted

\* An account is created: the same call goes on.
LEMMA CreateMemberStep ==
    ASSUME OfficeInv, NEW r \in Request, CreateMember(r)
    PROVE  Permitted'
<1>1. BackofficeTypeOK /\ Typed /\ Permitted
  BY DEF OfficeInv
<1>2. /\ UNCHANGED <<calls, given>> /\ calls \in Nat
      /\ \A p \in Member : person'[p].rows = person[p].rows
  <2>1. \A p \in Person : person[p] \in [known : BOOLEAN, pw : 0..MaxCalls, rows : SUBSET Row]
    BY <1>1 DEF BackofficeTypeOK
  <2>2. \A p \in Member : person'[p].rows = person[p].rows
    <3>1. CASE UNCHANGED person
      BY <3>1
    <3>2. CASE ~UNCHANGED person
      BY <1>1, <2>1, <3>2 DEF CreateMember, BackofficeTypeOK, Person
    <3> QED
      BY <3>1, <3>2
  <2> QED
    BY <1>1, <2>2 DEF CreateMember, history, BackofficeTypeOK
<1>3. CASE doing' = [doing EXCEPT ![r] = Idle]
  <2>1. doing'[r] = Idle /\ \A q \in Request \ {r} : doing'[q] = doing[q]
    BY <1>1, <1>3 DEF Typed
  <2>2. Giving' \subseteq Giving /\ \A q \in Giving' : doing'[q] = doing[q]
    BY <2>1, IdleIsDoing DEF Giving
  <2> QED
    BY <1>1, <1>2, <2>2, NothingGiven
<1>4. CASE doing' = [doing EXCEPT ![r] = [doing[r] EXCEPT !.step = "replace"]]
  <2>1. /\ doing[r] = [step |-> "create", member |-> doing[r].member, grid |-> doing[r].grid,
                       call |-> doing[r].call]
    BY <1>1, InHand DEF CreateMember, At
  <2>2. PICK o : /\ o = [step |-> "replace", member |-> doing[r].member, grid |-> doing[r].grid,
                         call |-> doing[r].call]
                /\ doing' = [doing EXCEPT ![r] = o]
    <3>1. [doing[r] EXCEPT !.step = "replace"] =
            [step |-> "replace", member |-> doing[r].member, grid |-> doing[r].grid,
             call |-> doing[r].call]
      BY <2>1
    <3> QED
      BY <1>4, <3>1
  <2>3. doing'[r] = o /\ \A q \in Request \ {r} : doing'[q] = doing[q]
    BY <1>1, <2>2 DEF Typed
  <2>4. Giving' = Giving /\ Writing' = Writing /\ r \notin Writing
    BY <2>1, <2>2, <2>3 DEF Giving, Writing
  <2>5. /\ \A q \in Giving : doing'[q].call = doing[q].call
        /\ \A q \in Writing : doing'[q] = doing[q]
    BY <2>1, <2>2, <2>3, <2>4 DEF Giving, Writing
  <2>6. \A q \in Writing : doing[q].member \in Member
    BY <1>1, InHand DEF Writing
  <2>7. Numbers'
    BY <1>1, <1>2, <2>4, <2>5 DEF Permitted, Numbers
  <2>8. WritersSaw'
    BY <1>1, <1>2, <2>4, <2>5, <2>6 DEF Permitted, WritersSaw
  <2>9. GiftsFinite' /\ PermissionsAsGiven'
    BY <1>1, <1>2 DEF Permitted, GiftsFinite, PermissionsAsGiven
  <2> QED
    BY <2>7, <2>8, <2>9 DEF Permitted
<1> QED
  BY <1>3, <1>4 DEF CreateMember, End, Becomes

\* The commit: what it deleted is what was given before, unless it overlapped a call.
LEMMA ReplaceCommitStep ==
    ASSUME OfficeInv, NEW r \in Request, ReplaceCommit(r)
    PROVE  Permitted'
<1>1. BackofficeTypeOK /\ Typed /\ Permitted
  BY DEF OfficeInv
<1>2. PICK o, p, kept, new :
        /\ o = doing[r] /\ p = o.member /\ p \in Member
        /\ kept = Kept(person[p].rows, o.seen) /\ new = RowsOf(o.grid, o.call)
  BY <1>1, InHand DEF ReplaceCommit, At
<1>3. /\ doing' = [doing EXCEPT ![r] = Idle] /\ o.step = "write" /\ UNCHANGED calls
      /\ calls \in Nat /\ p \in Person
  BY <1>1, <1>2 DEF ReplaceCommit, At, End, Becomes, BackofficeTypeOK, Person
<1>4. doing'[r] = Idle /\ \A q \in Request \ {r} : doing'[q] = doing[q]
  BY <1>1, <1>3 DEF Typed
<1>5. /\ r \in Writing /\ r \in Giving /\ Giving' = Giving \ {r} /\ Writing' = Writing \ {r}
      /\ \A q \in Giving' : doing'[q] = doing[q]
      /\ \A q \in Writing' : doing'[q] = doing[q] /\ doing[q].member \in Member
      /\ Writing \subseteq Giving
  BY <1>1, <1>2, <1>3, <1>4, IdleIsDoing, InHand DEF Giving, Writing
<1>6. CASE Clash(kept, new)
  <2>1. UNCHANGED <<person, given>>
    BY <1>2, <1>6 DEF ReplaceCommit
  <2> QED
    BY <1>1, <1>3, <1>5, <2>1, NothingGiven
<1>7. CASE ~Clash(kept, new)
  <2>1. PICK x, base :
          /\ x = [grid |-> o.grid, call |-> o.call]
          /\ base = IF given[p] = o.began THEN {} ELSE given[p]
          /\ given' = [given EXCEPT ![p] = base \cup {x}]
          /\ person' = [person EXCEPT ![p].rows = kept \cup new]
    BY <1>2, <1>7 DEF ReplaceCommit
  <2>2. /\ person'[p].rows = kept \cup new
        /\ \A u \in Member \ {p} : person'[u].rows = person[u].rows
    BY <1>1, <1>3, <2>1 DEF BackofficeTypeOK, Person
  <2>3. /\ given'[p] = base \cup {x} /\ base \subseteq given[p]
        /\ \A u \in Person \ {p} : given'[u] = given[u]
    BY <1>1, <1>3, <2>1 DEF Typed
  <2>4. /\ x.call = doing[r].call /\ x.call <= calls
        /\ \A q \in Giving \ {r} : doing[q].call # x.call
        /\ \A y \in given[p] : y.call # x.call
        /\ \A q \in Writing : \A y \in doing[q].began : y.call # x.call
    BY <1>1, <1>2, <1>3, <1>5, <2>1 DEF Permitted, Numbers
  <2>5. Numbers'
    <3>1. \A u \in Person : \A y \in given'[u] : y \in given[u] \/ (y = x /\ u = p)
      BY <2>3
    <3>2. \A u \in Person : \A y \in given'[u] :
            y.call <= calls' /\ \A q \in Giving' : doing'[q].call # y.call
      BY <1>1, <1>3, <1>5, <2>4, <3>1 DEF Permitted, Numbers
    <3> QED
      BY <1>1, <1>3, <1>5, <3>2 DEF Permitted, Numbers
  <2>6. WritersSaw'
    <3> SUFFICES ASSUME NEW q \in Writing'
                 PROVE  /\ doing'[q].began = given'[doing'[q].member] =>
                              doing'[q].seen = person'[doing'[q].member].rows
                        /\ given'[doing'[q].member] = {} => doing'[q].began = {}
      BY DEF WritersSaw
    <3>1. /\ doing'[q] = doing[q] /\ q \in Writing /\ doing[q].member \in Member
          /\ doing[q].member \in Person
      BY <1>5 DEF Person
    <3>2. CASE doing[q].member = p
      <4>1. x \in given'[p] /\ x \notin doing[q].began
        BY <2>3, <2>4, <3>1
      <4> QED
        BY <3>1, <3>2, <4>1
    <3>3. CASE doing[q].member # p
      <4>1. /\ given'[doing[q].member] = given[doing[q].member]
            /\ person'[doing[q].member].rows = person[doing[q].member].rows
        BY <2>2, <2>3, <3>1, <3>3
      <4> QED
        BY <1>1, <3>1, <4>1 DEF Permitted, WritersSaw
    <3> QED
      BY <3>2, <3>3
  <2>7. GiftsFinite'
    <3> SUFFICES ASSUME NEW u \in Person PROVE IsFiniteSet(given'[u])
      BY DEF GiftsFinite
    <3>1. IsFiniteSet(given[u])
      BY <1>1 DEF Permitted, GiftsFinite
    <3>2. CASE u = p
      BY <2>3, <3>1, <3>2, FS_Subset, FS_AddElement
    <3>3. CASE u # p
      BY <2>3, <3>1, <3>3
    <3> QED
      BY <3>2, <3>3
  <2>8. PermissionsAsGiven'
    <3> DEFINE All(S) == UNION {RowsOf(y.grid, y.call) : y \in S}
    <3>1. \A u \in Member : /\ person[u].rows \subseteq All(given[u])
                            /\ Cardinality(given[u]) = 1 => person[u].rows = All(given[u])
      BY <1>1 DEF Permitted, PermissionsAsGiven
    <3>2. All(base \cup {x}) = All(base) \cup new
      BY <1>2, <2>1
    <3>3. person'[p].rows \subseteq All(given'[p])
      <4>1. kept \subseteq All(base)
        <5>1. CASE given[p] = o.began
          <6>1. o.seen = person[p].rows
            BY <1>1, <1>2, <1>5, <5>1 DEF Permitted, WritersSaw
          <6> QED
            BY <1>2, <6>1 DEF Kept
        <5>2. CASE given[p] # o.began
          BY <1>2, <2>1, <3>1, <5>2 DEF Kept
        <5> QED
          BY <5>1, <5>2
      <4> QED
        BY <2>2, <2>3, <3>2, <4>1
    <3>4. ASSUME Cardinality(given'[p]) = 1 PROVE person'[p].rows = All(given'[p])
      <4>1. PICK z : given'[p] = {z}
        BY <1>3, <2>7, <3>4, FS_Singleton DEF GiftsFinite
      <4>2. base = {}
        <5>1. x \notin given[p]
          BY <2>4
        <5>2. given'[p] = {x} /\ x \notin base
          BY <2>3, <4>1, <5>1
        <5> QED
          BY <2>3, <5>2
      <4>3. new = All(given'[p])
        BY <2>3, <3>2, <4>2
      <4> QED
        BY <2>2, <3>3, <4>3
    <3>5. \A u \in Member \ {p} : given'[u] = given[u] /\ person'[u].rows = person[u].rows
      BY <2>2, <2>3 DEF Person
    <3>6. ASSUME NEW u \in Member
          PROVE  /\ person'[u].rows \subseteq All(given'[u])
                 /\ Cardinality(given'[u]) = 1 => person'[u].rows = All(given'[u])
      BY <3>1, <3>3, <3>4, <3>5
    <3> QED
      BY <3>6 DEF PermissionsAsGiven
  <2> QED
    BY <2>5, <2>6, <2>7, <2>8 DEF Permitted
<1> QED
  BY <1>6, <1>7

\* Every step keeps what the permissions rest on.
LEMMA PermittedStep ==
    ASSUME OfficeInv, [BackofficeNext]_backofficeVars
    PROVE  Permitted'
<1>1. BackofficeTypeOK /\ Typed /\ Permitted /\ calls \in Nat /\ calls' \in Nat
  BY OfficeTypesStep DEF OfficeInv, BackofficeTypeOK
<1>2. CASE UNCHANGED backofficeVars
  <2>1. Giving' = Giving /\ UNCHANGED <<given, doing, calls, person>>
    BY <1>2 DEF backofficeVars, history, Giving
  <2> QED
    BY <1>1, <2>1, NothingGiven
<1>3. ASSUME NEW r \in Request,
             \/ \E t \in Token : Refresh(r, t) \/ Logout(r, t)
             \/ \E p \in Person, d \in Device : Login(r, p, d)
             \/ \E p \in Person : SetPassword(r, p)
             \/ Rotate(r) \/ RevokeRefreshToken(r) \/ RevokeAll(r) \/ IssueTokens(r)
             \/ UpdatePassword(r) \/ Seed(r) \/ SeedDelete(r) \/ SeedCreate(r)
             \/ Die(r) \/ Leaving(r)
      PROVE  Permitted'
  <2>1. UNCHANGED given
    BY <1>3 DEF Refresh, Logout, Login, SetPassword, Rotate, RevokeRefreshToken, RevokeAll,
                IssueTokens, UpdatePassword, Seed, SeedDelete, SeedCreate, Die, Leaving,
                LogoutDevices, history
  <2>2. calls <= calls'
    <3>1. calls' = calls \/ Begin(r)
      BY <1>3 DEF Refresh, Logout, Login, SetPassword, Rotate, RevokeRefreshToken, RevokeAll,
                  IssueTokens, UpdatePassword, Seed, SeedDelete, SeedCreate, Die, Leaving,
                  LogoutDevices
    <3> QED
      BY <1>1, <3>1 DEF Begin
  <2>3. \A p \in Member : person'[p].rows = person[p].rows
    <3>1. \/ UNCHANGED person
          \/ \E q, v : person' = [person EXCEPT ![q].pw = v]
          \/ \E v : person' = [person EXCEPT ![Owner].rows = v]
      BY <1>3 DEF Refresh, Logout, Login, SetPassword, Rotate, RevokeRefreshToken, RevokeAll,
                  IssueTokens, UpdatePassword, Seed, SeedDelete, SeedCreate, Die, Leaving,
                  LogoutDevices
    <3>2. \A p \in Member : p \in Person /\ p # Owner
      BY BackofficeAssumption DEF Person
    <3>3. /\ person \in [Person -> [known : BOOLEAN, pw : 0..MaxCalls, rows : SUBSET Row]]
          /\ \A q \in Person : person[q] \in [known : BOOLEAN, pw : 0..MaxCalls, rows : SUBSET Row]
      BY <1>1 DEF BackofficeTypeOK
    <3> QED
      BY <3>1, <3>2, <3>3
  <2>4. Giving' \subseteq Giving /\ \A q \in Giving' : doing'[q] = doing[q]
    <3>1. \/ UNCHANGED doing
          \/ \E o : /\ Becomes(r, o) /\ o.step \notin {"create", "replace", "write"}
      <4>1. ASSUME NEW t \in Token, Refresh(r, t) \/ Logout(r, t)
            PROVE  \E o : Becomes(r, o) /\ o.step \notin {"create", "replace", "write"}
        <5>1. PICK st \in {"rotate", "revoke"} : Becomes(r, [step |-> st, t |-> t])
          BY <4>1 DEF Refresh, Logout
        <5> QED
          BY <5>1
      <4>2. ASSUME NEW p \in Person, SetPassword(r, p) \/ \E d \in Device : Login(r, p, d)
            PROVE  \E o : Becomes(r, o) /\ o.step \notin {"create", "replace", "write"}
        <5>1. CASE SetPassword(r, p)
          BY <5>1 DEF SetPassword
        <5>2. ASSUME NEW d \in Device, Login(r, p, d)
              PROVE  \E o : Becomes(r, o) /\ o.step \notin {"create", "replace", "write"}
          BY <5>2 DEF Login
        <5> QED
          BY <4>2, <5>1, <5>2
      <4>3. ASSUME \/ Rotate(r) \/ RevokeRefreshToken(r) \/ RevokeAll(r) \/ IssueTokens(r)
                   \/ UpdatePassword(r) \/ Seed(r) \/ SeedCreate(r) \/ Die(r)
            PROVE  \E o : Becomes(r, o) /\ o.step \notin {"create", "replace", "write"}
        BY <4>3, IdleIsDoing DEF Rotate, RevokeRefreshToken, RevokeAll, IssueTokens, UpdatePassword,
                                 Seed, SeedCreate, Die, End
      <4>4. ASSUME SeedDelete(r)
            PROVE  \E o : Becomes(r, o) /\ o.step \notin {"create", "replace", "write"}
        <5>1. [doing[r] EXCEPT !.step = "fill"].step = "fill"
          BY <1>1, <4>4, InHand DEF SeedDelete, At
        <5> QED
          BY <4>4, <5>1 DEF SeedDelete
      <4>5. ASSUME Leaving(r) PROVE UNCHANGED doing
        BY <4>5 DEF Leaving, LogoutDevices
      <4> QED
        BY <1>3, <4>1, <4>2, <4>3, <4>4, <4>5
    <3>2. ASSUME NEW o, Becomes(r, o), o.step \notin {"create", "replace", "write"}
          PROVE  Giving' \subseteq Giving /\ \A q \in Giving' : doing'[q] = doing[q]
      <4>1. doing'[r] = o /\ \A q \in Request \ {r} : doing'[q] = doing[q]
        BY <1>1, <3>2 DEF Becomes, Typed
      <4> QED
        BY <3>2, <4>1 DEF Giving
    <3> QED
      BY <3>1, <3>2 DEF Giving
  <2> QED
    BY <1>1, <2>1, <2>2, <2>3, <2>4, NothingGiven
<1>4. ASSUME NEW r \in Request, NEW p \in Person, NEW g \in Grid,
             UpdatePermissions(r, p, g) \/ (p \in Member /\ Invite(r, p, g))
      PROVE  Permitted'
  BY <1>4, BeginGivingStep DEF UpdatePermissions, Person
<1>5. Member \subseteq Person
  BY DEF Person
<1>6. CASE BackofficeNext
  BY <1>3, <1>4, <1>5, <1>6, CreateMemberStep, ReplaceDeleteStep, ReplaceCommitStep, StepsOfTheOffice
    DEF Beginning
<1> QED
  BY <1>2, <1>6

LEMMA OfficeInvInit == BackofficeInit => OfficeInv
<1> SUFFICES ASSUME BackofficeInit PROVE OfficeInv
  OBVIOUS
<1>1. Used = {} /\ Live = {} /\ \A r \in Request : doing[r] = Idle
  BY DEF BackofficeInit, Used, Live, NoToken
<1>2. TokensTyped
  <2>1. Used = 1..Cardinality(Used)
    BY <1>1, FS_EmptySet
  <2> QED
    BY <1>1, <2>1 DEF BackofficeInit, TokensTyped
<1>3. PeopleTyped
  <2>1. 0 \in 0..MaxCalls /\ Full \in [Module -> Level \cup {"none"}]
    BY BackofficeAssumption DEF Full, Level
  <2>2. RowsOf(Full, 0) \subseteq Row /\ \A a, b \in RowsOf(Full, 0) : a[1] = b[1] => a = b
    BY <2>1, RowsFit
  <2>3. \A p \in Person : person[p] = [known |-> p = Owner, pw |-> 0,
                                       rows |-> IF p = Owner THEN RowsOf(Full, 0) ELSE {}]
    BY DEF BackofficeInit
  <2>4. \A p \in Person : (p = Owner) \in BOOLEAN
    OBVIOUS
  <2>5. person \in [Person -> [known : BOOLEAN, pw : 0..MaxCalls, rows : SUBSET Row]]
    <3>1. \A p \in Person :
            [known |-> p = Owner, pw |-> 0, rows |-> IF p = Owner THEN RowsOf(Full, 0) ELSE {}]
              \in [known : BOOLEAN, pw : 0..MaxCalls, rows : SUBSET Row]
      BY <2>1, <2>2, <2>4
    <3> QED
      BY <3>1 DEF BackofficeInit
  <2>6. \A p \in Person : person[p].rows = IF p = Owner THEN RowsOf(Full, 0) ELSE {}
    <3> SUFFICES ASSUME NEW p \in Person
                 PROVE  person[p].rows = IF p = Owner THEN RowsOf(Full, 0) ELSE {}
      OBVIOUS
    <3>1. CASE p = Owner
      <4>1. person[p] = [known |-> TRUE, pw |-> 0, rows |-> RowsOf(Full, 0)]
        BY <2>3, <3>1
      <4> QED
        BY <3>1, <4>1
    <3>2. CASE p # Owner
      <4>1. person[p] = [known |-> FALSE, pw |-> 0, rows |-> {}]
        BY <2>3, <3>2
      <4> QED
        BY <3>2, <4>1
    <3> QED
      BY <3>1, <3>2
  <2> QED
    BY <2>2, <2>5, <2>6 DEF PeopleTyped
<1>4. HistoryTyped /\ calls \in 0..MaxCalls
  BY BackofficeAssumption DEF BackofficeInit, HistoryTyped
<1>5. RequestsTyped
  BY <1>1, IdleIsDoing DEF BackofficeInit, RequestsTyped, Referred
<1>6. OneAtATime
  BY <1>1 DEF OneAtATime
<1>7. SessionsKnow
  BY <1>1, IdleIsDoing DEF SessionsKnow
<1>8. Permitted
  <2>1. Giving = {} /\ Writing = {}
    BY <1>1, IdleIsDoing DEF Giving, Writing
  <2>2. Numbers /\ WritersSaw
    BY <2>1 DEF Numbers, WritersSaw, BackofficeInit
  <2>3. GiftsFinite
    BY FS_EmptySet DEF GiftsFinite, BackofficeInit
  <2>4. PermissionsAsGiven
    <3> SUFFICES ASSUME NEW p \in Member
                 PROVE  person[p].rows = {} /\ given[p] = {} /\ Cardinality({}) # 1
      BY DEF PermissionsAsGiven
    <3>1. p \in Person /\ p # Owner
      BY BackofficeAssumption DEF Person
    <3> QED
      BY <3>1, FS_EmptySet DEF BackofficeInit
  <2> QED
    BY <2>2, <2>3, <2>4 DEF Permitted
<1> QED
  BY <1>2, <1>3, <1>4, <1>5, <1>6, <1>7, <1>8, TypesAreParts DEF OfficeInv

LEMMA OfficeInvNext == OfficeInv /\ [BackofficeNext]_backofficeVars => OfficeInv'
BY OfficeTypesStep, OneAtATimeStep, SessionsKnowStep, PermittedStep DEF OfficeInv

\* The types, the sessions of each login and those of each password, and what the
\* writers of permissions saw, hold together.
THEOREM OfficeInvariant == BackofficeSpec => []OfficeInv
BY OfficeInvInit, OfficeInvNext, PTL DEF BackofficeSpec

\* A login has one live session at a time, however its sessions are refreshed, ended
\* and rotated by any number of overlapping requests: one more for each refresh that
\* found its session ended (adminAuth.service.ts, refresh).
THEOREM LoginsKeepOneSession == BackofficeSpec => []OneSessionPerLogin
<1>1. OfficeInv => OneSessionPerLogin
  <2> SUFFICES ASSUME OfficeInv, NEW x \in Used
               PROVE  Cardinality({t \in Live : token[t].root = x}) <= 1 + doubled[x]
    BY DEF OneSessionPerLogin
  <2>1. Cardinality(LiveFrom(x)) + Cardinality(OpeningOf(x)) <= 1 + doubled[x]
    BY DEF OfficeInv, OneAtATime
  <2>2. doubled[x] \in Nat
    BY DEF OfficeInv, Typed, Used
  <2>3. Cardinality(LiveFrom(x)) <= 1 + doubled[x]
    BY <2>1, <2>2, Countable
  <2> QED
    BY <2>3 DEF LiveFrom
<1> QED
  BY <1>1, OfficeInvariant, PTL

\* A new password ends the sessions of the old one: whoever changes it, whatever
\* dies in between (the change counts as under way until the sessions are revoked).
THEOREM NewPasswordEndsSessions == BackofficeSpec => []ChangeEndsSessions
<1>1. OfficeInv => ChangeEndsSessions
  BY LiveAreUsed DEF OfficeInv, SessionsKnow, UpToDate, ChangeEndsSessions
<1> QED
  BY <1>1, OfficeInvariant, PTL

\* However many calls that replace the permissions of a member overlap, fail or die:
\* he has what the last one gave, and beside it only what those that overlapped gave.
THEOREM PermissionsAreGiven == BackofficeSpec => []PermissionsAsGiven
<1>1. OfficeInv => PermissionsAsGiven
  BY DEF OfficeInv, Permitted
<1> QED
  BY <1>1, OfficeInvariant, PTL
=============================================================================
