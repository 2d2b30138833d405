------------------------------- MODULE Payments -------------------------------
(***************************************************************************)
(* Payments of one account: modules/billing/billing.service.ts and the two *)
(* webhooks.  A payment is a `pending` Transaction and a checkout session  *)
(* at a provider; the provider calls the webhook back, as often as it      *)
(* likes and several times at once; the webhook applies the effect.        *)
(*                                                                         *)
(* A pack of gems, a refill of hearts and the repair of a broken streak    *)
(* are applied in one transaction each.  A subscription is a sequence of   *)
(* separate writes: the personal end date, the effective one               *)
(* (recomputePremium), then the status, with a refill of hearts.  Gems are *)
(* spent under the user's row lock (modules/gems/gem.service.ts).          *)
(*                                                                         *)
(* Dates count the months sold; nothing expires within the model.          *)
(***************************************************************************)
EXTENDS Integers, FiniteSets

CONSTANTS GemPayment,      \* payments of type gem_pack
          PremiumPayment,  \* payments of type premium_subscription, monthly, personal
          HeartPayment,    \* payments of type heart_pack
          RepairPayment,   \* payments of type streak_repair
          MaxPayments,     \* bound on the payments
          Delivery,        \* webhook calls in progress
          PackGems, Cost,  \* gems of a pack, price of a sink
          MaxSpends,       \* bound on the purchases made with gems
          MaxCrashes,      \* bound on the webhook calls that die
          MaxMonths        \* bound on the months sold

OneShot == HeartPayment \cup RepairPayment
Payment == GemPayment \cup PremiumPayment \cup OneShot

ASSUME PaymentsAssumption ==
    /\ GemPayment \cap PremiumPayment = {} /\ HeartPayment \cap RepairPayment = {}
    /\ OneShot \cap (GemPayment \cup PremiumPayment) = {}
    /\ MaxPayments \in Nat
    /\ PackGems \in Nat \ {0} /\ Cost \in Nat \ {0}
    /\ MaxSpends \in Nat /\ MaxCrashes \in Nat /\ MaxMonths \in Nat

VARIABLES
    statut,        \* Transaction.statut, "absent" before its creation
    session,       \* the checkout session at the provider
    gems,          \* User.gems
    ledger,        \* the ledger rows pack_purchase: <<ref, number of the row>>
    spends,        \* ledger rows of sinks
    personalUntil, \* User.personalPremiumUntil
    premiumUntil,  \* User.premiumUntil, the effective one
    extended,      \* extended[p]: times p has extended personalUntil
    full,          \* User.hearts = MAX_HEARTS
    broken,        \* User.lastStreakValue > 0: there is a streak to repair
    applied,       \* applied[p]: times the one-shot payment p took effect
    op,            \* op[d]: what the webhook call d is doing and what it has read
    crashes

txVars   == <<statut, session>>
gemVars  == <<gems, ledger, spends>>
premVars == <<personalUntil, premiumUntil, extended>>
rowVars  == <<full, broken, applied>>
vars     == <<txVars, gemVars, premVars, rowVars, op, crashes>>

Month == 0..MaxMonths
NoOp  == [step |-> "none"]
Ops ==
    {NoOp}
    \cup [step : {"credit"}, p : GemPayment]
    \cup [step : {"refill", "repair"}, p : OneShot]
    \cup [step : {"extend"}, p : PremiumPayment, until : Month]
    \cup [step : {"recompute", "close"}, p : PremiumPayment]
    \cup [step : {"effective"}, p : PremiumPayment, until : Month]

TypeOK ==
    /\ statut \in [Payment -> {"absent", "pending", "success", "failed"}]
    /\ session \in [Payment -> {"none", "open", "paid", "expired"}]
    /\ gems \in Nat
    /\ ledger \subseteq GemPayment \X Nat
    /\ spends \in 0..MaxSpends
    /\ personalUntil \in Month
    /\ premiumUntil \in Month
    /\ extended \in [PremiumPayment -> Nat]
    /\ full \in BOOLEAN /\ broken \in BOOLEAN
    /\ applied \in [OneShot -> Nat]
    /\ op \in [Delivery -> Ops]
    /\ crashes \in 0..MaxCrashes

Init ==
    /\ statut = [p \in Payment |-> "absent"]
    /\ session = [p \in Payment |-> "none"]
    /\ gems = 0
    /\ ledger = {}
    /\ spends = 0
    /\ personalUntil = 0
    /\ premiumUntil = 0
    /\ extended = [p \in PremiumPayment |-> 0]
    /\ full = TRUE /\ broken = FALSE
    /\ applied = [p \in OneShot |-> 0]
    /\ op = [d \in Delivery |-> NoOp]
    /\ crashes = 0

Goto(d, o) == op' = [op EXCEPT ![d] = o]

-----------------------------------------------------------------------------
(* The account's requests *)

\* startPayment writes the transaction, then asks the provider for a session;
\* if that fails the transaction stays pending for ever.
CreateTransaction(p) ==
    /\ statut[p] = "absent"
    /\ Cardinality({q \in Payment : statut[q] # "absent"}) < MaxPayments
    /\ statut' = [statut EXCEPT ![p] = "pending"]
    /\ UNCHANGED <<session, gemVars, premVars, rowVars, op, crashes>>

\* buyHearts refuses a user with unlimited or full hearts, repairStreak one with
\* nothing to repair.
Subscribe(p) == p \in PremiumPayment /\ CreateTransaction(p)
BuyGems(p)   == p \in GemPayment /\ CreateTransaction(p)
BuyHearts(p) == p \in HeartPayment /\ premiumUntil = 0 /\ ~full /\ CreateTransaction(p)
BuyRepair(p) == p \in RepairPayment /\ broken /\ CreateTransaction(p)

OpenSession(p) ==
    /\ statut[p] = "pending" /\ session[p] = "none"
    /\ session' = [session EXCEPT ![p] = "open"]
    /\ UNCHANGED <<statut, gemVars, premVars, rowVars, op, crashes>>

\* spendGems: a conditional decrement and its ledger row, in one transaction.
Spend ==
    /\ spends < MaxSpends
    /\ gems >= Cost
    /\ gems' = gems - Cost
    /\ spends' = spends + 1
    /\ UNCHANGED <<txVars, ledger, premVars, rowVars, op, crashes>>

\* Between the payments, the user plays: a heart is lost, a streak breaks.
Play ==
    /\ \/ full /\ full' = FALSE /\ UNCHANGED broken
       \/ ~broken /\ broken' = TRUE /\ UNCHANGED full
    /\ UNCHANGED <<txVars, gemVars, premVars, applied, op, crashes>>

-----------------------------------------------------------------------------
(* The provider *)

Settle(p, outcome) ==
    /\ session[p] = "open"
    /\ session' = [session EXCEPT ![p] = outcome]
    /\ UNCHANGED <<statut, gemVars, premVars, rowVars, op, crashes>>

-----------------------------------------------------------------------------
(* The webhook *)

FirstStep(p) ==
    CASE p \in GemPayment    -> [step |-> "credit", p |-> p]
      [] p \in HeartPayment  -> [step |-> "refill", p |-> p]
      [] p \in RepairPayment -> [step |-> "repair", p |-> p]
      [] OTHER               -> [step |-> "extend", p |-> p, until |-> personalUntil]

WebhookPaidFirst(d, p) ==   \* mutant: marked as done before it is
    /\ session[p] = "paid" /\ op[d] = NoOp /\ statut[p] = "pending"
    /\ statut' = [statut EXCEPT ![p] = "success"]
    /\ Goto(d, FirstStep(p))
    /\ UNCHANGED <<session, gemVars, premVars, rowVars, crashes>>

\* applyPaidTransaction goes on only if it finds the transaction pending; for a
\* subscription it also reads the user.
WebhookPaid(d, p) ==
    /\ session[p] = "paid"
    /\ op[d] = NoOp
    /\ statut[p] = "pending"
    /\ Goto(d, FirstStep(p))
    /\ UNCHANGED <<txVars, gemVars, premVars, rowVars, crashes>>

WebhookFailedLate(p) ==   \* mutant: a call that dies fails the payment
    /\ session[p] = "expired" \/ crashes > 0
    /\ statut[p] = "pending"
    /\ statut' = [statut EXCEPT ![p] = "failed"]
    /\ UNCHANGED <<session, gemVars, premVars, rowVars, op, crashes>>

\* markTransactionFailed writes only a pending transaction.
WebhookFailed(p) ==
    /\ session[p] = "expired"
    /\ statut[p] = "pending"
    /\ statut' = [statut EXCEPT ![p] = "failed"]
    /\ UNCHANGED <<session, gemVars, premVars, rowVars, op, crashes>>

CreditGemsUnlogged(d) ==   \* mutant: no ledger row
    /\ op[d].step = "credit"
    /\ gems' = gems + PackGems
    /\ statut' = [statut EXCEPT ![op[d].p] = "success"]
    /\ Goto(d, NoOp)
    /\ UNCHANGED <<session, ledger, spends, premVars, rowVars, crashes>>

\* One transaction, that does not look at the status again.
CreditGems(d) ==
    /\ op[d].step = "credit"
    /\ gems' = gems + PackGems
    /\ ledger' = ledger \cup {<<op[d].p, Cardinality(ledger)>>}
    /\ statut' = [statut EXCEPT ![op[d].p] = "success"]
    /\ Goto(d, NoOp)
    /\ UNCHANGED <<session, spends, premVars, rowVars, crashes>>

\* The refill and the repair, in one transaction with the status; a repair
\* writes zero as the streak to repair, whatever it read.
Effect(d) ==
    /\ op[d].step \in {"refill", "repair"}
    /\ full' = (full \/ op[d].step = "refill")
    /\ broken' = (broken /\ op[d].step # "repair")
    /\ applied' = [applied EXCEPT ![op[d].p] = @ + 1]
    /\ statut' = [statut EXCEPT ![op[d].p] = "success"]
    /\ Goto(d, NoOp)
    /\ UNCHANGED <<session, gemVars, premVars, crashes>>

\* The new end is computed from the one read before.
Extend(d) ==
    /\ op[d].step = "extend"
    /\ op[d].until < MaxMonths
    /\ personalUntil' = op[d].until + 1
    /\ extended' = [extended EXCEPT ![op[d].p] = @ + 1]
    /\ Goto(d, [step |-> "recompute", p |-> op[d].p])
    /\ UNCHANGED <<txVars, gemVars, premiumUntil, rowVars, crashes>>

\* recomputePremium reads, then writes.
RecomputeRead(d) ==
    /\ op[d].step = "recompute"
    /\ Goto(d, [step |-> "effective", p |-> op[d].p, until |-> personalUntil])
    /\ UNCHANGED <<txVars, gemVars, premVars, rowVars, crashes>>

RecomputeWrite(d) ==
    /\ op[d].step = "effective"
    /\ premiumUntil' = op[d].until
    /\ Goto(d, [step |-> "close", p |-> op[d].p])
    /\ UNCHANGED <<txVars, gemVars, personalUntil, extended, rowVars, crashes>>

Close(d) ==
    /\ op[d].step = "close"
    /\ full' = TRUE
    /\ statut' = [statut EXCEPT ![op[d].p] = "success"]
    /\ Goto(d, NoOp)
    /\ UNCHANGED <<session, gemVars, premVars, broken, applied, crashes>>

\* The call dies: what it had committed stays.
Crash(d) ==
    /\ op[d] # NoOp
    /\ crashes < MaxCrashes
    /\ crashes' = crashes + 1
    /\ Goto(d, NoOp)
    /\ UNCHANGED <<txVars, gemVars, premVars, rowVars>>

Apply(d) ==
    CreditGems(d) \/ Effect(d) \/ Extend(d) \/ RecomputeRead(d) \/ RecomputeWrite(d) \/ Close(d)

Next ==
    \/ \E p \in Payment :
          \/ Subscribe(p) \/ BuyGems(p) \/ BuyHearts(p) \/ BuyRepair(p)
          \/ OpenSession(p) \/ WebhookFailed(p)
          \/ \E o \in {"paid", "expired"} : Settle(p, o)
    \/ \E d \in Delivery, p \in Payment : WebhookPaid(d, p)
    \/ \E d \in Delivery : Apply(d) \/ Crash(d)
    \/ Spend \/ Play

Spec == Init /\ [][Next]_vars

\* A call that has started goes on unless it dies, MaxCrashes times at most: the
\* provider repeats a call that failed (up to five times).
Fairness ==
    /\ \A d \in Delivery : WF_vars(Apply(d))
    /\ \A p \in Payment : WF_vars(\E d \in Delivery : WebhookPaid(d, p))

FairSpec == Spec /\ Fairness

-----------------------------------------------------------------------------
(* Properties *)

\* The ledger rows of a payment.
LedgerRows(p) == {x \in ledger : x[1] = p}

\* The balance is what the ledger says, whatever calls repeat, overlap or die
\* half-way and whatever is spent meanwhile (gem.service.ts: no double spend).
BalanceIsLedger == gems = PackGems * Cardinality(ledger) - Cost * spends

\* A payment is marked as a success only once it has been served, and a pack of
\* gems, a refill or a repair is never given without being marked so, nor marked so
\* and then failed: a webhook that dies or a failure reported late leaves no payment
\* half-way.
SuccessMeansServed ==
    /\ \A p \in GemPayment : statut[p] = "success" <=> LedgerRows(p) # {}
    /\ \A p \in OneShot : statut[p] = "success" <=> applied[p] > 0
    /\ \A p \in PremiumPayment : statut[p] = "success" => extended[p] > 0

\* What the customer has paid is in the end served: a call that died is repeated.
PaidIsServed == \A p \in Payment : session[p] = "paid" ~> statut[p] = "success"

\* What the comment of applyPaidTransaction says: idempotent, a payment already
\* handled has no second effect.
ServedOnce ==
    /\ \A p \in GemPayment : Cardinality(LedgerRows(p)) <= 1
    /\ \A p \in OneShot : applied[p] <= 1
    /\ \A p \in PremiumPayment : extended[p] <= 1
=============================================================================
