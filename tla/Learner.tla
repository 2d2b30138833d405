-------------------------------- MODULE Learner --------------------------------
(***************************************************************************)
(* The row of a user: hearts (core/hearts.ts), streak (core/streak.ts),    *)
(* gems, freezes and boosts (modules/gems), lessons (modules/lessons),     *)
(* rewards, the referral programme, the synchronisation of GET /me and the *)
(* gifts of the back office.                                               *)
(*                                                                         *)
(* What runs in one transaction that begins by locking the row is one      *)
(* action.  The others read the row, compute, and write columns later:     *)
(* they are a Begin, which leaves in req[p] the row as read and the time   *)
(* of the request, then an action for each write.  Redeeming a code locks  *)
(* two rows one after the other: `lock' says which request holds a row.    *)
(* Time counts the regenerations of a heart; a day has DayTicks of them,   *)
(* and the time zone of a user does not change.  Every price is one gem;   *)
(* `paid' is the ledger, a bag that names what was rewarded.               *)
(***************************************************************************)
EXTENDS Integers, FiniteSets, Bags

CONSTANTS Users, Proc,
          Players,        \* the users who play; the others only redeem a code
          MaxHearts, MaxFreezes, DayTicks,
          ReviewPerDay,   \* REVIEW_HEARTS_PER_DAY
          RewardCap,      \* REFERRAL_MAX_REWARDED_REFERRALS
          Gift,           \* hearts of a referral or a grant
          Lessons,        \* 1..n in the order of the course
          MaxTime, MaxCalls   \* bounds

None == -1
ASSUME LearnerAssumption ==
    /\ Players \subseteq Users /\ IsFiniteSet(Users) /\ None \notin Users \cup Proc
    /\ {MaxHearts, MaxFreezes, DayTicks, ReviewPerDay, RewardCap, Gift} \subseteq Nat \ {0}
    /\ {MaxTime, MaxCalls} \subseteq Nat /\ Lessons \subseteq Nat

VARIABLES now, row, session, req, lock, paid, calls
vars == <<now, row, session, req, lock, paid, calls>>

-----------------------------------------------------------------------------
(* The row, and what is computed from it. *)

Time == 0..MaxTime
Row ==
    [hearts : 0..MaxHearts, anchor : Time \cup {None},
     streak : 0..MaxCalls + 1, frozen : BOOLEAN, last : 0..MaxCalls + 1, active : Time,
     freezes : 0..MaxFreezes, gems : 0..2*MaxCalls + 1, until : Time \cup {MaxTime + 1, None},
     boost : 0..MaxTime + 1, subscribed : BOOLEAN, code : 0..MaxCalls + 1,
     goal : 0..MaxCalls, chest : -1..MaxTime, reviewDay : -1..MaxTime, reviewUsed : 0..ReviewPerDay,
     referredBy : Users \cup {None}, done : SUBSET Lessons]

Day(t)        == t \div DayTicks
Least(a, b)   == IF a < b THEN a ELSE b
Most(a, b)    == IF a > b THEN a ELSE b
Premium(r, t) == r.until > t
Full          == [hearts |-> MaxHearts, anchor |-> None]
With(r, h)    == [r EXCEPT !.hearts = h.hearts, !.anchor = h.anchor]

\* The hearts of r at t; the anchor moves by whole intervals, and a row
\* without an anchor does not regenerate.
Regained(r, t) == IF r.anchor = None THEN 0 ELSE Most(0, t - r.anchor)
ComputeHearts(r, t) ==
    LET n == r.hearts + Regained(r, t)
    IN  IF Premium(r, t) \/ n >= MaxHearts THEN Full
        ELSE [hearts |-> n, anchor |-> IF Regained(r, t) = 0 THEN r.anchor ELSE t]
AddHearts(r, t, n) ==
    LET h == ComputeHearts(r, t)
    IN  IF h.hearts + n >= MaxHearts THEN Full ELSE [h EXCEPT !.hearts = @ + n]
Playable(r, t) == Premium(r, t) \/ ComputeHearts(r, t).hearts > 0

\* The streak of r after the days missed up to t: the first is free, each
\* other one takes a freeze, and one too few breaks it.
Missed(r, t) == Day(t) - Day(r.active)
Stock(r, t)  == IF Premium(r, t) THEN MaxTime ELSE r.freezes
Needed(r, t) == Most(0, Missed(r, t) - 1)
Spared(r, t) == IF ~Premium(r, t) /\ r.streak > 0 /\ Needed(r, t) <= r.freezes THEN Needed(r, t) ELSE 0
SettleStreak(r, t) ==
    IF r.streak = 0 THEN r
    ELSE CASE Missed(r, t) <= 0 -> [r EXCEPT !.frozen = FALSE]
           [] Missed(r, t) = 1  -> [r EXCEPT !.frozen = TRUE]
           [] Missed(r, t) > 1 /\ Stock(r, t) >= Needed(r, t) ->
                [r EXCEPT !.frozen = TRUE, !.active = t - DayTicks]
           [] OTHER -> [r EXCEPT !.streak = 0, !.frozen = FALSE, !.last = Most(r.streak, @)]
ApplyActivity(r, t) ==
    LET s == SettleStreak(r, t)
        counted == s.streak > 0 /\ Missed(s, t) = 0
    IN  [s EXCEPT !.streak = IF counted THEN @ ELSE @ + 1, !.frozen = FALSE, !.active = t]
RepairStreak(r, t) ==
    IF r.last = 0 THEN r
    ELSE [r EXCEPT !.streak = r.last, !.last = 0, !.frozen = FALSE, !.active = t]

-----------------------------------------------------------------------------

Ops    == {"sync", "answer", "complete", "regain", "code", "redeem", "grant", "revoke", "repair"}
NoReq  == [op |-> "none"]
Idle(p) == req[p].op = "none"
Free(u) == lock[u] = None
NewRow ==
    [hearts |-> 1, anchor |-> 0, streak |-> 1, frozen |-> FALSE, last |-> 0,
     active |-> 0, freezes |-> 1, gems |-> 1, until |-> None, boost |-> 0,
     subscribed |-> FALSE, code |-> 1, goal |-> 0, chest |-> -1, reviewDay |-> -1,
     reviewUsed |-> 0, referredBy |-> None, done |-> {}]

Init ==
    /\ now = 0
    /\ \E coded \in {Users, Users \ Players} :
          row = [u \in Users |-> IF u \in coded THEN NewRow ELSE [NewRow EXCEPT !.code = 0]]
    /\ session = [u \in Users |-> [reviewed |-> None, claimed |-> None]]
    /\ req = [p \in Proc |-> NoReq]
    /\ lock = [u \in Users |-> None]
    /\ paid = EmptyBag
    /\ calls = 0

\* The ledger names a reward by its kind, its user and what it rewards.
Pay(keys) == paid' = paid (+) SetToBag(keys)
Filleuls(u) == {v \in Users : row[v].referredBy = u}

\* A request that needs one transaction on the row of u.
InTransaction(u, new, keys) ==
    /\ u \in Players /\ Free(u) /\ calls < MaxCalls
    /\ calls' = calls + 1
    /\ row' = [row EXCEPT ![u] = new]
    /\ Pay(keys)
    /\ UNCHANGED <<now, session, req, lock>>

Spend(r) == [r EXCEPT !.gems = @ - 1]

RefillHearts(u) ==
    LET r == row[u] IN
    /\ ~Premium(r, now) /\ ComputeHearts(r, now).hearts < MaxHearts /\ r.gems > 0
    /\ InTransaction(u, Spend(With(r, Full)), {})

BuyStreakFreeze(u) ==
    LET r == row[u] IN
    /\ ~Premium(r, now) /\ r.freezes < MaxFreezes /\ r.gems > 0
    /\ InTransaction(u, Spend([r EXCEPT !.freezes = @ + 1]), {})

\* A boost doubles XP, which is not counted here, for one tick.
BuyDoubleXp(u) ==
    LET r == row[u] IN
    /\ r.boost <= now /\ r.gems > 0
    /\ InTransaction(u, Spend([r EXCEPT !.boost = now + 1]), {})

\* The goal is named by the request that sets it; any streak reaches it.
SetStreakGoal(u) == InTransaction(u, [row[u] EXCEPT !.goal = calls + 1], {})
Cleared(r) == [r EXCEPT !.goal = 0]
ClaimStreakReward(u) ==
    LET r == row[u] IN
    /\ r.goal > 0 /\ r.streak > 0
    /\ InTransaction(u, Cleared(r), {<<"goal", u, r.goal>>})

\* The chest gives XP, gems or hearts; hearts of no use become gems.
Opened(r) == [r EXCEPT !.chest = Day(now)]
ClaimDailyChest(u, kind) ==
    LET r == With(row[u], ComputeHearts(row[u], now))
        useless == Premium(r, now) \/ r.hearts = MaxHearts
        got == CASE kind = "xp" -> r
                 [] kind = "hearts" /\ ~useless -> With(r, AddHearts(r, now, 1))
                 [] OTHER -> [r EXCEPT !.gems = @ + 1]
    IN  /\ row[u].chest # Day(now)
        /\ InTransaction(u, Opened(got), {<<"chest", u, Day(now)>>})

\* A paid subscription, personal or granted, and a pack of hearts.
Subscribe(u) ==
    InTransaction(u, With([row[u] EXCEPT !.until = now + 1, !.subscribed = TRUE], Full), {})
GrantPremium(u) == InTransaction(u, [row[u] EXCEPT !.until = now + 1], {})
HeartPack(u) == InTransaction(u, With(row[u], Full), {})

\* A finished session of review, which "regain" turns into a heart.
Review(u) ==
    /\ u \in Players /\ calls < MaxCalls /\ session[u].reviewed # now
    /\ calls' = calls + 1
    /\ session' = [session EXCEPT ![u].reviewed = now]
    /\ UNCHANGED <<now, row, req, lock, paid>>

-----------------------------------------------------------------------------
(* The requests of several steps. *)

\* What request op of u decides from its first read, and what it is about.
Prior(l) == {k \in Lessons : k < l}
Allowed(op, u, arg) ==
    LET r == row[u] IN
    CASE op = "complete" -> arg \in Lessons /\ (arg \in r.done \/ Prior(arg) \subseteq r.done)
      [] op = "regain"   -> arg = now /\ session[u] = [reviewed |-> arg, claimed |-> session[u].claimed]
                            /\ session[u].claimed < arg
      [] op = "code"     -> arg = None /\ r.code = 0
      [] op = "redeem"   -> arg \in Users \ {u} /\ row[arg].code > 0 /\ r.referredBy = None
      [] op = "revoke"   -> arg = None /\ r.until # None
      [] OTHER           -> arg = None

Begin(p, u, op, arg) ==
    /\ Idle(p) /\ calls < MaxCalls /\ (u \in Players \/ op = "redeem")
    /\ Allowed(op, u, arg)
    /\ calls' = calls + 1
    /\ req' = [req EXCEPT ![p] = [op |-> op, step |-> "read", user |-> u, arg |-> arg,
                                  t |-> now, row |-> row[u]]]
    /\ UNCHANGED <<now, row, session, lock, paid>>

At(p, op, step) == /\ ~Idle(p)
                   /\ req[p].op = op /\ req[p].step = step
End(p)  == req' = [req EXCEPT ![p] = NoReq]
Writes(p, new) == /\ Free(req[p].user)
                  /\ row' = [row EXCEPT ![req[p].user] = new]

\* A request ends without writing: an answer that costs nothing, speech
\* recognition that is down, a refusal, or a process that stops. What its
\* transaction had not committed is rolled back.
Drop(p) ==
    /\ ~Idle(p)
    /\ End(p)
    /\ lock' = [u \in Users |-> IF lock[u] = p THEN None ELSE lock[u]]
    /\ UNCHANGED <<now, row, session, paid, calls>>

\* syncUserState writes the columns that differ from the row it was given.
Synced(r, t) ==
    [With(SettleStreak(r, t), ComputeHearts(r, t)) EXCEPT
        !.freezes = @ - Spared(r, t),
        !.active  = IF Spared(r, t) > 0 THEN @ ELSE r.active]
SyncWrite(p) ==
    LET q == req[p]
        new == Synced(q.row, q.t)
    IN  /\ At(p, "sync", "read")
        /\ Writes(p, [c \in DOMAIN q.row |->
                        IF new[c] = q.row[c] THEN row[q.user][c] ELSE new[c]])
        /\ End(p)
        /\ UNCHANGED <<now, session, lock, paid, calls>>

\* An answer settles the regeneration, then loses a heart by a conditional
\* decrement: the anchor starts when the hearts it read were full.
AnswerSettle(p) ==
    LET q == req[p]
        h == ComputeHearts(q.row, q.t)
        same == With(q.row, h) = q.row
    IN  /\ At(p, "answer", "read")
        /\ Writes(p, IF same THEN row[q.user] ELSE With(row[q.user], h))
        /\ IF Playable(q.row, q.t)
           THEN req' = [req EXCEPT ![p].step = "judge"]
           ELSE End(p)
        /\ UNCHANGED <<now, session, lock, paid, calls>>

LostUnchecked(r, full, t) ==
    [r EXCEPT !.hearts = @ - 1, !.anchor = IF full THEN t ELSE @]
Lost(r, full, t) ==
    IF r.hearts = 0 THEN r
    ELSE [r EXCEPT !.hearts = @ - 1, !.anchor = IF full THEN t ELSE @]
ApplyHeartLoss(p) ==
    LET q == req[p] IN
    /\ At(p, "answer", "judge") /\ ~Premium(q.row, q.t)
    /\ Writes(p, Lost(row[q.user], ComputeHearts(q.row, q.t) = Full, q.t))
    /\ End(p)
    /\ UNCHANGED <<now, session, lock, paid, calls>>

\* A lesson pays its first completion only, and the day only the first time
\* the streak counts in it.
FirstWhenRead(q)   == q.arg \notin q.row.done
FirstCompletion(q) == q.arg \notin row[q.user].done
Complete(p) ==
    LET q == req[p]
        r == row[q.user]
        counted == r.streak = 0 \/ Day(r.active) # Day(q.t)
        new == [ApplyActivity(r, q.t) EXCEPT !.done = @ \cup {q.arg},
                    !.freezes = @ - Spared(r, q.t), !.gems = @ + 1]
        keys == {<<"lesson", q.user, q.arg>>}
                    \cup IF counted THEN {<<"day", q.user, Day(q.t)>>} ELSE {}
    IN  /\ At(p, "complete", "read")
        /\ Writes(p, IF FirstCompletion(q) THEN new ELSE r)
        /\ Pay(IF FirstCompletion(q) THEN keys ELSE {})
        /\ End(p)
        /\ UNCHANGED <<now, session, lock, calls>>

\* The session is claimed under a condition, in the transaction that gives
\* the heart; a refusal rolls the claim back.
Unclaimed(u, s) == session[u].reviewed = s /\ session[u].claimed < s
UsedToday(r, t) == IF r.reviewDay = Day(t) THEN r.reviewUsed ELSE 0
Regain(p) ==
    LET q == req[p]
        r == row[q.user]
    IN  /\ At(p, "regain", "read")
        /\ Unclaimed(q.user, q.arg)
        /\ ~Premium(r, q.t) /\ ComputeHearts(r, q.t) # Full
        /\ UsedToday(r, q.t) < ReviewPerDay
        /\ Writes(p, [With(r, AddHearts(r, q.t, 1)) EXCEPT
                        !.reviewDay = Day(q.t), !.reviewUsed = UsedToday(r, q.t) + 1])
        /\ session' = [session EXCEPT ![q.user].claimed = q.arg]
        /\ Pay({<<"review", q.user, q.arg>>})
        /\ End(p)
        /\ UNCHANGED <<now, lock, calls>>

\* Hearts granted by the back office, and a restored streak: both write what
\* they computed from the row they had read.
GrantHearts(p) ==
    LET q == req[p]
        n == Least(MaxHearts, q.row.hearts + Gift)
    IN  /\ At(p, "grant", "read")
        /\ Writes(p, [row[q.user] EXCEPT !.hearts = n, !.anchor = IF n = MaxHearts THEN None ELSE @])
        /\ End(p)
        /\ UNCHANGED <<now, session, lock, paid, calls>>

StreakRepair(p) ==
    LET q == req[p]
        s == RepairStreak(q.row, q.t)
    IN  /\ At(p, "repair", "read")
        /\ Writes(p, [row[q.user] EXCEPT !.streak = s.streak, !.frozen = FALSE,
                                         !.last = s.last, !.active = s.active])
        /\ End(p)
        /\ UNCHANGED <<now, session, lock, paid, calls>>

\* A granted premium is taken back, unless the user has paid for one.
RevokeCheck(p) ==
    /\ At(p, "revoke", "read")
    /\ IF row[req[p].user].subscribed THEN End(p) ELSE req' = [req EXCEPT ![p].step = "write"]
    /\ UNCHANGED <<now, row, session, lock, paid, calls>>
RevokeGrantedPremium(p) ==
    /\ At(p, "revoke", "write")
    /\ Writes(p, [row[req[p].user] EXCEPT !.until = None])
    /\ End(p)
    /\ UNCHANGED <<now, session, lock, paid, calls>>

\* getOrCreate gives a code to who had none when it read him: `code' counts
\* the codes of a user, the last of which is his.
GetOrCreate(p) ==
    /\ At(p, "code", "read")
    /\ Writes(p, [row[req[p].user] EXCEPT !.code = @ + 1])
    /\ End(p)
    /\ UNCHANGED <<now, session, lock, paid, calls>>

\* redeem marks the new account, which locks its row, counts the accounts
\* marked with the same referrer and reads the row of the referrer...
ClaimReferrer(p) ==
    LET q == req[p] IN
    /\ At(p, "redeem", "read")
    /\ Free(q.user) /\ row[q.user].referredBy = None
    /\ lock' = [lock EXCEPT ![q.user] = p]
    /\ req' = [req EXCEPT ![p] =
                [op |-> "redeem", step |-> "claimed", user |-> q.user, arg |-> q.arg, t |-> q.t,
                 count |-> Cardinality(Filleuls(q.arg)) + 1, row |-> row[q.arg]]]
    /\ UNCHANGED <<now, row, session, paid, calls>>

\* ... then gives hearts to both and commits. The hearts of the referrer are
\* those of the row it read.
BelowCap(q)  == q.count < RewardCap
WithinCap(q) == q.count <= RewardCap
Touches(q)   == WithinCap(q) /\ ~Premium(q.row, q.t)
Welcome(r, t) == IF Premium(r, t) THEN r ELSE With(r, AddHearts(r, t, Gift))
Redeem(p) ==
    LET q == req[p] IN
    /\ At(p, "redeem", "claimed")
    /\ Touches(q) => Free(q.arg)
    /\ row' = [row EXCEPT
                ![q.arg]  = IF Touches(q) THEN With(@, AddHearts(q.row, q.t, Gift)) ELSE @,
                ![q.user] = [Welcome(@, q.t) EXCEPT !.referredBy = q.arg]]
    /\ Pay({<<"welcome", q.user, q.arg>>}
            \cup IF WithinCap(q) THEN {<<"referrer", q.arg, q.user>>} ELSE {})
    /\ lock' = [lock EXCEPT ![q.user] = None]
    /\ End(p)
    /\ UNCHANGED <<now, session, calls>>

\* Two accounts that redeem each other's code each wait for the row the
\* other holds: the database aborts one.
Waits(p, r) == /\ At(p, "redeem", "claimed")
               /\ Touches(req[p]) /\ lock[req[p].arg] = r
AbortDeadlock(p) ==
    /\ \E r \in Proc \ {p} : Waits(p, r) /\ Waits(r, p)
    /\ Drop(p)

Tick ==
    /\ now < MaxTime
    /\ now' = now + 1
    /\ UNCHANGED <<row, session, req, lock, paid, calls>>

Step(p) ==
    \/ SyncWrite(p) \/ AnswerSettle(p) \/ ApplyHeartLoss(p) \/ Complete(p)
    \/ Regain(p) \/ GrantHearts(p) \/ RevokeCheck(p) \/ RevokeGrantedPremium(p) \/ StreakRepair(p)
    \/ GetOrCreate(p) \/ ClaimReferrer(p) \/ Redeem(p) \/ AbortDeadlock(p) \/ Drop(p)
Next ==
    \/ Tick
    \/ \E u \in Users :
        \/ RefillHearts(u) \/ BuyStreakFreeze(u) \/ BuyDoubleXp(u)
        \/ SetStreakGoal(u) \/ ClaimStreakReward(u)
        \/ \E kind \in {"xp", "hearts"} : ClaimDailyChest(u, kind)
        \/ Subscribe(u) \/ GrantPremium(u) \/ HeartPack(u) \/ Review(u)
        \/ \E p \in Proc, op \in Ops, arg \in Lessons \cup Time \cup Users \cup {None} :
                Begin(p, u, op, arg)
    \/ \E p \in Proc : Step(p)

Spec == Init /\ [][Next]_vars

-----------------------------------------------------------------------------

\* The columns stay within their ranges whatever requests overlap: the hearts
\* between none and the maximum, the freezes and review hearts within their
\* limits (hearts.ts, the conditional decrement of lesson.repository.ts).
TypeOK ==
    /\ now \in Time /\ calls \in 0..MaxCalls
    /\ row \in [Users -> Row]
    /\ session \in [Users -> [reviewed : Time \cup {None}, claimed : Time \cup {None}]]
    /\ lock \in [Users -> Proc \cup {None}]
    /\ \A p \in Proc : Idle(p) \/ req[p].op \in Ops

\* A lesson, a chest, a goal, a session of review and a referral are each
\* rewarded once, although several requests ask for them at the same time
\* (the transactions of lesson.service.ts, gem.service.ts, reward.service.ts
\* and referral.service.ts). The reward of the day is not among them: a
\* synchronisation that overlaps a lesson makes the day count again.
PaidOnce == \A k \in BagToSet(paid) : k[1] = "day" \/ paid[k] = 1

\* The first RewardCap accounts that used the code of u have each rewarded u,
\* whatever other redemptions ran with theirs (referral.service.ts: the count
\* may miss those that have not committed, never those that have).
ReferrerServed ==
    \A u \in Users :
        Cardinality({k \in BagToSet(paid) : k[1] = "referrer" /\ k[2] = u})
            >= Least(RewardCap, Cardinality(Filleuls(u)))
=============================================================================
