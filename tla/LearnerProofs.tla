----------------------------- MODULE LearnerProofs -----------------------------
(***************************************************************************)
(* Proofs about Learner, for every number of users, requests and lessons   *)
(* and every limit: the types of the rows, the rewards paid once and the   *)
(* referrers served.  Then about Study, for any content and any number of  *)
(* requests, handlers and scripts: surahs recorded as mastered, and the    *)
(* cursor of guided revision.                                              *)
(***************************************************************************)
EXTENDS Learner, Study, FiniteSetTheorems, TLAPS

-----------------------------------------------------------------------------
(* The row *)

\* The columns of a row.
Columns ==
    {"hearts", "anchor", "streak", "frozen", "last", "active", "freezes", "gems", "until", "boost",
     "subscribed", "code", "goal", "chest", "reviewDay", "reviewUsed", "referredBy", "done"}

\* The ranges of the columns, and the row in terms of them.
Lives   == 0..MaxHearts
Counts  == 0..MaxCalls + 1
Stored  == 0..MaxFreezes
Wealth  == 0..2*MaxCalls + 1
Ends    == Time \cup {MaxTime + 1, None}
Boosts  == 0..MaxTime + 1
Goals   == 0..MaxCalls
Days    == -1..MaxTime
Reviews == 0..ReviewPerDay

Plain ==
    [hearts : Lives, anchor : Time \cup {None}, streak : Counts, frozen : BOOLEAN, last : Counts,
     active : Time, freezes : Stored, gems : Wealth, until : Ends, boost : Boosts,
     subscribed : BOOLEAN, code : Counts, goal : Goals, chest : Days, reviewDay : Days,
     reviewUsed : Reviews, referredBy : Users \cup {None}, done : SUBSET Lessons]

\* The counters of r are n at most.
Tally(r, n) == r.streak <= n /\ r.last <= n /\ r.gems <= n /\ r.code <= n
\* The columns that say what was rewarded are the same in r and s.
SameRewards(r, s) ==
    s.done = r.done /\ s.chest = r.chest /\ s.goal = r.goal /\ s.referredBy = r.referredBy
\* What computeHearts returns.
Hearts == [hearts : 0..MaxHearts, anchor : Time \cup {None}]

-----------------------------------------------------------------------------
(* The invariant of the types *)

\* Requests, and what their arguments are.
Arg     == Lessons \cup Time \cup Users \cup {None}
Asked   == [op : Ops, step : {"read", "judge", "write"}, user : Users, arg : Arg, t : Time,
            row : Row]
Claimed == [op : {"redeem"}, step : {"claimed"}, user : Users, arg : Users, t : Time,
            count : Nat, row : Row]
Request == Asked \cup Claimed
Apt(q) ==
    /\ q.op = "complete" => q.arg \in Lessons
    /\ q.op = "regain" => q.arg \in Time
    /\ q.op = "redeem" => q.arg \in Users \ {q.user}

\* The calls that have ended, each of which adds one at most to a counter.
Busy  == {p \in Proc : ~Idle(p)}
Ended == calls - Cardinality(Busy)

\* Every variable has its type, and what a request holds fits its operation.
Typed ==
    /\ TypeOK
    /\ req \in [Proc -> {NoReq} \cup Request]
    /\ \A p \in Busy : req[p] \in Request /\ Apt(req[p])
\* A counter of a row, or of a row that was read, is paid for by calls that
\* have ended: what is still to be written cannot pass the bound.
Counted ==
    /\ IsFiniteSet(Busy) /\ Ended \in Nat
    /\ \A u \in Users : Tally(row[u], 1 + Ended)
    /\ \A p \in Busy : Tally(req[p].row, 1 + Ended)
TInv == Typed /\ Counted

-----------------------------------------------------------------------------
(* The invariant of the ledger and of the referrals *)

\* The reward k names has left its mark on a row or a session.
Spent(k) ==
    /\ k[2] \in Users
    /\ \/ k[1] = "day"
       \/ k[1] = "lesson" /\ k[3] \in row[k[2]].done
       \/ k[1] = "chest" /\ k[3] \in Nat /\ k[3] <= row[k[2]].chest
       \/ k[1] = "goal" /\ k[3] \in 1..calls /\ k[3] # row[k[2]].goal
       \/ k[1] = "review" /\ k[3] \in Nat /\ k[3] <= session[k[2]].claimed
       \/ k[1] = "welcome" /\ row[k[2]].referredBy # None
       \/ k[1] = "referrer" /\ k[3] \in Users /\ row[k[3]].referredBy = k[2]
\* Every reward in the ledger is spent, and but for the day paid once.
Ledger ==
    /\ IsABag(paid)
    /\ \A k \in BagToSet(paid) : Spent(k) /\ (k[1] # "day" => paid[k] = 1)

\* A redemption that has marked its account holds the row until it commits.
Held ==
    \A p \in Busy : req[p].step = "claimed" =>
        lock[req[p].user] = p /\ row[req[p].user].referredBy = None
\* No chest is of a day to come, no goal of a call to come.
Dated == \A u \in Users : row[u].chest <= Day(now) /\ row[u].goal <= calls

\* The rewards of a referrer, and the count on which the next one depends.
Earned(u) == {k \in BagToSet(paid) : k[1] = "referrer" /\ k[2] = u}
\* ReferrerServed, and the rewards can be counted.
Served ==
    \A u \in Users : /\ IsFiniteSet(Earned(u))
                     /\ Cardinality(Earned(u)) >= Least(RewardCap, Cardinality(Filleuls(u)))
\* The count of a redemption misses none that has committed before it.
Counting ==
    \A p \in Busy : req[p].step = "claimed" =>
        req[p].count <= Cardinality(Filleuls(req[p].arg)) + 1
LInv == TInv /\ Ledger /\ Held /\ Dated /\ Served /\ Counting

-----------------------------------------------------------------------------
(* What a step may change *)

\* After the step the rows are rows, with counters of n at most.
RowsFit(n) == row' \in [Users -> Row] /\ \A u \in Users : Tally(row'[u], n)
\* The variables but row, req and paid keep their types.
RestTyped ==
    /\ now' \in Time
    /\ session' \in [Users -> [reviewed : Time \cup {None}, claimed : Time \cup {None}]]
    /\ lock' \in [Users -> Proc \cup {None}]
\* The step rewards nothing in a row.
RewardsStay == \A v \in Users : SameRewards(row[v], row'[v])
\* The columns that record rewards only move on.
Kept(r, s) ==
    /\ r.done \subseteq s.done /\ r.chest <= s.chest
    /\ s.goal \in {r.goal, 0} \/ s.goal > calls
    /\ r.referredBy # None => s.referredBy = r.referredBy
\* Nor do calls and claimed sessions go back.
Onward ==
    /\ calls <= calls'
    /\ \A u \in Users : Kept(row[u], row'[u]) /\ session[u].claimed <= session'[u].claimed
\* A request that has claimed a referrer goes on undisturbed.
NoNewClaim ==
    \A r \in Busy' : req'[r].step = "claimed" =>
        r \in Busy /\ req'[r] = req[r] /\ lock'[req[r].user] = lock[req[r].user]

-----------------------------------------------------------------------------
(* What is computed from a row *)

\* A row, in terms of the ranges of its columns.
LEMMA RowIs == Row = Plain
  BY DEF Row, Plain, Lives, Counts, Stored, Wealth, Ends, Boosts, Goals, Days, Reviews

\* The columns of a row.
LEMMA Cols ==
    ASSUME NEW r \in Row
    PROVE  DOMAIN r = Columns
  BY DEF Row, Columns

\* A row stays one when columns are given values of their ranges.
LEMMA PutHearts ==
    ASSUME NEW r \in Row, NEW h \in Lives, NEW a \in Time \cup {None}
    PROVE  [r EXCEPT !.hearts = h, !.anchor = a] \in Row
  BY RowIs DEF Plain

\* The same of the columns a lesson writes.
LEMMA PutLesson ==
    ASSUME NEW r \in Row, NEW d \in SUBSET Lessons, NEW f \in Stored, NEW g \in Wealth
    PROVE  [r EXCEPT !.done = d, !.freezes = f, !.gems = g] \in Row
  BY RowIs DEF Plain

\* The same of the columns a heart regained by review writes.
LEMMA PutReview ==
    ASSUME NEW r \in Row, NEW d \in Days, NEW n \in Reviews
    PROVE  [r EXCEPT !.reviewDay = d, !.reviewUsed = n] \in Row
  BY RowIs DEF Plain

\* The same of the columns of the streak.
LEMMA PutStreak ==
    ASSUME NEW r \in Row, NEW s \in Row
    PROVE  [r EXCEPT !.streak = s.streak, !.frozen = FALSE,
                     !.last = s.last, !.active = s.active] \in Row
  BY RowIs DEF Plain

\* The limits are numbers, and positive where the code has them so.
LEMMA Numbers ==
    /\ MaxHearts \in Nat \ {0} /\ MaxFreezes \in Nat \ {0} /\ DayTicks \in Nat \ {0}
    /\ ReviewPerDay \in Nat \ {0} /\ RewardCap \in Nat \ {0} /\ Gift \in Nat \ {0}
    /\ MaxTime \in Nat /\ MaxCalls \in Nat
  BY LearnerAssumption

\* Days are counted from zero and follow time; after the first, a whole day has passed.
LEMMA DaySound ==
    ASSUME NEW t \in Nat
    PROVE  /\ Day(t) \in Nat /\ Day(t) <= t /\ Day(t) <= Day(t + 1)
           /\ (Day(t) >= 1 => t >= DayTicks)
<1>1. Day(t) \in Nat /\ Day(t) <= t
  BY Numbers DEF Day
<1>2. Day(t) <= Day(t + 1)
  BY Numbers DEF Day
<1>3. Day(t) >= 1 => t >= DayTicks
  BY Numbers DEF Day
<1> QED BY <1>1, <1>2, <1>3

\* computeHearts gives hearts within the maximum, and an anchor in the past.
LEMMA HeartsSound ==
    ASSUME NEW r \in Row, NEW t \in Time
    PROVE  ComputeHearts(r, t) \in Hearts
  BY Numbers DEF Row, Time, Hearts, ComputeHearts, Regained, Full, Most

\* So does the addition of hearts.
LEMMA AddSound ==
    ASSUME NEW r \in Row, NEW t \in Time, NEW n \in Nat
    PROVE  AddHearts(r, t, n) \in Hearts
<1> PICK h : h = ComputeHearts(r, t) OBVIOUS
<1>1. h \in Hearts
  BY HeartsSound
<1>2. AddHearts(r, t, n) = IF h.hearts + n >= MaxHearts THEN Full
                           ELSE [h EXCEPT !.hearts = h.hearts + n]
  BY DEF AddHearts
<1> QED BY <1>1, <1>2, Numbers DEF Hearts, Full, Time

\* Writing hearts keeps a row one, its counters and its rewards.
LEMMA WithSound ==
    ASSUME NEW r \in Row, NEW h \in Hearts, NEW n
    PROVE  /\ With(r, h) \in Row /\ SameRewards(r, With(r,h))
           /\ (Tally(r, n) => Tally(With(r,h), n))
  BY DEF Row, With, Hearts, SameRewards, Tally

\* Settling a streak raises no counter and loses no reward.
LEMMA SettleSound ==
    ASSUME NEW r \in Row, NEW t \in Time, NEW n \in Nat, Tally(r, n)
    PROVE  /\ SettleStreak(r, t) \in Row /\ SameRewards(r, SettleStreak(r, t))
           /\ Tally(SettleStreak(r, t), n)
<1> Day(t) \in Nat /\ Day(r.active) \in Nat /\ (Day(t) >= 1 => t >= DayTicks)
  BY DaySound DEF Row, Time
<1>1. Missed(r, t) \in Int /\ (Missed(r, t) > 1 => t - DayTicks \in Time)
  BY Numbers DEF Missed, Time
<1>2. r.streak \in Nat /\ r.last \in Nat
  BY DEF Row
<1>a. CASE r.streak = 0
  <2>1. SettleStreak(r, t) = r
    BY <1>a DEF SettleStreak
  <2> QED BY <2>1 DEF SameRewards
<1>b. CASE r.streak # 0 /\ Missed(r, t) <= 0
  <2>1. SettleStreak(r, t) = [r EXCEPT !.frozen = FALSE]
    BY <1>b, <1>1 DEF SettleStreak
  <2> QED BY <2>1 DEF Row, SameRewards, Tally
<1>c. CASE r.streak # 0 /\ Missed(r, t) = 1
  <2>1. SettleStreak(r, t) = [r EXCEPT !.frozen = TRUE]
    BY <1>c, <1>1 DEF SettleStreak
  <2> QED BY <2>1 DEF Row, SameRewards, Tally
<1>d. CASE r.streak # 0 /\ Missed(r, t) > 1 /\ Stock(r, t) >= Needed(r, t)
  <2>1. SettleStreak(r, t) = [r EXCEPT !.frozen = TRUE, !.active = t - DayTicks]
    BY <1>d, <1>1 DEF SettleStreak
  <2> QED BY <2>1, <1>1, <1>d DEF Row, SameRewards, Tally
<1>e. CASE r.streak # 0 /\ Missed(r, t) > 1 /\ ~(Stock(r, t) >= Needed(r, t))
  <2>1. SettleStreak(r, t) = [r EXCEPT !.streak = 0, !.frozen = FALSE, !.last = Most(r.streak, r.last)]
    BY <1>e, <1>1 DEF SettleStreak
  <2>2. Most(r.streak, r.last) \in {r.streak, r.last}
    BY DEF Most
  <2>3. Most(r.streak, r.last) \in 0..MaxCalls + 1 /\ (Most(r.streak, r.last) <= n)
    BY <2>2 DEF Row, Tally
  <2>a. 0 \in Counts /\ Most(r.streak, r.last) \in Counts
    BY <2>3, Numbers DEF Counts
  <2>4. SettleStreak(r, t) \in Row
    BY <2>1, <2>a, RowIs DEF Plain
  <2>5. SameRewards(r, SettleStreak(r, t))
    BY <2>1 DEF Row, SameRewards
  <2>6. Tally(SettleStreak(r, t), n)
    BY <2>1, <2>3 DEF Row, Tally
  <2> QED BY <2>4, <2>5, <2>6
<1> QED BY <1>1, <1>2, <1>a, <1>b, <1>c, <1>d, <1>e

\* Nor does the repair of a streak raise a counter.
LEMMA RepairSound ==
    ASSUME NEW r \in Row, NEW t \in Time, NEW n \in Nat, Tally(r, n)
    PROVE  RepairStreak(r, t) \in Row /\ Tally(RepairStreak(r, t), n)
<1>1. CASE r.last = 0
  BY <1>1 DEF RepairStreak
<1>2. CASE r.last # 0
  <2>1. RepairStreak(r, t) = [r EXCEPT !.streak = r.last, !.last = 0, !.frozen = FALSE, !.active = t]
    BY <1>2 DEF RepairStreak
  <2>a. 0 \in Counts
    BY Numbers DEF Counts
  <2>2. RepairStreak(r, t) \in Row
    BY <2>1, <2>a, RowIs, ZenonT(60) DEF Plain
  <2>3. Tally(RepairStreak(r, t), n)
    BY <2>1 DEF Row, Tally
  <2> QED BY <2>2, <2>3
<1> QED BY <1>1, <1>2

\* An activity raises the counters by one at most.
LEMMA ActivitySound ==
    ASSUME NEW r \in Row, NEW t \in Time, NEW n \in 0..MaxCalls, Tally(r, n)
    PROVE  /\ ApplyActivity(r, t) \in Row /\ SameRewards(r, ApplyActivity(r, t))
           /\ Tally(ApplyActivity(r, t), n + 1) /\ ApplyActivity(r, t).gems <= n
           /\ ApplyActivity(r, t).freezes = r.freezes /\ ApplyActivity(r, t).done = r.done
<1> PICK s : s = SettleStreak(r, t) OBVIOUS
<1>1. s \in Row /\ SameRewards(r, s) /\ Tally(s, n)
  BY SettleSound
<1>2. s.freezes = r.freezes
  BY DEF SettleStreak, Row
<1> PICK k : k = IF s.streak > 0 /\ Missed(s, t) = 0 THEN s.streak ELSE s.streak + 1 OBVIOUS
<1>3. ApplyActivity(r, t) = [s EXCEPT !.streak = k, !.frozen = FALSE, !.active = t]
  BY DEF ApplyActivity
<1>4. k \in 0..MaxCalls + 1 /\ k <= n + 1
  BY <1>1, Numbers DEF Row, Tally
<1>5. ApplyActivity(r, t) \in Row
  BY <1>1, <1>3, <1>4, ZenonT(60) DEF Row
<1>6. SameRewards(r, ApplyActivity(r, t)) /\ ApplyActivity(r, t).freezes = r.freezes
  BY <1>1, <1>2, <1>3 DEF Row, SameRewards
<1>7. /\ s.last \in Nat /\ s.gems \in Nat /\ s.code \in Nat /\ s.last <= n /\ s.gems <= n
      /\ s.code <= n
  BY <1>1 DEF Row, Tally
<1>8. Tally(ApplyActivity(r, t), n+1) /\ ApplyActivity(r, t).gems <= n
  BY <1>1, <1>7, <1>3, <1>4 DEF Row, Tally
<1> QED BY <1>5, <1>6, <1>8 DEF SameRewards

-----------------------------------------------------------------------------
(* How the types are kept *)

\* A bound on counters holds of every larger number.
LEMMA TallyGrows ==
    ASSUME NEW r \in Row, NEW n \in Nat, NEW m \in Nat, n <= m, Tally(r, n)
    PROVE  Tally(r, m)
  BY DEF Row, Tally

\* The calls that ended are some of those made, not all while one is busy.
LEMMA EndedBound ==
    ASSUME TInv
    PROVE  /\ Ended \in 0..calls /\ calls \in 0..MaxCalls /\ 1 + Ended <= MaxCalls + 1
           /\ (Busy # {} => Ended < calls)
<1> Cardinality(Busy) \in Nat /\ (Cardinality(Busy) = 0 <=> Busy = {})
  BY FS_CardinalityType, FS_EmptySet DEF TInv, Counted
<1> calls \in 0..MaxCalls
  BY DEF TInv, Typed, TypeOK
<1> QED BY Numbers DEF Ended, TInv, Counted

\* A call of one transaction starts and ends at once.
LEMMA StillBusy ==
    ASSUME UNCHANGED req, IsFiniteSet(Busy), calls' = calls \/ calls' = calls + 1, calls \in Nat,
           Ended \in Nat
    PROVE  Busy' = Busy /\ IsFiniteSet(Busy') /\ Ended' = Ended + (calls' - calls)
<1>1. Busy' = Busy
  BY DEF Busy, Idle
<1> Cardinality(Busy) \in Nat
  BY FS_CardinalityType
<1> QED BY <1>1 DEF Ended

\* A request of several steps that begins has not ended.
LEMMA MoreBusy ==
    ASSUME TInv, NEW p \in Proc, Idle(p), NEW q \in Request, req' = [req EXCEPT ![p] = q],
           calls' = calls + 1
    PROVE  Busy' = Busy \cup {p} /\ IsFiniteSet(Busy') /\ Ended' = Ended
<1>0. q.op # "none"
  BY DEF Request, Asked, Claimed, Ops
<1>1. Busy' = Busy \cup {p} /\ p \notin Busy
  BY <1>0 DEF Busy, Idle, TInv, Typed
<1>2. IsFiniteSet(Busy') /\ Cardinality(Busy') = Cardinality(Busy) + 1
  BY <1>1, FS_AddElement DEF TInv, Counted
<1> Cardinality(Busy) \in Nat /\ calls \in Nat
  BY FS_CardinalityType DEF TInv, Counted, Typed, TypeOK
<1> QED BY <1>1, <1>2 DEF Ended

\* A request that takes a step and goes on has not ended either.
LEMMA SameBusy ==
    ASSUME TInv, NEW p \in Busy, NEW q \in Request, req' = [req EXCEPT ![p] = q], calls' = calls
    PROVE  Busy' = Busy /\ IsFiniteSet(Busy') /\ Ended' = Ended
<1>0. q.op # "none"
  BY DEF Request, Asked, Claimed, Ops
<1>1. Busy' = Busy
  BY <1>0 DEF Busy, Idle, TInv, Typed
<1> QED BY <1>1 DEF Ended, TInv, Counted

\* A request that ends adds one to the calls that ended.
LEMMA LessBusy ==
    ASSUME TInv, NEW p \in Busy, End(p), calls' = calls
    PROVE  Busy' = Busy \ {p} /\ IsFiniteSet(Busy') /\ Ended' = Ended + 1
<1>0. NoReq.op = "none"
  BY DEF NoReq
<1>1. Busy' = Busy \ {p}
  BY <1>0 DEF Busy, Idle, TInv, Typed, End
<1>2. IsFiniteSet(Busy') /\ Cardinality(Busy') = Cardinality(Busy) - 1
  BY <1>1, FS_RemoveElement DEF TInv, Counted
<1> Cardinality(Busy) \in Nat /\ calls \in Nat
  BY FS_CardinalityType DEF TInv, Counted, Typed, TypeOK
<1> QED BY <1>1, <1>2 DEF Ended

\* Rows fit when the only row written does.
LEMMA OneFits ==
    ASSUME TInv, NEW u \in Users, NEW new \in Row, row' = [row EXCEPT ![u] = new], NEW n \in Nat,
           1 + Ended <= n, Tally(new, n)
    PROVE  RowsFit(n)
<1>1. row \in [Users -> Row] /\ 1 + Ended \in Nat
  BY DEF TInv, Typed, TypeOK, Counted
<1>2. \A v \in Users : Tally(row[v], n)
  BY <1>1, TallyGrows DEF TInv, Counted
<1> QED BY <1>1, <1>2 DEF RowsFit

\* Rows fit when none is written.
LEMMA SameFits ==
    ASSUME TInv, row' = row, NEW n \in Nat, 1 + Ended <= n
    PROVE  RowsFit(n)
<1>1. row \in [Users -> Row] /\ 1 + Ended \in Nat
  BY DEF TInv, Typed, TypeOK, Counted
<1>2. \A v \in Users : Tally(row[v], n)
  BY <1>1, TallyGrows DEF TInv, Counted
<1> QED BY <1>1, <1>2 DEF RowsFit

\* What a busy request holds, the row it read included.
LEMMA HeldTallies ==
    ASSUME TInv, NEW p \in Busy, NEW n \in Nat, 1 + Ended <= n
    PROVE  /\ req[p] \in Request /\ Apt(req[p]) /\ req[p].row \in Row /\ req[p].user \in Users
           /\ req[p].t \in Time /\ Tally(req[p].row, n)
<1>1. req[p] \in Request /\ Apt(req[p]) /\ 1 + Ended \in Nat
  BY DEF TInv, Typed, Counted
<1>2. req[p].row \in Row /\ req[p].user \in Users /\ req[p].t \in Time
  BY <1>1 DEF Request, Asked, Claimed
<1> QED BY <1>1, <1>2, TallyGrows DEF TInv, Counted

\* Types are kept by a call of one transaction...
LEMMA Transacts ==
    ASSUME TInv, UNCHANGED req, calls' = calls + 1, calls' \in 0..MaxCalls, RowsFit(2 + Ended),
           RestTyped
    PROVE  TInv'
<1>1. Busy' = Busy /\ IsFiniteSet(Busy') /\ Ended' = Ended + 1
  BY StillBusy DEF TInv, Typed, TypeOK, Counted
<1>2. Ended \in Nat
  BY DEF TInv, Counted
<1>3. TypeOK'
  <2>1. \A p \in Proc : Idle(p)' \/ req'[p].op \in Ops
    BY DEF TInv, Typed, TypeOK, Idle
  <2> QED BY <2>1 DEF TypeOK, RowsFit, RestTyped
<1>4. Typed'
  BY <1>1, <1>3 DEF TInv, Typed, Apt
<1>5. \A p \in Busy : Tally(req[p].row, 2 + Ended)
  BY <1>2, HeldTallies
<1>6. Counted'
  BY <1>1, <1>2, <1>5 DEF Counted, RowsFit
<1> QED BY <1>4, <1>6 DEF TInv

\* ... by a request that ends ...
LEMMA Finishes ==
    ASSUME TInv, NEW p \in Busy, End(p), calls' = calls, RowsFit(2 + Ended), RestTyped
    PROVE  TInv'
<1>1. Busy' = Busy \ {p} /\ IsFiniteSet(Busy') /\ Ended' = Ended + 1
  BY LessBusy
<1>2. Ended \in Nat
  BY DEF TInv, Counted
<1>0. p \in Proc /\ req \in [Proc -> {NoReq} \cup Request]
  BY DEF Busy, TInv, Typed
<1>a. req' \in [Proc -> {NoReq} \cup Request] /\ req'[p] = NoReq /\ NoReq.op = "none"
  BY <1>0 DEF End, NoReq
<1>b. \A q \in Proc \ {p} : req'[q] = req[q]
  BY <1>0 DEF End
<1>3. TypeOK'
  <2>1. \A q \in Proc : Idle(q)' \/ req'[q].op \in Ops
    BY <1>a, <1>b DEF TInv, Typed, TypeOK, Idle
  <2> QED BY <2>1 DEF TypeOK, RowsFit, RestTyped, TInv, Typed
<1>c. \A q \in Busy' : q \in Busy /\ req'[q] = req[q]
  BY <1>1, <1>b DEF Busy
<1>4. Typed'
  BY <1>c, <1>a, <1>3 DEF TInv, Typed, Apt
<1>5. \A q \in Busy : Tally(req[q].row, 2 + Ended)
  BY <1>2, HeldTallies
<1>6. Counted'
  BY <1>1, <1>2, <1>c, <1>5 DEF Counted, RowsFit
<1> QED BY <1>4, <1>6 DEF TInv

\* ... and by one that begins or goes on, if the rows still fit.
LEMMA GoesOn ==
    ASSUME TInv, NEW p \in Proc, NEW q \in Request, Apt(q), Tally(q.row, 1 + Ended),
           req' = [req EXCEPT ![p] = q],
           \/ p \in Busy /\ calls' = calls
           \/ Idle(p) /\ calls' = calls + 1 /\ calls' \in 0..MaxCalls,
           RowsFit(1 + Ended), RestTyped
    PROVE  TInv'
<1>1. Busy' = Busy \cup {p} /\ IsFiniteSet(Busy') /\ Ended' = Ended
  BY SameBusy, MoreBusy
<1>2. Ended \in Nat
  BY DEF TInv, Counted
<1>0. req \in [Proc -> {NoReq} \cup Request]
  BY DEF TInv, Typed
<1>a. req' \in [Proc -> {NoReq} \cup Request] /\ req'[p] = q
  BY <1>0
<1>b. \A r \in Proc \ {p} : req'[r] = req[r]
  BY <1>0
<1>d. q.op \in Ops
  BY DEF Request, Asked, Claimed, Ops
<1>3. TypeOK'
  <2>1. \A r \in Proc : Idle(r)' \/ req'[r].op \in Ops
    BY <1>a, <1>b, <1>d DEF TInv, Typed, TypeOK, Idle
  <2>2. calls' \in 0..MaxCalls
    BY DEF TInv, Typed, TypeOK
  <2> QED BY <2>1, <2>2 DEF TypeOK, RowsFit, RestTyped
<1>c. \A r \in Busy' \ {p} : r \in Busy /\ req'[r] = req[r]
  BY <1>1, <1>b DEF Busy
<1>4. Typed'
  BY <1>c, <1>a, <1>3 DEF TInv, Typed, Apt
<1>6. Counted'
  BY <1>1, <1>2, <1>c, <1>a DEF Counted, RowsFit, TInv
<1> QED BY <1>4, <1>6 DEF TInv

\* The other variables keep their types when they keep their values.
LEMMA RestStays ==
    ASSUME TInv, UNCHANGED <<now, session, lock>>
    PROVE  RestTyped
  BY DEF TInv, Typed, TypeOK, RestTyped

\* Rewards stay in every row when they do in the only row written.
LEMMA OneStays ==
    ASSUME TInv, NEW u \in Users, NEW new, row' = [row EXCEPT ![u] = new],
           SameRewards(row[u], new)
    PROVE  RewardsStay
  BY DEF RewardsStay, SameRewards, TInv, Typed, TypeOK

\* What a row is, within the invariant.
LEMMA RowHas ==
    ASSUME TInv, NEW u \in Users
    PROVE  /\ row[u] \in Row /\ Tally(row[u], 1 + Ended) /\ now \in Time /\ Ended \in Nat
           /\ 2 + Ended \in Nat
  BY DEF TInv, Typed, TypeOK, Counted

\* A transaction on one row keeps the types if its new row fits.
LEMMA InTransactionTyped ==
    ASSUME TInv, NEW u \in Users, NEW new \in Row, NEW keys, Tally(new, 2 + Ended),
           InTransaction(u, new, keys)
    PROVE  TInv'
<1>0. row' = [row EXCEPT ![u] = new] /\ 2 + Ended \in Nat /\ 1 + Ended <= 2 + Ended
  BY RowHas DEF InTransaction
<1>1. RowsFit(2 + Ended)
  BY <1>0, OneFits
<1>2. RestTyped
  BY RestStays DEF InTransaction
<1>3. calls' = calls + 1 /\ calls' \in 0..MaxCalls
  BY Numbers DEF InTransaction, TInv, Typed, TypeOK
<1> QED BY <1>1, <1>2, <1>3, Transacts DEF InTransaction

\* A row of now fits after one call more.
LEMMA TallyMore ==
    ASSUME TInv, NEW r \in Row, Tally(r, 1 + Ended)
    PROVE  Tally(r, 2 + Ended) /\ r.gems <= MaxCalls + 1
  BY EndedBound, TallyGrows, Numbers DEF TInv, Counted, Tally, Row

\* Full hearts are hearts.
LEMMA FullSound == Full \in Hearts
  BY Numbers DEF Full, Hearts

\* A gem is only spent by who has one.
LEMMA SpendSound ==
    ASSUME NEW r \in Row, r.gems > 0, NEW n \in Nat
    PROVE  Spend(r) \in Row /\ SameRewards(r, Spend(r)) /\ (Tally(r, n) => Tally(Spend(r), n))
/\ Spend(r).freezes = r.freezes
<1> PICK g : g = r.gems - 1 OBVIOUS
<1>1. g \in Wealth /\ g < r.gems
  BY Numbers DEF Row, Wealth
<1>2. Spend(r) = [r EXCEPT !.gems = g]
  BY DEF Spend
<1>3. Spend(r) \in Row
  BY <1>1, <1>2, RowIs DEF Plain
<1>4. Tally(r, n) => g <= n
  BY <1>1 DEF Tally, Row, Wealth
<1> QED BY <1>2, <1>3, <1>4 DEF Row, SameRewards, Tally

-----------------------------------------------------------------------------
(* The types, action by action *)

\* A refill keeps the types and the rewards.
LEMMA RefillTyped ==
    ASSUME TInv, NEW u \in Users, RefillHearts(u)
    PROVE  TInv' /\ RewardsStay
<1> PICK r : r = row[u] OBVIOUS
<1> PICK s : s = With(r, Full) OBVIOUS
<1>1. r \in Row /\ Tally(r, 2 + Ended) /\ r.gems > 0
  BY RowHas, TallyMore DEF RefillHearts
<1>2. s \in Row /\ Tally(s, 2 + Ended)
  BY <1>1, WithSound, FullSound
<1>3. s.gems = r.gems
  BY <1>1 DEF With, Row
<1>4. Spend(s) \in Row /\ Tally(Spend(s), 2 + Ended)
  BY RowHas, <1>1, <1>2, <1>3, SpendSound
<1>5. InTransaction(u, Spend(s), {})
  BY DEF RefillHearts
<1>6. SameRewards(r, Spend(s))
  BY <1>1, <1>2, <1>3, WithSound, FullSound, SpendSound DEF SameRewards
<1> QED BY <1>4, <1>5, <1>6, InTransactionTyped, OneStays DEF InTransaction

\* So does the purchase of a freeze.
LEMMA FreezeTyped ==
    ASSUME TInv, NEW u \in Users, BuyStreakFreeze(u)
    PROVE  TInv' /\ RewardsStay
<1> PICK r : r = row[u] OBVIOUS
<1> PICK f : f = r.freezes + 1 OBVIOUS
<1> PICK s : s = [r EXCEPT !.freezes = f] OBVIOUS
<1>1. r \in Row /\ Tally(r, 2 + Ended) /\ r.gems > 0 /\ r.freezes < MaxFreezes
  BY RowHas, TallyMore DEF BuyStreakFreeze
<1>2. f \in Stored
  BY <1>1, Numbers DEF Stored, Row
<1>3. s \in Row
  BY <1>1, <1>2, RowIs DEF Plain
<1>4. s.gems = r.gems /\ Tally(s, 2 + Ended)
  BY <1>1 DEF Row, Tally
<1>5. Spend(s) \in Row /\ Tally(Spend(s), 2 + Ended)
  BY RowHas, <1>1, <1>3, <1>4, SpendSound
<1>6. InTransaction(u, Spend(s), {})
  BY DEF BuyStreakFreeze
<1>7. SameRewards(r, s)
  BY <1>1 DEF Row, SameRewards
<1>8. SameRewards(r, Spend(s))
  BY <1>1, <1>3, <1>4, <1>7, SpendSound DEF SameRewards
<1> QED BY <1>5, <1>6, <1>8, InTransactionTyped, OneStays DEF InTransaction

\* So does that of a boost.
LEMMA BoostTyped ==
    ASSUME TInv, NEW u \in Users, BuyDoubleXp(u)
    PROVE  TInv' /\ RewardsStay
<1> PICK r : r = row[u] OBVIOUS
<1> PICK b : b = now + 1 OBVIOUS
<1> PICK s : s = [r EXCEPT !.boost = b] OBVIOUS
<1>1. r \in Row /\ Tally(r, 2 + Ended) /\ r.gems > 0 /\ now \in Time
  BY RowHas, TallyMore DEF BuyDoubleXp
<1>2. b \in Boosts
  BY <1>1, Numbers DEF Boosts, Time
<1>3. s \in Row
  BY <1>1, <1>2, RowIs DEF Plain
<1>4. s.gems = r.gems /\ Tally(s, 2 + Ended)
  BY <1>1 DEF Row, Tally
<1>5. Spend(s) \in Row /\ Tally(Spend(s), 2 + Ended)
  BY RowHas, <1>1, <1>3, <1>4, SpendSound
<1>6. InTransaction(u, Spend(s), {})
  BY DEF BuyDoubleXp
<1>7. SameRewards(r, s)
  BY <1>1 DEF Row, SameRewards
<1>8. SameRewards(r, Spend(s))
  BY <1>1, <1>3, <1>4, <1>7, SpendSound DEF SameRewards
<1> QED BY <1>5, <1>6, <1>8, InTransactionTyped, OneStays DEF InTransaction

\* A goal keeps the types.
LEMMA GoalTyped ==
    ASSUME TInv, NEW u \in Users, SetStreakGoal(u)
    PROVE  TInv'
<1> PICK r : r = row[u] OBVIOUS
<1> PICK g : g = calls + 1 OBVIOUS
<1> PICK s : s = [r EXCEPT !.goal = g] OBVIOUS
<1>1. r \in Row /\ Tally(r, 2 + Ended)
  BY RowHas, TallyMore
<1>2. g \in Goals
  BY EndedBound, Numbers DEF Goals, SetStreakGoal, InTransaction
<1>3. s \in Row
  BY <1>1, <1>2, RowIs DEF Plain
<1>4. Tally(s, 2 + Ended)
  BY <1>1 DEF Row, Tally
<1> QED BY <1>3, <1>4, InTransactionTyped DEF SetStreakGoal

\* So does its reward.
LEMMA ClaimTyped ==
    ASSUME TInv, NEW u \in Users, ClaimStreakReward(u)
    PROVE  TInv'
<1> PICK r : r = row[u] OBVIOUS
<1> PICK s : s = Cleared(r) OBVIOUS
<1>1. r \in Row /\ Tally(r, 2 + Ended)
  BY RowHas, TallyMore
<1>2. 0 \in Goals
  BY Numbers DEF Goals
<1>3. s \in Row
  BY <1>1, <1>2, RowIs DEF Plain, Cleared
<1>4. Tally(s, 2 + Ended)
  BY <1>1 DEF Row, Tally, Cleared
<1> PICK k : k = {<<"goal", u, r.goal>>} OBVIOUS
<1>5. InTransaction(u, s, k)
  BY DEF ClaimStreakReward
<1> QED BY <1>3, <1>4, <1>5, InTransactionTyped

\* A subscription keeps types and rewards.
LEMMA SubscribeTyped ==
    ASSUME TInv, NEW u \in Users, Subscribe(u)
    PROVE  TInv' /\ RewardsStay
<1> PICK r : r = row[u] OBVIOUS
<1> PICK e : e = now + 1 OBVIOUS
<1> PICK s : s = [r EXCEPT !.until = e, !.subscribed = TRUE] OBVIOUS
<1>1. r \in Row /\ Tally(r, 2 + Ended) /\ now \in Time
  BY RowHas, TallyMore
<1>2. e \in Ends
  BY <1>1, Numbers DEF Ends, Time
<1>3. s \in Row
  BY <1>1, <1>2, RowIs DEF Plain
<1>4. Tally(s, 2 + Ended) /\ SameRewards(r, s)
  BY <1>1 DEF Row, Tally, SameRewards
<1>5. /\ With(s, Full) \in Row /\ Tally(With(s, Full), 2 + Ended)
      /\ SameRewards(r, With(s, Full))
  BY <1>1, <1>3, <1>4, WithSound, FullSound DEF SameRewards
<1>6. InTransaction(u, With(s, Full), {})
  BY DEF Subscribe
<1> QED BY <1>5, <1>6, InTransactionTyped, OneStays DEF InTransaction

\* So does a granted premium.
LEMMA GrantPremiumTyped ==
    ASSUME TInv, NEW u \in Users, GrantPremium(u)
    PROVE  TInv' /\ RewardsStay
<1> PICK r : r = row[u] OBVIOUS
<1> PICK e : e = now + 1 OBVIOUS
<1> PICK s : s = [r EXCEPT !.until = e] OBVIOUS
<1>1. r \in Row /\ Tally(r, 2 + Ended) /\ now \in Time
  BY RowHas, TallyMore
<1>2. e \in Ends
  BY <1>1, Numbers DEF Ends, Time
<1>3. s \in Row
  BY <1>1, <1>2, RowIs DEF Plain
<1>4. Tally(s, 2 + Ended) /\ SameRewards(r, s)
  BY <1>1 DEF Row, Tally, SameRewards
<1>6. InTransaction(u, s, {})
  BY DEF GrantPremium
<1> QED BY <1>3, <1>4, <1>6, InTransactionTyped, OneStays DEF InTransaction

\* So does a pack of hearts.
LEMMA HeartPackTyped ==
    ASSUME TInv, NEW u \in Users, HeartPack(u)
    PROVE  TInv' /\ RewardsStay
<1> PICK r : r = row[u] OBVIOUS
<1>1. r \in Row /\ Tally(r, 2 + Ended)
  BY RowHas, TallyMore
<1>5. /\ With(r, Full) \in Row /\ Tally(With(r, Full), 2 + Ended)
      /\ SameRewards(r, With(r, Full))
  BY <1>1, WithSound, FullSound DEF SameRewards
<1>6. InTransaction(u, With(r, Full), {})
  BY DEF HeartPack
<1> QED BY <1>5, <1>6, InTransactionTyped, OneStays DEF InTransaction

\* A chest keeps the types, and what it leaves in the row.
LEMMA ChestTyped ==
    ASSUME TInv, NEW u \in Users, NEW kind \in {"xp", "hearts"}, ClaimDailyChest(u, kind)
    PROVE  /\ TInv' /\ row[u].chest # Day(now)
           /\ \E new : /\ InTransaction(u, new, {<<"chest", u, Day(now)>>})
                       /\ new.done = row[u].done /\ new.goal = row[u].goal
                       /\ new.referredBy = row[u].referredBy /\ new.chest = Day(now)
<1> PICK q : q = row[u] OBVIOUS
<1> PICK r : r = With(q, ComputeHearts(q, now)) OBVIOUS
<1> PICK useless : useless = (Premium(r, now) \/ r.hearts = MaxHearts) OBVIOUS
<1> PICK got : got = CASE kind = "xp" -> r
               [] kind = "hearts" /\ ~useless -> With(r, AddHearts(r, now, 1))
               [] OTHER -> [r EXCEPT !.gems = @ + 1] OBVIOUS
<1>1. q \in Row /\ Tally(q, 1 + Ended) /\ now \in Time /\ Ended \in Nat
  BY RowHas
<1>2. r \in Row /\ Tally(r, 1 + Ended) /\ SameRewards(q, r)
  BY <1>1, WithSound, HeartsSound
<1>3. Tally(r, 2 + Ended)
  BY <1>2, TallyMore
<1>4. got \in Row /\ Tally(got, 2 + Ended) /\ SameRewards(q, got)
  <2>1. got \in {r, With(r, AddHearts(r, now, 1)), [r EXCEPT !.gems = r.gems + 1]} OBVIOUS
  <2>2. CASE got = r
    BY <2>2, <1>2, <1>3
  <2>3. CASE got = With(r, AddHearts(r, now, 1))
    <3>1. AddHearts(r, now, 1) \in Hearts
      BY <1>1, <1>2, AddSound
    <3> QED BY <2>3, <3>1, <1>1, <1>2, <1>3, WithSound DEF SameRewards
  <2>4. CASE got = [r EXCEPT !.gems = r.gems + 1]
    <3> PICK g : g = r.gems + 1 OBVIOUS
    <3>1. g \in Wealth /\ g <= 2 + Ended
      <4>1. r.gems \in Nat /\ r.gems <= 1 + Ended
        BY <1>2 DEF Row, Tally
      <4>2. 1 + Ended <= MaxCalls
        <5>1. calls < MaxCalls
          BY DEF ClaimDailyChest, InTransaction
        <5> QED BY <5>1, EndedBound, Numbers
      <4> QED BY <4>1, <4>2, <1>1, Numbers DEF Wealth
    <3>2. got \in Row
      BY <2>4, <3>1, <1>2, RowIs DEF Plain
    <3>3. Tally(got, 2 + Ended)
      BY <2>4, <3>1, <1>2, <1>3 DEF Row, Tally
    <3>4. SameRewards(q, got)
      BY <2>4, <1>2 DEF Row, SameRewards
    <3> QED BY <3>2, <3>3, <3>4
  <2> QED BY <2>1, <2>2, <2>3, <2>4
<1> PICK d : d = Day(now) OBVIOUS
<1>5. d \in Days
  BY <1>1, DaySound, Numbers DEF Days, Time
<1>6. Opened(got) = [got EXCEPT !.chest = d]
  BY DEF Opened
<1>7. Opened(got) \in Row
  <2>1. got \in Plain
    BY <1>4, RowIs
  <2>2. [got EXCEPT !.chest = d] \in Plain
    BY <2>1, <1>5 DEF Plain
  <2> QED BY <2>2, <1>6, RowIs
<1>8. Tally(Opened(got), 2 + Ended)
  BY <1>4, <1>6, SMTT(30) DEF Row, Tally
<1>9. /\ Opened(got).done = q.done /\ Opened(got).goal = q.goal
      /\ Opened(got).referredBy = q.referredBy /\ Opened(got).chest = d
  BY <1>4, <1>6, SMTT(30) DEF Row, SameRewards
<1>10. InTransaction(u, Opened(got), {<<"chest", u, d>>}) /\ q.chest # d
  BY DEF ClaimDailyChest
<1> QED BY <1>7, <1>8, <1>9, <1>10, InTransactionTyped

\* A session of review keeps types and rewards.
LEMMA ReviewTyped ==
    ASSUME TInv, NEW u \in Users, Review(u)
    PROVE  TInv' /\ RewardsStay
<1>1. RowsFit(2 + Ended)
  BY SameFits, RowHas DEF Review
<1>2. RestTyped
  BY DEF Review, RestTyped, TInv, Typed, TypeOK
<1>3. calls' = calls + 1 /\ calls' \in 0..MaxCalls
  BY Numbers DEF Review, TInv, Typed, TypeOK
<1> QED BY <1>1, <1>2, <1>3, Transacts DEF Review, RewardsStay, SameRewards

\* So does the beginning of a request.
LEMMA BeginTyped ==
    ASSUME TInv, NEW p \in Proc, NEW u \in Users, NEW kind \in Ops,
           NEW arg \in Lessons \cup Time \cup Users \cup {None}, Begin(p, u, kind, arg)
    PROVE  TInv' /\ RewardsStay
<1> PICK r : r = row[u] OBVIOUS
<1> PICK q : q = [op |-> kind, step |-> "read", user |-> u, arg |-> arg, t |-> now, row |-> r]
  OBVIOUS
<1>1. r \in Row /\ Tally(r, 1 + Ended) /\ now \in Time /\ Ended \in Nat
  BY RowHas
<1>2. q \in Request
  BY <1>1 DEF Request, Asked, Arg
<1>3. Apt(q)
  <2>1. kind = "complete" => arg \in Lessons
    BY DEF Begin, Allowed
  <2>2. kind = "regain" => arg \in Time
    BY <1>1 DEF Begin, Allowed
  <2>3. kind = "redeem" => arg \in Users \ {u}
    BY DEF Begin, Allowed
  <2> QED BY <2>1, <2>2, <2>3 DEF Apt
<1>4. RowsFit(1 + Ended)
  BY <1>1, SameFits DEF Begin
<1>5. RestTyped
  BY RestStays DEF Begin
<1>6. Idle(p) /\ calls' = calls + 1 /\ calls' \in 0..MaxCalls /\ req' = [req EXCEPT ![p] = q]
  BY Numbers DEF Begin, TInv, Typed, TypeOK
<1>7. Tally(q.row, 1 + Ended)
  BY <1>1
<1>8. TInv'
  BY <1>2, <1>3, <1>4, <1>5, <1>6, <1>7, GoesOn
<1> QED BY <1>8 DEF Begin, RewardsStay, SameRewards

\* So does the passing of time.
LEMMA TickTyped ==
    ASSUME TInv, Tick
    PROVE  TInv' /\ RewardsStay
<1>1. Busy' = Busy
  BY DEF Tick, Busy, Idle
<1>2. now' \in Time
  BY Numbers DEF Tick, TInv, Typed, TypeOK, Time
<1>3. TypeOK'
  BY <1>2 DEF Tick, TInv, Typed, TypeOK, Idle
<1>4. Typed'
  BY <1>1, <1>3 DEF Tick, TInv, Typed, Apt
<1>5. Counted'
  BY <1>1 DEF Tick, TInv, Counted, Ended
<1> QED BY <1>4, <1>5 DEF TInv, Tick, RewardsStay, SameRewards

\* What a request at a step has, and the row it is about.
LEMMA AtBusy ==
    ASSUME TInv, NEW p \in Proc, NEW kind, NEW step, At(p, kind, step)
    PROVE  /\ p \in Busy /\ req[p] \in Request /\ Apt(req[p]) /\ req[p].row \in Row
           /\ req[p].user \in Users /\ req[p].t \in Time
           /\ Ended \in Nat /\ 1 + Ended \in Nat /\ 2 + Ended \in Nat
           /\ Tally(req[p].row, 1 + Ended) /\ Tally(req[p].row, 2 + Ended)
           /\ row[req[p].user] \in Row /\ Tally(row[req[p].user], 1 + Ended)
           /\ Tally(row[req[p].user], 2 + Ended)
           /\ req[p].op = kind /\ req[p].step = step
<1>1. p \in Busy /\ req[p].op = kind /\ req[p].step = step
  BY DEF At, Busy
<1>2. Ended \in Nat /\ 1 + Ended \in Nat /\ 2 + Ended \in Nat /\ 1 + Ended <= 2 + Ended
  BY DEF TInv, Counted
<1>3. /\ req[p] \in Request /\ Apt(req[p]) /\ req[p].row \in Row
      /\ req[p].user \in Users /\ req[p].t \in Time
      /\ Tally(req[p].row, 1 + Ended) /\ Tally(req[p].row, 2 + Ended)
  BY <1>1, <1>2, HeldTallies
<1>4. row[req[p].user] \in Row /\ Tally(row[req[p].user], 1 + Ended)
  BY <1>3, RowHas
<1>5. Tally(row[req[p].user], 2 + Ended)
  BY <1>4, TallyMore
<1> QED BY <1>1, <1>2, <1>3, <1>4, <1>5

\* A request that writes a row that fits, and ends, keeps the types.
LEMMA WritesEnd ==
    ASSUME TInv, NEW p \in Busy, NEW new \in Row, Tally(new, 2 + Ended), Writes(p, new), End(p),
           calls' = calls, RestTyped, SameRewards(row[req[p].user], new)
    PROVE  TInv' /\ RewardsStay
<1>1. req[p].user \in Users /\ 2 + Ended \in Nat /\ 1 + Ended \in Nat /\ 1 + Ended <= 2 + Ended
  BY HeldTallies DEF TInv, Counted
<1>2. row' = [row EXCEPT ![req[p].user] = new]
  BY DEF Writes
<1>3. RowsFit(2 + Ended)
  BY <1>1, <1>2, OneFits
<1>4. RewardsStay
  BY <1>1, <1>2, OneStays
<1> QED BY <1>3, <1>4, Finishes

\* A row with some columns of another is a row of the same rewards.
LEMMA MergeSound ==
    ASSUME NEW r \in Row, NEW s \in Row, NEW o \in Row, NEW m, NEW n \in Nat, Tally(s, n),
           Tally(o, n), SameRewards(r, s),
           m = [c \in DOMAIN r |-> IF s[c] = r[c] THEN o[c] ELSE s[c]]
    PROVE  m \in Row /\ Tally(m, n) /\ SameRewards(o, m)
<1>1. DOMAIN r = Columns
  BY Cols
<1>2. m = [c \in Columns |-> IF s[c] = r[c] THEN o[c] ELSE s[c]]
  BY <1>1
<1>3. m \in Row
  BY <1>2, RowIs DEF Plain, Columns
<1>4. Tally(m, n)
  BY <1>2 DEF Tally, Columns
<1>5. SameRewards(o, m)
  BY <1>2 DEF SameRewards, Columns
<1> QED BY <1>3, <1>4, <1>5

\* No more freezes are taken than there are.
LEMMA SparedSound ==
    ASSUME NEW r \in Row, NEW t \in Time
    PROVE  Spared(r, t) \in 0..r.freezes
<1>1. Day(t) \in Nat /\ Day(r.active) \in Nat
  BY DaySound DEF Row, Time
<1>2. Needed(r, t) \in Nat
  BY <1>1 DEF Needed, Missed, Most
<1> QED BY <1>2 DEF Spared, Row

\* What a synchronisation computes from the row it was given.
LEMMA SyncedSound ==
    ASSUME NEW r \in Row, NEW t \in Time, NEW n \in Nat, Tally(r, n)
    PROVE  Synced(r, t) \in Row /\ Tally(Synced(r, t), n) /\ SameRewards(r, Synced(r, t))
<1> PICK s : s = SettleStreak(r, t) OBVIOUS
<1> PICK w : w = With(s, ComputeHearts(r, t)) OBVIOUS
<1>1. s \in Row /\ Tally(s, n) /\ SameRewards(r, s)
  BY SettleSound
<1>2. w \in Row /\ Tally(w, n) /\ SameRewards(r, w)
  BY <1>1, WithSound, HeartsSound DEF SameRewards
<1>3. w.freezes = r.freezes
  <2>1. s.freezes = r.freezes
    BY DEF SettleStreak, Row
  <2> QED BY <2>1, <1>1 DEF With, Row
<1> PICK f : f = w.freezes - Spared(r, t) OBVIOUS
<1> PICK a : a = IF Spared(r, t) > 0 THEN w.active ELSE r.active OBVIOUS
<1>4. f \in Stored
  BY <1>3, SparedSound, Numbers DEF Row, Stored
<1>5. a \in Time
  BY <1>2 DEF Row
<1>6. Synced(r, t) = [w EXCEPT !.freezes = f, !.active = a]
  BY DEF Synced
<1>7. Synced(r, t) \in Row
  BY <1>2, <1>4, <1>5, <1>6, RowIs, ZenonT(60) DEF Plain
<1>8. Tally(Synced(r, t), n) /\ SameRewards(r, Synced(r, t))
  BY <1>2, <1>6 DEF Row, Tally, SameRewards
<1> QED BY <1>7, <1>8

\* A synchronisation keeps types and rewards, however old its row.
LEMMA SyncTyped ==
    ASSUME TInv, NEW p \in Proc, SyncWrite(p)
    PROVE  TInv' /\ RewardsStay
<1> PICK q : q = req[p] OBVIOUS
<1> PICK o : o = row[q.user] OBVIOUS
<1> PICK s : s = Synced(q.row, q.t) OBVIOUS
<1> PICK m : m = [c \in DOMAIN q.row |-> IF s[c] = q.row[c] THEN o[c] ELSE s[c]] OBVIOUS
<1>0. At(p, "sync", "read")
  BY DEF SyncWrite
<1>1. /\ p \in Busy /\ q.row \in Row /\ q.t \in Time /\ 2 + Ended \in Nat
      /\ Tally(q.row, 2 + Ended) /\ o \in Row /\ Tally(o, 2 + Ended)
  BY <1>0, AtBusy
<1>2. s \in Row /\ Tally(s, 2 + Ended) /\ SameRewards(q.row, s)
  BY <1>1, SyncedSound
<1>3. m \in Row /\ Tally(m, 2 + Ended) /\ SameRewards(o, m)
  BY <1>1, <1>2, MergeSound
<1>4. Writes(p, m) /\ End(p) /\ calls' = calls
  BY DEF SyncWrite
<1>5. RestTyped
  BY RestStays DEF SyncWrite
<1> QED BY <1>1, <1>3, <1>4, <1>5, WritesEnd

\* So does the loss of a heart.
LEMMA LostTyped ==
    ASSUME TInv, NEW p \in Proc, ApplyHeartLoss(p)
    PROVE  TInv' /\ RewardsStay
<1> PICK q : q = req[p] OBVIOUS
<1> PICK r : r = row[q.user] OBVIOUS
<1> PICK full : full = (ComputeHearts(q.row, q.t) = Full) OBVIOUS
<1>0. At(p, "answer", "judge")
  BY DEF ApplyHeartLoss
<1>1. p \in Busy /\ q.t \in Time /\ r \in Row /\ Tally(r, 2 + Ended)
  BY <1>0, AtBusy
<1>2. /\ Lost(r, full, q.t) \in Row /\ Tally(Lost(r, full, q.t), 2 + Ended)
      /\ SameRewards(r, Lost(r, full, q.t))
  <2>1. CASE r.hearts = 0
    BY <2>1, <1>1 DEF Lost, SameRewards
  <2>2. CASE r.hearts # 0
    <3> PICK h : h = r.hearts - 1 OBVIOUS
    <3> PICK a : a = IF full THEN q.t ELSE r.anchor OBVIOUS
    <3>1. h \in Lives /\ a \in Time \cup {None}
      BY <2>2, <1>1, Numbers DEF Row, Lives
    <3>2. Lost(r, full, q.t) = [r EXCEPT !.hearts = h, !.anchor = a]
      BY <2>2 DEF Lost
    <3>3. Lost(r, full, q.t) \in Row
      <4>1. [r EXCEPT !.hearts = h, !.anchor = a] \in Row
        BY <1>1, <3>1, PutHearts
      <4> QED BY <4>1, <3>2
    <3>4. Tally(Lost(r, full, q.t), 2 + Ended) /\ SameRewards(r, Lost(r, full, q.t))
      BY <1>1, <3>2, ZenonT(60) DEF Row, Tally, SameRewards
    <3> QED BY <3>3, <3>4
  <2> QED BY <2>1, <2>2
<1>4. Writes(p, Lost(r, full, q.t)) /\ End(p) /\ calls' = calls
  BY DEF ApplyHeartLoss
<1>5. RestTyped
  BY RestStays DEF ApplyHeartLoss
<1> QED BY <1>1, <1>2, <1>4, <1>5, WritesEnd

\* So does the regeneration an answer begins with.
LEMMA SettleTyped ==
    ASSUME TInv, NEW p \in Proc, AnswerSettle(p)
    PROVE  TInv' /\ RewardsStay
<1> PICK q : q = req[p] OBVIOUS
<1> PICK h : h = ComputeHearts(q.row, q.t) OBVIOUS
<1> PICK new : new = IF With(q.row, h) = q.row THEN row[q.user] ELSE With(row[q.user], h) OBVIOUS
<1>0. At(p, "answer", "read")
  BY DEF AnswerSettle
<1>1. /\ p \in Busy /\ q \in Request /\ q.user \in Users /\ q.row \in Row /\ q.t \in Time
      /\ q.op = "answer" /\ q.step = "read"
      /\ row[q.user] \in Row
      /\ Tally(row[q.user], 1 + Ended) /\ Tally(row[q.user], 2 + Ended) /\ Tally(q.row, 1 + Ended)
      /\ 1 + Ended \in Nat /\ Ended \in Nat
  BY <1>0, AtBusy
<1>2. h \in Hearts
  BY <1>1, HeartsSound
<1>3. /\ new \in Row /\ Tally(new, 1 + Ended) /\ Tally(new, 2 + Ended)
      /\ SameRewards(row[q.user], new)
  BY <1>1, <1>2, WithSound DEF SameRewards
<1>4. Writes(p, new) /\ calls' = calls
  BY DEF AnswerSettle
<1>5. RestTyped
  BY RestStays DEF AnswerSettle
<1>6. CASE End(p)
  BY <1>1, <1>3, <1>4, <1>5, <1>6, WritesEnd
<1>7. CASE req' = [req EXCEPT ![p].step = "judge"]
  <2> PICK x : x = [q EXCEPT !.step = "judge"] OBVIOUS
  <2>1. q \in Asked
    BY <1>1 DEF Request, Claimed
  <2>2. x \in Request
    BY <2>1 DEF Request, Asked
  <2>3. Apt(x) /\ x.row = q.row
    BY <2>1, <1>1 DEF Asked, Apt
  <2>4. req' = [req EXCEPT ![p] = x]
    BY <1>7
  <2>5. row' = [row EXCEPT ![q.user] = new]
    BY <1>4 DEF Writes
  <2>a. 1 + Ended <= 1 + Ended
    BY <1>1
  <2>6. RowsFit(1 + Ended)
    BY <2>5, <2>a, <1>1, <1>3, OneFits
  <2>7. RewardsStay
    BY <2>5, <1>1, <1>3, OneStays
  <2>8. p \in Proc OBVIOUS
  <2> QED BY <2>2, <2>3, <2>4, <2>6, <2>7, <1>1, <1>4, <1>5, GoesOn
<1> QED BY <1>6, <1>7 DEF AnswerSettle

\* A row never owes gems.
LEMMA GemsCounted == ASSUME NEW x \in Row PROVE x.gems \in Nat
  BY DEF Row

\* A lesson keeps the types, and what it writes the first time.
LEMMA CompleteTyped ==
    ASSUME TInv, NEW p \in Proc, Complete(p)
    PROVE  /\ TInv' /\ req[p].user \in Users
           /\ ~FirstCompletion(req[p]) => row' = row
           /\ FirstCompletion(req[p]) =>
                 \E new : /\ row' = [row EXCEPT ![req[p].user] = new]
                          /\ new.done = row[req[p].user].done \cup {req[p].arg}
                          /\ new.goal = row[req[p].user].goal
                          /\ new.referredBy = row[req[p].user].referredBy
                          /\ new.chest = row[req[p].user].chest
<1> PICK q : q = req[p] OBVIOUS
<1> PICK r : r = row[q.user] OBVIOUS
<1> PICK a : a = ApplyActivity(r, q.t) OBVIOUS
<1> PICK f : f = a.freezes - Spared(r, q.t) OBVIOUS
<1> PICK g : g = a.gems + 1 OBVIOUS
<1> PICK d : d = a.done \cup {q.arg} OBVIOUS
<1> PICK new : new = [a EXCEPT !.done = d, !.freezes = f, !.gems = g] OBVIOUS
<1>0. At(p, "complete", "read")
  BY DEF Complete
<1>1. /\ p \in Busy /\ q.user \in Users /\ q.t \in Time /\ q.op = "complete" /\ Apt(q)
      /\ r \in Row /\ Tally(r, 1 + Ended) /\ Tally(r, 2 + Ended) /\ 1 + Ended \in Nat /\ Ended \in Nat
  BY <1>0, AtBusy
<1>2. q.arg \in Lessons
  BY <1>1 DEF Apt
<1>3. 1 + Ended \in 0..MaxCalls
  <2>1. Ended < calls /\ calls <= MaxCalls /\ calls \in Nat
    BY <1>1, EndedBound, Numbers
  <2> QED BY <2>1, <1>1, Numbers
<1>4. /\ a \in Row /\ SameRewards(r, a) /\ Tally(a, 2 + Ended) /\ a.gems <= 1 + Ended
      /\ a.freezes = r.freezes
  <2>1. (1 + Ended) + 1 = 2 + Ended
    BY <1>1
  <2> QED BY <2>1, <1>1, <1>3, ActivitySound
<1>5. f \in Stored
  <2>1. Spared(r, q.t) \in 0..r.freezes
    BY <1>1, SparedSound
  <2>2. r.freezes \in 0..MaxFreezes /\ a.freezes = r.freezes
    BY <1>1, <1>4 DEF Row
  <2> QED BY <2>1, <2>2, Numbers DEF Stored
<1>6. g \in Wealth /\ g <= 2 + Ended
  <2>1. a \in Row
    BY <1>4
  <2>2. a.gems \in Nat
    BY <2>1, GemsCounted
  <2> QED BY <2>2, <1>4, <1>3, <1>1, Numbers DEF Wealth
<1>7. d \in SUBSET Lessons
  BY <1>4, <1>2 DEF Row
<1>8. new \in Row
  BY <1>4, <1>5, <1>6, <1>7, PutLesson, ZenonT(60)
<1>9. new.streak = a.streak /\ new.last = a.last /\ new.code = a.code /\ new.gems = g /\ new.done = d
      /\ new.goal = a.goal /\ new.chest = a.chest /\ new.referredBy = a.referredBy
  BY <1>4 DEF Row
<1>10. Tally(new, 2 + Ended)
  BY <1>9, <1>6, <1>4 DEF Tally
<1>11. RestTyped
  BY RestStays DEF Complete
<1>12. /\ row' = [row EXCEPT ![q.user] = IF FirstCompletion(q) THEN new ELSE r] /\ End(p)
       /\ calls' = calls
  BY DEF Complete, Writes
<1>13. RowsFit(2 + Ended)
  <2>1. 2 + Ended \in Nat /\ 1 + Ended <= 2 + Ended
    BY <1>1
  <2>2. CASE FirstCompletion(q)
    BY <2>1, <2>2, <1>1, <1>8, <1>10, <1>12, OneFits
  <2>3. CASE ~FirstCompletion(q)
    BY <2>1, <2>3, <1>1, <1>12, OneFits
  <2> QED BY <2>2, <2>3
<1>14. TInv'
  BY <1>1, <1>11, <1>12, <1>13, Finishes
<1>15. FirstCompletion(q) =>
              \E x : /\ row' = [row EXCEPT ![q.user] = x]
                     /\ x.done = r.done \cup {q.arg} /\ x.goal = r.goal
                     /\ x.referredBy = r.referredBy /\ x.chest = r.chest
  <2> HAVE FirstCompletion(q)
  <2>1. row' = [row EXCEPT ![q.user] = new]
    BY <1>12
  <2>2. /\ new.done = r.done \cup {q.arg} /\ new.goal = r.goal /\ new.referredBy = r.referredBy
        /\ new.chest = r.chest
    BY <1>9, <1>4 DEF SameRewards
  <2> WITNESS new
  <2> QED BY <2>1, <2>2
<1>16. ~FirstCompletion(q) => row' = row
  BY <1>12, <1>1 DEF TInv, Typed, TypeOK
<1> QED BY <1>1, <1>14, <1>15, <1>16

\* A heart regained by review keeps types and the other rewards.
LEMMA RegainTyped ==
    ASSUME TInv, NEW p \in Proc, Regain(p)
    PROVE  TInv' /\ RewardsStay
<1> PICK q : q = req[p] OBVIOUS
<1> PICK r : r = row[q.user] OBVIOUS
<1> PICK w : w = With(r, AddHearts(r, q.t, 1)) OBVIOUS
<1> PICK d : d = Day(q.t) OBVIOUS
<1> PICK n : n = UsedToday(r, q.t) + 1 OBVIOUS
<1> PICK new : new = [w EXCEPT !.reviewDay = d, !.reviewUsed = n] OBVIOUS
<1>0. At(p, "regain", "read")
  BY DEF Regain
<1>1. /\ p \in Busy /\ q.user \in Users /\ q.t \in Time /\ q.op = "regain" /\ Apt(q)
      /\ r \in Row /\ Tally(r, 2 + Ended) /\ 2 + Ended \in Nat
  BY <1>0, AtBusy
<1>2. q.arg \in Time
  BY <1>1 DEF Apt
<1>3. w \in Row /\ Tally(w, 2 + Ended) /\ SameRewards(r, w)
  BY <1>1, AddSound, WithSound
<1>4. d \in Days
  BY <1>1, DaySound, Numbers DEF Days, Time
<1>5. n \in Reviews
  <2>1. UsedToday(r, q.t) < ReviewPerDay
    BY DEF Regain
  <2>2. UsedToday(r, q.t) \in Nat
    BY <1>1, Numbers DEF UsedToday, Row
  <2> QED BY <2>1, <2>2, Numbers DEF Reviews
<1>6. new \in Row
  BY <1>3, <1>4, <1>5, PutReview
<1>7. Tally(new, 2 + Ended) /\ SameRewards(r, new)
  BY <1>3 DEF Row, Tally, SameRewards
<1>8. Writes(p, new) /\ End(p) /\ calls' = calls
  BY DEF Regain
<1>9. RestTyped
  <2>1. session' = [session EXCEPT ![q.user].claimed = q.arg]
    BY DEF Regain
  <2>2. session \in [Users -> [reviewed : Time \cup {None}, claimed : Time \cup {None}]]
    BY DEF TInv, Typed, TypeOK
  <2>3. session' \in [Users -> [reviewed : Time \cup {None}, claimed : Time \cup {None}]]
    BY <2>1, <2>2, <1>1, <1>2
  <2> QED BY <2>3 DEF RestTyped, Regain, TInv, Typed, TypeOK
<1> QED BY <1>1, <1>6, <1>7, <1>8, <1>9, WritesEnd

\* So do granted hearts.
LEMMA GrantTyped ==
    ASSUME TInv, NEW p \in Proc, GrantHearts(p)
    PROVE  TInv' /\ RewardsStay
<1> PICK q : q = req[p] OBVIOUS
<1> PICK r : r = row[q.user] OBVIOUS
<1> PICK n : n = Least(MaxHearts, q.row.hearts + Gift) OBVIOUS
<1> PICK a : a = IF n = MaxHearts THEN None ELSE r.anchor OBVIOUS
<1> PICK new : new = [r EXCEPT !.hearts = n, !.anchor = a] OBVIOUS
<1>0. At(p, "grant", "read")
  BY DEF GrantHearts
<1>1. p \in Busy /\ q.row \in Row /\ r \in Row /\ Tally(r, 2 + Ended)
  BY <1>0, AtBusy
<1>2. n \in Lives /\ a \in Time \cup {None}
  <2>1. n \in Lives
    BY <1>1, Numbers DEF Row, Lives, Least
  <2>2. a \in Time \cup {None}
    BY <1>1 DEF Row
  <2> QED BY <2>1, <2>2
<1>3. new \in Row
  BY <1>1, <1>2, PutHearts
<1>4. Tally(new, 2 + Ended) /\ SameRewards(r, new)
  BY <1>1 DEF Row, Tally, SameRewards
<1>5. Writes(p, new) /\ End(p) /\ calls' = calls
  BY DEF GrantHearts
<1>6. RestTyped
  BY RestStays DEF GrantHearts
<1> QED BY <1>1, <1>3, <1>4, <1>5, <1>6, WritesEnd

\* So does the repair of a streak.
LEMMA RepairTyped ==
    ASSUME TInv, NEW p \in Proc, StreakRepair(p)
    PROVE  TInv' /\ RewardsStay
<1> PICK q : q = req[p] OBVIOUS
<1> PICK r : r = row[q.user] OBVIOUS
<1> PICK s : s = RepairStreak(q.row, q.t) OBVIOUS
<1> PICK new:
        new = [r EXCEPT !.streak = s.streak, !.frozen = FALSE, !.last = s.last, !.active = s.active]
  OBVIOUS
<1>0. At(p, "repair", "read")
  BY DEF StreakRepair
<1>1. /\ p \in Busy /\ q.row \in Row /\ q.t \in Time /\ Tally(q.row, 2 + Ended) /\ r \in Row
      /\ Tally(r, 2 + Ended) /\ 2 + Ended \in Nat
  BY <1>0, AtBusy
<1>2. s \in Row /\ Tally(s, 2 + Ended)
  BY <1>1, RepairSound
<1>3. new \in Row
  BY <1>1, <1>2, PutStreak
<1>4. Tally(new, 2 + Ended) /\ SameRewards(r, new)
  BY <1>1, <1>2 DEF Row, Tally, SameRewards
<1>5. Writes(p, new) /\ End(p) /\ calls' = calls
  BY DEF StreakRepair
<1>6. RestTyped
  BY RestStays DEF StreakRepair
<1> QED BY <1>1, <1>3, <1>4, <1>5, <1>6, WritesEnd

\* The accounts that used a code can be counted.
LEMMA FilleulsFinite ==
    ASSUME NEW u
    PROVE  IsFiniteSet(Filleuls(u)) /\ Cardinality(Filleuls(u)) \in Nat
<1>1. Filleuls(u) \subseteq Users
  BY DEF Filleuls
<1>2. IsFiniteSet(Filleuls(u))
  BY <1>1, LearnerAssumption, FS_Subset
<1> QED BY <1>2, FS_CardinalityType

\* The check of a revocation keeps types and rewards.
LEMMA RevokeCheckTyped ==
    ASSUME TInv, NEW p \in Proc, RevokeCheck(p)
    PROVE  TInv' /\ RewardsStay
<1> PICK q : q = req[p] OBVIOUS
<1>0. At(p, "revoke", "read")
  BY DEF RevokeCheck
<1>1. /\ p \in Busy /\ q \in Request /\ Apt(q) /\ q.op = "revoke" /\ q.step = "read"
      /\ Ended \in Nat /\ 1 + Ended \in Nat /\ 2 + Ended \in Nat /\ Tally(q.row, 1 + Ended)
  BY <1>0, AtBusy
<1>2. calls' = calls /\ row' = row /\ RestTyped
  BY RestStays DEF RevokeCheck
<1>3. RewardsStay
  BY <1>2 DEF RewardsStay, SameRewards
<1>a. 1 + Ended <= 1 + Ended /\ 1 + Ended <= 2 + Ended
  BY <1>1
<1>4. RowsFit(1 + Ended) /\ RowsFit(2 + Ended)
  BY <1>a, <1>1, <1>2, SameFits
<1>5. CASE End(p)
  BY <1>1, <1>2, <1>3, <1>4, <1>5, Finishes
<1>6. CASE req' = [req EXCEPT ![p].step = "write"]
  <2> PICK x : x = [q EXCEPT !.step = "write"] OBVIOUS
  <2>1. q \in Asked
    BY <1>1 DEF Request, Claimed
  <2>2. x \in Request
    BY <2>1 DEF Request, Asked
  <2>3. Apt(x) /\ x.row = q.row
    BY <2>1, <1>1 DEF Asked, Apt
  <2>4. req' = [req EXCEPT ![p] = x]
    BY <1>6
  <2>5. p \in Proc OBVIOUS
  <2> QED BY <2>2, <2>3, <2>4, <1>1, <1>2, <1>3, <1>4, GoesOn
<1> QED BY <1>5, <1>6 DEF RevokeCheck

\* So does the revocation.
LEMMA RevokeTyped ==
    ASSUME TInv, NEW p \in Proc, RevokeGrantedPremium(p)
    PROVE  TInv' /\ RewardsStay
<1> PICK r : r = row[req[p].user] OBVIOUS
<1> PICK new : new = [r EXCEPT !.until = None] OBVIOUS
<1>0. At(p, "revoke", "write")
  BY DEF RevokeGrantedPremium
<1>1. p \in Busy /\ r \in Row /\ Tally(r, 2 + Ended)
  BY <1>0, AtBusy
<1>2. None \in Ends
  BY DEF Ends
<1>3. new \in Row
  BY <1>1, <1>2, RowIs DEF Plain
<1>4. Tally(new, 2 + Ended) /\ SameRewards(r, new)
  BY <1>1 DEF Row, Tally, SameRewards
<1>5. Writes(p, new) /\ End(p) /\ calls' = calls
  BY DEF RevokeGrantedPremium
<1>6. RestTyped
  BY RestStays DEF RevokeGrantedPremium
<1> QED BY <1>1, <1>3, <1>4, <1>5, <1>6, WritesEnd

\* So does the creation of a code.
LEMMA CodeTyped ==
    ASSUME TInv, NEW p \in Proc, GetOrCreate(p)
    PROVE  TInv' /\ RewardsStay
<1> PICK r : r = row[req[p].user] OBVIOUS
<1> PICK n : n = r.code + 1 OBVIOUS
<1> PICK new : new = [r EXCEPT !.code = n] OBVIOUS
<1>0. At(p, "code", "read")
  BY DEF GetOrCreate
<1>1. p \in Busy /\ r \in Row /\ Tally(r, 1 + Ended) /\ Tally(r, 2 + Ended) /\ Ended \in Nat
  BY <1>0, AtBusy
<1>2. n \in Counts /\ n <= 2 + Ended
  <2>1. Ended < calls /\ calls <= MaxCalls /\ calls \in Nat
    BY <1>1, EndedBound, Numbers
  <2>2. r.code \in Nat /\ r.code <= 1 + Ended
    BY <1>1 DEF Row, Tally
  <2> QED BY <2>1, <2>2, <1>1, Numbers DEF Counts
<1>3. new \in Row
  BY <1>1, <1>2, RowIs DEF Plain
<1>4. Tally(new, 2 + Ended) /\ SameRewards(r, new)
  BY <1>1, <1>2 DEF Row, Tally, SameRewards
<1>5. Writes(p, new) /\ End(p) /\ calls' = calls
  BY DEF GetOrCreate
<1>6. RestTyped
  BY RestStays DEF GetOrCreate
<1> QED BY <1>1, <1>3, <1>4, <1>5, <1>6, WritesEnd

\* So does the end of a request that writes nothing.
LEMMA DropTyped ==
    ASSUME TInv, NEW p \in Proc, Drop(p)
    PROVE  TInv' /\ RewardsStay
<1>1. p \in Busy /\ Ended \in Nat /\ 2 + Ended \in Nat /\ 1 + Ended <= 2 + Ended
  BY DEF Drop, Busy, TInv, Counted
<1>2. RowsFit(2 + Ended)
  BY <1>1, SameFits DEF Drop
<1>3. RestTyped
  BY DEF Drop, RestTyped, TInv, Typed, TypeOK
<1>4. End(p) /\ calls' = calls
  BY DEF Drop
<1>5. RewardsStay
  BY DEF Drop, RewardsStay, SameRewards
<1> QED BY <1>1, <1>2, <1>3, <1>4, <1>5, Finishes

\* So does the claim of a referrer.
LEMMA ReferrerTyped ==
    ASSUME TInv, NEW p \in Proc, ClaimReferrer(p)
    PROVE  TInv' /\ RewardsStay
<1> PICK q : q = req[p] OBVIOUS
<1> PICK n : n = Cardinality(Filleuls(q.arg)) + 1 OBVIOUS
<1> PICK r : r = row[q.arg] OBVIOUS
<1> PICK x:
        x = [op |-> "redeem", step |-> "claimed", user |-> q.user, arg |-> q.arg, t |-> q.t,
             count |-> n, row |-> r]
  OBVIOUS
<1>0. At(p, "redeem", "read")
  BY DEF ClaimReferrer
<1>1. /\ p \in Busy /\ Apt(q) /\ q.op = "redeem" /\ q.user \in Users /\ q.t \in Time
      /\ 1 + Ended \in Nat
  BY <1>0, AtBusy
<1>2. q.arg \in Users \ {q.user}
  BY <1>1 DEF Apt
<1>3. n \in Nat
  BY FilleulsFinite
<1>4. r \in Row /\ Tally(r, 1 + Ended)
  BY <1>2, RowHas
<1>5. x \in Request
  BY <1>1, <1>2, <1>3, <1>4 DEF Request, Claimed
<1>6. Apt(x)
  BY <1>2 DEF Apt
<1>7. req' = [req EXCEPT ![p] = x] /\ calls' = calls /\ row' = row
  BY DEF ClaimReferrer
<1>8. RewardsStay
  BY <1>7 DEF RewardsStay, SameRewards
<1>a. 1 + Ended <= 1 + Ended
  BY <1>1
<1>9. RowsFit(1 + Ended)
  BY <1>a, <1>1, <1>7, SameFits
<1>10. RestTyped
  <2>1. lock' = [lock EXCEPT ![q.user] = p]
    BY DEF ClaimReferrer
  <2> QED BY <2>1 DEF ClaimReferrer, RestTyped, TInv, Typed, TypeOK
<1>11. Tally(x.row, 1 + Ended)
  BY <1>4
<1> QED BY <1>1, <1>5, <1>6, <1>7, <1>8, <1>9, <1>10, <1>11, GoesOn

\* The hearts of the new account.
LEMMA WelcomeSound ==
    ASSUME NEW r \in Row, NEW t \in Time, NEW n, Tally(r, n)
    PROVE  Welcome(r, t) \in Row /\ Tally(Welcome(r, t), n) /\ SameRewards(r, Welcome(r, t))
<1>1. AddHearts(r, t, Gift) \in Hearts
  BY AddSound, Numbers
<1> QED BY <1>1, WithSound DEF Welcome, SameRewards

\* A redemption keeps the types, and what it leaves in the two rows.
LEMMA RedeemTyped ==
    ASSUME TInv, NEW p \in Proc, Redeem(p)
    PROVE  /\ TInv' /\ req[p].user \in Users
           /\ req[p].arg \in Users \ {req[p].user} /\ req[p].count \in Nat
           /\ \A v \in Users \ {req[p].user} : SameRewards(row[v], row'[v])
           /\ row'[req[p].user].done = row[req[p].user].done
           /\ row'[req[p].user].chest = row[req[p].user].chest
           /\ row'[req[p].user].goal = row[req[p].user].goal
           /\ row'[req[p].user].referredBy = req[p].arg
<1> PICK q : q = req[p] OBVIOUS
<1> PICK u : u = q.user OBVIOUS
<1> PICK v : v = q.arg OBVIOUS
<1> PICK w : w = Welcome(row[u], q.t) OBVIOUS
<1> PICK x : x = [w EXCEPT !.referredBy = v] OBVIOUS
<1> PICK y : y = IF Touches(q) THEN With(row[v], AddHearts(q.row, q.t, Gift)) ELSE row[v] OBVIOUS
<1>0. At(p, "redeem", "claimed")
  BY DEF Redeem
<1>1. /\ p \in Busy /\ q \in Request /\ Apt(q) /\ q.op = "redeem" /\ q.step = "claimed"
      /\ u \in Users /\ q.t \in Time /\ q.row \in Row
      /\ row[u] \in Row /\ Tally(row[u], 2 + Ended)
      /\ 2 + Ended \in Nat /\ 1 + Ended \in Nat /\ Ended \in Nat
  BY <1>0, AtBusy
<1>2. v \in Users /\ v # u /\ q.count \in Nat
  BY <1>1 DEF Apt, Request, Asked, Claimed
<1>3. w \in Row /\ Tally(w, 2 + Ended) /\ SameRewards(row[u], w)
  BY <1>1, WelcomeSound
<1>4. x \in Row
  BY <1>2, <1>3, RowIs DEF Plain
<1>5. /\ Tally(x, 2 + Ended) /\ x.done = row[u].done /\ x.chest = row[u].chest
      /\ x.goal = row[u].goal /\ x.referredBy = v
  BY <1>3 DEF Row, Tally, SameRewards
<1>6. row[v] \in Row /\ Tally(row[v], 1 + Ended)
  BY <1>2, RowHas
<1>7. Tally(row[v], 2 + Ended)
  BY <1>6, TallyMore
<1>8. AddHearts(q.row, q.t, Gift) \in Hearts
  BY <1>1, AddSound, Numbers
<1>9. y \in Row /\ Tally(y, 2 + Ended) /\ SameRewards(row[v], y)
  BY <1>6, <1>7, <1>8, WithSound DEF SameRewards
<1>10. row \in [Users -> Row] /\ \A z \in Users : Tally(row[z], 2 + Ended)
  <2>1. row \in [Users -> Row]
    BY DEF TInv, Typed, TypeOK
  <2>2. \A z \in Users : Tally(row[z], 2 + Ended)
    BY RowHas, TallyMore
  <2> QED BY <2>1, <2>2
<1>11. row' = [row EXCEPT ![v] = y, ![u] = x]
  <2>1. row' = [row EXCEPT ![v] = IF Touches(q) THEN With(row[v], AddHearts(q.row, q.t, Gift)) ELSE row[v],
                           ![u] = [Welcome(row[u], q.t) EXCEPT !.referredBy = v]]
    BY <1>1, <1>2, <1>10 DEF Redeem
  <2> QED BY <2>1
<1>12. /\ row' \in [Users -> Row] /\ row'[u] = x /\ row'[v] = y
       /\ \A z \in Users \ {u, v} : row'[z] = row[z]
  BY <1>1, <1>2, <1>4, <1>9, <1>10, <1>11
<1>13. RowsFit(2 + Ended)
  BY <1>12, <1>10, <1>5, <1>9 DEF RowsFit
<1>14. End(p) /\ calls' = calls
  BY DEF Redeem
<1>15. RestTyped
  <2>1. lock' = [lock EXCEPT ![u] = None]
    BY DEF Redeem
  <2> QED BY <2>1 DEF Redeem, RestTyped, TInv, Typed, TypeOK
<1>16. TInv'
  BY <1>1, <1>13, <1>14, <1>15, Finishes
<1>17. \A z \in Users \ {u} : SameRewards(row[z], row'[z])
  <2>1. \A z \in Users \ {u, v} : SameRewards(row[z], row'[z])
    BY <1>12 DEF SameRewards
  <2> QED BY <2>1, <1>9, <1>12
<1> QED BY <1>1, <1>2, <1>5, <1>12, <1>16, <1>17

-----------------------------------------------------------------------------
(* Type correctness *)

\* The initial states satisfy TInv.
LEMMA TInit == Init => TInv
<1> SUFFICES ASSUME Init PROVE TInv OBVIOUS
<1>0. PICK coded \in {Users, Users \ Players}:
          row = [u \in Users |-> IF u \in coded THEN NewRow ELSE [NewRow EXCEPT !.code = 0]]
  BY DEF Init
<1>a. /\ 0 \in Counts /\ 1 \in Counts /\ 1 \in Lives /\ 0 \in Time
      /\ 1 \in Stored /\ 1 \in Wealth /\ None \in Ends
      /\ 0 \in Boosts /\ 0 \in Goals /\ -1 \in Days /\ 0 \in Reviews
  BY Numbers DEF Counts, Lives, Time, Stored, Wealth, Ends, Boosts, Goals, Days, Reviews
<1>1. NewRow \in Row
  BY <1>a, RowIs DEF Plain, NewRow
<1>2. [NewRow EXCEPT !.code = 0] \in Row
  BY <1>1, <1>a, RowIs DEF Plain
<1>3. row \in [Users -> Row]
  BY <1>0, <1>1, <1>2
<1>4. Busy = {}
  BY DEF Busy, Idle, Init, NoReq
<1>5. IsFiniteSet(Busy) /\ Ended = 0 /\ 1 + Ended = 1
  <2>1. IsFiniteSet(Busy) /\ Cardinality(Busy) = 0
    BY <1>4, FS_EmptySet
  <2> QED BY <2>1 DEF Ended, Init
<1>6. \A u \in Users : Tally(row[u], 1)
  <2>1. Tally(NewRow, 1)
    BY DEF NewRow, Tally
  <2>2. Tally([NewRow EXCEPT !.code = 0], 1)
    BY DEF NewRow, Tally
  <2> QED BY <1>0, <2>1, <2>2
<1>7. TypeOK
  <2>1. now \in Time /\ calls \in 0..MaxCalls
    BY <1>a, Numbers DEF Init
  <2>2. session \in [Users -> [reviewed : Time \cup {None}, claimed : Time \cup {None}]]
    BY DEF Init
  <2>3. lock \in [Users -> Proc \cup {None}]
    BY DEF Init
  <2>4. \A p \in Proc : Idle(p)
    BY <1>4 DEF Busy
  <2> QED BY <2>1, <2>2, <2>3, <2>4, <1>3 DEF TypeOK
<1>8. req \in [Proc -> {NoReq} \cup Request]
  BY DEF Init
<1> QED BY <1>4, <1>5, <1>6, <1>7, <1>8 DEF TInv, Typed, Counted

\* Every step preserves TInv.
LEMMA TStep == TInv /\ [Next]_vars => TInv'
<1> SUFFICES ASSUME TInv, [Next]_vars PROVE TInv' OBVIOUS
<1>1. CASE Tick
  BY <1>1, TickTyped
<1>2. ASSUME NEW u \in Users,
             \/ RefillHearts(u) \/ BuyStreakFreeze(u) \/ BuyDoubleXp(u)
             \/ SetStreakGoal(u) \/ ClaimStreakReward(u)
             \/ Subscribe(u) \/ GrantPremium(u) \/ HeartPack(u) \/ Review(u)
      PROVE  TInv'
  BY <1>2, RefillTyped, FreezeTyped, BoostTyped, GoalTyped, ClaimTyped, SubscribeTyped,
     GrantPremiumTyped, HeartPackTyped, ReviewTyped
<1>3. ASSUME NEW u \in Users, NEW kind \in {"xp", "hearts"}, ClaimDailyChest(u, kind)
      PROVE  TInv'
  BY <1>3, ChestTyped
<1>4. ASSUME NEW u \in Users, NEW p \in Proc, NEW kind \in Ops,
             NEW arg \in Lessons \cup Time \cup Users \cup {None}, Begin(p, u, kind, arg)
      PROVE  TInv'
  BY <1>4, BeginTyped
<1>5. ASSUME NEW p \in Proc, Step(p) PROVE TInv'
  <2>1. AbortDeadlock(p) => Drop(p)
    BY DEF AbortDeadlock
  <2> QED
    BY <1>5, <2>1, SyncTyped, SettleTyped, LostTyped, CompleteTyped, RegainTyped, GrantTyped,
       RevokeCheckTyped, RevokeTyped, RepairTyped, CodeTyped, ReferrerTyped, RedeemTyped,
       DropTyped DEF Step
<1>6. CASE UNCHANGED vars
  <2>1. Busy' = Busy
    BY <1>6 DEF vars, Busy, Idle
  <2> QED BY <1>6, <2>1 DEF vars, TInv, Typed, Counted, TypeOK, Idle, Apt, Ended
<1> QED BY <1>1, <1>2, <1>3, <1>4, <1>5, <1>6 DEF Next

\* The columns of every row stay within their ranges, for any number of users,
\* requests and lessons: no overlap of synchronisations, answers, lessons,
\* purchases and gifts takes hearts, freezes or gems out of theirs.
THEOREM TypeCorrect == Spec => []TypeOK
<1>1. TInv => TypeOK
  BY DEF TInv, Typed
<1> QED BY <1>1, TInit, TStep, PTL DEF Spec

-----------------------------------------------------------------------------
(* The ledger *)

\* A payment of nothing leaves the ledger as it is.
LEMMA NothingPaid ==
    ASSUME IsABag(paid), Pay({})
    PROVE  paid' = paid
  BY DEF IsABag, Pay, SetToBag, (+)

\* What a payment adds to the ledger, key by key.
LEMMA Paying ==
    ASSUME IsABag(paid), NEW K, Pay(K)
    PROVE  /\ IsABag(paid') /\ BagToSet(paid)' = BagToSet(paid) \cup K
           /\ \A k \in K : k \notin BagToSet(paid) => paid'[k] = 1
           /\ \A k \in BagToSet(paid) : k \notin K => paid'[k] = paid[k]
<1>1. IsABag(paid')
  BY DEF IsABag, Pay, SetToBag, (+)
<1>2. BagToSet(paid)' = BagToSet(paid) \cup K
  BY DEF BagToSet, Pay, SetToBag, (+)
<1>3. ASSUME NEW k \in K, k \notin BagToSet(paid) PROVE paid'[k] = 1
  BY <1>3 DEF IsABag, Pay, SetToBag, (+), BagToSet
<1>4. ASSUME NEW k \in BagToSet(paid), k \notin K PROVE paid'[k] = paid[k]
  BY <1>4 DEF IsABag, Pay, SetToBag, (+), BagToSet
<1> QED BY <1>1, <1>2, <1>3, <1>4

\* The mark of a reward stays when the rows only move on.
LEMMA SpentStays ==
    ASSUME TInv, TInv', Onward, NEW k, Spent(k)
    PROVE  Spent(k)'
<1>1. k[2] \in Users
  BY DEF Spent
<1>2. calls \in Nat /\ calls' \in Nat /\ calls <= calls'
  BY DEF Onward, TInv, Typed, TypeOK
<1>a. CASE k[1] = "day"
  BY <1>a, <1>1 DEF Spent
<1>b. CASE k[1] = "lesson" /\ k[3] \in row[k[2]].done
  BY <1>b, <1>1 DEF Spent, Onward, Kept
<1>c. CASE k[1] = "chest" /\ k[3] \in Nat /\ k[3] <= row[k[2]].chest
  <2>1. row[k[2]] \in Row /\ row'[k[2]] \in Row
    BY <1>1 DEF TInv, Typed, TypeOK
  <2>2. row[k[2]].chest \in Int /\ row'[k[2]].chest \in Int
    BY <2>1 DEF Row
  <2>3. row[k[2]].chest <= row'[k[2]].chest
    BY <1>1 DEF Onward, Kept
  <2>4. k[3] <= row'[k[2]].chest
    BY <1>c, <2>2, <2>3
  <2> QED BY <1>1, <1>c, <2>4 DEF Spent
<1>d. CASE k[1] = "goal" /\ k[3] \in 1..calls /\ k[3] # row[k[2]].goal
  <2>1. row'[k[2]].goal \in {row[k[2]].goal, 0} \/ row'[k[2]].goal > calls
    BY <1>1 DEF Onward, Kept
  <2>2. k[3] \in 1..calls'
    BY <1>2, <1>d
  <2>3. k[3] # row'[k[2]].goal
    BY <1>2, <1>d, <2>1
  <2> QED BY <1>1, <1>d, <2>2, <2>3 DEF Spent
<1>e. CASE k[1] = "review" /\ k[3] \in Nat /\ k[3] <= session[k[2]].claimed
  <2>1. session[k[2]].claimed \in Int /\ session'[k[2]].claimed \in Int
    BY <1>1 DEF TInv, Typed, TypeOK, Time, None
  <2>2. session[k[2]].claimed <= session'[k[2]].claimed
    BY <1>1 DEF Onward
  <2>4. k[3] <= session'[k[2]].claimed
    BY <1>e, <2>1, <2>2
  <2> QED BY <1>1, <1>e, <2>4 DEF Spent
<1>f. CASE k[1] = "welcome" /\ row[k[2]].referredBy # None
  BY <1>f, <1>1 DEF Spent, Onward, Kept
<1>g. CASE k[1] = "referrer" /\ k[3] \in Users /\ row[k[3]].referredBy = k[2]
  <2>1. k[2] # None
    BY <1>1, LearnerAssumption
  <2> QED BY <1>g, <1>1, <2>1 DEF Spent, Onward, Kept
<1> QED BY <1>a, <1>b, <1>c, <1>d, <1>e, <1>f, <1>g DEF Spent

\* The ledger stays sound when each reward paid leaves a mark it had not.
LEMMA LedgerGrows ==
    ASSUME TInv, TInv', Ledger, Onward, NEW K, Pay(K),
           \A k \in K : Spent(k)' /\ (k[1] # "day" => ~Spent(k))
    PROVE  Ledger'
<1>1. /\ IsABag(paid') /\ BagToSet(paid)' = BagToSet(paid) \cup K
      /\ \A k \in K : k \notin BagToSet(paid) => paid'[k] = 1
      /\ \A k \in BagToSet(paid) : k \notin K => paid'[k] = paid[k]
  BY Paying DEF Ledger
<1>2. ASSUME NEW k \in BagToSet(paid)' PROVE Spent(k)' /\ (k[1] # "day" => paid'[k] = 1)
  <2>1. CASE k \in K
    <3>1. k[1] # "day" => k \notin BagToSet(paid)
      BY <2>1 DEF Ledger
    <3> QED BY <2>1, <3>1, <1>1
  <2>2. CASE k \notin K
    <3>1. k \in BagToSet(paid)
      BY <1>1, <1>2, <2>2
    <3>2. Spent(k) /\ (k[1] # "day" => paid[k] = 1)
      BY <3>1 DEF Ledger
    <3> QED BY <3>1, <3>2, <2>2, <1>1, SpentStays
  <2> QED BY <2>1, <2>2
<1> QED BY <1>1, <1>2 DEF Ledger

\* It stays sound when nothing is paid.
LEMMA LedgerStays ==
    ASSUME TInv, TInv', Ledger, Onward, paid' = paid
    PROVE  Ledger'
<1>1. BagToSet(paid)' = BagToSet(paid)
  BY DEF BagToSet
<1>2. ASSUME NEW k \in BagToSet(paid) PROVE Spent(k)' /\ (k[1] # "day" => paid'[k] = 1)
  BY SpentStays DEF Ledger
<1> QED BY <1>1, <1>2 DEF Ledger

\* Columns and sessions that are compared hold numbers.
LEMMA ClaimedTyped ==
    ASSUME TInv, NEW u \in Users
    PROVE  session[u].claimed \in Int /\ session[u].claimed <= session[u].claimed
/\ row[u].goal \in Int /\ row[u].chest \in Int /\ calls \in Nat
<1>1. session[u].claimed \in Int
  BY DEF TInv, Typed, TypeOK, Time, None
<1>2. row[u] \in Row /\ calls \in Nat
  BY DEF TInv, Typed, TypeOK
<1> QED BY <1>1, <1>2 DEF Row

\* Days do not go back.
LEMMA DayGrows ==
    ASSUME TInv, TInv', now' \in {now, now + 1}
    PROVE  Day(now) <= Day(now')
<1>1. now \in Nat /\ now' \in Nat
  BY DEF TInv, Typed, TypeOK, Time
<1> QED BY <1>1, DaySound

-----------------------------------------------------------------------------
(* How the ledger and the referrals are kept *)

\* A step that rewards nothing preserves LInv.
LEMMA QuietKeeps ==
    ASSUME LInv, TInv', RewardsStay, NoNewClaim, paid' = paid, calls' \in {calls, calls + 1},
           now' \in {now, now + 1}, \A u \in Users : session'[u].claimed = session[u].claimed
    PROVE  LInv'
<1>0. TInv
  BY DEF LInv
<1>1. calls \in Nat /\ calls <= calls'
  BY <1>0 DEF TInv, Typed, TypeOK
<1>2. Onward
  <2>1. ASSUME NEW u \in Users
        PROVE  Kept(row[u], row'[u]) /\ session[u].claimed <= session'[u].claimed
    <3>1. row[u].chest <= row[u].chest
      BY <1>0, ClaimedTyped
    <3> QED BY <3>1, <1>0, ClaimedTyped DEF RewardsStay, SameRewards, Kept
  <2> QED BY <2>1, <1>1 DEF Onward
<1>3. Ledger'
  BY <1>0, <1>2, LedgerStays DEF LInv
<1>4. \A u \in Users : row'[u].referredBy = row[u].referredBy
          /\ row'[u].chest = row[u].chest /\ row'[u].goal = row[u].goal
  BY DEF RewardsStay, SameRewards
<1>5. \A r \in Busy : req[r].user \in Users
  BY <1>0 DEF TInv, Typed, Request, Asked, Claimed
<1>6. Held'
  BY <1>4, <1>5 DEF Held, NoNewClaim, LInv
<1>7. Dated'
  <2>1. ASSUME NEW u \in Users PROVE row'[u].chest <= Day(now') /\ row'[u].goal <= calls'
    <3>1. Day(now) <= Day(now')
      BY <1>0, DayGrows
    <3>2. row[u].chest <= Day(now) /\ row[u].goal <= calls
      BY DEF LInv, Dated
    <3>3. now \in Nat /\ now' \in Nat
      BY <1>0 DEF TInv, Typed, TypeOK, Time
    <3>4. Day(now) \in Nat /\ Day(now') \in Nat
      BY <3>3, DaySound
    <3> QED BY <3>1, <3>2, <3>4, <1>0, <1>1, <1>4, ClaimedTyped
  <2> QED BY <2>1 DEF Dated, Day
<1>8. \A u : Filleuls(u)' = Filleuls(u) /\ Earned(u)' = Earned(u)
  BY <1>4 DEF Filleuls, Earned, BagToSet
<1>9. Served'
  BY <1>8 DEF Served, LInv
<1>10. Counting'
  BY <1>8 DEF Counting, NoNewClaim, LInv
<1> QED BY <1>3, <1>6, <1>7, <1>9, <1>10 DEF LInv

\* No claim begins when no request moves.
LEMMA ReqsKept ==
    ASSUME UNCHANGED <<req, lock>>
    PROVE  NoNewClaim
  BY DEF NoNewClaim, Busy, Idle

\* None begins when a request ends.
LEMMA EndKept ==
    ASSUME TInv, NEW p \in Busy, End(p), UNCHANGED <<lock, calls>>
    PROVE  NoNewClaim
<1>1. Busy' = Busy \ {p}
  BY LessBusy
<1>2. \A r \in Busy' : r \in Busy /\ req'[r] = req[r]
  BY <1>1 DEF End, TInv, Typed, Busy
<1> QED BY <1>2 DEF NoNewClaim

\* None begins when a request moves to a step before the claim.
LEMMA PutKept ==
    ASSUME TInv, NEW p \in Proc, NEW q \in Request, q.step # "claimed",
           req' = [req EXCEPT ![p] = q], UNCHANGED lock
    PROVE  NoNewClaim
<1>1. req'[p] = q
  BY DEF TInv, Typed
<1>2. \A r \in Busy' \ {p} : r \in Busy /\ req'[r] = req[r]
  BY DEF TInv, Typed, Busy, Idle
<1> QED BY <1>1, <1>2 DEF NoNewClaim

-----------------------------------------------------------------------------
(* The ledger, action by action *)

\* LInv is preserved by a refill.
LEMMA RefillHeartsKept ==
    ASSUME LInv, NEW u \in Users, RefillHearts(u)
    PROVE  LInv'
<1>1. TInv' /\ RewardsStay
  BY RefillTyped DEF LInv
<1>2. UNCHANGED <<now, session, req, lock>> /\ calls' = calls + 1 /\ Pay({})
  BY DEF RefillHearts, InTransaction
<1> QED BY <1>1, <1>2, NothingPaid, ReqsKept, QuietKeeps DEF LInv, Ledger

\* LInv is preserved by the purchase of a freeze.
LEMMA BuyStreakFreezeKept ==
    ASSUME LInv, NEW u \in Users, BuyStreakFreeze(u)
    PROVE  LInv'
<1>1. TInv' /\ RewardsStay
  BY FreezeTyped DEF LInv
<1>2. UNCHANGED <<now, session, req, lock>> /\ calls' = calls + 1 /\ Pay({})
  BY DEF BuyStreakFreeze, InTransaction
<1> QED BY <1>1, <1>2, NothingPaid, ReqsKept, QuietKeeps DEF LInv, Ledger

\* LInv is preserved by that of a boost.
LEMMA BuyDoubleXpKept ==
    ASSUME LInv, NEW u \in Users, BuyDoubleXp(u)
    PROVE  LInv'
<1>1. TInv' /\ RewardsStay
  BY BoostTyped DEF LInv
<1>2. UNCHANGED <<now, session, req, lock>> /\ calls' = calls + 1 /\ Pay({})
  BY DEF BuyDoubleXp, InTransaction
<1> QED BY <1>1, <1>2, NothingPaid, ReqsKept, QuietKeeps DEF LInv, Ledger

\* LInv is preserved by a subscription.
LEMMA SubscribeKept ==
    ASSUME LInv, NEW u \in Users, Subscribe(u)
    PROVE  LInv'
<1>1. TInv' /\ RewardsStay
  BY SubscribeTyped DEF LInv
<1>2. UNCHANGED <<now, session, req, lock>> /\ calls' = calls + 1 /\ Pay({})
  BY DEF Subscribe, InTransaction
<1> QED BY <1>1, <1>2, NothingPaid, ReqsKept, QuietKeeps DEF LInv, Ledger

\* LInv is preserved by a granted premium.
LEMMA GrantPremiumKept ==
    ASSUME LInv, NEW u \in Users, GrantPremium(u)
    PROVE  LInv'
<1>1. TInv' /\ RewardsStay
  BY GrantPremiumTyped DEF LInv
<1>2. UNCHANGED <<now, session, req, lock>> /\ calls' = calls + 1 /\ Pay({})
  BY DEF GrantPremium, InTransaction
<1> QED BY <1>1, <1>2, NothingPaid, ReqsKept, QuietKeeps DEF LInv, Ledger

\* LInv is preserved by a pack of hearts.
LEMMA HeartPackKept ==
    ASSUME LInv, NEW u \in Users, HeartPack(u)
    PROVE  LInv'
<1>1. TInv' /\ RewardsStay
  BY HeartPackTyped DEF LInv
<1>2. UNCHANGED <<now, session, req, lock>> /\ calls' = calls + 1 /\ Pay({})
  BY DEF HeartPack, InTransaction
<1> QED BY <1>1, <1>2, NothingPaid, ReqsKept, QuietKeeps DEF LInv, Ledger

\* LInv is preserved by a synchronisation.
LEMMA SyncWriteKept ==
    ASSUME LInv, NEW p \in Proc, SyncWrite(p)
    PROVE  LInv'
<1>1. TInv' /\ RewardsStay
  BY SyncTyped DEF LInv
<1>2. UNCHANGED <<now, session, lock, paid, calls>> /\ End(p) /\ p \in Busy
  BY DEF SyncWrite, At, Busy
<1>3. NoNewClaim
  BY <1>2, EndKept DEF LInv
<1> QED BY <1>1, <1>2, <1>3, QuietKeeps

\* LInv is preserved by the loss of a heart.
LEMMA ApplyHeartLossKept ==
    ASSUME LInv, NEW p \in Proc, ApplyHeartLoss(p)
    PROVE  LInv'
<1>1. TInv' /\ RewardsStay
  BY LostTyped DEF LInv
<1>2. UNCHANGED <<now, session, lock, paid, calls>> /\ End(p) /\ p \in Busy
  BY DEF ApplyHeartLoss, At, Busy
<1>3. NoNewClaim
  BY <1>2, EndKept DEF LInv
<1> QED BY <1>1, <1>2, <1>3, QuietKeeps

\* LInv is preserved by granted hearts.
LEMMA GrantHeartsKept ==
    ASSUME LInv, NEW p \in Proc, GrantHearts(p)
    PROVE  LInv'
<1>1. TInv' /\ RewardsStay
  BY GrantTyped DEF LInv
<1>2. UNCHANGED <<now, session, lock, paid, calls>> /\ End(p) /\ p \in Busy
  BY DEF GrantHearts, At, Busy
<1>3. NoNewClaim
  BY <1>2, EndKept DEF LInv
<1> QED BY <1>1, <1>2, <1>3, QuietKeeps

\* LInv is preserved by the repair of a streak.
LEMMA StreakRepairKept ==
    ASSUME LInv, NEW p \in Proc, StreakRepair(p)
    PROVE  LInv'
<1>1. TInv' /\ RewardsStay
  BY RepairTyped DEF LInv
<1>2. UNCHANGED <<now, session, lock, paid, calls>> /\ End(p) /\ p \in Busy
  BY DEF StreakRepair, At, Busy
<1>3. NoNewClaim
  BY <1>2, EndKept DEF LInv
<1> QED BY <1>1, <1>2, <1>3, QuietKeeps

\* LInv is preserved by a revocation.
LEMMA RevokeGrantedPremiumKept ==
    ASSUME LInv, NEW p \in Proc, RevokeGrantedPremium(p)
    PROVE  LInv'
<1>1. TInv' /\ RewardsStay
  BY RevokeTyped DEF LInv
<1>2. UNCHANGED <<now, session, lock, paid, calls>> /\ End(p) /\ p \in Busy
  BY DEF RevokeGrantedPremium, At, Busy
<1>3. NoNewClaim
  BY <1>2, EndKept DEF LInv
<1> QED BY <1>1, <1>2, <1>3, QuietKeeps

\* LInv is preserved by the creation of a code.
LEMMA GetOrCreateKept ==
    ASSUME LInv, NEW p \in Proc, GetOrCreate(p)
    PROVE  LInv'
<1>1. TInv' /\ RewardsStay
  BY CodeTyped DEF LInv
<1>2. UNCHANGED <<now, session, lock, paid, calls>> /\ End(p) /\ p \in Busy
  BY DEF GetOrCreate, At, Busy
<1>3. NoNewClaim
  BY <1>2, EndKept DEF LInv
<1> QED BY <1>1, <1>2, <1>3, QuietKeeps

\* LInv is preserved by an answer that begins.
LEMMA AnswerSettleKept ==
    ASSUME LInv, NEW p \in Proc, AnswerSettle(p)
    PROVE  LInv'
<1>1. TInv' /\ RewardsStay
  BY SettleTyped DEF LInv
<1>2. UNCHANGED <<now, session, lock, paid, calls>> /\ p \in Busy
  BY DEF AnswerSettle, At, Busy
<1>3. NoNewClaim
  <2>1. CASE End(p)
    BY <2>1, <1>2, EndKept DEF LInv
  <2>2. CASE req' = [req EXCEPT ![p].step = "judge"]
    <3> PICK q : q = [req[p] EXCEPT !.step = "judge"] OBVIOUS
    <3>1. req[p] \in Asked
      BY DEF AnswerSettle, At, LInv, TInv, Typed, Busy, Request, Claimed
    <3>2. q \in Request /\ q.step = "judge"
      BY <3>1 DEF Asked, Request
    <3>3. req' = [req EXCEPT ![p] = q]
      BY <2>2
    <3> QED BY <3>2, <3>3, <1>2, PutKept DEF LInv
  <2> QED BY <2>1, <2>2 DEF AnswerSettle
<1> QED BY <1>1, <1>2, <1>3, QuietKeeps

\* LInv is preserved by the check of a revocation.
LEMMA RevokeCheckKept ==
    ASSUME LInv, NEW p \in Proc, RevokeCheck(p)
    PROVE  LInv'
<1>1. TInv' /\ RewardsStay
  BY RevokeCheckTyped DEF LInv
<1>2. UNCHANGED <<now, session, lock, paid, calls>> /\ p \in Busy
  BY DEF RevokeCheck, At, Busy
<1>3. NoNewClaim
  <2>1. CASE End(p)
    BY <2>1, <1>2, EndKept DEF LInv
  <2>2. CASE req' = [req EXCEPT ![p].step = "write"]
    <3> PICK q : q = [req[p] EXCEPT !.step = "write"] OBVIOUS
    <3>1. req[p] \in Asked
      BY DEF RevokeCheck, At, LInv, TInv, Typed, Busy, Request, Claimed
    <3>2. q \in Request /\ q.step = "write"
      BY <3>1 DEF Asked, Request
    <3>3. req' = [req EXCEPT ![p] = q]
      BY <2>2
    <3> QED BY <3>2, <3>3, <1>2, PutKept DEF LInv
  <2> QED BY <2>1, <2>2 DEF RevokeCheck
<1> QED BY <1>1, <1>2, <1>3, QuietKeeps

\* LInv is preserved by time.
LEMMA TickKept ==
    ASSUME LInv, Tick
    PROVE  LInv'
<1>1. TInv' /\ RewardsStay
  BY TickTyped DEF LInv
<1>2. UNCHANGED <<session, req, lock, paid, calls>> /\ now' = now + 1
  BY DEF Tick
<1> QED BY <1>1, <1>2, ReqsKept, QuietKeeps

\* LInv is preserved by a session of review.
LEMMA ReviewKept ==
    ASSUME LInv, NEW u \in Users, Review(u)
    PROVE  LInv'
<1>1. TInv' /\ RewardsStay
  BY ReviewTyped DEF LInv
<1>2. UNCHANGED <<now, req, lock, paid>> /\ calls' = calls + 1
  BY DEF Review
<1>3. \A v \in Users : session'[v].claimed = session[v].claimed
  BY DEF Review, LInv, TInv, Typed, TypeOK
<1> QED BY <1>1, <1>2, <1>3, ReqsKept, QuietKeeps

\* LInv is preserved by a request that begins.
LEMMA BeginKept ==
    ASSUME LInv, NEW p \in Proc, NEW u \in Users, NEW kind \in Ops,
           NEW arg \in Lessons \cup Time \cup Users \cup {None}, Begin(p, u, kind, arg)
    PROVE  LInv'
<1>1. TInv' /\ RewardsStay
  BY BeginTyped DEF LInv
<1>2. UNCHANGED <<now, session, lock, paid>> /\ calls' = calls + 1
  BY DEF Begin
<1>3. NoNewClaim
  <2> PICK r : r = row[u] OBVIOUS
  <2> PICK q : q = [op |-> kind, step |-> "read", user |-> u, arg |-> arg, t |-> now, row |-> r]
    OBVIOUS
  <2>1. r \in Row /\ now \in Time
    BY RowHas DEF LInv
  <2>2. q \in Request /\ q.step = "read"
    BY <2>1 DEF Request, Asked, Arg
  <2>3. req' = [req EXCEPT ![p] = q]
    BY DEF Begin
  <2> QED BY <2>2, <2>3, <1>2, PutKept DEF LInv
<1> QED BY <1>1, <1>2, <1>3, QuietKeeps

\* LInv is preserved by a request that writes nothing: the row it frees was its own.
LEMMA DropKept ==
    ASSUME LInv, NEW p \in Proc, Drop(p)
    PROVE  LInv'
<1>1. TInv' /\ RewardsStay
  BY DropTyped DEF LInv
<1>2. UNCHANGED <<now, row, session, paid, calls>> /\ p \in Busy /\ End(p)
  BY DEF Drop, Busy
<1>3. NoNewClaim
  <2>1. Busy' = Busy \ {p}
    BY <1>2, LessBusy DEF LInv
  <2>2. \A r \in Busy' : r \in Busy /\ req'[r] = req[r]
    BY <2>1, <1>2 DEF End, LInv, TInv, Typed, Busy
  <2>3. ASSUME NEW r \in Busy \ {p}, req[r].step = "claimed"
        PROVE  lock'[req[r].user] = lock[req[r].user]
    <3>1. lock[req[r].user] = r
      BY <2>3 DEF LInv, Held
    <3>2. req[r].user \in Users
      BY DEF LInv, TInv, Typed, Request, Asked, Claimed
    <3> QED BY <3>1, <3>2 DEF Drop
  <2> QED BY <2>1, <2>2, <2>3 DEF NoNewClaim
<1> QED BY <1>1, <1>2, <1>3, QuietKeeps

\* A step that rewards a user, and marks no account, preserves LInv.
LEMMA PaidKeeps ==
    ASSUME LInv, TInv', Onward, NEW K, Pay(K), \A k \in K : k[1] # "referrer",
           \A k \in K : Spent(k)' /\ (k[1] # "day" => ~Spent(k)), NoNewClaim, Dated',
           \A u \in Users : row'[u].referredBy = row[u].referredBy
    PROVE  LInv'
<1>0. TInv /\ Ledger
  BY DEF LInv
<1>1. Ledger'
  BY <1>0, LedgerGrows
<1>2. \A r \in Busy : req[r].user \in Users
  BY <1>0 DEF TInv, Typed, Request, Asked, Claimed
<1>3. Held'
  BY <1>2 DEF Held, NoNewClaim, LInv
<1>4. BagToSet(paid)' = BagToSet(paid) \cup K
  BY <1>0, Paying DEF Ledger
<1>5. \A u : Filleuls(u)' = Filleuls(u)
  BY DEF Filleuls
<1>6. \A u : Earned(u)' = Earned(u)
  BY <1>4 DEF Earned
<1>7. Served'
  BY <1>5, <1>6 DEF Served, LInv
<1>8. Counting'
  BY <1>5 DEF Counting, NoNewClaim, LInv
<1> QED BY <1>1, <1>3, <1>7, <1>8 DEF LInv

\* The rows move on when the only row written does.
LEMMA OneOnward ==
    ASSUME LInv, NEW u \in Users, NEW new, row' = [row EXCEPT ![u] = new], Kept(row[u], new),
           calls' \in {calls, calls + 1},
           \A v \in Users : session[v].claimed <= session'[v].claimed
    PROVE  Onward /\ row'[u] = new /\ \A v \in Users \ {u} : row'[v] = row[v]
<1>1. row \in [Users -> Row] /\ calls \in Nat
  BY DEF LInv, TInv, Typed, TypeOK
<1>2. row'[u] = new /\ \A v \in Users \ {u} : row'[v] = row[v]
  BY <1>1
<1>3. \A v \in Users : Kept(row[v], row[v])
  <2> TAKE v \in Users
  <2>1. row[v].chest \in Int
    BY <1>1 DEF Row
  <2> QED BY <2>1 DEF Kept
<1> QED BY <1>1, <1>2, <1>3 DEF Onward

\* Chests and goals stay dated when the row written is.
LEMMA OneDated ==
    ASSUME LInv, NEW u \in Users, \A v \in Users \ {u} : row'[v] = row[v], now' = now,
           calls' \in {calls, calls + 1}, row'[u].chest <= Day(now), row'[u].goal <= calls'
    PROVE  Dated'
<1>1. ASSUME NEW v \in Users PROVE row'[v].chest <= Day(now) /\ row'[v].goal <= calls'
  <2>1. row[v].chest <= Day(now) /\ row[v].goal <= calls
    BY DEF LInv, Dated
  <2>2. calls \in Nat /\ row[v].goal \in Int
    BY ClaimedTyped DEF LInv
  <2> QED BY <2>1, <2>2
<1> QED BY <1>1 DEF Dated, Day

\* LInv is preserved by a goal, which has another name than those paid.
LEMMA SetStreakGoalKept ==
    ASSUME LInv, NEW u \in Users, SetStreakGoal(u)
    PROVE  LInv'
<1> PICK r : r = row[u] OBVIOUS
<1> PICK g : g = calls + 1 OBVIOUS
<1> PICK new : new = [r EXCEPT !.goal = g] OBVIOUS
<1>0. TInv
  BY DEF LInv
<1>1. TInv'
  BY <1>0, GoalTyped
<1>2. /\ UNCHANGED <<now, session, req, lock>> /\ calls' = g /\ Pay({})
      /\ row' = [row EXCEPT ![u] = new]
  BY DEF SetStreakGoal, InTransaction
<1>3. r \in Row /\ r.chest \in Int /\ r.chest <= Day(now) /\ calls \in Nat
  BY <1>0, RowHas, ClaimedTyped DEF LInv, Dated
<1>4. new.goal = g /\ new.chest = r.chest /\ new.done = r.done /\ new.referredBy = r.referredBy
  BY <1>3 DEF Row
<1>5. Kept(r, new)
  BY <1>3, <1>4 DEF Kept
<1>6. \A v \in Users : session[v].claimed <= session'[v].claimed
  BY <1>2, <1>0, ClaimedTyped
<1>7. Onward /\ row'[u] = new /\ \A v \in Users \ {u} : row'[v] = row[v]
  BY <1>2, <1>5, <1>6, OneOnward
<1>8. Dated'
  <2>1. g <= calls'
    BY <1>2, <1>3
  <2> QED BY <2>1, <1>2, <1>3, <1>4, <1>7, OneDated, ZenonT(60)
<1>9. \A v \in Users : row'[v].referredBy = row[v].referredBy
  BY <1>4, <1>7
<1>10. NoNewClaim
  BY <1>2, ReqsKept
<1> QED BY <1>1, <1>2, <1>7, <1>8, <1>9, <1>10, PaidKeeps

\* LInv is preserved by the reward of a goal, which clears it.
LEMMA ClaimStreakRewardKept ==
    ASSUME LInv, NEW u \in Users, ClaimStreakReward(u)
    PROVE  LInv'
<1> PICK r : r = row[u] OBVIOUS
<1> PICK new : new = Cleared(r) OBVIOUS
<1> PICK k : k = <<"goal", u, r.goal>> OBVIOUS
<1>0. TInv
  BY DEF LInv
<1>1. TInv'
  BY <1>0, ClaimTyped
<1>2. /\ UNCHANGED <<now, session, req, lock>> /\ calls' = calls + 1 /\ Pay({k})
      /\ row' = [row EXCEPT ![u] = new] /\ r.goal > 0
  BY DEF ClaimStreakReward, InTransaction
<1>3. /\ r \in Row /\ r.chest \in Int /\ r.chest <= Day(now) /\ calls \in Nat /\ r.goal \in Int
      /\ r.goal <= calls
  BY <1>0, RowHas, ClaimedTyped DEF LInv, Dated
<1>4. new.goal = 0 /\ new.chest = r.chest /\ new.done = r.done /\ new.referredBy = r.referredBy
  BY <1>3 DEF Row, Cleared
<1>5. Kept(r, new)
  BY <1>3, <1>4 DEF Kept
<1>6. \A v \in Users : session[v].claimed <= session'[v].claimed
  BY <1>2, <1>0, ClaimedTyped
<1>7. Onward /\ row'[u] = new /\ \A v \in Users \ {u} : row'[v] = row[v]
  BY <1>2, <1>5, <1>6, OneOnward
<1>8. Dated'
  <2>1. 0 <= calls'
    BY <1>2, <1>3
  <2> QED BY <2>1, <1>2, <1>3, <1>4, <1>7, OneDated
<1>9. \A v \in Users : row'[v].referredBy = row[v].referredBy
  BY <1>4, <1>7
<1>10. NoNewClaim
  BY <1>2, ReqsKept
<1>11. k[1] = "goal" /\ k[2] = u /\ k[3] = r.goal OBVIOUS
<1>12. ~Spent(k)
  BY <1>11 DEF Spent
<1>13. Spent(k)'
  <2>1. k[3] \in 1..calls' /\ k[3] # row'[u].goal
    BY <1>2, <1>3, <1>4, <1>7, <1>11
  <2> QED BY <2>1, <1>11 DEF Spent
<1> QED BY <1>1, <1>2, <1>7, <1>8, <1>9, <1>10, <1>11, <1>12, <1>13, PaidKeeps

\* LInv is preserved by a chest, which is of a later day than the last one.
LEMMA ClaimDailyChestKept ==
    ASSUME LInv, NEW u \in Users, NEW kind \in {"xp", "hearts"}, ClaimDailyChest(u, kind)
    PROVE  LInv'
<1> PICK r : r = row[u] OBVIOUS
<1> PICK d : d = Day(now) OBVIOUS
<1> PICK k : k = <<"chest", u, d>> OBVIOUS
<1>0. TInv
  BY DEF LInv
<1>1. TInv' /\ r.chest # d
  BY <1>0, ChestTyped
<1>a. PICK new : /\ InTransaction(u, new, {k})
                 /\ new.done = r.done /\ new.goal = r.goal
                 /\ new.referredBy = r.referredBy /\ new.chest = d
  BY <1>0, ChestTyped
<1>2. /\ UNCHANGED <<now, session, req, lock>> /\ calls' = calls + 1 /\ Pay({k})
      /\ row' = [row EXCEPT ![u] = new]
  BY <1>a DEF InTransaction
<1>3. r.chest \in Int /\ r.chest <= d /\ calls \in Nat /\ r.goal \in Int /\ r.goal <= calls
  BY <1>0, ClaimedTyped DEF LInv, Dated
<1>b. d \in Nat
  <2>1. now \in Nat
    BY <1>0 DEF TInv, Typed, TypeOK, Time
  <2> QED BY <2>1, DaySound
<1>5. Kept(r, new)
  BY <1>3, <1>a DEF Kept
<1>6. \A v \in Users : session[v].claimed <= session'[v].claimed
  BY <1>2, <1>0, ClaimedTyped
<1>7. Onward /\ row'[u] = new /\ \A v \in Users \ {u} : row'[v] = row[v]
  BY <1>2, <1>5, <1>6, OneOnward
<1>8. Dated'
  <2>1. r.goal <= calls' /\ d <= d
    BY <1>2, <1>3, <1>b
  <2> QED BY <2>1, <1>2, <1>a, <1>7, OneDated
<1>9. \A v \in Users : row'[v].referredBy = row[v].referredBy
  BY <1>a, <1>7
<1>10. NoNewClaim
  BY <1>2, ReqsKept
<1>11. k[1] = "chest" /\ k[2] = u /\ k[3] = d OBVIOUS
<1>12. ~Spent(k)
  <2>1. ~(d <= r.chest)
    BY <1>1, <1>3, <1>b
  <2> QED BY <2>1, <1>11 DEF Spent
<1>13. Spent(k)'
  <2>1. d <= row'[u].chest
    BY <1>a, <1>7, <1>b
  <2> QED BY <2>1, <1>11, <1>b DEF Spent
<1> QED BY <1>1, <1>2, <1>7, <1>8, <1>9, <1>10, <1>11, <1>12, <1>13, PaidKeeps

\* LInv is preserved by a lesson, which pays what was not done.
LEMMA CompleteKept ==
    ASSUME LInv, NEW p \in Proc, Complete(p)
    PROVE  LInv'
<1> PICK q : q = req[p] OBVIOUS
<1> PICK u : u = q.user OBVIOUS
<1> PICK r : r = row[u] OBVIOUS
<1>0. TInv
  BY DEF LInv
<1>1. TInv' /\ u \in Users
  BY <1>0, CompleteTyped
<1>2. UNCHANGED <<now, session, lock, calls>> /\ End(p) /\ p \in Busy
  BY DEF Complete, At, Busy
<1>3. NoNewClaim
  BY <1>0, <1>2, EndKept
<1>4. CASE ~FirstCompletion(q)
  <2>1. row' = row
    BY <1>0, <1>4, CompleteTyped
  <2>2. Pay({})
    BY <1>4 DEF Complete
  <2>3. paid' = paid
    BY <2>2, NothingPaid DEF LInv, Ledger
  <2>4. RewardsStay
    BY <2>1 DEF RewardsStay, SameRewards
  <2> QED BY <1>1, <1>2, <1>3, <2>3, <2>4, QuietKeeps
<1>5. CASE FirstCompletion(q)
  <2> PICK k : k = <<"lesson", u, q.arg>> OBVIOUS
  <2> PICK d : d = <<"day", u, Day(q.t)>> OBVIOUS
  <2> PICK K : K = {k} \cup IF r.streak = 0 \/ Day(r.active) # Day(q.t) THEN {d} ELSE {} OBVIOUS
  <2>1. PICK new : /\ row' = [row EXCEPT ![u] = new]
                   /\ new.done = r.done \cup {q.arg} /\ new.goal = r.goal
                   /\ new.referredBy = r.referredBy /\ new.chest = r.chest
    BY <1>0, <1>5, CompleteTyped
  <2>2. Pay(K) /\ q.arg \notin r.done
    <3>1. Pay(K)
      BY <1>5 DEF Complete
    <3> QED BY <3>1, <1>5 DEF FirstCompletion
  <2>3. r.chest \in Int /\ r.chest <= Day(now) /\ r.goal <= calls
    BY <1>0, <1>1, ClaimedTyped DEF LInv, Dated
  <2>4. Kept(r, new)
    BY <2>1, <2>3 DEF Kept
  <2>5. \A v \in Users : session[v].claimed <= session'[v].claimed
    BY <1>2, <1>0, ClaimedTyped
  <2>6. Onward /\ row'[u] = new /\ \A v \in Users \ {u} : row'[v] = row[v]
    BY <1>1, <1>2, <2>1, <2>4, <2>5, OneOnward
  <2>7. Dated'
    BY <1>1, <1>2, <2>1, <2>3, <2>6, OneDated
  <2>8. \A v \in Users : row'[v].referredBy = row[v].referredBy
    BY <2>1, <2>6
  <2>9. k[1] = "lesson" /\ k[2] = u /\ k[3] = q.arg /\ d[1] = "day" /\ d[2] = u OBVIOUS
  <2>10. Spent(k)' /\ ~Spent(k)
    BY <1>1, <2>1, <2>2, <2>6, <2>9 DEF Spent
  <2>11. Spent(d)'
    BY <1>1, <2>9 DEF Spent
  <2>12. \A x \in K : x = k \/ x = d OBVIOUS
  <2>13. \A x \in K : x[1] # "referrer" /\ Spent(x)' /\ (x[1] # "day" => ~Spent(x))
    BY <2>9, <2>10, <2>11, <2>12
  <2> QED BY <1>1, <1>3, <2>2, <2>6, <2>7, <2>8, <2>13, PaidKeeps
<1> QED BY <1>4, <1>5

\* LInv is preserved by a review, which pays a session later than the last one claimed.
LEMMA RegainKept ==
    ASSUME LInv, NEW p \in Proc, Regain(p)
    PROVE  LInv'
<1> PICK q : q = req[p] OBVIOUS
<1> PICK u : u = q.user OBVIOUS
<1> PICK k : k = <<"review", u, q.arg>> OBVIOUS
<1>0. TInv
  BY DEF LInv
<1>1. TInv' /\ RewardsStay
  BY <1>0, RegainTyped
<1>2. UNCHANGED <<now, lock, calls>> /\ End(p) /\ p \in Busy /\ Pay({k})
  BY DEF Regain, At, Busy
<1>3. At(p, "regain", "read")
  BY DEF Regain
<1>4. u \in Users /\ q.arg \in Time
  BY <1>0, <1>3, AtBusy DEF Apt
<1>5. session' = [session EXCEPT ![u].claimed = q.arg] /\ session[u].claimed < q.arg
  BY DEF Regain, Unclaimed
<1>6. session'[u].claimed = q.arg /\ \A v \in Users \ {u} : session'[v] = session[v]
  BY <1>4, <1>5, <1>0 DEF TInv, Typed, TypeOK
<1>7. q.arg \in Nat /\ session[u].claimed \in Int
  BY <1>0, <1>4, ClaimedTyped DEF Time
<1>8. \A v \in Users : session[v].claimed <= session'[v].claimed
  <2>1. session[u].claimed <= session'[u].claimed
    BY <1>5, <1>6, <1>7
  <2> QED BY <2>1, <1>6, <1>0, ClaimedTyped
<1>9. Onward
  <2>1. \A v \in Users : Kept(row[v], row'[v])
    BY <1>1, <1>0, ClaimedTyped DEF RewardsStay, SameRewards, Kept
  <2>2. calls <= calls'
    BY <1>0, <1>2 DEF TInv, Typed, TypeOK
  <2> QED BY <2>1, <2>2, <1>8 DEF Onward
<1>10. Dated'
  BY <1>1, <1>2 DEF LInv, Dated, RewardsStay, SameRewards, Day
<1>11. NoNewClaim
  BY <1>0, <1>2, EndKept
<1>12. k[1] = "review" /\ k[2] = u /\ k[3] = q.arg OBVIOUS
<1>13. ~Spent(k)
  <2>1. ~(q.arg <= session[u].claimed)
    BY <1>5, <1>7
  <2> QED BY <2>1, <1>12 DEF Spent
<1>14. Spent(k)'
  <2>1. q.arg <= session'[u].claimed
    BY <1>6, <1>7
  <2> QED BY <2>1, <1>4, <1>7, <1>12 DEF Spent
<1>15. \A v \in Users : row'[v].referredBy = row[v].referredBy
  BY <1>1 DEF RewardsStay, SameRewards
<1> QED BY <1>1, <1>2, <1>9, <1>10, <1>11, <1>12, <1>13, <1>14, <1>15, PaidKeeps

\* LInv is preserved by the claim of a referrer, which takes a row that is free.
LEMMA ClaimReferrerKept ==
    ASSUME LInv, NEW p \in Proc, ClaimReferrer(p)
    PROVE  LInv'
<1> PICK q : q = req[p] OBVIOUS
<1> PICK n : n = Cardinality(Filleuls(q.arg)) + 1 OBVIOUS
<1> PICK y : y = row[q.arg] OBVIOUS
<1> PICK x:
        x = [op |-> "redeem", step |-> "claimed", user |-> q.user, arg |-> q.arg, t |-> q.t,
             count |-> n, row |-> y]
  OBVIOUS
<1>0. TInv
  BY DEF LInv
<1>1. TInv' /\ RewardsStay
  BY <1>0, ReferrerTyped
<1>2. /\ UNCHANGED <<now, row, session, paid, calls>> /\ p \in Busy
      /\ req' = [req EXCEPT ![p] = x]
      /\ lock' = [lock EXCEPT ![q.user] = p] /\ lock[q.user] = None /\ row[q.user].referredBy = None
  BY DEF ClaimReferrer, At, Busy, Free
<1>3. q.user \in Users
  BY <1>0, <1>2 DEF TInv, Typed, Request, Asked, Claimed
<1>4. req'[p] = x /\ \A r \in Busy' \ {p} : r \in Busy /\ req'[r] = req[r]
  BY <1>0, <1>2 DEF TInv, Typed, Busy, Idle
<1>5. lock'[q.user] = p /\ \A v \in Users \ {q.user} : lock'[v] = lock[v]
  BY <1>0, <1>2, <1>3 DEF TInv, Typed, TypeOK
<1>6. Held'
  <2>1. ASSUME NEW r \in Busy \ {p}, req[r].step = "claimed"
        PROVE  lock'[req[r].user] = r /\ row[req[r].user].referredBy = None
    <3>1. lock[req[r].user] = r /\ row[req[r].user].referredBy = None
      BY <2>1 DEF LInv, Held
    <3>2. req[r].user \in Users
      BY <1>0 DEF TInv, Typed, Request, Asked, Claimed
    <3>3. r # None
      BY LearnerAssumption DEF Busy
    <3> QED BY <3>1, <3>2, <3>3, <1>2, <1>5
  <2> QED BY <2>1, <1>2, <1>4, <1>5 DEF Held
<1>7. Ledger'
  <2>1. Onward
    <3>1. \A v \in Users : Kept(row[v], row'[v])
      BY <1>1, <1>0, ClaimedTyped DEF RewardsStay, SameRewards, Kept
    <3>2. calls <= calls'
      BY <1>0, <1>2 DEF TInv, Typed, TypeOK
    <3>3. \A v \in Users : session[v].claimed <= session'[v].claimed
      BY <1>0, <1>2, ClaimedTyped
    <3> QED BY <3>1, <3>2, <3>3 DEF Onward
  <2> QED BY <2>1, <1>0, <1>1, <1>2, LedgerStays DEF LInv
<1>8. Dated'
  BY <1>2 DEF LInv, Dated, Day
<1>9. \A u : Filleuls(u)' = Filleuls(u) /\ Earned(u)' = Earned(u)
  BY <1>2 DEF Filleuls, Earned, BagToSet
<1>10. Served'
  BY <1>9 DEF Served, LInv
<1>11. Counting'
  <2>1. n <= Cardinality(Filleuls(q.arg)) + 1
    BY FilleulsFinite
  <2> QED BY <2>1, <1>4, <1>9 DEF Counting, LInv
<1> QED BY <1>1, <1>6, <1>7, <1>8, <1>10, <1>11 DEF LInv

\* A minimum grows by one at most, and no more once the cap is reached.
LEMMA LeastGrows ==
    ASSUME NEW a \in Nat, NEW b \in Nat, NEW c \in Nat, c >= Least(a, b)
    PROVE  c + 1 >= Least(a, b + 1) /\ (b >= a => c >= Least(a, b + 1))
  BY DEF Least

\* A redemption marks one account more for the referrer, and rewards him if
\* the count it made allows it.
LEMMA RedeemServes ==
    ASSUME LInv, TInv', NEW u \in Users, NEW v \in Users, NEW n \in Nat, NEW K,
           row[u].referredBy = None, row'[u].referredBy = v,
           \A w \in Users \ {u} : row'[w].referredBy = row[w].referredBy,
           n <= Cardinality(Filleuls(v)) + 1, BagToSet(paid)' = BagToSet(paid) \cup K,
           K = {<<"welcome", u, v>>} \cup IF n <= RewardCap THEN {<<"referrer", v, u>>} ELSE {}
    PROVE  Served' /\ \A w \in Users : Cardinality(Filleuls(w)) <= Cardinality(Filleuls(w)')
<1> PICK k : k = <<"referrer", v, u>> OBVIOUS
<1> PICK h : h = <<"welcome", u, v>> OBVIOUS
<1>0. v # None
  BY LearnerAssumption
<1>1. Filleuls(v)' = Filleuls(v) \cup {u} /\ u \notin Filleuls(v)
  BY <1>0 DEF Filleuls
<1>2. \A w \in Users \ {v} : Filleuls(w)' = Filleuls(w)
  <2>1. \A w \in Users : w # None
    BY LearnerAssumption
  <2> QED BY <2>1 DEF Filleuls
<1>3. Cardinality(Filleuls(v)') = Cardinality(Filleuls(v)) + 1
  BY <1>1, FilleulsFinite, FS_AddElement
<1>4. k[1] = "referrer" /\ k[2] = v /\ k[3] = u /\ h[1] = "welcome" OBVIOUS
<1>5. k \notin BagToSet(paid)
  <2>1. ~Spent(k)
    BY <1>0, <1>4 DEF Spent
  <2> QED BY <2>1 DEF LInv, Ledger
<1>6. \A w \in Users \ {v} : Earned(w)' = Earned(w)
  <2>1. \A x \in K : x = h \/ x = k OBVIOUS
  <2> QED BY <2>1, <1>4 DEF Earned
<1>7. CASE n <= RewardCap
  <2>1. K = {h, k}
    BY <1>7
  <2>2. Earned(v)' = Earned(v) \cup {k} /\ k \notin Earned(v)
    BY <2>1, <1>4, <1>5 DEF Earned
  <2>3. /\ IsFiniteSet(Earned(v))
        /\ Cardinality(Earned(v)) >= Least(RewardCap, Cardinality(Filleuls(v)))
    BY DEF LInv, Served
  <2>4. IsFiniteSet(Earned(v)') /\ Cardinality(Earned(v)') = Cardinality(Earned(v)) + 1
    BY <2>2, <2>3, FS_AddElement
  <2>5. Cardinality(Earned(v)) \in Nat
    BY <2>3, FS_CardinalityType
  <2>6. Cardinality(Earned(v)') >= Least(RewardCap, Cardinality(Filleuls(v)'))
    BY <2>3, <2>4, <2>5, <1>3, FilleulsFinite, LeastGrows, Numbers
  <2> QED BY <2>4, <2>6, <1>2, <1>3, <1>6, FilleulsFinite DEF LInv, Served
<1>8. CASE ~(n <= RewardCap)
  <2>1. K = {h}
    BY <1>8
  <2>2. Earned(v)' = Earned(v)
    BY <2>1, <1>4 DEF Earned
  <2>3. /\ IsFiniteSet(Earned(v))
        /\ Cardinality(Earned(v)) >= Least(RewardCap, Cardinality(Filleuls(v)))
    BY DEF LInv, Served
  <2>4. Cardinality(Earned(v)) \in Nat
    BY <2>3, FS_CardinalityType
  <2>5. Cardinality(Filleuls(v)) >= RewardCap
    BY <1>8, FilleulsFinite, Numbers
  <2>6. Cardinality(Earned(v)) >= Least(RewardCap, Cardinality(Filleuls(v)'))
    BY <2>3, <2>4, <2>5, <1>3, FilleulsFinite, LeastGrows, Numbers
  <2> QED BY <2>2, <2>3, <2>6, <1>2, <1>3, <1>6, FilleulsFinite DEF LInv, Served
<1> QED BY <1>7, <1>8

\* LInv is preserved by a redemption, whose account had no referrer until then.
LEMMA RedeemKept ==
    ASSUME LInv, NEW p \in Proc, Redeem(p)
    PROVE  LInv'
<1> PICK q : q = req[p] OBVIOUS
<1> PICK u : u = q.user OBVIOUS
<1> PICK v : v = q.arg OBVIOUS
<1> PICK n : n = q.count OBVIOUS
<1> PICK k : k = <<"referrer", v, u>> OBVIOUS
<1> PICK h : h = <<"welcome", u, v>> OBVIOUS
<1> PICK K : K = {h} \cup IF n <= RewardCap THEN {k} ELSE {} OBVIOUS
<1>0. TInv
  BY DEF LInv
<1>1. /\ TInv' /\ u \in Users /\ v \in Users \ {u} /\ n \in Nat
      /\ \A w \in Users \ {u} : SameRewards(row[w], row'[w])
      /\ row'[u].done = row[u].done /\ row'[u].chest = row[u].chest
      /\ row'[u].goal = row[u].goal /\ row'[u].referredBy = v
  BY <1>0, RedeemTyped
<1>2. /\ UNCHANGED <<now, session, calls>> /\ End(p) /\ p \in Busy /\ q.step = "claimed"
      /\ lock' = [lock EXCEPT ![u] = None]
  BY DEF Redeem, At, Busy
<1>3. Pay(K)
  BY DEF Redeem, WithinCap
<1>4. row[u].referredBy = None /\ n <= Cardinality(Filleuls(v)) + 1 /\ lock[u] = p
  BY <1>2 DEF LInv, Held, Counting
<1>5. \A w \in Users \ {u} : row'[w].referredBy = row[w].referredBy
  BY <1>1 DEF SameRewards
<1>6. Onward
  <2>1. Kept(row[u], row'[u])
    BY <1>1, <1>4, <1>0, ClaimedTyped DEF Kept
  <2>2. \A w \in Users \ {u} : Kept(row[w], row'[w])
    BY <1>1, <1>0, ClaimedTyped DEF SameRewards, Kept
  <2>3. calls <= calls'
    BY <1>0, <1>2 DEF TInv, Typed, TypeOK
  <2>4. \A w \in Users : session[w].claimed <= session'[w].claimed
    BY <1>0, <1>2, ClaimedTyped
  <2> QED BY <2>1, <2>2, <2>3, <2>4 DEF Onward
<1>7. k[1] = "referrer" /\ k[2] = v /\ k[3] = u /\ h[1] = "welcome" /\ h[2] = u OBVIOUS
<1>8. v # None
  BY <1>1, LearnerAssumption
<1>9. ~Spent(k) /\ ~Spent(h)
  BY <1>4, <1>7, <1>8 DEF Spent
<1>10. Spent(k)' /\ Spent(h)'
  BY <1>1, <1>7, <1>8 DEF Spent
<1>11. Ledger'
  <2>1. \A x \in K : x = h \/ x = k OBVIOUS
  <2>2. \A x \in K : Spent(x)' /\ (x[1] # "day" => ~Spent(x))
    BY <2>1, <1>9, <1>10
  <2> QED BY <2>2, <1>0, <1>1, <1>3, <1>6, LedgerGrows DEF LInv
<1>12. BagToSet(paid)' = BagToSet(paid) \cup K
  BY <1>3, Paying DEF LInv, Ledger
<1>13. Served' /\ \A w \in Users : Cardinality(Filleuls(w)) <= Cardinality(Filleuls(w)')
  <2>1. v \in Users
    BY <1>1
  <2> QED BY <2>1, <1>1, <1>4, <1>5, <1>12, RedeemServes, SMTT(30)
<1>14. Busy' = Busy \ {p}
  BY <1>0, <1>2, LessBusy
<1>15. \A r \in Busy' : r \in Busy /\ r # p /\ req'[r] = req[r]
  BY <1>14, <1>0, <1>2 DEF End, TInv, Typed, Busy
<1>16. \A r \in Busy : req[r].step = "claimed" =>
           req[r].user \in Users /\ req[r].arg \in Users /\ req[r].count \in Nat
  BY <1>0 DEF TInv, Typed, Request, Asked, Claimed
<1>17. Held'
  <2>1. ASSUME NEW r \in Busy \ {p}, req[r].step = "claimed"
        PROVE  lock'[req[r].user] = r /\ row'[req[r].user].referredBy = None
    <3>1. lock[req[r].user] = r /\ row[req[r].user].referredBy = None
      BY <2>1 DEF LInv, Held
    <3>2. req[r].user \in Users /\ req[r].user # u
      BY <2>1, <3>1, <1>4, <1>16
    <3>3. lock'[req[r].user] = lock[req[r].user]
      BY <3>2, <1>2
    <3> QED BY <3>1, <3>2, <3>3, <1>5
  <2> QED BY <2>1, <1>15 DEF Held
<1>18. Counting'
  <2>1. ASSUME NEW r \in Busy \ {p}, req[r].step = "claimed", NEW a, a = req[r].arg
        PROVE  req[r].count <= Cardinality(Filleuls(a)') + 1
    <3>1. req[r].count <= Cardinality(Filleuls(a)) + 1
      BY <2>1 DEF LInv, Counting
    <3>2. a \in Users /\ req[r].count \in Nat
      BY <2>1, <1>16
    <3>3. Cardinality(Filleuls(a)) \in Nat
      BY FilleulsFinite
    <3>4. Cardinality(Filleuls(a)) <= Cardinality(Filleuls(a)')
      BY <3>2, <1>13
    <3>5. Cardinality(Filleuls(a)') \in Nat
      <4>1. Filleuls(a)' \subseteq Users
        BY DEF Filleuls
      <4>2. IsFiniteSet(Filleuls(a)')
        BY <4>1, LearnerAssumption, FS_Subset
      <4> QED BY <4>2, FS_CardinalityType
    <3> QED BY <3>1, <3>2, <3>3, <3>4, <3>5
  <2> QED BY <2>1, <1>15 DEF Counting, Filleuls
<1>19. Dated'
  <2>1. \A w \in Users : row'[w].chest = row[w].chest /\ row'[w].goal = row[w].goal
    BY <1>1 DEF SameRewards
  <2> QED BY <2>1, <1>2 DEF LInv, Dated, Day
<1> QED BY <1>1, <1>11, <1>13, <1>17, <1>18, <1>19 DEF LInv

-----------------------------------------------------------------------------
(* Rewards and referrals *)

\* The initial states satisfy LInv.
LEMMA LInit == Init => LInv
<1> SUFFICES ASSUME Init PROVE LInv OBVIOUS
<1>1. TInv
  BY TInit
<1>2. IsABag(paid) /\ BagToSet(paid) = {}
  BY DEF Init, IsABag, SetToBag, EmptyBag, BagToSet
<1>3. \A p \in Proc : Idle(p)
  BY DEF Init, Idle, NoReq
<1>4. \A u \in Users : row[u].referredBy = None /\ row[u].chest = -1 /\ row[u].goal = 0
  BY DEF Init, NewRow
<1>5. Dated
  <2>1. Day(0) \in Nat
    BY DaySound
  <2> QED BY <2>1, <1>4 DEF Init, Dated
<1>6. \A u \in Users : Filleuls(u) = {} /\ Earned(u) = {}
  <2>1. \A u \in Users : u # None
    BY LearnerAssumption
  <2> QED BY <2>1, <1>2, <1>4 DEF Filleuls, Earned
<1>7. Served
  <2>1. IsFiniteSet({}) /\ Cardinality({}) = 0
    BY FS_EmptySet
  <2>2. Least(RewardCap, 0) = 0
    BY Numbers DEF Least
  <2> QED BY <2>1, <2>2, <1>6 DEF Served
<1> QED BY <1>1, <1>2, <1>3, <1>5, <1>7 DEF LInv, Ledger, Held, Counting, Busy

\* Every step preserves LInv.
LEMMA LStep == LInv /\ [Next]_vars => LInv'
<1> SUFFICES ASSUME LInv, [Next]_vars PROVE LInv' OBVIOUS
<1>1. CASE Tick
  BY <1>1, TickKept
<1>2. ASSUME NEW u \in Users,
             \/ RefillHearts(u) \/ BuyStreakFreeze(u) \/ BuyDoubleXp(u)
             \/ SetStreakGoal(u) \/ ClaimStreakReward(u)
             \/ Subscribe(u) \/ GrantPremium(u) \/ HeartPack(u) \/ Review(u)
      PROVE  LInv'
  BY <1>2, RefillHeartsKept, BuyStreakFreezeKept, BuyDoubleXpKept, SetStreakGoalKept,
     ClaimStreakRewardKept, SubscribeKept, GrantPremiumKept, HeartPackKept, ReviewKept
<1>3. ASSUME NEW u \in Users, NEW kind \in {"xp", "hearts"}, ClaimDailyChest(u, kind)
      PROVE  LInv'
  BY <1>3, ClaimDailyChestKept
<1>4. ASSUME NEW u \in Users, NEW p \in Proc, NEW kind \in Ops,
             NEW arg \in Lessons \cup Time \cup Users \cup {None}, Begin(p, u, kind, arg)
      PROVE  LInv'
  BY <1>4, BeginKept
<1>5. ASSUME NEW p \in Proc, Step(p) PROVE LInv'
  <2>1. AbortDeadlock(p) => Drop(p)
    BY DEF AbortDeadlock
  <2> QED
    BY <1>5, <2>1, SyncWriteKept, AnswerSettleKept, ApplyHeartLossKept, CompleteKept, RegainKept,
       GrantHeartsKept, RevokeCheckKept, RevokeGrantedPremiumKept, StreakRepairKept,
       GetOrCreateKept, ClaimReferrerKept, RedeemKept, DropKept DEF Step
<1>6. CASE UNCHANGED vars
  <2>1. TInv'
    BY <1>6, TStep DEF LInv
  <2>2. Busy' = Busy
    BY <1>6 DEF vars, Busy, Idle
  <2> QED
    BY <1>6, <2>1, <2>2
       DEF vars, LInv, Ledger, Held, Dated, Served, Counting, Spent, Earned, Filleuls, BagToSet,
           Day
<1> QED BY <1>1, <1>2, <1>3, <1>4, <1>5, <1>6 DEF Next

\* A lesson, a chest, a goal, a session of review and a referral are each
\* rewarded once, for any number of users and of requests that overlap.
THEOREM RewardsPaidOnce == Spec => []PaidOnce
<1>1. LInv => PaidOnce
  BY DEF LInv, Ledger, PaidOnce
<1> QED BY <1>1, LInit, LStep, PTL DEF Spec

\* The first RewardCap accounts that used a code have each rewarded its owner,
\* for any number of redemptions that overlap, die or wait for each other.
THEOREM ReferrersServed == Spec => []ReferrerServed
<1>1. LInv => ReferrerServed
  BY DEF LInv, Served, Earned, ReferrerServed
<1> QED BY <1>1, LInit, LStep, PTL DEF Spec
-----------------------------------------------------------------------------
(* Lessons and progress *)

\* A surah that no script has divided again keeps its lessons, and what the
\* learner has completed of them.
LessonsKept ==
    \A s \in Surah \ divided' :
        /\ s \notin divided
        /\ Tagged(s)' = Tagged(s)
        /\ progress \cap Tagged(s) \subseteq progress'

\* A script takes progress back only with the lesson.
LEMMA ScriptKeeps == ScriptStep => progress \cap LessonKeys' \subseteq progress'
<1> SUFFICES ASSUME ScriptStep PROVE progress \cap LessonKeys' \subseteq progress'
    OBVIOUS
<1>1. CASE UNCHANGED progress
    BY <1>1
<1>2. ASSUME NEW p, NEW t, DeleteSurplus(p, t) PROVE progress \cap LessonKeys' \subseteq progress'
    <2> SUFFICES ASSUME NEW l \in progress, l \in LessonKeys' PROVE l \in progress'
        OBVIOUS
    <2>1. PICK k, o : k \in DOMAIN lesson' /\ o \in DOMAIN (lesson'[k]) /\ l = <<k, o>>
        BY DEF LessonKeys
    <2>2. /\ lesson' = [lesson EXCEPT ![t.k] = [i \in {j \in DOMAIN @ : j <= t.n} |-> @[i]]]
          /\ progress' = {m \in progress : m[1] = t.k => m[2] <= t.n}
        BY <1>2 DEF DeleteSurplus
    <2>3. k \in DOMAIN lesson
        BY <2>1, <2>2
    <2>4. k = t.k => o <= t.n
        BY <2>1, <2>2, <2>3
    <2> QED BY <2>1, <2>2, <2>4
<1>3. CASE Task
    <2>1. PICK p \in Head(script) :
             \/ ImportSurah(p, Head(p)) \/ ImportVerset(p, Head(p))
             \/ SeedSection(p, Head(p)) \/ SeedLinks(p, Head(p)) \/ SeedPlaceholder(p, Head(p))
             \/ SeedDemo(p, Head(p)) \/ CollectSection(p, Head(p))
             \/ WriteLesson(p, Head(p)) \/ WriteSteps(p, Head(p)) \/ DeleteSurplus(p, Head(p))
        BY <1>3 DEF Task
    <2>2. CASE DeleteSurplus(p, Head(p))
        BY <2>2, <1>2
    <2>3. CASE ~DeleteSurplus(p, Head(p))
        BY <2>1, <2>3, <1>1 DEF ImportSurah, ImportVerset, SeedSection, SeedLinks, SeedPlaceholder,
            SeedDemo, CollectSection, WriteLesson, WriteSteps, database
    <2> QED BY <2>2, <2>3
<1>4. CASE Crash \/ Retry
    BY <1>4, <1>1 DEF Crash, Retry, Interrupted
<1>5. CASE ~(Task \/ Crash \/ Retry)
    BY <1>5, <1>1 DEF ScriptStep, StartImport, StartTranslate, StartSeed, StartLessons,
        StartAlphabet, Start, database
<1> QED BY <1>3, <1>4, <1>5

LEMMA SameLessons ==
    UNCHANGED lesson => LessonKeys' = LessonKeys /\ \A s : Tagged(s)' = Tagged(s)
BY DEF LessonKeys, Tagged, LessonAt

LEMMA StepKeeps == [StudyNext]_studyVars => LessonsKept
<1> SUFFICES ASSUME [StudyNext]_studyVars PROVE LessonsKept
    OBVIOUS
<1>1. ASSUME UNCHANGED <<lesson, divided>>, progress \subseteq progress' PROVE LessonsKept
    BY <1>1, SameLessons DEF LessonsKept
<1>2. CASE Scripted
    <2> SUFFICES ASSUME NEW s \in Surah \ divided'
                 PROVE  /\ s \notin divided
                        /\ Tagged(s)' = Tagged(s)
                        /\ progress \cap Tagged(s) \subseteq progress'
        BY DEF LessonsKept
    <2>1. /\ [l \in Tagged(s) |-> <<LessonAt(l).debut, LessonAt(l).fin>>]
               = [l \in Tagged(s) |-> <<LessonAt(l).debut, LessonAt(l).fin>>]'
          /\ s \notin divided
        BY <1>2 DEF Scripted
    <2>2. Tagged(s)' = Tagged(s)
        BY <2>1
    <2>3. progress \cap LessonKeys' \subseteq progress'
        BY <1>2, ScriptKeeps DEF Scripted
    <2>4. Tagged(s)' \subseteq LessonKeys'
        BY DEF Tagged
    <2> QED BY <2>1, <2>2, <2>3, <2>4
<1>3. ASSUME NEW l, CompleteLesson(l) PROVE LessonsKept
    BY <1>1, <1>3 DEF CompleteLesson
<1>4. ASSUME NEW reads, NEW known, Onboard(reads, known) PROVE LessonsKept
    BY <1>1, <1>4 DEF Onboard
<1>5. CASE UNCHANGED <<contentVars, divided>>
    BY <1>1, <1>5 DEF contentVars, database
<1>6. CASE \/ \E S \in SUBSET Surah : ListSegments(S)
           \/ ListLettres
           \/ \E l \in pending : LeaveUnhandled(l)
    BY <1>6, <1>5 DEF ListSegments, ListLettres, LeaveUnhandled, RevisionFrame
<1>7. ASSUME NEW w \in Worker,
             \/ \E l \in pending : Detect(w, l)
             \/ Record(w) \/ RecordSection(w) \/ Die(w)
      PROVE  LessonsKept
    BY <1>7, <1>5 DEF Detect, Record, RecordSection, Die, HandlerFrame
<1>8. ASSUME NEW w \in Worker,
             \/ \E s \in Surah : GetGuided(w, s) \/ \E forgot \in BOOLEAN : AdvanceGuided(w, s, forgot)
             \/ WriteGuided(w)
      PROVE  LessonsKept
    BY <1>8, <1>5 DEF GetGuided, AdvanceGuided, WriteGuided, GuidedFrame
<1>9. ASSUME NEW w \in Worker,
             \/ \E q \in Quality :
                   \/ \E s \in Surah : ReviewSegment(w, s, q)
                   \/ \E l \in LessonKeys : ReviewLettre(w, l, q)
             \/ WriteReview(w)
      PROVE  LessonsKept
    BY <1>9, <1>5 DEF ReviewSegment, ReviewLettre, ReviewItem, WriteReview, RevisionFrame
<1>10. CASE UNCHANGED studyVars
    BY <1>10, <1>5 DEF studyVars
<1> QED BY <1>2, <1>3, <1>4, <1>6, <1>7, <1>8, <1>9, <1>10 DEF StudyNext, StudyStep

-----------------------------------------------------------------------------
(* Surahs mastered *)

Mastered(s) == <<"sourate", s>> \in achieved
Learned(s)  == Tagged(s) \subseteq progress

\* Worker w handles the event of lesson l; it has decided, or gone past, what
\* concerns the surah.
Handles(w, l) == op[w].step \in {"record", "section"} /\ op[w].l = l
Past(w, l)    == op[w].step = "section" /\ op[w].l = l

SurahsNumbered == NoSurah \notin Surah

\* What is waiting for surah s, and what handlers hold of it, is of lessons that
\* were completed; a handler that is to record s found all of it learned.
Waiting(s) ==
    /\ pending \cap Tagged(s) \subseteq progress
    /\ \A w \in Worker : \A l \in Tagged(s) : Handles(w, l) =>
           l \in progress /\ (op[w].step = "record" => op[w].s = s)
    /\ \A w \in Worker : op[w].step = "record" /\ op[w].s = s => Learned(s)

\* What is recorded of s is true, and what is owed is recorded or will be, if no
\* event of s was lost since: no handler has gone past it on the last of the events.
Recorded(s) ==
    /\ Mastered(s) => Learned(s)
    /\ s \in owed => /\ Learned(s)
                     /\ \/ Mastered(s) \/ s \in dropped
                        \/ \E l \in pending \cap Tagged(s) : \A w \in Worker : ~Past(w, l)

MasteryInv ==
    /\ DOMAIN op = Worker /\ pending \subseteq LessonKeys
    /\ \A s \in Surah \ divided : Waiting(s) /\ Recorded(s)

LEMMA NoRecord == NoOp.step = "none"
BY DEF NoOp

\* What handlers hold is kept, or forgotten.
OpKept == DOMAIN op' = DOMAIN op /\ \A w \in Worker : op'[w] = op[w] \/ op'[w].step \notin {"record", "section"}

\* A step that only adds to what is completed, and handles nothing.
LEMMA QuietMastery ==
    ASSUME MasteryInv, LessonsKept, OpKept, UNCHANGED <<achieved, owed, dropped>>,
           pending' = pending \cap LessonKeys'
    PROVE  MasteryInv'
<1>1. DOMAIN op' = Worker /\ pending' \subseteq LessonKeys'
    BY DEF MasteryInv, OpKept
<1>2. ASSUME NEW s \in Surah \ divided' PROVE Waiting(s)' /\ Recorded(s)'
    <2>1. /\ s \in Surah \ divided
          /\ Tagged(s)' = Tagged(s)
          /\ progress \cap Tagged(s) \subseteq progress'
        BY DEF LessonsKept
    <2>2. Waiting(s) /\ Recorded(s)
        BY <2>1 DEF MasteryInv
    <2>3. Tagged(s)' \subseteq LessonKeys'
        BY DEF Tagged
    <2>4. Learned(s) => Learned(s)'
        BY <2>1 DEF Learned
    <2>5. Waiting(s)'
        BY <2>1, <2>2, <2>4 DEF Waiting, Handles, OpKept
    <2>6. Recorded(s)'
        BY <2>1, <2>2, <2>3, <2>4 DEF Recorded, Mastered, Past, OpKept
    <2> QED BY <2>5, <2>6
<1> QED BY <1>1, <1>2 DEF MasteryInv

LEMMA CompleteMastery ==
    ASSUME MasteryInv, LessonsKept, NEW l, CompleteLesson(l) PROVE MasteryInv'
<1>1. DOMAIN op' = Worker /\ pending' \subseteq LessonKeys'
    BY SameLessons DEF MasteryInv, CompleteLesson
<1>2. ASSUME NEW s \in Surah \ divided' PROVE Waiting(s)' /\ Recorded(s)'
    <2>1. /\ s \in Surah \ divided
          /\ Tagged(s)' = Tagged(s)
          /\ op' = op /\ achieved' = achieved /\ dropped' = dropped
          /\ progress' = progress \cup {l} /\ pending' = pending \cup {l}
          /\ l \notin progress /\ l \in LessonKeys
        BY DEF LessonsKept, CompleteLesson
    <2>2. Waiting(s) /\ Recorded(s)
        BY <2>1 DEF MasteryInv
    <2>3. s \in owed' => s \in owed \/ (l \in Tagged(s) /\ Learned(s)')
        <3>1. s \in owed' => s \in owed
                  \/ (s = LessonAt(l).sourate /\ Tagged(LessonAt(l).sourate) \subseteq progress')
            BY DEF CompleteLesson
        <3> QED BY <3>1, <2>1 DEF Learned, Tagged
    <2>4. Learned(s) => Learned(s)'
        BY <2>1 DEF Learned
    <2>5. Waiting(s)'
        BY <2>1, <2>2, <2>4 DEF Waiting, Handles
    <2>6. l \in Tagged(s) => \A w \in Worker : ~Past(w, l)
        BY <2>1, <2>2 DEF Waiting, Handles, Past
    <2>7. Recorded(s)'
        BY <2>1, <2>2, <2>3, <2>4, <2>6 DEF Recorded, Mastered, Past
    <2> QED BY <2>5, <2>7
<1> QED BY <1>1, <1>2 DEF MasteryInv

LEMMA DetectMastery ==
    ASSUME SurahsNumbered, MasteryInv, LessonsKept, NEW w \in Worker, NEW l, Detect(w, l)
    PROVE  MasteryInv'
<1>1. PICK r, b :
          /\ b \in {"record", "section"} /\ r = LessonAt(l).sourate
          /\ b = "record" => Tagged(r) \subseteq progress
          /\ b = "section" => r = NoSurah \/ ~(Tagged(r) \subseteq progress) \/ <<"sourate", r>> \in achieved
          /\ op' = [op EXCEPT ![w] = [step |-> b, l |-> l, s |-> r]]
    <2>1. PICK r : r = LessonAt(l).sourate
        OBVIOUS
    <2>2. CASE r # NoSurah /\ Tagged(r) \subseteq progress /\ <<"sourate", r>> \notin achieved
        <3>1. op' = [op EXCEPT ![w] = [step |-> "record", l |-> l, s |-> r]]
            BY <2>1, <2>2 DEF Detect
        <3> QED BY <2>1, <2>2, <3>1
    <2>3. CASE ~(r # NoSurah /\ Tagged(r) \subseteq progress /\ <<"sourate", r>> \notin achieved)
        <3>1. op' = [op EXCEPT ![w] = [step |-> "section", l |-> l, s |-> r]]
            BY <2>1, <2>3 DEF Detect
        <3> QED BY <2>1, <2>3, <3>1
    <2> QED BY <2>2, <2>3
<1>2. UNCHANGED <<pending, achieved, owed, dropped, divided, lesson, progress>> /\ l \in pending
    BY DEF Detect, HandlerFrame, contentVars, database
<1>3. DOMAIN op' = Worker /\ pending' \subseteq LessonKeys'
    BY <1>1, <1>2, SameLessons DEF MasteryInv
<1>4. ASSUME NEW s \in Surah \ divided' PROVE Waiting(s)' /\ Recorded(s)'
    <2>1. s \in Surah \ divided /\ Tagged(s)' = Tagged(s) /\ Learned(s)' = Learned(s)
        BY <1>2, SameLessons DEF Learned
    <2>2. Waiting(s) /\ Recorded(s)
        BY <2>1 DEF MasteryInv
    <2>3. /\ op'[w].step = b /\ op'[w].l = l /\ op'[w].s = r
          /\ \A v \in Worker \ {w} : op'[v] = op[v]
        BY <1>1 DEF MasteryInv
    <2>4. l \in Tagged(s) <=> r = s
        BY <1>1, <1>2 DEF Tagged, MasteryInv
    <2>5. Waiting(s)'
        BY <1>1, <1>2, <2>1, <2>2, <2>3, <2>4 DEF Waiting, Handles, Learned
    <2>6. s \in owed /\ l \in Tagged(s) /\ b = "section" => Mastered(s)
        BY <1>1, <2>2, <2>4 DEF Recorded, Learned, Mastered, SurahsNumbered
    <2>7. Recorded(s)'
        BY <1>2, <2>1, <2>2, <2>3, <2>6 DEF Recorded, Mastered, Past
    <2> QED BY <2>5, <2>7
<1> QED BY <1>3, <1>4 DEF MasteryInv

LEMMA RecordMastery ==
    ASSUME MasteryInv, LessonsKept, NEW w \in Worker, Record(w) PROVE MasteryInv'
<1>1. PICK r, l :
          /\ r = op[w].s /\ l = op[w].l /\ op[w].step = "record"
          /\ achieved' = achieved \cup {<<"sourate", r>>}
          /\ op' = [op EXCEPT ![w] = [step |-> "section", l |-> l, s |-> r]]
             \/ op' = [op EXCEPT ![w] = NoOp]
    BY DEF Record
<1>2. UNCHANGED <<pending, owed, dropped, divided, lesson, progress>>
    BY DEF Record, HandlerFrame, contentVars, database
<1>3. DOMAIN op' = Worker /\ pending' \subseteq LessonKeys'
    BY <1>1, <1>2, SameLessons DEF MasteryInv
<1>4. ASSUME NEW s \in Surah \ divided' PROVE Waiting(s)' /\ Recorded(s)'
    <2>1. s \in Surah \ divided /\ Tagged(s)' = Tagged(s) /\ Learned(s)' = Learned(s)
        BY <1>2, SameLessons DEF Learned
    <2>2. Waiting(s) /\ Recorded(s)
        BY <2>1 DEF MasteryInv
    <2>3. /\ (op'[w].step = "section" /\ op'[w].l = l) \/ op'[w].step = "none"
          /\ \A v \in Worker \ {w} : op'[v] = op[v]
        BY <1>1, NoRecord DEF MasteryInv
    <2>4. l \in Tagged(s) => r = s /\ l \in progress
        BY <1>1, <2>2 DEF Waiting, Handles
    <2>5. r = s => Learned(s)
        BY <1>1, <2>2 DEF Waiting
    <2>6. Waiting(s)'
        BY <1>2, <2>1, <2>2, <2>3, <2>4 DEF Waiting, Handles
    <2>7. Mastered(s)' <=> Mastered(s) \/ r = s
        BY <1>1 DEF Mastered
    <2>8. Recorded(s)'
        BY <1>2, <2>1, <2>2, <2>3, <2>4, <2>5, <2>7 DEF Recorded, Past
    <2> QED BY <2>6, <2>8
<1> QED BY <1>3, <1>4 DEF MasteryInv

LEMMA SectionMastery ==
    ASSUME MasteryInv, LessonsKept, NEW w \in Worker, RecordSection(w) PROVE MasteryInv'
<1>1. PICK l, S :
          /\ l = op[w].l /\ op[w].step = "section"
          /\ achieved' = achieved \cup S /\ \A s : <<"sourate", s>> \notin S
          /\ pending' = pending \ {l} /\ op' = [op EXCEPT ![w] = NoOp]
    <2>1. ASSUME NEW S, S \subseteq {<<"section", op[w].l[1]>>} PROVE \A s : <<"sourate", s>> \notin S
        BY <2>1
    <2> QED BY <2>1 DEF RecordSection
<1>2. UNCHANGED <<owed, dropped, divided, lesson, progress>>
    BY DEF RecordSection, HandlerFrame, contentVars, database
<1>3. DOMAIN op' = Worker /\ pending' \subseteq LessonKeys'
    BY <1>1, <1>2, SameLessons DEF MasteryInv
<1>4. ASSUME NEW s \in Surah \ divided' PROVE Waiting(s)' /\ Recorded(s)'
    <2>1. s \in Surah \ divided /\ Tagged(s)' = Tagged(s) /\ Learned(s)' = Learned(s)
        BY <1>2, SameLessons DEF Learned
    <2>2. Waiting(s) /\ Recorded(s)
        BY <2>1 DEF MasteryInv
    <2>3. op'[w].step = "none" /\ \A v \in Worker \ {w} : op'[v] = op[v]
        BY <1>1, NoRecord DEF MasteryInv
    <2>4. Waiting(s)'
        BY <1>1, <1>2, <2>1, <2>2, <2>3 DEF Waiting, Handles
    <2>5. Mastered(s)' = Mastered(s)
        BY <1>1 DEF Mastered
    <2>6. Past(w, l)
        BY <1>1 DEF Past
    <2>7. Recorded(s)'
        BY <1>1, <1>2, <2>1, <2>2, <2>3, <2>5, <2>6 DEF Recorded, Past
    <2> QED BY <2>4, <2>7
<1> QED BY <1>3, <1>4 DEF MasteryInv

\* An event that is lost was the event of a surah that is not owed yet, or the
\* loss is remembered.
LEMMA LossMastery ==
    ASSUME MasteryInv, LessonsKept, NEW l, LeaveUnhandled(l) PROVE MasteryInv'
<1>1. /\ l \in pending /\ pending' = pending \ {l}
      /\ dropped' = dropped \cup ({LessonAt(l).sourate} \cap owed)
      /\ UNCHANGED <<op, achieved, owed, divided, lesson, progress>>
    BY DEF LeaveUnhandled, contentVars, database
<1>2. DOMAIN op' = Worker /\ pending' \subseteq LessonKeys'
    BY <1>1, SameLessons DEF MasteryInv
<1>3. ASSUME NEW s \in Surah \ divided' PROVE Waiting(s)' /\ Recorded(s)'
    <2>1. s \in Surah \ divided /\ Tagged(s)' = Tagged(s) /\ Learned(s)' = Learned(s)
        BY <1>1, SameLessons DEF Learned
    <2>2. Waiting(s) /\ Recorded(s)
        BY <2>1 DEF MasteryInv
    <2>3. Waiting(s)'
        BY <1>1, <2>1, <2>2 DEF Waiting, Handles
    <2>4. l \in Tagged(s) /\ s \in owed => s \in dropped'
        BY <1>1 DEF Tagged
    <2>5. \A k \in pending \cap Tagged(s) : k # l => k \in pending' \cap Tagged(s)'
        BY <1>1, <2>1
    <2>6. Recorded(s)'
        BY <1>1, <2>1, <2>2, <2>4, <2>5 DEF Recorded, Mastered, Past
    <2> QED BY <2>3, <2>6
<1> QED BY <1>2, <1>3 DEF MasteryInv

LEMMA MasteryStep ==
    ASSUME SurahsNumbered, MasteryInv, [StudyNext]_studyVars PROVE MasteryInv'
<1>1. LessonsKept
    BY StepKeeps
<1> USE <1>1
<1>2. ASSUME OpKept, UNCHANGED <<pending, lesson, achieved, owed, dropped>> PROVE MasteryInv'
    <2>1. pending' = pending \cap LessonKeys'
        BY <1>2, SameLessons DEF MasteryInv
    <2> QED BY <1>2, <2>1, QuietMastery
<1>3. CASE Scripted
    BY <1>3, QuietMastery DEF Scripted, OpKept
<1>4. ASSUME NEW l, CompleteLesson(l) PROVE MasteryInv'
    BY <1>4, CompleteMastery
<1>5. ASSUME NEW reads, NEW known, Onboard(reads, known) PROVE MasteryInv'
    BY <1>2, <1>5 DEF Onboard, OpKept
<1>6. CASE (\E S \in SUBSET Surah : ListSegments(S)) \/ ListLettres
    BY <1>2, <1>6 DEF ListSegments, ListLettres, RevisionFrame, contentVars, database, OpKept
<1>7. ASSUME NEW w \in Worker, NEW o, op' = [op EXCEPT ![w] = o],
             o.step \notin {"record", "section"}
      PROVE  OpKept
    BY <1>7 DEF OpKept, MasteryInv
<1>8. ASSUME NEW w \in Worker, Die(w) PROVE MasteryInv'
    BY <1>2, <1>7, <1>8, NoRecord DEF Die, HandlerFrame, contentVars, database
<1>9. ASSUME NEW w \in Worker, NEW s, GetGuided(w, s) PROVE MasteryInv'
    <2>1. OpKept \/ op' = op
        <3>1. op' = op \/ \E new : op' = [op EXCEPT ![w] = [step |-> "guided", s |-> s, new |-> new]]
            BY <1>9 DEF GetGuided
        <3> QED BY <3>1, <1>7
    <2> QED BY <1>2, <1>9, <2>1 DEF GetGuided, GuidedFrame, contentVars, database, OpKept
<1>10. ASSUME NEW w \in Worker, NEW s, NEW forgot, AdvanceGuided(w, s, forgot) PROVE MasteryInv'
    <2>1. \E new : op' = [op EXCEPT ![w] = [step |-> "guided", s |-> s, new |-> new]]
        BY <1>10 DEF AdvanceGuided
    <2>2. OpKept
        BY <2>1, <1>7
    <2> QED BY <1>2, <1>10, <2>2 DEF AdvanceGuided, GuidedFrame, contentVars, database
<1>11. ASSUME NEW w \in Worker, WriteGuided(w) PROVE MasteryInv'
    BY <1>2, <1>7, <1>11, NoRecord DEF WriteGuided, GuidedFrame, contentVars, database
<1>12. ASSUME NEW w \in Worker, NEW item, NEW q, ReviewItem(w, item, q) PROVE MasteryInv'
    <2>1. \E new : op' = [op EXCEPT ![w] = [step |-> "review", item |-> item, new |-> new]]
        BY <1>12 DEF ReviewItem
    <2>2. OpKept
        BY <2>1, <1>7
    <2> QED BY <1>2, <1>12, <2>2 DEF ReviewItem, RevisionFrame, contentVars, database
<1>13. ASSUME NEW w \in Worker, WriteReview(w) PROVE MasteryInv'
    BY <1>2, <1>7, <1>13, NoRecord DEF WriteReview, RevisionFrame, contentVars, database
<1>14. CASE UNCHANGED studyVars
    BY <1>2, <1>14 DEF studyVars, contentVars, database, OpKept
<1>15. ASSUME StudyStep PROVE MasteryInv'
    BY <1>3, <1>4, <1>5, <1>6, <1>8, <1>9, <1>10, <1>11, <1>12, <1>13, <1>15, DetectMastery,
       RecordMastery, SectionMastery, LossMastery DEF StudyStep, ReviewSegment, ReviewLettre
<1> QED BY <1>14, <1>15 DEF StudyNext

LEMMA MasteryInit == StudyInit => MasteryInv
<1> SUFFICES ASSUME StudyInit PROVE MasteryInv
    OBVIOUS
<1>1. progress = {} \/ progress = LessonKeys
    BY DEF StudyInit, ContentInit
<1>2. ASSUME NEW s, LearnedCount(s) > 0 PROVE Learned(s)
    <2>1. CASE progress = {}
        <3>1. LearnedChain(s) = {}
            BY <2>1 DEF LearnedChain
        <3> QED BY <1>2, <3>1, FS_EmptySet DEF LearnedCount
    <2>2. CASE progress = LessonKeys
        BY <2>2 DEF Learned, Tagged
    <2> QED BY <1>1, <2>1, <2>2
<1>3. /\ pending = {} /\ owed = {} /\ dropped = {} /\ op = [w \in Worker |-> NoOp]
      /\ achieved = {<<"sourate", s>> : s \in {r \in Surah : LearnedCount(r) > 0}}
    BY DEF StudyInit
<1>4. ASSUME NEW s \in Surah PROVE Waiting(s) /\ Recorded(s)
    BY <1>2, <1>3, NoRecord DEF Waiting, Recorded, Handles, Mastered
<1> QED BY <1>3, <1>4 DEF MasteryInv

\* What is recorded as mastered is learned, and what was learned by studying it is
\* recorded as mastered, or will be by an event that waits, unless the outbox has
\* lost an event of the surah since (achievements.ts, under overlapping handlers
\* that fail and die, and a job that handles nothing).
THEOREM MasteryKept == StudySpec => []MasteryRecorded
<1>1. SurahsNumbered
    BY ContentAssumption DEF SurahsNumbered, NoSurah
<1>2. StudyInit => MasteryInv
    BY MasteryInit
<1>3. MasteryInv /\ [StudyNext]_studyVars => MasteryInv'
    BY <1>1, MasteryStep
<1>4. MasteryInv => MasteryRecorded
    BY DEF MasteryInv, MasteryRecorded, Recorded, Mastered, Learned, Tagged
<1> QED BY <1>2, <1>3, <1>4, PTL DEF StudySpec

-----------------------------------------------------------------------------
(* The cursor of guided revision *)

\* A surah has finitely many lessons.
LessonsFinite == \A s \in Surah : IsFiniteSet(Tagged(s))

\* n lessons of s are no more than what is learned of it.
Within(s, n) == n \in Nat /\ n <= LearnedCount(s)

\* The cursors, and what requests are about to write to them.
CursorsWithin == \A s \in DOMAIN chain : s \in Surah /\ (s \notin divided => Within(s, chain[s].count))
WritesWithin ==
    \A w \in Worker : op[w].step = "guided" =>
        op[w].s \in Surah /\ (op[w].s \notin divided => Within(op[w].s, op[w].new.count))

GuidedInv ==
    /\ DOMAIN op = Worker
    /\ \A s \in Surah \ divided : IsFiniteSet(Tagged(s))
    /\ CursorsWithin /\ WritesWithin

LEMMA LeastOf ==
    ASSUME NEW a \in Int, NEW b \in Int
    PROVE  Min({a, b}) = IF a <= b THEN a ELSE b
BY DEF Min

LEMMA CountIsNat ==
    ASSUME NEW s, IsFiniteSet(Tagged(s)) PROVE LearnedCount(s) \in Nat
<1>1. LearnedChain(s) \subseteq Tagged(s)
    BY DEF LearnedChain
<1> QED BY <1>1, FS_Subset, FS_CardinalityType DEF LearnedCount

\* What is learned of a surah only grows, whatever scripts do to other surahs.
LEMMA LearnedGrows ==
    ASSUME LessonsKept, NEW s \in Surah \ divided', IsFiniteSet(Tagged(s))
    PROVE  /\ IsFiniteSet(Tagged(s)')
           /\ \A n : Within(s, n) => Within(s, n)'
<1>1. Tagged(s)' = Tagged(s) /\ progress \cap Tagged(s) \subseteq progress'
    BY DEF LessonsKept
<1>2. \A l : ChainBefore(s, l)' = ChainBefore(s, l) /\ ChainBefore(s, l) \subseteq Tagged(s)
    BY <1>1 DEF ChainBefore
<1>3. LearnedChain(s) \subseteq LearnedChain(s)'
    BY <1>1, <1>2 DEF LearnedChain
<1>4. LearnedChain(s)' \subseteq Tagged(s)
    BY <1>1 DEF LearnedChain
<1>5. IsFiniteSet(LearnedChain(s)')
    BY <1>4, FS_Subset
<1>6. /\ Cardinality(LearnedChain(s)) <= Cardinality(LearnedChain(s)')
      /\ Cardinality(LearnedChain(s)) \in Nat /\ Cardinality(LearnedChain(s)') \in Nat
    BY <1>3, <1>5, FS_Subset, FS_CardinalityType
<1>7. LearnedCount(s) = Cardinality(LearnedChain(s))
      /\ LearnedCount(s)' = Cardinality(LearnedChain(s)')
    BY DEF LearnedCount
<1>8. ASSUME NEW n, Within(s, n) PROVE Within(s, n)'
    BY <1>6, <1>7, <1>8 DEF Within
<1> QED BY <1>1, <1>8

\* What workers hold that is not for a cursor does not matter.
Aside == DOMAIN op' = Worker /\ \A w \in Worker : op'[w] = op[w] \/ op'[w].step # "guided"

LEMMA QuietGuided ==
    ASSUME GuidedInv, LessonsKept, UNCHANGED chain, Aside PROVE GuidedInv'
<1>1. \A s \in Surah \ divided' : /\ s \notin divided
                                  /\ IsFiniteSet(Tagged(s))'
                                  /\ \A n : Within(s, n) => Within(s, n)'
    <2> SUFFICES ASSUME NEW s \in Surah \ divided'
                 PROVE  /\ s \notin divided
                        /\ IsFiniteSet(Tagged(s))'
                        /\ \A n : Within(s, n) => Within(s, n)'
        OBVIOUS
    <2>1. s \notin divided /\ IsFiniteSet(Tagged(s))
        BY DEF LessonsKept, GuidedInv
    <2> QED BY <2>1, LearnedGrows
<1>2. CursorsWithin'
    BY <1>1 DEF GuidedInv, CursorsWithin
<1>3. WritesWithin'
    BY <1>1 DEF GuidedInv, WritesWithin, Aside
<1> QED BY <1>1, <1>2, <1>3 DEF GuidedInv, Aside

\* The lessons, the progress and what is divided being the same, the invariant
\* is that of the cursors and of the writes.
LEMMA SameWithin ==
    ASSUME UNCHANGED <<lesson, progress, divided>>, GuidedInv
    PROVE  /\ \A s, n : Within(s, n)' = Within(s, n)
           /\ \A s \in Surah \ divided' : IsFiniteSet(Tagged(s))'
<1>1. \A s : Tagged(s)' = Tagged(s)
    BY SameLessons
<1>2. \A s : LearnedCount(s)' = LearnedCount(s)
    BY <1>1 DEF LearnedCount, LearnedChain, ChainBefore
<1>3. \A s, n : Within(s, n)' = Within(s, n)
    BY <1>2 DEF Within
<1> QED BY <1>1, <1>3 DEF GuidedInv

\* A cursor is created at 0, which is within.
LEMMA CursorWithin ==
    ASSUME GuidedInv, NEW s \in Surah
    PROVE  /\ s \notin divided => Within(s, Cursor(s).count) /\ LearnedCount(s) \in Nat
           /\ chain' = WithCursor(s) /\ UNCHANGED <<lesson, progress, divided>> => CursorsWithin'
<1>1. \A t \in Surah \ divided : LearnedCount(t) \in Nat
    BY CountIsNat DEF GuidedInv
<1>2. \A t \in Surah \ divided : Within(t, Cursor(t).count)
    BY <1>1 DEF GuidedInv, CursorsWithin, Within, Cursor
<1>3. ASSUME chain' = WithCursor(s), UNCHANGED <<lesson, progress, divided>> PROVE CursorsWithin'
    <2>1. \A t, n : Within(t, n)' = Within(t, n)
        BY <1>3, SameWithin
    <2>2. /\ DOMAIN chain' = DOMAIN chain \cup {s}
          /\ \A t \in DOMAIN chain' : chain'[t] = Cursor(t)
        BY <1>3 DEF WithCursor
    <2>3. \A t \in DOMAIN chain' : t \in Surah
        BY <2>2 DEF GuidedInv, CursorsWithin
    <2> QED BY <1>2, <1>3, <2>1, <2>2, <2>3 DEF CursorsWithin
<1> QED BY <1>1, <1>2, <1>3

\* A request that will write n to the cursor of s.
LEMMA HoldsWithin ==
    ASSUME GuidedInv, UNCHANGED <<lesson, progress, divided>>, NEW w \in Worker, NEW s \in Surah,
           NEW n, NEW d, s \notin divided => Within(s, n),
           op' = [op EXCEPT ![w] = [step |-> "guided", s |-> s, new |-> [count |-> n, done |-> d]]]
    PROVE  DOMAIN op' = Worker /\ WritesWithin'
<1>1. /\ DOMAIN op' = Worker
      /\ op'[w].s = s /\ op'[w].new.count = n
      /\ \A v \in Worker \ {w} : op'[v] = op[v]
    BY DEF GuidedInv
<1>2. \A t, m : Within(t, m)' = Within(t, m)
    BY SameWithin
<1> QED BY <1>1, <1>2 DEF GuidedInv, WritesWithin

LEMMA GetGuidedWithin ==
    ASSUME GuidedInv, NEW w \in Worker, NEW s \in Surah, GetGuided(w, s) PROVE GuidedInv'
<1>1. UNCHANGED <<lesson, progress, divided>> /\ chain' = WithCursor(s)
    BY DEF GetGuided, GuidedFrame, contentVars, database
<1>2. PICK n, d :
          /\ n = Min({Cursor(s).count, LearnedCount(s)})
          /\ op' = op \/ op' = [op EXCEPT ![w] = [step |-> "guided", s |-> s,
                                                  new |-> [count |-> n, done |-> d]]]
    BY DEF GetGuided
<1>3. s \notin divided => Within(s, n)
    BY <1>2, CursorWithin, LeastOf DEF Within
<1>4. DOMAIN op' = Worker /\ WritesWithin'
    <2>1. CASE op' = op
        BY <1>1, <2>1, SameWithin DEF GuidedInv, WritesWithin
    <2>2. CASE op' = [op EXCEPT ![w] = [step |-> "guided", s |-> s, new |-> [count |-> n, done |-> d]]]
        BY <1>1, <1>3, <2>2, HoldsWithin
    <2> QED BY <1>2, <2>1, <2>2
<1> QED BY <1>1, <1>4, CursorWithin, SameWithin DEF GuidedInv

LEMMA AdvanceWithin ==
    ASSUME GuidedInv, NEW w \in Worker, NEW s \in Surah, NEW forgot \in BOOLEAN,
           AdvanceGuided(w, s, forgot)
    PROVE  GuidedInv'
<1>1. UNCHANGED <<lesson, progress, divided>> /\ chain' = WithCursor(s)
    BY DEF AdvanceGuided, GuidedFrame, contentVars, database
<1>2. PICK c, e, n, d :
          /\ c = Min({Cursor(s).count, LearnedCount(s)})
          /\ e \in {0, 1} /\ n = Min({c + e, LearnedCount(s)})
          /\ op' = [op EXCEPT ![w] = [step |-> "guided", s |-> s, new |-> [count |-> n, done |-> d]]]
    BY DEF AdvanceGuided
<1>3. s \notin divided => Within(s, n)
    <2> SUFFICES ASSUME s \notin divided PROVE Within(s, n)
        OBVIOUS
    <2>1. c \in Nat /\ LearnedCount(s) \in Nat
        BY <1>2, CursorWithin, LeastOf DEF Within
    <2>2. c + e \in Nat
        BY <1>2, <2>1
    <2>3. n = IF c + e <= LearnedCount(s) THEN c + e ELSE LearnedCount(s)
        <3>1. PICK m \in Nat : m = c + e
            BY <2>2
        <3>2. n = Min({m, LearnedCount(s)})
            BY <1>2, <3>1
        <3> QED BY <2>1, <3>1, <3>2, LeastOf
    <2> QED BY <2>1, <2>2, <2>3 DEF Within
<1>4. DOMAIN op' = Worker /\ WritesWithin'
    BY <1>1, <1>2, <1>3, HoldsWithin
<1> QED BY <1>1, <1>4, CursorWithin, SameWithin DEF GuidedInv

LEMMA WriteGuidedWithin ==
    ASSUME GuidedInv, NEW w \in Worker, WriteGuided(w) PROVE GuidedInv'
<1>1. UNCHANGED <<lesson, progress, divided>>
    BY DEF WriteGuided, GuidedFrame, contentVars, database
<1>2. PICK s, new :
          /\ s = op[w].s /\ new = op[w].new /\ op[w].step = "guided"
          /\ chain' = [chain EXCEPT ![s] = new] /\ op' = [op EXCEPT ![w] = NoOp]
    BY DEF WriteGuided
<1>3. s \in Surah /\ (s \notin divided => Within(s, new.count))
    BY <1>2 DEF GuidedInv, WritesWithin
<1>4. \A t, n : Within(t, n)' = Within(t, n)
    BY <1>1, SameWithin
<1>5. CursorsWithin'
    BY <1>1, <1>2, <1>3, <1>4 DEF GuidedInv, CursorsWithin
<1>6. DOMAIN op' = Worker /\ WritesWithin'
    BY <1>1, <1>2, <1>4, NoRecord DEF GuidedInv, WritesWithin
<1> QED BY <1>1, <1>5, <1>6, SameWithin DEF GuidedInv

LEMMA GuidedStep ==
    ASSUME GuidedInv, [StudyNext]_studyVars PROVE GuidedInv'
<1>1. LessonsKept
    BY StepKeeps
<1>2. ASSUME Aside, UNCHANGED chain PROVE GuidedInv'
    BY <1>1, <1>2, QuietGuided
<1>3. ASSUME UNCHANGED <<op, chain>> PROVE GuidedInv'
    BY <1>2, <1>3 DEF GuidedInv, Aside
<1>4. CASE Scripted
    BY <1>3, <1>4 DEF Scripted
<1>5. ASSUME NEW l, CompleteLesson(l) PROVE GuidedInv'
    BY <1>3, <1>5 DEF CompleteLesson
<1>6. ASSUME NEW reads, NEW known, Onboard(reads, known) PROVE GuidedInv'
    BY <1>3, <1>6 DEF Onboard
<1>7. CASE \/ \E S \in SUBSET Surah : ListSegments(S)
           \/ ListLettres
           \/ \E l \in pending : LeaveUnhandled(l)
    BY <1>3, <1>7 DEF ListSegments, ListLettres, LeaveUnhandled, RevisionFrame
<1>8. ASSUME NEW w \in Worker, NEW o, op' = [op EXCEPT ![w] = o], o.step # "guided" PROVE Aside
    BY <1>8 DEF Aside, GuidedInv
<1>9. ASSUME NEW w \in Worker, NEW l, Detect(w, l) PROVE GuidedInv'
    <2>1. \/ \E r : op' = [op EXCEPT ![w] = [step |-> "record", l |-> l, s |-> r]]
          \/ \E r : op' = [op EXCEPT ![w] = [step |-> "section", l |-> l, s |-> r]]
        BY <1>9 DEF Detect
    <2>2. Aside
        BY <2>1 DEF Aside, GuidedInv
    <2> QED BY <1>2, <1>9, <2>2 DEF Detect, HandlerFrame
<1>10. ASSUME NEW w \in Worker, Record(w) PROVE GuidedInv'
    <2>1. \/ \E l, r : op' = [op EXCEPT ![w] = [step |-> "section", l |-> l, s |-> r]]
          \/ op' = [op EXCEPT ![w] = NoOp]
        BY <1>10 DEF Record
    <2> QED BY <1>2, <1>8, <1>10, <2>1, NoRecord DEF Record, HandlerFrame
<1>11. ASSUME NEW w \in Worker, RecordSection(w) \/ Die(w) PROVE GuidedInv'
    BY <1>2, <1>8, <1>11, NoRecord DEF RecordSection, Die, HandlerFrame
<1>12. ASSUME NEW w \in Worker, NEW item, NEW q, ReviewItem(w, item, q) PROVE GuidedInv'
    <2>1. \E new : op' = [op EXCEPT ![w] = [step |-> "review", item |-> item, new |-> new]]
        BY <1>12 DEF ReviewItem
    <2>2. Aside
        BY <2>1 DEF Aside, GuidedInv
    <2> QED BY <1>2, <1>12, <2>2 DEF ReviewItem, RevisionFrame
<1>13. ASSUME NEW w \in Worker, WriteReview(w) PROVE GuidedInv'
    BY <1>2, <1>8, <1>13, NoRecord DEF WriteReview, RevisionFrame
<1>14. CASE UNCHANGED studyVars
    BY <1>3, <1>14 DEF studyVars
<1>15. ASSUME StudyStep PROVE GuidedInv'
    BY <1>4, <1>5, <1>6, <1>7, <1>9, <1>10, <1>11, <1>12, <1>13, <1>15, GetGuidedWithin,
       AdvanceWithin, WriteGuidedWithin DEF StudyStep, ReviewSegment, ReviewLettre
<1> QED BY <1>14, <1>15 DEF StudyNext

LEMMA GuidedInit == LessonsFinite /\ StudyInit => GuidedInv
<1> SUFFICES ASSUME LessonsFinite, StudyInit PROVE GuidedInv
    OBVIOUS
<1>1. /\ op = [w \in Worker |-> NoOp]
      /\ chain = [s \in {r \in Surah : LearnedCount(r) > 0} |->
                      [count |-> LearnedCount(s), done |-> TRUE]]
    BY DEF StudyInit
<1>2. \A s \in Surah : LearnedCount(s) \in Nat
    BY CountIsNat DEF LessonsFinite
<1>3. CursorsWithin
    BY <1>1, <1>2 DEF CursorsWithin, Within
<1>4. DOMAIN op = Worker /\ WritesWithin
    BY <1>1, NoRecord DEF WritesWithin
<1> QED BY <1>3, <1>4 DEF GuidedInv, LessonsFinite

\* The cursor never passes what is learned, however requests overlap: what they
\* write late is still within, as what is learned only grows.  The lessons of a
\* surah are finitely many at first; no script makes others of a surah that is
\* not divided again.
THEOREM GuidedKept == LessonsFinite /\ StudySpec => []GuidedNeverAhead
<1>1. LessonsFinite /\ StudyInit => GuidedInv
    BY GuidedInit
<1>2. GuidedInv /\ [StudyNext]_studyVars => GuidedInv'
    BY GuidedStep
<1>3. GuidedInv => GuidedNeverAhead
    BY DEF GuidedInv, GuidedNeverAhead, CursorsWithin, Within
<1> QED BY <1>1, <1>2, <1>3, PTL DEF StudySpec
=============================================================================
