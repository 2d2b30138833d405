----------------------------- MODULE LeagueProofs -----------------------------
(***************************************************************************)
(* Proofs about League, for every number of processes, users, leagues,     *)
(* weeks and faults, and every size of page.                               *)
(***************************************************************************)
EXTENDS League, TLAPS, WellFoundedInduction, FiniteSetTheorems,
        SequenceTheorems

Podiums == [User -> [1..LastWeek -> Nat \cup {NoRow}]]

\* What the processes do, as far as podiums go.  A credit that pays a podium
\* holds the row lock of its user, and found the podium unclaimed under it.
ClaimsTyped ==
    /\ DOMAIN op = Proc
    /\ \A p \in Proc :
          /\ "step" \in DOMAIN op[p]
          /\ op[p].step = "claim" => op[p].u \in User /\ op[p].n \in 1..LastWeek
          /\ op[p].step = "earn"  => op[p].u \in User /\ op[p].claim \in 0..LastWeek
OneCreditor ==
    \A p, q \in Proc :
        op[p].step = "earn" /\ op[q].step = "earn" /\ op[p].u = op[q].u => p = q
ClaimedUnderLock ==
    \A p \in Proc :
        op[p].step = "earn" /\ op[p].claim # 0 => podium[op[p].u][op[p].claim] = 0

\* The inductive invariant.
PInv == /\ podium \in Podiums
        /\ ClaimsTyped
        /\ OneCreditor
        /\ ClaimedUnderLock
        /\ PodiumPaidOnce

-----------------------------------------------------------------------------

\* Nobody holds a lock and no podium exists at the start.
LEMMA InitInv == Init => PInv
<1> SUFFICES ASSUME Init PROVE PInv
  OBVIOUS
<1>1. podium \in Podiums /\ PodiumPaidOnce
  BY DEF Init, Podiums, PodiumPaidOnce, NoRow
<1>2. ClaimsTyped /\ OneCreditor /\ ClaimedUnderLock
  BY DEF Init, ClaimsTyped, OneCreditor, ClaimedUnderLock, NoOp
<1> QED
  BY <1>1, <1>2 DEF PInv

\* A step that neither begins a claim nor holds a lock for a credit, and pays
\* nothing.
LEMMA OtherInv ==
    ASSUME PInv, NEW p \in Proc, NEW o, Goto(p, o), "step" \in DOMAIN o,
           o.step \notin {"claim", "earn"}, podium' = podium
    PROVE  PInv'
<1>1. /\ DOMAIN op' = Proc
      /\ \A q \in Proc : op'[q] = IF q = p THEN o ELSE op[q]
  BY DEF Goto, PInv, ClaimsTyped
<1>2. ClaimsTyped'
  BY <1>1 DEF PInv, ClaimsTyped
<1>3. OneCreditor' /\ ClaimedUnderLock'
  BY <1>1 DEF PInv, OneCreditor, ClaimedUnderLock
<1> QED
  BY <1>2, <1>3 DEF PInv, PodiumPaidOnce

\* A credit begins when nobody else holds the user.
LEMMA LockInv ==
    ASSUME PInv, NEW p \in Proc, NEW u \in User, NEW w, NEW n \in 0..LastWeek,
           Free(p, u), Goto(p, [step |-> "earn", u |-> u, w |-> w, claim |-> n]),
           n # 0 => podium[u][n] = 0, podium' = podium
    PROVE  PInv'
<1> DEFINE o == [step |-> "earn", u |-> u, w |-> w, claim |-> n]
<1>1. /\ DOMAIN op' = Proc
      /\ \A q \in Proc : op'[q] = IF q = p THEN o ELSE op[q]
  BY DEF Goto, PInv, ClaimsTyped
<1>2. /\ "step" \in DOMAIN o /\ o.step = "earn" /\ o.u = u /\ o.claim = n
  OBVIOUS
<1> HIDE DEF o
<1>3. \A q \in Proc \ {p} : ~(op[q].step = "earn" /\ op[q].u = u)
  BY DEF Free, Others, HasLocked
<1>4. ClaimsTyped'
  BY <1>1, <1>2 DEF PInv, ClaimsTyped
<1>5. OneCreditor'
  BY <1>1, <1>2, <1>3 DEF PInv, OneCreditor
<1>6. ClaimedUnderLock'
  BY <1>1, <1>2 DEF PInv, ClaimedUnderLock
<1> QED
  BY <1>4, <1>5, <1>6 DEF PInv, PodiumPaidOnce

\* The requests of the users, and the seed.
LEMMA RequestInv ==
    ASSUME PInv, NEW p \in Proc, NEW u \in User,
           \/ Earn(p, u) \/ Join(p, u) \/ View(p, u) \/ SeedLeagues(p)
           \/ \E n \in 1..LastWeek : ClaimPodium(p, u, n)
    PROVE  PInv'
<1>1. CASE Earn(p, u)
  BY <1>1, LockInv, LeagueAssumption DEF Earn, Start, tables
<1>2. CASE Join(p, u)
  BY <1>2, OtherInv DEF Join, Start, tables
<1>3. CASE View(p, u)
  BY <1>3, OtherInv DEF View, Start, tables
<1>4. CASE SeedLeagues(p)
  BY <1>4, OtherInv DEF SeedLeagues, Start
<1>5. ASSUME NEW n \in 1..LastWeek, ClaimPodium(p, u, n) PROVE PInv'
  <2> DEFINE o == [step |-> "claim", u |-> u, n |-> n]
  <2>1. /\ DOMAIN op' = Proc /\ podium' = podium
        /\ \A q \in Proc : op'[q] = IF q = p THEN o ELSE op[q]
    BY <1>5 DEF ClaimPodium, Start, Goto, tables, PInv, ClaimsTyped
  <2>2. "step" \in DOMAIN o /\ o.step = "claim" /\ o.u = u /\ o.n = n
    OBVIOUS
  <2> HIDE DEF o
  <2>3. ClaimsTyped'
    BY <2>1, <2>2 DEF PInv, ClaimsTyped
  <2>4. OneCreditor' /\ ClaimedUnderLock'
    BY <2>1, <2>2 DEF PInv, OneCreditor, ClaimedUnderLock
  <2> QED
    BY <2>1, <2>3, <2>4 DEF PInv, PodiumPaidOnce
<1> QED
  BY <1>1, <1>2, <1>3, <1>4, <1>5

\* The claim is tested again under the lock.
LEMMA ClaimInv == ASSUME PInv, NEW p \in Proc, ClaimLocked(p) PROVE PInv'
<1> DEFINE o == op[p]
<1>1. /\ o.u \in User /\ o.n \in 1..LastWeek /\ Free(p, o.u) /\ podium' = podium
      /\ Goto(p, IF podium[o.u][o.n] # 0 THEN NoOp
                 ELSE [step |-> "earn", u |-> o.u, w |-> Credited(o.u), claim |-> o.n])
  BY DEF ClaimLocked, PInv, ClaimsTyped, tables
<1> HIDE DEF o
<1>2. CASE podium[o.u][o.n] # 0
  BY <1>1, <1>2, OtherInv DEF NoOp
<1>3. CASE podium[o.u][o.n] = 0
  <2>1. o.n \in 0..LastWeek
    BY <1>1
  <2>2. Goto(p, [step |-> "earn", u |-> o.u, w |-> Credited(o.u), claim |-> o.n])
    BY <1>1, <1>3
  <2> QED
    BY <1>1, <1>3, <2>1, <2>2, LockInv
<1> QED
  BY <1>2, <1>3

\* The one who holds the user pays, and the others hold other users.
LEMMA CreditInv == ASSUME PInv, NEW p \in Proc, Credit(p) PROVE PInv'
<1> DEFINE o == op[p]
<1>1. /\ o.step = "earn" /\ o.u \in User /\ o.claim \in 0..LastWeek
      /\ podium' = IF o.claim = 0 THEN podium ELSE [podium EXCEPT ![o.u][o.claim] = @ + 1]
      /\ o.claim # 0 => podium[o.u][o.claim] = 0
  BY DEF Credit, PInv, ClaimsTyped, ClaimedUnderLock
<1>2. PICK new : /\ Goto(p, new) /\ "step" \in DOMAIN new
                 /\ new.step \in {"none", "mirror"}
  BY DEF Credit, NoOp
<1>3. /\ DOMAIN op' = Proc
      /\ \A q \in Proc : op'[q] = IF q = p THEN new ELSE op[q]
  BY <1>2 DEF Goto, PInv, ClaimsTyped
<1>4. podium' \in Podiums
  BY <1>1 DEF PInv, Podiums
<1>5. ClaimsTyped'
  BY <1>2, <1>3 DEF PInv, ClaimsTyped
<1>6. OneCreditor'
  BY <1>2, <1>3 DEF PInv, OneCreditor
<1>7. \A u \in User : u # o.u => podium'[u] = podium[u]
  BY <1>1 DEF PInv, Podiums
<1>8. ClaimedUnderLock'
  <2> SUFFICES ASSUME NEW q \in Proc, op'[q].step = "earn", op'[q].claim # 0
               PROVE  podium'[op'[q].u][op'[q].claim] = 0
    BY DEF ClaimedUnderLock
  <2>1. q # p /\ op'[q] = op[q]
    BY <1>2, <1>3
  <2>2. op[q].u \in User /\ op[q].u # o.u
    BY <1>1, <2>1 DEF PInv, ClaimsTyped, OneCreditor
  <2> QED
    BY <1>7, <2>1, <2>2 DEF PInv, ClaimedUnderLock
<1>9. PodiumPaidOnce'
  BY <1>1 DEF PInv, Podiums, PodiumPaidOnce
<1> QED
  BY <1>4, <1>5, <1>6, <1>8, <1>9 DEF PInv

\* A closing creates podiums where there was none, and touches no other.
LEMMA CloseInv == ASSUME PInv, NEW p \in Proc, CloseWeek(p) PROVE PInv'
<1>1. \A u \in User, n \in 1..LastWeek :
         podium'[u][n] = podium[u][n] \/ (podium[u][n] = NoRow /\ podium'[u][n] = 0)
  BY DEF CloseWeek, PInv, Podiums
<1>2. podium' \in Podiums
  BY DEF CloseWeek, PInv, Podiums
<1>3. PICK new : Goto(p, new) /\ "step" \in DOMAIN new /\ new.step = "roll"
  BY DEF CloseWeek
<1>4. /\ DOMAIN op' = Proc
      /\ \A q \in Proc : op'[q] = IF q = p THEN new ELSE op[q]
  BY <1>3 DEF Goto, PInv, ClaimsTyped
<1>5. ClaimsTyped'
  BY <1>3, <1>4 DEF PInv, ClaimsTyped
<1>6. OneCreditor'
  BY <1>3, <1>4 DEF PInv, OneCreditor
<1>7. ClaimedUnderLock'
  <2> SUFFICES ASSUME NEW q \in Proc, op'[q].step = "earn", op'[q].claim # 0
               PROVE  podium'[op'[q].u][op'[q].claim] = 0
    BY DEF ClaimedUnderLock
  <2>1. op'[q] = op[q]
    BY <1>3, <1>4
  <2>2. op[q].u \in User /\ op[q].claim \in 1..LastWeek /\ podium[op[q].u][op[q].claim] = 0
    BY <2>1 DEF PInv, ClaimsTyped, ClaimedUnderLock
  <2> QED
    BY <1>1, <2>1, <2>2 DEF NoRow
<1>8. PodiumPaidOnce'
  BY <1>1, <1>2 DEF PInv, PodiumPaidOnce, Podiums, NoRow
<1> QED
  BY <1>2, <1>5, <1>6, <1>7, <1>8 DEF PInv

\* The other steps of a process: the mirror, enrolment, the rollover up to its
\* commit, and what ends it.
LEMMA ProcessInv ==
    ASSUME PInv, NEW p \in Proc,
           \/ MirrorRankXp(p) \/ JoinWeek(p) \/ SetRankXp(p) \/ EnsureWarm(p)
           \/ CloseBegin(p) \/ CloseBatch(p) \/ RollEnd(p)
           \/ RunWeeklyRollover(p) \/ Abort(p) \/ Die(p)
    PROVE  PInv'
<1>1. "step" \in DOMAIN op[p] /\ "step" \in DOMAIN NoOp /\ NoOp.step = "none"
  BY DEF PInv, ClaimsTyped, NoOp
<1>2. podium' = podium
  BY DEF MirrorRankXp, JoinWeek, SetRankXp, EnsureWarm, CloseBegin, CloseBatch, RollEnd,
         RunWeeklyRollover, Abort, Die, tables
<1>3. CASE \/ MirrorRankXp(p) \/ SetRankXp(p) \/ EnsureWarm(p) \/ RollEnd(p) \/ Abort(p) \/ Die(p)
  BY <1>1, <1>2, <1>3, OtherInv DEF MirrorRankXp, SetRankXp, EnsureWarm, RollEnd, Abort, Die
<1>4. CASE RunWeeklyRollover(p)
  BY <1>2, <1>4, OtherInv DEF RunWeeklyRollover
<1>5. CASE JoinWeek(p)
  BY <1>1, <1>2, <1>5, OtherInv DEF JoinWeek
<1>6. CASE CloseBegin(p)
  BY <1>1, <1>2, <1>6, OtherInv DEF CloseBegin
<1>7. CASE CloseBatch(p)
  BY <1>1, <1>2, <1>7, OtherInv DEF CloseBatch
<1> QED
  BY <1>3, <1>4, <1>5, <1>6, <1>7

\* Every step keeps the inductive invariant.
LEMMA NextInv == PInv /\ [Next]_vars => PInv'
<1> SUFFICES ASSUME PInv, [Next]_vars PROVE PInv'
  OBVIOUS
<1>1. CASE Tick \/ LockExpires \/ UNCHANGED vars
  <2>1. UNCHANGED <<podium, op>>
    BY <1>1 DEF Tick, LockExpires, vars, tables
  <2> QED
    BY <2>1 DEF PInv, ClaimsTyped, OneCreditor, ClaimedUnderLock, PodiumPaidOnce
<1>2. ASSUME NEW p \in Proc, SeedLeagues(p) PROVE PInv'
  <2>1. 1 \in User
    BY LeagueAssumption DEF User
  <2> QED
    BY <1>2, <2>1, RequestInv
<1> QED
  BY <1>1, <1>2, RequestInv, ClaimInv, CreditInv, CloseInv, ProcessInv DEF Next, Step

-----------------------------------------------------------------------------

\* A podium is paid once, however many claims and rollovers overlap, whatever
\* dies and whether or not the lock of the rollover runs out under it.
THEOREM PodiumsPaidOnce == Spec => []PodiumPaidOnce
<1>1. PInv => PodiumPaidOnce
  BY DEF PInv
<1> QED
  BY <1>1, InitInv, NextInv, PTL DEF Spec

-----------------------------------------------------------------------------
(* The XP of the two screens.                                              *)

\* A user is in an open week.
In(u, w) == state[w] = "open" /\ xp[w][u] # NoRow

\* What a process does, as far as XP goes.  A week it adds to has been opened, one
\* it closes has ended.
Begins(o) == o.u \in User /\ o.w \in Week /\ state[o.w] # "none"
Over(w)   == w \in Week /\ w[2] + 1 <= now
Acts(o) ==
    /\ "step" \in DOMAIN o
    /\ o.step = "claim" => o.u \in User
    /\ o.step = "earn"  => o.u \in User /\ (o.w # NoWeek => Begins(o))
    /\ o.step \in {"join", "enrol"}  => Begins(o) /\ o.xp \in Nat
    /\ o.step \in {"roll", "close"}  => \A w \in o.weeks : Over(w)
    /\ o.step = "close" => Over(o.w)

Typed ==
    /\ now \in 1..(LastWeek + 1)
    /\ state \in [Week -> {"none", "open", "closed"}]
    /\ xp \in [Week -> [User -> Nat \cup {NoRow}]]
    /\ total \in [User -> Nat]
    /\ DOMAIN op = Proc
    /\ \A w \in Week, u \in User : xp[w][u] # NoRow => state[w] # "none"
Acting == \A p \in Proc : Acts(op[p])

\* Whoever is in no open week has no XP, and who is in one has the XP he has there.
\* (In two, until the first of them closes, the two screens may differ.)
OneCounter ==
    \A u \in User \ torn :
        /\ (\A w \in Week : ~In(u, w)) => total[u] = 0
        /\ \A w \in Week : In(u, w) /\ (\A v \in Week : In(u, v) => v = w)
              => total[u] = xp[w][u]

XInv == Typed /\ Acting /\ OneCounter

-----------------------------------------------------------------------------
(* Weeks.                                                                  *)

\* A set of numbers that is not empty has a least.
LEMMA Least == ASSUME NEW S \in SUBSET Nat, S # {} PROVE \E m \in S : \A n \in S : m <= n
<1>1. PICK m \in S : \A n \in S : ~(<<n, m>> \in OpToRel(<, Nat))
  BY NatLessThanWellFounded, WFMin
<1>2. \A n \in S : ~(n < m)
  BY <1>1 DEF OpToRel
<1> QED
  BY <1>2

\* Below a bound, it has a greatest.
LEMMA Greatest ==
    ASSUME NEW N \in Nat, NEW S \in SUBSET (0..N), S # {}
    PROVE  \E m \in S : \A n \in S : m >= n
<1> DEFINE T == {N - n : n \in S}
<1>1. PICK s \in S : TRUE
  OBVIOUS
<1>2. N - s \in T /\ T \in SUBSET Nat
  OBVIOUS
<1> HIDE DEF T
<1>3. PICK t \in T : \A n \in T : t <= n
  BY <1>2, Least
<1> USE DEF T
<1>4. PICK m \in S : t = N - m
  OBVIOUS
<1>5. \A n \in S : N - m <= N - n
  BY <1>3, <1>4
<1> QED
  BY <1>5

\* A week is a pair of numbers.
LEMMA WeekIsPair ==
    ASSUME NEW w \in Week
    PROVE  w = <<w[1], w[2]>> /\ w[1] \in 1..NumTiers /\ w[2] \in 1..(LastWeek + 1)
BY LeagueAssumption DEF Week, Tier

\* The latest of some weeks is one of them.
LEMMA LatestIsOne == ASSUME NEW W \in SUBSET Week, W # {} PROVE Latest(W) \in W
<1> DEFINE Nums == {w[2] : w \in W}
<1>1. NumTiers \in Nat /\ LastWeek + 1 \in Nat
  BY LeagueAssumption
<1>2. \E n \in Nums : \A m \in Nums : n >= m
  <2>1. Nums \in SUBSET (0..(LastWeek + 1)) /\ Nums # {}
    BY <1>1, WeekIsPair
  <2> HIDE DEF Nums
  <2> QED
    BY <1>1, <2>1, Greatest
<1>3. PICK x \in W : \A w \in W : x[2] >= w[2]
  BY <1>2
<1> DEFINE Ids == {w[1] : w \in {v \in W : v[2] = x[2]}}
<1>4. \E n \in Ids : \A m \in Ids : n >= m
  <2>1. Ids \in SUBSET (0..NumTiers) /\ x[1] \in Ids
    BY <1>1, WeekIsPair
  <2> HIDE DEF Ids
  <2> QED
    BY <1>1, <2>1, Greatest
<1>5. PICK y \in W : y[2] = x[2] /\ \A w \in W : w[2] = x[2] => y[1] >= w[1]
  BY <1>4
<1>6. \A w \in W : y[2] > w[2] \/ (y[2] = w[2] /\ y[1] >= w[1])
  BY <1>1, <1>3, <1>5, WeekIsPair
<1> QED
  BY <1>6 DEF Latest

\* The lowest league's latest week is one of them.
LEMMA LowestIsOne == ASSUME NEW W \in SUBSET Week, W # {} PROVE Lowest(W) \in W
<1> DEFINE Ids == {w[1] : w \in W}
<1>1. NumTiers \in Nat /\ LastWeek + 1 \in Nat
  BY LeagueAssumption
<1>2. \E n \in Ids : \A m \in Ids : n <= m
  <2>1. Ids \in SUBSET Nat /\ Ids # {}
    BY <1>1, WeekIsPair
  <2> HIDE DEF Ids
  <2> QED
    BY <2>1, Least
<1>3. PICK x \in W : \A w \in W : x[1] <= w[1]
  BY <1>2
<1> DEFINE Nums == {w[2] : w \in {v \in W : v[1] = x[1]}}
<1>4. \E n \in Nums : \A m \in Nums : n >= m
  <2>1. Nums \in SUBSET (0..(LastWeek + 1)) /\ x[2] \in Nums
    BY <1>1, WeekIsPair
  <2> HIDE DEF Nums
  <2> QED
    BY <1>1, <2>1, Greatest
<1>5. PICK y \in W : y[1] = x[1] /\ \A w \in W : w[1] = x[1] => y[2] >= w[2]
  BY <1>4
<1>6. \A w \in W : y[1] < w[1] \/ (y[1] = w[1] /\ y[2] >= w[2])
  BY <1>1, <1>3, <1>5, WeekIsPair
<1> QED
  BY <1>6 DEF Lowest

\* The week an amount is credited to, and the one a user joins, have begun.
LEMMA CreditedBegan ==
    ASSUME NEW u \in User
    PROVE  /\ Credited(u) # NoWeek => Credited(u) \in Week /\ state[Credited(u)] # "none"
           /\ LowestOpen # NoWeek => LowestOpen \in Week /\ state[LowestOpen] # "none"
<1> DEFINE W == {w \in Week : Began(w)}
<1>1. LowestOpen # NoWeek => LowestOpen \in W
  BY LowestIsOne DEF LowestOpen
<1>2. CurrentWeek(u) # NoWeek => CurrentWeek(u) \in Mine(u)
  <2>1. Mine(u) \in SUBSET Week
    BY DEF Mine
  <2> QED
    BY <2>1, LatestIsOne DEF CurrentWeek
<1> QED
  BY <1>1, <1>2 DEF Credited, Mine, Began

\* A process that moves on.
LEMMA GoXp ==
    ASSUME DOMAIN op = Proc, NEW p \in Proc, NEW o, Goto(p, o)
    PROVE  DOMAIN op' = Proc /\ \A q \in Proc : op'[q] = IF q = p THEN o ELSE op[q]
BY DEF Goto

\* An operation stays what it is when weeks are opened and closed.
LEMMA ActsStay ==
    ASSUME NEW o, Acts(o), now' = now,
           \A w \in Week : state[w] # "none" => state'[w] # "none"
    PROVE  Acts(o)'
BY DEF Acts, Begins, Over

\* So it does for everyone when one process moves on.
LEMMA ActingOn ==
    ASSUME XInv, NEW p \in Proc, NEW o, Goto(p, o), Acts(o)', now' = now,
           \A w \in Week : state[w] # "none" => state'[w] # "none"
    PROVE  Acting' /\ DOMAIN op' = Proc
<1>1. DOMAIN op' = Proc /\ \A q \in Proc : op'[q] = IF q = p THEN o ELSE op[q]
  BY GoXp DEF XInv, Typed
<1>2. ASSUME NEW q \in Proc PROVE Acts(op[q])'
  <2>1. CASE q = p
    BY <1>1, <2>1 DEF Acts, Begins, Over
  <2>2. CASE q # p
    <3>1. PICK x : x = op[q] /\ op'[q] = x
      BY <1>1, <2>2
    <3>2. Acts(x)'
      BY <3>1, ActsStay DEF XInv, Acting
    <3> QED
      BY <3>1, <3>2 DEF Acts, Begins, Over
  <2> QED
    BY <2>1, <2>2
<1> QED
  BY <1>1, <1>2 DEF Acting

\* A step that writes no XP and opens and closes nothing.
LEMMA IdleXp ==
    ASSUME XInv, NEW p \in Proc, NEW o, Goto(p, o), Acts(o),
           UNCHANGED <<now, state, xp, total, torn>>
    PROVE  XInv'
<1>1. DOMAIN op' = Proc /\ \A q \in Proc : op'[q] = IF q = p THEN o ELSE op[q]
  BY GoXp DEF XInv, Typed
<1>2. Typed'
  BY <1>1 DEF XInv, Typed
<1>3. Acting'
  <2>1. Acts(o)'
    BY ActsStay
  <2> QED
    BY <2>1, ActingOn
<1>4. OneCounter'
  BY DEF XInv, OneCounter, In
<1> QED
  BY <1>2, <1>3, <1>4 DEF XInv

\* At the start nobody has XP, in or out of a week.
LEMMA InitXp == Init => XInv
<1> SUFFICES ASSUME Init PROVE XInv
  OBVIOUS
<1>1. NumTiers \in Nat /\ LastWeek + 1 \in Nat /\ 1 \in 1..(LastWeek + 1)
  BY LeagueAssumption
<1>2. PICK in \in Starts :
         xp = [w \in Week |-> [u \in User |-> IF w = <<in[u], 1>> THEN 0 ELSE NoRow]]
  BY DEF Init
<1>3. \A w \in Week, u \in User : /\ xp[w][u] \in {0, NoRow}
                                  /\ xp[w][u] # NoRow => w[2] = 1
  BY <1>2 DEF NoRow
<1>4. Typed
  BY <1>1, <1>2, <1>3 DEF Init, Typed, NoRow
<1>5. Acting
  BY DEF Init, Acting, Acts, NoOp
<1>6. OneCounter
  BY <1>3 DEF Init, OneCounter, In
<1> QED
  BY <1>4, <1>5, <1>6 DEF XInv

\* Reads, locks, mirrors and views.
LEMMA RequestXp ==
    ASSUME XInv, NEW p \in Proc, NEW u \in User,
           \/ Earn(p, u) \/ Join(p, u) \/ View(p, u)
           \/ \E n \in 1..LastWeek : ClaimPodium(p, u, n)
    PROVE  XInv'
<1>1. UNCHANGED <<now, state, xp, total, torn>>
  BY DEF Earn, Join, View, ClaimPodium, tables, history
<1>2. CASE Earn(p, u)
  <2>1. PICK o : o = [step |-> "earn", u |-> u, w |-> Credited(u), claim |-> 0] /\ Goto(p, o)
    BY <1>2 DEF Earn, Start
  <2>2. "step" \in DOMAIN o /\ o.step = "earn" /\ o.u = u /\ o.w = Credited(u)
    BY <2>1
  <2>3. Acts(o)
    BY <2>2, CreditedBegan DEF Acts, Begins
  <2> QED
    BY <1>1, <2>1, <2>3, IdleXp
<1>3. CASE Join(p, u)
  <2>1. PICK o : /\ o = [step |-> "join", u |-> u, w |-> LowestOpen, xp |-> total[u]]
                 /\ Goto(p, o) /\ LowestOpen # NoWeek
    BY <1>3 DEF Join, Start
  <2>2. /\ "step" \in DOMAIN o /\ o.step = "join" /\ o.u = u /\ o.w = LowestOpen
        /\ o.xp = total[u] /\ o.xp \in Nat
    BY <2>1 DEF XInv, Typed
  <2>3. Acts(o)
    BY <2>1, <2>2, CreditedBegan DEF Acts, Begins
  <2> QED
    BY <1>1, <2>1, <2>3, IdleXp
<1>4. CASE View(p, u)
  <2>1. PICK o : Goto(p, o) /\ "step" \in DOMAIN o /\ o.step = "view"
    BY <1>4 DEF View, Start
  <2>2. Acts(o)
    BY <2>1 DEF Acts
  <2> QED
    BY <1>1, <2>1, <2>2, IdleXp
<1>5. ASSUME NEW n \in 1..LastWeek, ClaimPodium(p, u, n) PROVE XInv'
  <2>1. PICK o : Goto(p, o) /\ o = [step |-> "claim", u |-> u, n |-> n]
    BY <1>5 DEF ClaimPodium, Start
  <2>2. Acts(o)
    BY <2>1 DEF Acts
  <2> QED
    BY <1>1, <2>1, <2>2, IdleXp
<1> QED
  BY <1>2, <1>3, <1>4, <1>5

\* The other steps that write no XP.
LEMMA QuietXp ==
    ASSUME XInv, NEW p \in Proc,
           \/ ClaimLocked(p) \/ MirrorRankXp(p) \/ SetRankXp(p) \/ EnsureWarm(p)
           \/ RunWeeklyRollover(p) \/ CloseBegin(p) \/ CloseBatch(p) \/ RollEnd(p)
           \/ Abort(p) \/ Die(p)
    PROVE  XInv'
<1>1. UNCHANGED <<now, state, xp, total, torn>>
  BY DEF ClaimLocked, MirrorRankXp, SetRankXp, EnsureWarm, RunWeeklyRollover, CloseBegin,
         CloseBatch, RollEnd, Abort, Die, tables, history
<1>2. Acts(NoOp)
  BY DEF Acts, NoOp
<1>3. Acts(op[p]) /\ now \in Nat /\ LastWeek \in Nat
  BY LeagueAssumption DEF XInv, Acting, Typed
<1>4. CASE MirrorRankXp(p) \/ SetRankXp(p) \/ EnsureWarm(p) \/ RollEnd(p) \/ Abort(p) \/ Die(p)
  <2>1. Goto(p, NoOp)
    BY <1>4 DEF MirrorRankXp, SetRankXp, EnsureWarm, RollEnd, Abort, Die
  <2> QED
    BY <1>1, <1>2, <2>1, IdleXp
<1>5. CASE ClaimLocked(p)
  <2> DEFINE c == op[p]
  <2>1. c.u \in User
    BY <1>3, <1>5 DEF ClaimLocked, Acts
  <2>2. CASE podium[c.u][c.n] # 0
    BY <1>1, <1>2, <1>5, <2>2, IdleXp DEF ClaimLocked
  <2>3. CASE podium[c.u][c.n] = 0
    <3>1. PICK o : /\ o = [step |-> "earn", u |-> c.u, w |-> Credited(c.u), claim |-> c.n]
                   /\ Goto(p, o)
      BY <1>5, <2>3 DEF ClaimLocked
    <3>2. "step" \in DOMAIN o /\ o.step = "earn" /\ o.u = c.u /\ o.w = Credited(c.u)
      BY <3>1
    <3>3. Acts(o)
      BY <2>1, <3>2, CreditedBegan DEF Acts, Begins
    <3> QED
      BY <1>1, <3>1, <3>3, IdleXp
  <2> QED
    BY <2>2, <2>3
<1>6. CASE RunWeeklyRollover(p)
  <2>1. PICK o : o = [step |-> "roll", weeks |-> Ended] /\ Goto(p, o)
    BY <1>6 DEF RunWeeklyRollover
  <2>2. "step" \in DOMAIN o /\ o.step = "roll" /\ o.weeks = Ended
    BY <2>1
  <2>3. Acts(o)
    BY <2>2 DEF Acts, Ended, Over
  <2> QED
    BY <1>1, <2>1, <2>3, IdleXp
<1>7. CASE CloseBegin(p)
  <2> DEFINE c == op[p]
  <2>1. PICK w \in c.weeks :
           Goto(p, IF state[w] = "closed" THEN [c EXCEPT !.weeks = @ \ {w}]
                   ELSE [step |-> "close", weeks |-> c.weeks \ {w}, w |-> w,
                         size |-> Cardinality(Members(w)), done |-> <<>>])
    BY <1>7 DEF CloseBegin
  <2>2. c.step = "roll" /\ \A v \in c.weeks : Over(v)
    BY <1>3, <1>7 DEF CloseBegin, Acts
  <2>3. CASE state[w] = "closed"
    <3>1. PICK o : o = [c EXCEPT !.weeks = @ \ {w}] /\ Goto(p, o)
      BY <2>1, <2>3
    <3>2. "step" \in DOMAIN o /\ o.step = "roll" /\ \A v \in o.weeks : Over(v)
      BY <1>3, <2>2, <3>1 DEF Acts
    <3>3. Acts(o)
      BY <3>2 DEF Acts
    <3> QED
      BY <1>1, <3>1, <3>3, IdleXp
  <2>4. CASE state[w] # "closed"
    <3>1. PICK o : /\ o = [step |-> "close", weeks |-> c.weeks \ {w}, w |-> w,
                           size |-> Cardinality(Members(w)), done |-> <<>>]
                   /\ Goto(p, o)
      BY <2>1, <2>4
    <3>2. /\ "step" \in DOMAIN o /\ o.step = "close" /\ o.w = w
          /\ \A v \in o.weeks : Over(v)
      BY <2>2, <3>1
    <3>3. Acts(o)
      BY <2>2, <3>2 DEF Acts
    <3> QED
      BY <1>1, <3>1, <3>3, IdleXp
  <2> QED
    BY <2>3, <2>4
<1>8. CASE CloseBatch(p)
  <2> DEFINE c == op[p]
  <2>1. PICK o : o = [c EXCEPT !.done = @ \o Page(c)] /\ Goto(p, o)
    BY <1>8 DEF CloseBatch
  <2>2. /\ "step" \in DOMAIN o /\ o.step = "close" /\ o.w = c.w /\ o.weeks = c.weeks
    BY <1>3, <1>8, <2>1 DEF CloseBatch, Acts
  <2>3. Acts(o)
    BY <1>3, <1>8, <2>2 DEF CloseBatch, Acts
  <2> QED
    BY <1>1, <2>1, <2>3, IdleXp
<1> QED
  BY <1>4, <1>5, <1>6, <1>7, <1>8

\* Time passes, and keys run out.
LEMMA ClockXp == ASSUME XInv, Tick \/ LockExpires \/ UNCHANGED vars PROVE XInv'
<1>1. UNCHANGED <<state, xp, total, op, torn>>
  BY DEF Tick, LockExpires, vars, tables, history
<1>2. now' \in 1..(LastWeek + 1) /\ now' >= now /\ now \in Nat
  BY LeagueAssumption DEF Tick, LockExpires, vars, XInv, Typed
<1>3. ASSUME NEW w, Over(w) PROVE Over(w)'
  <2>1. w[2] \in Nat
    BY <1>3, WeekIsPair DEF Over
  <2> QED
    BY <1>2, <1>3, <2>1 DEF Over
<1>4. ASSUME NEW p \in Proc PROVE Acts(op[p])'
  <2>1. Acts(op[p])
    BY DEF XInv, Acting
  <2> QED
    BY <1>1, <1>3, <2>1 DEF Acts, Begins
<1>5. Typed'
  BY <1>1, <1>2 DEF XInv, Typed
<1> QED
  BY <1>1, <1>4, <1>5 DEF XInv, Acting, OneCounter, In

\* The seed may open a week, in which nobody is yet.
LEMMA SeedXp == ASSUME XInv, NEW p \in Proc, SeedLeagues(p) PROVE XInv'
<1> DEFINE first == <<1, now>>
           lowest == {w \in Week : w[1] = 1 /\ Began(w)}
<1>1. /\ UNCHANGED <<now, xp, total, torn>>
      /\ state' = state \/ state' = Opened({first})
  BY DEF SeedLeagues, history
<1>2. first \in Week /\ Demo \in User
  BY LeagueAssumption DEF Week, Tier, User, XInv, Typed
<1>3. /\ state' \in [Week -> {"none", "open", "closed"}]
      /\ \A w \in Week : state[w] # "none" => state'[w] = state[w]
  BY <1>1 DEF XInv, Typed, Opened
<1>4. PICK o : /\ Goto(p, o) /\ o.step = "enrol" /\ "step" \in DOMAIN o
               /\ o.u = Demo /\ o.xp = 0 /\ o.w \in Week /\ state'[o.w] # "none"
  <2>1. CASE lowest # {}
    <3>1. lowest \in SUBSET Week
      OBVIOUS
    <3>2. PICK w : w = Latest(lowest) /\ w \in lowest
      BY <2>1, <3>1, LatestIsOne
    <3>3. Goto(p, [step |-> "enrol", u |-> Demo, w |-> w, xp |-> 0])
      BY <2>1, <3>2 DEF SeedLeagues, Start
    <3>4. w \in Week /\ state'[w] # "none"
      BY <1>3, <3>2 DEF Began
    <3> QED
      BY <3>3, <3>4
  <2>2. CASE lowest = {}
    <3>1. /\ Goto(p, [step |-> "enrol", u |-> Demo, w |-> first, xp |-> 0])
          /\ state' = Opened({first})
      BY <2>2 DEF SeedLeagues, Start
    <3>2. state'[first] # "none"
      BY <1>2, <3>1 DEF Opened
    <3> QED
      BY <1>2, <3>1, <3>2
  <2> QED
    BY <2>1, <2>2
<1>5. DOMAIN op' = Proc /\ \A q \in Proc : op'[q] = IF q = p THEN o ELSE op[q]
  BY <1>4, GoXp DEF XInv, Typed
<1>6. Typed'
  BY <1>1, <1>3, <1>5 DEF XInv, Typed
<1>7. Acting'
  <2>1. Acts(o)'
    BY <1>2, <1>4 DEF Acts, Begins
  <2> QED
    BY <1>1, <1>3, <1>4, <2>1, ActingOn
<1>8. \A u \in User, w \in Week : In(u, w)' <=> In(u, w)
  BY <1>1, <1>3 DEF XInv, Typed, In
<1>9. OneCounter'
  BY <1>1, <1>8 DEF XInv, OneCounter
<1> QED
  BY <1>6, <1>7, <1>9 DEF XInv

\* The membership and the counter of a user grow together.
LEMMA CreditXp == ASSUME XInv, NEW p \in Proc, Credit(p) PROVE XInv'
<1> DEFINE c == op[p]
<1>1. PICK u \in User : u = c.u /\ total' = [total EXCEPT ![u] = @ + 1]
  BY DEF Credit, XInv, Acting, Acts
<1>2. UNCHANGED <<now, state>> /\ total' \in [User -> Nat] /\ total'[u] = total[u] + 1
  BY <1>1 DEF Credit, XInv, Typed
<1>3. PICK o : Goto(p, o) /\ "step" \in DOMAIN o /\ o.step \in {"none", "mirror"}
  BY DEF Credit, NoOp
<1>4. DOMAIN op' = Proc /\ \A q \in Proc : op'[q] = IF q = p THEN o ELSE op[q]
  BY <1>3, GoXp DEF XInv, Typed
<1>5. Acting'
  <2>1. Acts(o)'
    BY <1>3 DEF Acts
  <2> QED
    BY <1>2, <1>3, <2>1, ActingOn
<1>6. CASE c.w = NoWeek
  <2>1. xp' = xp /\ torn' = torn \cup {u}
    BY <1>1, <1>6 DEF Credit
  <2>2. Typed'
    BY <1>2, <1>4, <2>1 DEF XInv, Typed
  <2>3. OneCounter'
    BY <1>1, <1>2, <2>1 DEF XInv, Typed, OneCounter, In
  <2> QED
    BY <1>5, <2>2, <2>3 DEF XInv
<1>7. CASE c.w # NoWeek
  <2>1. PICK w \in Week : w = c.w /\ state[w] # "none"
    BY <1>1, <1>7 DEF Credit, XInv, Acting, Acts, Begins
  <2>2. /\ xp' = [xp EXCEPT ![w][u] = (IF @ = NoRow THEN 0 ELSE @) + 1]
        /\ torn' = IF state[w] = "closed" THEN torn \cup {u} ELSE torn
    BY <1>1, <1>7, <2>1 DEF Credit
  <2>3. /\ xp' \in [Week -> [User -> Nat \cup {NoRow}]]
        /\ xp'[w][u] = (IF xp[w][u] = NoRow THEN 0 ELSE xp[w][u]) + 1
        /\ xp'[w][u] # NoRow
        /\ \A x \in Week, v \in User : <<x, v>> # <<w, u>> => xp'[x][v] = xp[x][v]
    BY <2>2 DEF XInv, Typed, NoRow
  <2>4. Typed'
    BY <1>2, <1>4, <2>1, <2>3 DEF XInv, Typed
  <2>5. ASSUME NEW v \in User \ torn', v # u
        PROVE  /\ (\A x \in Week : ~In(v, x)') => total'[v] = 0
               /\ \A x \in Week : In(v, x)' /\ (\A y \in Week : In(v, y)' => y = x)
                     => total'[v] = xp'[x][v]
    BY <1>1, <1>2, <2>2, <2>3, <2>5 DEF XInv, OneCounter, In
  <2>6. ASSUME u \notin torn'
        PROVE  /\ (\A x \in Week : ~In(u, x)') => total'[u] = 0
               /\ \A x \in Week : In(u, x)' /\ (\A y \in Week : In(u, y)' => y = x)
                     => total'[u] = xp'[x][u]
    <3>1. u \notin torn /\ state[w] = "open" /\ In(u, w)'
      BY <1>2, <2>1, <2>2, <2>3, <2>6 DEF XInv, Typed, In
    <3>2. \A y \in Week : y # w => (In(u, y)' <=> In(u, y))
      BY <1>2, <2>3 DEF In
    <3>3. ASSUME \A y \in Week : In(u, y)' => y = w PROVE total'[u] = xp'[w][u]
      <4>1. \A y \in Week : In(u, y) => y = w
        BY <3>2, <3>3
      <4>2. CASE In(u, w)
        BY <1>2, <2>3, <3>1, <4>1, <4>2 DEF XInv, OneCounter, In
      <4>3. CASE ~In(u, w)
        <5>1. total[u] = 0 /\ xp[w][u] = NoRow
          BY <3>1, <4>1, <4>3 DEF XInv, OneCounter, In
        <5> QED
          BY <1>2, <2>3, <5>1
      <4> QED
        BY <4>2, <4>3
    <3> QED
      BY <3>1, <3>3
  <2>7. OneCounter'
    BY <2>5, <2>6 DEF OneCounter
  <2> QED
    BY <1>5, <2>4, <2>7 DEF XInv
<1> QED
  BY <1>6, <1>7

\* A membership starts with the XP that its user has, unless another step came between
\* the two reads and the write.
LEMMA JoinXp == ASSUME XInv, NEW p \in Proc, JoinWeek(p) PROVE XInv'
<1> DEFINE c == op[p]
<1>1. c.step \in {"join", "enrol"} /\ Begins(c) /\ c.xp \in Nat
  BY DEF JoinWeek, XInv, Acting, Acts
<1>2. PICK u \in User : u = c.u
  BY <1>1 DEF Begins
<1>3. PICK w \in Week : w = c.w /\ state[w] # "none"
  BY <1>1 DEF Begins
<1>4. PICK n \in Nat : n = c.xp
  BY <1>1
<1>5. /\ xp' = [xp EXCEPT ![w][u] = IF @ = NoRow THEN n ELSE @]
      /\ UNCHANGED <<now, state, total>>
  BY <1>2, <1>3, <1>4 DEF JoinWeek
<1>6. /\ xp' \in [Week -> [User -> Nat \cup {NoRow}]]
      /\ xp'[w][u] = (IF xp[w][u] = NoRow THEN n ELSE xp[w][u])
      /\ xp'[w][u] # NoRow
      /\ \A x \in Week, v \in User : <<x, v>> # <<w, u>> => xp'[x][v] = xp[x][v]
  BY <1>5 DEF XInv, Typed, NoRow
<1>7. Acting' /\ DOMAIN op' = Proc
  <2>1. PICK o : Goto(p, o) /\ "step" \in DOMAIN o /\ o.step \in {"none", "seed"}
    BY DEF JoinWeek, NoOp, XInv, Acting, Acts
  <2>2. Acts(o)'
    BY <2>1 DEF Acts
  <2> QED
    BY <1>5, <2>1, <2>2, ActingOn
<1>8. Typed'
  BY <1>3, <1>5, <1>6, <1>7 DEF XInv, Typed
<1>9. /\ torn \subseteq torn'
      /\ u \notin torn' => total[u] = n /\ state[w] = "open"
  <2>1. torn' = IF \/ total[u] # n \/ state[w] = "closed"
                   \/ \E q \in Others(p) : HasLocked(q, u)
                THEN torn \cup {u} ELSE torn
    BY <1>2, <1>3, <1>4 DEF JoinWeek
  <2> QED
    BY <1>3, <2>1 DEF XInv, Typed
<1>10. ASSUME NEW v \in User \ torn', v # u
       PROVE  /\ (\A x \in Week : ~In(v, x)') => total'[v] = 0
              /\ \A x \in Week : In(v, x)' /\ (\A y \in Week : In(v, y)' => y = x)
                    => total'[v] = xp'[x][v]
  BY <1>5, <1>6, <1>9, <1>10 DEF XInv, OneCounter, In
<1>11. ASSUME u \notin torn'
       PROVE  /\ (\A x \in Week : ~In(u, x)') => total'[u] = 0
              /\ \A x \in Week : In(u, x)' /\ (\A y \in Week : In(u, y)' => y = x)
                    => total'[u] = xp'[x][u]
  <2>1. u \notin torn /\ total[u] = n /\ In(u, w)'
    BY <1>5, <1>6, <1>9, <1>11 DEF In
  <2>2. \A y \in Week : y # w => (In(u, y)' <=> In(u, y))
    BY <1>5, <1>6 DEF In
  <2>3. ASSUME \A y \in Week : In(u, y)' => y = w PROVE total'[u] = xp'[w][u]
    <3>1. \A y \in Week : In(u, y) => y = w
      BY <2>2, <2>3
    <3>2. xp[w][u] # NoRow => In(u, w)
      BY <1>9, <1>11 DEF In
    <3> QED
      BY <1>5, <1>6, <2>1, <3>1, <3>2 DEF XInv, OneCounter
  <2> QED
    BY <2>1, <2>3
<1> QED
  BY <1>7, <1>8, <1>10, <1>11 DEF XInv, OneCounter

\* The members of a week that has ended go to the next week of a league.
LEMMA TargetIsNext ==
    ASSUME NEW w \in Week, now \in 1..(LastWeek + 1), w[2] + 1 <= now, NEW rank, NEW size
    PROVE  /\ Target(w, rank, size) \in Week /\ Target(w, rank, size)[2] = w[2] + 1
           /\ \E t \in Tier \cap (w[1] - 1)..(w[1] + 1) :
                 Target(w, rank, size) = <<t, w[2] + 1>>
<1>1. /\ w[1] \in 1..NumTiers /\ w[2] \in 1..(LastWeek + 1)
      /\ NumTiers \in Nat /\ LastWeek \in Nat
  BY WeekIsPair, LeagueAssumption
<1>2. Min({w[1] + 1, NumTiers}) \in 1..NumTiers \cap (w[1] - 1)..(w[1] + 1)
  <2>1. PICK m \in {w[1] + 1, NumTiers} : \A n \in {w[1] + 1, NumTiers} : m <= n
    BY <1>1
  <2>2. \A n \in {w[1] + 1, NumTiers} : Min({w[1] + 1, NumTiers}) <= n
    BY <2>1 DEF Min
  <2>3. Min({w[1] + 1, NumTiers}) \in {w[1] + 1, NumTiers}
    BY <2>1 DEF Min
  <2> QED
    BY <1>1, <2>2, <2>3
<1>3. Max({w[1] - 1, 1}) \in 1..NumTiers \cap (w[1] - 1)..(w[1] + 1)
  <2>1. PICK m \in {w[1] - 1, 1} : \A n \in {w[1] - 1, 1} : m >= n
    BY <1>1
  <2>2. \A n \in {w[1] - 1, 1} : Max({w[1] - 1, 1}) >= n
    BY <2>1 DEF Max
  <2>3. Max({w[1] - 1, 1}) \in {w[1] - 1, 1}
    BY <2>1 DEF Max
  <2> QED
    BY <1>1, <2>2, <2>3
<1>4. w[2] + 1 \in 1..(LastWeek + 1)
  BY <1>1
<1>5. w[1] \in 1..NumTiers \cap (w[1] - 1)..(w[1] + 1)
  BY <1>1
<1>6. PICK t \in Tier \cap (w[1] - 1)..(w[1] + 1) : Target(w, rank, size) = <<t, w[2] + 1>>
  BY <1>2, <1>3, <1>5 DEF Target, Tier
<1> QED
  BY <1>4, <1>6 DEF Week

\* A closing moves a member and resets both sides; whoever it does not move was not in
\* the week, or joined it meanwhile.
LEMMA CloseXp == ASSUME XInv, NEW p \in Proc, CloseWeek(p) PROVE XInv'
<1> DEFINE c == op[p]
           Ranks(u) == {i \in DOMAIN c.done : c.done[i] = u}
           Goals(u) == {Target(c.w, i, c.size) : i \in Ranks(u)}
<1>1. c.step = "close" /\ Over(c.w) /\ \A v \in c.weeks : Over(v)
  BY DEF CloseWeek, XInv, Acting, Acts
<1>2. PICK w \in Week : w = c.w /\ w[2] + 1 <= now
  BY <1>1 DEF Over
<1>3. \A u \in User : Goals(u) \subseteq Week \ {w}
  <2>1. \A i : Target(w, i, c.size) \in Week /\ Target(w, i, c.size)[2] = w[2] + 1
    BY <1>2, TargetIsNext DEF XInv, Typed
  <2>2. w[2] \in Nat
    BY WeekIsPair
  <2> QED
    BY <1>2, <2>1, <2>2
<1>4. \A u \in User : u \in Range(c.done) <=> Goals(u) # {}
  BY DEF Range
<1>5. /\ state' = [Opened(UNION {Goals(u) : u \in User}) EXCEPT ![w] = "closed"]
      /\ xp' = [x \in Week |-> [u \in User |-> IF x \in Goals(u) THEN 0 ELSE xp[x][u]]]
      /\ torn' = torn \cup (Members(w) \ Range(c.done))
                      \cup {u \in User : \E g \in Goals(u) : state[g] = "closed"}
  BY <1>2 DEF CloseWeek
<1>6. /\ now' = now
      /\ total' = [u \in User |-> IF u \in Range(c.done) THEN 0 ELSE total[u]]
  BY DEF CloseWeek, Reset
<1> HIDE DEF Goals
<1>7. \A x \in Week, u \in User : xp'[x][u] = IF x \in Goals(u) THEN 0 ELSE xp[x][u]
  BY <1>5
<1>8. \A u \in User : total'[u] = IF Goals(u) # {} THEN 0 ELSE total[u]
  BY <1>4, <1>6
<1>9. /\ state' \in [Week -> {"none", "open", "closed"}] /\ state'[w] = "closed"
      /\ \A x \in Week : /\ state[x] # "none" => state'[x] \in {state[x], "closed"}
                         /\ x # w => state'[x] \in {state[x], "open"}
                         /\ x # w /\ state[x] # "none" => state'[x] = state[x]
      /\ \A u \in User : \A x \in Goals(u) : state[x] # "closed" => state'[x] = "open"
  BY <1>3, <1>5 DEF Opened, XInv, Typed
<1>10. Acting' /\ DOMAIN op' = Proc
  <2>1. PICK o : o = [step |-> "roll", weeks |-> c.weeks] /\ Goto(p, o)
    BY DEF CloseWeek
  <2>2. "step" \in DOMAIN o /\ o.step = "roll" /\ o.weeks = c.weeks
    BY <2>1
  <2>3. Acts(o)'
    BY <1>1, <1>6, <2>2 DEF Acts, Over
  <2>4. \A x \in Week : state[x] # "none" => state'[x] # "none"
    BY <1>9
  <2> QED
    BY <1>6, <2>1, <2>3, <2>4, ActingOn
<1>11. Typed'
  <2>1. xp' \in [Week -> [User -> Nat \cup {NoRow}]]
    BY <1>5 DEF XInv, Typed
  <2>2. total' \in [User -> Nat]
    BY <1>6 DEF XInv, Typed
  <2>3. ASSUME NEW x \in Week, NEW u \in User, xp'[x][u] # NoRow PROVE state'[x] # "none"
    BY <1>3, <1>7, <1>9, <2>3 DEF XInv, Typed
  <2> QED
    BY <1>6, <1>9, <1>10, <2>1, <2>2, <2>3 DEF XInv, Typed
<1>12. ASSUME NEW u \in User \ torn'
       PROVE  /\ (\A x \in Week : ~In(u, x)') => total'[u] = 0
              /\ \A x \in Week : In(u, x)' /\ (\A y \in Week : In(u, y)' => y = x)
                    => total'[u] = xp'[x][u]
  <2>1. u \in User \ torn /\ \A g \in Goals(u) : state[g] # "closed"
    BY <1>5, <1>12
  <2>2. CASE Goals(u) # {}
    <3>1. \A g \in Goals(u) : g \in Week /\ In(u, g)' /\ xp'[g][u] = 0
      BY <1>3, <1>7, <1>9, <2>1 DEF In, NoRow
    <3> QED
      BY <1>8, <2>2, <3>1
  <2>3. CASE Goals(u) = {}
    <3>1. xp[w][u] = NoRow
      BY <1>4, <1>5, <1>12, <2>3 DEF Members
    <3>2. \A x \in Week : xp'[x][u] = xp[x][u]
      BY <1>7, <2>3
    <3>3. \A x \in Week : In(u, x)' <=> In(u, x)
      BY <1>9, <3>1, <3>2 DEF In, XInv, Typed
    <3> QED
      BY <1>8, <2>1, <2>3, <3>2, <3>3 DEF XInv, OneCounter
  <2> QED
    BY <2>2, <2>3
<1> QED
  BY <1>10, <1>11, <1>12 DEF XInv, OneCounter

\* Every step keeps the inductive invariant.
LEMMA NextXp == XInv /\ [Next]_vars => XInv'
<1> SUFFICES ASSUME XInv, [Next]_vars PROVE XInv'
  OBVIOUS
<1> QED
  BY ClockXp, SeedXp, RequestXp, QuietXp, CreditXp, JoinXp, CloseXp DEF Next, Step

\* A user of one open week is shown the same XP on both screens.
LEMMA ShownInOne == XInv => WeeklyXpShown
<1> SUFFICES ASSUME XInv, NEW u \in User \ torn,
                    Cardinality({w \in Week : state[w] = "open" /\ u \in Members(w)}) = 1,
                    Mine(u) # {}
             PROVE  total[u] = xp[CurrentWeek(u)][u]
  BY DEF WeeklyXpShown
<1> DEFINE W == {w \in Week : state[w] = "open" /\ u \in Members(w)}
<1>1. PICK w : W = {w}
  <2>1. IsFiniteSet(Week)
    <3>1. NumTiers \in Int /\ LastWeek + 1 \in Int
      BY LeagueAssumption
    <3>2. IsFiniteSet(1..NumTiers) /\ IsFiniteSet(1..(LastWeek + 1))
      BY <3>1, FS_Interval
    <3> QED
      BY <3>2, FS_Product DEF Week, Tier
  <2>2. IsFiniteSet(W)
    BY <2>1, FS_Subset
  <2> QED
    BY <2>2, FS_Singleton
<1>2. Mine(u) = {w} /\ w \in Week
  BY <1>1 DEF Mine, Began
<1>3. CurrentWeek(u) = w
  BY <1>2, LatestIsOne DEF CurrentWeek
<1>4. In(u, w) /\ \A v \in Week : In(u, v) => v = w
  BY <1>1 DEF In, Members
<1> QED
  BY <1>2, <1>3, <1>4 DEF XInv, OneCounter

\* The XP of the Learn screen is that of the League screen for a user of one week, for
\* every number of leagues, weeks and users and every size of page, whatever claims,
\* enrolments and closings overlap, crash or run without the lock.
THEOREM XpShownOnce == Spec => []WeeklyXpShown
<1> QED
  BY InitXp, NextXp, ShownInOne, PTL DEF Spec

-----------------------------------------------------------------------------
(* The ranking, and types.                                                 *)

\* The ranking orders the members of a week, and leaves no ties.
LEMMA OrderIsTotal ==
    ASSUME NEW w \in Week, xp \in [Week -> [User -> Nat \cup {NoRow}]],
           NEW t \in User, NEW u \in User, NEW v \in User
    PROVE  /\ ~Before(w, u, u)
           /\ Before(w, t, u) /\ Before(w, u, v) => Before(w, t, v)
           /\ u # v => Before(w, u, v) \/ Before(w, v, u)
<1>1. {xp[w][t], xp[w][u], xp[w][v]} \subseteq Int
  BY DEF NoRow
<1>2. {t, u, v} \subseteq Int
  BY LeagueAssumption DEF User
<1> QED
  BY <1>1, <1>2 DEF Before

\* The members of a week are finitely many.
LEMMA MembersFinite ==
    ASSUME NEW w
    PROVE  /\ IsFiniteSet(Members(w)) /\ Cardinality(Members(w)) \in Nat
           /\ Members(w) \in SUBSET User
<1>1. NumUsers \in Int
  BY LeagueAssumption
<1>2. IsFiniteSet(User)
  BY <1>1, FS_Interval DEF User
<1>3. Members(w) \in SUBSET User
  BY DEF Members
<1> QED
  BY <1>2, <1>3, FS_Subset, FS_CardinalityType

\* The ranking of a week lists its members, each once.
LEMMA RankedIs ==
    ASSUME NEW w \in Week, xp \in [Week -> [User -> Nat \cup {NoRow}]]
    PROVE  Ranked(w) \in Bijection(1..Cardinality(Members(w)), Members(w))
<1> DEFINE S == Members(w)
           n == Cardinality(S)
           Ahead(u) == {v \in S : Before(w, v, u)}
           pos == [u \in S |-> Cardinality(Ahead(u)) + 1]
<1>1. IsFiniteSet(S) /\ n \in Nat /\ S \subseteq User
  BY MembersFinite
<1>2. \A u \in S : IsFiniteSet(Ahead(u)) /\ Cardinality(Ahead(u)) \in Nat
  BY <1>1, FS_Subset, FS_CardinalityType
<1> HIDE DEF S
<1>3. (\A u \in S : pos[u] = Cardinality(Ahead(u)) + 1) /\ pos = [u \in S |-> pos[u]]
  OBVIOUS
<1> HIDE DEF pos
<1>4. \A u \in S : pos[u] \in 1..n
  <2> TAKE u \in S
  <2>1. /\ IsFiniteSet(S \ {u}) /\ Cardinality(S \ {u}) = n - 1
        /\ Ahead(u) \in SUBSET (S \ {u})
    BY <1>1, FS_RemoveElement, OrderIsTotal
  <2>2. Cardinality(Ahead(u)) <= n - 1
    BY <2>1, FS_Subset
  <2> HIDE DEF Ahead
  <2> QED
    BY <1>3, <1>1, <1>2, <2>2
<1>5. \A u, v \in S : Before(w, u, v) => pos[u] < pos[v]
  <2> SUFFICES ASSUME NEW u \in S, NEW v \in S, Before(w, u, v) PROVE pos[u] < pos[v]
    OBVIOUS
  <2>1. Ahead(u) \in SUBSET Ahead(v) /\ u \in Ahead(v) /\ u \notin Ahead(u)
    BY <1>1, OrderIsTotal
  <2>2. Cardinality(Ahead(u)) <= Cardinality(Ahead(v))
    BY <1>2, <2>1, FS_Subset
  <2>3. Cardinality(Ahead(u)) # Cardinality(Ahead(v))
    BY <1>2, <2>1, FS_Subset
  <2> HIDE DEF Ahead
  <2> QED
    BY <1>3, <1>2, <2>2, <2>3
<1>6. \A u, v \in S : u # v => Before(w, u, v) \/ Before(w, v, u)
  BY <1>1, OrderIsTotal
<1>7. pos \in Bijection(S, 1..n)
  <2>1. pos \in [S -> 1..n]
    BY <1>3, <1>4
  <2>2. \A u, v \in S : u # v => pos[u] # pos[v]
    BY <1>4, <1>5, <1>6
  <2>3. pos \in Injection(S, 1..n)
    BY <2>1, <2>2 DEF Injection, IsInjective
  <2>4. IsFiniteSet(1..n) /\ Cardinality(1..n) = n
    BY <1>1, FS_Interval
  <2> QED
    BY <2>3, <2>4, FS_Injection DEF Bijection
<1> DEFINE s == [i \in 1..n |-> CHOOSE u \in S : pos[u] = i]
<1>8. \A i \in 1..n : s[i] \in S /\ pos[s[i]] = i
  BY <1>7 DEF Bijection, Surjection
<1>9. s \in [1..n -> S] /\ \A i, j \in 1..n : i # j => s[i] # s[j]
  BY <1>8
<1>10. s \in SetToSeqs(S) /\ DOMAIN s = 1..n
  BY <1>9 DEF SetToSeqs
<1> HIDE DEF s
<1>11. \A i, j \in 1..n : i < j => Before(w, s[i], s[j])
  <2> SUFFICES ASSUME NEW i \in 1..n, NEW j \in 1..n, i < j, ~Before(w, s[i], s[j]) PROVE FALSE
    OBVIOUS
  <2>1. Before(w, s[j], s[i])
    BY <1>6, <1>8, <1>9
  <2>2. pos[s[j]] < pos[s[i]]
    BY <1>5, <1>8, <2>1
  <2> QED
    BY <1>1, <1>8, <2>2
<1>12. Ranked(w) \in SetToSeqs(S)
  BY <1>10, <1>11 DEF Ranked, S
<1>13. Ranked(w) \in Injection(1..n, S)
  BY <1>12 DEF SetToSeqs, Injection, IsInjective
<1> QED
  <2>1. IsFiniteSet(1..n) /\ Cardinality(1..n) = n
    BY <1>1, FS_Interval
  <2> QED
    BY <1>1, <1>13, <2>1, FS_Injection DEF Bijection, S

Scores == [Week -> [User -> Nat \cup {NoRow}]]

\* Types, with what the two invariants above say of them.
TInv == XInv /\ PInv /\ TypeOK /\ calls \in Nat

\* The operations, kind by kind.
LEMMA OpFields ==
    ASSUME NEW o \in Ops
    PROVE  /\ "step" \in DOMAIN o
           /\ o.step = "none" => o = NoOp
           /\ o.step = "roll" => o.weeks \in SUBSET Week
           /\ o.step = "close" => /\ o.weeks \in SUBSET Week /\ o.w \in Week /\ o.size \in Nat
                                  /\ o.done \in Seq(User)
                                  /\ o = [step |-> "close", weeks |-> o.weeks, w |-> o.w,
                                          size |-> o.size, done |-> o.done]
           /\ o.step = "claim" => o.u \in User /\ o.n \in 1..LastWeek
           /\ o.step = "earn" => o.u \in User /\ o.w \in Week \cup {NoWeek}
           /\ o.step = "mirror" => o.u \in User /\ o.w \in Week
           /\ o.step = "join" => /\ o.u \in User /\ o.w \in Week /\ o.xp \in Nat
                                 /\ o = [step |-> "join", u |-> o.u, w |-> o.w, xp |-> o.xp]
           /\ o.step = "seed" => o.u \in User /\ o.w \in Week /\ o.xp \in Nat
           /\ o.step = "view" => /\ o.u \in User /\ o.w \in Week /\ o.at \in Nat
                                 /\ o.set \in [User -> Nat \cup {NoRow}]
<1>1. CASE o = NoOp
  BY <1>1 DEF NoOp
<1>2. CASE o \in [step : {"roll"}, weeks : SUBSET Week]
  BY <1>2
<1>3. CASE o \in [step : {"close"}, weeks : SUBSET Week, w : Week, size : Nat, done : Seq(User)]
  BY <1>3
<1>4. CASE o \in [step : {"claim"}, u : User, n : 1..LastWeek]
  BY <1>4
<1>5. CASE o \in [step : {"earn"}, u : User, w : Week \cup {NoWeek}, claim : 0..LastWeek]
  BY <1>5
<1>6. CASE o \in [step : {"mirror"}, u : User, w : Week]
  BY <1>6
<1>7. CASE o \in [step : {"join", "enrol"}, u : User, w : Week, xp : Nat]
  BY <1>7
<1>8. CASE o \in [step : {"seed"}, u : User, w : Week, xp : Nat]
  BY <1>8
<1>9. CASE o \in [step : {"view"}, u : User, w : Week, set : [User -> Nat \cup {NoRow}],
                  users : SUBSET User, at : Nat, alone : BOOLEAN]
  BY <1>9
<1> QED
  BY <1>1, <1>2, <1>3, <1>4, <1>5, <1>6, <1>7, <1>8, <1>9 DEF Ops

\* The operations keep their type when a process moves on.
LEMMA GoTyped ==
    ASSUME op \in [Proc -> Ops], NEW p \in Proc, NEW o \in Ops, Goto(p, o)
    PROVE  op' \in [Proc -> Ops]
BY DEF Goto

\* A piece of the ranking, after its first k, that is empty at the end only.
Follows(page, w, k) ==
    /\ page \in Seq(User)
    /\ \E m \in 0..Cardinality(Members(w)) :
          /\ Len(page) = IF k + 1 <= m THEN m - k ELSE 0
          /\ \A i \in 1..(m - k) : page[i] = Ranked(w)[k + i]
          /\ k < Cardinality(Members(w)) => k < m

\* The next page is the piece of the ranking that follows the pages read.
LEMMA PageIs ==
    ASSUME NEW o, NEW w \in Week, o.w = w, NEW k \in Nat, Len(o.done) = k,
           xp \in [Week -> [User -> Nat \cup {NoRow}]]
    PROVE  Follows(Page(o), w, k)
<1> DEFINE n == Cardinality(Members(w))
           R == Ranked(w)
           m == Min({k + Batch, n})
<1>1. n \in Nat /\ Members(w) \in SUBSET User
  BY MembersFinite
<1>2. R \in [1..n -> Members(w)]
  BY RankedIs DEF Bijection, Injection
<1> HIDE DEF n, R
<1>3. Len(R) = n /\ R \in [1..n -> User]
  BY <1>1, <1>2
<1>4. Page(o) = SubSeq(R, k + 1, m)
  BY <1>3 DEF Page, R
<1>5. m \in 0..n /\ (k < n => k < m)
  <2>1. Batch \in Nat /\ Batch > 0 /\ k + Batch \in Nat
    BY LeagueAssumption
  <2>2. PICK x \in {k + Batch, n} : \A y \in {k + Batch, n} : x <= y
    BY <1>1, <2>1
  <2>3. m \in {k + Batch, n} /\ \A y \in {k + Batch, n} : m <= y
    BY <2>2 DEF Min
  <2> QED
    BY <1>1, <2>1, <2>3
<1> HIDE DEF m
<1>6. /\ SubSeq(R, k + 1, m) \in Seq(User)
      /\ Len(SubSeq(R, k + 1, m)) = IF k + 1 <= m THEN m - (k + 1) + 1 ELSE 0
      /\ \A i \in 1..(m - (k + 1) + 1) : SubSeq(R, k + 1, m)[i] = R[k + 1 + i - 1]
  <2>1. \A i \in (k + 1)..m : R[i] \in User
    BY <1>1, <1>3, <1>5
  <2>2. k + 1 \in Int /\ m \in Int
    BY <1>1, <1>5
  <2> QED
    BY <2>1, <2>2, SubSeqProperties
<1>7. \A i \in 1..(m - k) : SubSeq(R, k + 1, m)[i] = R[k + i]
  <2> TAKE i \in 1..(m - k)
  <2>1. i \in 1..(m - (k + 1) + 1) /\ k + 1 + i - 1 = k + i
    BY <1>1, <1>5
  <2> QED
    BY <1>6, <2>1
<1>8. Len(SubSeq(R, k + 1, m)) = IF k + 1 <= m THEN m - k ELSE 0
  BY <1>1, <1>5, <1>6
<1> QED
  <2> DEFINE P == SubSeq(R, k + 1, m)
  <2>1. P \in Seq(User) /\ Len(P) = IF k + 1 <= m THEN m - k ELSE 0
    BY <1>6, <1>8
  <2>2. \A i \in 1..(m - k) : P[i] = R[k + i]
    BY <1>7
  <2> HIDE DEF P
  <2>3. Follows(P, w, k)
    BY <1>5, <2>1, <2>2 DEF Follows, n, R
  <2> USE DEF P
  <2> QED
    BY <1>4, <2>3

\* The types hold at the start.
LEMMA InitTyped == Init => TInv
<1> SUFFICES ASSUME Init PROVE TInv
  OBVIOUS
<1>1. XInv /\ PInv
  BY InitXp, InitInv
<1>2. op \in [Proc -> Ops]
  BY DEF Init, Ops
<1>3. podium \in [User -> [1..LastWeek -> Nat \cup {NoRow}]]
  BY <1>1 DEF PInv, Podiums
<1> QED
  BY <1>1, <1>2, <1>3 DEF Init, TInv, TypeOK, XInv, Typed

\* What a step writes besides the tables: requests.
LEMMA RequestTyped ==
    ASSUME TInv, NEW p \in Proc, NEW u \in User,
           \/ Earn(p, u) \/ Join(p, u) \/ View(p, u) \/ SeedLeagues(p)
           \/ \E n \in 1..LastWeek : ClaimPodium(p, u, n)
    PROVE  op' \in [Proc -> Ops] /\ score' = score /\ lock' = lock /\ calls' \in Nat
<1>1. /\ op \in [Proc -> Ops] /\ calls \in Nat
      /\ total \in [User -> Nat] /\ xp \in [Week -> [User -> Nat \cup {NoRow}]]
  BY DEF TInv, TypeOK
<1>2. score' = score /\ lock' = lock /\ calls' = calls + 1
  BY DEF Earn, Join, View, SeedLeagues, ClaimPodium, Start
<1>3. /\ Credited(u) \in Week \cup {NoWeek}
      /\ LowestOpen # NoWeek => LowestOpen \in Week
  BY CreditedBegan
<1>4. CASE Earn(p, u)
  <2>1. PICK o : o = [step |-> "earn", u |-> u, w |-> Credited(u), claim |-> 0] /\ Goto(p, o)
    BY <1>4 DEF Earn, Start
  <2>2. o \in Ops
    BY <1>3, <2>1, LeagueAssumption DEF Ops
  <2> QED
    BY <1>1, <1>2, <2>1, <2>2, GoTyped
<1>5. CASE Join(p, u)
  <2>1. PICK o : /\ o = [step |-> "join", u |-> u, w |-> LowestOpen, xp |-> total[u]]
                 /\ Goto(p, o) /\ LowestOpen # NoWeek
    BY <1>5 DEF Join, Start
  <2>2. total[u] \in Nat
    BY <1>1
  <2>3. o \in Ops
    BY <1>3, <2>1, <2>2 DEF Ops
  <2> QED
    BY <1>1, <1>2, <2>1, <2>3, GoTyped
<1>6. CASE View(p, u)
  <2>1. PICK alone \in BOOLEAN : alone = (\A q \in Others(p) : op[q] = NoOp)
    OBVIOUS
  <2>2. PICK w : w = CurrentWeek(u)
    OBVIOUS
  <2>3. w \in Week
    <3>1. Mine(u) \in SUBSET Week
      BY DEF Mine
    <3> QED
      BY <1>6, <2>2, <3>1, LatestIsOne DEF View, CurrentWeek
  <2>4. PICK S \in SUBSET User : S = Stale(w, u)
    BY DEF Stale
  <2>5. PICK f \in [User -> Nat \cup {NoRow}] : f = xp[w]
    BY <1>1, <2>3
  <2>6. PICK o : /\ o = [step |-> "view", u |-> u, w |-> w, set |-> f, users |-> S,
                         at |-> calls + 1, alone |-> alone]
                 /\ Goto(p, o)
    BY <1>6, <2>1, <2>2, <2>4, <2>5 DEF View, Start
  <2>7. o \in Ops
    BY <1>1, <2>3, <2>6 DEF Ops
  <2> QED
    BY <1>1, <1>2, <2>6, <2>7, GoTyped
<1>7. ASSUME NEW n \in 1..LastWeek, ClaimPodium(p, u, n) PROVE op' \in [Proc -> Ops]
  <2>1. PICK o : Goto(p, o) /\ o = [step |-> "claim", u |-> u, n |-> n]
    BY <1>7 DEF ClaimPodium, Start
  <2>2. o \in Ops
    BY <2>1 DEF Ops
  <2> QED
    BY <1>1, <2>1, <2>2, GoTyped
<1>8. CASE SeedLeagues(p)
  <2>1. PICK o : /\ o \in [step : {"join", "enrol"}, u : User, w : Week, xp : Nat]
                 /\ Goto(p, o)
    <3> DEFINE lowest == {w \in Week : w[1] = 1 /\ Began(w)}
               first  == <<1, now>>
    <3>1. first \in Week /\ Demo \in User
      BY LeagueAssumption DEF Week, Tier, User, TInv, TypeOK
    <3>2. lowest \in SUBSET Week /\ (lowest # {} => Latest(lowest) \in Week)
      BY LatestIsOne
    <3>3. \E w \in Week : Goto(p, [step |-> "enrol", u |-> Demo, w |-> w, xp |-> 0])
      BY <1>8, <3>1, <3>2 DEF SeedLeagues, Start
    <3> QED
      BY <3>1, <3>3
  <2>2. o \in Ops
    BY <2>1 DEF Ops
  <2> QED
    BY <1>1, <1>2, <2>1, <2>2, GoTyped
<1> QED
  BY <1>1, <1>2, <1>4, <1>5, <1>6, <1>7, <1>8

\* The ranking in Redis.
LEMMA ScoreTyped ==
    ASSUME TInv, NEW p \in Proc, MirrorRankXp(p) \/ SetRankXp(p) \/ EnsureWarm(p)
    PROVE  op' \in [Proc -> Ops] /\ score' \in Scores /\ lock' = lock /\ calls' = calls
<1> DEFINE c == op[p]
<1>1. /\ c \in Ops /\ op \in [Proc -> Ops] /\ NoOp \in Ops /\ score \in Scores
  BY DEF TInv, TypeOK, Ops, Scores
<1>2. Goto(p, NoOp) /\ lock' = lock /\ calls' = calls
  BY DEF MirrorRankXp, SetRankXp, EnsureWarm
<1>3. op' \in [Proc -> Ops]
  BY <1>1, <1>2, GoTyped
<1>4. CASE MirrorRankXp(p)
  <2>1. PICK w \in Week, u \in User : w = c.w /\ u = c.u
    BY <1>1, <1>4, OpFields DEF MirrorRankXp
  <2>2. score' = [score EXCEPT ![w][u] = (IF @ = NoRow THEN 0 ELSE @) + 1]
    BY <1>4, <2>1 DEF MirrorRankXp
  <2>3. (IF score[w][u] = NoRow THEN 0 ELSE score[w][u]) + 1 \in Nat
    BY <1>1, <2>1 DEF Scores, NoRow
  <2>4. score' \in Scores
    BY <1>1, <2>2, <2>3 DEF Scores
  <2> QED
    BY <1>2, <1>3, <2>4
<1>5. CASE SetRankXp(p)
  <2>1. PICK w \in Week, u \in User, n \in Nat : w = c.w /\ u = c.u /\ n = c.xp
    BY <1>1, <1>5, OpFields DEF SetRankXp
  <2>2. score' = [score EXCEPT ![w][u] = n]
    BY <1>5, <2>1 DEF SetRankXp
  <2>3. score' \in Scores
    BY <1>1, <2>1, <2>2 DEF Scores
  <2> QED
    BY <1>2, <1>3, <2>3
<1>6. CASE EnsureWarm(p)
  <2>1. c.w \in Week /\ c.set \in [User -> Nat \cup {NoRow}]
    BY <1>1, <1>6, OpFields DEF EnsureWarm
  <2>2. score' = [score EXCEPT ![c.w] =
                    [v \in User |-> IF v \in c.users THEN c.set[v] ELSE score[c.w][v]]]
    BY <1>6 DEF EnsureWarm
  <2>3. [v \in User |-> IF v \in c.users THEN c.set[v] ELSE score[c.w][v]]
           \in [User -> Nat \cup {NoRow}]
    BY <1>1, <2>1 DEF Scores
  <2>4. score' \in Scores
    BY <1>1, <2>2, <2>3 DEF Scores
  <2> QED
    BY <1>2, <1>3, <2>4
<1> QED
  BY <1>4, <1>5, <1>6

\* The other steps of a process.
LEMMA StepTyped ==
    ASSUME TInv, NEW p \in Proc,
           \/ ClaimLocked(p) \/ Credit(p) \/ JoinWeek(p) \/ RunWeeklyRollover(p)
           \/ CloseBegin(p) \/ CloseBatch(p) \/ CloseWeek(p) \/ RollEnd(p)
           \/ Abort(p) \/ Die(p)
    PROVE  /\ op' \in [Proc -> Ops] /\ score' = score /\ calls' = calls
           /\ lock' \in Proc \cup {NoProc}
<1> DEFINE c == op[p]
<1>1. /\ c \in Ops /\ op \in [Proc -> Ops] /\ NoOp \in Ops
      /\ xp \in [Week -> [User -> Nat \cup {NoRow}]] /\ lock \in Proc \cup {NoProc}
  BY DEF TInv, TypeOK, Ops
<1>2. score' = score /\ calls' = calls /\ lock' \in Proc \cup {NoProc}
  BY <1>1 DEF ClaimLocked, Credit, JoinWeek, RunWeeklyRollover, CloseBegin, CloseBatch,
              CloseWeek, RollEnd, Abort, Die, Release
<1>3. CASE ClaimLocked(p)
  <2>1. c.u \in User /\ c.n \in 1..LastWeek
    BY <1>1, <1>3, OpFields DEF ClaimLocked
  <2>2. Credited(c.u) \in Week \cup {NoWeek}
    BY <2>1, CreditedBegan
  <2>3. [step |-> "earn", u |-> c.u, w |-> Credited(c.u), claim |-> c.n] \in Ops
    BY <2>1, <2>2 DEF Ops
  <2> QED
    BY <1>1, <1>2, <1>3, <2>3, GoTyped DEF ClaimLocked
<1>4. CASE Credit(p)
  <2>1. c.u \in User /\ c.w \in Week \cup {NoWeek}
    BY <1>1, <1>4, OpFields DEF Credit
  <2>2. c.w # NoWeek => [step |-> "mirror", u |-> c.u, w |-> c.w] \in Ops
    BY <2>1 DEF Ops
  <2> QED
    BY <1>1, <1>2, <1>4, <2>2, GoTyped DEF Credit
<1>5. CASE JoinWeek(p)
  <2>1. CASE c.step = "join"
    <3>1. /\ c = [step |-> "join", u |-> c.u, w |-> c.w, xp |-> c.xp]
          /\ c.u \in User /\ c.w \in Week /\ c.xp \in Nat
      BY <1>1, <2>1, OpFields
    <3>2. [c EXCEPT !.step = "seed"] = [step |-> "seed", u |-> c.u, w |-> c.w, xp |-> c.xp]
      BY <3>1
    <3>3. [c EXCEPT !.step = "seed"] \in Ops
      BY <3>1, <3>2 DEF Ops
    <3> QED
      BY <1>1, <1>2, <1>5, <2>1, <3>3, GoTyped DEF JoinWeek
  <2>2. CASE c.step # "join"
    BY <1>1, <1>2, <1>5, <2>2, GoTyped DEF JoinWeek
  <2> QED
    BY <2>1, <2>2
<1>6. CASE RunWeeklyRollover(p)
  <2>1. [step |-> "roll", weeks |-> Ended] \in Ops
    BY DEF Ops, Ended
  <2> QED
    BY <1>1, <1>2, <1>6, <2>1, GoTyped DEF RunWeeklyRollover
<1>7. CASE CloseBegin(p)
  <2>1. /\ c.step = "roll" /\ c.weeks \in SUBSET Week
        /\ c \in [step : {"roll"}, weeks : SUBSET Week]
    BY <1>1, <1>7, OpFields DEF CloseBegin, Ops, NoOp
  <2>2. PICK w \in c.weeks :
           Goto(p, IF state[w] = "closed" THEN [c EXCEPT !.weeks = @ \ {w}]
                   ELSE [step |-> "close", weeks |-> c.weeks \ {w}, w |-> w,
                         size |-> Cardinality(Members(w)), done |-> <<>>])
    BY <1>7 DEF CloseBegin
  <2>3. [c EXCEPT !.weeks = @ \ {w}] \in Ops
    BY <2>1 DEF Ops
  <2>4. Cardinality(Members(w)) \in Nat
    BY MembersFinite
  <2>5. [step |-> "close", weeks |-> c.weeks \ {w}, w |-> w,
         size |-> Cardinality(Members(w)), done |-> <<>>] \in Ops
    BY <2>1, <2>4 DEF Ops
  <2> QED
    BY <1>1, <1>2, <2>2, <2>3, <2>5, GoTyped
<1>8. CASE CloseBatch(p)
  <2>1. /\ c.w \in Week /\ c.done \in Seq(User) /\ c.weeks \in SUBSET Week /\ c.size \in Nat
        /\ c = [step |-> "close", weeks |-> c.weeks, w |-> c.w, size |-> c.size,
                done |-> c.done]
    BY <1>1, <1>8, OpFields DEF CloseBatch
  <2>2. PICK w \in Week, k \in Nat : w = c.w /\ k = Len(c.done)
    BY <2>1
  <2>3. PICK page \in Seq(User) : page = Page(c)
    BY <1>1, <2>2, PageIs DEF Follows
  <2>4. PICK W \in SUBSET Week, n \in Nat, d \in Seq(User) :
           c = [step |-> "close", weeks |-> W, w |-> w, size |-> n, done |-> d]
    BY <2>1, <2>2
  <2>5. PICK new : new = [c EXCEPT !.done = @ \o page] /\ Goto(p, new)
    BY <1>8, <2>3 DEF CloseBatch
  <2>6. new = [step |-> "close", weeks |-> W, w |-> w, size |-> n, done |-> d \o page]
    <3> HIDE DEF c
    <3> QED
      BY <2>4, <2>5
  <2>7. new \in Ops
    BY <2>3, <2>4, <2>6 DEF Ops
  <2> QED
    BY <1>1, <1>2, <2>5, <2>7, GoTyped
<1>9. CASE CloseWeek(p)
  <2>1. c.weeks \in SUBSET Week
    BY <1>1, <1>9, OpFields DEF CloseWeek
  <2>2. [step |-> "roll", weeks |-> c.weeks] \in Ops
    BY <2>1 DEF Ops
  <2> QED
    BY <1>1, <1>2, <1>9, <2>2, GoTyped DEF CloseWeek
<1>10. CASE RollEnd(p) \/ Abort(p) \/ Die(p)
  BY <1>1, <1>2, <1>10, GoTyped DEF RollEnd, Abort, Die
<1> QED
  BY <1>3, <1>4, <1>5, <1>6, <1>7, <1>8, <1>9, <1>10

\* Every step keeps the types.
LEMMA NextTyped == TInv /\ [Next]_vars => TInv'
<1> SUFFICES ASSUME TInv, [Next]_vars PROVE TInv'
  OBVIOUS
<1>1. XInv' /\ PInv'
  BY NextXp, NextInv DEF TInv
<1>2. /\ op \in [Proc -> Ops] /\ score \in Scores /\ lock \in Proc \cup {NoProc}
      /\ calls \in Nat
  BY DEF TInv, TypeOK, Scores
<1>3. /\ op' \in [Proc -> Ops] /\ score' \in Scores /\ lock' \in Proc \cup {NoProc}
      /\ calls' \in Nat
  <2>1. CASE Tick \/ LockExpires \/ UNCHANGED vars
    BY <1>2, <2>1 DEF Tick, LockExpires, vars
  <2>2. ASSUME NEW p \in Proc, SeedLeagues(p) PROVE <1>3
    <3>1. 1 \in User
      BY LeagueAssumption DEF User
    <3> QED
      BY <1>2, <2>2, <3>1, RequestTyped
  <2> QED
    BY <1>2, <2>1, <2>2, RequestTyped, ScoreTyped, StepTyped DEF Next, Step
<1> QED
  BY <1>1, <1>3 DEF TInv, TypeOK, XInv, Typed, PInv, Podiums, Scores

\* Every variable of leagues keeps its type.
THEOREM TypeCorrect == Spec => []TypeOK
<1>1. TInv => TypeOK
  BY DEF TInv
<1> QED
  BY <1>1, InitTyped, NextTyped, PTL DEF Spec

-----------------------------------------------------------------------------
(* A closed week has settled its members.                                  *)

\* Unless the key has run out under a run, who runs holds it, the week he closes is not
\* closed, and its members have not been settled.  The pages read so far are the head of
\* the ranking, unless XP has been written since.
Settlements == settled \in [Week -> [User -> Nat]] /\ overrun \in BOOLEAN
Unsettled   == \A w \in Week : state[w] # "closed" => \A u \in User : settled[w][u] = 0
ClosedEnded == \A w \in Week : state[w] = "closed" => Over(w)
OneRun      == \A p \in Proc : Running(p) => lock = p
NotYet      == \A p \in Proc : op[p].step = "close" => state[op[p].w] # "closed"
InPlace(o)  ==
    /\ o.size = Cardinality(Members(o.w))
    /\ Len(o.done) <= o.size
    /\ \A i \in 1..Len(o.done) : o.done[i] = Ranked(o.w)[i]
Reading     == \A p \in Proc : op[p].step = "close" /\ op[p].w \notin moved => InPlace(op[p])

SInv == /\ TInv
        /\ Settlements /\ Unsettled /\ ClosedEnded
        /\ ~overrun => OneRun /\ NotYet /\ Reading
        /\ SettledOnce

\* The ranking of a week depends on its memberships alone.
RankingOf(f) ==
    CHOOSE s \in SetToSeqs({u \in User : f[u] # NoRow}) :
        \A i, j \in DOMAIN s :
            i < j => f[s[i]] > f[s[j]] \/ (f[s[i]] = f[s[j]] /\ s[i] < s[j])
\* While those stay, so does the ranking.
LEMMA SameRanking ==
    ASSUME NEW w, xp'[w] = xp[w] PROVE Members(w)' = Members(w) /\ Ranked(w)' = Ranked(w)
<1>1. Ranked(w) = RankingOf(xp[w])
  BY DEF Ranked, RankingOf, Before, Members
<1>2. Ranked(w)' = RankingOf(xp'[w])
  BY DEF Ranked, RankingOf, Before, Members
<1> QED
  BY <1>1, <1>2 DEF Members

\* A closing that nothing disturbed is where it was.
LEMMA StaysInPlace ==
    ASSUME NEW o, InPlace(o), NEW w, w = o.w, xp'[w] = xp[w] PROVE InPlace(o)'
BY SameRanking DEF InPlace

\* The next week of a week that has ended is one.
LEMMA NextIsWeek ==
    ASSUME NEW w \in Week, w[2] + 1 <= now, now \in 1..(LastWeek + 1), NEW t \in Tier
    PROVE  <<t, w[2] + 1>> \in Week
<1>1. w[2] \in 1..(LastWeek + 1) /\ LastWeek \in Nat
  BY WeekIsPair, LeagueAssumption
<1>2. w[2] + 1 \in 1..(LastWeek + 1)
  BY <1>1
<1> QED
  BY <1>2 DEF Week

\* Nothing is settled at the start, and nobody runs.
LEMMA InitSettled == Init => SInv
<1> SUFFICES ASSUME Init PROVE SInv
  OBVIOUS
<1>1. TInv
  BY InitTyped
<1>2. Settlements /\ Unsettled /\ ClosedEnded /\ SettledOnce
  BY DEF Init, Settlements, Unsettled, ClosedEnded, SettledOnce
<1>3. OneRun /\ NotYet /\ Reading
  BY DEF Init, OneRun, NotYet, Reading, Running, NoOp
<1> QED
  BY <1>1, <1>2, <1>3 DEF SInv

\* What is settled stays so when no XP is written.
LEMMA SettledStay ==
    ASSUME SettledOnce, UNCHANGED <<xp, settled>>, ~overrun' => ~overrun,
           \A w \in Week : state'[w] = "closed" => state[w] = "closed",
           moved \subseteq moved', torn \subseteq torn'
    PROVE  SettledOnce'
<1> SUFFICES ASSUME NEW w \in Week \ moved', state'[w] = "closed", ~overrun',
                    NEW u \in Members(w)' \ torn'
             PROVE  /\ settled'[w][u] = 1
                    /\ \E t \in Tier \cap (w[1] - 1)..(w[1] + 1) : u \in Members(<<t, w[2] + 1>>)'
  BY DEF SettledOnce
<1>1. w \in Week \ moved /\ state[w] = "closed" /\ ~overrun /\ u \in Members(w) \ torn
  BY DEF Members
<1>2. /\ settled[w][u] = 1
      /\ \E t \in Tier \cap (w[1] - 1)..(w[1] + 1) : u \in Members(<<t, w[2] + 1>>)
  BY <1>1 DEF SettledOnce
<1> QED
  BY <1>2 DEF Members

\* A step of a process outside the rollover, or one that ends a run, which closes no week
\* and writes no XP.
LEMMA OtherSettled ==
    ASSUME SInv, TInv', NEW p \in Proc, NEW o, Goto(p, o), o.step \notin {"roll", "close"},
           UNCHANGED <<now, xp, settled, moved, overrun>>, torn \subseteq torn',
           \A w \in Week : state'[w] = "closed" <=> state[w] = "closed",
           \A q \in Proc \ {p} : lock = q => lock' = q
    PROVE  SInv'
<1>1. DOMAIN op' = Proc /\ \A q \in Proc : op'[q] = IF q = p THEN o ELSE op[q]
  BY GoXp DEF SInv, TInv, XInv, Typed
<1>2. Settlements' /\ Unsettled' /\ ClosedEnded' /\ SettledOnce'
  <2>1. Settlements' /\ Unsettled' /\ ClosedEnded'
    BY DEF SInv, Settlements, Unsettled, ClosedEnded, Over
  <2>2. SettledOnce'
    BY SettledStay DEF SInv
  <2> QED
    BY <2>1, <2>2
<1>3. ASSUME ~overrun' PROVE OneRun' /\ NotYet' /\ Reading'
  <2>1. OneRun /\ NotYet /\ Reading
    BY <1>3 DEF SInv
  <2>2. OneRun'
    BY <1>1, <2>1 DEF OneRun, Running
  <2>3. \A q \in Proc : op'[q].step = "close" => op'[q] = op[q] /\ op[q].w \in Week
    BY <1>1, OpFields DEF SInv, TInv, TypeOK
  <2>4. NotYet'
    BY <2>1, <2>3 DEF NotYet
  <2>5. Reading'
    <3> SUFFICES ASSUME NEW q \in Proc, op'[q].step = "close", op'[q].w \notin moved'
                 PROVE  InPlace(op[q])'
      BY DEF Reading
    <3>1. PICK x : x = op[q] /\ x = op'[q]
      BY <2>3
    <3>2. InPlace(x)
      BY <2>1, <3>1 DEF Reading
    <3>3. InPlace(x)'
      BY <3>2, StaysInPlace
    <3> QED
      BY <3>1, <3>3 DEF InPlace
  <2> QED
    BY <2>2, <2>4, <2>5
<1> QED
  BY <1>2, <1>3 DEF SInv

\* XP written by a credit or an enrolment: to a week that is being closed it is noted in
\* "moved", to one that is closed in "torn".
LEMMA WriteSettled ==
    ASSUME SInv, TInv', NEW p \in Proc, NEW o, Goto(p, o), o.step \notin {"roll", "close"},
           op[p].step # "close",
           NEW w \in Week, NEW u \in User,
           \A x \in Week : x # w => xp'[x] = xp[x],
           \A v \in User : v # u => xp'[w][v] = xp[w][v],
           xp[w][u] # NoRow => xp'[w][u] # NoRow,
           moved' = moved \cup ({w} \cap Closing),
           torn \subseteq torn', state[w] = "closed" => u \in torn',
           UNCHANGED <<now, state, settled, overrun, lock>>
    PROVE  SInv'
<1>1. DOMAIN op' = Proc /\ \A q \in Proc : op'[q] = IF q = p THEN o ELSE op[q]
  BY GoXp DEF SInv, TInv, XInv, Typed
<1>2. Settlements' /\ Unsettled' /\ ClosedEnded'
  BY DEF SInv, Settlements, Unsettled, ClosedEnded, Over
<1>3. SettledOnce'
  <2> SUFFICES ASSUME NEW x \in Week \ moved', state'[x] = "closed", ~overrun',
                      NEW v \in User, xp'[x][v] # NoRow, v \notin torn'
               PROVE  /\ settled'[x][v] = 1
                      /\ \E t \in Tier \cap (x[1] - 1)..(x[1] + 1) :
                            v \in Members(<<t, x[2] + 1>>)'
    BY DEF SettledOnce, Members
  <2>1. xp[x][v] # NoRow
    OBVIOUS
  <2>2. /\ settled[x][v] = 1
        /\ \E t \in Tier \cap (x[1] - 1)..(x[1] + 1) : v \in Members(<<t, x[2] + 1>>)
    BY <2>1 DEF SInv, SettledOnce, Members
  <2>3. PICK t \in Tier \cap (x[1] - 1)..(x[1] + 1) : xp[<<t, x[2] + 1>>][v] # NoRow
    BY <2>2 DEF Members
  <2>4. <<t, x[2] + 1>> \in Week
    <3>1. now \in 1..(LastWeek + 1) /\ x[2] + 1 <= now
      BY DEF SInv, TInv, TypeOK, ClosedEnded, Over
    <3> QED
      BY <3>1, NextIsWeek
  <2>5. xp'[<<t, x[2] + 1>>][v] # NoRow
    BY <2>3, <2>4
  <2> QED
    BY <2>2, <2>5 DEF Members
<1>4. ASSUME ~overrun' PROVE OneRun' /\ NotYet' /\ Reading'
  <2>1. OneRun /\ NotYet /\ Reading
    BY <1>4 DEF SInv
  <2>2. OneRun'
    BY <1>1, <2>1 DEF OneRun, Running
  <2>3. \A q \in Proc : op'[q].step = "close" => op'[q] = op[q] /\ op[q].w \in Week
    BY <1>1, OpFields DEF SInv, TInv, TypeOK
  <2>4. NotYet'
    BY <2>1, <2>3 DEF NotYet
  <2>5. Reading'
    <3> SUFFICES ASSUME NEW q \in Proc, op'[q].step = "close", op'[q].w \notin moved'
                 PROVE  InPlace(op[q])'
      BY DEF Reading
    <3>1. PICK o1 : o1 = op[q] /\ o1 = op'[q]
      BY <2>3
    <3>2. InPlace(o1)
      BY <2>1, <3>1 DEF Reading
    <3>3. o1.w \in Week /\ o1.w \in Closing
      BY <2>3, <3>1 DEF Closing
    <3>4. o1.w # w
      BY <3>1, <3>3
    <3>5. InPlace(o1)'
      BY <3>2, <3>3, <3>4, StaysInPlace
    <3> QED
      BY <3>1, <3>5 DEF InPlace
  <2> QED
    BY <2>2, <2>4, <2>5
<1> QED
  BY <1>2, <1>3, <1>4 DEF SInv

\* Requests, and the ends of a run.
LEMMA QuietSettled ==
    ASSUME SInv, TInv', NEW p \in Proc,
           \/ ClaimLocked(p) \/ MirrorRankXp(p) \/ SetRankXp(p) \/ EnsureWarm(p)
           \/ RollEnd(p) \/ Abort(p) \/ Die(p) \/ SeedLeagues(p)
           \/ \E u \in User : \/ Earn(p, u) \/ Join(p, u) \/ View(p, u)
                              \/ \E n \in 1..LastWeek : ClaimPodium(p, u, n)
    PROVE  SInv'
<1>1. /\ UNCHANGED <<now, xp, settled, moved, torn, overrun>>
      /\ \A q \in Proc \ {p} : lock = q => lock' = q
  BY DEF ClaimLocked, MirrorRankXp, SetRankXp, EnsureWarm, RollEnd, Abort, Die, SeedLeagues,
         Earn, Join, View, ClaimPodium, Release, tables, history
<1>2. \A w \in Week : state'[w] = "closed" <=> state[w] = "closed"
  <2>1. state' = state \/ \E W : state' = Opened(W)
    BY DEF ClaimLocked, MirrorRankXp, SetRankXp, EnsureWarm, RollEnd, Abort, Die, SeedLeagues,
           Earn, Join, View, ClaimPodium, tables
  <2> QED
    BY <2>1 DEF Opened
<1>3. \E o : Goto(p, o) /\ o.step \notin {"roll", "close"}
  <2>1. CASE ClaimLocked(p)
    BY <2>1 DEF ClaimLocked, NoOp
  <2>2. CASE MirrorRankXp(p) \/ SetRankXp(p) \/ EnsureWarm(p) \/ RollEnd(p) \/ Abort(p) \/ Die(p)
    BY <2>2 DEF MirrorRankXp, SetRankXp, EnsureWarm, RollEnd, Abort, Die, NoOp
  <2>3. CASE SeedLeagues(p)
    BY <2>3 DEF SeedLeagues, Start
  <2>4. ASSUME NEW u \in User, Earn(p, u) PROVE <1>3
    BY <2>4 DEF Earn, Start
  <2>5. ASSUME NEW u \in User, Join(p, u) PROVE <1>3
    BY <2>5 DEF Join, Start
  <2>6. ASSUME NEW u \in User, View(p, u) PROVE <1>3
    BY <2>6 DEF View, Start
  <2>7. ASSUME NEW u \in User, NEW n \in 1..LastWeek, ClaimPodium(p, u, n) PROVE <1>3
    BY <2>7 DEF ClaimPodium, Start
  <2> QED
    BY <2>1, <2>2, <2>3, <2>4, <2>5, <2>6, <2>7
<1> QED
  BY <1>1, <1>2, <1>3, OtherSettled

\* The two steps that write XP to a week.
LEMMA XpSettled == ASSUME SInv, TInv', NEW p \in Proc, Credit(p) \/ JoinWeek(p) PROVE SInv'
<1> DEFINE c == op[p]
<1>1. xp \in [Week -> [User -> Nat \cup {NoRow}]] /\ c \in Ops /\ Acts(c)
  BY DEF SInv, TInv, TypeOK, XInv, Acting
<1>2. UNCHANGED <<now, state, settled, overrun, lock>> /\ c.step # "close"
  BY DEF Credit, JoinWeek, tables
<1>3. PICK o : Goto(p, o) /\ o.step \notin {"roll", "close"}
  <2>1. CASE Credit(p)
    BY <2>1 DEF Credit, NoOp
  <2>2. CASE JoinWeek(p)
    BY <1>1, <2>2 DEF JoinWeek, NoOp, Acts
  <2> QED
    BY <2>1, <2>2
<1>4. CASE Credit(p) /\ c.w = NoWeek
  <2>1. UNCHANGED <<xp, moved>> /\ torn \subseteq torn'
    BY <1>4 DEF Credit
  <2> QED
    BY <1>2, <1>3, <2>1, OtherSettled
<1>5. CASE ~(Credit(p) /\ c.w = NoWeek)
  <2>1. PICK u \in User, w \in Week : u = c.u /\ w = c.w
    BY <1>1, <1>5 DEF Credit, JoinWeek, Acts, Begins
  <2>2. PICK n \in Nat : xp' = [xp EXCEPT ![w][u] = n]
    <3>1. CASE Credit(p)
      <4>1. xp' = [xp EXCEPT ![w][u] = (IF xp[w][u] = NoRow THEN 0 ELSE xp[w][u]) + 1]
        BY <1>5, <2>1, <3>1 DEF Credit
      <4>2. (IF xp[w][u] = NoRow THEN 0 ELSE xp[w][u]) + 1 \in Nat
        BY <1>1 DEF NoRow
      <4> QED
        BY <4>1, <4>2
    <3>2. CASE JoinWeek(p)
      <4>1. xp' = [xp EXCEPT ![w][u] = IF xp[w][u] = NoRow THEN c.xp ELSE xp[w][u]]
        BY <2>1, <3>2 DEF JoinWeek
      <4>2. (IF xp[w][u] = NoRow THEN c.xp ELSE xp[w][u]) \in Nat
        BY <1>1, <3>2 DEF JoinWeek, Acts
      <4> QED
        BY <4>1, <4>2
    <3> QED
      BY <3>1, <3>2
  <2>3. /\ \A x \in Week : x # w => xp'[x] = xp[x]
        /\ \A v \in User : v # u => xp'[w][v] = xp[w][v]
        /\ xp'[w][u] # NoRow
    BY <1>1, <2>2 DEF NoRow
  <2>4. moved' = moved \cup ({w} \cap Closing)
    BY <1>5, <2>1 DEF Credit, JoinWeek
  <2>5. torn \subseteq torn' /\ (state[w] = "closed" => u \in torn')
    BY <1>5, <2>1 DEF Credit, JoinWeek
  <2> QED
    BY <1>2, <1>3, <2>3, <2>4, <2>5, WriteSettled
<1> QED
  BY <1>4, <1>5

\* Time passes, and the key runs out: under a run, which is an overrun, or after it.
LEMMA ClockSettled ==
    ASSUME SInv, TInv', Tick \/ LockExpires \/ UNCHANGED vars PROVE SInv'
<1>1. /\ UNCHANGED <<state, xp, op, settled, moved, torn>>
      /\ overrun' \in BOOLEAN /\ (~overrun' => ~overrun)
  <2>1. overrun \in BOOLEAN
    BY DEF SInv, Settlements
  <2>2. CASE LockExpires
    <3>1. overrun' = (overrun \/ Running(lock))
      BY <2>2 DEF LockExpires
    <3>2. overrun' \in BOOLEAN /\ (~overrun' => ~overrun)
      BY <2>1, <3>1 DEF Running
    <3> QED
      BY <2>2, <3>2 DEF LockExpires, tables
  <2>3. CASE Tick \/ UNCHANGED vars
    BY <2>1, <2>3 DEF Tick, vars, tables, history
  <2> QED
    BY <2>2, <2>3
<1>2. now' \in Int /\ now \in Int /\ now' >= now
  BY LeagueAssumption DEF Tick, LockExpires, vars, SInv, TInv, TypeOK
<1>3. ClosedEnded'
  <2>1. \A w \in Week : w[2] \in Int
    BY WeekIsPair
  <2> QED
    BY <1>1, <1>2, <2>1 DEF SInv, ClosedEnded, Over
<1>4. Settlements' /\ Unsettled' /\ SettledOnce'
  <2>1. Settlements' /\ Unsettled'
    BY <1>1 DEF SInv, Settlements, Unsettled
  <2>2. SettledOnce'
    BY <1>1, SettledStay DEF SInv
  <2> QED
    BY <2>1, <2>2
<1>5. ASSUME ~overrun' PROVE OneRun' /\ NotYet' /\ Reading'
  <2>1. OneRun /\ NotYet /\ Reading
    BY <1>1, <1>5 DEF SInv
  <2>2. NotYet' /\ Reading'
    <3>1. \A w : Members(w)' = Members(w) /\ Ranked(w)' = Ranked(w)
      BY <1>1, SameRanking
    <3> QED
      BY <1>1, <2>1, <3>1 DEF NotYet, Reading, InPlace
  <2>3. OneRun'
    BY <1>1, <1>5, <2>1 DEF Tick, LockExpires, vars, OneRun, Running
  <2> QED
    BY <2>2, <2>3
<1> QED
  BY <1>3, <1>4, <1>5 DEF SInv

\* The run that takes the key is alone, and one that goes on keeps it.
LEMMA RunSettled ==
    ASSUME SInv, TInv', NEW p \in Proc, NEW o, Goto(p, o),
           UNCHANGED <<now, state, xp, settled, moved, torn, overrun>>,
           \A q \in Proc \ {p} : lock = q => lock' = q,
           ~overrun /\ OneRun => lock' = p,
           ~overrun /\ Reading /\ o.step = "close" =>
               state[o.w] # "closed" /\ (o.w \notin moved => InPlace(o))
    PROVE  SInv'
<1>1. DOMAIN op' = Proc /\ \A q \in Proc : op'[q] = IF q = p THEN o ELSE op[q]
  BY GoXp DEF SInv, TInv, XInv, Typed
<1>2. Settlements' /\ Unsettled' /\ ClosedEnded' /\ SettledOnce'
  <2>1. Settlements' /\ Unsettled' /\ ClosedEnded'
    BY DEF SInv, Settlements, Unsettled, ClosedEnded, Over
  <2>2. SettledOnce'
    BY SettledStay DEF SInv
  <2> QED
    BY <2>1, <2>2
<1>3. ASSUME ~overrun' PROVE OneRun' /\ NotYet' /\ Reading'
  <2>1. /\ OneRun /\ NotYet /\ Reading
        /\ lock' = p
        /\ o.step = "close" => state[o.w] # "closed" /\ (o.w \notin moved => InPlace(o))
    BY <1>3 DEF SInv
  <2>2. OneRun'
    BY <1>1, <2>1 DEF OneRun, Running
  <2>3. NotYet'
    BY <1>1, <2>1 DEF NotYet
  <2>4. \A w : Members(w)' = Members(w) /\ Ranked(w)' = Ranked(w)
    BY SameRanking
  <2>5. Reading'
    <3> SUFFICES ASSUME NEW q \in Proc, op'[q].step = "close", op'[q].w \notin moved'
                 PROVE  InPlace(op[q])'
      BY DEF Reading
    <3>1. PICK x : x = op'[q] /\ x = IF q = p THEN o ELSE op[q]
      BY <1>1
    <3>2. InPlace(x)
      BY <2>1, <3>1 DEF Reading
    <3> QED
      BY <2>4, <3>1, <3>2 DEF InPlace
  <2> QED
    BY <2>2, <2>3, <2>5
<1> QED
  BY <1>2, <1>3 DEF SInv

\* Nobody runs while the key is free.
LEMMA RunsSettled ==
    ASSUME SInv, TInv', NEW p \in Proc,
           RunWeeklyRollover(p) \/ CloseBegin(p) \/ CloseBatch(p)
    PROVE  SInv'
<1> DEFINE c == op[p]
<1>1. UNCHANGED <<now, state, xp, settled, moved, torn, overrun>>
  BY DEF RunWeeklyRollover, CloseBegin, CloseBatch, tables, history
<1>2. /\ c \in Ops /\ xp \in [Week -> [User -> Nat \cup {NoRow}]]
      /\ lock \in Proc \cup {NoProc} /\ NoProc \notin Proc
  BY LeagueAssumption DEF SInv, TInv, TypeOK
<1>3. CASE RunWeeklyRollover(p)
  <2>1. PICK o : Goto(p, o) /\ o.step = "roll"
    BY <1>3 DEF RunWeeklyRollover
  <2>2. lock = NoProc /\ lock' = p
    BY <1>3 DEF RunWeeklyRollover
  <2> QED
    BY <1>1, <1>2, <2>1, <2>2, RunSettled
<1>4. CASE CloseBegin(p)
  <2>1. PICK w \in c.weeks :
           Goto(p, IF state[w] = "closed" THEN [c EXCEPT !.weeks = @ \ {w}]
                   ELSE [step |-> "close", weeks |-> c.weeks \ {w}, w |-> w,
                         size |-> Cardinality(Members(w)), done |-> <<>>])
    BY <1>4 DEF CloseBegin
  <2>2. c.step = "roll" /\ lock' = lock /\ (OneRun => lock = p)
    BY <1>4 DEF CloseBegin, OneRun, Running
  <2>3. CASE state[w] = "closed"
    <3>1. PICK o : o = [c EXCEPT !.weeks = @ \ {w}] /\ Goto(p, o)
      BY <2>1, <2>3
    <3>2. o.step = "roll"
      <4>1. c \in [step : {"roll"}, weeks : SUBSET Week]
        BY <1>2, <2>2 DEF Ops, NoOp
      <4> QED
        BY <3>1, <4>1
    <3> QED
      BY <1>1, <2>2, <3>1, <3>2, RunSettled
  <2>4. CASE state[w] # "closed"
    <3>1. PICK o : /\ o = [step |-> "close", weeks |-> c.weeks \ {w}, w |-> w,
                           size |-> Cardinality(Members(w)), done |-> <<>>]
                   /\ Goto(p, o)
      BY <2>1, <2>4
    <3>2. o.step = "close" /\ o.w = w /\ o.size = Cardinality(Members(w)) /\ o.done = <<>>
      BY <3>1
    <3>3. Cardinality(Members(w)) \in Nat
      BY MembersFinite
    <3>4. InPlace(o)
      BY <3>2, <3>3 DEF InPlace
    <3> QED
      BY <1>1, <2>2, <2>4, <3>1, <3>2, <3>4, RunSettled
  <2> QED
    BY <2>3, <2>4
<1>5. CASE CloseBatch(p)
  <2>1. /\ c.step = "close" /\ c.w \in Week /\ c.done \in Seq(User) /\ c.size \in Nat
        /\ c.weeks \in SUBSET Week
        /\ c = [step |-> "close", weeks |-> c.weeks, w |-> c.w, size |-> c.size,
                done |-> c.done]
        /\ lock' = lock /\ (OneRun => lock = p)
    BY <1>2, <1>5, OpFields DEF CloseBatch, OneRun, Running
  <2>2. PICK w \in Week, W \in SUBSET Week, n \in Nat, d \in Seq(User) :
           c = [step |-> "close", weeks |-> W, w |-> w, size |-> n, done |-> d]
    BY <2>1
  <2>3. PICK page \in Seq(User) : page = Page(c)
    <3>1. Len(d) \in Nat /\ c.w = w /\ c.done = d
      BY <2>2
    <3> QED
      BY <1>2, <3>1, PageIs DEF Follows
  <2>4. PICK o : o = [c EXCEPT !.done = @ \o page] /\ Goto(p, o)
    BY <1>5, <2>3 DEF CloseBatch
  <2>5. o = [step |-> "close", weeks |-> W, w |-> w, size |-> n, done |-> d \o page]
    <3> HIDE DEF c
    <3> QED
      BY <2>2, <2>4
  <2>6. /\ o.step = "close" /\ o.w = w /\ o.size = n /\ o.done = d \o page
        /\ c.step = "close" /\ c.w = w /\ c.size = n /\ c.done = d
    BY <2>2, <2>5
  <2>7. NotYet /\ Reading => state[w] # "closed" /\ (w \notin moved => InPlace(c))
    BY <2>6 DEF NotYet, Reading
  <2>8. ASSUME InPlace(c) PROVE InPlace(o)
    <3>1. PICK k \in Nat : k = Len(d)
      OBVIOUS
    <3>2. PICK R : R = Ranked(w)
      OBVIOUS
    <3>3. n = Cardinality(Members(w)) /\ k <= n /\ \A i \in 1..k : d[i] = R[i]
      BY <2>6, <2>8, <3>1, <3>2 DEF InPlace
    <3>4. PICK m \in 0..n :
             /\ Len(page) = IF k + 1 <= m THEN m - k ELSE 0
             /\ \A i \in 1..(m - k) : page[i] = R[k + i]
      <4>1. PICK x : x = c
        OBVIOUS
      <4>2. x.w = w /\ Len(x.done) = k /\ page = Page(x)
        BY <2>3, <2>6, <3>1, <4>1
      <4>3. xp \in [Week -> [User -> Nat \cup {NoRow}]]
        BY <1>2
      <4>4. Follows(page, w, k)
        BY <4>2, <4>3, PageIs
      <4> QED
        BY <3>2, <3>3, <4>4 DEF Follows
    <3>5. /\ Len(d \o page) = k + Len(page)
          /\ \A i \in 1..(k + Len(page)) : (d \o page)[i] = IF i <= k THEN d[i] ELSE page[i - k]
      BY <2>3, <3>1, ConcatProperties
    <3>6. k + Len(page) <= n /\ Len(page) \in Nat
      BY <3>3, <3>4
    <3>7. ASSUME NEW i \in 1..(k + Len(page)) PROVE (d \o page)[i] = R[i]
      <4>1. CASE i <= k
        BY <3>3, <3>5, <4>1
      <4>2. CASE ~(i <= k)
        <5>1. i - k \in 1..(m - k) /\ k + (i - k) = i
          BY <3>3, <3>4, <3>6, <4>2
        <5> QED
          BY <3>4, <3>5, <4>2, <5>1
      <4> QED
        BY <4>1, <4>2
    <3> QED
      BY <2>6, <3>2, <3>3, <3>5, <3>6, <3>7 DEF InPlace
  <2> QED
    BY <1>1, <2>1, <2>4, <2>6, <2>7, <2>8, RunSettled DEF SInv
<1> QED
  BY <1>3, <1>4, <1>5

\* Each member of a week is listed once.
ListsEach(w, d) ==
    \A u \in Members(w) : \E i \in DOMAIN d : {j \in DOMAIN d : d[j] = u} = {i}

\* A closing whose pages were read undisturbed has each member of the week once.
LEMMA ReadInFull ==
    ASSUME NEW o, o.step = "close", NEW w \in Week, o.w = w, NEW d \in Seq(User), o.done = d,
           xp \in [Week -> [User -> Nat \cup {NoRow}]], InPlace(o),
           Len(o.done) >= o.size \/ Page(o) = <<>>
    PROVE  ListsEach(w, d)
<1> DEFINE n == Cardinality(Members(w))
<1>1. PICK k \in Nat : k = Len(d) /\ DOMAIN d = 1..k
  OBVIOUS
<1>2. n \in Nat
  BY MembersFinite
<1>3. Ranked(w) \in Bijection(1..n, Members(w))
  BY RankedIs
<1>4. o.size = n /\ k <= n /\ \A i \in 1..k : d[i] = Ranked(w)[i]
  BY <1>1 DEF InPlace
<1>5. k = n
  <2>1. CASE Len(o.done) >= o.size
    BY <1>1, <1>2, <1>4, <2>1
  <2>2. CASE Page(o) = <<>>
    <3>1. PICK page : page = Page(o)
      OBVIOUS
    <3>2. Follows(page, w, k)
      BY <1>1, <3>1, PageIs
    <3>3. PICK m \in 0..n : /\ Len(page) = IF k + 1 <= m THEN m - k ELSE 0
                            /\ k < n => k < m
      BY <3>2 DEF Follows
    <3>4. Len(page) = 0
      BY <2>2, <3>1
    <3> QED
      BY <1>2, <1>4, <3>3, <3>4
  <2> QED
    BY <2>1, <2>2
<1> SUFFICES ASSUME NEW u \in Members(w)
             PROVE  \E i \in DOMAIN d : {j \in DOMAIN d : d[j] = u} = {i}
  BY DEF ListsEach
<1>6. PICK i \in 1..n : Ranked(w)[i] = u
  BY <1>3 DEF Bijection, Surjection
<1>7. \A j \in 1..n : Ranked(w)[j] = u => j = i
  BY <1>3, <1>6 DEF Bijection, Injection, IsInjective
<1>8. \A j \in DOMAIN d : d[j] = u <=> j = i
  BY <1>1, <1>4, <1>5, <1>6, <1>7
<1> QED
  BY <1>1, <1>5, <1>6, <1>8

\* The closing settles the members of its week, and of no other.
LEMMA CloseSettled == ASSUME SInv, TInv', NEW p \in Proc, CloseWeek(p) PROVE SInv'
<1> DEFINE c == op[p]
           Ranks(u) == {i \in DOMAIN c.done : c.done[i] = u}
           Goals(u) == {Target(c.w, i, c.size) : i \in Ranks(u)}
<1>1. /\ c \in Ops /\ c.step = "close" /\ Acts(c)
      /\ xp \in [Week -> [User -> Nat \cup {NoRow}]]
      /\ state \in [Week -> {"none", "open", "closed"}]
      /\ now \in 1..(LastWeek + 1)
  BY DEF CloseWeek, SInv, TInv, TypeOK, XInv, Acting
<1>2. PICK w \in Week, d \in Seq(User), size \in Nat :
         w = c.w /\ d = c.done /\ size = c.size /\ Over(w)
  BY <1>1, OpFields DEF Acts
<1>3. \A u \in User : \A g \in Goals(u) :
         g \in Week \ {w} /\ \E t \in Tier \cap (w[1] - 1)..(w[1] + 1) : g = <<t, w[2] + 1>>
  <2>1. \A i : /\ Target(w, i, size) \in Week /\ Target(w, i, size)[2] = w[2] + 1
               /\ \E t \in Tier \cap (w[1] - 1)..(w[1] + 1) :
                     Target(w, i, size) = <<t, w[2] + 1>>
    BY <1>1, <1>2, TargetIsNext DEF Over
  <2>2. w[2] \in Nat
    BY WeekIsPair
  <2> QED
    BY <1>2, <2>1, <2>2
<1>4. /\ state' = [Opened(UNION {Goals(u) : u \in User}) EXCEPT ![w] = "closed"]
      /\ xp' = [x \in Week |-> [u \in User |-> IF x \in Goals(u) THEN 0 ELSE xp[x][u]]]
      /\ torn' = torn \cup (Members(w) \ Range(c.done))
                      \cup {u \in User : \E g \in Goals(u) : state[g] = "closed"}
      /\ settled' = [settled EXCEPT ![w] =
                       [u \in User |-> settled[w][u] + Cardinality(Ranks(u))]]
      /\ UNCHANGED <<now, lock, moved, overrun>>
  BY <1>2 DEF CloseWeek
<1>5. \A u \in User : IsFiniteSet(Ranks(u)) /\ Cardinality(Ranks(u)) \in Nat
  <2>1. PICK k \in Nat : DOMAIN d = 1..k
    OBVIOUS
  <2>2. IsFiniteSet(1..k)
    BY FS_Interval
  <2>3. \A u \in User : Ranks(u) \in SUBSET (1..k)
    BY <1>2, <2>1
  <2> QED
    BY <2>2, <2>3, FS_Subset, FS_CardinalityType
<1>6. \A x \in Week, u \in User : xp'[x][u] = IF x \in Goals(u) THEN 0 ELSE xp[x][u]
  BY <1>4
<1> HIDE DEF Goals
<1>7. /\ state'[w] = "closed"
      /\ \A x \in Week : x # w => (state'[x] = "closed" <=> state[x] = "closed")
  BY <1>1, <1>4 DEF Opened
<1> HIDE DEF Ranks
<1>8. /\ settled' \in [Week -> [User -> Nat]]
      /\ \A x \in Week : x # w => settled'[x] = settled[x]
      /\ \A u \in User : settled'[w][u] = settled[w][u] + Cardinality(Ranks(u))
  BY <1>4, <1>5 DEF SInv, Settlements
<1>9. Settlements' /\ Unsettled' /\ ClosedEnded'
  <2>1. Settlements' /\ Unsettled'
    BY <1>4, <1>7, <1>8 DEF SInv, Settlements, Unsettled
  <2>2. ClosedEnded'
    BY <1>2, <1>4, <1>7 DEF SInv, ClosedEnded, Over
  <2> QED
    BY <2>1, <2>2
<1>10. PICK o : Goto(p, o) /\ o.step = "roll"
  BY DEF CloseWeek
<1>11. DOMAIN op' = Proc /\ \A q \in Proc : op'[q] = IF q = p THEN o ELSE op[q]
  BY <1>10, GoXp DEF SInv, TInv, XInv, Typed
<1>12. ASSUME ~overrun' PROVE OneRun' /\ NotYet' /\ Reading'
  <2>1. OneRun /\ lock = p
    BY <1>1, <1>4, <1>12 DEF SInv, OneRun, Running
  <2>2. \A q \in Proc : q # p => op[q].step \notin {"roll", "close"}
    BY <2>1 DEF OneRun, Running
  <2>3. \A q \in Proc : op'[q].step # "close" /\ (Running(q)' => q = p)
    BY <1>10, <1>11, <2>2 DEF Running
  <2> QED
    BY <1>4, <2>1, <2>3 DEF OneRun, NotYet, Reading
<1>13. SettledOnce'
  <2> SUFFICES ASSUME NEW x \in Week \ moved', state'[x] = "closed", ~overrun',
                      NEW u \in User, xp'[x][u] # NoRow, u \notin torn'
               PROVE  /\ settled'[x][u] = 1
                      /\ \E t \in Tier \cap (x[1] - 1)..(x[1] + 1) :
                            u \in Members(<<t, x[2] + 1>>)'
    BY DEF SettledOnce, Members
  <2>1. /\ x \notin moved /\ ~overrun /\ u \notin torn
        /\ \A g \in Goals(u) : state[g] # "closed"
    BY <1>4
  <2>2. CASE x # w
    <3>1. state[x] = "closed" /\ settled'[x][u] = settled[x][u]
      BY <1>7, <1>8, <2>2
    <3>2. xp[x][u] # NoRow
      BY <1>6, <2>1, <3>1
    <3>3. /\ settled[x][u] = 1
          /\ \E t \in Tier \cap (x[1] - 1)..(x[1] + 1) : u \in Members(<<t, x[2] + 1>>)
      BY <2>1, <3>1, <3>2 DEF SInv, SettledOnce, Members
    <3>4. PICK t \in Tier \cap (x[1] - 1)..(x[1] + 1) : xp[<<t, x[2] + 1>>][u] # NoRow
      BY <3>3 DEF Members
    <3>5. <<t, x[2] + 1>> \in Week
      BY <1>1, <3>1, NextIsWeek DEF SInv, ClosedEnded, Over
    <3>6. xp'[<<t, x[2] + 1>>][u] # NoRow
      BY <1>6, <3>4, <3>5 DEF NoRow
    <3> QED
      BY <3>1, <3>3, <3>6 DEF Members
  <2>3. CASE x = w
    <3>1. state[w] # "closed" /\ InPlace(c)
      BY <1>1, <1>2, <2>1, <2>3 DEF SInv, NotYet, Reading
    <3>2. u \in Members(w)
      BY <1>3, <1>6, <2>3 DEF Members
    <3>3. PICK i \in DOMAIN d : {j \in DOMAIN d : d[j] = u} = {i}
      <4>1. Len(c.done) >= c.size \/ Page(c) = <<>>
        BY DEF CloseWeek
      <4>2. PICK y : y = c
        OBVIOUS
      <4>3. /\ y.step = "close" /\ y.w = w /\ y.done = d /\ InPlace(y)
            /\ Len(y.done) >= y.size \/ Page(y) = <<>>
        BY <1>1, <1>2, <3>1, <4>1, <4>2
      <4>4. ListsEach(w, d)
        BY <1>1, <4>3, ReadInFull
      <4> QED
        BY <3>2, <4>4 DEF ListsEach
    <3>4. Ranks(u) = {i}
      BY <1>2, <3>3 DEF Ranks
    <3>5. settled'[w][u] = 1
      <4>1. Cardinality(Ranks(u)) = 1
        BY <3>4, FS_Singleton
      <4>2. settled[w][u] = 0
        BY <3>1 DEF SInv, Unsettled
      <4> QED
        BY <1>8, <4>1, <4>2
    <3>6. PICK g : g \in Goals(u)
      BY <3>4 DEF Goals
    <3>7. PICK t \in Tier \cap (w[1] - 1)..(w[1] + 1) : g = <<t, w[2] + 1>> /\ g \in Week
      BY <1>3, <3>6
    <3>8. xp'[<<t, w[2] + 1>>][u] # NoRow
      BY <1>6, <3>6, <3>7 DEF NoRow
    <3> QED
      BY <2>3, <3>5, <3>7, <3>8 DEF Members
  <2> QED
    BY <2>2, <2>3
<1> QED
  BY <1>9, <1>12, <1>13 DEF SInv

\* Every step keeps the inductive invariant.
LEMMA NextSettled == SInv /\ [Next]_vars => SInv'
<1> SUFFICES ASSUME SInv, [Next]_vars PROVE SInv'
  OBVIOUS
<1>1. TInv'
  BY NextTyped DEF SInv
<1> QED
  BY <1>1, ClockSettled, QuietSettled, XpSettled, RunsSettled, CloseSettled DEF Next, Step

\* A closed week has moved each of its members once, to the next week of his league or a
\* neighbour, however many leagues, users and pages there are, and wherever runs die, time
\* out or meet credits and enrolments.
THEOREM WeeksSettledOnce == Spec => []SettledOnce
<1>1. SInv => SettledOnce
  BY DEF SInv
<1> QED
  BY <1>1, InitSettled, NextSettled, PTL DEF Spec

-----------------------------------------------------------------------------
(* The view of a league.                                                   *)

\* While nothing was requested since a view that began alone, only the rollover moves, and
\* the view writes the score of its user or finds it right.
Writes(o) == o.step \notin {"none", "roll", "close"}
Fresh(o)  == o.u \in o.users \/ Shown(score[o.w][o.u]) = o.set[o.u]
ViewSound(p, o) ==
    /\ o.at <= calls /\ o.set[o.u] # NoRow
    /\ o.alone /\ o.at = calls => Fresh(o) /\ \A q \in Others(p) : ~Writes(op[q])
VInv == TInv /\ \A p \in Proc : op[p].step = "view" => ViewSound(p, op[p])

\* A step that requests nothing: of a process that writes, and then no other view is both
\* alone and fresh, or of one that does not.
LEMMA StepViews ==
    ASSUME VInv, TInv', NEW p \in Proc, NEW o, Goto(p, o), o.step # "view", calls' = calls,
           \/ Writes(op[p])
           \/ score' = score /\ ~Writes(o)
    PROVE  VInv'
<1>1. DOMAIN op' = Proc /\ \A q \in Proc : op'[q] = IF q = p THEN o ELSE op[q]
  BY GoXp DEF VInv, TInv, XInv, Typed
<1> SUFFICES ASSUME NEW q \in Proc, op'[q].step = "view" PROVE ViewSound(q, op[q])'
  BY DEF VInv
<1>2. PICK x : x = op[q] /\ x = op'[q] /\ q # p
  BY <1>1
<1>3. ViewSound(q, x)
  BY <1>2 DEF VInv
<1>4. ASSUME x.alone, x.at = calls'
      PROVE  Fresh(x)' /\ \A r \in Others(q) : ~Writes(op[r])'
  <2>1. Fresh(x) /\ \A r \in Others(q) : ~Writes(op[r])
    BY <1>3, <1>4 DEF ViewSound
  <2>2. p \in Others(q)
    BY <1>2 DEF Others
  <2>3. score' = score /\ ~Writes(o)
    BY <2>1, <2>2
  <2>4. Fresh(x)'
    BY <2>1, <2>3 DEF Fresh
  <2>5. \A r \in Others(q) : ~Writes(op[r])'
    BY <1>1, <2>1, <2>3 DEF Writes, Others
  <2> QED
    BY <2>4, <2>5
<1> QED
  BY <1>2, <1>3, <1>4 DEF ViewSound, Fresh, Writes, Others

\* A request makes every earlier view late.
LEMMA RequestViews ==
    ASSUME VInv, TInv', NEW p \in Proc, NEW o, Start(p, o), score' = score,
           o.step = "view" => ViewSound(p, o)'
    PROVE  VInv'
<1>1. DOMAIN op' = Proc /\ \A q \in Proc : op'[q] = IF q = p THEN o ELSE op[q]
  BY GoXp DEF VInv, TInv, XInv, Typed, Start
<1>2. calls' = calls + 1 /\ calls \in Nat
  BY DEF Start, VInv, TInv
<1> SUFFICES ASSUME NEW q \in Proc, op'[q].step = "view" PROVE ViewSound(q, op[q])'
  BY DEF VInv
<1>3. CASE q = p
  BY <1>1, <1>3 DEF ViewSound, Fresh, Writes, Others
<1>4. CASE q # p
  <2>1. PICK x : x = op[q] /\ x = op'[q]
    BY <1>1, <1>4
  <2>2. ViewSound(q, x) /\ x.at \in Nat
    BY <2>1, OpFields DEF VInv, TInv, TypeOK
  <2>3. x.at <= calls' /\ x.at # calls' /\ x.set[x.u] # NoRow
    BY <1>2, <2>2 DEF ViewSound
  <2> QED
    BY <2>1, <2>3 DEF ViewSound
<1> QED
  BY <1>3, <1>4

\* A view reads the week its user is in.
LEMMA ViewViews == ASSUME VInv, TInv', NEW p \in Proc, NEW u \in User, View(p, u) PROVE VInv'
<1>1. PICK w : w = CurrentWeek(u)
  OBVIOUS
<1>2. w \in Week /\ xp[w][u] # NoRow
  <2>1. Mine(u) \in SUBSET Week
    BY DEF Mine
  <2>2. w \in Mine(u)
    BY <1>1, <2>1, LatestIsOne DEF View, CurrentWeek
  <2> QED
    BY <2>2 DEF Mine, Members
<1>3. PICK f : f = xp[w]
  OBVIOUS
<1>4. PICK S : S = Stale(w, u)
  OBVIOUS
<1>5. PICK alone \in BOOLEAN : alone = (\A q \in Others(p) : op[q] = NoOp)
  OBVIOUS
<1>6. PICK o : /\ o = [step |-> "view", u |-> u, w |-> w, set |-> f, users |-> S,
                       at |-> calls + 1, alone |-> alone]
               /\ Start(p, o)
  BY <1>1, <1>3, <1>4, <1>5 DEF View
<1>7. /\ o.u = u /\ o.w = w /\ o.set = f /\ o.users = S /\ o.at = calls + 1 /\ o.alone = alone
      /\ score' = score /\ calls' = calls + 1 /\ calls \in Nat
  BY <1>6 DEF View, Start, VInv, TInv
<1>8. u \in S \/ Shown(score[w][u]) = f[u]
  BY <1>3, <1>4 DEF Stale
<1>9. DOMAIN op' = Proc /\ \A q \in Proc : op'[q] = IF q = p THEN o ELSE op[q]
  BY <1>6, GoXp DEF VInv, TInv, XInv, Typed, Start
<1>10. ASSUME alone PROVE \A q \in Others(p) : ~Writes(op[q])'
  <2> SUFFICES ASSUME NEW q \in Others(p) PROVE ~Writes(op[q])'
    OBVIOUS
  <2>1. op[q] = NoOp
    BY <1>5, <1>10
  <2>2. op'[q] = op[q]
    BY <1>9 DEF Others
  <2> QED
    BY <2>1, <2>2 DEF Writes, NoOp
<1>11. ViewSound(p, o)'
  BY <1>2, <1>3, <1>7, <1>8, <1>10 DEF ViewSound, Fresh, Shown
<1> QED
  BY <1>6, <1>7, <1>11, RequestViews

\* Every step keeps the inductive invariant.
LEMMA NextViews == VInv /\ [Next]_vars => VInv'
<1> SUFFICES ASSUME VInv, [Next]_vars PROVE VInv'
  OBVIOUS
<1>1. TInv'
  BY NextTyped DEF VInv
<1>2. CASE Tick \/ LockExpires \/ UNCHANGED vars
  <2>1. UNCHANGED <<op, score, calls>>
    BY <1>2 DEF Tick, LockExpires, vars
  <2> QED
    BY <1>1, <2>1 DEF VInv, ViewSound, Fresh, Writes
<1>3. ASSUME NEW p \in Proc,
             \/ ClaimLocked(p) \/ Credit(p) \/ MirrorRankXp(p) \/ JoinWeek(p)
             \/ SetRankXp(p) \/ EnsureWarm(p)
      PROVE  VInv'
  <2>1. Writes(op[p]) /\ calls' = calls
    BY <1>3 DEF ClaimLocked, Credit, MirrorRankXp, JoinWeek, SetRankXp, EnsureWarm, Writes
  <2>2. \E o : Goto(p, o) /\ o.step # "view"
    <3>1. CASE ClaimLocked(p)
      BY <3>1 DEF ClaimLocked, NoOp
    <3>2. CASE Credit(p)
      BY <3>2 DEF Credit, NoOp
    <3>3. CASE MirrorRankXp(p) \/ SetRankXp(p) \/ EnsureWarm(p)
      BY <3>3 DEF MirrorRankXp, SetRankXp, EnsureWarm, NoOp
    <3>4. CASE JoinWeek(p)
      <4>1. op[p] \in Ops
        BY DEF VInv, TInv, TypeOK
      <4>2. "step" \in DOMAIN op[p]
        BY <4>1, OpFields
      <4> QED
        BY <3>4, <4>2 DEF JoinWeek, NoOp
    <3> QED
      BY <1>3, <3>1, <3>2, <3>3, <3>4
  <2> QED
    BY <1>1, <2>1, <2>2, StepViews
<1>4. ASSUME NEW p \in Proc,
             \/ CloseBegin(p) \/ CloseBatch(p) \/ CloseWeek(p) \/ RollEnd(p)
             \/ RunWeeklyRollover(p) \/ Abort(p) \/ Die(p)
      PROVE  VInv'
  <2>1. score' = score /\ calls' = calls
    BY <1>4 DEF CloseBegin, CloseBatch, CloseWeek, RollEnd, RunWeeklyRollover, Abort, Die
  <2>2. "step" \in DOMAIN op[p]
    BY OpFields DEF VInv, TInv, TypeOK
  <2>3. \E o : Goto(p, o) /\ o.step \in {"none", "roll", "close"}
    <3>1. CASE CloseBegin(p)
      BY <2>2, <3>1 DEF CloseBegin
    <3>2. CASE CloseBatch(p)
      BY <2>2, <3>2 DEF CloseBatch
    <3>3. CASE CloseWeek(p)
      BY <3>3 DEF CloseWeek
    <3>4. CASE RollEnd(p) \/ Abort(p) \/ Die(p)
      BY <3>4 DEF RollEnd, Abort, Die, NoOp
    <3>5. CASE RunWeeklyRollover(p)
      BY <3>5 DEF RunWeeklyRollover
    <3> QED
      BY <1>4, <3>1, <3>2, <3>3, <3>4, <3>5
  <2> QED
    BY <1>1, <2>1, <2>3, StepViews DEF Writes
<1>5. ASSUME NEW p \in Proc, SeedLeagues(p) PROVE VInv'
  BY <1>1, <1>5, RequestViews DEF SeedLeagues, Start
<1>6. ASSUME NEW p \in Proc, NEW u \in User, Earn(p, u) \/ Join(p, u) PROVE VInv'
  BY <1>1, <1>6, RequestViews DEF Earn, Join
<1>7. ASSUME NEW p \in Proc, NEW u \in User, NEW n \in 1..LastWeek, ClaimPodium(p, u, n)
      PROVE  VInv'
  BY <1>1, <1>7, RequestViews DEF ClaimPodium
<1> QED
  BY <1>1, <1>2, <1>3, <1>4, <1>5, <1>6, <1>7, ViewViews DEF Next, Step

\* A view ends with its answer, unless its process dies.
LEMMA ViewEnds ==
    ASSUME TInv, faults \in Nat, [Next]_vars, NEW p \in Proc,
           op[p].step = "view", op'[p] = NoOp, faults' = faults
    PROVE  EnsureWarm(p)
<1>1. op'[p] # op[p] /\ DOMAIN op = Proc
  BY DEF NoOp, TInv, TypeOK
<1>2. ASSUME NEW q \in Proc, NEW o, Goto(q, o) PROVE q = p
  BY <1>1, <1>2 DEF Goto
<1>3. ~(Tick \/ LockExpires \/ UNCHANGED vars)
  BY <1>1 DEF Tick, LockExpires, vars
<1>4. ~Die(p)
  BY DEF Die, Fault
<1>5. ASSUME NEW q \in Proc,
             \/ ClaimLocked(q) \/ Credit(q) \/ MirrorRankXp(q) \/ JoinWeek(q)
             \/ SetRankXp(q) \/ CloseBegin(q) \/ CloseBatch(q) \/ CloseWeek(q)
             \/ RollEnd(q) \/ Abort(q)
      PROVE  FALSE
  <2>1. op[q].step # "view"
    BY <1>5 DEF ClaimLocked, Credit, MirrorRankXp, JoinWeek, SetRankXp, CloseBegin,
                CloseBatch, CloseWeek, RollEnd, Abort
  <2>2. \E o : Goto(q, o)
    <3>1. CASE ClaimLocked(q) \/ MirrorRankXp(q) \/ SetRankXp(q) \/ CloseBatch(q)
      BY <3>1 DEF ClaimLocked, MirrorRankXp, SetRankXp, CloseBatch
    <3>2. CASE Credit(q)
      BY <3>2 DEF Credit
    <3>3. CASE JoinWeek(q)
      BY <3>3 DEF JoinWeek
    <3>4. CASE CloseBegin(q)
      BY <3>4 DEF CloseBegin
    <3>5. CASE CloseWeek(q)
      BY <3>5 DEF CloseWeek
    <3>6. CASE RollEnd(q) \/ Abort(q)
      BY <3>6 DEF RollEnd, Abort
    <3> QED
      BY <1>5, <3>1, <3>2, <3>3, <3>4, <3>5, <3>6
  <2> QED
    BY <1>2, <2>1, <2>2
<1>6. ASSUME NEW q \in Proc,
             \/ RunWeeklyRollover(q) \/ SeedLeagues(q)
             \/ \E u \in User : \/ Earn(q, u) \/ Join(q, u) \/ View(q, u)
                                \/ \E n \in 1..LastWeek : ClaimPodium(q, u, n)
      PROVE  FALSE
  <2>1. op[q] = NoOp
    BY <1>6 DEF RunWeeklyRollover, SeedLeagues, Earn, Join, View, ClaimPodium, Start
  <2>2. \E o : Goto(q, o)
    <3>1. CASE RunWeeklyRollover(q)
      BY <3>1 DEF RunWeeklyRollover
    <3>2. CASE SeedLeagues(q)
      BY <3>2 DEF SeedLeagues, Start
    <3>3. ASSUME NEW u \in User, Earn(q, u) PROVE <2>2
      BY <3>3 DEF Earn, Start
    <3>4. ASSUME NEW u \in User, Join(q, u) PROVE <2>2
      BY <3>4 DEF Join, Start
    <3>5. ASSUME NEW u \in User, View(q, u) PROVE <2>2
      BY <3>5 DEF View, Start
    <3>6. ASSUME NEW u \in User, NEW n \in 1..LastWeek, ClaimPodium(q, u, n) PROVE <2>2
      BY <3>6 DEF ClaimPodium, Start
    <3> QED
      BY <1>6, <3>1, <3>2, <3>3, <3>4, <3>5, <3>6
  <2> QED
    BY <1>2, <2>1, <2>2 DEF NoOp
<1>7. ASSUME NEW q \in Proc, EnsureWarm(q) \/ Die(q) PROVE EnsureWarm(p)
  <2>1. Goto(q, NoOp)
    BY <1>7 DEF EnsureWarm, Die
  <2> QED
    BY <1>2, <1>4, <1>7, <2>1
<1> QED
  BY <1>3, <1>5, <1>6, <1>7 DEF Next, Step

\* Faults are counted.
LEMMA FaultsCounted == faults \in Nat /\ [Next]_vars => faults' \in Nat
<1> SUFFICES ASSUME faults \in Nat, [Next]_vars PROVE faults' \in Nat
  OBVIOUS
<1>1. CASE UNCHANGED vars \/ Tick \/ LockExpires
  BY <1>1 DEF vars, Tick, LockExpires, Fault
<1>2. ASSUME NEW p \in Proc, Step(p) PROVE faults' \in Nat
  BY <1>2 DEF Step, ClaimLocked, Credit, MirrorRankXp, JoinWeek, SetRankXp, EnsureWarm,
              CloseBegin, CloseBatch, CloseWeek, RollEnd
<1>3. ASSUME NEW p \in Proc, \/ RunWeeklyRollover(p) \/ Abort(p) \/ Die(p) \/ SeedLeagues(p)
      PROVE  faults' \in Nat
  BY <1>3 DEF RunWeeklyRollover, Abort, Die, SeedLeagues, Fault
<1>4. ASSUME NEW p \in Proc, NEW u \in User,
             \/ Earn(p, u) \/ Join(p, u) \/ View(p, u)
             \/ \E n \in 1..LastWeek : ClaimPodium(p, u, n)
      PROVE  faults' \in Nat
  BY <1>4 DEF Earn, Join, View, ClaimPodium
<1> QED
  BY <1>1, <1>2, <1>3, <1>4 DEF Next

\* Who opens his league while nothing but the rollover runs sees his own XP, whatever was
\* mirrored, lost or overwritten before.
THEOREM ViewIsRight == Spec => ViewerSeesHisXp
<1> DEFINE IInv == VInv /\ faults \in Nat
           Right(p) == op[p].step = "view" /\ op'[p] = NoOp /\ op[p].alone
                       /\ op[p].at = calls /\ op[p].set = xp[op[p].w] /\ faults' = faults
                       /\ (\A q \in Others(p) : op[q] = NoOp)
                       => Shown(score'[op[p].w][op[p].u]) = xp[op[p].w][op[p].u]
<1>1. Init => IInv
  <2>1. Init => TInv
    BY InitTyped
  <2>2. Init => \A p \in Proc : op[p].step # "view"
    BY DEF Init, NoOp
  <2>3. Init => faults \in Nat
    BY DEF Init
  <2> QED
    BY <2>1, <2>2, <2>3 DEF VInv
<1>2. IInv /\ [Next]_vars => IInv'
  BY NextViews, FaultsCounted
<1>3. IInv /\ [Next]_vars => \A p \in Proc : Right(p)
  <2> SUFFICES ASSUME IInv, [Next]_vars, NEW p \in Proc,
                      op[p].step = "view", op'[p] = NoOp, op[p].alone, op[p].at = calls,
                      op[p].set = xp[op[p].w], faults' = faults
               PROVE  Shown(score'[op[p].w][op[p].u]) = xp[op[p].w][op[p].u]
    OBVIOUS
  <2> DEFINE c == op[p]
  <2>1. ViewSound(p, c) /\ c \in Ops /\ score \in Scores
    BY DEF VInv, TInv, TypeOK, Scores
  <2>2. c.u \in User /\ c.w \in Week
    BY <2>1, OpFields
  <2>3. EnsureWarm(p)
    BY ViewEnds DEF VInv
  <2>4. score' = [score EXCEPT ![c.w] =
                    [v \in User |-> IF v \in c.users THEN c.set[v] ELSE score[c.w][v]]]
    BY <2>3 DEF EnsureWarm
  <2>5. score'[c.w][c.u] = IF c.u \in c.users THEN c.set[c.u] ELSE score[c.w][c.u]
    BY <2>1, <2>2, <2>4 DEF Scores
  <2>6. Fresh(c) /\ c.set[c.u] # NoRow
    BY <2>1 DEF ViewSound
  <2> QED
    BY <2>5, <2>6 DEF Fresh, Shown
<1> HIDE DEF IInv
<1>4. IInv /\ [Next]_vars => [\A p \in Proc : Right(p)]_vars
  BY <1>3
<1>5. Spec => [][\A p \in Proc : Right(p)]_vars
  BY <1>1, <1>2, <1>4, PTL DEF Spec
<1> QED
  BY <1>5 DEF ViewerSeesHisXp
=============================================================================
