--------------------------------- MODULE League ---------------------------------
(***************************************************************************)
(* Leagues: modules/leagues (membership, weekly XP, the rollover of        *)
(* league.cron.ts, the Redis ranking), core/lock.ts and the podium claims  *)
(* of modules/rewards.                                                     *)
(*                                                                         *)
(* Week n of a league runs from tick n to tick n + 1.  A transaction that  *)
(* holds the row lock of a user is a read and a later write; the closing   *)
(* of a week is one transaction that reads its members page by page and    *)
(* commits once.  Users are numbered in the order they joined, which       *)
(* breaks ties, and the ids of the weeks in the order of the leagues.      *)
(***************************************************************************)
EXTENDS Integers, FiniteSets, Sequences, SequencesExt, FiniteSetsExt

CONSTANTS Proc,        \* requests and rollover runs
          NoProc,
          NumUsers, NumTiers,
          LastWeek,    \* the last week that is closed; bound on time
          Top,         \* PROMOTION and the podium: 3
          Bottom,      \* RELEGATION: 5
          Batch,       \* BATCH: 1000
          Starts,      \* the leagues the users may be in at first, 0 for none
          Demo,        \* the account of the seed script
          MaxCalls,    \* bound on the requests
          MaxFaults    \* bound on crashes, timeouts and locks that run out

ASSUME LeagueAssumption ==
    /\ {NumUsers, NumTiers, LastWeek, Top, Bottom, Batch} \subseteq Nat \ {0}
    /\ {MaxCalls, MaxFaults} \subseteq Nat /\ NoProc \notin Proc
    /\ Starts \subseteq [1..NumUsers -> 0..NumTiers] /\ Demo \in 1..NumUsers

User == 1..NumUsers
Tier == 1..NumTiers
Week == Tier \X (1..(LastWeek + 1))     \* <<league, numeroSemaine>>
NoRow  == -1
NoWeek == <<0, 0>>
NoOp   == [step |-> "none"]

VARIABLES
    now,
    state,     \* state[w]: "none", "open" or "closed"
    xp,        \* xp[w][u]: LeagueMembership.weeklyXp, NoRow without a membership
    total,     \* total[u]: User.weeklyXp
    score,     \* score[w][u]: the sorted set of the week in Redis
    podium,    \* podium[u][n]: how often the reward of week n was paid, NoRow without one
    lock,      \* the key lock:league-rollover
    op,
    calls, faults,
    settled,   \* history: settled[w][u], the closings of w that moved u
    moved,     \* history: weeks in which XP was written while they were being closed
    overrun,   \* history: the lock ran out under a running rollover
    torn       \* history: XP without a week, a membership that raced with a closing, or
               \* a closing into a week closed already

tables  == <<state, xp, total, podium>>
history == <<settled, moved, overrun, torn>>
vars    == <<now, tables, score, lock, op, calls, faults, history>>

Ops == {NoOp}
    \cup [step : {"roll"}, weeks : SUBSET Week]
    \cup [step : {"close"}, weeks : SUBSET Week, w : Week, size : Nat, done : Seq(User)]
    \cup [step : {"claim"}, u : User, n : 1..LastWeek]
    \cup [step : {"earn"}, u : User, w : Week \cup {NoWeek}, claim : 0..LastWeek]
    \cup [step : {"mirror"}, u : User, w : Week]
    \cup [step : {"join", "enrol"}, u : User, w : Week, xp : Nat]
    \cup [step : {"seed"}, u : User, w : Week, xp : Nat]
    \cup [step : {"view"}, u : User, w : Week, set : [User -> Nat \cup {NoRow}],
          users : SUBSET User, at : Nat, alone : BOOLEAN]

TypeOK ==
    /\ now \in 1..(LastWeek + 1)
    /\ state \in [Week -> {"none", "open", "closed"}]
    /\ xp \in [Week -> [User -> Nat \cup {NoRow}]] /\ score \in [Week -> [User -> Nat \cup {NoRow}]]
    /\ total \in [User -> Nat]
    /\ podium \in [User -> [1..LastWeek -> Nat \cup {NoRow}]]
    /\ lock \in Proc \cup {NoProc} /\ op \in [Proc -> Ops]
    /\ \A w \in Week, u \in User : xp[w][u] # NoRow => state[w] # "none"

\* The model starts in a week in which every league runs, and each user has
\* joined one of them or none.
Init ==
    /\ now = 1
    /\ state = [w \in Week |-> IF w[2] = 1 THEN "open" ELSE "none"]
    /\ \E in \in Starts :
          xp = [w \in Week |-> [u \in User |-> IF w = <<in[u], 1>> THEN 0 ELSE NoRow]]
    /\ total = [u \in User |-> 0]
    /\ score = [w \in Week |-> [u \in User |-> NoRow]]
    /\ podium = [u \in User |-> [n \in 1..LastWeek |-> NoRow]]
    /\ lock = NoProc /\ op = [p \in Proc |-> NoOp]
    /\ calls = 0 /\ faults = 0
    /\ settled = [w \in Week |-> [u \in User |-> 0]]
    /\ moved = {} /\ overrun = FALSE /\ torn = {}

Goto(p, o) == op' = [op EXCEPT ![p] = o]
Start(p, o) ==
    /\ op[p] = NoOp /\ calls < MaxCalls /\ calls' = calls + 1
    /\ Goto(p, o)
Others(p) == Proc \ {p}

-----------------------------------------------------------------------------
(* Weeks, ranks and row locks.                                             *)

Began(w)   == state[w] = "open" /\ w[2] <= now
Members(w) == {u \in User : xp[w][u] # NoRow}
\* The latest week, then the highest id; the lowest league, then the latest week.
Latest(W)  == CHOOSE w \in W : \A v \in W : w[2] > v[2] \/ (w[2] = v[2] /\ w[1] >= v[1])
Lowest(W)  == CHOOSE w \in W : \A v \in W : w[1] < v[1] \/ (w[1] = v[1] /\ w[2] >= v[2])

Mine(u)        == {w \in Week : Began(w) /\ u \in Members(w)}
CurrentWeek(u) == IF Mine(u) = {} THEN NoWeek ELSE Latest(Mine(u))
LowestOpen     == LET W == {w \in Week : Began(w)} IN IF W = {} THEN NoWeek ELSE Lowest(W)

\* The order of the ranking: most XP first, then who joined first.
Before(w, u, v) == xp[w][u] > xp[w][v] \/ (xp[w][u] = xp[w][v] /\ u < v)
Ranked(w) == CHOOSE s \in SetToSeqs(Members(w)) :
                \A i, j \in DOMAIN s : i < j => Before(w, s[i], s[j])

\* FOR UPDATE of a credit, or a closing that has reset the user.
HasLocked(p, u) ==
    \/ op[p].step = "earn" /\ op[p].u = u
    \/ op[p].step = "close" /\ u \in Range(op[p].done)
Free(p, u) == \A q \in Others(p) : ~HasLocked(q, u)
Closing    == {op[p].w : p \in {q \in Proc : op[q].step = "close"}}

Opened(weeks) == [w \in Week |-> IF w \in weeks /\ state[w] = "none" THEN "open" ELSE state[w]]

Ended == {w \in Week : state[w] = "open" /\ w[2] + 1 <= now}

-----------------------------------------------------------------------------
(* XP: every credit locks the user, adds to User.weeklyXp, and adds to the *)
(* membership of the current week (addXpIfMemberTx); Redis follows after   *)
(* the commit.                                                             *)

Credited(u) == IF CurrentWeek(u) # NoWeek THEN CurrentWeek(u) ELSE LowestOpen

Earn(p, u) ==
    /\ Free(p, u)
    /\ Start(p, [step |-> "earn", u |-> u, w |-> Credited(u), claim |-> 0])
    /\ UNCHANGED <<now, tables, score, lock, faults, history>>

\* claimPodium reads the reward before it locks the user.
ClaimPodium(p, u, n) ==
    /\ podium[u][n] = 0
    /\ Start(p, [step |-> "claim", u |-> u, n |-> n])
    /\ UNCHANGED <<now, tables, score, lock, faults, history>>

ClaimUnmarked(p) ==   \* mutant: claimedAt is not tested again under the lock
    LET o == op[p] IN
    /\ o.step = "claim" /\ Free(p, o.u)
    /\ Goto(p, [step |-> "earn", u |-> o.u, w |-> Credited(o.u), claim |-> o.n])
    /\ UNCHANGED <<now, tables, score, lock, calls, faults, history>>
ClaimLocked(p) ==
    LET o == op[p] IN
    /\ o.step = "claim" /\ Free(p, o.u)
    /\ Goto(p, IF podium[o.u][o.n] # 0 THEN NoOp
               ELSE [step |-> "earn", u |-> o.u, w |-> Credited(o.u), claim |-> o.n])
    /\ UNCHANGED <<now, tables, score, lock, calls, faults, history>>

Credit(p) ==
    LET o == op[p] IN
    /\ o.step = "earn"
    /\ total' = [total EXCEPT ![o.u] = @ + 1]
    /\ podium' = IF o.claim = 0 THEN podium ELSE [podium EXCEPT ![o.u][o.claim] = @ + 1]
    /\ IF o.w = NoWeek
       THEN Goto(p, NoOp) /\ UNCHANGED <<xp, moved>>
       ELSE /\ xp' = [xp EXCEPT ![o.w][o.u] = (IF @ = NoRow THEN 0 ELSE @) + 1]
            /\ moved' = moved \cup ({o.w} \cap Closing)
            /\ Goto(p, [step |-> "mirror", u |-> o.u, w |-> o.w])
    /\ torn' = IF o.w = NoWeek \/ state[o.w] = "closed" THEN torn \cup {o.u} ELSE torn
    /\ UNCHANGED <<now, state, score, lock, calls, faults, settled, overrun>>

MirrorRankXp(p) ==
    LET o == op[p] IN
    /\ o.step = "mirror" /\ Goto(p, NoOp)
    /\ score' = [score EXCEPT ![o.w][o.u] = (IF @ = NoRow THEN 0 ELSE @) + 1]
    /\ UNCHANGED <<now, tables, lock, calls, faults, history>>

\* The controller reads User.weeklyXp, join reads the week; then it inserts the
\* membership unless there is one, and seeds the ranking.
Join(p, u) ==
    /\ LowestOpen # NoWeek
    /\ Start(p, [step |-> "join", u |-> u, w |-> LowestOpen, xp |-> total[u]])
    /\ UNCHANGED <<now, tables, score, lock, faults, history>>

\* seedLeagues: the demo account is enrolled in the open week of the lowest
\* league, unless it is in an open week; without one, a week is opened with the
\* number of the calendar.
SeedLeagues(p) ==
    LET lowest == {w \in Week : w[1] = 1 /\ Began(w)}
        first  == <<1, now>>
        enrol(w) == Start(p, [step |-> "enrol", u |-> Demo, w |-> w, xp |-> 0])
    IN /\ \/ /\ lowest # {} /\ \A w \in Week : state[w] = "open" => Demo \notin Members(w)
             /\ enrol(Latest(lowest)) /\ UNCHANGED state
          \/ /\ lowest = {}
             /\ enrol(first) /\ state' = Opened({first})
       /\ UNCHANGED <<now, xp, total, podium, score, lock, faults, history>>

JoinWeek(p) ==
    LET o == op[p] IN
    /\ \/ o.step = "join" /\ Goto(p, [o EXCEPT !.step = "seed"])
       \/ o.step = "enrol" /\ Goto(p, NoOp)
    /\ xp' = [xp EXCEPT ![o.w][o.u] = IF @ = NoRow THEN o.xp ELSE @]
    /\ moved' = moved \cup ({o.w} \cap Closing)
    /\ torn' = IF total[o.u] # o.xp \/ state[o.w] = "closed"
                  \/ \E q \in Others(p) : HasLocked(q, o.u)
               THEN torn \cup {o.u} ELSE torn
    /\ UNCHANGED <<now, state, total, podium, score, lock, calls, faults, settled, overrun>>

SetRankXp(p) ==
    LET o == op[p] IN
    /\ o.step = "seed" /\ Goto(p, NoOp)
    /\ score' = [score EXCEPT ![o.w][o.u] = o.xp]
    /\ UNCHANGED <<now, tables, lock, calls, faults, history>>

-----------------------------------------------------------------------------
(* GET /leagues/me: ensureWarm reads both sides, then rebuilds the set or  *)
(* realigns the score of the viewer.                                       *)

Known(w) == {u \in User : score[w][u] # NoRow}
Shown(s) == IF s = NoRow THEN 0 ELSE s

\* Whose scores are written: everyone's when the sizes differ, otherwise that of
\* the viewer if it is wrong.
StaleBySize(w, u) ==   \* mutant: sets of the same size are taken to be equal
    IF Cardinality(Known(w)) # Cardinality(Members(w)) THEN User ELSE {}
Stale(w, u) ==
    IF Cardinality(Known(w)) # Cardinality(Members(w)) THEN User
    ELSE IF Shown(score[w][u]) # xp[w][u] THEN {u} ELSE {}

View(p, u) ==
    /\ CurrentWeek(u) # NoWeek
    /\ LET w == CurrentWeek(u) IN
       Start(p, [step |-> "view", u |-> u, w |-> w, set |-> xp[w], users |-> Stale(w, u),
                 at |-> calls + 1, alone |-> \A q \in Others(p) : op[q] = NoOp])
    /\ UNCHANGED <<now, tables, score, lock, faults, history>>

EnsureWarm(p) ==
    LET o == op[p] IN
    /\ o.step = "view" /\ Goto(p, NoOp)
    /\ score' = [score EXCEPT ![o.w] = [v \in User |-> IF v \in o.users THEN o.set[v] ELSE @[v]]]
    /\ UNCHANGED <<now, tables, lock, calls, faults, history>>

-----------------------------------------------------------------------------
(* The rollover.                                                           *)

\* withLock: SET NX.  The ended weeks are listed once, under the lock.
RunWeeklyRollover(p) ==
    /\ op[p] = NoOp /\ lock = NoProc /\ Ended # {}
    /\ lock' = p
    /\ Goto(p, [step |-> "roll", weeks |-> Ended])
    /\ UNCHANGED <<now, tables, score, calls, faults, history>>

\* The weeks that ended first come first.  A week that was closed meanwhile is
\* passed over.
CloseBegin(p) ==
    LET o == op[p] IN
    /\ o.step = "roll"
    /\ \E w \in o.weeks :
          /\ \A v \in o.weeks : w[2] <= v[2]
          /\ Goto(p, IF state[w] = "closed" THEN [o EXCEPT !.weeks = @ \ {w}]
                     ELSE [step |-> "close", weeks |-> o.weeks \ {w}, w |-> w,
                           size |-> Cardinality(Members(w)), done |-> <<>>])
    /\ UNCHANGED <<now, tables, score, lock, calls, faults, history>>

PageAgain(o) == SubSeq(Ranked(o.w), Max({1, Len(o.done)}),   \* mutant: one row too early
                       Min({Len(o.done) + Batch, Len(Ranked(o.w))}))
Page(o) == SubSeq(Ranked(o.w), Len(o.done) + 1, Min({Len(o.done) + Batch, Len(Ranked(o.w))}))

\* The next page of the ranking, as it is now.  Its users are reset, so locked.
CloseBatch(p) ==
    LET o == op[p] IN
    /\ o.step = "close" /\ Len(o.done) < o.size /\ Page(o) # <<>>
    /\ \A u \in Range(Page(o)) : Free(p, u)
    /\ Goto(p, [o EXCEPT !.done = @ \o Page(o)])
    /\ UNCHANGED <<now, tables, score, lock, calls, faults, history>>

Target(w, rank, size) ==
    <<IF rank <= Top THEN Min({w[1] + 1, NumTiers})
      ELSE IF size > Bottom /\ rank > size - Bottom THEN Max({w[1] - 1, 1}) ELSE w[1],
      w[2] + 1>>

ResetNone(users) == total   \* mutant: the counter of the user is not reset
Reset(users)     == [u \in User |-> IF u \in users THEN 0 ELSE total[u]]

\* Everyone moves to the next week of his league, opened if need be, with no
\* XP; the first get a podium; the week is closed.
CloseWeek(p) ==
    LET o == op[p]
        Ranks(u)  == {i \in DOMAIN o.done : o.done[i] = u}
        Goals(u)  == {Target(o.w, i, o.size) : i \in Ranks(u)}
    IN
    /\ o.step = "close" /\ (Len(o.done) >= o.size \/ Page(o) = <<>>)
    /\ state' = [Opened(UNION {Goals(u) : u \in User}) EXCEPT ![o.w] = "closed"]
    /\ xp' = [w \in Week |-> [u \in User |-> IF w \in Goals(u) THEN 0 ELSE xp[w][u]]]
    /\ total' = Reset(Range(o.done))
    /\ podium' = [u \in User |-> [podium[u] EXCEPT ![o.w[2]] =
          IF @ = NoRow /\ \E i \in Ranks(u) : i <= Top THEN 0 ELSE @]]
    /\ settled' = [settled EXCEPT ![o.w] = [u \in User |-> @[u] + Cardinality(Ranks(u))]]
    /\ Goto(p, [step |-> "roll", weeks |-> o.weeks])
    /\ torn' = torn \cup (Members(o.w) \ Range(o.done))
                    \cup {u \in User : \E g \in Goals(u) : state[g] = "closed"}
    /\ UNCHANGED <<now, score, lock, calls, faults, moved, overrun>>

\* The key is deleted only by the run whose token it holds.
Release(p) == lock' = IF lock = p THEN NoProc ELSE lock
RollEnd(p) ==
    /\ op[p].step = "roll" /\ op[p].weeks = {}
    /\ Release(p) /\ Goto(p, NoOp)
    /\ UNCHANGED <<now, tables, score, calls, faults, history>>

-----------------------------------------------------------------------------
(* Faults.                                                                 *)

Fault == faults < MaxFaults /\ faults' = faults + 1

\* A transaction times out: it is rolled back, and the lock is released.
Abort(p) ==
    /\ op[p].step = "close" /\ Fault
    /\ Release(p) /\ Goto(p, NoOp)
    /\ UNCHANGED <<now, tables, score, calls, history>>

\* A process dies: nobody releases its lock.
Die(p) ==
    /\ op[p] # NoOp /\ Fault /\ Goto(p, NoOp)
    /\ UNCHANGED <<now, tables, score, lock, calls, history>>

Running(p) == op[p].step \in {"roll", "close"}
KeyStays ==   \* mutant: the key has no TTL, so that of a dead run stays
    /\ lock # NoProc /\ Running(lock) /\ Fault
    /\ overrun' = TRUE /\ lock' = NoProc
    /\ UNCHANGED <<now, tables, score, op, calls, settled, moved, torn>>
\* The TTL of the key passes, under its holder or after he died.
LockExpires ==
    /\ lock # NoProc
    /\ IF Running(lock) THEN Fault ELSE UNCHANGED faults
    /\ overrun' = (overrun \/ Running(lock)) /\ lock' = NoProc
    /\ UNCHANGED <<now, tables, score, op, calls, settled, moved, torn>>

Tick ==
    /\ now <= LastWeek /\ now' = now + 1
    /\ UNCHANGED <<tables, score, lock, op, calls, faults, history>>

-----------------------------------------------------------------------------

Step(p) ==
    \/ ClaimLocked(p) \/ Credit(p) \/ MirrorRankXp(p) \/ JoinWeek(p) \/ SetRankXp(p) \/ EnsureWarm(p)
    \/ CloseBegin(p) \/ CloseBatch(p) \/ CloseWeek(p) \/ RollEnd(p)

Next ==
    \/ Tick \/ LockExpires
    \/ \E p \in Proc :
         \/ Step(p) \/ RunWeeklyRollover(p) \/ Abort(p) \/ Die(p)
         \/ SeedLeagues(p)
         \/ \E u \in User : \/ Earn(p, u) \/ Join(p, u) \/ View(p, u)
                            \/ \E n \in 1..LastWeek : ClaimPodium(p, u, n)

\* A process that is not dead goes on, keys run out, time passes, and the
\* scheduler starts the job again.
Fairness ==
    /\ WF_vars(Tick) /\ WF_vars(LockExpires)
    /\ \A p \in Proc : WF_vars(Step(p))
    /\ WF_vars(\E p \in Proc : RunWeeklyRollover(p))

Spec == Init /\ [][Next]_vars /\ Fairness
-----------------------------------------------------------------------------
(* Properties.                                                             *)

\* A closed week has moved each of its members exactly once, to the next week of
\* his league or of a neighbour: with one promotion, one reset and one podium
\* (closeWeek). It takes a lock that runs out under the rollover, or XP that
\* changes the ranking between two pages, to do otherwise.
SettledOnce ==
    \A w \in Week \ moved : state[w] = "closed" /\ ~overrun =>
        \A u \in Members(w) \ torn :
            /\ settled[w][u] = 1
            /\ \E t \in Tier \cap (w[1] - 1)..(w[1] + 1) : u \in Members(<<t, w[2] + 1>>)

\* The XP of the Learn screen and the XP of the League screen are the same, for a
\* user of one week: through credits, closings, promotions and enrolments.
WeeklyXpShown ==
    \A u \in User \ torn :
        Cardinality({w \in Week : state[w] = "open" /\ u \in Members(w)}) = 1 /\ Mine(u) # {} =>
            total[u] = xp[CurrentWeek(u)][u]

\* A podium is paid once, however many claims overlap.
PodiumPaidOnce == \A u \in User, n \in 1..LastWeek : podium[u][n] <= 1

\* Who opens his league while nothing else runs sees his own XP, whatever
\* mirroring was lost or overwritten before.
ViewerSeesHisXp ==
    [][\A p \in Proc :
         op[p].step = "view" /\ op'[p] = NoOp /\ op[p].alone /\ op[p].at = calls
         /\ op[p].set = xp[op[p].w] /\ faults' = faults /\ (\A q \in Others(p) : op[q] = NoOp)
         => Shown(score'[op[p].w][op[p].u]) = xp[op[p].w][op[p].u]]_vars

\* The weeks that have ended are in the end all closed, though runs die, time out and
\* leave their lock behind.
EventuallyClosed == Ended # {} ~> Ended = {}
=============================================================================
