------------------------------ MODULE Challenge ------------------------------
(***************************************************************************)
(* Challenges between friends: modules/challenges/challenges.service.ts    *)
(* (create, accept, decline, leave, cancel) and challenges.progress.ts     *)
(* (activation, progress, end, winners, rewards).                          *)
(*                                                                         *)
(* The HTTP handlers, the outbox handler of `lesson.completed` and the     *)
(* maintenance job run at the same time.  Most of them read rows first and *)
(* write later: each such operation is here a request `r` that keeps in    *)
(* op[r] what it has read, and writes in a later step.  `lock` is the row  *)
(* lock taken by SELECT ... FOR UPDATE on the Challenge.                   *)
(*                                                                         *)
(* Times are ticks.  All challenges share the window StartsAt..EndsAt and  *)
(* the target, counted in sourates mastered or in days in a row.           *)
(***************************************************************************)
EXTENDS Integers, Sequences, FiniteSets, FiniteSetsExt

CONSTANTS Challenge, User,
          Request,    \* slots for operations in progress
          JobRequest, \* the slot of the maintenance job
          Snapshot,   \* TRUE for sourates: work done before the activation is excluded
          Target,     \* the goal: sourates, or days in a row
          WeeklyCap,  \* challengeRewardedPerWeek
          StartsAt, EndsAt,
          MaxNow,     \* bound on time
          MaxWork,    \* bound on the sourates of a user
          MaxNudged,  \* bound on the participants nudged within a day
          MaxAborts,  \* bound on the requests that die
          Nobody, Never

ASSUME ChallengeAssumption ==
    /\ JobRequest \in Request
    /\ Snapshot \in BOOLEAN
    /\ Target \in Nat \ {0} /\ WeeklyCap \in Nat
    /\ StartsAt \in Nat /\ EndsAt \in Nat /\ StartsAt < EndsAt
    /\ MaxNow \in Nat /\ MaxWork \in Nat
    /\ MaxNudged \in Nat /\ MaxAborts \in Nat
    /\ Nobody \notin User \cup Request
    /\ Never \notin Nat

VARIABLES
    now,
    status,     \* status[c], "absent" before its creation
    creator,
    member,     \* member[c][u]: ChallengeParticipant.status, "none" without a row
    progress,   \* ChallengeParticipant.progress
    reachedAt,  \* ChallengeParticipant.reachedAt
    base,       \* ChallengeParticipant.baselineSourates
    winners,    \* Challenge.winnerIds
    nudged,     \* nudged[c]: those whose lastNudgedAt is less than a day old
    paid,       \* paid[c][u]: reasons of the ledger rows (u, c)
    work,       \* work[u]: sourates mastered by u, or days of activity, inside the window
    lock,       \* lock[c]: the request holding the row lock of c
    op,         \* op[r]: what r is doing and what it has read
    aborts      \* requests that died

chalVars == <<status, creator, winners, nudged>>
rowVars  == <<member, progress, reachedAt, base>>
vars     == <<now, chalVars, rowVars, paid, work, lock, op, aborts>>

Closed == {"completed", "cancelled"}
Time   == 0..MaxNow
Unit   == IF Snapshot THEN 1..MaxWork ELSE StartsAt..EndsAt
NoOp   == [kind |-> "none"]

\* Nobody progresses by more than there is to do inside the window.
Progress == 0..Cardinality(Unit)

\* The participants a refresh has still to do, with the row it has read.
Rows == UNION {[S -> [progress : Progress, reachedAt : Time \cup {Never}]] : S \in SUBSET User}

Ops ==
    {NoOp}
    \cup [kind : {"accept", "decline", "cancel", "nudge"}, c : Challenge, u : User]
    \cup [kind : {"leave"}, c : Challenge, u : User, seen : {"pending", "active"}]
    \cup [kind : {"activate"}, c : Challenge, accepted : SUBSET User]
    \cup [kind : {"refresh"}, c : Challenge, at : Time, rows : Rows,
          u : User \cup {Nobody}, value : Progress]
    \cup [kind : {"finish"}, c : Challenge, winners : SUBSET User, eligible : SUBSET User]
    \cup [kind : {"pay"}, c : Challenge, winners : SUBSET User, payees : SUBSET User]

TypeOK ==
    /\ now \in Time
    /\ status \in [Challenge -> {"absent", "pending", "active"} \cup Closed]
    /\ creator \in [Challenge -> User \cup {Nobody}]
    /\ winners \in [Challenge -> SUBSET User]
    /\ nudged \in [Challenge -> SUBSET User]
    /\ member \in [Challenge -> [User ->
           {"none", "invited", "accepted", "declined", "left", "expired"}]]
    /\ progress \in [Challenge -> [User -> Progress]]
    /\ reachedAt \in [Challenge -> [User -> Time \cup {Never}]]
    /\ base \in [Challenge -> [User -> SUBSET Unit]]
    /\ paid \in [Challenge -> [User -> Seq({"win", "complete"})]]
    /\ work \in [User -> SUBSET Unit]
    /\ lock \in [Challenge -> Request \cup {Nobody}]
    /\ op \in [Request -> Ops]
    /\ aborts \in 0..MaxAborts

Init ==
    /\ now = 0
    /\ status = [c \in Challenge |-> "absent"]
    /\ creator = [c \in Challenge |-> Nobody]
    /\ winners = [c \in Challenge |-> {}]
    /\ nudged = [c \in Challenge |-> {}]
    /\ member = [c \in Challenge |-> [u \in User |-> "none"]]
    /\ progress = [c \in Challenge |-> [u \in User |-> 0]]
    /\ reachedAt = [c \in Challenge |-> [u \in User |-> Never]]
    /\ base = [c \in Challenge |-> [u \in User |-> {}]]
    /\ paid = [c \in Challenge |-> [u \in User |-> <<>>]]
    /\ work = [u \in User |-> {}]
    /\ lock = [c \in Challenge |-> Nobody]
    /\ op = [r \in Request |-> NoOp]
    /\ aborts = 0

With(r, o) == op' = [op EXCEPT ![r] = o]
Done(r)    == With(r, NoOp)

FreeWithoutLock(c) == TRUE   \* mutant: no FOR UPDATE

\* SELECT ... FOR UPDATE on the challenge waits for whoever holds its row.
Free(c) == lock[c] = Nobody

InState(c, s) == {u \in User : member[c][u] = s}

ForgetInvited(c) == member[c]   \* mutant: invitations stay open

ExpireInvited(c) ==
    [u \in User |-> IF member[c][u] = "invited" THEN "expired" ELSE member[c][u]]

-----------------------------------------------------------------------------
(* The handlers of challenges.service.ts *)

\* create: the window starts the next day, so always in the future.
Create(c, u, invitees) ==
    /\ status[c] = "absent"
    /\ now < StartsAt
    /\ invitees # {} /\ u \notin invitees
    /\ status' = [status EXCEPT ![c] = "pending"]
    /\ creator' = [creator EXCEPT ![c] = u]
    /\ member' = [member EXCEPT ![c] = [v \in User |->
                    IF v = u THEN "accepted"
                    ELSE IF v \in invitees THEN "invited" ELSE "none"]]
    /\ UNCHANGED <<now, winners, nudged, progress, reachedAt, base, paid, work, lock, op, aborts>>

AcceptRead(r, c, u) ==
    /\ op[r] = NoOp
    /\ status[c] = "pending" /\ now < StartsAt
    /\ member[c][u] = "invited"
    /\ With(r, [kind |-> "accept", c |-> c, u |-> u])
    /\ UNCHANGED <<now, chalVars, rowVars, paid, work, lock, aborts>>

\* The write is conditional on the participant's row, not on the challenge.
AcceptWrite(r) ==
    /\ op[r].kind = "accept"
    /\ LET c == op[r].c  u == op[r].u
       IN  member' = IF member[c][u] = "invited"
                     THEN [member EXCEPT ![c][u] = "accepted"] ELSE member
    /\ Done(r)
    /\ UNCHANGED <<now, chalVars, progress, reachedAt, base, paid, work, lock, aborts>>

DeclineRead(r, c, u) ==
    /\ op[r] = NoOp
    /\ status[c] = "pending"
    /\ member[c][u] = "invited"
    /\ With(r, [kind |-> "decline", c |-> c, u |-> u])
    /\ UNCHANGED <<now, chalVars, rowVars, paid, work, lock, aborts>>

\* Unconditional.
DeclineWrite(r) ==
    /\ op[r].kind = "decline"
    /\ member' = [member EXCEPT ![op[r].c][op[r].u] = "declined"]
    /\ Done(r)
    /\ UNCHANGED <<now, chalVars, progress, reachedAt, base, paid, work, lock, aborts>>

\* leave decides on the status read BEFORE it takes the lock.
LeaveRead(r, c, u) ==
    /\ op[r] = NoOp
    /\ status[c] \in {"pending", "active"}
    /\ member[c][u] = "accepted"
    /\ ~(status[c] = "pending" /\ creator[c] = u)
    /\ With(r, [kind |-> "leave", c |-> c, u |-> u, seen |-> status[c]])
    /\ UNCHANGED <<now, chalVars, rowVars, paid, work, lock, aborts>>

LeaveWrite(r) ==
    /\ op[r].kind = "leave"
    /\ Free(op[r].c)
    /\ LET c == op[r].c
           stillIn == InState(c, "accepted") \ {op[r].u}
       IN  /\ member' = [member EXCEPT ![c][op[r].u] = "left"]
           /\ status' = IF /\ op[r].seen = "active"
                           /\ Cardinality(stillIn) < 2
                           /\ status[c] = "active"
                        THEN [status EXCEPT ![c] = "cancelled"] ELSE status
    /\ Done(r)
    /\ UNCHANGED <<now, creator, winners, nudged, progress, reachedAt, base, paid, work, lock, aborts>>

CancelRead(r, c, u) ==
    /\ op[r] = NoOp
    /\ status[c] = "pending" /\ creator[c] = u
    /\ With(r, [kind |-> "cancel", c |-> c, u |-> u])
    /\ UNCHANGED <<now, chalVars, rowVars, paid, work, lock, aborts>>

\* The update of the challenge waits for its row lock, then re-checks pending.
CancelWrite(r) ==
    /\ op[r].kind = "cancel"
    /\ Free(op[r].c)
    /\ LET c == op[r].c
       IN  IF status[c] = "pending"
           THEN /\ status' = [status EXCEPT ![c] = "cancelled"]
                /\ member' = [member EXCEPT ![c] = ExpireInvited(c)]
           ELSE UNCHANGED <<status, member>>
    /\ Done(r)
    /\ UNCHANGED <<now, creator, winners, nudged, progress, reachedAt, base, paid, work, lock, aborts>>

\* nudge reads the cooldown of the participant, then starts it again.  The push
\* is stored by a transaction of its own.
NudgeRead(r, c, u, v) ==
    /\ op[r] = NoOp
    /\ status[c] \in {"pending", "active"}
    /\ member[c][u] # "none" /\ member[c][v] = "accepted"
    /\ v \notin nudged[c] /\ Cardinality(nudged[c]) < MaxNudged
    /\ With(r, [kind |-> "nudge", c |-> c, u |-> v])
    /\ UNCHANGED <<now, chalVars, rowVars, paid, work, lock, aborts>>

NudgeWrite(r) ==
    /\ op[r].kind = "nudge"
    /\ nudged' = [nudged EXCEPT ![op[r].c] = @ \cup {op[r].u}]
    /\ Done(r)
    /\ UNCHANGED <<now, status, creator, winners, rowVars, paid, work, lock, aborts>>

-----------------------------------------------------------------------------
(* activateDueChallenges: one transaction, that reads the participants and  *)
(* then writes; the accept and decline requests do not wait for its lock.   *)

ActivateBegin(r, c) ==
    /\ op[r] = NoOp
    /\ status[c] = "pending" /\ now >= StartsAt
    /\ Free(c)
    /\ lock' = [lock EXCEPT ![c] = r]
    /\ With(r, [kind |-> "activate", c |-> c, accepted |-> InState(c, "accepted")])
    /\ UNCHANGED <<now, chalVars, rowVars, paid, work, aborts>>

ActivateCommit(r) ==
    /\ op[r].kind = "activate"
    /\ LET c == op[r].c
           acc == op[r].accepted
           start == Cardinality(acc) >= 2
           reset(f, v) == IF start THEN [u \in User |-> IF u \in acc THEN v[u] ELSE f[c][u]]
                          ELSE f[c]
       IN  /\ status' = [status EXCEPT ![c] = IF start THEN "active" ELSE "cancelled"]
           /\ member' = [member EXCEPT ![c] = ExpireInvited(c)]
           /\ base' = [base EXCEPT ![c] =
                         reset(base, IF Snapshot THEN work ELSE [u \in User |-> {}])]
           /\ progress' = [progress EXCEPT ![c] = reset(progress, [u \in User |-> 0])]
           /\ reachedAt' = [reachedAt EXCEPT ![c] = reset(reachedAt, [u \in User |-> Never])]
           /\ lock' = [lock EXCEPT ![c] = Nobody]
    /\ Done(r)
    /\ UNCHANGED <<now, creator, winners, nudged, paid, work, aborts>>

-----------------------------------------------------------------------------
(* refreshChallengeProgress, then finishChallenge: the handler of           *)
(* lesson.completed (one user), reading a challenge and the job (all).      *)

\* `at` is the caller's `now`, taken before it looks for challenges.
RefreshRead(r, c, who, at) ==
    /\ op[r] = NoOp
    /\ status[c] = "active"
    /\ at <= now
    /\ With(r, [kind |-> "refresh", c |-> c, at |-> at,
                rows |-> [u \in InState(c, "accepted") \cap who |->
                            [progress |-> progress[c][u], reachedAt |-> reachedAt[c][u]]],
                u |-> Nobody, value |-> 0])
    /\ UNCHANGED <<now, chalVars, rowVars, paid, work, lock, aborts>>

NextParticipant(r, u) ==
    With(r, [op[r] EXCEPT !.rows = [v \in DOMAIN @ \ {u} |-> @[v]],
                          !.u = Nobody, !.value = 0])

\* longestStreakInWindow: days in a row, the window being that of `work'.
LongestStreak(days) ==
    Max({0} \cup {n \in 1..Cardinality(days) : \E d \in days : d..(d + n - 1) \subseteq days})

\* sourateProgressCount: those of the goal mastered since the start that were
\* not mastered when the challenge was activated.
SourateProgressCount(mastered, baseline) == Cardinality(mastered \ baseline)

EarnedSinceEver(c, u) == Cardinality(work[u])   \* mutant: the baseline is ignored

\* computeParticipantProgress.
Earned(c, u) ==
    IF Snapshot THEN SourateProgressCount(work[u], base[c][u]) ELSE LongestStreak(work[u])

\* What is computed is written later, and only if it changes the row read.
Compute(r, u) ==
    /\ op[r].kind = "refresh" /\ op[r].u = Nobody
    /\ u \in DOMAIN op[r].rows
    /\ LET value == Earned(op[r].c, u)
           row   == op[r].rows[u]
       IN  IF value = row.progress /\ (value < Target \/ row.reachedAt # Never)
           THEN NextParticipant(r, u)
           ELSE With(r, [op[r] EXCEPT !.u = u, !.value = value])
    /\ UNCHANGED <<now, chalVars, rowVars, paid, work, lock, aborts>>

WriteProgress(r) ==
    /\ op[r].kind = "refresh" /\ op[r].u # Nobody
    /\ LET c == op[r].c  u == op[r].u  value == op[r].value
       IN  /\ progress' = [progress EXCEPT ![c][u] = value]
           /\ reachedAt' = IF value >= Target /\ op[r].rows[u].reachedAt = Never
                           THEN [reachedAt EXCEPT ![c][u] = op[r].at] ELSE reachedAt
           /\ NextParticipant(r, u)
    /\ UNCHANGED <<now, chalVars, member, base, paid, work, lock, aborts>>

Reached(c, u) == progress[c][u] >= Target

\* determineWinners: the earliest of those who reached the target, a missing
\* time counting as the latest; failing any, the best progress above zero.
DetermineWinners(c, accepted) ==
    LET reached == {u \in accepted : Reached(c, u)}
        noLater(u, v) == reachedAt[c][v] = Never
                         \/ (reachedAt[c][u] # Never /\ reachedAt[c][u] <= reachedAt[c][v])
    IN  IF reached # {}
        THEN {u \in reached : \A v \in reached : noLater(u, v)}
        ELSE {u \in accepted : /\ progress[c][u] > 0
                               /\ \A v \in accepted : progress[c][v] <= progress[c][u]}

MayFinishFirst(r, c) ==   \* mutant: over as soon as one has reached the target
    /\ status[c] = "active"
    /\ op[r].at >= EndsAt \/ \E u \in InState(c, "accepted") : Reached(c, u)
MayFinishTwo(r, c) ==     \* mutant: two participants required at the deadline too
    /\ status[c] = "active"
    /\ Cardinality(InState(c, "accepted")) >= 2
    /\ op[r].at >= EndsAt \/ \A u \in InState(c, "accepted") : Reached(c, u)

\* At the deadline, or as soon as all the participants have reached the target.
MayFinish(r, c) ==
    LET accepted == InState(c, "accepted")
    IN  /\ status[c] = "active"
        /\ \/ op[r].at >= EndsAt
           \/ Cardinality(accepted) >= 2 /\ \A u \in accepted : Reached(c, u)

\* finishChallenge locks the challenge, reads its rows and decides who won and
\* who may be rewarded.
FinishBegin(r) ==
    /\ op[r].kind = "refresh" /\ DOMAIN op[r].rows = {}
    /\ LET c == op[r].c
           accepted == InState(c, "accepted")
           won == DetermineWinners(c, accepted)
       IN  /\ Free(c)
           /\ MayFinish(r, c)
           /\ lock' = [lock EXCEPT ![c] = r]
           /\ With(r, [kind |-> "finish", c |-> c, winners |-> won,
                       eligible |-> IF Cardinality(accepted) < 2 THEN {}
                                    ELSE {u \in accepted : u \in won \/ Reached(c, u)}])
    /\ UNCHANGED <<now, chalVars, rowVars, paid, work, aborts>>

RewardsThisWeek(u) == Cardinality({c \in Challenge : paid[c][u] # <<>>})

\* It then counts the rewards of the week, committed ones only.  `friends` are
\* those with a friendship of 24 h with another participant, {} when rewards
\* are switched off or the challenge is too short.
FinishPay(r) ==
    /\ op[r].kind = "finish"
    /\ LET c == op[r].c
       IN  \E friends \in SUBSET op[r].eligible :
             With(r, [kind |-> "pay", c |-> c, winners |-> op[r].winners,
                      payees |-> {u \in friends : /\ RewardsThisWeek(u) < WeeklyCap
                                                  /\ paid[c][u] = <<>>}])
    /\ UNCHANGED <<now, chalVars, rowVars, paid, work, lock, aborts>>

FinishNothing(r) ==
    /\ op[r].kind = "refresh" /\ DOMAIN op[r].rows = {}
    /\ Free(op[r].c)
    /\ ~MayFinish(r, op[r].c)
    /\ Done(r)
    /\ UNCHANGED <<now, chalVars, rowVars, paid, work, lock, aborts>>

FinishCommit(r) ==
    /\ op[r].kind = "pay"
    /\ LET c == op[r].c
       IN  /\ status' = [status EXCEPT ![c] = "completed"]
           /\ winners' = [winners EXCEPT ![c] = op[r].winners]
           /\ paid' = [paid EXCEPT ![c] = [u \in User |->
                 IF u \notin op[r].payees THEN paid[c][u]
                 ELSE Append(paid[c][u],
                             IF u \in op[r].winners THEN "win" ELSE "complete")]]
           /\ lock' = [lock EXCEPT ![c] = Nobody]
    /\ Done(r)
    /\ UNCHANGED <<now, creator, nudged, rowVars, work, aborts>>

-----------------------------------------------------------------------------

\* A request dies (crash, lost connection, timeout): its transaction rolls back.
Abort(r) ==
    /\ op[r] # NoOp
    /\ aborts < MaxAborts
    /\ aborts' = aborts + 1
    /\ lock' = [c \in Challenge |-> IF lock[c] = r THEN Nobody ELSE lock[c]]
    /\ Done(r)
    /\ UNCHANGED <<now, chalVars, rowVars, paid, work>>

\* A sourate mastered or a day of activity inside the window; what is done
\* outside it counts for nobody.
Lesson(u) ==
    /\ StartsAt <= now /\ now <= EndsAt
    /\ LET unit == IF Snapshot THEN Cardinality(work[u]) + 1 ELSE now
       IN  /\ unit \in Unit \ work[u]
           /\ work' = [work EXCEPT ![u] = @ \cup {unit}]
    /\ UNCHANGED <<now, chalVars, rowVars, paid, lock, op, aborts>>

\* A tick is a day.
Tick ==
    /\ now' = IF now < MaxNow THEN now + 1 ELSE now
    /\ nudged' = [c \in Challenge |-> {}]
    /\ UNCHANGED <<status, creator, winners, rowVars, paid, work, lock, op, aborts>>

Proceed(r) ==
    \/ AcceptWrite(r) \/ DeclineWrite(r) \/ LeaveWrite(r) \/ CancelWrite(r) \/ NudgeWrite(r)
    \/ ActivateCommit(r)
    \/ (\E u \in User : Compute(r, u)) \/ WriteProgress(r)
    \/ FinishBegin(r) \/ FinishNothing(r) \/ FinishPay(r) \/ FinishCommit(r)

\* A user's request: the handlers, the lazy settlement of a page, and the
\* outbox handler of one of the user's lessons.
UserRequest(r, c, u) ==
    \/ AcceptRead(r, c, u) \/ DeclineRead(r, c, u)
    \/ LeaveRead(r, c, u) \/ CancelRead(r, c, u)
    \/ \E v \in User : NudgeRead(r, c, u, v)
    \/ ActivateBegin(r, c)
    \/ \E at \in Time : RefreshRead(r, c, User, at)
    \/ /\ member[c][u] \in {"accepted", "left"}
       /\ \E at \in Time : RefreshRead(r, c, {u}, at)

\* The job finishes the challenges whose end has come.
JobStart(c) ==
    \/ ActivateBegin(JobRequest, c)
    \/ \E at \in Time : at >= EndsAt /\ RefreshRead(JobRequest, c, User, at)

Next ==
    \/ \E c \in Challenge, u \in User, S \in SUBSET User : Create(c, u, S)
    \/ \E r \in Request \ {JobRequest}, c \in Challenge, u \in User : UserRequest(r, c, u)
    \/ \E c \in Challenge : JobStart(c)
    \/ \E r \in Request : Proceed(r) \/ Abort(r)
    \/ \E u \in User : Lesson(u)
    \/ Tick

Spec == Init /\ [][Next]_vars

\* Time passes, what has started goes on or dies (MaxAborts times at most), and
\* the job keeps coming back to every challenge that is due.
Fairness ==
    /\ WF_vars(Tick)
    /\ \A r \in Request : WF_vars(Proceed(r))
    /\ \A c \in Challenge : SF_vars(JobStart(c))

FairSpec == Spec /\ Fairness

-----------------------------------------------------------------------------
(* Properties *)

\* The life of a challenge, whatever the requests, the outbox handler and the
\* job do at the same time: it starts and ends at most once, its winners and
\* its rewards are fixed by the one step that completes it, nobody is paid
\* twice for it nor paid as a winner without being one, and what is over never
\* changes again (transition of challengeRules.ts, doc of finishChallenge).
Life == INSTANCE ChallengeLife WITH reward <- paid
ImplementsLife == Life!Spec

\* Progress is recomputed from the lessons, never invented: however late a
\* refresh writes what it had computed, a participant is never credited with
\* more than the work done since the baseline was taken.
ProgressIsEarned ==
    \A c \in Challenge, u \in User :
        progress[c][u] > 0 => progress[c][u] <= Cardinality(work[u] \ base[c][u])

\* A challenge completed before its deadline was over for everybody: each
\* participant really had done the target, although refreshes, departures and
\* the end are decided by different requests.
EarlyEndMeansAllDone ==
    [][\A c \in Challenge :
          status[c] = "active" /\ status'[c] = "completed" /\ now < EndsAt =>
              \A u \in InState(c, "accepted") : Cardinality(work[u] \ base[c][u]) >= Target]_vars

\* No invitation stays open once a challenge has started or is cancelled, not
\* even one answered while the challenge was starting.
NobodyLeftInvited ==
    \A c \in Challenge : status[c] \notin {"absent", "pending"} => InState(c, "invited") = {}

\* What the comment of leave says: a running challenge that falls below two
\* participants is cancelled.
ActiveHasTwo ==
    \A c \in Challenge :
        status[c] = "active" => Cardinality(InState(c, "accepted")) >= 2

\* Every challenge ends, by the job alone if need be: started or cancelled
\* when its start has come, completed or cancelled when its end has.
EventuallyClosed ==
    \A c \in Challenge : status[c] # "absent" ~> status[c] \in Closed
=============================================================================
