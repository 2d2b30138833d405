----------------------------- MODULE Notifications -----------------------------
(***************************************************************************)
(* Push notifications: the tokens of devices, the sending of a push and    *)
(* the disabling of the tokens the provider rejects, the reminders of      *)
(* notifications/reminders.ts under the lock of the job, the pushes about  *)
(* friends and the announcements of the back office.                       *)
(*                                                                         *)
(* Nothing here is a transaction.  op[s] keeps what a request, or one of   *)
(* the two passes of a run of the job, has read.  Users are numbered in    *)
(* the order of their ids.  What the provider answers is free.             *)
(***************************************************************************)
EXTENDS Integers, FiniteSets, Sequences

CONSTANTS NumUsers, Token,
          Request,     \* requests, handlers of events and announcements
          Job,         \* processes of the maintenance command
          Nobody,
          Day,         \* ticks of a day
          Zone,        \* Zone[u]: the ticks by which the clock of u is ahead
          Hours,       \* Hours[u]: the ticks of his day at which an absence is recalled
          Threshold,   \* INACTIVITY_THRESHOLDS_DAYS
          Batch,       \* REMINDER_BATCH
          Segments,    \* the users an announcement may be for
          Owners,      \* who may have the tokens at first
          Since,       \* when the users, who played the day before the first, opened
                       \* the application last
          MaxTime,
          MaxSends,    \* bound on registrations, removals and pushes of requests
          MaxVisits,   \* bound on what users do in the application
          MaxFaults,
          MaxMixed     \* bound on all of these together

User == 1..NumUsers
Time == 0..MaxTime
Pass == {"alert", "away"}
Stage == 0..Len(Threshold)
LocalDay(u, t)  == (t + Zone[u]) \div Day
LocalHour(u, t) == (t + Zone[u]) % Day
Days == UNION {{LocalDay(u, t) : t \in Time} : u \in User}
Never == -1
Prefs == {"streak", "daily", "friends"}

ASSUME NotificationsAssumption ==
    /\ {NumUsers, Day, Batch} \subseteq Nat \ {0}
    /\ {MaxTime, MaxSends, MaxVisits, MaxFaults, MaxMixed} \subseteq Nat
    /\ Zone \in [User -> Nat] /\ Hours \in [User -> SUBSET (0..(Day - 1))]
    /\ Threshold \in Seq(Nat \ {0}) /\ Threshold # << >>
    /\ \A i, j \in DOMAIN Threshold : i < j => Threshold[i] < Threshold[j]
    /\ Nobody \notin User \cup Job /\ IsFiniteSet(Job) /\ Request \cap (Job \X Pass) = {}
    /\ Segments \subseteq SUBSET User
    /\ Since \subseteq Int /\ \A t \in Since, u \in User : LocalDay(u, t) \in {-1, 0}
    /\ Owners \subseteq [Token -> User \cup {Nobody}]

VARIABLES
    now,
    token,    \* token[t]: the account of a DeviceToken, Nobody without a row; disabledAt
    person,   \* person[u]: the columns of User that are read here
    slot,     \* the users whose key friends:push is set
    lock,     \* the key lock:job:reminders
    running,  \* the processes that run the reminders
    op,       \* op[s]: what a request or a pass is doing
    sends, visits, faults,
    alerts,   \* history: alerts[u][d], the streak alerts sent to u for his day d
    aways,    \* history: aways[u][k], the resends, visits of threshold k sent in this absence
    late,     \* history: those alerted about a streak that was lost already
    excused,  \* history: runs that died between a push and its mark, or lost the lock
    mixed,    \* history: those who came back while a pass was about to write to them
    reported, \* history: tokens the provider rejected since they were registered
    raced     \* history: tokens registered again while a push to them was under way

history == <<alerts, aways, late, excused, mixed, reported, raced>>
notificationsVars == <<now, token, person, slot, lock, running, op, sends, visits, faults, history>>

Slot == Request \cup (Job \X Pass)
NoOp == [step |-> "none"]

Person == [prefs : SUBSET Prefs, streak : BOOLEAN, frozen : BOOLEAN, active : Int,
           alert : Days \cup {Never}, seen : Int, stage : Stage]
\* A page holds the users that are due, each with the mark to be written.
Ops == {NoOp}
    \cup [step : {"page", "user", "push", "disable", "mark"}, t : Time, cursor : User \cup {0},
          page : SUBSET (User \X (Days \cup Stage)), tokens : SUBSET Token]
    \cup [step : {"friend"}, u : User]
    \cup [step : {"sync"}, u : User, t : Time, row : Person]

NotificationsTypeOK ==
    /\ now \in Time /\ sends \in 0..MaxSends /\ visits \in 0..MaxVisits /\ faults \in 0..MaxFaults
    /\ token \in [Token -> [user : User \cup {Nobody}, off : BOOLEAN]]
    /\ person \in [User -> Person]
    /\ slot \subseteq User /\ lock \in Job \cup {Nobody} /\ running \subseteq Job
    /\ op \in [Slot -> Ops]

NotificationsInit ==
    /\ now = 0
    /\ \E own \in Owners : token = [t \in Token |-> [user |-> own[t], off |-> FALSE]]
    /\ \E t \in Since :
         person = [u \in User |-> [prefs |-> Prefs, streak |-> TRUE, frozen |-> LocalDay(u, t) = 0,
                                   active |-> -1, alert |-> Never, stage |-> 0, seen |-> t]]
    /\ slot = {} /\ lock = Nobody /\ running = {} /\ op = [s \in Slot |-> NoOp]
    /\ sends = 0 /\ visits = 0 /\ faults = 0
    /\ alerts = [u \in User |-> [d \in Days |-> 0]]
    /\ aways = [u \in User |-> [k \in DOMAIN Threshold |-> 0]]
    /\ late = {} /\ excused = 0 /\ mixed = {} /\ reported = {} /\ raced = {}

Goto(s, o) == op' = [op EXCEPT ![s] = o]
More == sends + visits + faults < MaxMixed
Sends == sends < MaxSends /\ More /\ sends' = sends + 1 /\ UNCHANGED visits
Visit == visits < MaxVisits /\ More /\ visits' = visits + 1 /\ UNCHANGED sends
Idle(r) == op[r] = NoOp

------------------------------------------------------------------------------
(* Tokens: an upsert by token, a deletion by user and token.                *)

ActiveTokens(u) == {t \in Token : token[t] = [user |-> u, off |-> FALSE]}
Held == UNION {op[s].tokens : s \in {s \in Slot : op[s].step \in {"push", "disable"}}}

RegisterToken(u, t) ==
    /\ Sends
    /\ token' = [token EXCEPT ![t] = [user |-> u, off |-> FALSE]]
    /\ reported' = reported \ {t}
    /\ raced' = IF t \in Held THEN raced \cup {t} ELSE raced \ {t}
    /\ UNCHANGED <<now, person, slot, lock, running, op, faults,
                   alerts, aways, late, excused, mixed>>

RemoveToken(u, t) ==
    /\ token[t].user = u /\ Sends
    /\ token' = [token EXCEPT ![t] = [user |-> Nobody, off |-> FALSE]]
    /\ UNCHANGED <<now, person, slot, lock, running, op, faults, history>>

------------------------------------------------------------------------------
(* Sending: sendToUser reads the tokens, posts a message to each, and       *)
(* disables those whose ticket says so.  A post that fails is a ticket of   *)
(* its own ("error"), so that sending throws nothing.                       *)

Sending(ts) == [step |-> "push", t |-> 0, cursor |-> 0, page |-> {}, tokens |-> ts]
\* sendToUser after its checks: without a token there is nothing to do.
Send(r, ts) == IF ts = {} THEN Goto(r, NoOp) ELSE Goto(r, Sending(ts))

\* Support, gifts: pushes that no preference refuses.
SendToUser(r, u) ==
    /\ Idle(r) /\ Sends /\ Send(r, ActiveTokens(u))
    /\ UNCHANGED <<now, token, person, slot, lock, running, faults, history>>

Broadcast(r, A) ==
    /\ Idle(r) /\ Sends /\ Send(r, UNION {ActiveTokens(u) : u \in A})
    /\ UNCHANGED <<now, token, person, slot, lock, running, faults, history>>

\* An event about friends: its handler looks at the preference, then sendToUser takes
\* the slot of five minutes, or gives up.
FriendPush(r, u) ==
    /\ "friends" \in person[u].prefs /\ Idle(r) /\ Sends
    /\ Goto(r, [step |-> "friend", u |-> u])
    /\ UNCHANGED <<now, token, person, slot, lock, running, faults, history>>
AcquireFriendPushSlot(r) ==
    /\ op[r].step = "friend"
    /\ LET u == op[r].u IN
         IF "friends" \in person[u].prefs /\ u \notin slot
         THEN slot' = slot \cup {u} /\ Send(r, ActiveTokens(u))
         ELSE Goto(r, NoOp) /\ UNCHANGED slot
    /\ UNCHANGED <<now, token, person, lock, running, sends, visits, faults, history>>
CooldownEnds(u) ==
    /\ u \in slot /\ slot' = slot \ {u}
    /\ UNCHANGED <<now, token, person, lock, running, op, sends, visits, faults, history>>

\* The user of a page whose turn it is, with his mark.
Turn(page) == CHOOSE x \in page : \A y \in page : x[1] <= y[1]
\* Where a pass goes on: with the next user who is due, with the next page, or nowhere.
Resume(o) == IF o.page # {} THEN [o EXCEPT !.step = "user", !.tokens = {}]
             ELSE IF o.cursor # 0 THEN [o EXCEPT !.step = "page", !.tokens = {}]
             ELSE NoOp
\* What follows a push: the mark of a pass, or nothing.
Sent(o) == IF o.page = {} THEN NoOp ELSE [o EXCEPT !.step = "mark", !.tokens = {}]

\* settleStreak, for someone who owns no freezes and is not premium.
Settle(p, today) ==
    LET missed == today - p.active
    IN IF ~p.streak THEN p
       ELSE CASE missed <= 0 -> [p EXCEPT !.frozen = FALSE]
              [] missed = 1  -> [p EXCEPT !.frozen = TRUE]
              [] missed > 1  -> [p EXCEPT !.streak = FALSE, !.frozen = FALSE]
\* The streak of u, if he opened the application now.
StreakLost(u) == ~Settle(person[u], LocalDay(u, now)).streak

UnrecoverableAll(ticket) == {t \in DOMAIN ticket : ticket[t] # "ok"}   \* mutant: any error
\* isUnrecoverableToken
Unrecoverable(ticket) == {t \in DOMAIN ticket : ticket[t] = "dead"}

Push(s) ==
    /\ op[s].step = "push"
    /\ \E ticket \in [op[s].tokens -> {"ok", "dead", "error"}] :
         LET o == op[s]
             dead == Unrecoverable(ticket)
             rejected == {t \in DOMAIN ticket : ticket[t] = "dead"}
             counts == s \notin Request /\ \E t \in DOMAIN ticket : ticket[t] = "ok"
             to == IF s \in Request THEN <<Nobody, Never>> ELSE Turn(o.page)
             u == to[1]
         IN /\ Goto(s, IF dead = {} THEN Sent(o)
                       ELSE [o EXCEPT !.step = "disable", !.tokens = dead])
            /\ reported' = reported \cup rejected
            /\ alerts' = IF counts /\ s[2] = "alert"
                         THEN [alerts EXCEPT ![u][to[2]] = @ + 1] ELSE alerts
            /\ aways' = IF counts /\ s[2] = "away"
                        THEN [aways EXCEPT ![u][to[2]] = @ + 1] ELSE aways
            /\ late' = IF counts /\ s[2] = "alert" /\ StreakLost(u) THEN late \cup {u} ELSE late
    /\ UNCHANGED <<now, token, person, slot, lock, running, sends, visits, faults,
                   excused, mixed, raced>>

DisableTokens(s) ==
    /\ op[s].step = "disable"
    /\ token' = [t \in Token |-> IF t \in op[s].tokens /\ token[t].user # Nobody
                                 THEN [token[t] EXCEPT !.off = TRUE] ELSE token[t]]
    /\ Goto(s, Sent(op[s]))
    /\ UNCHANGED <<now, person, slot, lock, running, sends, visits, faults, history>>

------------------------------------------------------------------------------
(* The reminders: two passes over the users, page by page, at the same      *)
(* time, under the lock of the job.                                         *)

RunReminders(j) ==
    /\ j \notin running /\ lock = Nobody
    /\ lock' = j /\ running' = running \cup {j}
    /\ op' = [s \in Slot |-> IF s \in {j} \X Pass
                 THEN [step |-> "page", t |-> now, cursor |-> 0, page |-> {}, tokens |-> {}]
                 ELSE op[s]]
    /\ UNCHANGED <<now, token, person, slot, sends, visits, faults, history>>

RemindersEnd(j) ==
    /\ j \in running /\ \A k \in Pass : op[<<j, k>>] = NoOp
    /\ running' = running \ {j} /\ lock' = IF lock = j THEN Nobody ELSE lock
    /\ UNCHANGED <<now, token, person, slot, op, sends, visits, faults, history>>

\* Stage reached: the thresholds that an absence has passed.
Reached(ticks) == Cardinality({i \in DOMAIN Threshold : Threshold[i] * Day <= ticks})

Selected(k, u, t) ==
    /\ ActiveTokens(u) # {}
    /\ CASE k = "alert" -> "streak" \in person[u].prefs /\ person[u].frozen /\ person[u].streak
         [] k = "away"  -> /\ "daily" \in person[u].prefs
                           /\ Reached(t - person[u].seen) > 0 /\ person[u].stage < Len(Threshold)
\* The mark a pass at t writes to u.
Mark(k, u, t) == IF k = "alert" THEN LocalDay(u, t) ELSE Reached(t - person[u].seen)
DueUnmarked(k, u, t) ==   \* mutant: the day of the last alert is not looked at
    \/ k = "alert"
    \/ Reached(t - person[u].seen) > person[u].stage /\ LocalHour(u, t) \in Hours[u]
Due(k, u, t) ==
    CASE k = "alert" -> person[u].alert # LocalDay(u, t)
      [] k = "away"  -> Reached(t - person[u].seen) > person[u].stage
                        /\ LocalHour(u, t) \in Hours[u]

\* A page: the first of those from the cursor on, which is skipped, whether or not it is
\* still selected.
Page(k, t, cursor) ==
    LET rows == {u \in User : Selected(k, u, t) /\ u >= cursor}
        skip == IF cursor = 0 THEN 0 ELSE 1
    IN {u \in rows : Cardinality({v \in rows : v < u}) \in skip..(skip + Batch - 1)}

ReadPage(s) ==
    /\ op[s].step = "page"
    /\ LET t    == op[s].t
           rows == Page(s[2], t, op[s].cursor)
           due  == {u \in rows : Due(s[2], u, t)}
       IN \E last \in rows \cup {0} :
            /\ IF Cardinality(rows) = Batch THEN \A u \in rows : u <= last ELSE last = 0
            /\ Goto(s, Resume([op[s] EXCEPT !.page = {<<u, Mark(s[2], u, t)>> : u \in due},
                                           !.cursor = last]))
    /\ UNCHANGED <<now, token, person, slot, lock, running, sends, visits, faults, history>>

Remind(s) ==
    /\ op[s].step = "user"
    /\ LET ts == ActiveTokens(Turn(op[s].page)[1]) IN
         Goto(s, IF ts = {} THEN Sent(op[s]) ELSE [op[s] EXCEPT !.step = "push", !.tokens = ts])
    /\ UNCHANGED <<now, token, person, slot, lock, running, sends, visits, faults, history>>

Syncing(u) == {r \in Request : op[r].step = "sync" /\ op[r].u = u}

WriteMark(s) ==
    /\ op[s].step = "mark"
    /\ LET u == Turn(op[s].page)[1]
           m == Turn(op[s].page)[2]
       IN /\ person' = [person EXCEPT ![u] = IF s[2] = "alert" THEN [@ EXCEPT !.alert = m]
                                             ELSE [@ EXCEPT !.stage = m]]
          /\ mixed' = IF s[2] = "away" /\ Syncing(u) # {} THEN mixed \cup {u} ELSE mixed
    /\ Goto(s, Resume([op[s] EXCEPT !.page = @ \ {Turn(@)}]))
    /\ UNCHANGED <<now, token, slot, lock, running, sends, visits, faults,
                   alerts, aways, late, excused, reported, raced>>

------------------------------------------------------------------------------
(* What a user does: he opens the application (syncUserState), which        *)
(* settles his streak and ends his absence; he plays; he changes his        *)
(* preferences.                                                             *)

SyncedOnly(p, u, t) ==   \* mutant: the stage of the last absence is kept
    [Settle(p, LocalDay(u, t)) EXCEPT !.seen = IF t > @ THEN t ELSE @]
Synced(p, u, t) == [Settle(p, LocalDay(u, t)) EXCEPT !.stage = 0, !.seen = IF t > @ THEN t ELSE @]

Open(r, u) ==
    /\ Idle(r) /\ Visit /\ Goto(r, [step |-> "sync", u |-> u, t |-> now, row |-> person[u]])
    /\ UNCHANGED <<now, token, person, slot, lock, running, faults, history>>

\* The pass s has read u and is not through with him.
Reads(s, u) == op[s] # NoOp /\ \E x \in op[s].page : x[1] = u

\* Only the columns that differ from what was read are written.
SyncUserState(r) ==
    /\ op[r].step = "sync"
    /\ LET o == op[r]
           new == Synced(o.row, o.u, o.t)
       IN /\ person' = [person EXCEPT ![o.u] =
                          [c \in DOMAIN @ |-> IF new[c] # o.row[c] THEN new[c] ELSE @[c]]]
          /\ aways' = [aways EXCEPT ![o.u] = [k \in DOMAIN Threshold |-> 0]]
          /\ mixed' = CASE \E j \in Job : Reads(<<j, "away">>, o.u) -> mixed \cup {o.u}
                      [] OTHER -> IF person'[o.u].stage = 0 THEN mixed \ {o.u} ELSE mixed
    /\ Goto(r, NoOp)
    /\ UNCHANGED <<now, token, slot, lock, running, sends, visits, faults,
                   alerts, late, excused, reported, raced>>

\* A completed lesson, of which Learner has the details.
Play(u) ==
    /\ Visit
    /\ person' = [person EXCEPT ![u].streak = TRUE, ![u].frozen = FALSE,
                                ![u].active = LocalDay(u, now)]
    /\ UNCHANGED <<now, token, slot, lock, running, op, faults, history>>

Toggled(p, k) == [p EXCEPT !.prefs = IF k \in @ THEN @ \ {k} ELSE @ \cup {k}]
\* The preferences of reminders and of pushes about friends: written, not synchronised.
UpdatePrefs(u, k) ==
    /\ Visit /\ person' = [person EXCEPT ![u] = Toggled(@, k)]
    /\ UNCHANGED <<now, token, slot, lock, running, op, faults, history>>

------------------------------------------------------------------------------
(* Faults: a process dies, and its key stays until it runs out; the key     *)
(* runs out under a process that is slow.                                   *)

Fault == faults < MaxFaults /\ More /\ faults' = faults + 1

Die(j) ==
    /\ j \in running /\ Fault
    /\ running' = running \ {j}
    /\ op' = [s \in Slot |-> IF s \in {j} \X Pass THEN NoOp ELSE op[s]]
    /\ excused' = excused + 1
    /\ UNCHANGED <<now, token, person, slot, lock, sends, visits, alerts, aways, late, mixed,
                   reported, raced>>
LockExpires ==
    /\ lock # Nobody /\ lock' = Nobody
    /\ IF lock \in running THEN Fault /\ excused' = excused + 1 ELSE UNCHANGED <<faults, excused>>
    /\ UNCHANGED <<now, token, person, slot, running, op, sends, visits, alerts, aways, late, mixed,
                   reported, raced>>
ClockTicks ==
    /\ now < MaxTime /\ now' = now + 1
    /\ UNCHANGED <<token, person, slot, lock, running, op, sends, visits, faults, history>>

------------------------------------------------------------------------------

Step(s) == \/ Push(s) \/ DisableTokens(s)
           \/ s \notin Request /\ (ReadPage(s) \/ Remind(s) \/ WriteMark(s))
RequestStep(r) == AcquireFriendPushSlot(r) \/ SyncUserState(r)

NotificationsNext ==
    \/ ClockTicks \/ LockExpires
    \/ \E s \in Slot : Step(s)
    \/ \E j \in Job : RunReminders(j) \/ RemindersEnd(j) \/ Die(j)
    \/ \E r \in Request :
          \/ RequestStep(r)
          \/ \E u \in User : SendToUser(r, u) \/ FriendPush(r, u) \/ Open(r, u)
          \/ \E A \in Segments : Broadcast(r, A)
    \/ \E u \in User : \/ CooldownEnds(u) \/ Play(u)
                       \/ \E t \in Token : RegisterToken(u, t) \/ RemoveToken(u, t)
                       \/ \E k \in Prefs : UpdatePrefs(u, k)

NotificationsFairness ==
    /\ WF_notificationsVars(ClockTicks) /\ WF_notificationsVars(LockExpires)
    /\ \A s \in Slot : WF_notificationsVars(Step(s))
    /\ \A j \in Job : WF_notificationsVars(RemindersEnd(j))
    /\ WF_notificationsVars(\E j \in Job : RunReminders(j))

NotificationsSpec ==
    NotificationsInit /\ [][NotificationsNext]_notificationsVars /\ NotificationsFairness
------------------------------------------------------------------------------
(* Properties.                                                              *)

\* A user is alerted about his streak once a day, and recalled once per threshold of
\* an absence, except for one more for each run that died before it had marked what
\* it sent, or went on after its lock had run out (reminders.ts: "idempotent per
\* local day", "one push per threshold").
RemindedOnce ==
    \A u \in User : /\ \A d \in Days : alerts[u][d] <= 1 + excused
                    /\ \A k \in DOMAIN Threshold : aways[u][k] <= 1 + excused

\* Whoever came back is recalled again from the first threshold on: the stage written
\* is never ahead of his absence, unless he came back while a pass had read his row.
\* (Then the stage of the old absence is written over the reset, and the recalls up to
\* it are skipped: reminders.ts writes the stage without looking again.)
StageFits == \A u \in User \ mixed : person[u].stage <= Reached(now - person[u].seen)

\* A device is cut off from pushes only if the provider rejected its token, for the
\* registration it has now, or it registered while a push was under way: whatever
\* pushes, registrations and removals overlap (disableTokens writes by token).
DisabledWasReported == \A t \in Token : token[t].off => t \in reported \cup raced

\* reminders.ts:4 says that alerts go to those whose streak is about to break. A streak
\* stays marked as frozen until its owner opens the application: the alert comes again
\* each day, long after the streak was lost.
AlertsInTime == late = {}

Overdue(u) ==
    /\ "daily" \in person[u].prefs /\ ActiveTokens(u) # {}
    /\ person[u].stage < Reached(now - person[u].seen)
\* Whoever is away and wants to be recalled is, though a page skips a user when the one
\* at its cursor is no longer selected, and runs die.
EventuallyReminded == \A u \in User : Overdue(u) ~> ~Overdue(u)
=============================================================================
