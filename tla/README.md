# Verification of the Tarteel backend

The repository is the server of an application for learning the Quran: a
Fastify API over PostgreSQL (Prisma), with Redis for locks and caches, a
maintenance command run by cron, and payment and push services outside.
This directory models its concurrent parts in TLA+, checks them with TLC on
small instances and proves what matters most with TLAPS.

Paths below are relative to `src/src/` of the repository.

## 1. Inventory

Two kinds of process change the database: the API server (any number of
requests at once, possibly several instances) and the maintenance command
(`jobs/maintenance.ts`). They share nothing but PostgreSQL and Redis. Within
one process every `await` is a point where another request may run; between
processes every database call is. Transactions are READ COMMITTED, so a
transaction that reads and then writes is not atomic unless it takes a row lock
or writes conditionally. `PROJECT.json` lists every component; these carry the
state that several actors change. Content is written by a third kind of process,
the scripts of `prisma/`, which an operator starts by hand.

| Component | State | Operations | Talks to | What is hard | What must hold |
|---|---|---|---|---|---|
| Outbox, `core/outbox.ts` | `DomainEvent` rows | enqueue, claim, process, mark done or failed, purge | written by every social module, drained by the API and by the job | leases that expire under a slow worker, crashes, failing handlers, two processes with different handlers | at-least-once delivery, at most five attempts, each accounted for |
| Challenges, `modules/challenges` | `Challenge`, `ChallengeParticipant`, gem ledger | create, accept, decline, leave, cancel, nudge, activate, refresh, finish | lessons through the outbox, the job, pages that settle lazily | reads before the row lock, refreshes that overlap, end at the deadline | one start, one end, winners and rewards fixed then, progress earned |
| Billing, `modules/billing` | `Transaction`, premium dates, gems | start a payment, webhook paid or failed | Stripe and DexPay, household, gem wallet | repeated and overlapping webhooks, a crash between two writes | what is paid is served, and once |
| Gem wallet, `modules/gems` | `User.gems`, ledger | spend, credit | billing, challenges, leagues | concurrent spends | balance equals ledger, never negative |
| Household, `modules/household` | household, members, invitations | invite, accept, leave, transfer, subscribe, expire | `recomputePremium` of `core/household.ts` | capacity counted before insertion, renewal against expiry | capacity, one household per user, premium follows membership |
| Accounts and sessions, `modules/auth` | verification codes, reset links, refresh tokens | register, verify, resend, login, refresh, logout, reset, ban | mail, back office | two refreshes of one token, a lost answer or mail, a ban during a refresh, overlapping sends of codes | a client keeps its session, one live token per login, nobody is locked out |
| Leagues, `modules/leagues` | league weeks, memberships, weekly XP | join, add XP, weekly rollover | lessons, rewards, `core/lock.ts` | rollover under a lock with a TTL, XP earned meanwhile | each week closed once, XP neither lost nor counted twice |
| Friends, `modules/friends` | friendships, invitations, blocks, reports | request, accept, remove, block, report, invite by code or link | outbox, messages, challenges | limits counted before writing, uses of a link | limits, symmetric blocks, bounded uses |
| Messages, `modules/messages` | messages, daily quotas | send, hide, read | outbox | quota read before it is consumed, two transactions | quotas |
| Referral, `modules/referral` | referrer, code, hearts | create a code, redeem one | hearts | cap counted before the others commit, two row locks | every referrer is served, up to the cap |
| Hearts, `core/hearts.ts` | `User.hearts`, anchor | lose, regenerate, refill | lessons, profile, gems, gifts | many read-modify-writes | no heart lost or invented |
| Lessons, streak, rewards | progress, activity days, chest, goal | answer, complete, claim | all of the above | writes computed from a row read before, boundaries of days | each thing is rewarded once |
| Content, `prisma/*.ts` | verses, sections, lessons, steps | import, translate, seed, generate | the lessons everything else is about | scripts without transactions, stopped and started again, while learners learn | the lessons teach the verses that are there |
| Notifications, `modules/notifications` | device tokens, slots of pushes, marks of reminders | register, remove, push, disable, two passes of reminders | push provider, outbox, the page `me`, `core/lock.ts` | a crash between a push and its mark, marks computed from a row read before, pages over rows that change, tokens that move | each reminder once, an absence starts again from the first, a device is cut off only when rejected |
| Back office, `modules/adminAuth` | accounts, sessions, permissions | log in, refresh, log out, change a password, invite, permit | the script of the owner | two refreshes of one token, a password changed meanwhile, two grids written at once | one session per login, a password ends the sessions, permissions as given |
| Revision and achievements | cursors, intervals, achievements | review, advance, record | lessons through the outbox | cursors read and written without a lock, overlapping handlers of one event | guided revision stays behind what is learned, mastery is recorded |

The wording of notifications, the serving of content, audio and legal pages,
support threads, the HTTP layer and the speech service keep no state that two actors
contend for; they are listed as not modelled. The hazards found while reading
are in `PROJECT.json`, each at its line.

## 2. Modules

| Module | Role |
|---|---|
| `EventDelivery` | abstract: at-least-once delivery with bounded attempts |
| `Outbox` | `core/outbox.ts`, implements `EventDelivery` |
| `DeliveryProofs` | the theorems about `Outbox`, and about `Notifications` |
| `ChallengeLife` | abstract: life of a challenge |
| `Challenge` | `challenges.service.ts` and `challenges.progress.ts`, implements `ChallengeLife` |
| `ChallengeProofs` | the theorems about `Challenge` |
| `Payments` | `billing.service.ts`, the webhooks, `spendGems` |
| `OfficeProofs` | the theorems about `Payments`, and about `Backoffice` |
| `Household` | `household.service.ts`, `core/household.ts`: members, invitations, family plan, effective premium |
| `HouseholdProofs` | the theorems about `Household` |
| `Sessions` | `auth.service.ts`: rotation of refresh tokens, logout, ban, new password |
| `Accounts` | extends `Sessions`: registration, verification codes, reset links |
| `AccountsProofs` | the theorems about `Accounts` and `Sessions` |
| `Friends` | `friends.service.ts`: requests, invitations, blocks, reports, moderation |
| `Messages` | extends `Friends`: `messages.service.ts` with its two quotas |
| `SocialProofs` | the theorems about `Friends` and `Messages` |
| `League` | `modules/leagues`, `core/lock.ts`, podium claims, the seed of the leagues |
| `LeagueProofs` | the theorems about `League` |
| `Learner` | the row of a user: hearts, streak, gems, lessons, rewards, referral, back office |
| `LearnerProofs` | the theorems about `Learner`, and about `Study` |
| `Content` | the scripts of `prisma/` and what lessons are made of |
| `Study` | extends `Content`: progress, achievements, revision over these lessons |
| `Notifications` | `modules/notifications`: device tokens, pushes, reminders, announcements |
| `Backoffice` | `modules/adminAuth`, `prisma/seedBackoffice.ts`: sessions, passwords, permissions of the team |
| `MCOutbox`, `MCChallenge`, `MCPayments`, `MCHousehold`, `MCSessions`, `MCSocial`, `MCLeague`, `MCLearner`, `MCStudy`, `MCNotifications`, `MCBackoffice` | instances for TLC |

Four modules compose components that interact: `Accounts` (an account and its
sessions), `Messages` (messages between friends and blocked users), `Study` (a
learner over content that is rewritten), `Learner` (all that writes one row).
`Challenge`, `Study` and `Messages` hand events to the outbox; each takes what
`Outbox` and `EventDelivery` show of it as its actions: a handler may run several
times, and an event may leave the outbox with none having run. Only in `Study`
does a property depend on the event, so only there is its loss an action
(`LeaveUnhandled`).

Everywhere a handler that reads and then writes outside a transaction or a row
lock is one action that reads and one for each write, and what it read is kept
in a record of the request (`op[r]`, `req[p]`). A transaction that starts by
locking the row it is about is one action.

### Outbox

`stored`, `attempts`, `claimAge`, `processed` are the row (`claimAge` stands
for `claimedAt`: how long ago, with everything past the lease as one value).
`pc`, `rounds`, `ticket`, `step` are the locals of a worker, one
call of `drainOutbox` or `processEventNow`. `ticket[w][e]` is the number of the
attempt `w` makes on `e`: what `attempts` became when it claimed it. `ran`,
`lost`, `doneIn` are history and no guard reads them.

The claim is one transaction with `FOR UPDATE SKIP LOCKED`, hence one action
(`ClaimBatch`, `ProcessEventNow`). Every handler is a step (`RunHandler`); a
handler, or `markDone`, may throw (`Throw`), after which `markFailed` writes
(`MarkFailed`) or fails in its turn (`MarkFailedThrows`). `MarkDone` and
`MarkFailed` write by id alone, as the code does. `Crash` loses the locals of
a worker at any point. `Process` and `Registered` say which process a worker
lives in: `app.ts` imports the handler modules, `jobs/maintenance.ts` imports
none, so that for it `Process` is empty and every event it takes is marked at once;
`EventDelivery` calls that `Discard`, and allows it only if there is a job. A worker slot that is idle may start again, so a slot stands for any
number of calls one after the other.

### Challenge

Each handler that reads and then writes outside a row lock is two actions, with
what it read kept in `op[r]`: `AcceptRead`/`AcceptWrite`,
`DeclineRead`/`DeclineWrite`, `LeaveRead`/`LeaveWrite`,
`CancelRead`/`CancelWrite`, `RefreshRead`/`Compute`/`WriteProgress` per
participant. The two transactions under the row lock are split as well, because
other requests write the participants' rows without that lock: `ActivateBegin`,
`ActivateCommit`; `FinishBegin`, `FinishPay`, `FinishCommit`. `lock[c]` is that
row lock. `UserRequest` is what a request of a user may start, including the
settlement of a page and the outbox handler of `lesson.completed`; `JobStart`
is the job, which has a slot of its own because its passes run one at a time
under `withLock`.

`work[u]` is the set of what counts: surahs mastered inside the window, or days
of activity, of which `LongestStreak` is the longest run; a tick is a day.
`Snapshot` tells the two types apart: with it, surahs mastered before the
activation (`base`) do not count. `NudgeRead`/`NudgeWrite` is a nudge, `nudged`
those who were nudged less than a day ago; its event is left to `Outbox`.

Abstractions. All challenges share one window. The baseline is taken when the
activation commits; the code reads it moments before. The weekly cap counts the
rewards of all the challenges of the model. Friendship of 24 hours, length of
the challenge and the switch of the rewards are one free choice in `FinishPay`.
Ranks and the quotas of creation are left out.

### Payments

One account, four types of payment. `Subscribe`, `BuyGems`, `BuyHearts` and
`BuyRepair` create the transaction under the conditions of each; `OpenSession`
is the second step of `startPayment`. `Settle` is what the provider tells the
webhook. A webhook call is a slot `d`: it finds the transaction pending
(`WebhookPaid`), then applies a pack (`CreditGems`), a refill or a repair
(`Effect`) in one transaction, or makes the separate writes of a subscription
(`Extend`, `RecomputeRead`, `RecomputeWrite`, `Close`). It may die between any
two (`Crash`). `WebhookFailed` is `markTransactionFailed`, a single conditional
update. `Spend` is any sink of gems, `Play` what makes a refill or a repair of
use. Dates are counted in months sold and do not expire; a session is terminal
at the provider; signatures, prices and currencies are left out. The effect of a
family plan is `Activate` of `Household`.

### Sessions and Accounts

One account. No database call of `auth.service.ts` shares a transaction with
another, so each is an action: `RefreshRead`, `RefreshReplacement` (only in the
grace period), `RefreshUser`, `Mint`, `Rotate`. A login is `Login`, `Mint`; a
logout by token is `LogoutToken`, `LogoutWrite`; a ban or a new password is
`BeginCut`, `RevokeAll`, which is also the logout of all devices. Tokens are
numbered as they are minted; `revoked` is the age of `revokedAt`, with all ages
beyond the grace period as one. The client is external: it keeps the last token
it was given, sends one request at a time, may stop waiting (`LoseAnswer`, after
which the request may still go on), and signs out when it is refused. `losses`,
`strays`, `ended` and `logins` are history for the properties.

`Accounts` puts the account before it: `Register`, `CreateUser`; the sending of
a code or a link in three steps, `Invalidate`, `CreateSecret`, `Mail`, the last
of which may fail; `Verify`, `VerifyUser`, `VerifyCode`, then `Miss` or `Burn`
and `Confirm`; `ConfirmReset`, `UseLink`, then `RevokeAll`. Secrets expire
(`Expire`). The network does not reorder mails. `verifyEmail` is always called
with a device, and the codes of a verified account are forgotten. Expiry of
refresh tokens after 90 days is left out.

### Household

Every operation of the service is an action that reads and decides (`InviteRead`,
`AcceptRead`, `RemoveRead`, ...) and one per write or transaction (`InviteWrite`,
`AcceptWrite`, `RemoveMember`, ...); the reads of one operation are taken
together. After the write, `Recompute` queues the users whose premium is
recomputed, one after the other, each a read (`RecomputeRead`) and a write
(`RecomputeWrite`). `SyncRead` is the same from `GET /me`. The rows are deleted
and updated by id, so `row[u].id` counts the rows `u` has had. A plan of a month
or a year is one tick. `PersonalRead` and `Personal` are the effect of a paid
personal plan, so that the two sources of premium meet; the payment itself is in
`Payments`. Not modelled: the deletion of an account, the promotion for all, the
grants and revocations of the back office.

When requests overlap, this component promises little: places may be passed by
one for each overlapping acceptance, a transfer that overlaps a departure leaves
an owner without a row, and an old premium may be written over a new one until
the user opens the application again. So `SerialPremium` and `SerialHousehold`
speak of requests that did not overlap, in any order.

### Friends and Messages

A friendship is one row for a pair of users; `id` tells it from the row the pair
had before, since accepting, declining and removing write by the id that was
read. `agreed` is history: those who asked, accepted or showed their code since
the row was created. Blocking, using an invitation and hiding are sequences of
separate writes (`Block`, `Unfriend`, `Revoke`; `AcceptInvite`, `IncrementUse`,
`ReadPair`, `Join`; `UpdateSettings`, `Hide`), and a request may die between any
two. `Moderate` is the back office. `disturbed` is history: requests overlapped
or one died; the limits that the code counts before it writes are promised only
without that. A day is a tick. `Messages` adds the sending to several friends
(`Send`, `CreateMessages`, `TellRecipients`), reading and hiding.

### League

Week `n` runs from tick `n` to `n + 1`. Every credit of XP is a read under the
user's row lock and a commit (`Earn`, `Credit`), then the mirror in Redis
(`MirrorRankXp`), which a crash may drop; `View` and `EnsureWarm` repair what a
viewer sees. `Join`, `JoinWeek`, `SetRankXp` enrol a user, `SeedLeagues` the
demo account. The rollover takes the lock (`RunWeeklyRollover`), closes week
after week (`CloseBegin`, `CloseBatch` per page, `CloseWeek` the commit) and
releases it (`RollEnd`); the key may run out (`LockExpires`), a transaction time
out (`Abort`), a process die (`Die`). `ClaimPodium`, `ClaimLocked` claim a
reward. XP is a count of credits; the gems and the event of a promotion belong
to the transaction of `CloseWeek`. The restart of the numbers of weeks at the
end of the year is left out.

### Learner

`row[u]` has the columns that hearts, streak, gems, lessons, rewards, referral
and the back office read and write. What runs under the row lock is one action
(`RefillHearts`, `ClaimDailyChest`, ...). The others are a `Begin`, which keeps
the row as read and the time of the request, and later writes from that: `sync`
(GET /me), `answer`, `complete`, `regain`, `grant`, `revoke`, `repair`, `code`
and `redeem`, which holds the row of the new account while it waits for that of
the referrer. Time counts regenerations of a heart, `DayTicks` of them a day.
Prices are one gem; XP and its doubling are not counted. Steps of a lesson are
not told apart: an answer costs a heart, or it does nothing.

### Content and Study

A script has no transaction. `script` is what it has left to do: batches, of
pipelines that run at the same time, of tasks, one write each. `Crash` drops
it, `Retry` starts the current part over, and a script may be started again;
scripts run one at a time. `GroupVerses`, `GroupSteps` and the step builders are
the pure functions of `lessonBuilder.ts` and `generateAlphabet.ts`, with a verse
as its number of words and its languages, and a step as its type. `fresh` and
`divided` are history: sections generated since the content last changed, and
surahs whose lessons a script changed.

`Study` adds one learner: `CompleteLesson` (the order check and the transaction in one
step; replays are left out), `Onboard`, the handlers of `lesson.completed`
(`Detect`, `Record`, `RecordSection`), `LeaveUnhandled`, guided revision (`GetGuided`, `AdvanceGuided`, `WriteGuided`) and
spaced revision (`ListSegments`, `ListLettres`, `ReviewItem`, `WriteReview`). Due
dates and the verdict of a recitation are left out.

`LeaveUnhandled` takes an event away unhandled: the maintenance job drains it with
no handler registered (`Discard` in `EventDelivery`, the finding of the run
`outbox_job_done`), or its last attempt failed. The attempts are not counted here:
the job may take an event at any attempt, so a count would allow nothing less.
Nothing else records a mastered surah (`achievements.service.ts` only reads), so
it then stays unrecorded. `dropped` remembers the surahs this concerns, those
that were owed when an event of theirs was lost; `MasteryRecorded` is silent on
them and says that there is no other way to lose one.

### Notifications

Nothing here is a transaction. `token[t]` is the row of a device, `person[u]`
the columns that reminders read and write, `slot` the keys that limit pushes
about friends, `lock` and `running` the lock of the job. `op[s]` is what a
request is doing, or one of the two passes of a run of the job, `alert` and
`away`: a pass selects a page (`ReadPage`), and for each of its users reads the
tokens (`Remind`), pushes (`Push`), disables what was rejected (`DisableTokens`)
and writes the mark (`WriteMark`). `RunReminders`, `RemindersEnd`, `LockExpires`
and `Die` are the run and its lock. `SendToUser`, `Broadcast` and `FriendPush`,
then `AcquireFriendPushSlot`, lead to the same `Push`. The page keeps
the users that are due, each with the mark computed from the row as it was read.
The answers of the provider are free. A user plays, opens the application
(`sync`, a read and a write), changes his preferences, or loses his streak.
`alerts`, `aways`, `late`, `excused`, `mixed`, `reported` and `raced` are
history. Freezes, premium and bans are left out (banned users are not selected);
a batch of 100 messages is one post.

### Backoffice

`op[r]` is what a request has read and the call of the repository it makes next.
A password is a number, its version; a row of permissions carries the call that
wrote it. `replacePermissions` is a transaction of two statements under READ
COMMITTED, so two of them may interleave. The script of the owner is one more
request (`Seed`, `SeedDelete`, `SeedCreate`). `Login` and `Refresh` lead to
`IssueTokens`, a refresh then to `Rotate`; `SetPassword` to `UpdatePassword` and
`RevokeAll`; `UpdatePermissions` to `ReplaceDelete` and `ReplaceCommit`. `cuts`, `uncut`, `doubled`, `given` and `left` are history. Expiry of
tokens, `disabledAt`, which no code sets, and the log of activity are left out.

## 3. Runs

| Run | Instance | Shows |
|---|---|---|
| `outbox` | 2 events, an API worker and the job, 2 handlers, 2 attempts, fair | `AttemptsAccounted`, `OneWorkerPerAttempt`, `ServerDoneMeansHandled`, `EventuallySettled`, and that it implements `EventDelivery` |
| `outbox_job_done` | the same, 1 handler | violated: `ProcessedMeansHandled` |
| `challenge` | 2 users, a request and the job, surahs, a nudge, an abort, rewards, fair | `ProgressIsEarned`, `NobodyLeftInvited`, `EarlyEndMeansAllDone`, `EventuallyClosed`, and that it implements `ChallengeLife` |
| `household` | 3 users, 2 households, 2 invitations, up to 4 more requests after the first subscription and acceptance, the job, 3 ticks | `SerialPremium`, `SerialHousehold` |
| `sessions` | an account, a device with two logins, two requests, two codes and a link, two faults, one cut | `LastCodeOpens`, `NoGhostSessions`, `ClientKeepsSession` |
| `payments` | two payments of any types, two calls, one crash, two sinks, fair | `BalanceIsLedger`, `SuccessMeansServed`, `PaidIsServed` |
| `social` | 3 users, 2 overlapping requests, 3 in all, an invitation, 2 days | `Consented`, `InviteWithinUses`, `LimitsKept`, `BlockedApart`, `MessagesAccounted` |
| `league` | 2 users, 2 leagues, 2 processes, 2 requests and the rollover, one fault, fair | `SettledOnce`, `WeeklyXpShown`, `PodiumPaidOnce`, `ViewerSeesHisXp`, `EventuallyClosed` |
| `learner` | a player and three accounts that redeem codes, 2 overlapping requests, 3 in all, 3 days, a cap of 2 referrals | `TypeOK`, `PaidOnce`, `ReferrerServed` |
| `study` | 2 surahs in 2 hizbs, up to 3 scripts, one crash or retry, a learner with 2 workers | `LessonsMatchVerses`, `MasteryRecorded`, `GuidedNeverAhead` |
| `notifications` | a user with a device, 2 processes of the job, days of two ticks, a visit, a fault, 2 pushes or moves of the device | `RemindedOnce`, `StageFits`, `DisabledWasReported` |
| `backoffice` | the owner and a member, 2 modules, 2 requests at once, 4 in all, 3 tokens | `OneSessionPerLogin`, `ChangeEndsSessions`, `PermissionsAsGiven` |

### Where the code and its comments differ

One run shows the gravest: `outbox_job_done`. The maintenance command processes
no event; it marks each one processed without a handler, though two comments say
that it handles them. The others have a property in their module, and a
configuration that lists it alone, over the instance of the module's run unless
said otherwise, shows the difference:

* `AlertsInTime` (`Notifications`; one process, days of one tick): a streak is
  announced as about to break when it is lost already
  (`reminders.ts:4-5` says that it is one missed day). Only a visit of its owner
  takes the mark of a frozen streak away.
* `LogoutEnds` (`Backoffice`, two requests in all): the route of the logout has no
  handler that reads who is logged in, so a logout of one device or of all revokes
  nothing and is answered as if it had (`adminAuth.routes.ts:35` says that it
  revokes).
* `ActiveHasTwo` (`Challenge`): `leave` decides on the status it read before
  taking the lock; overlapping the activation, it leaves a running challenge
  with one participant.
* `ExpiresOnlyExpired` (`Household`, two requests at once, one call): the expiry job switches off a family plan that
  was renewed since the job listed it.
* `ServedOnce` (`Payments`): a payment may be served twice by overlapping calls
  of its webhook.
* `MasteryAwaited` (`Study`): an event that the job drains, or that is given up,
  takes with it the record of a mastered surah; `lesson.service.ts:400` says that
  the job handles it. It is what `outbox_job_done` leads to.
* `GuidedOffersLearned` (`Study`): `revision.service.ts:61-67` says that the
  chain is built from completed lessons; once the cursor has reached the last of
  them, the next lesson is offered, learned or not.

Seen while modelling, with no property: `markFailed` of a worker that is late
clears the lease of another one, so a third claim is possible during a lease
(`outbox.ts:70-72` says that a lease excludes the others). `core/streak.ts:135` says that the day
is rewarded at most once, but a synchronisation that overlaps a lesson puts
`lastActivity` back and the day counts again (`PaidOnce` leaves that reward
out). The schema says that one code is active at a time per user: two sends that
overlap leave two. The nudge is documented as once per friend, challenge and 24
hours: the date is one per target, whoever nudges, and two nudges that overlap
both pass. `seed.ts:20-22` says that progress survives, but the steps of the
first lesson are deleted and created anew. The first-run branch of `seedLeagues`
enrols the demo account although it may be in another open week.
`onboardingStart.ts:73-77` does not hold for Al-Fatiha, which is taught in the
alphabet and again in its hizb; its guided chain mixes the two by `ordre`.
`revokeGrantedPremium` looks at the payments before it writes, so a payment in
between is wiped. Two requests of a first referral code that overlap both write:
the code shown first is replaced. Two repairs ordered for one broken streak are
both paid, and the second restores nothing. A crash between the two writes of a
verification (`auth.service.ts:212`) uses the code up without opening the
account: only a resend recovers. `nextWeekOf` takes the next week as it is: a
rollover that is late moves members into a week that is closed already
(`WeeklyXpShown` leaves them out). The pages of the reminders skip the row of
their cursor, which skips a user when that row is no longer selected. The schema
says that the log of the back office has every logout; it has none, for the
reason above.

### Bounds and why they are enough

* Two events and batches of two: an event that waits behind another in the
  batch, and one claimed by another worker meanwhile. Two workers are the
  smallest number that can contend, and a slot is reused, so a third party is
  the same slot again: one in each process, so that they differ by their handlers.
  Two handlers: one has run and the next throws. Two attempts: one retry, then the
  limit. The theorems cover two workers of one process.
* `LeaseLen = 0`: one tick ends a lease. Only the order of the expiry and the
  worker's steps matters, and the tick may come between any two of them.
* `MaxRounds` 1 (2 in `outbox_job_done`) instead of 100: the drain ends by an empty
  batch or by the bound, both reached.
* Challenges: window 1..2, time 0..2 has a before, a during and an after.
  `Target = 1`, one surah per user: reached or not, and mastered before the
  activation, where it must not count. Two users: the creator and one invited, who
  accepts, declines, leaves or lets it be. One abort: a transaction that fails and
  is tried again by the next pass. Of the streak type only `ProgressIsEarned`
  differs; it holds with two users, a request, the job and a streak of two days
  (`Snapshot = FALSE`, `Target = 2`, `MaxWork = 2`), and the theorems cover it, and
  three users, as everything else. One challenge only: two would matter for the
  weekly cap, which no property covers.
* Payments: two calls can overlap on one payment or run on two, of any pair of
  types; one crash leaves one subscription half-way and the other call free.
  `MaxMonths` is never reached with two payments, two calls and one crash.

* Household: the model starts once a household is paid for and has a second
  member, a state the first three requests lead to. Two places, so that it is
  full; with three users one is outside, or starts a second household. Four more
  requests are enough for a departure, an invitation, its acceptance and a
  transfer, or for a deletion and a new start.
* Sessions: two requests overlap after a time-out; two losses in a row are one
  more than the grace period covers; four tokens are two logins and two
  rotations, or a login, a rotation lost, its replay and one more. One device:
  devices share nothing but the revocation of all tokens, which does not look
  at the device. `Grace = 0`: a replay comes before the tick or after it. Two
  codes: one replaces the other or overlaps it; one link. `MaxMixed` bounds
  secrets, faults and cuts together by three: a code, its resend and a crash or
  a loss; a code and two faults; a code, a link and its new password.
* Social: three users are two and one who befriends, blocks or invites one of
  them meanwhile. All limits are one or two, so that a request meets them. Three
  requests are a state, and two that overlap on it, or a block, its end and what
  follows; the model starts with two friends or with an invitation.
* League: two users and pages of one row, so that a page boundary falls between
  them; two rivals in one league, or one at the top and one in none. One closed
  week and the next. Two requests and one fault beside the rollover.
* Learner: one heart of three at first (a loss to none, a gain below the maximum
  and one that reaches it), days of one regeneration, three of them: a day missed,
  a day saved by a freeze, a break. Two hearts of review a day, so that nothing but
  the mark of the session refuses a second claim of it. Three requests, two of them
  overlapping.
  With four accounts a referrer has up to three filleuls, one more than the cap of
  two: the redemptions of one code overlap and do not count each other, the last
  is past the cap, or passes it; and two accounts redeem each other's code and
  deadlock. `FewRedeem` explores several redemptions by themselves, before anything
  else has happened: what else requests write changes neither the count nor the cap.
* Study: two surahs, one of them taught twice; a long verse and two short ones,
  of which the words decide the steps. Scripts alone run up to three times with
  a fault, the learner alone makes four requests; together they make two
  (`MaxMixed`).
* Notifications: one user and one device are enough for what two processes and a
  request do to him. Two thresholds, days of two ticks: a push on the day and the
  next, before and after the hour of recalls. Two sends are a push and a
  registration that overtakes it.
* Back office: the owner and one member, and grids of one module out of two, so
  that two grids differ in a row that is deleted and one that is created. Two
  requests overlap; four are a login, two refreshes and a change. Three tokens
  are one more than a login and its refresh.

Users, requests and calls of one kind are symmetric; the runs that check only
invariants use it, the runs with a liveness property do not.

### Fairness

* Outbox: time passes; a worker that runs goes on (weak fairness: nothing in a
  process blocks it); the cron starts the job again and again, and strong
  fairness of the job's claim says that it does not die each time before its
  first query. Nothing is assumed of the API process: its drains may never start, and
  one that started may stop anywhere.
* Challenge: time passes; a request goes on or dies (`TX_OPTIONS` bounds each
  transaction), weakly fair; the job is strongly fair for each challenge, since
  its slot is busy with another challenge or a row lock is held now and then,
  but not for ever. `MaxAborts` bounds the failures.
* League: time passes, the key of a lock runs out, a process that is not dead
  goes on, and the scheduler starts the rollover again and again. Faults are
  bounded; nothing is assumed of the requests.
* Payments: a call that started goes on or dies, a bounded number of times,
  below the five deliveries of the provider; it repeats a call that failed.

## 4. Proofs

Each theorem holds for all values of the constants that satisfy the assumption
its module states. The assumptions ask for naturals where something is counted,
for values that stand for nobody or never to be no user and no date, and for
finite sets of users or requests where their number is counted; a limit is at
least one where the code has it so (`MaxMembers` at least two). No proof assumes
fairness, nor anything of the order of requests.

A module of proofs may be about two components that share no state; each has its
own invariant there. The theorems state 35 of the properties that runs check.

`DeliveryProofs` proves, of `Outbox`:

* `TypeCorrect`: `TypeOK` is an invariant.
* `AttemptsNeverVanish`, `AttemptsAreExclusive`, `ServerDeliversWhole`: the
  three safety invariants of the run `outbox`.
* `OutboxImplementsDelivery`: the outbox implements `EventDelivery`, with any workers
  of both processes.

The inductive invariant `IInv` strengthens these. A ticket is never above
`attempts`, which is why a new claim, numbered `attempts + 1`, cannot be held
by anyone (`OneWorkerPerAttempt`) and why no attempt is unaccounted for at the
moment it is counted. A worker at handler `n` has run all the earlier ones in
its current attempt (needed for `ServerDoneMeansHandled`, and for the order of
effects in the abstract specification). A worker that is idle or claiming holds
nothing, so that a claim does not overwrite a ticket. An event not written is
not processed. Each kind of step has a lemma (`QuietInv`, `TakeBatchInv`,
`RunHandlerInv`, `LetGoInv`, `CrashInv`); `NextInv` puts them together and PTL
concludes. `StepRefines` maps claims to `Try`, handlers to `Apply`, `MarkDone`
to `Deliver` in the API process and to `Discard` in the job (or to a stutter, when the
row is already processed), purge and deletion to `Remove`, and all else to stutters.
`RowsMarked` is what this needs of the rows: one that some worker marked is processed,
so that it is not claimed again.

Of `Notifications` it proves `NotificationsTypeCorrect`, `RemindersOnce`
(`RemindedOnce`), `StagesFitAbsences` (`StageFits`) and
`DisabledTokensWereReported` (`DisabledWasReported`), from `NotificationsInv`.

* `Accounted`: for each user and mark, the reminders sent and the runs without the
  lock that may still send one (`Owed`) are no more than the runs that died or
  outlived their lock, and one more once the run that has the lock, or the
  mark in the row, excludes another (`Done`). A push by the run with the lock
  makes `Done` true, a push by another takes it from those owed; losing the lock
  moves a run to those owed and is excused.
* `MarksFit`: the mark a pass computed from the row it read is within the absence of
  its user, as absences only grow, unless he came back meanwhile (`mixed`).
* `TokensReported`: what a pass or a push will disable was rejected, or was
  registered again meanwhile (`raced`).
* `PassesFormed`: what a pass has read of its page and of a user hangs together.

`ChallengeProofs` proves `TypeCorrect`, `ProgressEarned`, `InvitationsClosed`,
`EarlyEnd` and `ChallengeImplementsLife`, that is all that the run `challenge`
checks but `EventuallyClosed`. `OpSound` says what a request may rely on. The transactions that
activate, end and pay hold the row lock, and the status they found under it
stays, since every other write of the status waits for that lock. A decision to
end stays right: either the end has come, or the work of the participants only
grows, and no participant is added to a challenge that runs. A progress that was
computed and not yet written is at most what has been done, which gives
`ProgressIsEarned`; `RowsSound` (no progress before the activation, no reward
before the end) is what the abstract specification needs.

`OfficeProofs` proves, of `Payments`, `TypeCorrect`, `PaymentsServed`
(`SuccessMeansServed`) and `BalanceKept` (`BalanceIsLedger`). The invariant says
where each write of a call comes: whatever is served in one transaction is
marked in it (`PacksServed`, `OneShotServed`), and a subscription is marked only
after the writes that serve it (`PremiumServed`), which needs `ExtendedFirst`: a
call past its first write has made it. As calls for one payment share what they
have written, a call that repeats another, or takes over from one that died,
finds the order kept. `RequestInv`, `PlayInv`, `CallInv`, `OneTransactionInv`
and `SubscriptionInv` are the kinds of steps. The ledger is a set of rows, numbered as
they come (`Numbered`), so that a credit adds one row that was not there, and the
balance is a product of its cardinality: no induction over data is needed.

Of `Backoffice` it proves `LoginsKeepOneSession` (`OneSessionPerLogin`),
`NewPasswordEndsSessions` (`ChangeEndsSessions`) and `PermissionsAreGiven`
(`PermissionsAsGiven`), from `OfficeInv`. `OneAtATime` counts for each login the
sessions that live and the requests that are about to open one: together no more
than one, and one more for each refresh that crossed another use of its token. A
refresh moves its session from one side to the other, and a logout only takes
away. `SessionsKnow` keeps with each session, and with each request that
will open one, the password it was opened under: it is the present one, or a change
came since or is under way. For the permissions, each call of
`replacePermissions` gives under a number of its own (`Numbers`), and a
call that has seen the last gift has seen the rows as they are (`WritersSaw`), so
that what it deletes and creates amounts to its grid.

`HouseholdProofs` proves `TypeCorrect` for requests that overlap in any way, and
`PremiumsRecomputed`, `HouseholdsSound` for requests that do not.
`CallsCounted` bounds rows and dates by the calls that began, a row by one call
and a date by one payment. `Serial` is the invariant of the rest: as long as
nothing overlapped, what the request decided still holds (`Decided`), every user
has the premium he is entitled to or is one whose premium the request will still
compute (`Settled`, `Awaiting`), and each household has one owner and its
capacity, but for the moment between its creation and the row of its owner.
Time may pass between any two steps: an entitlement that ends is not current any
more on both sides.

`AccountsProofs` proves `SessionsCounted` (`NoGhostSessions`), `CodeOpens`
(`LastCodeOpens`) and `SessionsKept` (the action property `ClientKeepsSession`). `Accounted` counts for each device the live tokens, those
that requests given up by the client may still mint, and what the request it
awaits may add (`Due`): the sum never passes the logins and the requests given
up. A refresh counts for the token it mints, less the one it retires unless
another request has retired that one first. It needs
`TokensOwned` (the tokens a request names are those of its device) and
`AwaitsItsOwn`. `SecretInv` gives the other: a secret whose send was alone is
the newest (`AloneIsNewest`), and before the address is verified no request has
a token to mint (`NoTokenYet`).

`KeepInv` is what an honest client needs of the server: unless its session was ended
or it gave a request up, the token it holds is live, or, after one answer lost,
was retired by a rotation whose successor is live (`InHand`), and no logout under
way is about to retire either (`Unended`). What the request it awaits has
read (`Reading`) names these tokens, so that a rotation retires no other, and a
refusal comes only where the grace period has passed (`Answered`). The steps of
other requests leave the tokens of a device alone (`Spares`), because a
request names tokens of its own device only (`TokensOwned`).

`SocialProofs` proves `TypeCorrect`, `FriendsConsented`, `InvitesLimited`,
`FriendLimitsKept`, `BlocksHold` and `MessagesCounted` (`MessagesAccounted`). Requests name a row by the id they read:
`RowsSound` says that the row of a pair has the last id given out, so that a
request about an earlier row finds none (`NotOwn`), and whoever accepts is not
the one who asked. `UsesCounted` counts the uses of an invitation against the
requests that spent one and have not yet made their row (`Spending`).
`Undisturbed` is what one request at a time keeps: what it checked before it
writes still holds, and a block without its removal is one under way.
`QuotasCount` says that a quota is the number of a set, the messages of its day, to
which a sending adds one position of each sequence; `Sending`, that with one
request at a time what `send` checked of both quotas still holds when it writes,
and that a message has its event or a request is about to store it.

`LeagueProofs` proves `TypeCorrect`, `PodiumsPaidOnce`, `XpShownOnce`
(`WeeklyXpShown`), `WeeksSettledOnce` (`SettledOnce`) and `ViewIsRight`
(`ViewerSeesHisXp`), with one invariant each on top of the types.

* `PInv`: a process about to credit holds the row of its user and tested the
  podium under that lock (`ClaimedUnderLock`), and no other process credits the
  same user meanwhile (`OneCreditor`); the closing of a week creates podiums
  only where there is none. The lock of the rollover plays no part: the theorem
  holds when it runs out.
* `XInv`: who is in one open week has there the XP of his total, who is in none
  has none (`OneCounter`).
* `SInv`: as long as no run outlived its key there is one run (`OneRun`), the week
  it closes is open and unsettled (`NotYet`, `Unsettled`), and the pages it has
  read are the head of the ranking, if the ranking has not moved (`Reading`).
  So at the commit every member is listed once. `RankedIs` shows that the ranking
  exists and lists each member once, by counting who is ahead of whom.
* `VInv`: while nothing was requested since a view that began alone, the view
  has written the score of its user or found it right.

`LearnerProofs` proves, of `Learner`, `TypeCorrect`, `RewardsPaidOnce` (`PaidOnce`) and
`ReferrersServed`. `TInv` bounds every counter of a row, and of every row that a
request has read, by the calls that have ended: a request that will write back
an old row cannot take a counter past the bound. `LInv` ties the ledger to the
marks: each reward paid has left its mark on a row or a session (`Spent`), marks
are never taken away, and a reward is paid where there is no mark. For the
referrer: a redemption that waits holds the row of its account (`Held`), and its
count of those before it misses none that has committed (`Counting`).

Of `Study` it proves `MasteryKept` (`MasteryRecorded`) and `GuidedKept`
(`GuidedNeverAhead`), whatever the content and the scripts that write it.

* `MasteryInv`: the events that wait and those that handlers hold are of completed
  lessons; a handler that will record a surah found all of it learned; and a surah
  that is owed is recorded, or has lost an event since, or has an event that waits
  and that no handler has gone past. Nothing takes progress back: a script that deletes a lesson with its
  progress changes the division of its surah, about which nothing is said
  any more (`divided`). An event lost before its surah was owed excuses nothing: the
  event of the last lesson is still to come.
* `GuidedInv`: the cursors, and those that requests have computed and not
  written, are within what is learned (`Within`), which only grows
  (`LearnedGrows`): a cursor written late was right when it was computed.
  `GuidedKept` assumes `LessonsFinite`, that the lessons of a surah are finitely many
  at the start: blocks of content are recursive functions over the verses, and that
  they have a finite domain is an induction over data. Every content there can be
  satisfies it.

Only model-checked: `LessonsMatchVerses` of `Content`, which says what recursive
functions over verses compute, an induction over data; all liveness
(`EventuallySettled`, `EventuallyClosed` of both modules, `PaidIsServed`); and the
violation, which a proof cannot state. Every other property of a run is the
statement of a theorem.

`TypeOK` is an invariant of a run only in `learner`, where it bounds every column;
that of the other modules holds on their instances as well. It is proved
(`TypeCorrect`, `NotificationsTypeCorrect`, `OfficeInvariant`) for `Outbox`,
`Challenge`, `Payments`, `Household`, `Friends` with `Messages`, `League`,
`Learner`, `Notifications` and `Backoffice`; the proofs about `Accounts` and `Study`
state what they need of it.

`EventuallyReminded` (`Notifications`: whoever is due is in the end reminded, though
the page moves on) holds on two users of one zone with pages of one and one fault,
if time passes, the key of the lock runs out, a pass that started goes on and the
cron starts the job again and again (the fairness in `NotificationsFairness` of that module); no run
lists it.

## 5. Plan and limits

Proofs worth adding: that a generated block has finitely many lessons and that they
teach its verses (`LessonsFinite`, `LessonsMatchVerses`), if the lessons are
described by what they are instead of by the recursion that makes them; and the
types of `Sessions` with its bounds on logins and faults.

Not modelled, and why:

* The quotas of creation of challenges, and two challenges under one weekly cap:
  the instance with one challenge takes minutes already.
* Account deletion in `Household`, the payment of a family plan before its
  effect, the promotion for all.
* Due dates of revisions, time zones but for a constant shift, and the number of a week:
  arithmetic on dates, with no interleaving.
* The judgement of answers and of recitations, XP formulas, prices, wording,
  ranks and paging: no property here is about them.
* The advisory lock used without Redis: what it does depends on which connection
  of the pool a release gets, which is outside the code.
* Configuration, statistics and the log of activity of the back office.
* Serving of content, audio and legal pages, support, the HTTP
  layer and the speech service: see `PROJECT.json`.
