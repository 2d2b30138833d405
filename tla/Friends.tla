-------------------------------- MODULE Friends --------------------------------
(***************************************************************************)
(* Friendships, blocks and invitations: modules/friends/friends.service.ts *)
(* over friends.repository.ts, with the limits of core/friendship.ts.      *)
(*                                                                         *)
(* A handler reads and decides outside any transaction, then writes: it is *)
(* an action that reads, which leaves in op[r] what it read, then one      *)
(* action for each of its writes.  A friendship is one row for a pair of   *)
(* users; its id tells it from the row the pair had before, since updates  *)
(* and deletes name the id that was read.  A request may die between two   *)
(* steps.  A day is a tick; dayWindow is taken to name the current day.    *)
(* The events stored for the pushes are those of Outbox.                   *)
(***************************************************************************)
EXTENDS Integers, FiniteSets

CONSTANTS User, Request, Invites,
          Premium,         \* the users with an active premium
          FreeFriends, PremiumFriends,  \* FREE_MAX_FRIENDS, PREMIUM_MAX_FRIENDS
          MaxDaily,        \* MAX_FRIEND_REQUESTS_PER_DAY
          MaxPending,      \* MAX_PENDING_REQUESTS
          MaxReports,      \* reports of one user in a day: 10
          MaxUses,         \* uses of an invitation: 5 for a code, 20 for a link
          MaxDay,          \* bound on time
          MaxCalls         \* bound on the requests

ASSUME FriendsAssumption ==
    /\ Premium \subseteq User
    /\ IsFiniteSet(User) /\ IsFiniteSet(Request)
    /\ FreeFriends \in Nat \ {0} /\ PremiumFriends \in Nat /\ PremiumFriends >= FreeFriends
    /\ MaxDaily \in Nat \ {0} /\ MaxPending \in Nat \ {0}
    /\ MaxReports \in Nat /\ MaxUses \in Nat \ {0}
    /\ MaxDay \in Nat \ {0} /\ MaxCalls \in Nat

VARIABLES
    day,
    row,           \* row[p]: the Friendship of the pair p, NoRow without one
    rows,          \* rows[p]: the rows p has had, whose ids they are
    blocks,        \* UserBlock: <<blocker, blocked>>
    invite,        \* FriendInvite rows
    discoverable,  \* User.friendsDiscoverable
    banned,        \* User.bannedAt
    disabled,      \* User.friendsDisabledAt, set by the moderation
    reported,      \* reported[u]: the Report rows u created today
    op,            \* op[r]: what r is doing and what it has read
    calls,
    disturbed      \* history: two requests overlapped, or one died

friendships == <<row, rows, blocks, invite>>
accounts    == <<discoverable, banned, disabled, reported>>
friendsVars == <<day, friendships, accounts, op, calls, disturbed>>

-----------------------------------------------------------------------------

Pair        == {p \in SUBSET User : Cardinality(p) = 2}
Day         == 1..MaxDay
NoRow       == [status |-> "none"]
NoInvite    == [kind |-> "none"]
NoOp        == [step |-> "none"]
RowId       == 1..(MaxCalls + 1)
Row(id, by, status, agreed) ==
    [id |-> id, by |-> by, status |-> status, day |-> day, agreed |-> agreed]

FriendOps ==
    {NoOp}
    \cup [step : {"create", "again"}, u : User, p : Pair]
    \cup [step : {"accept"}, u : User, p : Pair, id : RowId, checked : BOOLEAN]
    \cup [step : {"delete"}, p : Pair, id : RowId]
    \cup [step : {"use", "pair"}, u : User, i : Invites]
    \cup [step : {"join"}, u : User, i : Invites, id : RowId \cup {0}]
    \cup [step : {"unfriend"}, u : User, v : User]
    \cup [step : {"revoke"}, users : SUBSET User]
    \cup [step : {"hide", "report"}, u : User]

FriendsTypeOK ==
    /\ day \in Day
    /\ row \in [Pair -> {NoRow} \cup [id : RowId, by : User, status : {"pending", "accepted"},
                                      day : Day, agreed : SUBSET User]]
    /\ rows \in [Pair -> {0} \cup RowId]
    /\ blocks \subseteq User \X User
    /\ invite \in [Invites -> {NoInvite} \cup
                    [kind : {"qr", "link"}, owner : User, uses : 0..MaxCalls, made : 0..MaxCalls,
                     state : {"live", "expired", "revoked"}]]
    /\ discoverable \subseteq User /\ banned \subseteq User /\ disabled \subseteq User
    /\ reported \in [User -> 0..MaxCalls]
    /\ calls \in 0..MaxCalls /\ disturbed \in BOOLEAN

Goto(r, o) == op' = [op EXCEPT ![r] = o]
Quiet      == \A r \in Request : op[r] = NoOp

Start(r, o) ==
    /\ op[r] = NoOp /\ calls < MaxCalls
    /\ calls' = calls + 1
    /\ disturbed' = (disturbed \/ ~Quiet)
    /\ Goto(r, o)

\* A request of u starts: friendsGate and requireFriendsEnabled let it in, and
\* it goes on to o with what it read.
Begin(r, u, o) == u \notin disabled /\ Start(r, o)

Reads   == UNCHANGED <<day, friendships, accounts>>
Counted == UNCHANGED <<calls, disturbed>>
Fail(r) == Goto(r, NoOp) /\ Counted /\ Reads

Die(r) ==
    /\ op[r] # NoOp
    /\ Goto(r, NoOp) /\ disturbed' = TRUE
    /\ UNCHANGED calls /\ Reads

-----------------------------------------------------------------------------
(* What the handlers read.                                                 *)

PairOf(u, v)  == {u, v}
Status(u, v)  == row[PairOf(u, v)].status
Friend(u)     == {v \in User \ {u} : Status(u, v) = "accepted"}
Blocked(u, v) == {<<u, v>>, <<v, u>>} \cap blocks # {}
Received(u)   == {v \in User \ {u} : Status(u, v) = "pending" /\ row[PairOf(u, v)].by = v}
SentTo(u)     == {v \in User \ {u} : Status(u, v) = "pending" /\ row[PairOf(u, v)].by = u}
Sent(u)       == {p \in Pair : row[p] # NoRow /\ row[p].by = u}

MaxFriendsFor(u) == IF u \in Premium THEN PremiumFriends ELSE FreeFriends
CanAddFriend(u)  == Cardinality(Friend(u)) < MaxFriendsFor(u)
\* mutant: the limit of one of the two alone is looked at.
CanAddHim(u, v)         == CanAddFriend(u)
CanBecomeFriends(u, v)  == CanAddFriend(u) /\ CanAddFriend(v)

WithinQuotas(u) ==
    /\ Cardinality({p \in Sent(u) : row[p].day = day}) < MaxDaily
    /\ Cardinality({p \in Sent(u) : row[p].status = "pending"}) < MaxPending

\* What previewInvite, acceptInvite and the public page ask of an invitation.
Usable(i) ==
    /\ invite[i] # NoInvite
    /\ invite[i].state = "live" /\ invite[i].uses < MaxUses
    /\ invite[i].owner \notin banned
    /\ invite[i].kind = "link" => invite[i].owner \in discoverable

\* Whom the leaderboard of u shows, and whose profile he may open.
Leaderboard(u)    == {v \in Friend(u) : v \notin banned /\ ~Blocked(u, v)}
ProfileOpen(u, v) == Status(u, v) = "accepted" /\ ~Blocked(u, v) /\ v \notin banned

\* The program starts without a row.  The model starts with two friends, or
\* with an invitation that was just created.
FriendsInit ==
    /\ day = 1
    /\ blocks = {}
    /\ \E p \in Pair, i \in Invites, inv \in [kind : {"qr", "link"}, owner : User, uses : {0},
                                            made : {0}, state : {"live"}] :
          \/ /\ \E u \in p : row = [q \in Pair |-> IF q = p THEN Row(1, u, "accepted", p) ELSE NoRow]
             /\ rows = [q \in Pair |-> IF q = p THEN 1 ELSE 0]
             /\ invite = [j \in Invites |-> NoInvite]
          \/ /\ row = [q \in Pair |-> NoRow] /\ rows = [q \in Pair |-> 0]
             /\ invite = [j \in Invites |-> IF j = i THEN inv ELSE NoInvite]
    /\ discoverable = User /\ banned = {} /\ disabled = {}
    /\ reported = [u \in User |-> 0]
    /\ op = [r \in Request |-> NoOp]
    /\ calls = 0 /\ disturbed = FALSE

-----------------------------------------------------------------------------
(* Requests.                                                               *)

SendRequest(r, u, v) ==
    LET p == PairOf(u, v) IN
    /\ u # v /\ v \notin banned /\ v \in discoverable /\ ~Blocked(u, v)
    /\ CanBecomeFriends(u, v) /\ WithinQuotas(u)
    /\ \/ row[p] = NoRow /\ Begin(r, u, [step |-> "create", u |-> u, p |-> p])
       \/ /\ row[p].status = "pending" /\ row[p].by = v
          /\ Begin(r, u, [step |-> "accept", u |-> u, p |-> p, id |-> row[p].id,
                          checked |-> TRUE])
    /\ Reads

\* The unique key of the pair refuses a second row.
CreatePending(r) ==
    LET o == op[r] IN
    /\ o.step = "create"
    /\ IF row[o.p] = NoRow
       THEN /\ rows' = [rows EXCEPT ![o.p] = @ + 1]
            /\ row' = [row EXCEPT ![o.p] = Row(rows[o.p] + 1, o.u, "pending", {o.u})]
            /\ Goto(r, NoOp)
       ELSE Goto(r, [o EXCEPT !.step = "again"]) /\ UNCHANGED <<row, rows>>
    /\ Counted /\ UNCHANGED <<day, blocks, invite, accounts>>

\* The pair is read again after the refusal.
ReadAgain(r) ==
    LET o == op[r]
        crossed == row[o.p].status = "pending" /\ row[o.p].by # o.u
    IN /\ o.step = "again"
       /\ Goto(r, IF crossed
                  THEN [step |-> "accept", u |-> o.u, p |-> o.p, id |-> row[o.p].id,
                        checked |-> FALSE]
                  ELSE NoOp)
       /\ Counted /\ Reads

AcceptOwn(r, u, p) ==   \* mutant: does not ask who sent the request
    /\ u \in p /\ row[p].status = "pending"
    /\ CanBecomeFriends(u, CHOOSE v \in p : v # u)
    /\ Begin(r, u, [step |-> "accept", u |-> u, p |-> p, id |-> row[p].id,
                    checked |-> FALSE])
    /\ Reads
Accept(r, u, p) ==
    /\ u \in p /\ row[p].status = "pending" /\ row[p].by # u
    /\ CanBecomeFriends(u, row[p].by)
    /\ Begin(r, u, [step |-> "accept", u |-> u, p |-> p, id |-> row[p].id,
                    checked |-> FALSE])
    /\ Reads

\* The row that was read is accepted, whatever became of it unless it is gone.
\* Only sendRequest looks again.
WriteAccepted(r) ==
    LET o == op[r] IN
    /\ o.step = "accept" /\ Goto(r, NoOp)
    /\ IF row[o.p] # NoRow /\ row[o.p].id = o.id
          /\ ~(o.checked /\ row[o.p].status = "accepted")
       THEN /\ row' = [row EXCEPT ![o.p].status = "accepted", ![o.p].agreed = @ \cup {o.u}]
       ELSE UNCHANGED row
    /\ Counted /\ UNCHANGED <<day, rows, blocks, invite, accounts>>

\* decline, cancel and removeFriend read the row and delete it by its id.
Decline(r, u, p) ==
    /\ u \in p /\ row[p].status = "pending" /\ row[p].by # u
    /\ Begin(r, u, [step |-> "delete", p |-> p, id |-> row[p].id]) /\ Reads
Cancel(r, u, p) ==
    /\ row[p].status = "pending" /\ row[p].by = u
    /\ Begin(r, u, [step |-> "delete", p |-> p, id |-> row[p].id]) /\ Reads
RemoveFriend(r, u, p) ==
    /\ u \in p /\ row[p].status = "accepted"
    /\ Begin(r, u, [step |-> "delete", p |-> p, id |-> row[p].id]) /\ Reads

Delete(r) ==
    LET o == op[r] IN
    /\ o.step = "delete" /\ Goto(r, NoOp)
    /\ row' = IF row[o.p] # NoRow /\ row[o.p].id = o.id THEN [row EXCEPT ![o.p] = NoRow] ELSE row
    /\ Counted /\ UNCHANGED <<day, rows, blocks, invite, accounts>>

-----------------------------------------------------------------------------
(* Invitations.                                                            *)

CreateInvite(r, u, i, kind) ==
    /\ invite[i] = NoInvite /\ u \notin banned
    /\ kind = "link" => u \in discoverable
    /\ Begin(r, u, NoOp)
    /\ invite' = [invite EXCEPT ![i] = [kind |-> kind, owner |-> u, uses |-> 0, made |-> 0,
                                        state |-> "live"]]
    /\ UNCHANGED <<day, row, rows, blocks, accounts>>

Expire(i) ==
    /\ invite[i] # NoInvite /\ invite[i].state = "live"
    /\ invite' = [invite EXCEPT ![i].state = "expired"]
    /\ Counted /\ UNCHANGED <<day, row, rows, blocks, accounts, op>>

AcceptInvite(r, u, i) ==
    /\ Usable(i)
    /\ LET owner == invite[i].owner IN u # owner /\ ~Blocked(u, owner) /\ CanBecomeFriends(u, owner)
    /\ Begin(r, u, [step |-> "use", u |-> u, i |-> i]) /\ Reads

UseUnchecked(r) ==   \* mutant: increments without the condition of the UPDATE
    /\ op[r].step = "use"
    /\ invite' = [invite EXCEPT ![op[r].i].uses = @ + 1]
    /\ Goto(r, [op[r] EXCEPT !.step = "pair"])
    /\ Counted /\ UNCHANGED <<day, row, rows, blocks, accounts>>
IncrementUse(r) ==
    LET i == op[r].i IN
    /\ op[r].step = "use"
    /\ IF invite[i].state = "live" /\ invite[i].uses < MaxUses
       THEN /\ invite' = [invite EXCEPT ![i].uses = @ + 1]
            /\ Goto(r, [op[r] EXCEPT !.step = "pair"])
       ELSE Goto(r, NoOp) /\ UNCHANGED invite
    /\ Counted /\ UNCHANGED <<day, row, rows, blocks, accounts>>

\* The use is spent, even when the two turn out to be friends already.
ReadPair(r) ==
    LET o == op[r]  p == PairOf(o.u, invite[o.i].owner) IN
    /\ o.step = "pair"
    /\ IF \/ row[p].status = "accepted"
          \/ invite[o.i].kind = "link" /\ row[p].status = "pending" /\ row[p].by = o.u
       THEN Goto(r, NoOp)
       ELSE Goto(r, [step |-> "join", u |-> o.u, i |-> o.i,
                     id |-> IF row[p] = NoRow THEN 0 ELSE row[p].id])
    /\ Counted /\ Reads

\* A code makes friends at once, a link sends a request; both accept the row
\* that was waiting, if it is still there.  No event is stored.
Join(r) ==
    LET o     == op[r]
        inv   == invite[o.i]
        p     == PairOf(o.u, inv.owner)
        both  == IF inv.kind = "qr" THEN {o.u, inv.owner} ELSE {o.u}
        fits  == IF o.id = 0 THEN row[p] = NoRow ELSE row[p] # NoRow /\ row[p].id = o.id
    IN /\ o.step = "join" /\ Goto(r, NoOp)
       /\ IF fits
          THEN /\ rows' = IF o.id = 0 THEN [rows EXCEPT ![p] = @ + 1] ELSE rows
               /\ row' = [row EXCEPT ![p] =
                    IF o.id = 0
                    THEN Row(rows[p] + 1, o.u, IF inv.kind = "qr" THEN "accepted" ELSE "pending", both)
                    ELSE [row[p] EXCEPT !.status = "accepted",
                                        !.agreed = row[p].agreed \cup both]]
               /\ invite' = [invite EXCEPT ![o.i].made = @ + 1]
          ELSE UNCHANGED <<row, rows, invite>>
       /\ Counted /\ UNCHANGED <<day, blocks, accounts>>

-----------------------------------------------------------------------------
(* Blocks and settings.                                                    *)

\* createBlock writes the block, then deletes the friendship, then block
\* revokes the links of both.
Block(r, u, v) ==
    /\ u # v
    /\ Begin(r, u, [step |-> "unfriend", u |-> u, v |-> v])
    /\ blocks' = blocks \cup {<<u, v>>}
    /\ UNCHANGED <<day, row, rows, invite, accounts>>

UnfriendRequester(r) ==   \* mutant: deletes the row only when the blocker made it
    LET p == PairOf(op[r].u, op[r].v) IN
    /\ op[r].step = "unfriend"
    /\ row' = IF row[p] # NoRow /\ row[p].by = op[r].u THEN [row EXCEPT ![p] = NoRow] ELSE row
    /\ Goto(r, [step |-> "revoke", users |-> {op[r].u, op[r].v}])
    /\ Counted /\ UNCHANGED <<day, rows, blocks, invite, accounts>>
Unfriend(r) ==
    LET p == PairOf(op[r].u, op[r].v) IN
    /\ op[r].step = "unfriend"
    /\ row' = [row EXCEPT ![p] = NoRow]
    /\ Goto(r, [step |-> "revoke", users |-> {op[r].u, op[r].v}])
    /\ Counted /\ UNCHANGED <<day, rows, blocks, invite, accounts>>

\* revokeActiveLinksForUser of each of them.
RevokeLinks(users) ==
    [i \in Invites |->
        IF invite[i] # NoInvite /\ invite[i].kind = "link" /\ invite[i].owner \in users
           /\ invite[i].state = "live"
        THEN [invite[i] EXCEPT !.state = "revoked"] ELSE invite[i]]

Revoke(r) ==
    /\ op[r].step = "revoke"
    /\ invite' = RevokeLinks(op[r].users)
    /\ Goto(r, NoOp)
    /\ Counted /\ UNCHANGED <<day, row, rows, blocks, accounts>>

Unblock(r, u, v) ==
    /\ <<u, v>> \in blocks
    /\ Begin(r, u, NoOp)
    /\ blocks' = blocks \ {<<u, v>>}
    /\ UNCHANGED <<day, row, rows, invite, accounts>>

\* updateSettings revokes the links of a user who hides, before it
\* hides him.
UpdateSettings(r, u, visible) ==
    /\ visible # (u \in discoverable)
    /\ IF visible
       THEN /\ Begin(r, u, NoOp) /\ discoverable' = discoverable \cup {u}
            /\ UNCHANGED <<day, friendships, banned, disabled, reported>>
       ELSE /\ Begin(r, u, [step |-> "hide", u |-> u])
            /\ invite' = RevokeLinks({u})
            /\ UNCHANGED <<day, row, rows, blocks, accounts>>

Hide(r) ==
    LET u == op[r].u IN
    /\ op[r].step = "hide"
    /\ discoverable' = discoverable \ {u}
    /\ Goto(r, NoOp)
    /\ Counted /\ UNCHANGED <<day, friendships, banned, disabled, reported>>

\* createReport counts the reports of the day before it creates one.
Report(r, u, v) ==
    /\ reported[u] < MaxReports /\ v \notin banned
    /\ Begin(r, u, [step |-> "report", u |-> u]) /\ Reads

CreateReport(r) ==
    LET u == op[r].u IN
    /\ op[r].step = "report"
    /\ reported' = [reported EXCEPT ![u] = @ + 1]
    /\ Goto(r, NoOp)
    /\ Counted /\ UNCHANGED <<day, friendships, discoverable, banned, disabled>>

\* The moderation bans an account or cuts it off, and restores it.
Moderate(u) ==
    /\ \/ banned' = (banned \ {u}) \cup ({u} \ banned) /\ UNCHANGED disabled
       \/ disabled' = (disabled \ {u}) \cup ({u} \ disabled) /\ UNCHANGED banned
    /\ calls < MaxCalls /\ calls' = calls + 1
    /\ UNCHANGED <<day, friendships, discoverable, reported, op, disturbed>>

NextDay ==
    /\ day < MaxDay /\ day' = day + 1
    /\ reported' = [u \in User |-> 0]
    /\ Counted /\ UNCHANGED <<friendships, discoverable, banned, disabled, op>>

-----------------------------------------------------------------------------

FriendsNext ==
    \/ NextDay
    \/ \E i \in Invites : Expire(i)
    \/ \E u \in User : Moderate(u)
    \/ \E r \in Request :
         \/ Die(r)
         \/ CreatePending(r) \/ ReadAgain(r) \/ WriteAccepted(r) \/ Delete(r)
         \/ IncrementUse(r) \/ ReadPair(r) \/ Join(r)
         \/ Unfriend(r) \/ Revoke(r) \/ Hide(r) \/ CreateReport(r)
         \/ \E u, v \in User :
               SendRequest(r, u, v) \/ Block(r, u, v) \/ Unblock(r, u, v) \/ Report(r, u, v)
         \/ \E u \in User, p \in Pair :
               Accept(r, u, p) \/ Decline(r, u, p) \/ Cancel(r, u, p) \/ RemoveFriend(r, u, p)
         \/ \E u \in User, i \in Invites :
               AcceptInvite(r, u, i) \/ \E kind \in {"qr", "link"} : CreateInvite(r, u, i, kind)
         \/ \E u \in User, visible \in BOOLEAN : UpdateSettings(r, u, visible)

-----------------------------------------------------------------------------
(* Properties.                                                             *)

\* Nobody is the friend of someone who did not agree to it: both users of an
\* accepted row have asked for it, accepted it or shown their code, since the
\* row was created.  What a request read of an older row of the pair never
\* accepts the new one.
Consented == \A p \in Pair : row[p].status = "accepted" => row[p].agreed = p

\* Whatever overlaps, an invitation is used at most as often as it allows, and
\* makes no more friendships or requests than it was used.
InviteWithinUses ==
    \A i \in Invites : invite[i] # NoInvite =>
        invite[i].made <= invite[i].uses /\ invite[i].uses <= MaxUses

\* The limit of friends of either user is checked before the write, and so is
\* the number of reports of the day: only requests that overlap can exceed them.
LimitsKept ==
    ~disturbed => \A u \in User :
        Cardinality(Friend(u)) <= MaxFriendsFor(u) /\ reported[u] <= MaxReports

\* Once a block is done, if nothing overlapped it and nothing died, the two
\* are not friends, no request waits between them, and no request or
\* invitation brings them together while the block lasts; and when a race has
\* left a friendship between them, their screens still hide it.
BlockedApart ==
    \A u, v \in User : u # v /\ Blocked(u, v) =>
        /\ Quiet /\ ~disturbed => v \notin Friend(u) \cup Received(u) \cup SentTo(u)
        /\ v \notin Leaderboard(u) /\ ~ProfileOpen(u, v)
=============================================================================
