------------------------------- MODULE Household -------------------------------
(***************************************************************************)
(* The family plan: modules/household/household.service.ts, and the        *)
(* effective premium of core/household.ts that every member inherits.      *)
(*                                                                         *)
(* A handler first reads and decides, then writes; nothing but accept,     *)
(* transfer and the cascade of a deletion writes two rows at once.  So a   *)
(* handler is an action that reads, actions that write, and then the       *)
(* recomputation of the premium of each user concerned, itself a read and  *)
(* a write.  op[r] keeps what the request r has read.                      *)
(*                                                                         *)
(* Dates are ticks, 0 is NULL; a subscription lasts one more tick with each*)
(* payment.  An invitation is addressed to a user, standing for his e-mail.*)
(***************************************************************************)
EXTENDS Integers, FiniteSets

CONSTANTS User, Household, Request,
          MaxInvitations, \* bound on the invitations sent
          MaxMembers,     \* HOUSEHOLD_MAX_MEMBERS
          Ttl,            \* INVITE_TTL_DAYS, in ticks
          MaxTime,        \* bound on time
          MaxCalls,       \* bound on the requests, synchronisations apart
          Nobody, Deleted

ASSUME HouseholdAssumption ==
    /\ MaxInvitations \in Nat /\ MaxMembers \in Nat \ {0, 1} /\ Ttl \in Nat \ {0}
    /\ MaxTime \in Nat \ {0, 1} /\ MaxCalls \in Nat
    /\ IsFiniteSet(User) /\ IsFiniteSet(Request)
    /\ Nobody \notin User \cup Household /\ Deleted \notin User \cup {Nobody}

VARIABLES
    now,
    owner,       \* Household.ownerId; Nobody before it is created
    active,      \* Household.subscriptionActive
    until,       \* Household.subscriptionUntil
    row,         \* row[u]: the HouseholdMember of u, NoRow without one
    joins,       \* joins[u]: the members' rows u has had, whose ids they are
    invitation,  \* HouseholdInvitation rows
    personal,    \* User.personalPremiumUntil
    premium,     \* User.premiumUntil (isPremium when it is not NULL)
    op,          \* op[r]: what r is doing and what it has read
    calls,
    raced        \* history: two requests overlapped

households == <<owner, active, until>>
members    == <<row, joins>>
users      == <<personal, premium>>
vars       == <<now, households, members, invitation, users, op, calls, raced>>

-----------------------------------------------------------------------------

Invitations == 1..MaxInvitations
Date     == 0..(MaxTime + MaxCalls)
NoRow    == [h |-> Nobody]
RowId    == 1..(MaxCalls + 1)
NoInvite == [status |-> "none"]
Cascaded == [status |-> "gone"]   \* deleted with its household
NoOp     == [step |-> "none"]
Sent     == [h : Household, to : User, expires : 1..(MaxTime + Ttl),
             status : {"pending", "accepted", "declined", "expired", "cancelled"}]

Ops ==
    {NoOp}
    \cup [step : {"create"}, u : User, pays : BOOLEAN]
    \cup [step : {"own"}, u : User, h : Household, pays : BOOLEAN]
    \cup [step : {"invite"}, h : Household, to : User]
    \cup [step : {"accept"}, u : User, i : Invitations]
    \cup [step : {"mark"}, i : Invitations, status : {"declined", "expired", "cancelled"}]
    \cup [step : {"remove"}, u : User, id : RowId]
    \cup [step : {"transfer"}, h : Household, from : User, fromId : RowId \cup {0},
                               to : User, toId : RowId]
    \cup [step : {"dissolve"}, h : Household, users : SUBSET User]
    \cup [step : {"activate"}, h : Household, until : Date]
    \cup [step : {"personal"}, u : User, until : Date]
    \cup [step : {"expire"}, todo : SUBSET Household]
    \cup [step : {"members"}, h : Household, job : BOOLEAN, todo : SUBSET Household]
    \cup [step : {"recompute"}, users : SUBSET User, job : BOOLEAN, todo : SUBSET Household]
    \cup [step : {"write"}, u : User, premium : Date, users : SUBSET User,
                            job : BOOLEAN, todo : SUBSET Household]

TypeOK ==
    /\ now \in 1..MaxTime
    /\ owner \in [Household -> User \cup {Nobody, Deleted}]
    /\ active \in [Household -> BOOLEAN]
    /\ until \in [Household -> Date]
    /\ row \in [User -> {NoRow} \cup [h : Household, role : {"owner", "member"}, id : RowId]]
    /\ joins \in [User -> {0} \cup RowId]
    /\ invitation \in [Invitations -> {NoInvite, Cascaded} \cup Sent]
    /\ personal \in [User -> Date] /\ premium \in [User -> Date]
    /\ op \in [Request -> Ops]
    /\ calls \in 0..MaxCalls
    /\ raced \in BOOLEAN

\* The program starts without a household.  The model starts once a user has
\* paid a family plan for one tick and another has accepted his invitation.
Init ==
    /\ now = 1
    /\ \E h \in Household, u, v \in User :
          /\ u # v
          /\ owner = [g \in Household |-> IF g = h THEN u ELSE Nobody]
          /\ active = [g \in Household |-> g = h]
          /\ until = [g \in Household |-> IF g = h THEN 2 ELSE 0]
          /\ row = [w \in User |-> IF w = u THEN [h |-> h, role |-> "owner", id |-> 1]
                                   ELSE IF w = v THEN [h |-> h, role |-> "member", id |-> 1]
                                   ELSE NoRow]
          /\ joins = [w \in User |-> IF w \in {u, v} THEN 1 ELSE 0]
          /\ premium = [w \in User |-> IF w \in {u, v} THEN 2 ELSE 0]
    /\ invitation = [i \in Invitations |-> NoInvite]
    /\ personal = [u \in User |-> 0]
    /\ op = [r \in Request |-> NoOp]
    /\ calls = 0
    /\ raced = FALSE

Goto(r, o) == op' = [op EXCEPT ![r] = o]
Fail(r)    == Goto(r, NoOp)
Quiet      == \A r \in Request : op[r] = NoOp

\* A request starts, with what it read.
Start(r, o) ==
    /\ op[r] = NoOp
    /\ Goto(r, o)
    /\ raced' = (raced \/ ~Quiet)

Begin(r, o) ==
    /\ Start(r, o)
    /\ calls < MaxCalls
    /\ calls' = calls + 1
    /\ UNCHANGED <<now, households, members, invitation, users>>

Exists(h)    == owner[h] \in User
Members(h)   == {u \in User : row[u].h = h}
Pending(h)   == {i \in Invitations : /\ invitation[i].status = "pending"
                                     /\ invitation[i].h = h /\ invitation[i].expires > now}
Extended(d)  == (IF d > now THEN d ELSE now) + 1

\* resolveEffectiveUntil of the personal and the family premium.
Later(d, e)  == IF d >= e THEN d ELSE e
Current(d)   == IF d > now THEN d ELSE 0
Family(u)    ==
    IF row[u] # NoRow /\ active[row[u].h] THEN Current(until[row[u].h]) ELSE 0
Entitled(u)  == Later(Current(personal[u]), Family(u))

\* Goes on with recomputePremium of each user, then with the rest of the job.
Recompute(r, S, job, todo) ==
    Goto(r, IF S # {} THEN [step |-> "recompute", users |-> S, job |-> job, todo |-> todo]
            ELSE IF job THEN [step |-> "expire", todo |-> todo]
            ELSE NoOp)

-----------------------------------------------------------------------------
(* create, ensureOwned *)

CreateRead(r, u) ==
    /\ row[u] = NoRow
    /\ Begin(r, [step |-> "create", u |-> u, pays |-> FALSE])

\* ownerId is unique.
CreateHousehold(r) ==
    /\ op[r].step = "create"
    /\ IF \E h \in Household : owner[h] = op[r].u
       THEN Fail(r) /\ UNCHANGED households
       ELSE \E h \in Household :
              /\ owner[h] = Nobody
              /\ owner' = [owner EXCEPT ![h] = op[r].u]
              /\ Goto(r, [step |-> "own", u |-> op[r].u, h |-> h, pays |-> op[r].pays])
              /\ UNCHANGED <<active, until>>
    /\ UNCHANGED <<now, members, invitation, users, calls, raced>>

\* userId is unique; so the creation may stop half-way.
CreateMember(r) ==
    LET u == op[r].u  h == op[r].h
    IN  /\ op[r].step = "own"
        /\ IF row[u] = NoRow /\ Exists(h)
           THEN /\ joins' = [joins EXCEPT ![u] = @ + 1]
                /\ row' = [row EXCEPT ![u] = [h |-> h, role |-> "owner", id |-> joins'[u]]]
                /\ Goto(r, IF op[r].pays THEN [step |-> "activate", h |-> h, until |-> now + 1]
                           ELSE NoOp)
           ELSE Fail(r) /\ UNCHANGED members
        /\ UNCHANGED <<now, households, invitation, users, calls, raced>>

-----------------------------------------------------------------------------
(* Invitations *)

InviteRead(r, u, v) ==
    \E h \in Household :
        /\ owner[h] = u
        /\ u # v /\ row[v].h # h
        /\ Cardinality(Members(h)) + Cardinality(Pending(h)) < MaxMembers
        /\ \A i \in Pending(h) : invitation[i].to # v
        /\ \E i \in Invitations : invitation[i] = NoInvite
        /\ Begin(r, [step |-> "invite", h |-> h, to |-> v])

InviteWrite(r) ==
    /\ op[r].step = "invite"
    /\ \E i \in Invitations :
          /\ invitation[i] = NoInvite
          /\ \A j \in Invitations : j < i => invitation[j] # NoInvite
          /\ invitation' =
                IF Exists(op[r].h)
                THEN [invitation EXCEPT ![i] = [h |-> op[r].h, to |-> op[r].to,
                                                status |-> "pending", expires |-> now + Ttl]]
                ELSE invitation
    /\ Goto(r, NoOp)
    /\ UNCHANGED <<now, households, members, users, calls, raced>>

Received(u) == {i \in Invitations : /\ invitation[i].status = "pending"
                                    /\ invitation[i].to = u}

AcceptRead(r, u) ==
    \E i \in Received(u) :
        IF invitation[i].expires <= now
        THEN Begin(r, [step |-> "mark", i |-> i, status |-> "expired"])
        ELSE /\ row[u] = NoRow
             /\ Cardinality(Members(invitation[i].h)) < MaxMembers
             /\ Begin(r, [step |-> "accept", u |-> u, i |-> i])

\* One transaction; it fails on a second row of u, or if the household is gone.
AcceptWrite(r) ==
    LET u == op[r].u  i == op[r].i
    IN  /\ op[r].step = "accept"
        /\ IF row[u] = NoRow /\ invitation[i] # Cascaded
           THEN /\ joins' = [joins EXCEPT ![u] = @ + 1]
                /\ row' = [row EXCEPT ![u] = [h |-> invitation[i].h, role |-> "member",
                                              id |-> joins'[u]]]
                /\ invitation' = [invitation EXCEPT ![i].status = "accepted"]
                /\ Recompute(r, {u}, FALSE, {})
           ELSE Fail(r) /\ UNCHANGED <<members, invitation>>
        /\ UNCHANGED <<now, households, users, calls, raced>>

DeclineRead(r, u) ==
    \E i \in Received(u) : Begin(r, [step |-> "mark", i |-> i, status |-> "declined"])

CancelRead(r, u) ==
    \E i \in Invitations :
        /\ invitation[i].status = "pending"
        /\ owner[invitation[i].h] = u
        /\ Begin(r, [step |-> "mark", i |-> i, status |-> "cancelled"])

\* The status is written whatever it has become.
Mark(r) ==
    /\ op[r].step = "mark"
    /\ invitation' = IF invitation[op[r].i] = Cascaded THEN invitation
                     ELSE [invitation EXCEPT ![op[r].i].status = op[r].status]
    /\ Goto(r, NoOp)
    /\ UNCHANGED <<now, households, members, users, calls, raced>>

-----------------------------------------------------------------------------
(* removeMember, leave, transfer, remove *)

RemoveRead(r, u, v) ==
    /\ u # v
    /\ row[v] # NoRow /\ owner[row[v].h] = u
    /\ Begin(r, [step |-> "remove", u |-> v, id |-> row[v].id])

LeaveRead(r, u) ==
    /\ row[u] # NoRow /\ row[u].role = "member"
    /\ Begin(r, [step |-> "remove", u |-> u, id |-> row[u].id])

HasRow(u, id) == row[u] # NoRow /\ row[u].id = id

RemoveForgets(r) ==   \* mutant: the member keeps the premium of the household
    LET u == op[r].u
    IN  /\ op[r].step = "remove"
        /\ row' = IF HasRow(u, op[r].id) THEN [row EXCEPT ![u] = NoRow] ELSE row
        /\ Goto(r, NoOp)
        /\ UNCHANGED <<now, households, joins, invitation, users, calls, raced>>

RemoveMember(r) ==
    LET u == op[r].u
    IN  /\ op[r].step = "remove"
        /\ IF HasRow(u, op[r].id)
           THEN row' = [row EXCEPT ![u] = NoRow] /\ Recompute(r, {u}, FALSE, {})
           ELSE Fail(r) /\ UNCHANGED row
        /\ UNCHANGED <<now, households, joins, invitation, users, calls, raced>>

TransferRead(r, u, v) ==
    \E h \in Household :
        /\ owner[h] = u
        /\ u # v /\ row[v].h = h
        /\ Begin(r, [step |-> "transfer", h |-> h,
                     from |-> u, fromId |-> IF row[u].h = h THEN row[u].id ELSE 0,
                     to |-> v, toId |-> row[v].id])

TransferKeepsRole(r) ==   \* mutant: the old owner's row is not written
    LET o == op[r]
    IN  /\ o.step = "transfer"
        /\ IF Exists(o.h) /\ HasRow(o.to, o.toId)
           THEN /\ owner' = [owner EXCEPT ![o.h] = o.to]
                /\ row' = [row EXCEPT ![o.to].role = "owner"]
           ELSE UNCHANGED <<owner, row>>
        /\ Fail(r)
        /\ UNCHANGED <<now, active, until, joins, invitation, users, calls, raced>>

\* One transaction, by the ids of the rows; ownerId is unique.
Transfer(r) ==
    LET o == op[r]
    IN  /\ o.step = "transfer"
        /\ IF /\ Exists(o.h) /\ HasRow(o.to, o.toId)
              /\ o.fromId # 0 => HasRow(o.from, o.fromId)
              /\ \A h \in Household \ {o.h} : owner[h] # o.to
           THEN /\ owner' = [owner EXCEPT ![o.h] = o.to]
                /\ row' = [u \in User |->
                             IF u = o.to THEN [row[u] EXCEPT !.role = "owner"]
                             ELSE IF u = o.from /\ o.fromId # 0
                             THEN [row[u] EXCEPT !.role = "member"]
                             ELSE row[u]]
           ELSE UNCHANGED <<owner, row>>
        /\ Goto(r, NoOp)
        /\ UNCHANGED <<now, active, until, joins, invitation, users, calls, raced>>

DissolveRead(r, u) ==
    \E h \in Household :
        /\ owner[h] = u
        /\ Begin(r, [step |-> "dissolve", h |-> h, users |-> Members(h)])

\* The deletion cascades to the rows and to the invitations.
Dissolve(r) ==
    LET h == op[r].h
    IN  /\ op[r].step = "dissolve"
        /\ IF Exists(h)
           THEN /\ owner' = [owner EXCEPT ![h] = Deleted]
                /\ active' = [active EXCEPT ![h] = FALSE]
                /\ until' = [until EXCEPT ![h] = 0]
                /\ row' = [u \in User |-> IF row[u].h = h THEN NoRow ELSE row[u]]
                /\ invitation' = [i \in Invitations |->
                      IF invitation[i] \in Sent /\ invitation[i].h = h THEN Cascaded
                      ELSE invitation[i]]
                /\ Recompute(r, op[r].users, FALSE, {})
           ELSE Fail(r) /\ UNCHANGED <<households, row, invitation>>
        /\ UNCHANGED <<now, joins, users, calls, raced>>

-----------------------------------------------------------------------------
(* Subscriptions *)

\* A paid family plan; an account that is a member elsewhere is refused.
ActivateRead(r, u) ==
    \/ \E h \in Household :
          /\ owner[h] = u
          /\ Begin(r, [step |-> "activate", h |-> h, until |-> Extended(until[h])])
    \/ /\ \A h \in Household : owner[h] # u
       /\ row[u] = NoRow
       /\ Begin(r, [step |-> "create", u |-> u, pays |-> TRUE])

Activate(r) ==
    LET h == op[r].h
    IN  /\ op[r].step = "activate"
        /\ IF Exists(h)
           THEN /\ active' = [active EXCEPT ![h] = TRUE]
                /\ until' = [until EXCEPT ![h] = op[r].until]
                /\ Goto(r, [step |-> "members", h |-> h, job |-> FALSE, todo |-> {}])
           ELSE Fail(r) /\ UNCHANGED <<active, until>>
        /\ UNCHANGED <<now, owner, members, invitation, users, calls, raced>>

\* A paid personal plan.
PersonalRead(r, u) ==
    Begin(r, [step |-> "personal", u |-> u, until |-> Extended(personal[u])])

Personal(r) ==
    /\ op[r].step = "personal"
    /\ personal' = [personal EXCEPT ![op[r].u] = op[r].until]
    /\ Recompute(r, {op[r].u}, FALSE, {})
    /\ UNCHANGED <<now, households, members, invitation, premium, calls, raced>>

\* The job, one at a time under its lock.
ExpireRead(r) ==
    LET due == {h \in Household : active[h] /\ until[h] < now}
    IN  /\ \/ due # {}
           \/ \E i \in Invitations : invitation[i].status = "pending" /\ invitation[i].expires < now
        /\ \A q \in Request : op[q].step # "expire" /\ ("job" \in DOMAIN op[q] => ~op[q].job)
        /\ Start(r, [step |-> "expire", todo |-> due])
        /\ UNCHANGED <<now, households, members, invitation, users, calls>>

\* By id alone; a household deleted meanwhile makes the job fail.
Expire(r) ==
    /\ op[r].step = "expire"
    /\ \E h \in op[r].todo :
          IF Exists(h)
          THEN /\ active' = [active EXCEPT ![h] = FALSE]
               /\ Goto(r, [step |-> "members", h |-> h, job |-> TRUE, todo |-> op[r].todo \ {h}])
          ELSE Fail(r) /\ UNCHANGED active
    /\ UNCHANGED <<now, owner, until, members, invitation, users, calls, raced>>

ExpireInvitations(r) ==
    /\ op[r].step = "expire" /\ op[r].todo = {}
    /\ invitation' = [i \in Invitations |->
          IF invitation[i].status = "pending" /\ invitation[i].expires < now
          THEN [invitation[i] EXCEPT !.status = "expired"] ELSE invitation[i]]
    /\ Goto(r, NoOp)
    /\ UNCHANGED <<now, households, members, users, calls, raced>>

-----------------------------------------------------------------------------
(* recomputeHouseholdPremium, recomputePremium, syncUserState *)

ReadMembers(r) ==
    /\ op[r].step = "members"
    /\ Recompute(r, Members(op[r].h), op[r].job, op[r].todo)
    /\ UNCHANGED <<now, households, members, invitation, users, calls, raced>>

RecomputeRead(r) ==
    /\ op[r].step = "recompute"
    /\ \E u \in op[r].users :
          Goto(r, [step |-> "write", u |-> u, premium |-> Entitled(u),
                   users |-> op[r].users \ {u}, job |-> op[r].job, todo |-> op[r].todo])
    /\ UNCHANGED <<now, households, members, invitation, users, calls, raced>>

RecomputeWrite(r) ==
    /\ op[r].step = "write"
    /\ premium' = [premium EXCEPT ![op[r].u] = op[r].premium]
    /\ Recompute(r, op[r].users, op[r].job, op[r].todo)
    /\ UNCHANGED <<now, households, members, invitation, personal, calls, raced>>

\* A user opens the application: the same, when it makes a difference.
SyncRead(r, u) ==
    /\ premium[u] # Entitled(u)
    /\ Start(r, [step |-> "write", u |-> u, premium |-> Entitled(u),
                 users |-> {}, job |-> FALSE, todo |-> {}])
    /\ UNCHANGED <<now, households, members, invitation, users, calls>>

Tick ==
    /\ now < MaxTime
    /\ now' = now + 1
    /\ UNCHANGED <<households, members, invitation, users, op, calls, raced>>

-----------------------------------------------------------------------------

Proceed(r) ==
    \/ CreateHousehold(r) \/ CreateMember(r)
    \/ InviteWrite(r) \/ AcceptWrite(r) \/ Mark(r)
    \/ RemoveMember(r) \/ Transfer(r) \/ Dissolve(r)
    \/ Activate(r) \/ Personal(r) \/ Expire(r) \/ ExpireInvitations(r)
    \/ ReadMembers(r) \/ RecomputeRead(r) \/ RecomputeWrite(r)

Next ==
    \/ \E r \in Request, u \in User :
          \/ CreateRead(r, u) \/ AcceptRead(r, u) \/ DeclineRead(r, u) \/ CancelRead(r, u)
          \/ LeaveRead(r, u) \/ DissolveRead(r, u) \/ ActivateRead(r, u) \/ PersonalRead(r, u)
          \/ SyncRead(r, u)
    \/ \E r \in Request, u, v \in User :
          InviteRead(r, u, v) \/ RemoveRead(r, u, v) \/ TransferRead(r, u, v)
    \/ \E r \in Request : Proceed(r) \/ ExpireRead(r)
    \/ Tick

Spec == Init /\ [][Next]_vars

-----------------------------------------------------------------------------
(* Properties *)

\* After requests that did not overlap, each user has the premium of his own
\* plan or of his household, whichever ends later, and no other: every
\* operation recomputes it for all those it concerns (comment of
\* recomputePremium: "A appeler apres tout changement").
SerialPremium ==
    Quiet /\ ~raced => \A u \in User : Current(premium[u]) = Entitled(u)

\* After requests that did not overlap, an owner has a row of role owner in his
\* household and nobody else has, and the places taken or offered are at most
\* HOUSEHOLD_MAX_MEMBERS (comments of the schema and of invite).
SerialHousehold ==
    Quiet /\ ~raced =>
        /\ \A h \in Household :
              Exists(h) =>
                /\ row[owner[h]].h = h
                /\ {u \in Members(h) : row[u].role = "owner"} = {owner[h]}
                /\ Cardinality(Members(h)) + Cardinality(Pending(h)) <= MaxMembers

\* VIOLATED: the job ends expired subscriptions only (comment of expireDue).
ExpiresOnlyExpired ==
    [][\A h \in Household :
          active[h] /\ ~active'[h] => until[h] < now \/ owner'[h] = Deleted]_vars
=============================================================================
