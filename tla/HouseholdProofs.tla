---------------------------- MODULE HouseholdProofs ----------------------------
(***************************************************************************)
(* Proofs about Household, for every number of users, households, requests *)
(* and invitations, and every limit.                                       *)
(***************************************************************************)
EXTENDS Household, FiniteSetTheorems, TLAPS

-----------------------------------------------------------------------------
(* Rows, invitations and what requests read *)

\* The foreign keys: members and invitations are those of a household that is
\* there, and only such a household has a subscription.
RefsSound ==
    /\ \A u \in User : row[u] # NoRow => Exists(row[u].h)
    /\ \A i \in Invitations : invitation[i] \in Sent => Exists(invitation[i].h)
    /\ \A h \in Household : active[h] => Exists(h)

\* The invitation a request answers was sent.
RequestsSound ==
    \A r \in Request : op[r].step \in {"accept", "mark"} => invitation[op[r].i] # NoInvite

-----------------------------------------------------------------------------
(* Bounds *)

Joins(o) == o.step \in {"create", "own", "accept"}
Joining  == {r \in Request : Joins(op[r])}

\* No date is further than a payment of each call takes it.
DatesBounded(o) ==
    /\ o.step \in {"activate", "personal"} => o.until <= MaxTime + calls
    /\ o.step = "write" => o.premium <= MaxTime + calls

\* A row is that of a request, and a date is paid by one.
CallsCounted ==
    /\ \A u \in User : joins[u] + Cardinality(Joining) <= 1 + calls
    /\ Cardinality(Joining) <= calls
    /\ \A h \in Household : until[h] <= MaxTime + calls
    /\ \A u \in User : personal[u] <= MaxTime + calls /\ premium[u] <= MaxTime + calls
    /\ \A r \in Request : DatesBounded(op[r])

-----------------------------------------------------------------------------
(* One request at a time *)

Owners(h) == {u \in Members(h) : row[u].role = "owner"}

\* The household of SerialHousehold.
HouseSound(h) ==
    /\ row[owner[h]].h = h
    /\ Owners(h) = {owner[h]}
    /\ Cardinality(Members(h)) + Cardinality(Pending(h)) <= MaxMembers

Settled(u) == Current(premium[u]) = Entitled(u)

\* The users whose premium a request has still to compute.
Awaiting(o) ==
    IF o.step = "recompute" THEN o.users
    ELSE IF o.step = "write" THEN o.users \cup {o.u}
    ELSE IF o.step = "members" THEN Members(o.h)
    ELSE {}

\* What a request decided still holds when nothing has overlapped it.
Decided(o) ==
    /\ o.step = "own" => row[o.u] = NoRow /\ owner[o.h] = o.u /\ ~active[o.h] /\ Members(o.h) = {}
                         /\ \A i \in Invitations : invitation[i] \in Sent => invitation[i].h # o.h
    /\ o.step = "create" => row[o.u] = NoRow
    /\ o.step = "invite" =>
          Exists(o.h) /\ Cardinality(Members(o.h)) + Cardinality(Pending(o.h)) < MaxMembers
    /\ o.step = "accept" =>
          /\ row[o.u] = NoRow /\ invitation[o.i] \in Sent
          /\ LET h == invitation[o.i].h
             IN  Cardinality(Members(h)) + Cardinality(Pending(h) \ {o.i}) < MaxMembers
    /\ o.step = "remove" => HasRow(o.u, o.id) /\ row[o.u].role = "member"
    /\ o.step = "transfer" =>
          /\ owner[o.h] = o.from /\ o.from # o.to /\ HasRow(o.to, o.toId) /\ row[o.to].h = o.h
          /\ o.fromId # 0
    /\ o.step = "dissolve" => o.users = Members(o.h)
    /\ o.step = "write" => Current(o.premium) = Entitled(o.u)
    /\ o.step \in {"expire", "members", "recompute", "write"} => \A h \in o.todo : until[h] < now

Serial ==
    ~raced =>
        /\ \A r, q \in Request : op[r] # NoOp /\ op[q] # NoOp => r = q
        /\ \A r \in Request : Decided(op[r])
        /\ \A u \in User : Settled(u) \/ \E r \in Request : u \in Awaiting(op[r])
        /\ \A h \in Household : Exists(h) =>
              HouseSound(h) \/ \E r \in Request : op[r].step = "own" /\ op[r].h = h

IInv == TypeOK /\ RefsSound /\ RequestsSound /\ CallsCounted /\ Serial

-----------------------------------------------------------------------------
(* Operations, counts and dates *)

\* Two sets that differ by one element at most differ by one at most in size.
LEMMA OneElement ==
    ASSUME NEW S, IsFiniteSet(S), NEW T, NEW x, T \ {x} = S \ {x}
    PROVE  /\ IsFiniteSet(T) /\ Cardinality(S) \in Nat /\ Cardinality(T) \in Nat
           /\ (x \in S /\ x \in T) => Cardinality(T) = Cardinality(S)
           /\ (x \in S /\ x \notin T) => Cardinality(T) = Cardinality(S) - 1
           /\ (x \notin S /\ x \in T) => Cardinality(T) = Cardinality(S) + 1
           /\ (x \notin S /\ x \notin T) => Cardinality(T) = Cardinality(S)
<1>1. CASE (x \in S) <=> (x \in T)
  <2>1. T = S
    BY <1>1
  <2> QED
    BY <1>1, <2>1, FS_CardinalityType
<1>2. CASE x \in S /\ x \notin T
  <2>1. T = S \ {x}
    BY <1>2
  <2> QED
    BY <1>2, <2>1, FS_RemoveElement, FS_CardinalityType
<1>3. CASE x \notin S /\ x \in T
  <2>1. T = S \cup {x}
    BY <1>3
  <2> QED
    BY <1>3, <2>1, FS_AddElement, FS_CardinalityType
<1> QED
  BY <1>1, <1>2, <1>3

HasTodo(o) == o.step \in {"expire", "members", "recompute", "write"}

\* What each step of a request has read.
LEMMA Shapes ==
    ASSUME NEW o \in Ops
    PROVE  /\ o.step = "none" => o = NoOp
           /\ o.step = "create" => o.u \in User /\ o.pays \in BOOLEAN
           /\ o.step = "own" => o.u \in User /\ o.h \in Household /\ o.pays \in BOOLEAN
           /\ o.step = "invite" => o.h \in Household /\ o.to \in User
           /\ o.step = "accept" => o.u \in User /\ o.i \in Invitations
           /\ o.step = "mark" => o.i \in Invitations
                                 /\ o.status \in {"declined", "expired", "cancelled"}
           /\ o.step = "remove" => o.u \in User /\ o.id \in RowId
           /\ o.step = "transfer" => /\ o.h \in Household /\ o.from \in User /\ o.to \in User
                                     /\ o.fromId \in RowId \cup {0} /\ o.toId \in RowId
           /\ o.step = "dissolve" => o.h \in Household /\ o.users \subseteq User
           /\ o.step = "activate" => o.h \in Household /\ o.until \in Date
           /\ o.step = "personal" => o.u \in User /\ o.until \in Date
           /\ o.step = "members" => o.h \in Household /\ o.job \in BOOLEAN
           /\ o.step = "recompute" => o.users \subseteq User /\ o.job \in BOOLEAN
           /\ o.step = "write" => /\ o.u \in User /\ o.premium \in Date /\ o.users \subseteq User
                                  /\ o.job \in BOOLEAN
           /\ HasTodo(o) => o.todo \subseteq Household
  BY DEF Ops, NoOp, HasTodo

\* The operation of a request that does nothing.
LEMMA NoOpFacts == NoOp \in Ops /\ NoOp.step = "none"
  BY DEF Ops, NoOp

\* The rows of TypeOK that proofs read one by one.
LEMMA Typed ==
    ASSUME TypeOK
    PROVE  /\ \A r \in Request : op[r] \in Ops
           /\ now \in Nat /\ now >= 1 /\ now <= MaxTime
           /\ calls \in Nat /\ calls <= MaxCalls /\ MaxCalls \in Nat /\ MaxTime \in Nat
           /\ \A h \in Household : /\ until[h] \in Nat /\ active[h] \in BOOLEAN
                                   /\ owner[h] \in User \cup {Nobody, Deleted}
           /\ \A u \in User : /\ personal[u] \in Nat /\ premium[u] \in Nat
                              /\ joins[u] \in Nat
                              /\ row[u] # NoRow => /\ row[u].h \in Household /\ row[u].id \in RowId
                                                   /\ row[u].role \in {"owner", "member"}
                              /\ row[u] = NoRow => row[u].h \notin Household
           /\ \A i \in Invitations :
                 /\ invitation[i] \in {NoInvite, Cascaded} \cup Sent
                 /\ invitation[i].status = "pending" => invitation[i] \in Sent
           /\ raced \in BOOLEAN
<1>1. /\ MaxCalls \in Nat /\ MaxTime \in Nat /\ Nobody \notin Household
  BY HouseholdAssumption
<1>2. /\ \A r \in Request : op[r] \in Ops
      /\ now \in Nat /\ now >= 1 /\ now <= MaxTime
      /\ calls \in Nat /\ calls <= MaxCalls /\ raced \in BOOLEAN
  BY <1>1 DEF TypeOK
<1>3. \A h \in Household : /\ until[h] \in Nat /\ active[h] \in BOOLEAN
                           /\ owner[h] \in User \cup {Nobody, Deleted}
  BY <1>1 DEF TypeOK, Date
<1>4. \A u \in User : personal[u] \in Nat /\ premium[u] \in Nat /\ joins[u] \in Nat
  BY <1>1 DEF TypeOK, Date, RowId
<1>5. \A u \in User : /\ row[u] # NoRow => /\ row[u].h \in Household /\ row[u].id \in RowId
                                           /\ row[u].role \in {"owner", "member"}
                      /\ row[u] = NoRow => row[u].h \notin Household
  BY <1>1 DEF TypeOK, NoRow
<1>6. \A i \in Invitations :
                 /\ invitation[i] \in {NoInvite, Cascaded} \cup Sent
                 /\ invitation[i].status = "pending" => invitation[i] \in Sent
  BY DEF TypeOK, NoInvite, Cascaded
<1> QED
  BY <1>1, <1>2, <1>3, <1>4, <1>5, <1>6

\* Goto changes the operation of one request.
LEMMA Going ==
    ASSUME TypeOK, NEW r \in Request, NEW o, Goto(r, o)
    PROVE  /\ \A q \in Request : op'[q] = IF q = r THEN o ELSE op[q]
           /\ o \in Ops => op' \in [Request -> Ops]
  BY DEF Goto, TypeOK

One(b) == IF b THEN 1 ELSE 0

\* The requests that will make a row are finite, and a step changes one.
LEMMA Counts ==
    ASSUME TypeOK
    PROVE  /\ Cardinality(Joining) \in Nat
           /\ \A r \in Request : Joins(op[r]) => Cardinality(Joining) > 0
           /\ \A r \in Request : \A o : Goto(r, o) =>
                 /\ Cardinality(Joining)' \in Nat
                 /\ Cardinality(Joining)' = Cardinality(Joining) + One(Joins(o)) - One(Joins(op[r]))
<1>1. IsFiniteSet(Joining) /\ Cardinality(Joining) \in Nat
  BY HouseholdAssumption, FS_Subset, FS_CardinalityType DEF Joining
<1>2. ASSUME NEW r \in Request, Joins(op[r]) PROVE Cardinality(Joining) > 0
  <2>1. r \in Joining
    BY <1>2 DEF Joining
  <2> QED
    BY <1>1, <2>1, FS_EmptySet
<1>3. ASSUME NEW r \in Request, NEW o, Goto(r, o)
      PROVE  /\ Cardinality(Joining)' \in Nat
             /\ Cardinality(Joining)' = Cardinality(Joining) + One(Joins(o)) - One(Joins(op[r]))
  <2>1. \A q \in Request : op'[q] = IF q = r THEN o ELSE op[q]
    BY <1>3, Going
  <2>2. /\ Joining' \ {r} = Joining \ {r}
        /\ r \in Joining <=> Joins(op[r])
        /\ r \in Joining' <=> Joins(o)
    BY <2>1 DEF Joining, Joins
  <2> QED
    BY <1>1, <2>2, OneElement DEF One
<1> QED
  BY <1>1, <1>2, <1>3

\* The members and the offers of a household are finite.
LEMMA Finite ==
    /\ \A h : IsFiniteSet(Members(h)) /\ Cardinality(Members(h)) \in Nat
    /\ \A h : IsFiniteSet(Pending(h)) /\ Cardinality(Pending(h)) \in Nat
    /\ \A h : IsFiniteSet(Members(h)') /\ Cardinality(Members(h)') \in Nat
    /\ \A h : IsFiniteSet(Pending(h)') /\ Cardinality(Pending(h)') \in Nat
<1>1. IsFiniteSet(User) /\ IsFiniteSet(Invitations)
  BY HouseholdAssumption, FS_Interval DEF Invitations
<1>2. /\ \A S \in SUBSET User : IsFiniteSet(S) /\ Cardinality(S) \in Nat
      /\ \A S \in SUBSET Invitations : IsFiniteSet(S) /\ Cardinality(S) \in Nat
  BY <1>1, FS_Subset, FS_CardinalityType
<1>3. \A h : /\ Members(h) \in SUBSET User /\ Members(h)' \in SUBSET User
             /\ Pending(h) \in SUBSET Invitations /\ Pending(h)' \in SUBSET Invitations
  BY DEF Members, Pending
<1> QED
  BY <1>2, <1>3

\* A premium is a date that is not over, or none.
LEMMA Premiums ==
    ASSUME TypeOK, NEW u \in User
    PROVE  /\ Entitled(u) \in Nat /\ Current(Entitled(u)) = Entitled(u)
           /\ Family(u) \in Nat /\ Current(personal[u]) \in Nat
           /\ CallsCounted => Entitled(u) <= MaxTime + calls /\ Entitled(u) \in Date
<1>1. /\ now \in Nat /\ personal[u] \in Nat
      /\ row[u] # NoRow => until[row[u].h] \in Nat /\ row[u].h \in Household
  BY Typed
<1>2. \A d \in Nat : /\ Current(d) \in Nat /\ Current(Current(d)) = Current(d)
                     /\ Current(d) <= d
  BY <1>1 DEF Current
<1>3. /\ Family(u) \in Nat /\ Current(Family(u)) = Family(u)
      /\ CallsCounted => Family(u) <= MaxTime + calls
  <2>1. 0 \in Nat /\ Current(0) = 0
    BY <1>1 DEF Current
  <2>2. CASE row[u] # NoRow /\ active[row[u].h]
    <3>1. CallsCounted => until[row[u].h] <= MaxTime + calls
      BY <1>1, <2>2 DEF CallsCounted
    <3>2. Family(u) = Current(until[row[u].h]) /\ until[row[u].h] \in Nat
      BY <1>1, <2>2 DEF Family
    <3>3. Current(until[row[u].h]) <= until[row[u].h] /\ Current(until[row[u].h]) \in Nat
      BY <1>2, <3>2
    <3>4. CallsCounted => Current(until[row[u].h]) <= MaxTime + calls
      BY <3>1, <3>2, <3>3, Typed
    <3> QED
      BY <1>2, <3>2, <3>3, <3>4
  <2>3. CASE ~(row[u] # NoRow /\ active[row[u].h])
    <3>1. Family(u) = 0
      BY <2>3 DEF Family
    <3> QED
      BY <2>1, <3>1, Typed
  <2> QED
    BY <2>2, <2>3
<1>4. \A d, e \in Nat : Later(d, e) \in {d, e}
  BY DEF Later
<1>5. Entitled(u) \in {Current(personal[u]), Family(u)}
  BY <1>1, <1>2, <1>3, <1>4 DEF Entitled
<1>6. CallsCounted => Current(personal[u]) <= MaxTime + calls
  <2>1. CallsCounted => personal[u] <= MaxTime + calls
    BY DEF CallsCounted
  <2>2. Current(personal[u]) <= personal[u] /\ Current(personal[u]) \in Nat
    BY <1>1, <1>2
  <2> QED
    BY <1>1, <2>1, <2>2, Typed
<1>7. CallsCounted => Entitled(u) <= MaxTime + calls
  BY <1>3, <1>5, <1>6
<1>8. Entitled(u) \in Nat
  BY <1>1, <1>2, <1>3, <1>5
<1>9. CallsCounted => Entitled(u) \in Date
  BY <1>7, <1>8, Typed DEF Date
<1> QED
  BY <1>1, <1>2, <1>3, <1>5, <1>7, <1>8, <1>9

-----------------------------------------------------------------------------
(* One request at a time *)

\* While nothing overlapped, a request that goes on, or starts when all is
\* quiet, is alone.
LEMMA Alone ==
    ASSUME Serial, ~raced, NEW r \in Request, op[r] # NoOp \/ Quiet
    PROVE  /\ \A q \in Request : q # r => op[q] = NoOp
           /\ Decided(op[r])
           /\ \A u \in User : Settled(u) \/ u \in Awaiting(op[r])
           /\ \A h \in Household : Exists(h) =>
                 HouseSound(h) \/ (op[r].step = "own" /\ op[r].h = h)
<1>1. \A q \in Request : q # r => op[q] = NoOp
  BY DEF Serial, Quiet
<1>2. \A q \in Request : q # r => Awaiting(op[q]) = {} /\ op[q].step # "own"
  BY <1>1, NoOpFacts DEF Awaiting
<1>3. Decided(op[r])
  BY DEF Serial, Decided
<1>4. ASSUME NEW u \in User PROVE Settled(u) \/ u \in Awaiting(op[r])
  <2>1. Settled(u) \/ \E q \in Request : u \in Awaiting(op[q])
    BY DEF Serial, Awaiting
  <2> QED
    BY <1>2, <2>1
<1>5. ASSUME NEW h \in Household, Exists(h)
      PROVE  HouseSound(h) \/ (op[r].step = "own" /\ op[r].h = h)
  <2>1. HouseSound(h) \/ \E q \in Request : op[q].step = "own" /\ op[q].h = h
    BY <1>5 DEF Serial
  <2> QED
    BY <1>2, <2>1
<1> QED
  BY <1>1, <1>3, <1>4, <1>5

\* A request that was alone and still holds what it decided keeps Serial.
LEMMA StaysSerial ==
    ASSUME TypeOK, NEW r \in Request, NEW o, Goto(r, o),
           ~raced' =>
             /\ \A q \in Request : q # r => op[q] = NoOp
             /\ Decided(o)'
             /\ \A u \in User : Settled(u)' \/ u \in Awaiting(o)'
             /\ \A h \in Household : Exists(h)' => HouseSound(h)' \/ (o.step = "own" /\ o.h = h)
    PROVE  Serial'
<1> SUFFICES ASSUME ~raced'
             PROVE  /\ \A q, s \in Request : op'[q] # NoOp /\ op'[s] # NoOp => q = s
                    /\ \A q \in Request : Decided(op[q])'
                    /\ \A u \in User : Settled(u)' \/ \E q \in Request : u \in Awaiting(op[q])'
                    /\ \A h \in Household : Exists(h)' =>
                          HouseSound(h)' \/ \E q \in Request : op'[q].step = "own" /\ op'[q].h = h
  BY DEF Serial
<1>1. \A q \in Request : op'[q] = IF q = r THEN o ELSE NoOp
  BY Going
<1>2. ASSUME NEW q \in Request PROVE Decided(op[q])'
  <2>1. PICK x : x = op'[q]
    OBVIOUS
  <2>2. Decided(NoOp)'
    BY NoOpFacts DEF Decided
  <2>3. Decided(x)'
    BY <1>1, <2>1, <2>2
  <2> QED
    BY <2>1, <2>3 DEF Decided
<1>3. op'[r] = o
  BY <1>1
<1>4. ASSUME NEW u \in User PROVE Settled(u)' \/ \E q \in Request : u \in Awaiting(op[q])'
  <2>1. u \in Awaiting(o)' => u \in Awaiting(op[r])'
    BY <1>3 DEF Awaiting
  <2> QED
    BY <2>1
<1>5. ASSUME NEW h \in Household, Exists(h)'
      PROVE  HouseSound(h)' \/ \E q \in Request : op'[q].step = "own" /\ op'[q].h = h
  BY <1>3, <1>5
<1> QED
  BY <1>1, <1>2, <1>4, <1>5

\* What the rows and the invitations decide of a household.
LEMMA SameHouses ==
    ASSUME UNCHANGED <<now, owner, row, invitation>>
    PROVE  \A h : /\ Members(h)' = Members(h) /\ Pending(h)' = Pending(h)
                  /\ HouseSound(h)' <=> HouseSound(h)
                  /\ Exists(h)' <=> Exists(h)
<1>1. \A h : Members(h)' = Members(h) /\ Pending(h)' = Pending(h) /\ (Exists(h)' <=> Exists(h))
  BY DEF Members, Pending, Exists
<1>2. \A h : Owners(h)' = Owners(h)
  BY <1>1 DEF Owners
<1> QED
  BY <1>1, <1>2 DEF HouseSound

\* What the rows and the subscriptions decide of a premium.
LEMMA SamePremiums ==
    ASSUME UNCHANGED <<now, active, until, row, personal>>
    PROVE  /\ \A u : Entitled(u)' = Entitled(u)
           /\ \A d : Current(d)' = Current(d)
           /\ UNCHANGED premium => \A u : Settled(u)' <=> Settled(u)
<1>1. \A d : Current(d)' = Current(d)
  BY DEF Current
<1>2. \A u : Family(u)' = Family(u)
  BY DEF Family, Current
<1>3. \A u : Entitled(u)' = Entitled(u)
  BY <1>2 DEF Entitled, Current
<1> QED
  BY <1>1, <1>3 DEF Settled

-----------------------------------------------------------------------------
(* Requests that start *)

AllSame == UNCHANGED <<now, owner, active, until, row, joins, invitation, personal, premium>>

\* What was decided holds as long as nothing is written.
LEMMA StillDecided ==
    ASSUME AllSame, NEW o PROVE Decided(o)' <=> Decided(o)
<1>1. \A u : Entitled(u)' = Entitled(u)
  BY SamePremiums DEF AllSame
<1>2. \A h : Members(h)' = Members(h) /\ Pending(h)' = Pending(h)
  BY SameHouses DEF AllSame
<1>3. \A d : Current(d)' = Current(d)
  BY SamePremiums DEF AllSame
<1>4. \A u, id : HasRow(u, id)' <=> HasRow(u, id)
  BY DEF AllSame, HasRow
<1>5. \A h : Exists(h)' <=> Exists(h)
  BY DEF AllSame, Exists
<1>6. UNCHANGED <<now, owner, active, until, row, invitation>>
  BY DEF AllSame
<1> QED
  BY <1>1, <1>2, <1>3, <1>4, <1>5, <1>6 DEF Decided

\* A later limit.
LEMMA Farther ==
    ASSUME NEW m \in Nat, NEW c \in Nat, NEW d \in Nat, c <= d
    PROVE  \A n \in Nat : n <= m + c => n <= m + d
  OBVIOUS

\* A request that starts keeps the invariant, when what it decided holds.
LEMMA StartInv ==
    ASSUME IInv, NEW r \in Request, NEW o \in Ops, Start(r, o), AllSame,
           \/ calls' = calls /\ ~Joins(o)
           \/ calls' = calls + 1 /\ calls < MaxCalls,
           o.step \in {"accept", "mark"} => invitation[o.i] # NoInvite,
           DatesBounded(o)', o.step # "own",
           Quiet /\ ~raced => Decided(o)
    PROVE  IInv'
<1>1. /\ TypeOK /\ RefsSound /\ RequestsSound /\ CallsCounted /\ Serial
      /\ Goto(r, o) /\ op[r] = NoOp /\ raced' = (raced \/ ~Quiet)
      /\ UNCHANGED <<now, owner, active, until, row, joins, invitation, personal, premium>>
  BY DEF IInv, Start, AllSame
<1>2. \A q \in Request : op'[q] = IF q = r THEN o ELSE op[q]
  BY <1>1, Going
<1>3. calls \in Nat /\ calls' \in Nat /\ calls' <= MaxCalls /\ calls <= calls'
      /\ MaxTime \in Nat
  BY <1>1, Typed
<1>4. TypeOK'
  <2>1. op' \in [Request -> Ops] /\ calls' \in 0..MaxCalls /\ raced' \in BOOLEAN
    BY <1>1, <1>3, Going, Typed
  <2> QED
    BY <1>1, <2>1 DEF TypeOK
<1>5. RefsSound'
  BY <1>1 DEF RefsSound, Exists
<1>6. RequestsSound'
  BY <1>1, <1>2 DEF RequestsSound
<1>7. CallsCounted'
  <2>1. Cardinality(Joining)' \in Nat /\ Cardinality(Joining) \in Nat
        /\ Cardinality(Joining)' = Cardinality(Joining) + One(Joins(o))
    <3>1. ~Joins(op[r])
      BY <1>1, NoOpFacts DEF Joins
    <3> QED
      BY <1>1, <3>1, Counts DEF One
  <2>2. Cardinality(Joining)' - calls' <= Cardinality(Joining) - calls
    BY <1>3, <2>1 DEF One
  <2>3. ASSUME NEW u \in User PROVE joins'[u] + Cardinality(Joining)' <= 1 + calls'
    <3>1. joins[u] \in Nat /\ joins'[u] = joins[u] /\ joins[u] + Cardinality(Joining) <= 1 + calls
      BY <1>1, Typed DEF CallsCounted
    <3> QED
      BY <1>3, <2>1, <2>2, <3>1
  <2>4. Cardinality(Joining)' <= calls'
    BY <1>1, <1>3, <2>1, <2>2 DEF CallsCounted
  <2>5. \A n \in Nat : n <= MaxTime + calls => n <= MaxTime + calls'
    BY <1>3, Farther
  <2>6. \A h \in Household : until'[h] <= MaxTime + calls'
    BY <1>1, <2>5, Typed DEF CallsCounted
  <2>7. \A u \in User : personal'[u] <= MaxTime + calls' /\ premium'[u] <= MaxTime + calls'
    BY <1>1, <2>5, Typed DEF CallsCounted
  <2>8. ASSUME NEW q \in Request PROVE DatesBounded(op[q])'
    <3>1. PICK x : x = op'[q]
      OBVIOUS
    <3>2. CASE q = r
      BY <1>2, <3>2 DEF DatesBounded
    <3>3. CASE q # r
      <4>1. x = op[q] /\ x \in Ops
        BY <1>1, <1>2, <3>1, <3>3, Typed
      <4>2. DatesBounded(x)
        BY <1>1, <4>1 DEF CallsCounted, DatesBounded
      <4>3. /\ x.step \in {"activate", "personal"} => x.until \in Nat
            /\ x.step = "write" => x.premium \in Nat
        BY <4>1, Shapes DEF Date
      <4>4. DatesBounded(x)'
        BY <2>5, <4>2, <4>3 DEF DatesBounded
      <4> QED
        BY <3>1, <4>4 DEF DatesBounded
    <3> QED
      BY <3>2, <3>3
  <2> QED
    BY <2>3, <2>4, <2>6, <2>7, <2>8 DEF CallsCounted
<1>8. Serial'
  <2>1. ASSUME ~raced'
        PROVE  /\ \A q \in Request : q # r => op[q] = NoOp
               /\ Decided(o)'
               /\ \A u \in User : Settled(u)' \/ u \in Awaiting(o)'
               /\ \A h \in Household : Exists(h)' => HouseSound(h)' \/ (o.step = "own" /\ o.h = h)
    <3>1. ~raced /\ Quiet
      BY <1>1, <2>1
    <3>2. /\ \A q \in Request : q # r => op[q] = NoOp
          /\ \A u \in User : Settled(u) \/ u \in Awaiting(op[r])
          /\ \A h \in Household : Exists(h) =>
                HouseSound(h) \/ (op[r].step = "own" /\ op[r].h = h)
      BY <1>1, <3>1, Alone
    <3>3. Awaiting(op[r]) = {} /\ op[r].step # "own"
      BY <1>1, NoOpFacts DEF Awaiting
    <3> QED
      BY <1>1, <3>1, <3>2, <3>3, SameHouses, SamePremiums, StillDecided
  <2> QED
    BY <1>1, <2>1, StaysSerial
<1> QED
  BY <1>4, <1>5, <1>6, <1>7, <1>8 DEF IInv

\* A counted request that starts keeps the invariant, when what it decided holds.
LEMMA BeginInv ==
    ASSUME IInv, NEW r \in Request, NEW o \in Ops, Begin(r, o),
           o.step \in {"accept", "mark"} => invitation[o.i] # NoInvite,
           o.step \in {"activate", "personal"} => o.until <= MaxTime + calls + 1,
           o.step \notin {"own", "write"},
           Quiet /\ ~raced => Decided(o)
    PROVE  IInv'
<1>1. TypeOK /\ Start(r, o) /\ AllSame /\ calls' = calls + 1 /\ calls < MaxCalls
  BY DEF IInv, Begin, households, members, users, AllSame
<1>2. DatesBounded(o)'
  <2>1. CASE o.step \in {"activate", "personal"}
    <3>1. o.until \in Nat
      BY <2>1, Shapes DEF Date
    <3>2. calls \in Nat /\ MaxTime \in Nat
      BY <1>1, Typed
    <3>3. o.until <= MaxTime + calls'
      BY <1>1, <2>1, <3>1, <3>2
    <3> QED
      BY <2>1, <3>3 DEF DatesBounded
  <2>2. CASE o.step \notin {"activate", "personal"}
    BY <2>2 DEF DatesBounded
  <2> QED
    BY <2>1, <2>2
<1> QED
  BY <1>1, <1>2, StartInv

\* When all is quiet after requests that did not overlap, the households and
\* the premiums are as they should be.
LEMMA QuietSound ==
    ASSUME Serial, ~raced, Quiet
    PROVE  /\ \A u \in User : Settled(u)
           /\ \A h \in Household : Exists(h) => HouseSound(h)
<1>1. \A r \in Request : op[r] = NoOp
  BY DEF Quiet
<1>2. \A r \in Request : Awaiting(op[r]) = {} /\ op[r].step # "own"
  BY <1>1, NoOpFacts DEF Awaiting
<1>3. ASSUME NEW u \in User PROVE Settled(u)
  <2>1. Settled(u) \/ \E r \in Request : u \in Awaiting(op[r])
    BY DEF Serial, Awaiting
  <2> QED
    BY <1>2, <2>1
<1>4. ASSUME NEW h \in Household, Exists(h) PROVE HouseSound(h)
  <2>1. HouseSound(h) \/ \E r \in Request : op[r].step = "own" /\ op[r].h = h
    BY <1>4 DEF Serial
  <2> QED
    BY <1>2, <2>1
<1> QED
  BY <1>3, <1>4

\* The creation of a household by a user without one.
LEMMA CreateReadInv ==
    ASSUME IInv, NEW r \in Request, NEW u \in User, CreateRead(r, u) PROVE IInv'
<1>1. PICK o : o = [step |-> "create", u |-> u, pays |-> FALSE] /\ row[u] = NoRow /\ Begin(r, o)
  BY DEF CreateRead
<1>2. o \in Ops /\ o.step = "create" /\ o.u = u
  BY <1>1 DEF Ops
<1>3. Decided(o)
  BY <1>1, <1>2 DEF Decided
<1> QED
  BY <1>1, <1>2, <1>3, BeginInv

\* The owner finds a place to offer.
LEMMA InviteReadInv ==
    ASSUME IInv, NEW r \in Request, NEW u \in User, NEW v \in User, InviteRead(r, u, v) PROVE IInv'
<1>1. PICK h \in Household :
         /\ owner[h] = u
         /\ Cardinality(Members(h)) + Cardinality(Pending(h)) < MaxMembers
         /\ Begin(r, [step |-> "invite", h |-> h, to |-> v])
  BY DEF InviteRead
<1>2. PICK o : o = [step |-> "invite", h |-> h, to |-> v] /\ Begin(r, o)
  BY <1>1
<1>3. o \in Ops /\ o.step = "invite" /\ o.h = h
  BY <1>2 DEF Ops
<1>4. Decided(o)
  BY <1>1, <1>3 DEF Decided, Exists
<1> QED
  BY <1>2, <1>3, <1>4, BeginInv

\* Marking an invitation decides nothing.
LEMMA MarkReadInv ==
    ASSUME IInv, NEW r \in Request, NEW i \in Invitations, invitation[i].status = "pending",
           NEW s \in {"declined", "expired", "cancelled"},
           Begin(r, [step |-> "mark", i |-> i, status |-> s])
    PROVE  IInv'
<1>1. PICK o : o = [step |-> "mark", i |-> i, status |-> s] /\ Begin(r, o)
  OBVIOUS
<1>2. o \in Ops /\ o.step = "mark" /\ o.i = i
  BY <1>1 DEF Ops
<1>3. Decided(o)
  BY <1>2 DEF Decided
<1>4. invitation[i] # NoInvite
  BY DEF NoInvite
<1> QED
  BY <1>1, <1>2, <1>3, <1>4, BeginInv

\* A user answers an invitation, or finds it too old.
LEMMA AcceptReadInv ==
    ASSUME IInv, NEW r \in Request, NEW u \in User, AcceptRead(r, u) PROVE IInv'
<1>1. PICK i \in Received(u) :
         IF invitation[i].expires <= now
         THEN Begin(r, [step |-> "mark", i |-> i, status |-> "expired"])
         ELSE /\ row[u] = NoRow
              /\ Cardinality(Members(invitation[i].h)) < MaxMembers
              /\ Begin(r, [step |-> "accept", u |-> u, i |-> i])
  BY DEF AcceptRead
<1>2. i \in Invitations /\ invitation[i].status = "pending"
  BY DEF Received
<1>3. CASE invitation[i].expires <= now
  BY <1>1, <1>2, <1>3, MarkReadInv
<1>4. CASE ~(invitation[i].expires <= now)
  <2>1. PICK o : o = [step |-> "accept", u |-> u, i |-> i] /\ Begin(r, o)
    BY <1>1, <1>4
  <2>2. o \in Ops /\ o.step = "accept" /\ o.i = i /\ o.u = u
    BY <1>2, <2>1 DEF Ops
  <2>3. invitation[i] # NoInvite /\ invitation[i] \in Sent
    BY <1>2, Typed DEF NoInvite, IInv
  <2>4. ASSUME Quiet, ~raced PROVE Decided(o)
    <3>1. PICK h : h = invitation[i].h
      OBVIOUS
    <3>2. h \in Household /\ Exists(h)
      BY <1>2, <2>3, <3>1 DEF Sent, RefsSound, IInv
    <3>3. Cardinality(Members(h)) + Cardinality(Pending(h)) <= MaxMembers
      BY <2>4, <3>2, QuietSound DEF HouseSound, IInv
    <3>4. i \in Pending(h)
      <4>1. invitation[i].expires \in Int /\ now \in Int
        BY <2>3, Typed, HouseholdAssumption DEF Sent, IInv
      <4> QED
        BY <1>2, <1>4, <3>1, <4>1 DEF Pending
    <3>5. Cardinality(Pending(h) \ {i}) = Cardinality(Pending(h)) - 1
      BY <3>4, Finite, FS_RemoveElement
    <3>6. Cardinality(Members(h)) + Cardinality(Pending(h) \ {i}) < MaxMembers
      BY <3>3, <3>5, Finite, HouseholdAssumption
    <3> QED
      BY <1>1, <1>4, <2>2, <2>3, <3>1, <3>6 DEF Decided
  <2> QED
    BY <2>1, <2>2, <2>3, <2>4, BeginInv
<1> QED
  BY <1>3, <1>4

\* A user declines an invitation.
LEMMA DeclineReadInv ==
    ASSUME IInv, NEW r \in Request, NEW u \in User, DeclineRead(r, u) PROVE IInv'
  BY MarkReadInv DEF DeclineRead, Received

\* The owner cancels an invitation.
LEMMA CancelReadInv ==
    ASSUME IInv, NEW r \in Request, NEW u \in User, CancelRead(r, u) PROVE IInv'
  BY MarkReadInv DEF CancelRead

\* The row a request will delete is not that of the owner.
LEMMA RemovalInv ==
    ASSUME IInv, NEW r \in Request, NEW v \in User, row[v] # NoRow,
           Quiet /\ ~raced => row[v].role = "member",
           Begin(r, [step |-> "remove", u |-> v, id |-> row[v].id])
    PROVE  IInv'
<1>1. PICK o : o = [step |-> "remove", u |-> v, id |-> row[v].id] /\ Begin(r, o)
  OBVIOUS
<1>2. row[v].id \in RowId
  BY Typed DEF IInv
<1>3. o \in Ops /\ o.step = "remove" /\ o.u = v /\ o.id = row[v].id
  BY <1>1, <1>2 DEF Ops
<1>4. Quiet /\ ~raced => Decided(o)
  BY <1>3 DEF Decided, HasRow
<1> QED
  BY <1>1, <1>3, <1>4, BeginInv

\* A member, not the owner, leaves.
LEMMA LeaveReadInv ==
    ASSUME IInv, NEW r \in Request, NEW u \in User, LeaveRead(r, u) PROVE IInv'
  BY RemovalInv DEF LeaveRead

\* The owner removes another, who is a member then.
LEMMA RemoveReadInv ==
    ASSUME IInv, NEW r \in Request, NEW u \in User, NEW v \in User, RemoveRead(r, u, v) PROVE IInv'
<1>1. u # v /\ row[v] # NoRow /\ owner[row[v].h] = u
      /\ Begin(r, [step |-> "remove", u |-> v, id |-> row[v].id])
  BY DEF RemoveRead
<1>2. ASSUME Quiet, ~raced PROVE row[v].role = "member"
  <2>1. PICK h : h = row[v].h
    OBVIOUS
  <2>2. h \in Household /\ Exists(h) /\ row[v].role \in {"owner", "member"}
    BY <1>1, <2>1, Typed DEF Exists, IInv
  <2>3. Owners(h) = {u}
    BY <1>1, <1>2, <2>1, <2>2, QuietSound DEF HouseSound, IInv
  <2> QED
    BY <1>1, <2>1, <2>2, <2>3 DEF Owners, Members
<1> QED
  BY <1>1, <1>2, RemovalInv

\* The owner, who has a row then, hands over to a member.
LEMMA TransferReadInv ==
    ASSUME IInv, NEW r \in Request, NEW u \in User, NEW v \in User, TransferRead(r, u, v)
    PROVE  IInv'
<1>1. PICK h \in Household :
         /\ owner[h] = u /\ u # v /\ row[v].h = h
         /\ Begin(r, [step |-> "transfer", h |-> h,
                      from |-> u, fromId |-> IF row[u].h = h THEN row[u].id ELSE 0,
                      to |-> v, toId |-> row[v].id])
  BY DEF TransferRead
<1>2. PICK n : n = IF row[u].h = h THEN row[u].id ELSE 0
  OBVIOUS
<1>3. PICK o : /\ o = [step |-> "transfer", h |-> h, from |-> u, fromId |-> n,
                       to |-> v, toId |-> row[v].id]
               /\ Begin(r, o)
  BY <1>1, <1>2
<1>4. /\ row[v] # NoRow /\ row[v].id \in RowId
      /\ row[u].h = h => row[u] # NoRow /\ row[u].id \in RowId
  BY <1>1, Typed DEF IInv
<1>5. n \in RowId \cup {0} /\ (row[u].h = h => n # 0)
  BY <1>2, <1>4 DEF RowId
<1>6. /\ o \in Ops /\ o.step = "transfer" /\ o.h = h /\ o.from = u /\ o.fromId = n
      /\ o.to = v /\ o.toId = row[v].id
  BY <1>3, <1>4, <1>5 DEF Ops
<1>7. ASSUME Quiet, ~raced PROVE Decided(o)
  <2>1. row[u].h = h
    BY <1>1, <1>7, QuietSound DEF HouseSound, Exists, IInv
  <2> QED
    BY <1>1, <1>4, <1>5, <1>6, <2>1 DEF Decided, HasRow
<1> QED
  BY <1>3, <1>6, <1>7, BeginInv

\* The owner dissolves: the members are those of now.
LEMMA DissolveReadInv ==
    ASSUME IInv, NEW r \in Request, NEW u \in User, DissolveRead(r, u) PROVE IInv'
<1>1. PICK h \in Household : Begin(r, [step |-> "dissolve", h |-> h, users |-> Members(h)])
  BY DEF DissolveRead
<1>2. PICK o : o = [step |-> "dissolve", h |-> h, users |-> Members(h)] /\ Begin(r, o)
  BY <1>1
<1>3. o \in Ops /\ o.step = "dissolve" /\ o.h = h /\ o.users = Members(h)
  BY <1>2 DEF Ops, Members
<1>4. Decided(o)
  BY <1>3 DEF Decided
<1> QED
  BY <1>2, <1>3, <1>4, BeginInv

\* A payment takes a date no further than one tick.
LEMMA Extending ==
    ASSUME IInv, NEW d \in Nat, d <= MaxTime + calls, calls < MaxCalls
    PROVE  Extended(d) \in Date /\ Extended(d) <= MaxTime + calls + 1
<1>1. /\ now \in Nat /\ now <= MaxTime /\ calls \in Nat /\ MaxTime \in Nat
      /\ MaxCalls \in Nat
  BY Typed DEF IInv
<1>2. Extended(d) \in Nat /\ Extended(d) <= MaxTime + calls + 1
  BY <1>1 DEF Extended
<1> QED
  BY <1>1, <1>2 DEF Date

\* A family plan is paid, for a household or for one to create.
LEMMA ActivateReadInv ==
    ASSUME IInv, NEW r \in Request, NEW u \in User, ActivateRead(r, u) PROVE IInv'
<1>1. CASE \E h \in Household :
             /\ owner[h] = u
             /\ Begin(r, [step |-> "activate", h |-> h, until |-> Extended(until[h])])
  <2>1. PICK h \in Household :
           Begin(r, [step |-> "activate", h |-> h, until |-> Extended(until[h])])
    BY <1>1
  <2>2. PICK d : d = Extended(until[h])
    OBVIOUS
  <2>3. PICK o : o = [step |-> "activate", h |-> h, until |-> d] /\ Begin(r, o)
    BY <2>1, <2>2
  <2>4. until[h] \in Nat /\ until[h] <= MaxTime + calls /\ calls < MaxCalls
    BY <2>1, Typed DEF IInv, CallsCounted, Begin
  <2>5. d \in Date /\ d <= MaxTime + calls + 1
    BY <2>2, <2>4, Extending
  <2>6. o \in Ops /\ o.step = "activate" /\ o.until = d
    BY <2>3, <2>5 DEF Ops
  <2>7. Decided(o)
    BY <2>6 DEF Decided
  <2> QED
    BY <2>3, <2>5, <2>6, <2>7, BeginInv
<1>2. CASE row[u] = NoRow /\ Begin(r, [step |-> "create", u |-> u, pays |-> TRUE])
  <2>1. PICK o : o = [step |-> "create", u |-> u, pays |-> TRUE] /\ Begin(r, o)
    BY <1>2
  <2>2. o \in Ops /\ o.step = "create" /\ o.u = u
    BY <2>1 DEF Ops
  <2>3. Decided(o)
    BY <1>2, <2>2 DEF Decided
  <2> QED
    BY <2>1, <2>2, <2>3, BeginInv
<1> QED
  BY <1>1, <1>2 DEF ActivateRead

\* A personal plan is paid.
LEMMA PersonalReadInv ==
    ASSUME IInv, NEW r \in Request, NEW u \in User, PersonalRead(r, u) PROVE IInv'
<1>1. PICK d : d = Extended(personal[u])
  OBVIOUS
<1>2. PICK o : o = [step |-> "personal", u |-> u, until |-> d] /\ Begin(r, o)
  BY <1>1 DEF PersonalRead
<1>3. personal[u] \in Nat /\ personal[u] <= MaxTime + calls /\ calls < MaxCalls
  BY <1>2, Typed DEF IInv, CallsCounted, Begin
<1>4. d \in Date /\ d <= MaxTime + calls + 1
  BY <1>1, <1>3, Extending
<1>5. o \in Ops /\ o.step = "personal" /\ o.until = d
  BY <1>2, <1>4 DEF Ops
<1>6. Decided(o)
  BY <1>5 DEF Decided
<1> QED
  BY <1>2, <1>4, <1>5, <1>6, BeginInv

\* The job reads the subscriptions that are over.
LEMMA ExpireReadInv ==
    ASSUME IInv, NEW r \in Request, ExpireRead(r) PROVE IInv'
<1>1. PICK due : due = {h \in Household : active[h] /\ until[h] < now}
  OBVIOUS
<1>2. PICK o : o = [step |-> "expire", todo |-> due] /\ Start(r, o)
  BY <1>1 DEF ExpireRead
<1>3. o \in Ops /\ o.step = "expire" /\ o.todo = due
  BY <1>1, <1>2 DEF Ops
<1>4. Decided(o)
  BY <1>1, <1>3 DEF Decided
<1>5. AllSame /\ calls' = calls
  BY DEF ExpireRead, AllSame, households, members, users
<1>6. ~Joins(o) /\ DatesBounded(o)'
  BY <1>3 DEF Joins, DatesBounded
<1> QED
  BY <1>2, <1>3, <1>4, <1>5, <1>6, StartInv

\* A user whose premium differs opens the application.
LEMMA SyncReadInv ==
    ASSUME IInv, NEW r \in Request, NEW u \in User, SyncRead(r, u) PROVE IInv'
<1>1. PICK d : d = Entitled(u)
  OBVIOUS
<1>2. PICK o : /\ o = [step |-> "write", u |-> u, premium |-> d, users |-> {},
                       job |-> FALSE, todo |-> {}]
               /\ Start(r, o)
  BY <1>1 DEF SyncRead
<1>3. d \in Date /\ d <= MaxTime + calls /\ Current(d) = Entitled(u)
  BY <1>1, Premiums DEF IInv
<1>4. o \in Ops /\ o.step = "write" /\ o.premium = d /\ o.u = u /\ o.todo = {}
  BY <1>2, <1>3 DEF Ops
<1>5. Decided(o)
  BY <1>3, <1>4 DEF Decided
<1>6. AllSame /\ calls' = calls
  BY DEF SyncRead, AllSame, households, members, users
<1>7. ~Joins(o) /\ DatesBounded(o)'
  BY <1>3, <1>4, <1>6 DEF Joins, DatesBounded
<1> QED
  BY <1>2, <1>4, <1>5, <1>6, <1>7, StartInv

-----------------------------------------------------------------------------
(* Requests that go on *)

\* A step that writes keeps the invariant when references, bounds and, for a
\* request that was alone, premiums and households are as they should be.
LEMMA GoOnInv ==
    ASSUME IInv, NEW r \in Request, NEW o \in Ops, op[r] # NoOp, Goto(r, o),
           UNCHANGED <<now, calls, raced>>,
           op' \in [Request -> Ops] => TypeOK',
           RefsSound',
           \A i \in Invitations : invitation[i] # NoInvite => invitation'[i] # NoInvite,
           o.step \notin {"accept", "mark"},
           One(Joins(o)) <= One(Joins(op[r])),
           \A u \in User : joins'[u] + One(Joins(o)) <= joins[u] + One(Joins(op[r])),
           \A h \in Household : until'[h] <= MaxTime + calls,
           \A u \in User : personal'[u] <= MaxTime + calls /\ premium'[u] <= MaxTime + calls,
           DatesBounded(o)',
           ~raced =>
             /\ Decided(o)'
             /\ \A u \in User : Settled(u)' \/ u \in Awaiting(o)'
             /\ \A h \in Household : Exists(h)' => HouseSound(h)' \/ (o.step = "own" /\ o.h = h)
    PROVE  IInv'
<1>1. TypeOK /\ RequestsSound /\ CallsCounted /\ Serial /\ now' = now /\ calls' = calls
      /\ raced' = raced
  BY DEF IInv
<1>2. \A q \in Request : op'[q] = IF q = r THEN o ELSE op[q]
  BY <1>1, Going
<1>3. TypeOK'
  BY <1>1, Going
<1>4. RequestsSound'
  <2>1. \A q \in Request : op[q].step \in {"accept", "mark"} => op[q].i \in Invitations
    BY <1>1, Typed, Shapes
  <2> QED
    BY <1>1, <1>2, <2>1 DEF RequestsSound
<1>5. CallsCounted'
  <2>1. /\ Cardinality(Joining)' \in Nat /\ Cardinality(Joining) \in Nat
        /\ Cardinality(Joining)' = Cardinality(Joining) + One(Joins(o)) - One(Joins(op[r]))
    BY <1>1, Counts
  <2>2. One(Joins(o)) \in {0, 1} /\ One(Joins(op[r])) \in {0, 1} /\ calls \in Nat
    BY <1>1, Typed DEF One
  <2>3. ASSUME NEW u \in User PROVE joins'[u] + Cardinality(Joining)' <= 1 + calls'
    <3>1. joins[u] \in Nat /\ joins[u] + Cardinality(Joining) <= 1 + calls
      BY <1>1, Typed DEF CallsCounted
    <3>2. joins'[u] \in Nat
      BY <1>3, HouseholdAssumption DEF TypeOK, RowId
    <3>3. joins'[u] + One(Joins(o)) <= joins[u] + One(Joins(op[r]))
      OBVIOUS
    <3> QED
      BY <1>1, <2>1, <2>2, <3>1, <3>2, <3>3
  <2>4. Cardinality(Joining)' <= calls'
    <3>1. Cardinality(Joining) <= calls
      BY <1>1 DEF CallsCounted
    <3> QED
      BY <1>1, <2>1, <2>2, <3>1
  <2>5. ASSUME NEW q \in Request PROVE DatesBounded(op[q])'
    <3>1. PICK x : x = op'[q]
      OBVIOUS
    <3>2. CASE q = r
      BY <1>2, <3>2 DEF DatesBounded
    <3>3. CASE q # r
      <4>1. x = op[q]
        BY <1>2, <3>1, <3>3
      <4>2. DatesBounded(x)
        BY <1>1, <4>1 DEF CallsCounted, DatesBounded
      <4>3. DatesBounded(x)'
        BY <1>1, <4>2 DEF DatesBounded
      <4> QED
        BY <3>1, <4>3 DEF DatesBounded
    <3> QED
      BY <3>2, <3>3
  <2> QED
    BY <1>1, <2>3, <2>4, <2>5 DEF CallsCounted
<1>6. Serial'
  <2>1. ~raced' => \A q \in Request : q # r => op[q] = NoOp
    BY <1>1, Alone
  <2> QED
    BY <1>1, <2>1, StaysSerial
<1> QED
  BY <1>3, <1>4, <1>5, <1>6 DEF IInv

\* The bounds that hold before a step.
LEMMA Bounds ==
    ASSUME IInv
    PROVE  /\ \A h \in Household : until[h] <= MaxTime + calls
           /\ \A u \in User : personal[u] <= MaxTime + calls /\ premium[u] <= MaxTime + calls
           /\ \A r \in Request : DatesBounded(op[r])
           /\ \A r \in Request : Joins(op[r]) =>
                 calls >= 1 /\ \A u \in User : joins[u] <= calls
<1>1. TypeOK /\ CallsCounted
  BY DEF IInv
<1>2. ASSUME NEW r \in Request, Joins(op[r])
      PROVE  calls >= 1 /\ \A u \in User : joins[u] <= calls
  <2>1. Cardinality(Joining) \in Nat /\ Cardinality(Joining) > 0 /\ calls \in Nat
    BY <1>1, <1>2, Counts, Typed
  <2>2. Cardinality(Joining) <= calls
    BY <1>1 DEF CallsCounted
  <2>3. ASSUME NEW u \in User PROVE joins[u] <= calls
    <3>1. joins[u] \in Nat /\ joins[u] + Cardinality(Joining) <= 1 + calls
      BY <1>1, Typed DEF CallsCounted
    <3> QED
      BY <2>1, <3>1
  <2> QED
    BY <2>1, <2>2, <2>3
<1> QED
  BY <1>1, <1>2 DEF CallsCounted

\* A handler that ends without writing.
LEMMA FailInv ==
    ASSUME IInv, NEW r \in Request, op[r] # NoOp, Fail(r), AllSame,
           UNCHANGED <<calls, raced>>,
           raced \/ op[r].step \notin {"own", "recompute", "write", "members"}
    PROVE  IInv'
<1>1. PICK o \in Ops : o = NoOp /\ Goto(r, o) /\ o.step = "none"
  BY NoOpFacts DEF Fail
<1>2. op' \in [Request -> Ops] => TypeOK'
  BY DEF IInv, TypeOK, AllSame
<1>3. RefsSound'
  BY DEF IInv, RefsSound, AllSame, Exists
<1>4. ~Joins(o) /\ DatesBounded(o)' /\ Decided(o)'
  BY <1>1 DEF Joins, DatesBounded, Decided
<1>5. One(Joins(o)) = 0 /\ One(Joins(op[r])) \in {0, 1}
  BY <1>4 DEF One
<1>6. ASSUME NEW u \in User PROVE joins'[u] + One(Joins(o)) <= joins[u] + One(Joins(op[r]))
  <2>1. joins[u] \in Nat /\ joins'[u] = joins[u]
    BY Typed DEF IInv, AllSame
  <2> QED
    BY <1>5, <2>1
<1>7. ASSUME ~raced
      PROVE  /\ \A u \in User : Settled(u)' \/ u \in Awaiting(o)'
             /\ \A h \in Household : Exists(h)' => HouseSound(h)' \/ (o.step = "own" /\ o.h = h)
  <2>1. Awaiting(op[r]) = {} /\ op[r].step # "own"
    BY <1>7 DEF Awaiting
  <2>2. /\ \A u \in User : Settled(u)
        /\ \A h \in Household : Exists(h) => HouseSound(h)
    BY <1>7, <2>1, Alone DEF IInv
  <2> QED
    BY <2>2, SamePremiums, SameHouses DEF AllSame
<1>8. /\ \A h \in Household : until'[h] <= MaxTime + calls
      /\ \A u \in User : personal'[u] <= MaxTime + calls /\ premium'[u] <= MaxTime + calls
  BY Bounds DEF AllSame
<1> QED
  BY <1>1, <1>2, <1>3, <1>4, <1>5, <1>6, <1>7, <1>8, GoOnInv DEF AllSame

\* Recompute goes on with the users, else with the job, else ends.
LEMMA Recomputing ==
    ASSUME NEW r \in Request, NEW S \in SUBSET User, NEW job \in BOOLEAN,
           NEW todo \in SUBSET Household, Recompute(r, S, job, todo)
    PROVE  \E o \in Ops :
             /\ Goto(r, o)
             /\ o.step \in {"recompute", "expire", "none"}
             /\ o.step = "recompute" => o.users = S /\ o.todo = todo
             /\ o.step = "expire" => o.todo = todo /\ S = {}
             /\ o.step = "none" => S = {}
<1>1. CASE S # {}
  <2>1. PICK o : /\ o = [step |-> "recompute", users |-> S, job |-> job, todo |-> todo]
                 /\ Goto(r, o)
    BY <1>1 DEF Recompute
  <2>2. o \in Ops /\ o.step = "recompute" /\ o.users = S /\ o.todo = todo
    BY <2>1 DEF Ops
  <2> QED
    BY <2>1, <2>2
<1>2. CASE S = {} /\ job
  <2>1. PICK o : o = [step |-> "expire", todo |-> todo] /\ Goto(r, o)
    BY <1>2 DEF Recompute
  <2>2. o \in Ops /\ o.step = "expire" /\ o.todo = todo
    BY <2>1 DEF Ops
  <2> QED
    BY <1>2, <2>1, <2>2
<1>3. CASE S = {} /\ ~job
  BY <1>3, NoOpFacts DEF Recompute
<1> QED
  BY <1>1, <1>2, <1>3

\* A step that writes and goes on with the premium of those it concerns.
LEMMA RecomputeInv ==
    ASSUME IInv, NEW r \in Request, NEW S \in SUBSET User, NEW job \in BOOLEAN,
           NEW todo \in SUBSET Household, op[r] # NoOp, Recompute(r, S, job, todo),
           UNCHANGED <<now, calls, raced>>,
           op' \in [Request -> Ops] => TypeOK',
           RefsSound',
           \A i \in Invitations : invitation[i] # NoInvite => invitation'[i] # NoInvite,
           \A u \in User : joins'[u] <= joins[u] + One(Joins(op[r])),
           \A h \in Household : until'[h] <= MaxTime + calls,
           \A u \in User : personal'[u] <= MaxTime + calls /\ premium'[u] <= MaxTime + calls,
           ~raced =>
             /\ \A h \in todo : until'[h] < now
             /\ \A u \in User : Settled(u)' \/ u \in S
             /\ \A h \in Household : Exists(h)' => HouseSound(h)'
    PROVE  IInv'
<1>1. PICK o \in Ops :
         /\ Goto(r, o)
         /\ o.step \in {"recompute", "expire", "none"}
         /\ o.step = "recompute" => o.users = S /\ o.todo = todo
         /\ o.step = "expire" => o.todo = todo /\ S = {}
         /\ o.step = "none" => S = {}
  BY Recomputing
<1>2. ~Joins(o) /\ DatesBounded(o)' /\ o.step \notin {"accept", "mark", "own"}
  BY <1>1 DEF Joins, DatesBounded
<1>3. One(Joins(o)) = 0 /\ One(Joins(op[r])) \in {0, 1}
  BY <1>2 DEF One
<1>4. One(Joins(o)) <= One(Joins(op[r]))
  BY <1>3
<1>5. ASSUME NEW u \in User PROVE joins'[u] + One(Joins(o)) <= joins[u] + One(Joins(op[r]))
  <2>1. TypeOK'
    BY <1>1, Going DEF IInv
  <2>2. joins'[u] \in Nat
    BY <2>1, HouseholdAssumption DEF TypeOK, RowId
  <2>3. joins'[u] <= joins[u] + One(Joins(op[r])) /\ joins[u] \in Nat
    BY Typed DEF IInv
  <2> QED
    BY <1>3, <2>2, <2>3
<1>6. ASSUME ~raced
      PROVE  /\ Decided(o)'
             /\ \A u \in User : Settled(u)' \/ u \in Awaiting(o)'
             /\ \A h \in Household : Exists(h)' => HouseSound(h)' \/ (o.step = "own" /\ o.h = h)
  <2>1. Decided(o)'
    BY <1>1, <1>6 DEF Decided
  <2>2. \A u \in S : u \in Awaiting(o)'
    BY <1>1 DEF Awaiting
  <2> QED
    BY <1>6, <2>1, <2>2
<1> QED
  BY <1>1, <1>2, <1>4, <1>5, <1>6, GoOnInv

\* A household stays sound when its owner and its rows stay and the offers
\* do not grow.
LEMMA SameHouse ==
    ASSUME NEW h, UNCHANGED now, owner'[h] = owner[h], owner[h] \in User,
           \A w \in User : row[w].h = h \/ row'[w].h = h => row'[w] = row[w],
           Pending(h)' \subseteq Pending(h), HouseSound(h)
    PROVE  HouseSound(h)'
<1>1. Members(h)' = Members(h)
  BY DEF Members
<1>2. Owners(h)' = Owners(h)
  BY <1>1 DEF Owners, Members
<1>3. row'[owner'[h]].h = h
  BY DEF HouseSound
<1>4. Cardinality(Pending(h)') <= Cardinality(Pending(h))
  BY Finite, FS_Subset
<1>5. Cardinality(Members(h)') + Cardinality(Pending(h)') <= MaxMembers
  BY <1>1, <1>4, Finite, HouseholdAssumption DEF HouseSound
<1> QED
  BY <1>2, <1>3, <1>5 DEF HouseSound

\* A premium stays settled when nothing it comes from changes.
LEMMA SamePremium ==
    ASSUME NEW u, UNCHANGED now, personal'[u] = personal[u], premium'[u] = premium[u],
           Family(u)' = Family(u), Settled(u)
    PROVE  Settled(u)'
<1>1. Entitled(u)' = Entitled(u)
  BY DEF Entitled, Current
<1> QED
  BY <1>1 DEF Settled, Current

\* What a user inherits stays when his row and its household's subscription do.
LEMMA SameFamily ==
    ASSUME NEW u, UNCHANGED now, row'[u] = row[u],
           row[u] # NoRow => /\ active'[row[u].h] = active[row[u].h]
                             /\ until'[row[u].h] = until[row[u].h]
    PROVE  Family(u)' = Family(u)
  BY DEF Family, Current

\* The household is created with no row, no offer and no subscription.
LEMMA CreateHouseholdInv ==
    ASSUME IInv, NEW r \in Request, CreateHousehold(r) PROVE IInv'
<1>1. /\ op[r] \in Ops /\ op[r] # NoOp /\ op[r].step = "create"
      /\ op[r].u \in User /\ op[r].pays \in BOOLEAN
  BY Typed, Shapes, NoOpFacts DEF CreateHousehold, IInv
<1>2. /\ UNCHANGED <<now, row, joins, invitation, personal, premium, calls, raced>>
      /\ UNCHANGED <<active, until>>
  BY DEF CreateHousehold, members, users, households
<1>3. CASE \E h \in Household : owner[h] = op[r].u
  <2>1. Fail(r) /\ AllSame
    BY <1>2, <1>3 DEF CreateHousehold, households, AllSame
  <2> QED
    BY <1>1, <1>2, <2>1, FailInv
<1>4. CASE ~\E h \in Household : owner[h] = op[r].u
  <2>1. PICK u : u = op[r].u /\ u \in User
    BY <1>1
  <2>2. PICK h \in Household :
           /\ owner[h] = Nobody
           /\ owner' = [owner EXCEPT ![h] = u]
           /\ Goto(r, [step |-> "own", u |-> u, h |-> h, pays |-> op[r].pays])
    BY <1>4, <2>1 DEF CreateHousehold
  <2>3. PICK o : /\ o = [step |-> "own", u |-> u, h |-> h, pays |-> op[r].pays]
                 /\ Goto(r, o)
    BY <2>2
  <2>4. o \in Ops /\ o.step = "own" /\ o.u = u /\ o.h = h
    BY <1>1, <2>1, <2>3 DEF Ops
  <2>5. /\ owner \in [Household -> User \cup {Nobody, Deleted}]
        /\ \A g \in Household : owner'[g] = IF g = h THEN u ELSE owner[g]
    BY <2>2 DEF IInv, TypeOK
  <2>6. op' \in [Request -> Ops] => TypeOK'
    BY <1>2, <2>1, <2>2, <2>5 DEF IInv, TypeOK
  <2>7. ~Exists(h) /\ \A g \in Household : (Exists(g)' <=> Exists(g) \/ g = h)
    BY <2>1, <2>2, <2>5, HouseholdAssumption DEF Exists
  <2>8. RefsSound'
    <3>1. /\ \A w \in User : row[w] # NoRow => row[w].h \in Household
          /\ \A i \in Invitations : invitation[i] \in Sent => invitation[i].h \in Household
      BY Typed DEF Sent, IInv
    <3> QED
      BY <1>2, <2>7, <3>1 DEF RefsSound, IInv
  <2>9. Joins(o) /\ Joins(op[r]) /\ DatesBounded(o)'
    BY <1>1, <2>4 DEF Joins, DatesBounded
  <2>10. One(Joins(o)) = 1 /\ One(Joins(op[r])) = 1
    BY <2>9 DEF One
  <2>11. ASSUME NEW w \in User PROVE joins'[w] + One(Joins(o)) <= joins[w] + One(Joins(op[r]))
    <3>1. joins[w] \in Nat /\ joins'[w] = joins[w]
      BY <1>2, Typed DEF IInv
    <3> QED
      BY <2>10, <3>1
  <2>12. ASSUME ~raced
         PROVE  /\ Decided(o)'
                /\ \A w \in User : Settled(w)' \/ w \in Awaiting(o)'
                /\ \A g \in Household : Exists(g)' =>
                      HouseSound(g)' \/ (o.step = "own" /\ o.h = g)
    <3>1. /\ Decided(op[r]) /\ Awaiting(op[r]) = {}
          /\ \A w \in User : Settled(w) \/ w \in Awaiting(op[r])
          /\ \A g \in Household : Exists(g) => HouseSound(g)
      BY <1>1, <2>12, Alone DEF IInv, Awaiting
    <3>2. row[u] = NoRow
      BY <1>1, <2>1, <3>1 DEF Decided
    <3>3. Members(h) = {} /\ ~active[h]
      BY <2>2, <2>7, Typed DEF Members, IInv, RefsSound
    <3>4. Members(h)' = {}
      BY <1>2, <3>3 DEF Members
    <3>5. \A i \in Invitations : invitation[i] \in Sent => invitation[i].h # h
      BY <2>7 DEF IInv, RefsSound
    <3>6. Decided(o)'
      BY <1>2, <2>4, <2>5, <3>2, <3>3, <3>4, <3>5 DEF Decided
    <3>7. \A w \in User : Settled(w)'
      BY <1>2, <3>1, SamePremiums
    <3>8. ASSUME NEW g \in Household, Exists(g)', g # h PROVE HouseSound(g)'
      <4>1. Exists(g) /\ HouseSound(g) /\ owner'[g] = owner[g]
        BY <2>5, <2>7, <3>1, <3>8
      <4>2. Pending(g)' = Pending(g)
        BY <1>2 DEF Pending
      <4> QED
        BY <1>2, <4>1, <4>2, SameHouse DEF Exists
    <3> QED
      BY <2>4, <3>6, <3>7, <3>8
  <2>13. /\ \A g \in Household : until'[g] <= MaxTime + calls
         /\ \A w \in User : personal'[w] <= MaxTime + calls /\ premium'[w] <= MaxTime + calls
    BY <1>2, Bounds
  <2>14. One(Joins(o)) <= One(Joins(op[r])) /\ o.step \notin {"accept", "mark"}
    BY <2>4, <2>10
  <2>15. \A i \in Invitations : invitation[i] # NoInvite => invitation'[i] # NoInvite
    BY <1>2
  <2> QED
    BY <1>1, <1>2, <2>3, <2>4, <2>6, <2>8, <2>9, <2>11, <2>12, <2>13, <2>14, <2>15, GoOnInv
<1> QED
  BY <1>3, <1>4

\* A new row of a user who had none.
LEMMA NewRow ==
    ASSUME IInv, NEW r \in Request, Joins(op[r]), NEW u \in User, NEW h \in Household,
           NEW role \in {"owner", "member"}, joins' = [joins EXCEPT ![u] = @ + 1],
           row' = [row EXCEPT ![u] = [h |-> h, role |-> role, id |-> joins'[u]]]
    PROVE  /\ joins' \in [User -> {0} \cup RowId]
           /\ row' \in [User -> {NoRow} \cup [h : Household, role : {"owner", "member"}, id : RowId]]
           /\ \A w \in User : joins'[w] <= joins[w] + 1 /\ joins'[w] \in Nat /\ joins[w] \in Nat
           /\ \A w \in User \ {u} : row'[w] = row[w]
           /\ row'[u].h = h /\ row'[u].role = role /\ row'[u] # NoRow
<1>1. /\ joins \in [User -> {0} \cup RowId]
      /\ row \in [User -> {NoRow} \cup [h : Household, role : {"owner", "member"}, id : RowId]]
  BY DEF IInv, TypeOK
<1>2. /\ \A w \in User : joins[w] \in Nat /\ joins[w] <= calls
      /\ calls \in Nat /\ calls <= MaxCalls /\ MaxCalls \in Nat
  BY Bounds, Typed DEF IInv
<1>3. joins[u] + 1 \in RowId
  BY <1>2 DEF RowId
<1>4. joins'[u] = joins[u] + 1 /\ \A w \in User \ {u} : joins'[w] = joins[w]
  BY <1>1
<1>5. joins' \in [User -> {0} \cup RowId]
  BY <1>1, <1>3
<1>6. \A w \in User : joins'[w] <= joins[w] + 1 /\ joins'[w] \in Nat /\ joins[w] \in Nat
  BY <1>2, <1>4
<1>7. PICK x : x = [h |-> h, role |-> role, id |-> joins'[u]]
  OBVIOUS
<1>8. x \in [h : Household, role : {"owner", "member"}, id : RowId] /\ x.h = h /\ x.role = role
  BY <1>3, <1>4, <1>7
<1>9. row' \in [User -> {NoRow} \cup [h : Household, role : {"owner", "member"}, id : RowId]]
      /\ row'[u] = x /\ \A w \in User \ {u} : row'[w] = row[w]
  BY <1>1, <1>7, <1>8
<1>10. x # NoRow
  BY <1>8, HouseholdAssumption DEF NoRow
<1> QED
  BY <1>5, <1>6, <1>8, <1>9, <1>10

\* Its owner gets his row.
LEMMA CreateMemberInv ==
    ASSUME IInv, NEW r \in Request, CreateMember(r) PROVE IInv'
<1>1. /\ op[r] \in Ops /\ op[r] # NoOp /\ op[r].step = "own" /\ Joins(op[r])
      /\ op[r].u \in User /\ op[r].h \in Household /\ op[r].pays \in BOOLEAN
  BY Typed, Shapes, NoOpFacts DEF CreateMember, IInv, Joins
<1>2. UNCHANGED <<now, owner, active, until, invitation, personal, premium, calls, raced>>
  BY DEF CreateMember, users, households
<1>3. PICK u \in User, h \in Household : u = op[r].u /\ h = op[r].h
  BY <1>1
<1>4. ASSUME ~raced
      PROVE  /\ row[u] = NoRow /\ owner[h] = u /\ ~active[h] /\ Members(h) = {}
             /\ \A i \in Invitations : invitation[i] \in Sent => invitation[i].h # h
             /\ \A w \in User : Settled(w)
             /\ \A g \in Household : Exists(g) => HouseSound(g) \/ g = h
  <2>1. /\ Decided(op[r]) /\ Awaiting(op[r]) = {}
        /\ \A w \in User : Settled(w) \/ w \in Awaiting(op[r])
        /\ \A g \in Household : Exists(g) =>
              HouseSound(g) \/ (op[r].step = "own" /\ op[r].h = g)
    BY <1>1, <1>4, Alone DEF IInv, Awaiting
  <2> QED
    BY <1>1, <1>3, <2>1 DEF Decided
<1>5. CASE row[u] = NoRow /\ Exists(h)
  <2>1. PICK o : o = IF op[r].pays THEN [step |-> "activate", h |-> h, until |-> now + 1] ELSE NoOp
    OBVIOUS
  <2>2. /\ joins' = [joins EXCEPT ![u] = @ + 1]
        /\ row' = [row EXCEPT ![u] = [h |-> h, role |-> "owner", id |-> joins'[u]]]
        /\ Goto(r, o)
    BY <1>3, <1>5, <2>1 DEF CreateMember
  <2>3. now + 1 \in Date /\ now + 1 <= MaxTime + calls
    <3>1. /\ now \in Nat /\ now <= MaxTime /\ calls \in Nat /\ calls >= 1 /\ calls <= MaxCalls
          /\ MaxTime \in Nat /\ MaxCalls \in Nat
      BY <1>1, Bounds, Typed DEF IInv
    <3> QED
      BY <3>1 DEF Date
  <2>4. /\ o \in Ops /\ o.step \in {"activate", "none"}
        /\ o.step = "activate" => o.until = now + 1
    BY <2>1, <2>3 DEF Ops, NoOp
  <2>5. ~Joins(o) /\ DatesBounded(o)' /\ Decided(o)' /\ Awaiting(o)' = {}
    BY <1>2, <2>3, <2>4 DEF Joins, DatesBounded, Decided, Awaiting
  <2>6. One(Joins(o)) = 0 /\ One(Joins(op[r])) = 1
    BY <1>1, <2>5 DEF One
  <2>7. /\ joins' \in [User -> {0} \cup RowId]
        /\ row' \in [User -> {NoRow} \cup [h : Household, role : {"owner", "member"}, id : RowId]]
        /\ \A w \in User : joins'[w] <= joins[w] + 1 /\ joins'[w] \in Nat /\ joins[w] \in Nat
        /\ \A w \in User \ {u} : row'[w] = row[w]
        /\ row'[u].h = h /\ row'[u].role = "owner" /\ row'[u] # NoRow
    BY <1>1, <2>2, NewRow
  <2>8. op' \in [Request -> Ops] => TypeOK'
    BY <1>2, <2>7 DEF IInv, TypeOK
  <2>9. RefsSound'
    BY <1>2, <1>5, <2>7 DEF IInv, RefsSound, Exists
  <2>10. ASSUME NEW w \in User PROVE joins'[w] + One(Joins(o)) <= joins[w] + One(Joins(op[r]))
    BY <2>6, <2>7
  <2>11. ASSUME ~raced
         PROVE  /\ \A w \in User : Settled(w)'
                /\ \A g \in Household : Exists(g)' => HouseSound(g)'
    <3>1. ASSUME NEW w \in User PROVE Settled(w)'
      <4>1. CASE w = u
        <5>1. Family(u) = 0 /\ Family(u)' = 0
          BY <1>2, <1>4, <2>7, <2>11 DEF Family
        <5> QED
          BY <1>2, <1>4, <2>11, <4>1, <5>1, SamePremium
      <4>2. CASE w # u
        <5>1. row'[w] = row[w]
          BY <2>7, <4>2
        <5>2. Family(w)' = Family(w)
          BY <1>2, <5>1, SameFamily
        <5> QED
          BY <1>2, <1>4, <2>11, <5>2, SamePremium
      <4> QED
        BY <4>1, <4>2
    <3>2. ASSUME NEW g \in Household, Exists(g)' PROVE HouseSound(g)'
      <4>1. CASE g = h
        <5>1. Members(h)' = {u}
          BY <1>4, <2>7, <2>11 DEF Members
        <5>2. Owners(h)' = {u}
          BY <2>7, <5>1 DEF Owners
        <5>3. Pending(h)' = {}
          BY <1>2, <1>4, <2>11, Typed DEF Pending, IInv
        <5>4. Cardinality(Members(h)') = 1 /\ Cardinality(Pending(h)') = 0
          BY <5>1, <5>3, FS_Singleton, FS_EmptySet
        <5>5. Cardinality(Members(h)') + Cardinality(Pending(h)') <= MaxMembers
          BY <5>4, HouseholdAssumption
        <5> QED
          BY <1>2, <1>4, <2>7, <2>11, <4>1, <5>2, <5>5 DEF HouseSound
      <4>2. CASE g # h
        <5>1. Exists(g) /\ HouseSound(g)
          BY <1>2, <1>4, <2>11, <3>2, <4>2 DEF Exists
        <5>2. row[u].h # g /\ row'[u].h # g
          BY <1>5, <2>7, <4>2, Typed DEF IInv
        <5>3. \A w \in User : row[w].h = g \/ row'[w].h = g => row'[w] = row[w]
          BY <2>7, <5>2
        <5>4. Pending(g)' = Pending(g)
          BY <1>2 DEF Pending
        <5> QED
          BY <1>2, <5>1, <5>3, <5>4, SameHouse DEF Exists
      <4> QED
        BY <4>1, <4>2
    <3> QED
      BY <3>1, <3>2
  <2>12. /\ \A g \in Household : until'[g] <= MaxTime + calls
         /\ \A w \in User : personal'[w] <= MaxTime + calls /\ premium'[w] <= MaxTime + calls
    BY <1>2, Bounds
  <2>13. One(Joins(o)) <= One(Joins(op[r])) /\ o.step \notin {"accept", "mark"}
    BY <2>4, <2>6
  <2>14. \A i \in Invitations : invitation[i] # NoInvite => invitation'[i] # NoInvite
    BY <1>2
  <2> QED
    BY <1>1, <1>2, <2>2, <2>4, <2>5, <2>8, <2>9, <2>10, <2>11, <2>12, <2>13, <2>14, GoOnInv
<1>6. CASE ~(row[u] = NoRow /\ Exists(h))
  <2>1. Fail(r) /\ AllSame
    BY <1>2, <1>3, <1>6 DEF CreateMember, members, AllSame
  <2>2. raced
    BY <1>4, <1>6 DEF Exists
  <2> QED
    BY <1>1, <1>2, <2>1, <2>2, FailInv
<1> QED
  BY <1>5, <1>6

\* A request that only writes invitations, and then ends.
LEMMA InvitationsInv ==
    ASSUME IInv, NEW r \in Request, op[r] # NoOp, Goto(r, NoOp),
           UNCHANGED <<now, owner, active, until, row, joins, personal, premium, calls, raced>>,
           op[r].step \in {"invite", "mark", "expire"},
           invitation' \in [Invitations -> {NoInvite, Cascaded} \cup Sent],
           \A i \in Invitations :
              /\ invitation[i] # NoInvite => invitation'[i] # NoInvite
              /\ invitation'[i] \in Sent => Exists(invitation'[i].h),
           ~raced =>
              \A h \in Household : Exists(h) /\ HouseSound(h) =>
                 Cardinality(Members(h)) + Cardinality(Pending(h)') <= MaxMembers
    PROVE  IInv'
<1>1. PICK o \in Ops : o = NoOp /\ Goto(r, o) /\ o.step = "none"
  BY NoOpFacts
<1>2. op' \in [Request -> Ops] => TypeOK'
  BY DEF IInv, TypeOK
<1>3. RefsSound'
  BY DEF IInv, RefsSound, Exists
<1>4. ~Joins(o) /\ DatesBounded(o)' /\ Decided(o)' /\ ~Joins(op[r])
  BY <1>1 DEF Joins, DatesBounded, Decided
<1>5. One(Joins(o)) = 0 /\ One(Joins(op[r])) = 0
  BY <1>4 DEF One
<1>6. ASSUME NEW u \in User PROVE joins'[u] + One(Joins(o)) <= joins[u] + One(Joins(op[r]))
  <2>1. joins[u] \in Nat /\ joins'[u] = joins[u]
    BY Typed DEF IInv
  <2> QED
    BY <1>5, <2>1
<1>7. ASSUME ~raced
      PROVE  /\ \A u \in User : Settled(u)'
             /\ \A h \in Household : Exists(h)' => HouseSound(h)'
  <2>1. /\ Awaiting(op[r]) = {}
        /\ \A u \in User : Settled(u)
        /\ \A h \in Household : Exists(h) => HouseSound(h)
    BY <1>7, Alone DEF IInv, Awaiting
  <2>2. \A u \in User : Settled(u)'
    BY <2>1, SamePremiums
  <2>3. ASSUME NEW h \in Household, Exists(h)' PROVE HouseSound(h)'
    <3>1. Exists(h) /\ HouseSound(h)
      BY <2>1, <2>3 DEF Exists
    <3>2. Members(h)' = Members(h) /\ Owners(h)' = Owners(h)
      BY DEF Members, Owners
    <3>3. Cardinality(Members(h)) + Cardinality(Pending(h)') <= MaxMembers
      BY <1>7, <3>1
    <3> QED
      BY <3>1, <3>2, <3>3 DEF HouseSound
  <2> QED
    BY <2>2, <2>3
<1>8. /\ \A h \in Household : until'[h] <= MaxTime + calls
      /\ \A u \in User : personal'[u] <= MaxTime + calls /\ premium'[u] <= MaxTime + calls
  BY Bounds
<1>9. One(Joins(o)) <= One(Joins(op[r]))
  BY <1>5
<1> QED
  BY <1>1, <1>2, <1>3, <1>4, <1>6, <1>7, <1>8, <1>9, GoOnInv

\* Offers that do not grow.
LEMMA FewerOffers ==
    ASSUME NEW h, Pending(h)' \subseteq Pending(h), HouseSound(h)
    PROVE  Cardinality(Members(h)) + Cardinality(Pending(h)') <= MaxMembers
<1>1. Cardinality(Pending(h)') <= Cardinality(Pending(h))
  BY Finite, FS_Subset
<1> QED
  BY <1>1, Finite, HouseholdAssumption DEF HouseSound

\* The offer takes a place that was free when all was quiet.
LEMMA InviteWriteInv ==
    ASSUME IInv, NEW r \in Request, InviteWrite(r) PROVE IInv'
<1>1. /\ op[r] \in Ops /\ op[r] # NoOp /\ op[r].step = "invite"
      /\ op[r].h \in Household /\ op[r].to \in User /\ Goto(r, NoOp)
  BY Typed, Shapes, NoOpFacts DEF InviteWrite, IInv
<1>2. UNCHANGED <<now, owner, active, until, row, joins, personal, premium, calls, raced>>
  BY DEF InviteWrite, users, households, members
<1>3. PICK h \in Household, v \in User : h = op[r].h /\ v = op[r].to
  BY <1>1
<1>4. PICK i \in Invitations :
         /\ invitation[i] = NoInvite
         /\ invitation' =
               IF Exists(h)
               THEN [invitation EXCEPT ![i] = [h |-> h, to |-> v,
                                               status |-> "pending", expires |-> now + Ttl]]
               ELSE invitation
  BY <1>3 DEF InviteWrite
<1>5. CASE ~Exists(h)
  <2>1. AllSame /\ Fail(r)
    BY <1>1, <1>2, <1>4, <1>5 DEF AllSame, Fail
  <2> QED
    BY <1>1, <1>2, <2>1, FailInv
<1>6. CASE Exists(h)
  <2>1. PICK x : x = [h |-> h, to |-> v, status |-> "pending", expires |-> now + Ttl]
    OBVIOUS
  <2>2. now + Ttl \in 1..(MaxTime + Ttl)
    BY Typed, HouseholdAssumption DEF IInv
  <2>3. x \in Sent /\ x.h = h /\ x # NoInvite
    BY <2>1, <2>2 DEF Sent, NoInvite
  <2>4. /\ invitation \in [Invitations -> {NoInvite, Cascaded} \cup Sent]
        /\ invitation' = [invitation EXCEPT ![i] = x]
    BY <1>4, <1>6, <2>1 DEF IInv, TypeOK
  <2>5. invitation' \in [Invitations -> {NoInvite, Cascaded} \cup Sent]
    BY <2>3, <2>4
  <2>6. \A j \in Invitations : invitation'[j] = IF j = i THEN x ELSE invitation[j]
    BY <2>4
  <2>7. \A j \in Invitations :
           /\ invitation[j] # NoInvite => invitation'[j] # NoInvite
           /\ invitation'[j] \in Sent => Exists(invitation'[j].h)
    BY <1>6, <2>3, <2>6 DEF IInv, RefsSound
  <2>8. ASSUME ~raced, NEW g \in Household, HouseSound(g)
        PROVE  Cardinality(Members(g)) + Cardinality(Pending(g)') <= MaxMembers
    <3>1. \A j \in Pending(g)' : j = i \/ j \in Pending(g)
      BY <1>2, <2>6 DEF Pending
    <3>2. CASE g # h
      <4>1. i \notin Pending(g)'
        BY <2>3, <2>6, <3>2 DEF Pending
      <4>2. Pending(g)' \subseteq Pending(g)
        BY <3>1, <4>1
      <4> QED
        BY <2>8, <4>2, FewerOffers
    <3>3. CASE g = h
      <4>1. Cardinality(Members(h)) + Cardinality(Pending(h)) < MaxMembers
        BY <1>1, <1>3, <2>8, Alone DEF IInv, Decided
      <4>2. Pending(h)' \subseteq Pending(h) \cup {i}
        BY <3>1, <3>3
      <4>3. /\ IsFiniteSet(Pending(h) \cup {i})
            /\ \/ Cardinality(Pending(h) \cup {i}) = Cardinality(Pending(h))
               \/ Cardinality(Pending(h) \cup {i}) = Cardinality(Pending(h)) + 1
        BY Finite, FS_AddElement
      <4>4. Cardinality(Pending(h)') <= Cardinality(Pending(h) \cup {i})
        BY <4>2, <4>3, FS_Subset
      <4> QED
        BY <3>3, <4>1, <4>3, <4>4, Finite, HouseholdAssumption
    <3> QED
      BY <3>2, <3>3
  <2> QED
    BY <1>1, <1>2, <2>5, <2>7, <2>8, InvitationsInv
<1> QED
  BY <1>5, <1>6

\* An answered invitation is not pending any more.
LEMMA MarkInv ==
    ASSUME IInv, NEW r \in Request, Mark(r) PROVE IInv'
<1>1. /\ op[r] \in Ops /\ op[r] # NoOp /\ op[r].step = "mark" /\ Goto(r, NoOp)
      /\ op[r].i \in Invitations /\ op[r].status \in {"declined", "expired", "cancelled"}
      /\ invitation[op[r].i] # NoInvite
  BY Typed, Shapes, NoOpFacts DEF Mark, IInv, RequestsSound
<1>2. UNCHANGED <<now, owner, active, until, row, joins, personal, premium, calls, raced>>
  BY DEF Mark, users, households, members
<1>3. PICK i \in Invitations, s \in {"declined", "expired", "cancelled"} :
         i = op[r].i /\ s = op[r].status /\ invitation[i] # NoInvite
  BY <1>1
<1>4. PICK x : x = IF invitation[i] = Cascaded THEN Cascaded ELSE [invitation[i] EXCEPT !.status = s]
  OBVIOUS
<1>5. /\ invitation \in [Invitations -> {NoInvite, Cascaded} \cup Sent]
      /\ \A j \in Invitations : invitation'[j] = IF j = i THEN x ELSE invitation[j]
      /\ DOMAIN invitation' = Invitations /\ invitation' = [j \in Invitations |-> invitation'[j]]
  BY <1>3, <1>4 DEF Mark, IInv, TypeOK
<1>6. /\ x \in {Cascaded} \cup Sent /\ x.status # "pending" /\ x # NoInvite
      /\ x \in Sent => invitation[i] \in Sent /\ x.h = invitation[i].h
  <2>1. invitation[i] \in {Cascaded} \cup Sent
    BY <1>3, <1>5
  <2> QED
    BY <1>4, <2>1 DEF Sent, Cascaded, NoInvite
<1>7. invitation' \in [Invitations -> {NoInvite, Cascaded} \cup Sent]
  BY <1>5, <1>6
<1>8. \A j \in Invitations :
         /\ invitation[j] # NoInvite => invitation'[j] # NoInvite
         /\ invitation'[j] \in Sent => Exists(invitation'[j].h)
  BY <1>5, <1>6 DEF IInv, RefsSound
<1>9. \A h : Pending(h)' \subseteq Pending(h)
  BY <1>2, <1>5, <1>6 DEF Pending
<1> QED
  BY <1>1, <1>2, <1>7, <1>8, <1>9, FewerOffers, InvitationsInv

\* Old invitations are not pending any more.
LEMMA ExpireInvitationsInv ==
    ASSUME IInv, NEW r \in Request, ExpireInvitations(r) PROVE IInv'
<1>1. op[r] # NoOp /\ op[r].step = "expire" /\ Goto(r, NoOp)
  BY NoOpFacts DEF ExpireInvitations
<1>2. UNCHANGED <<now, owner, active, until, row, joins, personal, premium, calls, raced>>
  BY DEF ExpireInvitations, users, households, members
<1>3. invitation \in [Invitations -> {NoInvite, Cascaded} \cup Sent]
  BY DEF IInv, TypeOK
<1>4. \A i \in Invitations :
         invitation'[i] = IF invitation[i].status = "pending" /\ invitation[i].expires < now
                          THEN [invitation[i] EXCEPT !.status = "expired"] ELSE invitation[i]
  BY DEF ExpireInvitations
<1>5. ASSUME NEW i \in Invitations
      PROVE  /\ invitation'[i] \in {NoInvite, Cascaded} \cup Sent
             /\ invitation[i] # NoInvite => invitation'[i] # NoInvite
             /\ invitation'[i] \in Sent => /\ invitation[i] \in Sent
                                           /\ invitation'[i].h = invitation[i].h
             /\ invitation'[i].status = "pending" => invitation'[i] = invitation[i]
  <2>1. CASE invitation[i].status = "pending" /\ invitation[i].expires < now
    <3>1. invitation[i] \in Sent
      BY <2>1, Typed DEF IInv
    <3>2. invitation'[i] = [invitation[i] EXCEPT !.status = "expired"]
      BY <1>4, <2>1
    <3> QED
      BY <3>1, <3>2 DEF Sent, NoInvite
  <2>2. CASE ~(invitation[i].status = "pending" /\ invitation[i].expires < now)
    BY <1>3, <1>4, <2>2
  <2> QED
    BY <2>1, <2>2
<1>6. invitation' \in [Invitations -> {NoInvite, Cascaded} \cup Sent]
  BY <1>5 DEF ExpireInvitations
<1>7. \A j \in Invitations :
         /\ invitation[j] # NoInvite => invitation'[j] # NoInvite
         /\ invitation'[j] \in Sent => Exists(invitation'[j].h)
  BY <1>5 DEF IInv, RefsSound
<1>8. \A h : Pending(h)' \subseteq Pending(h)
  BY <1>2, <1>5 DEF Pending
<1> QED
  BY <1>1, <1>2, <1>6, <1>7, <1>8, FewerOffers, InvitationsInv

\* The place offered becomes a place taken.
LEMMA AcceptWriteInv ==
    ASSUME IInv, NEW r \in Request, AcceptWrite(r) PROVE IInv'
<1>1. /\ op[r] \in Ops /\ op[r] # NoOp /\ op[r].step = "accept" /\ Joins(op[r])
      /\ op[r].u \in User /\ op[r].i \in Invitations /\ invitation[op[r].i] # NoInvite
  BY Typed, Shapes, NoOpFacts DEF AcceptWrite, IInv, Joins, RequestsSound
<1>2. UNCHANGED <<now, owner, active, until, personal, premium, calls, raced>>
  BY DEF AcceptWrite, users, households
<1>3. PICK u \in User, i \in Invitations : u = op[r].u /\ i = op[r].i /\ invitation[i] # NoInvite
  BY <1>1
<1>4. CASE ~(row[u] = NoRow /\ invitation[i] # Cascaded)
  <2>1. AllSame /\ Fail(r)
    BY <1>2, <1>3, <1>4 DEF AcceptWrite, AllSame, members
  <2> QED
    BY <1>1, <1>2, <2>1, FailInv
<1>5. CASE row[u] = NoRow /\ invitation[i] # Cascaded
  <2>1. PICK h : h = invitation[i].h
    OBVIOUS
  <2>2. invitation[i] \in Sent /\ h \in Household /\ Exists(h)
    BY <1>3, <1>5, <2>1, Typed DEF IInv, RefsSound, Sent
  <2>3. /\ joins' = [joins EXCEPT ![u] = @ + 1]
        /\ row' = [row EXCEPT ![u] = [h |-> h, role |-> "member", id |-> joins'[u]]]
        /\ invitation' = [invitation EXCEPT ![i].status = "accepted"]
        /\ Recompute(r, {u}, FALSE, {})
    BY <1>3, <1>5, <2>1 DEF AcceptWrite
  <2>4. /\ joins' \in [User -> {0} \cup RowId]
        /\ row' \in [User -> {NoRow} \cup [h : Household, role : {"owner", "member"}, id : RowId]]
        /\ \A w \in User : joins'[w] <= joins[w] + 1 /\ joins'[w] \in Nat /\ joins[w] \in Nat
        /\ \A w \in User \ {u} : row'[w] = row[w]
        /\ row'[u].h = h /\ row'[u].role = "member" /\ row'[u] # NoRow
    BY <1>1, <2>2, <2>3, NewRow
  <2>5. PICK x : x = [invitation[i] EXCEPT !.status = "accepted"]
    OBVIOUS
  <2>6. x \in Sent /\ x.h = h /\ x.status = "accepted"
    BY <2>1, <2>2, <2>5 DEF Sent
  <2>7. /\ invitation' \in [Invitations -> {NoInvite, Cascaded} \cup Sent]
        /\ \A j \in Invitations : invitation'[j] = IF j = i THEN x ELSE invitation[j]
    BY <2>3, <2>5, <2>6 DEF IInv, TypeOK
  <2>8. op' \in [Request -> Ops] => TypeOK'
    BY <1>2, <2>4, <2>7 DEF IInv, TypeOK
  <2>9. RefsSound'
    BY <1>2, <2>2, <2>4, <2>6, <2>7 DEF IInv, RefsSound, Exists
  <2>10. \A j \in Invitations : invitation[j] # NoInvite => invitation'[j] # NoInvite
    BY <2>6, <2>7 DEF NoInvite
  <2>11. One(Joins(op[r])) = 1
    BY <1>1 DEF One
  <2>12. \A w \in User : joins'[w] <= joins[w] + One(Joins(op[r]))
    BY <2>4, <2>11
  <2>13. /\ \A g \in Household : until'[g] <= MaxTime + calls
         /\ \A w \in User : personal'[w] <= MaxTime + calls /\ premium'[w] <= MaxTime + calls
    BY <1>2, Bounds
  <2>14. ASSUME ~raced
         PROVE  /\ \A w \in User : Settled(w)' \/ w \in {u}
                /\ \A g \in Household : Exists(g)' => HouseSound(g)'
    <3>1. /\ Decided(op[r]) /\ Awaiting(op[r]) = {}
          /\ \A w \in User : Settled(w) \/ w \in Awaiting(op[r])
          /\ \A g \in Household : Exists(g) => HouseSound(g)
      BY <1>1, <2>14, Alone DEF IInv, Awaiting
    <3>2. Cardinality(Members(h)) + Cardinality(Pending(h) \ {i}) < MaxMembers
      BY <1>1, <1>3, <2>1, <3>1 DEF Decided
    <3>3. ASSUME NEW w \in User, w # u PROVE Settled(w)'
      <4>1. Family(w)' = Family(w)
        BY <1>2, <2>4, <3>3, SameFamily
      <4> QED
        BY <1>2, <3>1, <4>1, SamePremium
    <3>4. ASSUME NEW g \in Household, Exists(g)' PROVE HouseSound(g)'
      <4>1. Exists(g) /\ HouseSound(g) /\ owner'[g] = owner[g] /\ owner[g] \in User
        BY <1>2, <3>1, <3>4 DEF Exists
      <4>2. Pending(g)' \subseteq Pending(g) \ {i}
        BY <1>2, <2>6, <2>7 DEF Pending
      <4>3. row[u].h \notin Household
        BY <1>5, Typed DEF IInv
      <4>4. CASE g # h
        <5>1. \A w \in User : row[w].h = g \/ row'[w].h = g => row'[w] = row[w]
          BY <2>4, <4>3, <4>4
        <5> QED
          BY <1>2, <4>1, <4>2, <5>1, SameHouse
      <4>5. CASE g = h
        <5>1. Members(h)' = Members(h) \cup {u} /\ u \notin Members(h)
          BY <2>2, <2>4, <4>3 DEF Members
        <5>2. Owners(h)' = Owners(h)
          BY <2>4, <5>1 DEF Owners, Members
        <5>3. owner[h] # u /\ row'[owner'[h]].h = h
          BY <2>2, <2>4, <4>1, <4>3, <4>5 DEF HouseSound
        <5>4. Cardinality(Members(h)') = Cardinality(Members(h)) + 1
          BY <5>1, Finite, FS_AddElement
        <5>5. /\ IsFiniteSet(Pending(h) \ {i}) /\ Cardinality(Pending(h) \ {i}) \in Nat
              /\ Cardinality(Pending(h)') <= Cardinality(Pending(h) \ {i})
          BY <4>2, <4>5, Finite, FS_RemoveElement, FS_CardinalityType, FS_Subset
        <5>6. Cardinality(Members(h)') + Cardinality(Pending(h)') <= MaxMembers
          BY <3>2, <5>4, <5>5, Finite, HouseholdAssumption
        <5> QED
          BY <4>1, <4>5, <5>2, <5>3, <5>6 DEF HouseSound
      <4> QED
        BY <4>4, <4>5
    <3> QED
      BY <3>3, <3>4
  <2>15. PICK S \in SUBSET User, todo \in SUBSET Household :
            S = {u} /\ todo = {} /\ Recompute(r, S, FALSE, todo)
    BY <2>3
  <2> QED
    BY <1>1, <1>2, <2>8, <2>9, <2>10, <2>12, <2>13, <2>14, <2>15, RecomputeInv
<1> QED
  BY <1>4, <1>5

\* A member's row goes, never the owner's when nothing overlaps.
LEMMA RemoveMemberInv ==
    ASSUME IInv, NEW r \in Request, RemoveMember(r) PROVE IInv'
<1>1. op[r] \in Ops /\ op[r] # NoOp /\ op[r].step = "remove" /\ op[r].u \in User
  BY Typed, Shapes, NoOpFacts DEF RemoveMember, IInv
<1>2. UNCHANGED <<now, owner, active, until, joins, invitation, personal, premium, calls, raced>>
  BY DEF RemoveMember, users, households
<1>3. PICK u \in User : u = op[r].u
  BY <1>1
<1>4. CASE ~HasRow(u, op[r].id)
  <2>1. AllSame /\ Fail(r)
    BY <1>2, <1>3, <1>4 DEF RemoveMember, AllSame
  <2> QED
    BY <1>1, <1>2, <2>1, FailInv
<1>5. CASE HasRow(u, op[r].id)
  <2>1. row' = [row EXCEPT ![u] = NoRow] /\ Recompute(r, {u}, FALSE, {})
    BY <1>3, <1>5 DEF RemoveMember
  <2>2. /\ row' \in [User -> {NoRow} \cup [h : Household, role : {"owner", "member"}, id : RowId]]
        /\ \A w \in User : row'[w] = IF w = u THEN NoRow ELSE row[w]
    BY <2>1 DEF IInv, TypeOK
  <2>3. op' \in [Request -> Ops] => TypeOK'
    BY <1>2, <2>2 DEF IInv, TypeOK
  <2>4. RefsSound'
    BY <1>2, <2>2 DEF IInv, RefsSound, Exists
  <2>5. ASSUME NEW w \in User PROVE joins'[w] <= joins[w] + One(Joins(op[r]))
    <3>1. joins[w] \in Nat /\ joins'[w] = joins[w] /\ One(Joins(op[r])) \in {0, 1}
      BY <1>2, Typed DEF IInv, One
    <3> QED
      BY <3>1
  <2>6. /\ \A g \in Household : until'[g] <= MaxTime + calls
        /\ \A w \in User : personal'[w] <= MaxTime + calls /\ premium'[w] <= MaxTime + calls
    BY <1>2, Bounds
  <2>7. ASSUME ~raced
        PROVE  /\ \A w \in User : Settled(w)' \/ w \in {u}
               /\ \A g \in Household : Exists(g)' => HouseSound(g)'
    <3>1. /\ Decided(op[r]) /\ Awaiting(op[r]) = {}
          /\ \A w \in User : Settled(w) \/ w \in Awaiting(op[r])
          /\ \A g \in Household : Exists(g) => HouseSound(g)
      BY <1>1, <2>7, Alone DEF IInv, Awaiting
    <3>2. row[u].role = "member"
      BY <1>1, <1>3, <3>1 DEF Decided
    <3>3. ASSUME NEW w \in User, w # u PROVE Settled(w)'
      <4>1. Family(w)' = Family(w)
        BY <1>2, <2>2, <3>3, SameFamily
      <4> QED
        BY <1>2, <3>1, <3>3, <4>1, SamePremium
    <3>4. ASSUME NEW g \in Household, Exists(g)' PROVE HouseSound(g)'
      <4>1. Exists(g) /\ HouseSound(g) /\ owner'[g] = owner[g] /\ owner[g] \in User
        BY <1>2, <3>1, <3>4 DEF Exists
      <4>2. Pending(g)' = Pending(g)
        BY <1>2 DEF Pending
      <4>3. NoRow.h # g
        BY <3>4, HouseholdAssumption DEF NoRow
      <4>4. Members(g)' = Members(g) \ {u}
        BY <2>2, <4>3 DEF Members
      <4>5. Owners(g)' = Owners(g)
        BY <2>2, <3>2, <4>4 DEF Owners, Members
      <4>6. owner[g] # u
        BY <3>2, <4>1 DEF HouseSound, Owners
      <4>7. Cardinality(Members(g)') <= Cardinality(Members(g))
        BY <4>4, Finite, FS_Subset
      <4>8. Cardinality(Members(g)') + Cardinality(Pending(g)') <= MaxMembers
        BY <4>1, <4>2, <4>7, Finite, HouseholdAssumption DEF HouseSound
      <4> QED
        BY <2>2, <4>1, <4>5, <4>6, <4>8 DEF HouseSound
    <3> QED
      BY <3>3, <3>4
  <2>8. PICK S \in SUBSET User, todo \in SUBSET Household :
           S = {u} /\ todo = {} /\ Recompute(r, S, FALSE, todo)
    BY <2>1
  <2>9. \A i \in Invitations : invitation[i] # NoInvite => invitation'[i] # NoInvite
    BY <1>2
  <2> QED
    BY <1>1, <1>2, <2>3, <2>4, <2>5, <2>6, <2>7, <2>8, <2>9, RecomputeInv
<1> QED
  BY <1>4, <1>5

\* A request that writes nobody's date and then ends.
LEMMA EndInv ==
    ASSUME IInv, NEW r \in Request, op[r] # NoOp, Goto(r, NoOp),
           UNCHANGED <<now, joins, until, personal, premium, invitation, calls, raced>>,
           op' \in [Request -> Ops] => TypeOK',
           RefsSound',
           ~raced =>
             /\ \A u \in User : Settled(u)'
             /\ \A h \in Household : Exists(h)' => HouseSound(h)'
    PROVE  IInv'
<1>1. PICK o \in Ops : o = NoOp /\ Goto(r, o) /\ o.step = "none"
  BY NoOpFacts
<1>2. ~Joins(o) /\ DatesBounded(o)' /\ Decided(o)'
  BY <1>1 DEF Joins, DatesBounded, Decided
<1>3. One(Joins(o)) = 0 /\ One(Joins(op[r])) \in {0, 1}
  BY <1>2 DEF One
<1>4. ASSUME NEW u \in User PROVE joins'[u] + One(Joins(o)) <= joins[u] + One(Joins(op[r]))
  <2>1. joins[u] \in Nat /\ joins'[u] = joins[u]
    BY Typed DEF IInv
  <2> QED
    BY <1>3, <2>1
<1>5. /\ \A h \in Household : until'[h] <= MaxTime + calls
      /\ \A u \in User : personal'[u] <= MaxTime + calls /\ premium'[u] <= MaxTime + calls
  BY Bounds
<1>6. One(Joins(o)) <= One(Joins(op[r]))
  BY <1>3
<1> QED
  BY <1>1, <1>2, <1>4, <1>5, <1>6, GoOnInv

\* The two rows and the household change hands together.
LEMMA TransferInv ==
    ASSUME IInv, NEW r \in Request, Transfer(r) PROVE IInv'
<1>1. PICK o \in Ops :
         /\ o = op[r] /\ o # NoOp /\ o.step = "transfer"
         /\ o.h \in Household /\ o.from \in User /\ o.to \in User
         /\ o.fromId \in RowId \cup {0} /\ o.toId \in RowId
  BY Typed, Shapes, NoOpFacts DEF Transfer, IInv
<1>2. /\ UNCHANGED <<now, active, until, joins, invitation, personal, premium, calls, raced>>
      /\ Goto(r, NoOp)
  BY DEF Transfer, users
<1>3. CASE ~(/\ Exists(o.h) /\ HasRow(o.to, o.toId)
             /\ o.fromId # 0 => HasRow(o.from, o.fromId)
             /\ \A h \in Household \ {o.h} : owner[h] # o.to)
  <2>1. AllSame /\ Fail(r)
    BY <1>1, <1>2, <1>3 DEF Transfer, AllSame, Fail
  <2> QED
    BY <1>1, <1>2, <2>1, FailInv
<1>4. CASE /\ Exists(o.h) /\ HasRow(o.to, o.toId)
           /\ o.fromId # 0 => HasRow(o.from, o.fromId)
           /\ \A h \in Household \ {o.h} : owner[h] # o.to
  <2>1. PICK h \in Household, v \in User, w \in User : h = o.h /\ v = o.to /\ w = o.from
    BY <1>1
  <2>2. PICK lost \in BOOLEAN : lost = (o.fromId # 0)
    OBVIOUS
  <2>3. /\ owner' = [owner EXCEPT ![h] = v]
        /\ row' = [u \in User |->
                     IF u = v THEN [row[u] EXCEPT !.role = "owner"]
                     ELSE IF u = w /\ lost THEN [row[u] EXCEPT !.role = "member"]
                     ELSE row[u]]
    BY <1>1, <1>4, <2>1, <2>2 DEF Transfer
  <2>4. row[v] # NoRow /\ (lost => row[w] # NoRow)
    BY <1>4, <2>1, <2>2 DEF HasRow
  <2>5. /\ row \in [User -> {NoRow} \cup [h : Household, role : {"owner", "member"}, id : RowId]]
        /\ owner \in [Household -> User \cup {Nobody, Deleted}]
    BY DEF IInv, TypeOK
  <2>6. ASSUME NEW u \in User
        PROVE  /\ row'[u] \in {NoRow} \cup [h : Household, role : {"owner", "member"}, id : RowId]
               /\ row'[u].h = row[u].h
               /\ row'[u] = NoRow <=> row[u] = NoRow
               /\ u \notin {v, w} => row'[u] = row[u]
    <3>1. CASE row[u] = NoRow
      BY <2>3, <2>4, <3>1
    <3>2. CASE row[u] # NoRow
      <4>1. PICK x : x = row[u] /\ x \in [h : Household, role : {"owner", "member"}, id : RowId]
        BY <2>5, <3>2
      <4>2. \A s \in {"owner", "member"} :
               /\ [x EXCEPT !.role = s] \in [h : Household, role : {"owner", "member"}, id : RowId]
               /\ [x EXCEPT !.role = s].h = x.h
        BY <4>1
      <4>3. \/ row'[u] = x
            \/ u \in {v, w} /\ row'[u] = [x EXCEPT !.role = "owner"]
            \/ u \in {v, w} /\ row'[u] = [x EXCEPT !.role = "member"]
        BY <2>3, <4>1
      <4>4. \A y \in [h : Household, role : {"owner", "member"}, id : RowId] : y # NoRow
        BY HouseholdAssumption DEF NoRow
      <4>5. /\ row'[u] \in [h : Household, role : {"owner", "member"}, id : RowId]
            /\ row'[u].h = x.h
            /\ u \notin {v, w} => row'[u] = x
        BY <4>1, <4>2, <4>3
      <4> QED
        BY <3>2, <4>1, <4>4, <4>5
    <3> QED
      BY <3>1, <3>2
  <2>7. row' \in [User -> {NoRow} \cup [h : Household, role : {"owner", "member"}, id : RowId]]
    BY <2>3, <2>6
  <2>8. /\ owner' \in [Household -> User \cup {Nobody, Deleted}]
        /\ \A g \in Household : owner'[g] = IF g = h THEN v ELSE owner[g]
    BY <2>3, <2>5
  <2>9. op' \in [Request -> Ops] => TypeOK'
    BY <1>2, <2>7, <2>8 DEF IInv, TypeOK
  <2>10. \A g \in Household : Exists(g)' <=> Exists(g)
    BY <1>4, <2>1, <2>8 DEF Exists
  <2>11. RefsSound'
    <3>1. /\ \A u \in User : row[u] # NoRow => row[u].h \in Household
          /\ \A i \in Invitations : invitation[i] \in Sent => invitation[i].h \in Household
      BY Typed DEF Sent, IInv
    <3> QED
      BY <1>2, <2>6, <2>10, <3>1 DEF IInv, RefsSound
  <2>12. ASSUME ~raced
         PROVE  /\ \A u \in User : Settled(u)'
                /\ \A g \in Household : Exists(g)' => HouseSound(g)'
    <3>1. /\ Decided(op[r]) /\ Awaiting(op[r]) = {}
          /\ \A u \in User : Settled(u) \/ u \in Awaiting(op[r])
          /\ \A g \in Household : Exists(g) => HouseSound(g)
      BY <1>1, <2>12, Alone DEF IInv, Awaiting
    <3>2. owner[h] = w /\ w # v /\ row[v].h = h /\ lost
      BY <1>1, <2>1, <2>2, <3>1 DEF Decided
    <3>3. HouseSound(h)
      BY <1>4, <2>1, <3>1
    <3>4. row[w].h = h /\ Owners(h) = {w}
      BY <3>2, <3>3 DEF HouseSound
    <3>5. ASSUME NEW u \in User PROVE Settled(u)'
      <4>1. Family(u)' = Family(u)
        BY <1>2, <2>6 DEF Family, Current
      <4> QED
        BY <1>2, <3>1, <4>1, SamePremium
    <3>6. ASSUME NEW g \in Household, Exists(g)' PROVE HouseSound(g)'
      <4>1. Exists(g) /\ HouseSound(g)
        BY <2>10, <3>1, <3>6
      <4>2. Pending(g)' = Pending(g) /\ Members(g)' = Members(g)
        BY <1>2, <2>6 DEF Pending, Members
      <4>3. CASE g # h
        <5>1. \A u \in User : row[u].h = g \/ row'[u].h = g => row'[u] = row[u]
          BY <2>6, <3>2, <3>4, <4>3
        <5>2. owner'[g] = owner[g]
          BY <2>8, <4>3
        <5> QED
          BY <1>2, <4>1, <4>2, <5>1, <5>2, SameHouse DEF Exists
      <4>4. CASE g = h
        <5>1. v \in Members(h) /\ w \in Members(h)
          BY <3>2, <3>4 DEF Members
        <5>2. row'[v] = [row[v] EXCEPT !.role = "owner"] /\ row'[w] = [row[w] EXCEPT !.role = "member"]
          BY <2>3, <3>2
        <5>3. row'[v].role = "owner" /\ row'[w].role = "member"
          <6>1. PICK x, y : /\ x = row[v] /\ y = row[w]
                            /\ x \in [h : Household, role : {"owner", "member"}, id : RowId]
                            /\ y \in [h : Household, role : {"owner", "member"}, id : RowId]
            BY <2>4, <2>5, <3>2
          <6> QED
            BY <5>2, <6>1
        <5>4. \A u \in User \ {v, w} : row'[u] = row[u]
          BY <2>6
        <5>5. Owners(h)' = {v}
          BY <3>4, <4>2, <4>4, <5>1, <5>3, <5>4 DEF Owners, Members
        <5>6. row'[owner'[h]].h = h /\ owner'[h] = v
          BY <2>6, <2>8, <3>2
        <5> QED
          BY <4>1, <4>2, <4>4, <5>5, <5>6 DEF HouseSound
      <4> QED
        BY <4>3, <4>4
    <3> QED
      BY <3>5, <3>6
  <2> QED
    BY <1>1, <1>2, <2>9, <2>11, <2>12, EndInv
<1> QED
  BY <1>3, <1>4

\* Only those who were members lose the premium of the household.
LEMMA DissolveInv ==
    ASSUME IInv, NEW r \in Request, Dissolve(r) PROVE IInv'
<1>1. /\ op[r] \in Ops /\ op[r] # NoOp /\ op[r].step = "dissolve"
      /\ op[r].h \in Household /\ op[r].users \subseteq User
  BY Typed, Shapes, NoOpFacts DEF Dissolve, IInv
<1>2. UNCHANGED <<now, joins, personal, premium, calls, raced>>
  BY DEF Dissolve, users
<1>3. PICK h \in Household, S \in SUBSET User : h = op[r].h /\ S = op[r].users
  BY <1>1
<1>4. CASE ~Exists(h)
  <2>1. AllSame /\ Fail(r)
    BY <1>2, <1>3, <1>4 DEF Dissolve, AllSame, households
  <2> QED
    BY <1>1, <1>2, <2>1, FailInv
<1>5. CASE Exists(h)
  <2>1. /\ owner' = [owner EXCEPT ![h] = Deleted]
        /\ active' = [active EXCEPT ![h] = FALSE]
        /\ until' = [until EXCEPT ![h] = 0]
        /\ row' = [u \in User |-> IF row[u].h = h THEN NoRow ELSE row[u]]
        /\ invitation' = [i \in Invitations |->
              IF invitation[i] \in Sent /\ invitation[i].h = h THEN Cascaded ELSE invitation[i]]
        /\ Recompute(r, S, FALSE, {})
    BY <1>3, <1>5 DEF Dissolve
  <2>2. /\ owner \in [Household -> User \cup {Nobody, Deleted}]
        /\ active \in [Household -> BOOLEAN] /\ until \in [Household -> Date] /\ 0 \in Date
        /\ row \in [User -> {NoRow} \cup [h : Household, role : {"owner", "member"}, id : RowId]]
        /\ invitation \in [Invitations -> {NoInvite, Cascaded} \cup Sent]
    BY HouseholdAssumption DEF IInv, TypeOK, Date
  <2>3. /\ \A g \in Household : /\ owner'[g] = IF g = h THEN Deleted ELSE owner[g]
                                /\ active'[g] = IF g = h THEN FALSE ELSE active[g]
                                /\ until'[g] = IF g = h THEN 0 ELSE until[g]
        /\ \A u \in User : row'[u] = IF row[u].h = h THEN NoRow ELSE row[u]
        /\ \A i \in Invitations :
              invitation'[i] = IF invitation[i] \in Sent /\ invitation[i].h = h THEN Cascaded
                               ELSE invitation[i]
    BY <2>1, <2>2
  <2>4. op' \in [Request -> Ops] => TypeOK'
    BY <1>2, <2>1, <2>2 DEF IInv, TypeOK
  <2>5. \A g \in Household : Exists(g)' <=> Exists(g) /\ g # h
    BY <2>3, HouseholdAssumption DEF Exists
  <2>6. Cascaded \notin Sent /\ Cascaded # NoInvite /\ Cascaded.status # "pending"
    BY DEF Cascaded, Sent, NoInvite
  <2>7. RefsSound'
    <3>1. /\ \A u \in User : row[u] # NoRow => row[u].h \in Household
          /\ \A i \in Invitations : invitation[i] \in Sent => invitation[i].h \in Household
      BY Typed DEF Sent, IInv
    <3> QED
      BY <2>3, <2>5, <2>6, <3>1 DEF IInv, RefsSound
  <2>8. \A i \in Invitations : invitation[i] # NoInvite => invitation'[i] # NoInvite
    BY <2>3, <2>6
  <2>9. ASSUME NEW w \in User PROVE joins'[w] <= joins[w] + One(Joins(op[r]))
    <3>1. joins[w] \in Nat /\ joins'[w] = joins[w] /\ One(Joins(op[r])) \in {0, 1}
      BY <1>2, Typed DEF IInv, One
    <3> QED
      BY <3>1
  <2>10. /\ \A g \in Household : until'[g] <= MaxTime + calls
         /\ \A w \in User : personal'[w] <= MaxTime + calls /\ premium'[w] <= MaxTime + calls
    <3>1. 0 <= MaxTime + calls
      BY Typed DEF IInv
    <3>2. \A g \in Household : until[g] <= MaxTime + calls
      BY Bounds
    <3>3. \A g \in Household : until'[g] = 0 \/ until'[g] = until[g]
      BY <2>3
    <3> QED
      BY <1>2, <3>1, <3>2, <3>3, Bounds
  <2>11. ASSUME ~raced
         PROVE  /\ \A w \in User : Settled(w)' \/ w \in S
                /\ \A g \in Household : Exists(g)' => HouseSound(g)'
    <3>1. /\ Decided(op[r]) /\ Awaiting(op[r]) = {}
          /\ \A w \in User : Settled(w) \/ w \in Awaiting(op[r])
          /\ \A g \in Household : Exists(g) => HouseSound(g)
      BY <1>1, <2>11, Alone DEF IInv, Awaiting
    <3>2. S = Members(h)
      BY <1>1, <1>3, <3>1 DEF Decided
    <3>3. ASSUME NEW w \in User, w \notin S PROVE Settled(w)'
      <4>1. row[w].h # h /\ row'[w] = row[w]
        BY <2>3, <3>2, <3>3 DEF Members
      <4>2. row[w] # NoRow => /\ active'[row[w].h] = active[row[w].h]
                              /\ until'[row[w].h] = until[row[w].h]
        BY <2>3, <4>1, Typed DEF IInv
      <4>3. Family(w)' = Family(w)
        BY <1>2, <4>1, <4>2, SameFamily
      <4> QED
        BY <1>2, <3>1, <4>3, SamePremium
    <3>4. ASSUME NEW g \in Household, Exists(g)' PROVE HouseSound(g)'
      <4>1. Exists(g) /\ HouseSound(g) /\ g # h /\ owner'[g] = owner[g]
        BY <2>3, <2>5, <3>1, <3>4
      <4>2. NoRow.h # g
        BY HouseholdAssumption DEF NoRow
      <4>3. \A w \in User : row[w].h = g \/ row'[w].h = g => row'[w] = row[w]
        BY <2>3, <4>1, <4>2
      <4>4. Pending(g)' \subseteq Pending(g)
        BY <1>2, <2>3, <2>6 DEF Pending
      <4> QED
        BY <1>2, <4>1, <4>3, <4>4, SameHouse DEF Exists
    <3> QED
      BY <3>3, <3>4
  <2>12. PICK todo \in SUBSET Household : todo = {} /\ Recompute(r, S, FALSE, todo)
    BY <2>1
  <2> QED
    BY <1>1, <1>2, <2>4, <2>7, <2>8, <2>9, <2>10, <2>11, <2>12, RecomputeInv
<1> QED
  BY <1>4, <1>5

\* A step that writes a subscription and goes on with the members.
LEMMA SubscriptionInv ==
    ASSUME IInv, NEW r \in Request, op[r] # NoOp, NEW h \in Household, Exists(h),
           NEW job \in BOOLEAN, NEW todo \in SUBSET Household,
           Goto(r, [step |-> "members", h |-> h, job |-> job, todo |-> todo]),
           UNCHANGED <<now, owner, row, joins, invitation, personal, premium, calls, raced>>,
           active' \in [Household -> BOOLEAN], until' \in [Household -> Date],
           \A g \in Household : g # h => active'[g] = active[g] /\ until'[g] = until[g],
           until'[h] <= MaxTime + calls,
           op[r].step \in {"activate", "expire"},
           ~raced => \A g \in todo : until'[g] < now
    PROVE  IInv'
<1>1. PICK o : o = [step |-> "members", h |-> h, job |-> job, todo |-> todo] /\ Goto(r, o)
  OBVIOUS
<1>2. o \in Ops /\ o.step = "members" /\ o.h = h /\ o.todo = todo
  BY <1>1 DEF Ops
<1>3. op' \in [Request -> Ops] => TypeOK'
  BY DEF IInv, TypeOK
<1>4. RefsSound'
  BY DEF IInv, RefsSound, Exists
<1>5. ~Joins(o) /\ ~Joins(op[r]) /\ DatesBounded(o)'
  BY <1>2 DEF Joins, DatesBounded
<1>6. One(Joins(o)) = 0 /\ One(Joins(op[r])) = 0
  BY <1>5 DEF One
<1>7. ASSUME NEW u \in User PROVE joins'[u] + One(Joins(o)) <= joins[u] + One(Joins(op[r]))
  <2>1. joins[u] \in Nat /\ joins'[u] = joins[u]
    BY Typed DEF IInv
  <2> QED
    BY <1>6, <2>1
<1>8. /\ \A g \in Household : until'[g] <= MaxTime + calls
      /\ \A u \in User : personal'[u] <= MaxTime + calls /\ premium'[u] <= MaxTime + calls
  BY Bounds
<1>9. ASSUME ~raced
      PROVE  /\ Decided(o)'
             /\ \A u \in User : Settled(u)' \/ u \in Awaiting(o)'
             /\ \A g \in Household : Exists(g)' => HouseSound(g)'
  <2>1. /\ \A u \in User : Settled(u)
        /\ \A g \in Household : Exists(g) => HouseSound(g)
    BY <1>9, Alone DEF IInv, Awaiting
  <2>2. Decided(o)'
    BY <1>2, <1>9 DEF Decided
  <2>3. Members(h)' = Members(h)
    BY DEF Members
  <2>4. Awaiting(o)' = Members(h)
    BY <1>2, <2>3 DEF Awaiting
  <2>5. ASSUME NEW u \in User, u \notin Members(h) PROVE Settled(u)'
    <3>1. row[u].h # h
      BY <2>5 DEF Members
    <3>2. row[u] # NoRow => /\ active'[row[u].h] = active[row[u].h]
                            /\ until'[row[u].h] = until[row[u].h]
      BY <3>1, Typed DEF IInv
    <3>3. Family(u)' = Family(u)
      BY <3>2, SameFamily
    <3> QED
      BY <2>1, <3>3, SamePremium
  <2>6. \A g \in Household : Exists(g)' => HouseSound(g)'
    BY <2>1, SameHouses
  <2> QED
    BY <2>2, <2>4, <2>5, <2>6
<1>10. One(Joins(o)) <= One(Joins(op[r])) /\ o.step \notin {"accept", "mark"}
  BY <1>2, <1>6
<1> QED
  BY <1>1, <1>2, <1>3, <1>4, <1>5, <1>7, <1>8, <1>9, <1>10, GoOnInv

\* The subscription is written, the members come next.
LEMMA ActivateInv ==
    ASSUME IInv, NEW r \in Request, Activate(r) PROVE IInv'
<1>1. /\ op[r] \in Ops /\ op[r] # NoOp /\ op[r].step = "activate"
      /\ op[r].h \in Household /\ op[r].until \in Date
  BY Typed, Shapes, NoOpFacts DEF Activate, IInv
<1>2. UNCHANGED <<now, owner, row, joins, invitation, personal, premium, calls, raced>>
  BY DEF Activate, users, members
<1>3. PICK h \in Household, d \in Date : h = op[r].h /\ d = op[r].until
  BY <1>1
<1>4. CASE ~Exists(h)
  <2>1. AllSame /\ Fail(r)
    BY <1>2, <1>3, <1>4 DEF Activate, AllSame
  <2> QED
    BY <1>1, <1>2, <2>1, FailInv
<1>5. CASE Exists(h)
  <2>1. PICK todo \in SUBSET Household, job \in BOOLEAN :
           /\ todo = {} /\ job = FALSE
           /\ Goto(r, [step |-> "members", h |-> h, job |-> job, todo |-> todo])
    BY <1>3, <1>5 DEF Activate
  <2>2. /\ active' = [active EXCEPT ![h] = TRUE] /\ until' = [until EXCEPT ![h] = d]
        /\ active \in [Household -> BOOLEAN] /\ until \in [Household -> Date]
    BY <1>3, <1>5 DEF Activate, IInv, TypeOK
  <2>3. /\ active' \in [Household -> BOOLEAN] /\ until' \in [Household -> Date]
        /\ \A g \in Household : g # h => active'[g] = active[g] /\ until'[g] = until[g]
        /\ until'[h] = d
    BY <2>2
  <2>4. d <= MaxTime + calls
    BY <1>1, <1>3, Bounds DEF DatesBounded
  <2> QED
    BY <1>1, <1>2, <1>5, <2>1, <2>3, <2>4, SubscriptionInv
<1> QED
  BY <1>4, <1>5

\* The subscription is switched off, the members come next.
LEMMA ExpireInv ==
    ASSUME IInv, NEW r \in Request, Expire(r) PROVE IInv'
<1>1. /\ op[r] \in Ops /\ op[r] # NoOp /\ op[r].step = "expire" /\ HasTodo(op[r])
      /\ op[r].todo \subseteq Household
  BY Typed, Shapes, NoOpFacts DEF Expire, IInv, HasTodo
<1>2. UNCHANGED <<now, owner, until, row, joins, invitation, personal, premium, calls, raced>>
  BY DEF Expire, users, members
<1>3. PICK h \in Household :
         /\ h \in op[r].todo
         /\ IF Exists(h)
            THEN /\ active' = [active EXCEPT ![h] = FALSE]
                 /\ Goto(r, [step |-> "members", h |-> h, job |-> TRUE,
                             todo |-> op[r].todo \ {h}])
            ELSE Fail(r) /\ UNCHANGED active
  BY <1>1 DEF Expire
<1>4. CASE ~Exists(h)
  <2>1. AllSame /\ Fail(r)
    BY <1>2, <1>3, <1>4 DEF AllSame
  <2> QED
    BY <1>1, <1>2, <2>1, FailInv
<1>5. CASE Exists(h)
  <2>1. PICK todo \in SUBSET Household, job \in BOOLEAN :
           /\ todo = op[r].todo \ {h} /\ job = TRUE
           /\ Goto(r, [step |-> "members", h |-> h, job |-> job, todo |-> todo])
    BY <1>1, <1>3, <1>5
  <2>2. /\ active' = [active EXCEPT ![h] = FALSE]
        /\ active \in [Household -> BOOLEAN] /\ until \in [Household -> Date]
    BY <1>3, <1>5 DEF IInv, TypeOK
  <2>3. /\ active' \in [Household -> BOOLEAN] /\ until' \in [Household -> Date]
        /\ \A g \in Household : g # h => active'[g] = active[g] /\ until'[g] = until[g]
        /\ until'[h] <= MaxTime + calls
    BY <1>2, <2>2, Bounds
  <2>4. ~raced => \A g \in todo : until'[g] < now
    BY <1>1, <1>2, <2>1, Alone DEF IInv, Decided
  <2> QED
    BY <1>1, <1>2, <1>5, <2>1, <2>3, <2>4, SubscriptionInv
<1> QED
  BY <1>4, <1>5

\* The user's own date is written, his premium comes next.
LEMMA PersonalInv ==
    ASSUME IInv, NEW r \in Request, Personal(r) PROVE IInv'
<1>1. /\ op[r] \in Ops /\ op[r] # NoOp /\ op[r].step = "personal"
      /\ op[r].u \in User /\ op[r].until \in Date
  BY Typed, Shapes, NoOpFacts DEF Personal, IInv
<1>2. UNCHANGED <<now, owner, active, until, row, joins, invitation, premium, calls, raced>>
  BY DEF Personal, households, members
<1>3. PICK u \in User, d \in Date : u = op[r].u /\ d = op[r].until
  BY <1>1
<1>4. PICK S \in SUBSET User, todo \in SUBSET Household :
         S = {u} /\ todo = {} /\ Recompute(r, S, FALSE, todo)
  BY <1>3 DEF Personal
<1>5. personal' = [personal EXCEPT ![u] = d] /\ personal \in [User -> Date]
  BY <1>3 DEF Personal, IInv, TypeOK
<1>6. /\ personal' \in [User -> Date] /\ personal'[u] = d
      /\ \A w \in User \ {u} : personal'[w] = personal[w]
  BY <1>5
<1>7. op' \in [Request -> Ops] => TypeOK'
  BY <1>2, <1>6 DEF IInv, TypeOK
<1>8. RefsSound'
  BY <1>2 DEF IInv, RefsSound, Exists
<1>9. ASSUME NEW w \in User PROVE joins'[w] <= joins[w] + One(Joins(op[r]))
  <2>1. joins[w] \in Nat /\ joins'[w] = joins[w] /\ One(Joins(op[r])) \in {0, 1}
    BY <1>2, Typed DEF IInv, One
  <2> QED
    BY <2>1
<1>10. /\ \A g \in Household : until'[g] <= MaxTime + calls
       /\ \A w \in User : personal'[w] <= MaxTime + calls /\ premium'[w] <= MaxTime + calls
  <2>1. d <= MaxTime + calls
    BY <1>1, <1>3, Bounds DEF DatesBounded
  <2> QED
    BY <1>2, <1>6, <2>1, Bounds
<1>11. ASSUME ~raced
       PROVE  /\ \A w \in User : Settled(w)' \/ w \in S
              /\ \A g \in Household : Exists(g)' => HouseSound(g)'
  <2>1. /\ \A w \in User : Settled(w)
        /\ \A g \in Household : Exists(g) => HouseSound(g)
    BY <1>1, <1>11, Alone DEF IInv, Awaiting
  <2>2. ASSUME NEW w \in User, w # u PROVE Settled(w)'
    <3>1. Family(w)' = Family(w)
      BY <1>2, SameFamily
    <3> QED
      BY <1>2, <1>6, <2>1, <2>2, <3>1, SamePremium
  <2> QED
    BY <1>2, <1>4, <2>1, <2>2, SameHouses
<1>12. \A i \in Invitations : invitation[i] # NoInvite => invitation'[i] # NoInvite
  BY <1>2
<1> QED
  BY <1>1, <1>2, <1>4, <1>7, <1>8, <1>9, <1>10, <1>11, <1>12, RecomputeInv

\* The members are read, their premiums come next.
LEMMA ReadMembersInv ==
    ASSUME IInv, NEW r \in Request, ReadMembers(r) PROVE IInv'
<1>1. /\ op[r] \in Ops /\ op[r] # NoOp /\ op[r].step = "members" /\ HasTodo(op[r])
      /\ op[r].h \in Household /\ op[r].job \in BOOLEAN /\ op[r].todo \subseteq Household
  BY Typed, Shapes, NoOpFacts DEF ReadMembers, IInv, HasTodo
<1>2. AllSame /\ UNCHANGED <<calls, raced>>
  BY DEF ReadMembers, households, members, users, AllSame
<1>3. PICK S \in SUBSET User, job \in BOOLEAN, todo \in SUBSET Household :
         S = Members(op[r].h) /\ todo = op[r].todo /\ Recompute(r, S, job, todo)
  BY <1>1 DEF ReadMembers, Members
<1>4. op' \in [Request -> Ops] => TypeOK'
  BY <1>2 DEF IInv, TypeOK, AllSame
<1>5. RefsSound'
  BY <1>2 DEF IInv, RefsSound, Exists, AllSame
<1>6. ASSUME NEW w \in User PROVE joins'[w] <= joins[w] + One(Joins(op[r]))
  <2>1. joins[w] \in Nat /\ joins'[w] = joins[w] /\ One(Joins(op[r])) \in {0, 1}
    BY <1>2, Typed DEF IInv, One, AllSame
  <2> QED
    BY <2>1
<1>7. /\ \A g \in Household : until'[g] <= MaxTime + calls
      /\ \A w \in User : personal'[w] <= MaxTime + calls /\ premium'[w] <= MaxTime + calls
  BY <1>2, Bounds DEF AllSame
<1>8. ASSUME ~raced
      PROVE  /\ \A h \in todo : until'[h] < now
             /\ \A u \in User : Settled(u)' \/ u \in S
             /\ \A h \in Household : Exists(h)' => HouseSound(h)'
  <2>1. /\ Decided(op[r]) /\ Awaiting(op[r]) = S
        /\ \A u \in User : Settled(u) \/ u \in Awaiting(op[r])
        /\ \A g \in Household : Exists(g) => HouseSound(g)
    BY <1>1, <1>3, <1>8, Alone DEF IInv, Awaiting
  <2>2. \A h \in todo : until'[h] < now
    BY <1>1, <1>2, <1>3, <2>1 DEF Decided, AllSame
  <2> QED
    BY <1>2, <2>1, <2>2, SamePremiums, SameHouses DEF AllSame
<1>9. \A i \in Invitations : invitation[i] # NoInvite => invitation'[i] # NoInvite
  BY <1>2 DEF AllSame
<1> QED
  BY <1>1, <1>2, <1>3, <1>4, <1>5, <1>6, <1>7, <1>8, <1>9, RecomputeInv DEF AllSame

\* A premium is computed.
LEMMA RecomputeReadInv ==
    ASSUME IInv, NEW r \in Request, RecomputeRead(r) PROVE IInv'
<1>1. /\ op[r] \in Ops /\ op[r] # NoOp /\ op[r].step = "recompute" /\ HasTodo(op[r])
      /\ op[r].users \subseteq User /\ op[r].job \in BOOLEAN /\ op[r].todo \subseteq Household
  BY Typed, Shapes, NoOpFacts DEF RecomputeRead, IInv, HasTodo
<1>2. AllSame /\ UNCHANGED <<calls, raced>>
  BY DEF RecomputeRead, households, members, users, AllSame
<1>3. PICK u \in op[r].users :
         Goto(r, [step |-> "write", u |-> u, premium |-> Entitled(u),
                  users |-> op[r].users \ {u}, job |-> op[r].job, todo |-> op[r].todo])
  BY DEF RecomputeRead
<1>4. PICK d : d = Entitled(u)
  OBVIOUS
<1>5. PICK o : /\ o = [step |-> "write", u |-> u, premium |-> d,
                       users |-> op[r].users \ {u}, job |-> op[r].job, todo |-> op[r].todo]
               /\ Goto(r, o)
  BY <1>3, <1>4
<1>6. d \in Date /\ d <= MaxTime + calls /\ Current(d) = Entitled(u)
  BY <1>1, <1>4, Premiums DEF IInv
<1>7. /\ o \in Ops /\ o.step = "write" /\ o.u = u /\ o.premium = d
      /\ o.users = op[r].users \ {u} /\ o.todo = op[r].todo
  BY <1>1, <1>5, <1>6 DEF Ops
<1>8. op' \in [Request -> Ops] => TypeOK'
  BY <1>2 DEF IInv, TypeOK, AllSame
<1>9. RefsSound'
  BY <1>2 DEF IInv, RefsSound, Exists, AllSame
<1>10. ~Joins(o) /\ ~Joins(op[r]) /\ DatesBounded(o)'
  BY <1>1, <1>2, <1>6, <1>7 DEF Joins, DatesBounded, AllSame
<1>11. One(Joins(o)) = 0 /\ One(Joins(op[r])) = 0
  BY <1>10 DEF One
<1>12. ASSUME NEW w \in User PROVE joins'[w] + One(Joins(o)) <= joins[w] + One(Joins(op[r]))
  <2>1. joins[w] \in Nat /\ joins'[w] = joins[w]
    BY <1>2, Typed DEF IInv, AllSame
  <2> QED
    BY <1>11, <2>1
<1>13. /\ \A g \in Household : until'[g] <= MaxTime + calls
       /\ \A w \in User : personal'[w] <= MaxTime + calls /\ premium'[w] <= MaxTime + calls
  BY <1>2, Bounds DEF AllSame
<1>14. ASSUME ~raced
       PROVE  /\ Decided(o)'
              /\ \A w \in User : Settled(w)' \/ w \in Awaiting(o)'
              /\ \A g \in Household : Exists(g)' => HouseSound(g)'
  <2>1. /\ Decided(op[r]) /\ Awaiting(op[r]) = op[r].users
        /\ \A w \in User : Settled(w) \/ w \in Awaiting(op[r])
        /\ \A g \in Household : Exists(g) => HouseSound(g)
    BY <1>1, <1>14, Alone DEF IInv, Awaiting
  <2>2. \A h \in o.todo : until[h] < now
    BY <1>1, <1>7, <2>1 DEF Decided
  <2>3. Decided(o)
    BY <1>4, <1>6, <1>7, <2>2 DEF Decided
  <2>4. Decided(o)'
    BY <1>2, <2>3, StillDecided
  <2>5. Awaiting(o)' = op[r].users
    BY <1>7 DEF Awaiting
  <2> QED
    BY <1>2, <2>1, <2>4, <2>5, SamePremiums, SameHouses DEF AllSame
<1>15. One(Joins(o)) <= One(Joins(op[r])) /\ o.step \notin {"accept", "mark"}
  BY <1>7, <1>11
<1>16. \A i \in Invitations : invitation[i] # NoInvite => invitation'[i] # NoInvite
  BY <1>2 DEF AllSame
<1> QED
  BY <1>1, <1>2, <1>5, <1>7, <1>8, <1>9, <1>10, <1>12, <1>13, <1>14, <1>15, <1>16, GoOnInv DEF AllSame

\* And written.
LEMMA RecomputeWriteInv ==
    ASSUME IInv, NEW r \in Request, RecomputeWrite(r) PROVE IInv'
<1>1. /\ op[r] \in Ops /\ op[r] # NoOp /\ op[r].step = "write" /\ HasTodo(op[r])
      /\ op[r].u \in User /\ op[r].premium \in Date
      /\ op[r].users \subseteq User /\ op[r].job \in BOOLEAN /\ op[r].todo \subseteq Household
  BY Typed, Shapes, NoOpFacts DEF RecomputeWrite, IInv, HasTodo
<1>2. UNCHANGED <<now, owner, active, until, row, joins, invitation, personal, calls, raced>>
  BY DEF RecomputeWrite, households, members
<1>3. PICK u \in User, d \in Date : u = op[r].u /\ d = op[r].premium
  BY <1>1
<1>4. PICK S \in SUBSET User, job \in BOOLEAN, todo \in SUBSET Household :
         S = op[r].users /\ todo = op[r].todo /\ Recompute(r, S, job, todo)
  BY <1>1 DEF RecomputeWrite
<1>5. premium' = [premium EXCEPT ![u] = d] /\ premium \in [User -> Date]
  BY <1>3 DEF RecomputeWrite, IInv, TypeOK
<1>6. /\ premium' \in [User -> Date] /\ premium'[u] = d
      /\ \A w \in User \ {u} : premium'[w] = premium[w]
  BY <1>5
<1>7. op' \in [Request -> Ops] => TypeOK'
  BY <1>2, <1>6 DEF IInv, TypeOK
<1>8. RefsSound'
  BY <1>2 DEF IInv, RefsSound, Exists
<1>9. ASSUME NEW w \in User PROVE joins'[w] <= joins[w] + One(Joins(op[r]))
  <2>1. joins[w] \in Nat /\ joins'[w] = joins[w] /\ One(Joins(op[r])) \in {0, 1}
    BY <1>2, Typed DEF IInv, One
  <2> QED
    BY <2>1
<1>10. /\ \A g \in Household : until'[g] <= MaxTime + calls
       /\ \A w \in User : personal'[w] <= MaxTime + calls /\ premium'[w] <= MaxTime + calls
  <2>1. d <= MaxTime + calls
    BY <1>1, <1>3, Bounds DEF DatesBounded
  <2> QED
    BY <1>2, <1>6, <2>1, Bounds
<1>11. ASSUME ~raced
       PROVE  /\ \A h \in todo : until'[h] < now
              /\ \A w \in User : Settled(w)' \/ w \in S
              /\ \A g \in Household : Exists(g)' => HouseSound(g)'
  <2>1. /\ Decided(op[r]) /\ Awaiting(op[r]) = S \cup {u}
        /\ \A w \in User : Settled(w) \/ w \in Awaiting(op[r])
        /\ \A g \in Household : Exists(g) => HouseSound(g)
    BY <1>1, <1>3, <1>4, <1>11, Alone DEF IInv, Awaiting
  <2>2. Current(d) = Entitled(u) /\ \A h \in todo : until[h] < now
    BY <1>1, <1>3, <1>4, <2>1 DEF Decided
  <2>3. /\ \A w : Entitled(w)' = Entitled(w)
        /\ \A e : Current(e)' = Current(e)
    BY <1>2, SamePremiums
  <2>4. Settled(u)'
    <3>1. Current(premium[u])' = Current(d)
      BY <1>2, <1>6 DEF Current
    <3> QED
      BY <2>2, <2>3, <3>1 DEF Settled
  <2>5. ASSUME NEW w \in User, w # u, Settled(w) PROVE Settled(w)'
    <3>1. Family(w)' = Family(w)
      BY <1>2, SameFamily
    <3> QED
      BY <1>2, <1>6, <2>5, <3>1, SamePremium
  <2>6. \A h \in todo : until'[h] < now
    BY <1>2, <2>2
  <2> QED
    BY <1>2, <2>1, <2>4, <2>5, <2>6, SameHouses
<1>12. \A i \in Invitations : invitation[i] # NoInvite => invitation'[i] # NoInvite
  BY <1>2
<1> QED
  BY <1>1, <1>2, <1>4, <1>7, <1>8, <1>9, <1>10, <1>11, <1>12, RecomputeInv

-----------------------------------------------------------------------------
(* Time *)

\* The later of two dates that are not over is still the later one, or is
\* over, when time goes on.
LEMMA Passing ==
    ASSUME NEW n \in Nat, NEW x \in Nat, NEW p \in Nat, NEW f \in Nat,
           (IF x > n THEN x ELSE 0) = Later(IF p > n THEN p ELSE 0, IF f > n THEN f ELSE 0)
    PROVE  (IF x > n + 1 THEN x ELSE 0)
              = Later(IF p > n + 1 THEN p ELSE 0, IF f > n + 1 THEN f ELSE 0)
  BY DEF Later

\* A premium that was right stays right as time goes on.
LEMMA PremiumPassing ==
    ASSUME TypeOK, NEW u \in User, NEW x \in Nat, Tick, Current(x) = Entitled(u)
    PROVE  Current(x)' = Entitled(u)'
<1>1. now \in Nat /\ now' = now + 1 /\ UNCHANGED <<active, until, row, personal>>
  BY Typed DEF Tick, households, members, users
<1>2. PICK p \in Nat : p = personal[u]
  BY Typed
<1>3. PICK f \in Nat : f = IF row[u] # NoRow /\ active[row[u].h] THEN until[row[u].h] ELSE 0
  BY Typed
<1>4. /\ Family(u) = IF f > now THEN f ELSE 0
      /\ Family(u)' = IF f > now' THEN f ELSE 0
  BY <1>1, <1>3 DEF Family, Current
<1>5. /\ Entitled(u) = Later(IF p > now THEN p ELSE 0, IF f > now THEN f ELSE 0)
      /\ Entitled(u)' = Later(IF p > now' THEN p ELSE 0, IF f > now' THEN f ELSE 0)
  BY <1>1, <1>2, <1>4 DEF Entitled, Current
<1>6. /\ Current(x) = IF x > now THEN x ELSE 0
      /\ Current(x)' = IF x > now' THEN x ELSE 0
  BY DEF Current
<1>7. PICK n \in Nat : n = now /\ now' = n + 1
  BY <1>1
<1>8. (IF x > n THEN x ELSE 0) = Later(IF p > n THEN p ELSE 0, IF f > n THEN f ELSE 0)
  BY <1>5, <1>6, <1>7
<1>9. (IF x > n + 1 THEN x ELSE 0)
         = Later(IF p > n + 1 THEN p ELSE 0, IF f > n + 1 THEN f ELSE 0)
  BY <1>8, Passing
<1> QED
  BY <1>5, <1>6, <1>7, <1>9

\* Time passes: offers and premiums may only end.
LEMMA TickInv ==
    ASSUME IInv, Tick PROVE IInv'
<1>1. /\ TypeOK /\ RefsSound /\ RequestsSound /\ CallsCounted /\ Serial
      /\ UNCHANGED <<owner, active, until, row, joins, invitation, personal, premium,
                     op, calls, raced>>
      /\ now' = now + 1 /\ now < MaxTime
  BY DEF IInv, Tick, households, members, users
<1>2. TypeOK'
  <2>1. now' \in 1..MaxTime
    BY <1>1, Typed
  <2> QED
    BY <1>1, <2>1 DEF TypeOK
<1>3. RefsSound' /\ RequestsSound' /\ CallsCounted'
  BY <1>1 DEF RefsSound, Exists, RequestsSound, CallsCounted, Joining, DatesBounded
<1>4. /\ \A h : Exists(h)' <=> Exists(h)
      /\ \A h : Members(h)' = Members(h) /\ Owners(h)' = Owners(h)
  BY <1>1 DEF Exists, Members, Owners
<1>5. \A h : Pending(h)' \subseteq Pending(h)
  <2>1. \A i \in Invitations : invitation[i].status = "pending" => invitation[i].expires \in Int
    BY <1>1, Typed, HouseholdAssumption DEF Sent
  <2>2. \A n \in Int : n > now + 1 => n > now
    BY <1>1, Typed
  <2> QED
    BY <1>1, <2>1, <2>2 DEF Pending
<1>6. ASSUME NEW h, HouseSound(h) PROVE HouseSound(h)'
  <2>1. Cardinality(Members(h)) + Cardinality(Pending(h)') <= MaxMembers
    BY <1>5, <1>6, FewerOffers
  <2> QED
    BY <1>1, <1>4, <1>6, <2>1 DEF HouseSound
<1>7. \A u \in User : Settled(u) => Settled(u)'
  <2>1. ASSUME NEW u \in User, Settled(u) PROVE Settled(u)'
    <3>1. PICK x \in Nat : x = premium[u]
      BY <1>1, Typed
    <3>2. Current(x)' = Entitled(u)'
      BY <1>1, <2>1, <3>1, PremiumPassing DEF Settled
    <3> QED
      BY <1>1, <3>1, <3>2 DEF Settled, Current
  <2> QED
    BY <2>1
<1>8. ASSUME NEW o \in Ops, Decided(o) PROVE Decided(o)'
  <2>1. o.step = "invite" =>
           Exists(o.h)' /\ Cardinality(Members(o.h)') + Cardinality(Pending(o.h)') < MaxMembers
    <3>1. \A h : Cardinality(Pending(h)') <= Cardinality(Pending(h))
      BY <1>5, Finite, FS_Subset
    <3>2. ASSUME o.step = "invite"
          PROVE  Exists(o.h)'
                 /\ Cardinality(Members(o.h)') + Cardinality(Pending(o.h)') < MaxMembers
      <4>1. Exists(o.h) /\ Cardinality(Members(o.h)) + Cardinality(Pending(o.h)) < MaxMembers
        BY <1>8, <3>2 DEF Decided
      <4> QED
        BY <1>4, <3>1, <4>1, Finite, HouseholdAssumption
    <3> QED
      BY <3>2
  <2>2. ASSUME o.step = "accept"
        PROVE  /\ row'[o.u] = NoRow /\ invitation'[o.i] \in Sent
               /\ \A h : h = invitation[o.i].h =>
                     Cardinality(Members(h)') + Cardinality(Pending(h)' \ {o.i}) < MaxMembers
    <3>1. PICK h : h = invitation[o.i].h
      OBVIOUS
    <3>2. /\ row[o.u] = NoRow /\ invitation[o.i] \in Sent
          /\ Cardinality(Members(h)) + Cardinality(Pending(h) \ {o.i}) < MaxMembers
      BY <1>8, <2>2, <3>1 DEF Decided
    <3>3. IsFiniteSet(Pending(h) \ {o.i}) /\ IsFiniteSet(Pending(h)' \ {o.i})
      BY Finite, FS_RemoveElement
    <3>4. /\ Cardinality(Pending(h) \ {o.i}) \in Nat /\ Cardinality(Pending(h)' \ {o.i}) \in Nat
          /\ Cardinality(Pending(h)' \ {o.i}) <= Cardinality(Pending(h) \ {o.i})
      <4>1. Pending(h)' \ {o.i} \subseteq Pending(h) \ {o.i}
        BY <1>5
      <4> QED
        BY <3>3, <4>1, FS_Subset, FS_CardinalityType
    <3>5. Members(h)' = Members(h)
      BY <1>4
    <3>6. Cardinality(Members(h)') + Cardinality(Pending(h)' \ {o.i}) < MaxMembers
      BY <3>2, <3>4, <3>5, Finite, HouseholdAssumption
    <3> QED
      BY <1>1, <3>1, <3>2, <3>6
  <2>3. o.step = "write" => Current(o.premium)' = Entitled(o.u)'
    <3>1. o.step = "write" => o.u \in User /\ o.premium \in Nat /\ Current(o.premium) = Entitled(o.u)
      BY <1>8, Shapes, HouseholdAssumption DEF Decided, Date
    <3> QED
      BY <1>1, <3>1, PremiumPassing
  <2>4. HasTodo(o) => \A h \in o.todo : until'[h] < now'
    <3>1. HasTodo(o) => \A h \in o.todo : until[h] < now /\ until[h] \in Nat
      BY <1>1, <1>8, Shapes, Typed DEF Decided, HasTodo
    <3>2. \A n \in Nat : n < now => n < now'
      BY <1>1, Typed
    <3> QED
      BY <1>1, <3>1, <3>2
  <2>5. \A u, id : HasRow(u, id)' <=> HasRow(u, id)
    BY <1>1 DEF HasRow
  <2>6. /\ o.step = "own" => row'[o.u] = NoRow /\ owner'[o.h] = o.u /\ ~active'[o.h]
                             /\ Members(o.h)' = {}
                             /\ \A i \in Invitations : invitation'[i] \in Sent => invitation'[i].h # o.h
        /\ o.step = "create" => row'[o.u] = NoRow
        /\ o.step = "remove" => HasRow(o.u, o.id)' /\ row'[o.u].role = "member"
        /\ o.step = "transfer" =>
              /\ owner'[o.h] = o.from /\ o.from # o.to /\ HasRow(o.to, o.toId)'
              /\ row'[o.to].h = o.h /\ o.fromId # 0
        /\ o.step = "dissolve" => o.users = Members(o.h)'
    BY <1>1, <1>4, <1>8, <2>5 DEF Decided
  <2> QED
    BY <1>1, <2>1, <2>2, <2>3, <2>4, <2>6 DEF Decided, HasTodo
<1>9. Serial'
  <2>1. CASE raced
    BY <1>1, <2>1 DEF Serial
  <2>2. CASE ~raced
    <3>1. \A r, q \in Request : op'[r] # NoOp /\ op'[q] # NoOp => r = q
      BY <1>1, <2>2 DEF Serial
    <3>2. ASSUME NEW r \in Request PROVE Decided(op[r])'
      <4>1. PICK o \in Ops : o = op[r]
        BY <1>1, Typed
      <4>2. Decided(o)
        BY <1>1, <2>2, <4>1 DEF Serial, Decided
      <4>3. Decided(o)'
        BY <1>8, <4>2
      <4> QED
        BY <1>1, <4>1, <4>3 DEF Decided
    <3>3. \A r \in Request : Awaiting(op[r])' = Awaiting(op[r])
      BY <1>1, <1>4 DEF Awaiting
    <3>4. \A u \in User : Settled(u)' \/ \E r \in Request : u \in Awaiting(op[r])'
      BY <1>1, <1>7, <2>2, <3>3 DEF Serial
    <3>5. \A h \in Household : Exists(h)' =>
             HouseSound(h)' \/ \E r \in Request : op'[r].step = "own" /\ op'[r].h = h
      BY <1>1, <1>4, <1>6, <2>2 DEF Serial
    <3> QED
      BY <3>1, <3>2, <3>4, <3>5 DEF Serial
  <2> QED
    BY <2>1, <2>2
<1> QED
  BY <1>2, <1>3, <1>9 DEF IInv

-----------------------------------------------------------------------------
(* The inductive invariant *)

\* The first state.
LEMMA InitInv == ASSUME Init PROVE IInv
<1>1. PICK h \in Household, u \in User, v \in User :
         /\ u # v
         /\ owner = [g \in Household |-> IF g = h THEN u ELSE Nobody]
         /\ active = [g \in Household |-> g = h]
         /\ until = [g \in Household |-> IF g = h THEN 2 ELSE 0]
         /\ row = [w \in User |-> IF w = u THEN [h |-> h, role |-> "owner", id |-> 1]
                                  ELSE IF w = v THEN [h |-> h, role |-> "member", id |-> 1]
                                  ELSE NoRow]
         /\ joins = [w \in User |-> IF w \in {u, v} THEN 1 ELSE 0]
         /\ premium = [w \in User |-> IF w \in {u, v} THEN 2 ELSE 0]
  BY DEF Init
<1>2. /\ now = 1 /\ calls = 0 /\ raced = FALSE
      /\ invitation = [i \in Invitations |-> NoInvite]
      /\ personal = [w \in User |-> 0]
      /\ op = [r \in Request |-> NoOp]
  BY DEF Init
<1>3. /\ MaxTime \in Nat /\ MaxTime >= 2 /\ MaxCalls \in Nat /\ MaxMembers \in Nat
      /\ MaxMembers >= 2 /\ Nobody \notin User /\ Nobody \notin Household
  BY HouseholdAssumption
<1>4. 2 \in Date /\ 0 \in Date /\ 1 \in RowId
  BY <1>3 DEF Date, RowId
<1>5. /\ [h |-> h, role |-> "owner", id |-> 1]
            \in [h : Household, role : {"owner", "member"}, id : RowId]
      /\ [h |-> h, role |-> "member", id |-> 1]
            \in [h : Household, role : {"owner", "member"}, id : RowId]
  BY <1>4
<1>6. TypeOK
  <2>1. row \in [User -> {NoRow} \cup [h : Household, role : {"owner", "member"}, id : RowId]]
    BY <1>1, <1>5
  <2>2. /\ 1 \in 1..MaxTime /\ 0 \in 0..MaxCalls
        /\ now = 1 /\ calls = 0 /\ raced \in BOOLEAN
    <3>1. 1 \in 1..MaxTime /\ 0 \in 0..MaxCalls
      BY <1>3
    <3> QED
      BY <1>2, <3>1
  <2>3. /\ owner \in [Household -> User \cup {Nobody, Deleted}]
        /\ active \in [Household -> BOOLEAN] /\ until \in [Household -> Date]
        /\ joins \in [User -> {0} \cup RowId] /\ premium \in [User -> Date]
    BY <1>1, <1>4
  <2>4. /\ invitation \in [Invitations -> {NoInvite, Cascaded} \cup Sent]
        /\ personal \in [User -> Date] /\ op \in [Request -> Ops]
    BY <1>2, <1>4, NoOpFacts
  <2> QED
    BY <2>1, <2>2, <2>3, <2>4 DEF TypeOK
<1>7. /\ \A w \in User \ {u, v} : row[w] = NoRow
      /\ row[u].h = h /\ row[u].role = "owner" /\ row[u] # NoRow
      /\ row[v].h = h /\ row[v].role = "member" /\ row[v] # NoRow
      /\ owner[h] = u /\ active[h] /\ until[h] = 2
      /\ \A g \in Household \ {h} : owner[g] = Nobody /\ ~active[g] /\ until[g] = 0
      /\ \A g \in Household : NoRow.h # g
  <2>1. /\ row[u] = [h |-> h, role |-> "owner", id |-> 1]
        /\ row[v] = [h |-> h, role |-> "member", id |-> 1]
        /\ \A w \in User \ {u, v} : row[w] = NoRow
    BY <1>1
  <2>2. [h |-> h, role |-> "owner", id |-> 1] # NoRow /\ [h |-> h, role |-> "member", id |-> 1] # NoRow
        /\ \A g \in Household : NoRow.h # g
    BY <1>3 DEF NoRow
  <2>3. /\ owner[h] = u /\ active[h] /\ until[h] = 2
        /\ \A g \in Household \ {h} : owner[g] = Nobody /\ ~active[g] /\ until[g] = 0
    BY <1>1
  <2> QED
    BY <2>1, <2>2, <2>3
<1>8. \A g \in Household : Exists(g) <=> g = h
  BY <1>3, <1>7 DEF Exists
<1>9. NoInvite \notin Sent /\ \A i \in Invitations : invitation[i] = NoInvite
  BY <1>2 DEF NoInvite, Sent
<1>10. RefsSound
  BY <1>7, <1>8, <1>9 DEF RefsSound
<1>11. \A r \in Request : op[r] = NoOp /\ op[r].step = "none"
  BY <1>2, NoOpFacts
<1>12. RequestsSound
  BY <1>11 DEF RequestsSound
<1>13. CallsCounted
  <2>1. Joining = {}
    BY <1>11 DEF Joining, Joins
  <2>2. Cardinality(Joining) = 0
    BY <2>1, FS_EmptySet
  <2>3. \A w \in User : joins[w] \in {0, 1} /\ premium[w] \in {0, 2} /\ personal[w] = 0
    BY <1>1, <1>2
  <2>4. \A g \in Household : until[g] \in {0, 2}
    BY <1>1
  <2>5. \A r \in Request : DatesBounded(op[r])
    BY <1>11 DEF DatesBounded
  <2> QED
    BY <1>2, <1>3, <2>2, <2>3, <2>4, <2>5 DEF CallsCounted
<1>14. HouseSound(h)
  <2>1. Members(h) = {u, v}
    BY <1>7 DEF Members
  <2>2. Owners(h) = {u}
    BY <1>7, <2>1 DEF Owners
  <2>3. Pending(h) = {}
    BY <1>9 DEF Pending, NoInvite
  <2>4. Cardinality(Members(h)) = 2
    <3>1. Members(h) = {u} \cup {v} /\ v \notin {u}
      BY <1>1, <2>1
    <3>2. IsFiniteSet({u}) /\ Cardinality({u}) = 1
      BY FS_Singleton
    <3>3. Cardinality({u} \cup {v}) = Cardinality({u}) + 1
      BY <3>1, <3>2, FS_AddElement
    <3> QED
      BY <3>1, <3>2, <3>3
  <2>5. Cardinality(Pending(h)) = 0
    BY <2>3, FS_EmptySet
  <2> QED
    BY <1>3, <1>7, <2>2, <2>4, <2>5 DEF HouseSound
<1>15. ASSUME NEW w \in User PROVE Settled(w)
  <2>1. Current(personal[w]) = 0 /\ Current(2) = 2 /\ Current(0) = 0
    BY <1>2 DEF Current
  <2>2. CASE w \in {u, v}
    <3>1. premium[w] = 2 /\ Family(w) = 2
      BY <1>1, <1>7, <2>1, <2>2 DEF Family
    <3> QED
      BY <2>1, <3>1 DEF Settled, Entitled, Later
  <2>3. CASE w \notin {u, v}
    <3>1. premium[w] = 0 /\ Family(w) = 0
      BY <1>1, <1>7, <2>3 DEF Family
    <3> QED
      BY <2>1, <3>1 DEF Settled, Entitled, Later
  <2> QED
    BY <2>2, <2>3
<1>16. \A r \in Request : Decided(op[r])
  BY <1>11 DEF Decided
<1>17. Serial
  BY <1>8, <1>11, <1>14, <1>15, <1>16 DEF Serial
<1> QED
  BY <1>6, <1>10, <1>12, <1>13, <1>17 DEF IInv

\* A step that changes nothing.
LEMMA StutterInv == ASSUME IInv, UNCHANGED vars PROVE IInv'
<1>1. /\ TypeOK /\ RefsSound /\ RequestsSound /\ CallsCounted /\ Serial
      /\ UNCHANGED <<now, owner, active, until, row, joins, invitation, personal, premium,
                     op, calls, raced>>
  BY DEF IInv, vars, households, members, users
<1>2. TypeOK' /\ RefsSound' /\ RequestsSound' /\ CallsCounted'
  BY <1>1 DEF TypeOK, RefsSound, Exists, RequestsSound, CallsCounted, Joining, DatesBounded
<1>3. AllSame
  BY <1>1 DEF AllSame
<1>4. Serial'
  <2>1. CASE raced
    BY <1>1, <2>1 DEF Serial
  <2>2. CASE ~raced
    <3>1. \A r, q \in Request : op'[r] # NoOp /\ op'[q] # NoOp => r = q
      BY <1>1, <2>2 DEF Serial
    <3>2. ASSUME NEW r \in Request PROVE Decided(op[r])'
      <4>1. PICK o : o = op[r]
        OBVIOUS
      <4>2. Decided(o)
        BY <1>1, <2>2, <4>1 DEF Serial, Decided
      <4>3. Decided(o)'
        BY <1>3, <4>2, StillDecided
      <4> QED
        BY <1>1, <4>1, <4>3 DEF Decided
    <3>3. \A r \in Request : Awaiting(op[r])' = Awaiting(op[r])
      BY <1>1 DEF Awaiting, Members
    <3>4. \A u \in User : Settled(u)' \/ \E r \in Request : u \in Awaiting(op[r])'
      BY <1>1, <2>2, <3>3, SamePremiums DEF Serial
    <3>5. \A h \in Household : Exists(h)' =>
             HouseSound(h)' \/ \E r \in Request : op'[r].step = "own" /\ op'[r].h = h
      BY <1>1, <2>2, SameHouses DEF Serial
    <3> QED
      BY <3>1, <3>2, <3>4, <3>5 DEF Serial
  <2> QED
    BY <2>1, <2>2
<1> QED
  BY <1>2, <1>4 DEF IInv

\* Every step.
LEMMA NextInv == ASSUME IInv, Next PROVE IInv'
<1>1. ASSUME NEW r \in Request, NEW u \in User,
             \/ CreateRead(r, u) \/ AcceptRead(r, u) \/ DeclineRead(r, u) \/ CancelRead(r, u)
             \/ LeaveRead(r, u) \/ DissolveRead(r, u) \/ ActivateRead(r, u) \/ PersonalRead(r, u)
             \/ SyncRead(r, u)
      PROVE  IInv'
  BY <1>1, CreateReadInv, AcceptReadInv, DeclineReadInv, CancelReadInv, LeaveReadInv,
     DissolveReadInv, ActivateReadInv, PersonalReadInv, SyncReadInv
<1>2. ASSUME NEW r \in Request, NEW u \in User, NEW v \in User,
             InviteRead(r, u, v) \/ RemoveRead(r, u, v) \/ TransferRead(r, u, v)
      PROVE  IInv'
  BY <1>2, InviteReadInv, RemoveReadInv, TransferReadInv
<1>3. ASSUME NEW r \in Request, Proceed(r) PROVE IInv'
  BY <1>3, CreateHouseholdInv, CreateMemberInv, InviteWriteInv, AcceptWriteInv, MarkInv,
     RemoveMemberInv, TransferInv, DissolveInv, ActivateInv, PersonalInv, ExpireInv,
     ExpireInvitationsInv, ReadMembersInv, RecomputeReadInv, RecomputeWriteInv DEF Proceed
<1>4. ASSUME NEW r \in Request, ExpireRead(r) PROVE IInv'
  BY <1>4, ExpireReadInv
<1>5. CASE Tick
  BY <1>5, TickInv
<1> QED
  BY <1>1, <1>2, <1>3, <1>4, <1>5 DEF Next

\* References, bounds and, for requests that did not overlap, what each of
\* them decided and left settled, in every reachable state.
THEOREM InductiveInvariant == Spec => []IInv
<1>1. Init => IInv
  BY InitInv
<1>2. IInv /\ [Next]_vars => IInv'
  BY NextInv, StutterInv
<1> QED
  BY <1>1, <1>2, PTL DEF Spec

\* The types of the rows, the requests and the dates.
THEOREM TypeCorrect == Spec => []TypeOK
<1>1. IInv => TypeOK
  BY DEF IInv
<1> QED
  BY <1>1, InductiveInvariant, PTL

\* Premiums are right after requests that did not overlap (recomputePremium
\* is called after each change).
THEOREM PremiumsRecomputed == Spec => []SerialPremium
<1>1. IInv => SerialPremium
  BY QuietSound DEF IInv, SerialPremium, Settled
<1> QED
  BY <1>1, InductiveInvariant, PTL

\* A household has its owner and its places after requests that did not overlap.
THEOREM HouseholdsSound == Spec => []SerialHousehold
<1>1. IInv => SerialHousehold
  BY QuietSound DEF IInv, SerialHousehold, HouseSound, Owners
<1> QED
  BY <1>1, InductiveInvariant, PTL
=============================================================================
