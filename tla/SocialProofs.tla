----------------------------- MODULE SocialProofs -----------------------------
(***************************************************************************)
(* Proofs about Friends and Messages, for every number of users, requests  *)
(* and invitations, and every limit.                                       *)
(***************************************************************************)
EXTENDS Messages, FiniteSetTheorems, SequenceTheorems, TLAPS

-----------------------------------------------------------------------------
(* Rows and invitations *)

\* Every row of a pair has the last id given out, one of the pair made it, and
\* only the two agree to it; accepted, both have.
RowsSound ==
    \A p \in Pair : row[p] # NoRow =>
        /\ row[p].id = rows[p]
        /\ row[p].by \in p /\ row[p].by \in row[p].agreed /\ row[p].agreed \subseteq p
        /\ row[p].status = "accepted" => row[p].agreed = p

\* The row a request names was there, and if it still is, somebody else made it.
NotOwn(id, u, p) ==
    id <= rows[p] /\ (row[p] # NoRow /\ row[p].id = id => row[p].by # u)

OpSound(o) ==
    /\ o.step \in {"create", "again"} => o.u \in o.p
    /\ o.step = "accept" => o.u \in o.p /\ NotOwn(o.id, o.u, o.p)
    /\ o.step \in {"use", "pair", "join"} => invite[o.i] # NoInvite /\ o.u # invite[o.i].owner
    /\ o.step = "join" /\ o.id # 0 =>
          /\ o.id <= rows[{o.u, invite[o.i].owner}]
          /\ invite[o.i].kind = "link" => NotOwn(o.id, o.u, {o.u, invite[o.i].owner})
    /\ o.step = "unfriend" => o.u # o.v

RequestsSound == \A r \in Request : OpSound(op[r])

-----------------------------------------------------------------------------
(* Counts *)

Creating    == {r \in Request : op[r].step \in {"create", "use", "pair", "join"}}
Using       == {r \in Request : op[r].step = "use"}
Reporting   == {r \in Request : op[r].step = "report"}
Spending(i) == {r \in Request : op[r].step \in {"pair", "join"} /\ op[r].i = i}

\* A row, a use or a report is that of a request.
CallsCounted ==
    /\ \A p \in Pair : rows[p] + Cardinality(Creating) <= 1 + calls
    /\ \A i \in Invites : invite[i] # NoInvite => invite[i].uses + Cardinality(Using) <= calls
    /\ \A u \in User : reported[u] + Cardinality(Reporting) <= calls
    /\ Cardinality(Using) <= calls

\* A use is spent by one request, which makes one row at most.
UsesCounted ==
    \A i \in Invites : invite[i] # NoInvite =>
        /\ invite[i].made + Cardinality(Spending(i)) <= invite[i].uses
        /\ invite[i].uses <= MaxUses

-----------------------------------------------------------------------------
(* One request at a time *)

Apart(p)   == \A u, v \in p : u # v => <<u, v>> \notin blocks
HaveRoom(p) == \A u \in p : CanAddFriend(u)

\* What a request decided still holds when nothing has overlapped it.
Decided(o) ==
    /\ o.step = "create" => row[o.p] = NoRow /\ Apart(o.p)
    /\ o.step # "again"
    /\ o.step = "accept" => Apart(o.p) /\ HaveRoom(o.p)
    /\ o.step \in {"use", "pair", "join"} =>
          LET p == {o.u, invite[o.i].owner} IN Apart(p) /\ HaveRoom(p)
    /\ o.step = "report" => reported[o.u] < MaxReports

Undisturbed ==
    ~disturbed =>
        /\ \A r, q \in Request : op[r] # NoOp /\ op[q] # NoOp => r = q
        /\ \A r \in Request : Decided(op[r])
        /\ \A u \in User : Cardinality(Friend(u)) <= MaxFriendsFor(u) /\ reported[u] <= MaxReports
        /\ \A p \in Pair : \/ Apart(p) \/ row[p] = NoRow
                           \/ \E r \in Request : op[r].step = "unfriend" /\ {op[r].u, op[r].v} = p

IInv == /\ TypeOK /\ RowsSound /\ RequestsSound /\ CallsCounted /\ UsesCounted /\ Undisturbed

-----------------------------------------------------------------------------
(* Pairs, counts and operations *)

\* Two users are a pair, and a pair is what any two users of it make.
LEMMA Pairs ==
    /\ \A u, v \in User : u # v => {u, v} \in Pair
    /\ \A p \in Pair : IsFiniteSet(p) /\ Cardinality(p) = 2
    /\ \A p \in Pair : \A u, v \in p : u # v => p = {u, v}
    /\ \A p \in Pair : \A u \in p : \E v \in p : v # u
<1>1. ASSUME NEW u, NEW v, u # v
      PROVE  IsFiniteSet({u, v}) /\ Cardinality({u, v}) = 2
  <2>1. IsFiniteSet({u}) /\ Cardinality({u}) = 1 /\ v \notin {u} /\ {u, v} = {u} \cup {v}
    BY <1>1, FS_Singleton
  <2> QED
    BY <2>1, FS_AddElement
<1>2. ASSUME NEW p \in Pair PROVE IsFiniteSet(p) /\ Cardinality(p) = 2
  BY <1>2, FS_Subset, FriendsAssumption DEF Pair
<1>3. ASSUME NEW p \in Pair, NEW u \in p, NEW v \in p, u # v PROVE p = {u, v}
  <2> DEFINE T == {u, v}
  <2>1. T \in SUBSET p /\ IsFiniteSet(p) /\ Cardinality(p) = Cardinality(T)
    BY <1>1, <1>2, <1>3
  <2> HIDE DEF T
  <2>2. p = T
    BY <2>1, FS_Subset
  <2> QED
    BY <2>2 DEF T
<1>4. ASSUME NEW p \in Pair, NEW u \in p PROVE \E v \in p : v # u
  <2>1. SUFFICES ASSUME p = {u} PROVE FALSE
    OBVIOUS
  <2> QED
    BY <1>2, <2>1, FS_Singleton
<1>5. \A u, v \in User : u # v => {u, v} \in Pair
  BY <1>1 DEF Pair
<1> QED
  BY <1>2, <1>3, <1>4, <1>5

\* Two sets that differ by one element at most differ by one at most in size.
LEMMA OneElement ==
    ASSUME NEW S, IsFiniteSet(S), NEW T, NEW x, T \ {x} = S \ {x}
    PROVE  /\ IsFiniteSet(T) /\ Cardinality(S) \in Nat /\ Cardinality(T) \in Nat
           /\ (x \in S /\ x \in T) => Cardinality(T) = Cardinality(S)
           /\ (x \in S /\ x \notin T) => Cardinality(T) = Cardinality(S) - 1
           /\ (x \notin S /\ x \in T) => Cardinality(T) = Cardinality(S) + 1
           /\ (x \notin S /\ x \notin T) => Cardinality(T) = Cardinality(S)
<1>1. CASE (x \in S) <=> (x \in T)
  <2>1. T = S
    BY <1>1
  <2> QED
    BY <1>1, <2>1, FS_CardinalityType
<1>2. CASE x \in S /\ x \notin T
  <2>1. T = S \ {x}
    BY <1>2
  <2> QED
    BY <1>2, <2>1, FS_RemoveElement, FS_CardinalityType
<1>3. CASE x \notin S /\ x \in T
  <2>1. T = S \cup {x}
    BY <1>3
  <2> QED
    BY <1>3, <2>1, FS_AddElement, FS_CardinalityType
<1> QED
  BY <1>1, <1>2, <1>3

\* What each step of a request has read.
LEMMA Shapes ==
    ASSUME NEW o \in Ops
    PROVE  /\ o.step \in {"create", "again"} =>
                 o.p \in Pair /\ o.u \in User /\ o = [step |-> o.step, u |-> o.u, p |-> o.p]
           /\ o.step = "accept" =>
                 o.p \in Pair /\ o.u \in User /\ o.id \in RowId /\ o.checked \in BOOLEAN
           /\ o.step = "delete" => o.p \in Pair /\ o.id \in RowId
           /\ o.step \in {"use", "pair"} =>
                 o.u \in User /\ o.i \in Invites /\ o = [step |-> o.step, u |-> o.u, i |-> o.i]
           /\ o.step = "join" => o.u \in User /\ o.i \in Invites /\ o.id \in RowId \cup {0}
           /\ o.step = "unfriend" => o.u \in User /\ o.v \in User
           /\ o.step = "revoke" => o.users \subseteq User
           /\ o.step \in {"hide", "report"} => o.u \in User
           /\ o.step = "send" => o.u \in User /\ o.to \subseteq User /\ o.day \in Day
           /\ o.step = "tell" => o.u \in User /\ o.to \subseteq User
           /\ o.step = "none" => o = NoOp
           /\ o.step \in {"none", "create", "again", "accept", "delete", "use", "pair", "join",
                          "unfriend", "revoke", "hide", "report", "send", "tell"}
  BY DEF Ops, FriendOps, NoOp

\* The operations that are none, and what the sets of requests say of one.
LEMMA NoOpFacts == NoOp \in Ops /\ NoOp.step = "none"
  BY DEF Ops, FriendOps, NoOp

\* Goto changes the operation of one request.
LEMMA Going ==
    ASSUME TypeOK, NEW r \in Request, NEW o, Goto(r, o)
    PROVE  /\ \A q \in Request : op'[q] = IF q = r THEN o ELSE op[q]
           /\ o \in Ops => op' \in [Request -> Ops]
  BY DEF Goto, TypeOK

-----------------------------------------------------------------------------
(* What a step leaves of the requests and their counts *)

\* A row keeps its id and who made it, or goes, or is a new one; an invitation
\* keeps its owner and its kind.
RowsGrow ==
    \A p \in Pair :
        /\ rows'[p] \in Nat /\ rows[p] <= rows'[p]
        /\ \/ row'[p] = NoRow
           \/ row[p] # NoRow /\ row'[p].id = row[p].id /\ row'[p].by = row[p].by
           \/ row'[p].id > rows[p]

InvitesKept ==
    \A i \in Invites : invite[i] # NoInvite =>
        /\ invite'[i] # NoInvite
        /\ invite'[i].owner = invite[i].owner /\ invite'[i].kind = invite[i].kind

One(b) == IF b THEN 1 ELSE 0

\* The rows of TypeOK that proofs read one by one.
LEMMA Typed ==
    ASSUME TypeOK
    PROVE  /\ \A r \in Request : op[r] \in Ops
           /\ \A p \in Pair : /\ rows[p] \in Nat /\ rows[p] <= MaxCalls + 1
                              /\ row[p] # NoRow => /\ row[p].id \in RowId /\ row[p].by \in User
                                                   /\ row[p].status \in {"pending", "accepted"}
                                                   /\ row[p].day \in Day /\ row[p].agreed \subseteq User
                              /\ row[p] = NoRow => row[p].status = "none"
           /\ \A i \in Invites : invite[i] # NoInvite =>
                 /\ invite[i].owner \in User /\ invite[i].kind \in {"qr", "link"}
                 /\ invite[i].uses \in Nat /\ invite[i].made \in Nat
                 /\ invite[i].state \in {"live", "expired", "revoked"}
           /\ \A u \in User : reported[u] \in Nat
           /\ calls \in Nat /\ calls <= MaxCalls /\ MaxCalls \in Nat /\ disturbed \in BOOLEAN
<1>1. \A r \in Request : op[r] \in Ops
  BY DEF TypeOK
<1>2. FriendsTypeOK /\ MaxCalls \in Nat
  BY FriendsAssumption DEF TypeOK
<1>3. \A p \in Pair : /\ rows[p] \in Nat /\ rows[p] <= MaxCalls + 1
                      /\ row[p] # NoRow => /\ row[p].id \in RowId /\ row[p].by \in User
                                           /\ row[p].status \in {"pending", "accepted"}
                                           /\ row[p].day \in Day /\ row[p].agreed \subseteq User
                      /\ row[p] = NoRow => row[p].status = "none"
  BY <1>2 DEF FriendsTypeOK, RowId, NoRow
<1>4. \A i \in Invites : invite[i] # NoInvite =>
                 /\ invite[i].owner \in User /\ invite[i].kind \in {"qr", "link"}
                 /\ invite[i].uses \in Nat /\ invite[i].made \in Nat
                 /\ invite[i].state \in {"live", "expired", "revoked"}
  BY <1>2 DEF FriendsTypeOK, NoInvite
<1>5. /\ \A u \in User : reported[u] \in Nat
      /\ calls \in Nat /\ calls <= MaxCalls /\ disturbed \in BOOLEAN
  BY <1>2 DEF FriendsTypeOK
<1> QED
  BY <1>1, <1>2, <1>3, <1>4, <1>5

\* What a request relies on is not undone by the others.
LEMMA StaysSound ==
    ASSUME TypeOK, RowsGrow, InvitesKept, NEW o \in Ops, OpSound(o)
    PROVE  OpSound(o)'
<1>1. /\ \A p \in Pair : \A id \in Nat : id <= rows[p] => id <= rows'[p]
      /\ \A p \in Pair : rows[p] \in Nat /\ rows[p] <= rows'[p]
  BY Typed DEF RowsGrow
<1>2. ASSUME NEW p \in Pair, NEW id \in Nat, NEW u, NotOwn(id, u, p)
      PROVE  NotOwn(id, u, p)'
  BY <1>1, <1>2, Typed DEF RowsGrow, NotOwn
<1>3. o.step = "accept" => o.u \in o.p /\ NotOwn(o.id, o.u, o.p)'
  BY <1>2, Shapes DEF OpSound, RowId
<1>4. CASE o.step \in {"use", "pair", "join"}
  <2>1. PICK w \in User : w = invite[o.i].owner /\ w = invite'[o.i].owner
    BY <1>4, Shapes, Typed DEF OpSound, InvitesKept
  <2>2. /\ o.i \in Invites /\ o.u \in User /\ invite[o.i] # NoInvite /\ o.u # w
        /\ invite'[o.i] # NoInvite /\ invite'[o.i].kind = invite[o.i].kind
    BY <1>4, <2>1, Shapes DEF OpSound, InvitesKept
  <2>3. {o.u, w} \in Pair /\ (o.step = "join" => o.id \in Nat)
    BY <2>2, Pairs, Shapes DEF RowId
  <2>4. o.step = "join" /\ o.id # 0 =>
          /\ o.id <= rows[{o.u, w}]
          /\ invite[o.i].kind = "link" => NotOwn(o.id, o.u, {o.u, w})
    BY <2>1 DEF OpSound
  <2>5. o.step = "join" /\ o.id # 0 =>
          /\ o.id <= rows'[{o.u, w}]
          /\ invite[o.i].kind = "link" => NotOwn(o.id, o.u, {o.u, w})'
    BY <1>1, <1>2, <2>3, <2>4
  <2> QED
    BY <1>4, <2>1, <2>2, <2>5 DEF OpSound, NotOwn
<1>5. CASE o.step \notin {"use", "pair", "join"}
  BY <1>3, <1>5 DEF OpSound
<1> QED
  BY <1>4, <1>5

\* A step of one request that leaves it sound leaves all of them sound.
LEMMA RequestsStep ==
    ASSUME TypeOK, RequestsSound, RowsGrow, InvitesKept,
           NEW r \in Request, NEW o, Goto(r, o), OpSound(o)'
    PROVE  RequestsSound'
<1> SUFFICES ASSUME NEW q \in Request PROVE OpSound(op[q])'
  BY DEF RequestsSound
<1>1. PICK x : x = op'[q]
  OBVIOUS
<1>2. OpSound(x)'
  <2>1. CASE q = r
    BY <1>1, <2>1, Going
  <2>2. CASE q # r
    <3>1. x = op[q] /\ x \in Ops
      BY <1>1, <2>2, Going, Typed
    <3>2. OpSound(x)
      BY <3>1 DEF RequestsSound, OpSound
    <3> QED
      BY <3>1, <3>2, StaysSound
  <2> QED
    BY <2>1, <2>2
<1> QED
  BY <1>1, <1>2 DEF OpSound

\* The sets of requests are finite, and a step of one changes each by it alone.
LEMMA Counts ==
    ASSUME TypeOK, NEW r \in Request, NEW o, Goto(r, o)
    PROVE  /\ Cardinality(Creating)' \in Nat /\ Cardinality(Creating)' = Cardinality(Creating)
                + One(o.step \in {"create", "use", "pair", "join"})
                - One(op[r].step \in {"create", "use", "pair", "join"})
           /\ Cardinality(Using)' \in Nat /\ Cardinality(Using)' = Cardinality(Using)
                + One(o.step = "use") - One(op[r].step = "use")
           /\ Cardinality(Reporting)' \in Nat /\ Cardinality(Reporting)' = Cardinality(Reporting)
                + One(o.step = "report") - One(op[r].step = "report")
           /\ \A i : Cardinality(Spending(i))' \in Nat /\ Cardinality(Spending(i))' = Cardinality(Spending(i))
                + One(o.step \in {"pair", "join"} /\ o.i = i)
                - One(op[r].step \in {"pair", "join"} /\ op[r].i = i)
<1>1. /\ \A q \in Request : op'[q] = IF q = r THEN o ELSE op[q]
      /\ IsFiniteSet(Request)
  BY Going, FriendsAssumption
<1>2. Cardinality(Creating)' \in Nat /\ Cardinality(Creating)' = Cardinality(Creating)
                + One(o.step \in {"create", "use", "pair", "join"})
                - One(op[r].step \in {"create", "use", "pair", "join"})
  <2>1. /\ IsFiniteSet(Creating) /\ Creating' \ {r} = Creating \ {r}
        /\ r \in Creating <=> op[r].step \in {"create", "use", "pair", "join"}
        /\ r \in Creating' <=> o.step \in {"create", "use", "pair", "join"}
    BY <1>1, FS_Subset DEF Creating
  <2> QED
    BY <2>1, OneElement DEF One
<1>3. Cardinality(Using)' \in Nat /\ Cardinality(Using)' = Cardinality(Using)
                + One(o.step = "use") - One(op[r].step = "use")
  <2>1. /\ IsFiniteSet(Using) /\ Using' \ {r} = Using \ {r}
        /\ r \in Using <=> op[r].step = "use"
        /\ r \in Using' <=> o.step = "use"
    BY <1>1, FS_Subset DEF Using
  <2> QED
    BY <2>1, OneElement DEF One
<1>4. Cardinality(Reporting)' \in Nat /\ Cardinality(Reporting)' = Cardinality(Reporting)
                + One(o.step = "report") - One(op[r].step = "report")
  <2>1. /\ IsFiniteSet(Reporting) /\ Reporting' \ {r} = Reporting \ {r}
        /\ r \in Reporting <=> op[r].step = "report"
        /\ r \in Reporting' <=> o.step = "report"
    BY <1>1, FS_Subset DEF Reporting
  <2> QED
    BY <2>1, OneElement DEF One
<1>5. ASSUME NEW i
      PROVE  Cardinality(Spending(i))' \in Nat /\ Cardinality(Spending(i))' = Cardinality(Spending(i))
                + One(o.step \in {"pair", "join"} /\ o.i = i)
                - One(op[r].step \in {"pair", "join"} /\ op[r].i = i)
  <2>1. /\ IsFiniteSet(Spending(i)) /\ Spending(i)' \ {r} = Spending(i) \ {r}
        /\ r \in Spending(i) <=> (op[r].step \in {"pair", "join"} /\ op[r].i = i)
        /\ r \in Spending(i)' <=> (o.step \in {"pair", "join"} /\ o.i = i)
    BY <1>1, FS_Subset DEF Spending
  <2> QED
    BY <2>1, OneElement DEF One
<1> QED
  BY <1>2, <1>3, <1>4, <1>5

\* The counts are numbers, and a request that is counted makes them positive.
LEMMA CountsAreNats ==
    ASSUME TypeOK
    PROVE  /\ Cardinality(Creating) \in Nat /\ Cardinality(Using) \in Nat
           /\ Cardinality(Reporting) \in Nat
           /\ \A i : Cardinality(Spending(i)) \in Nat
           /\ \A r \in Request :
                 /\ op[r].step \in {"create", "use", "pair", "join"} => Cardinality(Creating) > 0
                 /\ op[r].step = "use" => Cardinality(Using) > 0
                 /\ op[r].step = "report" => Cardinality(Reporting) > 0
                 /\ op[r].step \in {"pair", "join"} => Cardinality(Spending(op[r].i)) > 0
<1>1. IsFiniteSet(Request) /\ \A S \in SUBSET Request : IsFiniteSet(S) /\ Cardinality(S) \in Nat
  BY FriendsAssumption, FS_Subset, FS_CardinalityType
<1>2. \A S \in SUBSET Request : \A r \in S : Cardinality(S) > 0
  BY <1>1, FS_EmptySet
<1>3. /\ Creating \in SUBSET Request /\ Using \in SUBSET Request /\ Reporting \in SUBSET Request
      /\ \A i : Spending(i) \in SUBSET Request
  BY DEF Creating, Using, Reporting, Spending
<1>4. ASSUME NEW r \in Request
      PROVE  /\ op[r].step \in {"create", "use", "pair", "join"} => Cardinality(Creating) > 0
             /\ op[r].step = "use" => Cardinality(Using) > 0
             /\ op[r].step = "report" => Cardinality(Reporting) > 0
             /\ op[r].step \in {"pair", "join"} => Cardinality(Spending(op[r].i)) > 0
  <2>1. /\ op[r].step \in {"create", "use", "pair", "join"} => r \in Creating
        /\ op[r].step = "use" => r \in Using
        /\ op[r].step = "report" => r \in Reporting
        /\ op[r].step \in {"pair", "join"} => r \in Spending(op[r].i)
    BY DEF Creating, Using, Reporting, Spending
  <2> QED
    BY <1>2, <1>3, <2>1
<1> QED
  BY <1>1, <1>3, <1>4

-----------------------------------------------------------------------------
(* One request at a time *)

\* While nothing overlapped, a request that goes on, or starts when all is
\* quiet, is alone.
LEMMA Alone ==
    ASSUME Undisturbed, ~disturbed, NEW r \in Request, op[r] # NoOp \/ Quiet
    PROVE  /\ \A q \in Request : q # r => op[q] = NoOp
           /\ Decided(op[r])
           /\ \A u \in User : Cardinality(Friend(u)) <= MaxFriendsFor(u) /\ reported[u] <= MaxReports
           /\ \A p \in Pair : \/ Apart(p) \/ row[p] = NoRow
                              \/ op[r].step = "unfriend" /\ {op[r].u, op[r].v} = p
<1>1. \A q \in Request : q # r => op[q] = NoOp
  BY DEF Undisturbed, Quiet
<1>2. \A q \in Request : op[q].step = "unfriend" => q = r
  BY <1>1, NoOpFacts
<1>3. Decided(op[r])
  BY DEF Undisturbed, Decided
<1>4. \A u \in User : Cardinality(Friend(u)) <= MaxFriendsFor(u) /\ reported[u] <= MaxReports
  BY DEF Undisturbed
<1>5. ASSUME NEW p \in Pair
      PROVE  \/ Apart(p) \/ row[p] = NoRow
             \/ op[r].step = "unfriend" /\ {op[r].u, op[r].v} = p
  <2>1. \/ Apart(p) \/ row[p] = NoRow
        \/ \E q \in Request : op[q].step = "unfriend" /\ {op[q].u, op[q].v} = p
    BY DEF Undisturbed
  <2> QED
    BY <1>2, <2>1
<1> QED
  BY <1>1, <1>3, <1>4, <1>5

\* A request that was alone and still holds what it decided keeps Undisturbed.
LEMMA StaysUndisturbed ==
    ASSUME TypeOK, NEW r \in Request, NEW o, Goto(r, o),
           ~disturbed' =>
             /\ \A q \in Request : q # r => op[q] = NoOp
             /\ Decided(o)'
             /\ \A u \in User : Cardinality(Friend(u)') <= MaxFriendsFor(u) /\ reported'[u] <= MaxReports
             /\ \A p \in Pair : \/ Apart(p)' \/ row'[p] = NoRow
                                \/ o.step = "unfriend" /\ {o.u, o.v} = p
    PROVE  Undisturbed'
<1> SUFFICES ASSUME ~disturbed'
             PROVE  /\ \A q, s \in Request : op'[q] # NoOp /\ op'[s] # NoOp => q = s
                    /\ \A q \in Request : Decided(op[q])'
                    /\ \A u \in User : Cardinality(Friend(u)') <= MaxFriendsFor(u)
                                       /\ reported'[u] <= MaxReports
                    /\ \A p \in Pair : \/ Apart(p)' \/ row'[p] = NoRow
                                       \/ \E q \in Request : op'[q].step = "unfriend"
                                                             /\ {op'[q].u, op'[q].v} = p
  BY DEF Undisturbed, MaxFriendsFor
<1>1. \A q \in Request : op'[q] = IF q = r THEN o ELSE NoOp
  BY Going
<1>2. ASSUME NEW q \in Request PROVE Decided(op[q])'
  <2>1. PICK x : x = op'[q]
    OBVIOUS
  <2>2. Decided(NoOp)'
    BY NoOpFacts DEF Decided
  <2>3. Decided(x)'
    BY <1>1, <2>1, <2>2
  <2> QED
    BY <2>1, <2>3 DEF Decided
<1>3. ASSUME NEW p \in Pair
      PROVE  \/ Apart(p)' \/ row'[p] = NoRow
             \/ \E q \in Request : op'[q].step = "unfriend" /\ {op'[q].u, op'[q].v} = p
  <2>1. op'[r] = o
    BY <1>1
  <2> QED
    BY <2>1
<1> QED
  BY <1>1, <1>2, <1>3

-----------------------------------------------------------------------------
(* Requests that start, and steps that write no row *)

InviteRow ==
    [kind : {"qr", "link"}, owner : User, uses : 0..MaxCalls, made : 0..MaxCalls,
     state : {"live", "expired", "revoked"}]

OwnTyped ==
    /\ message \in [User -> [User -> Seq([day : Day, state : {"unread", "read", "hidden"}])]]
    /\ quota \in [User -> [Day -> Nat]] /\ recipient \in [User -> [User -> [Day -> Nat]]]
    /\ told \in [User -> [User -> Nat]]

\* The invitations of the step before, with their uses, and perhaps new ones.
InvitesStay ==
    /\ invite' \in [Invites -> {NoInvite} \cup InviteRow]
    /\ InvitesKept
    /\ \A i \in Invites : invite'[i] # NoInvite =>
          IF invite[i] = NoInvite THEN invite'[i].uses = 0 /\ invite'[i].made = 0
          ELSE invite'[i].uses = invite[i].uses /\ invite'[i].made = invite[i].made

\* Invitations that nothing touches stay.
LEMMA SameInvites == ASSUME TypeOK, UNCHANGED invite PROVE InvitesStay
  BY DEF TypeOK, FriendsTypeOK, InvitesStay, InvitesKept, InviteRow

\* Rows that nothing touches stay sound.
LEMMA SameRows ==
    ASSUME TypeOK, RowsSound, UNCHANGED <<row, rows>>
    PROVE  /\ RowsSound' /\ RowsGrow
           /\ \A u : Friend(u)' = Friend(u)
           /\ \A p : HaveRoom(p)' <=> HaveRoom(p)
<1>1. RowsSound'
  BY DEF RowsSound
<1>2. RowsGrow
  BY Typed DEF RowsGrow
<1>3. \A u : Friend(u)' = Friend(u)
  BY DEF Friend, Status
<1> QED
  BY <1>1, <1>2, <1>3 DEF HaveRoom, CanAddFriend, MaxFriendsFor

\* An invitation that was not there has been used by nobody.
LEMMA NobodyUsed ==
    ASSUME RequestsSound, NEW i \in Invites, invite[i] = NoInvite
    PROVE  Cardinality(Spending(i)) = 0
<1>1. Spending(i) = {}
  BY DEF RequestsSound, OpSound, Spending
<1> QED
  BY <1>1, FS_EmptySet

\* A request that starts keeps the invariant, when it is sound and, if nothing
\* overlaps, what it decided holds.
LEMMA StartInv ==
    ASSUME IInv, NEW r \in Request, NEW o \in Ops, Start(r, o),
           UNCHANGED <<day, row, rows, banned, disabled, reported>>,
           blocks' \subseteq User \X User, discoverable' \subseteq User,
           InvitesStay, OwnTyped',
           o.step \notin {"pair", "join"}, OpSound(o)',
           Quiet /\ ~disturbed =>
             /\ Decided(o)'
             /\ \A p \in Pair : \/ Apart(p) => Apart(p)'
                                \/ o.step = "unfriend" /\ {o.u, o.v} = p
    PROVE  IInv'
<1>1. /\ TypeOK /\ RowsSound /\ RequestsSound /\ CallsCounted /\ UsesCounted /\ Undisturbed
      /\ Goto(r, o) /\ op[r] = NoOp /\ calls < MaxCalls /\ calls' = calls + 1
      /\ disturbed' = (disturbed \/ ~Quiet)
  BY DEF IInv, Start
<1>2. TypeOK'
  <2>1. op' \in [Request -> Ops] /\ calls' \in 0..MaxCalls
    BY <1>1, Going, Typed
  <2>2. disturbed' \in BOOLEAN
    BY <1>1
  <2>3. FriendsTypeOK'
    BY <1>1, <2>1, <2>2 DEF TypeOK, FriendsTypeOK, InvitesStay, InviteRow
  <2> QED
    BY <2>1, <2>3 DEF TypeOK, OwnTyped
<1>3. RowsSound' /\ RowsGrow /\ \A u : Friend(u)' = Friend(u)
  BY <1>1, SameRows
<1>4. RequestsSound'
  BY <1>1, <1>3, RequestsStep DEF InvitesStay
<1>5. CallsCounted'
  <2>1. /\ Cardinality(Creating)' <= Cardinality(Creating) + 1
        /\ Cardinality(Using)' <= Cardinality(Using) + 1
        /\ Cardinality(Reporting)' <= Cardinality(Reporting) + 1
    BY <1>1, Counts, CountsAreNats, NoOpFacts DEF One
  <2>2. /\ Cardinality(Creating)' \in Nat /\ Cardinality(Using)' \in Nat
        /\ Cardinality(Reporting)' \in Nat
    BY <1>1, Counts
  <2>3. /\ \A p \in Pair : rows'[p] = rows[p] /\ rows[p] \in Nat
        /\ \A u \in User : reported'[u] = reported[u] /\ reported[u] \in Nat
        /\ \A i \in Invites : invite'[i] # NoInvite =>
              \/ invite[i] # NoInvite /\ invite'[i].uses = invite[i].uses /\ invite[i].uses \in Nat
              \/ invite'[i].uses = 0
        /\ calls \in Nat
    BY <1>1, Typed DEF InvitesStay
  <2>4. \A p \in Pair : rows'[p] + Cardinality(Creating)' <= 1 + calls'
    BY <1>1, <2>1, <2>2, <2>3, CountsAreNats DEF CallsCounted
  <2>5. Cardinality(Using)' <= calls'
    BY <1>1, <2>1, <2>2, <2>3, CountsAreNats DEF CallsCounted
  <2>6. \A i \in Invites : invite'[i] # NoInvite => invite'[i].uses + Cardinality(Using)' <= calls'
    BY <1>1, <2>1, <2>2, <2>3, <2>5, CountsAreNats DEF CallsCounted
  <2>7. \A u \in User : reported'[u] + Cardinality(Reporting)' <= calls'
    BY <1>1, <2>1, <2>2, <2>3, CountsAreNats DEF CallsCounted
  <2> QED
    BY <2>4, <2>5, <2>6, <2>7 DEF CallsCounted
<1>6. UsesCounted'
  <2>1. \A i : Cardinality(Spending(i))' = Cardinality(Spending(i))
    BY <1>1, Counts, CountsAreNats, NoOpFacts DEF One
  <2>2. ASSUME NEW i \in Invites, invite'[i] # NoInvite
        PROVE  /\ invite'[i].made + Cardinality(Spending(i))' <= invite'[i].uses
               /\ invite'[i].uses <= MaxUses
    <3>1. CASE invite[i] = NoInvite
      BY <1>1, <2>1, <2>2, <3>1, NobodyUsed, FriendsAssumption DEF InvitesStay
    <3>2. CASE invite[i] # NoInvite
      BY <1>1, <2>1, <2>2, <3>2 DEF InvitesStay, UsesCounted
    <3> QED
      BY <3>1, <3>2
  <2> QED
    BY <2>2 DEF UsesCounted
<1>7. Undisturbed'
  <2>1. ASSUME ~disturbed'
        PROVE  /\ \A q \in Request : q # r => op[q] = NoOp
               /\ Decided(o)'
               /\ \A u \in User : Cardinality(Friend(u)') <= MaxFriendsFor(u)
                                  /\ reported'[u] <= MaxReports
               /\ \A p \in Pair : \/ Apart(p)' \/ row'[p] = NoRow
                                  \/ o.step = "unfriend" /\ {o.u, o.v} = p
    <3>1. ~disturbed /\ Quiet
      BY <1>1, <2>1
    <3>2. /\ \A q \in Request : q # r => op[q] = NoOp
          /\ \A u \in User : Cardinality(Friend(u)) <= MaxFriendsFor(u) /\ reported[u] <= MaxReports
          /\ \A p \in Pair : Apart(p) \/ row[p] = NoRow
      BY <1>1, <3>1, Alone, NoOpFacts
    <3> QED
      BY <1>3, <3>1, <3>2
  <2> QED
    BY <1>1, <2>1, StaysUndisturbed
<1> QED
  BY <1>2, <1>3, <1>4, <1>5, <1>6, <1>7 DEF IInv

\* A request that starts by reading keeps the invariant.
LEMMA ReadStartInv ==
    ASSUME IInv, NEW r \in Request, NEW o \in Ops, Start(r, o), Reads, OwnTyped',
           o.step \notin {"pair", "join"}, OpSound(o),
           Quiet /\ ~disturbed => Decided(o)
    PROVE  IInv'
<1>1. /\ UNCHANGED <<day, row, rows, blocks, invite, discoverable, banned, disabled, reported>>
      /\ TypeOK
  BY DEF Reads, friendships, accounts, IInv
<1>2. InvitesStay /\ blocks' \subseteq User \X User /\ discoverable' \subseteq User
  BY <1>1, SameInvites DEF TypeOK, FriendsTypeOK
<1>3. OpSound(o)'
  BY <1>1 DEF OpSound, NotOwn
<1>4. \A p : (Apart(p)' <=> Apart(p)) /\ (HaveRoom(p)' <=> HaveRoom(p))
  BY <1>1 DEF Apart, HaveRoom, CanAddFriend, MaxFriendsFor, Friend, Status
<1>5. Quiet /\ ~disturbed => Decided(o)'
  BY <1>1, <1>4 DEF Decided
<1> QED
  BY <1>1, <1>2, <1>3, <1>4, <1>5, StartInv

\* The friendship part of a step leaves the messages as they are.
LEMMA OwnStays == ASSUME TypeOK, UNCHANGED own PROVE OwnTyped'
  BY DEF TypeOK, own, OwnTyped

\* A pair that may be joined: neither blocks the other and both have room.
LEMMA MayJoin ==
    ASSUME NEW u \in User, NEW v \in User, u # v, ~Blocked(u, v), CanBecomeFriends(u, v)
    PROVE  Apart({u, v}) /\ HaveRoom({u, v})
  BY DEF Blocked, CanBecomeFriends, Apart, HaveRoom

\* sendRequest reads the pair and decides to create or to accept.
LEMMA SendRequestInv ==
    ASSUME IInv, NEW r \in Request, NEW u \in User, NEW v \in User,
           SendRequest(r, u, v), UNCHANGED own
    PROVE  IInv'
<1> DEFINE p == {u, v}
<1>1. /\ TypeOK /\ RowsSound /\ p \in Pair /\ u # v /\ u \in p /\ Reads /\ OwnTyped'
      /\ Apart(p) /\ HaveRoom(p)
  BY Pairs, OwnStays, MayJoin DEF IInv, SendRequest
<1>2. ASSUME row[p] = NoRow, NEW o, o = [step |-> "create", u |-> u, p |-> p], Start(r, o)
      PROVE  IInv'
  <2>1. /\ o \in Ops /\ o.step = "create" /\ o.u = u /\ o.p = p
    BY <1>1, <1>2 DEF Ops, FriendOps
  <2>2. OpSound(o) /\ Decided(o)
    BY <1>1, <1>2, <2>1 DEF OpSound, Decided
  <2> QED
    BY <1>1, <1>2, <2>1, <2>2, ReadStartInv
<1>3. ASSUME row[p].status = "pending", row[p].by = v,
             NEW o, o = [step |-> "accept", u |-> u, p |-> p, id |-> row[p].id, checked |-> TRUE],
             Start(r, o)
      PROVE  IInv'
  <2>1. row[p] # NoRow /\ row[p].id \in RowId /\ row[p].id = rows[p] /\ rows[p] \in Nat
    BY <1>1, <1>3, Typed DEF RowsSound
  <2>2. /\ o \in Ops /\ o.step = "accept" /\ o.u = u /\ o.p = p /\ o.id = row[p].id
    BY <1>1, <1>3, <2>1 DEF Ops, FriendOps
  <2>3. OpSound(o) /\ Decided(o)
    BY <1>1, <1>3, <2>1, <2>2 DEF OpSound, Decided, NotOwn
  <2> QED
    BY <1>1, <1>3, <2>2, <2>3, ReadStartInv
<1> QED
  BY <1>2, <1>3 DEF SendRequest, Begin, PairOf

\* acceptRequest reads the row the other one made.
LEMMA AcceptInv ==
    ASSUME IInv, NEW r \in Request, NEW u \in User, NEW p \in Pair,
           Accept(r, u, p), UNCHANGED own
    PROVE  IInv'
<1>1. PICK o : /\ o = [step |-> "accept", u |-> u, p |-> p, id |-> row[p].id, checked |-> FALSE]
               /\ Start(r, o)
  BY DEF Accept, Begin
<1>2. /\ TypeOK /\ RowsSound /\ u \in p /\ Reads /\ OwnTyped'
      /\ row[p] # NoRow /\ row[p].by # u /\ row[p].by \in p /\ row[p].id = rows[p]
      /\ row[p].id \in RowId /\ row[p].by \in User /\ rows[p] \in Nat
  BY Typed, OwnStays DEF IInv, Accept, RowsSound
<1>3. o \in Ops /\ o.step = "accept" /\ o.u = u /\ o.p = p /\ o.id = row[p].id
  <2>1. u \in User
    OBVIOUS
  <2> QED
    BY <1>1, <1>2 DEF Ops, FriendOps
<1>4. OpSound(o)
  BY <1>2, <1>3 DEF OpSound, NotOwn
<1>5. ASSUME Quiet, ~disturbed PROVE Decided(o)
  <2>1. p = {u, row[p].by} /\ HaveRoom(p)
    BY <1>2, Pairs DEF Accept, CanBecomeFriends, HaveRoom
  <2>2. Apart(p)
    BY <1>2, <1>5, Alone, NoOpFacts DEF IInv, Quiet
  <2> QED
    BY <1>3, <2>1, <2>2 DEF Decided
<1> QED
  BY <1>1, <1>2, <1>3, <1>4, <1>5, ReadStartInv

\* decline, cancel and removeFriend read the row they delete.
LEMMA DeletesInv ==
    ASSUME IInv, NEW r \in Request, NEW u \in User, NEW p \in Pair,
           Decline(r, u, p) \/ Cancel(r, u, p) \/ RemoveFriend(r, u, p), UNCHANGED own
    PROVE  IInv'
<1>1. PICK o : o = [step |-> "delete", p |-> p, id |-> row[p].id] /\ Start(r, o)
  BY DEF Decline, Cancel, RemoveFriend, Begin
<1>2. TypeOK /\ Reads /\ OwnTyped' /\ row[p].status # "none"
  BY OwnStays DEF IInv, Decline, Cancel, RemoveFriend
<1>3. row[p].id \in RowId
  BY <1>2, Typed
<1>4. o \in Ops /\ o.step = "delete"
  BY <1>1, <1>3 DEF Ops, FriendOps
<1>5. OpSound(o) /\ Decided(o)
  BY <1>4 DEF OpSound, Decided
<1> QED
  BY <1>1, <1>2, <1>4, <1>5, ReadStartInv

\* acceptInvite reads the invitation and asks whether the two may be friends.
LEMMA AcceptInviteInv ==
    ASSUME IInv, NEW r \in Request, NEW u \in User, NEW i \in Invites,
           AcceptInvite(r, u, i), UNCHANGED own
    PROVE  IInv'
<1>1. PICK o : o = [step |-> "use", u |-> u, i |-> i] /\ Start(r, o)
  BY DEF AcceptInvite, Begin
<1>2. /\ TypeOK /\ Reads /\ OwnTyped' /\ invite[i] # NoInvite /\ u # invite[i].owner
      /\ invite[i].owner \in User
      /\ ~Blocked(u, invite[i].owner) /\ CanBecomeFriends(u, invite[i].owner)
  BY Typed, OwnStays DEF IInv, AcceptInvite, Usable
<1>3. o \in Ops /\ o.step = "use" /\ o.u = u /\ o.i = i
  BY <1>1 DEF Ops, FriendOps
<1>4. OpSound(o) /\ Decided(o)
  BY <1>2, <1>3, MayJoin DEF OpSound, Decided
<1> QED
  BY <1>1, <1>2, <1>3, <1>4, ReadStartInv

\* createReport counts the reports of the day.
LEMMA ReportInv ==
    ASSUME IInv, NEW r \in Request, NEW u \in User, NEW v \in User,
           Report(r, u, v), UNCHANGED own
    PROVE  IInv'
<1>1. PICK o : o = [step |-> "report", u |-> u] /\ Start(r, o)
  BY DEF Report, Begin
<1>2. TypeOK /\ Reads /\ OwnTyped' /\ reported[u] < MaxReports
  BY OwnStays DEF IInv, Report
<1>3. o \in Ops /\ o.step = "report" /\ o.u = u
  BY <1>1 DEF Ops, FriendOps
<1>4. OpSound(o) /\ Decided(o)
  BY <1>2, <1>3 DEF OpSound, Decided
<1> QED
  BY <1>1, <1>2, <1>3, <1>4, ReadStartInv

\* The messages are sent after the checks.
LEMMA SendInv ==
    ASSUME IInv, NEW r \in Request, NEW u \in User, NEW to \in SUBSET User, Send(r, u, to)
    PROVE  IInv'
<1>1. PICK o : o = [step |-> "send", u |-> u, to |-> to, day |-> day] /\ Start(r, o)
  BY DEF Send, Begin
<1>2. TypeOK /\ Reads /\ OwnTyped' /\ day \in Day
  BY OwnStays DEF IInv, Send, TypeOK, FriendsTypeOK
<1>3. o \in Ops /\ o.step = "send"
  BY <1>1, <1>2 DEF Ops
<1>4. OpSound(o) /\ Decided(o)
  BY <1>3 DEF OpSound, Decided
<1> QED
  BY <1>1, <1>2, <1>3, <1>4, ReadStartInv

\* read and remove change the state of one message.
LEMMA MarkInv ==
    ASSUME IInv, NEW r \in Request, NEW u \in User, NEW v \in User,
           NEW i \in DOMAIN message[v][u], Read(r, u, v, i) \/ Remove(r, u, v, i)
    PROVE  IInv'
<1>1. PICK state \in {"read", "hidden"} : Mark(r, u, v, i, state)
  BY DEF Read, Remove
<1>2. TypeOK /\ Reads /\ Start(r, NoOp)
  BY <1>1 DEF Mark, Begin, IInv
<1>3. OwnTyped'
  <2> DEFINE M == [day : Day, state : {"unread", "read", "hidden"}]
             s == message[v][u]
             t == [s EXCEPT ![i].state = state]
  <2>1. s \in Seq(M)
    <3>1. message \in [User -> [User -> Seq(M)]]
      BY <1>2 DEF TypeOK
    <3> HIDE DEF M
    <3> QED
      BY <3>1
  <2>2. t \in Seq(M)
    <3>1. s \in [1..Len(s) -> M] /\ Len(s) \in Nat /\ i \in 1..Len(s)
      BY <2>1, LenProperties
    <3>2. t \in [1..Len(s) -> M]
      BY <3>1
    <3> HIDE DEF t, M
    <3> QED
      BY <3>1, <3>2, SeqDef
  <2>3. message' = [message EXCEPT ![v] = [@ EXCEPT ![u] = t]]
    BY <1>1, <1>2 DEF Mark, TypeOK
  <2>4. message' \in [User -> [User -> Seq(M)]]
    <3> HIDE DEF t, M
    <3>1. message \in [User -> [User -> Seq(M)]]
      BY <1>2 DEF TypeOK, M
    <3> QED
      BY <2>2, <2>3, <3>1
  <2> QED
    BY <1>1, <1>2, <2>4 DEF Mark, TypeOK, OwnTyped
<1>4. OpSound(NoOp) /\ Decided(NoOp)
  BY NoOpFacts DEF OpSound, Decided
<1> QED
  BY <1>2, <1>3, <1>4, NoOpFacts, ReadStartInv

\* createBlock writes the block, and goes on to delete the friendship.
LEMMA BlockInv ==
    ASSUME IInv, NEW r \in Request, NEW u \in User, NEW v \in User,
           Block(r, u, v), UNCHANGED own
    PROVE  IInv'
<1>1. PICK o : o = [step |-> "unfriend", u |-> u, v |-> v] /\ Start(r, o)
  BY DEF Block, Begin
<1>2. /\ TypeOK /\ OwnTyped' /\ u # v /\ blocks' = blocks \cup {<<u, v>>}
      /\ UNCHANGED <<day, row, rows, invite, discoverable, banned, disabled, reported>>
  BY OwnStays DEF IInv, Block, accounts
<1>3. InvitesStay /\ blocks' \subseteq User \X User /\ discoverable' \subseteq User
  <2>1. blocks \subseteq User \X User /\ discoverable \subseteq User
    BY <1>2 DEF TypeOK, FriendsTypeOK
  <2>2. <<u, v>> \in User \X User
    OBVIOUS
  <2>3. InvitesStay
    BY <1>2, SameInvites
  <2> QED
    BY <1>2, <2>1, <2>2, <2>3
<1>4. o \in Ops /\ o.step = "unfriend" /\ o.u = u /\ o.v = v
  BY <1>1 DEF Ops, FriendOps
<1>5. OpSound(o)' /\ Decided(o)'
  BY <1>2, <1>4 DEF OpSound, Decided
<1>6. ASSUME NEW p \in Pair, Apart(p), ~Apart(p)' PROVE {u, v} = p
  <2>1. u \in p /\ v \in p
    BY <1>2, <1>6 DEF Apart
  <2> QED
    BY <1>2, <2>1, Pairs
<1> QED
  BY <1>1, <1>2, <1>3, <1>4, <1>5, <1>6, StartInv

\* A request that is over when it starts keeps what the blocks kept apart.
LEMMA OverStartInv ==
    ASSUME IInv, NEW r \in Request, Start(r, NoOp),
           UNCHANGED <<day, row, rows, banned, disabled, reported>>,
           blocks' \subseteq blocks, discoverable' \subseteq User, InvitesStay, UNCHANGED own
    PROVE  IInv'
<1>1. TypeOK /\ OwnTyped' /\ blocks' \subseteq User \X User
  BY OwnStays DEF IInv, TypeOK, FriendsTypeOK
<1>2. OpSound(NoOp)' /\ Decided(NoOp)'
  BY NoOpFacts DEF OpSound, Decided
<1>3. \A p : Apart(p) => Apart(p)'
  BY DEF Apart
<1> QED
  BY <1>1, <1>2, <1>3, NoOpFacts, StartInv

\* createInvite stores an invitation that nobody has used.
LEMMA CreateInviteInv ==
    ASSUME IInv, NEW r \in Request, NEW u \in User, NEW i \in Invites, NEW kind \in {"qr", "link"},
           CreateInvite(r, u, i, kind), UNCHANGED own
    PROVE  IInv'
<1>1. PICK n : /\ n = [kind |-> kind, owner |-> u, uses |-> 0, made |-> 0, state |-> "live"]
               /\ invite' = [invite EXCEPT ![i] = n]
  BY DEF CreateInvite
<1>2. /\ TypeOK /\ Start(r, NoOp) /\ invite[i] = NoInvite
      /\ UNCHANGED <<day, row, rows, blocks, discoverable, banned, disabled, reported>>
      /\ discoverable \subseteq User /\ MaxCalls \in Nat
      /\ invite \in [Invites -> {NoInvite} \cup InviteRow]
  BY Typed DEF IInv, CreateInvite, Begin, accounts, TypeOK, FriendsTypeOK, InviteRow
<1>3. n \in InviteRow /\ n.uses = 0 /\ n.made = 0
  BY <1>1, <1>2 DEF InviteRow
<1>4. \A j \in Invites : invite'[j] = IF j = i THEN n ELSE invite[j]
  BY <1>1, <1>2
<1>5. InvitesStay
  <2>1. invite' \in [Invites -> {NoInvite} \cup InviteRow]
    BY <1>1, <1>2, <1>3
  <2>2. InvitesKept
    BY <1>2, <1>4 DEF InvitesKept
  <2> QED
    BY <1>2, <1>3, <1>4, <2>1, <2>2 DEF InvitesStay
<1> QED
  BY <1>2, <1>5, OverStartInv

\* Revoking and expiring change only whether an invitation is live.
LEMMA RevokeStays ==
    ASSUME TypeOK, NEW users, invite' = RevokeLinks(users)
    PROVE  InvitesStay /\ \A i \in Invites : invite'[i] = NoInvite <=> invite[i] = NoInvite
<1>1. invite \in [Invites -> {NoInvite} \cup InviteRow]
  BY DEF TypeOK, FriendsTypeOK, InviteRow
<1>2. ASSUME NEW i \in Invites
      PROVE  /\ invite'[i] \in {NoInvite} \cup InviteRow
             /\ invite'[i] = NoInvite <=> invite[i] = NoInvite
             /\ invite[i] # NoInvite =>
                  /\ invite'[i].owner = invite[i].owner /\ invite'[i].kind = invite[i].kind
                  /\ invite'[i].uses = invite[i].uses /\ invite'[i].made = invite[i].made
  <2>1. PICK n : n = [invite[i] EXCEPT !.state = "revoked"]
    OBVIOUS
  <2>2. invite'[i] = n \/ invite'[i] = invite[i]
    BY <2>1 DEF RevokeLinks
  <2>3. CASE invite'[i] = invite[i]
    BY <1>1, <2>3
  <2>4. CASE invite'[i] = n /\ invite[i] # NoInvite
    <3>1. /\ n \in InviteRow /\ n.owner = invite[i].owner /\ n.kind = invite[i].kind
          /\ n.uses = invite[i].uses /\ n.made = invite[i].made
      BY <1>1, <2>1, <2>4 DEF InviteRow
    <3>2. n # NoInvite
      BY <1>1, <2>4, <3>1 DEF InviteRow, NoInvite
    <3> QED
      BY <2>4, <3>1, <3>2
  <2>5. invite[i] = NoInvite => invite'[i] = invite[i]
    BY DEF RevokeLinks
  <2> QED
    BY <2>2, <2>3, <2>4, <2>5
<1>3. invite' \in [Invites -> {NoInvite} \cup InviteRow]
  BY <1>2 DEF RevokeLinks
<1> QED
  BY <1>2, <1>3 DEF InvitesStay, InvitesKept

\* unblock removes the block.
LEMMA UnblockInv ==
    ASSUME IInv, NEW r \in Request, NEW u \in User, NEW v \in User,
           Unblock(r, u, v), UNCHANGED own
    PROVE  IInv'
<1>1. /\ TypeOK /\ Start(r, NoOp) /\ blocks' \subseteq blocks
      /\ UNCHANGED <<day, row, rows, invite, discoverable, banned, disabled, reported>>
      /\ discoverable' \subseteq User
  BY DEF IInv, Unblock, Begin, accounts, TypeOK, FriendsTypeOK
<1> QED
  BY <1>1, SameInvites, OverStartInv

\* updateSettings shows the user, or revokes his links and goes on to hide him.
LEMMA UpdateSettingsInv ==
    ASSUME IInv, NEW r \in Request, NEW u \in User, NEW visible \in BOOLEAN,
           UpdateSettings(r, u, visible), UNCHANGED own
    PROVE  IInv'
<1>1. TypeOK /\ OwnTyped' /\ discoverable \subseteq User /\ blocks \subseteq User \X User
  BY OwnStays DEF IInv, TypeOK, FriendsTypeOK
<1>2. CASE visible
  <2>1. /\ Start(r, NoOp) /\ discoverable' = discoverable \cup {u}
        /\ UNCHANGED <<day, row, rows, blocks, invite, banned, disabled, reported>>
    BY <1>2 DEF UpdateSettings, Begin, friendships
  <2> QED
    BY <1>1, <2>1, SameInvites, OverStartInv
<1>3. CASE ~visible
  <2>1. PICK o : o = [step |-> "hide", u |-> u] /\ Start(r, o)
    BY <1>3 DEF UpdateSettings, Begin
  <2>2. /\ invite' = RevokeLinks({u})
        /\ UNCHANGED <<day, row, rows, blocks, discoverable, banned, disabled, reported>>
    BY <1>3 DEF UpdateSettings, accounts
  <2>3. InvitesStay
    BY <1>1, <2>2, RevokeStays
  <2>4. o \in Ops /\ o.step = "hide"
    BY <2>1 DEF Ops, FriendOps
  <2>5. OpSound(o)' /\ Decided(o)'
    BY <2>4 DEF OpSound, Decided
  <2>6. \A p : Apart(p) => Apart(p)'
    BY <2>2 DEF Apart
  <2> QED
    BY <1>1, <2>1, <2>2, <2>3, <2>4, <2>5, <2>6, StartInv
<1> QED
  BY <1>2, <1>3

-----------------------------------------------------------------------------
(* Requests that go on *)

Makes(o)     == o.step \in {"create", "use", "pair", "join"}
Spends(o, i) == o.step \in {"pair", "join"} /\ o.i = i

\* A request may add to a row, a use or a report what it gives up of its counts.
CountsKept(r, o) ==
    /\ \A p \in Pair : rows'[p] + One(Makes(o)) <= rows[p] + One(Makes(op[r]))
    /\ \A u \in User :
          reported'[u] + One(o.step = "report") <= reported[u] + One(op[r].step = "report")
    /\ One(o.step = "use") <= One(op[r].step = "use")
    /\ \A i \in Invites : invite'[i] # NoInvite =>
          /\ invite[i] # NoInvite
          /\ invite'[i].uses + One(o.step = "use") <= invite[i].uses + One(op[r].step = "use")
          /\ invite'[i].uses <= MaxUses
          /\ invite'[i].made + One(Spends(o, i)) - invite'[i].uses
                <= invite[i].made + One(Spends(op[r], i)) - invite[i].uses

\* A request that goes on keeps the invariant, when its counts pay for what it
\* writes and, if it is alone, it keeps the limits and the blocks.
LEMMA GoOnInv ==
    ASSUME IInv, NEW r \in Request, NEW o \in Ops, op[r] # NoOp, Goto(r, o), UNCHANGED calls,
           disturbed' \in BOOLEAN, FriendsTypeOK', OwnTyped',
           RowsSound', RowsGrow, InvitesKept, OpSound(o)', CountsKept(r, o),
           ~disturbed' =>
             /\ ~disturbed
             /\ Decided(o)'
             /\ \A u \in User : Cardinality(Friend(u)') <= MaxFriendsFor(u) /\ reported'[u] <= MaxReports
             /\ \A p \in Pair : \/ Apart(p)' \/ row'[p] = NoRow
                                \/ o.step = "unfriend" /\ {o.u, o.v} = p
    PROVE  IInv'
<1>1. /\ TypeOK /\ RowsSound /\ RequestsSound /\ CallsCounted /\ UsesCounted /\ Undisturbed
  BY DEF IInv
<1>2. TypeOK'
  BY <1>1, Going DEF TypeOK, OwnTyped
<1>3. RequestsSound'
  BY <1>1, RequestsStep
<1>4. CallsCounted'
  <2>1. /\ Cardinality(Creating)' \in Nat
        /\ Cardinality(Creating)' = Cardinality(Creating) + One(Makes(o)) - One(Makes(op[r]))
        /\ Cardinality(Using)' \in Nat
        /\ Cardinality(Using)' = Cardinality(Using) + One(o.step = "use") - One(op[r].step = "use")
        /\ Cardinality(Reporting)' \in Nat
        /\ Cardinality(Reporting)' = Cardinality(Reporting)
              + One(o.step = "report") - One(op[r].step = "report")
    BY <1>1, Counts DEF Makes
  <2>2. /\ Cardinality(Creating) \in Nat /\ Cardinality(Using) \in Nat
        /\ Cardinality(Reporting) \in Nat /\ calls \in Nat /\ calls' = calls
    BY <1>1, CountsAreNats, Typed
  <2>3. \A b : One(b) \in {0, 1}
    BY DEF One
  <2>4. ASSUME NEW p \in Pair PROVE rows'[p] + Cardinality(Creating)' <= 1 + calls'
    <3>1. /\ rows'[p] \in Nat /\ rows[p] \in Nat
          /\ rows'[p] + One(Makes(o)) <= rows[p] + One(Makes(op[r]))
          /\ rows[p] + Cardinality(Creating) <= 1 + calls
      BY <1>1, Typed DEF RowsGrow, CountsKept, CallsCounted
    <3> QED
      BY <2>1, <2>2, <2>3, <3>1
  <2>5. Cardinality(Using)' <= calls'
    <3>1. One(o.step = "use") <= One(op[r].step = "use") /\ Cardinality(Using) <= calls
      BY <1>1 DEF CountsKept, CallsCounted
    <3> QED
      BY <2>1, <2>2, <2>3, <3>1
  <2>6. ASSUME NEW i \in Invites, invite'[i] # NoInvite
        PROVE  invite'[i].uses + Cardinality(Using)' <= calls'
    <3>1. /\ invite[i] # NoInvite /\ invite[i].uses \in Nat
          /\ invite'[i].uses + One(o.step = "use") <= invite[i].uses + One(op[r].step = "use")
          /\ invite[i].uses + Cardinality(Using) <= calls
      BY <1>1, <2>6, Typed DEF CountsKept, CallsCounted
    <3>2. invite'[i].uses \in Nat
      BY <2>6 DEF FriendsTypeOK, NoInvite
    <3> QED
      BY <2>1, <2>2, <2>3, <3>1, <3>2
  <2>7. ASSUME NEW u \in User PROVE reported'[u] + Cardinality(Reporting)' <= calls'
    <3>1. /\ reported[u] \in Nat /\ reported'[u] \in Nat
          /\ reported'[u] + One(o.step = "report") <= reported[u] + One(op[r].step = "report")
          /\ reported[u] + Cardinality(Reporting) <= calls
      BY <1>1, Typed DEF FriendsTypeOK, CountsKept, CallsCounted
    <3> QED
      BY <2>1, <2>2, <2>3, <3>1
  <2> QED
    BY <2>4, <2>5, <2>6, <2>7 DEF CallsCounted
<1>5. UsesCounted'
  <2>1. ASSUME NEW i \in Invites, invite'[i] # NoInvite
        PROVE  /\ invite'[i].made + Cardinality(Spending(i))' <= invite'[i].uses
               /\ invite'[i].uses <= MaxUses
    <3>1. /\ Cardinality(Spending(i)) \in Nat
          /\ Cardinality(Spending(i))' \in Nat
          /\ Cardinality(Spending(i))' = Cardinality(Spending(i))
                + One(Spends(o, i)) - One(Spends(op[r], i))
          /\ \A b : One(b) \in {0, 1}
      <4>1. \A b : One(b) \in {0, 1}
        BY DEF One
      <4> QED
        BY <1>1, <4>1, Counts, CountsAreNats DEF Spends
    <3>2. /\ invite[i] # NoInvite /\ invite[i].uses \in Nat /\ invite[i].made \in Nat
          /\ invite'[i].uses <= MaxUses
          /\ invite'[i].made + One(Spends(o, i)) - invite'[i].uses
                <= invite[i].made + One(Spends(op[r], i)) - invite[i].uses
          /\ invite[i].made + Cardinality(Spending(i)) <= invite[i].uses
      BY <1>1, <2>1, Typed DEF CountsKept, UsesCounted
    <3>3. invite'[i].uses \in Nat /\ invite'[i].made \in Nat
      BY <2>1 DEF FriendsTypeOK, NoInvite
    <3> QED
      BY <3>1, <3>2, <3>3
  <2> QED
    BY <2>1 DEF UsesCounted
<1>6. Undisturbed'
  <2>1. ~disturbed' => \A q \in Request : q # r => op[q] = NoOp
    BY <1>1, Alone
  <2> QED
    BY <1>1, <2>1, StaysUndisturbed
<1> QED
  BY <1>2, <1>3, <1>4, <1>5, <1>6 DEF IInv

\* A request that goes on without writing a row or a report.
LEMMA PlainStepInv ==
    ASSUME IInv, NEW r \in Request, NEW o \in Ops, op[r] # NoOp, Goto(r, o), UNCHANGED calls,
           UNCHANGED <<day, row, rows, blocks, banned, disabled, reported>>,
           discoverable' \subseteq User, InvitesStay,
           \A i \in Invites : invite[i] = NoInvite => invite'[i] = NoInvite,
           OwnTyped', OpSound(o)',
           o.step \notin {"create", "use", "report"},
           o.step \in {"pair", "join"} => op[r].step \in {"pair", "join"} /\ o.i = op[r].i,
           disturbed' \in BOOLEAN,
           ~disturbed' => ~disturbed /\ Decided(o)' /\ op[r].step # "unfriend"
    PROVE  IInv'
<1>1. /\ TypeOK /\ RowsSound /\ CallsCounted /\ UsesCounted /\ Undisturbed
  BY DEF IInv
<1>2. RowsSound' /\ RowsGrow /\ \A u : Friend(u)' = Friend(u)
  BY <1>1, SameRows
<1>3. FriendsTypeOK'
  BY <1>1 DEF TypeOK, FriendsTypeOK, InvitesStay, InviteRow
<1>4. CountsKept(r, o)
  <2>1. /\ \A p \in Pair : rows'[p] = rows[p] /\ rows[p] \in Nat
        /\ \A u \in User : reported'[u] = reported[u] /\ reported[u] \in Nat
        /\ \A i \in Invites : invite'[i] # NoInvite =>
              /\ invite[i] # NoInvite
              /\ invite'[i].uses = invite[i].uses /\ invite[i].uses \in Nat
              /\ invite'[i].made = invite[i].made /\ invite[i].made \in Nat
              /\ invite'[i].uses <= MaxUses
    BY <1>1, Typed DEF InvitesStay, UsesCounted
  <2>2. /\ One(Makes(o)) <= One(Makes(op[r]))
        /\ One(o.step = "report") <= One(op[r].step = "report")
        /\ One(o.step = "use") <= One(op[r].step = "use")
        /\ \A i : One(Spends(o, i)) <= One(Spends(op[r], i))
    BY DEF One, Makes, Spends
  <2>3. \A b : One(b) \in {0, 1}
    BY DEF One
  <2>4. \A p \in Pair : rows'[p] + One(Makes(o)) <= rows[p] + One(Makes(op[r]))
    BY <2>1, <2>2, <2>3
  <2>5. \A u \in User :
          reported'[u] + One(o.step = "report") <= reported[u] + One(op[r].step = "report")
    BY <2>1, <2>2, <2>3
  <2>6. ASSUME NEW i \in Invites, invite'[i] # NoInvite
        PROVE  /\ invite[i] # NoInvite
               /\ invite'[i].uses + One(o.step = "use") <= invite[i].uses + One(op[r].step = "use")
               /\ invite'[i].uses <= MaxUses
               /\ invite'[i].made + One(Spends(o, i)) - invite'[i].uses
                     <= invite[i].made + One(Spends(op[r], i)) - invite[i].uses
    <3>1. One(Spends(o, i)) <= One(Spends(op[r], i)) /\ One(Spends(o, i)) \in {0, 1}
          /\ One(Spends(op[r], i)) \in {0, 1} /\ One(o.step = "use") \in {0, 1}
          /\ One(op[r].step = "use") \in {0, 1}
      BY <2>2, <2>3
    <3> QED
      BY <2>1, <2>2, <2>6, <3>1
  <2> QED
    BY <2>2, <2>4, <2>5, <2>6 DEF CountsKept
<1>5. ASSUME ~disturbed'
      PROVE  /\ \A u \in User : Cardinality(Friend(u)') <= MaxFriendsFor(u)
                                /\ reported'[u] <= MaxReports
             /\ \A p \in Pair : Apart(p)' \/ row'[p] = NoRow
  <2>1. \A p : Apart(p)' <=> Apart(p)
    BY DEF Apart
  <2> QED
    BY <1>1, <1>2, <1>5, <2>1, Alone
<1> QED
  BY <1>2, <1>3, <1>4, <1>5, GoOnInv DEF InvitesStay

\* What Counted and Reads leave alone.
LEMMA Unwritten ==
    ASSUME IInv
    PROVE  /\ Counted => UNCHANGED <<calls, disturbed>> /\ disturbed' \in BOOLEAN
           /\ Reads => /\ UNCHANGED <<day, row, rows, blocks, invite, discoverable, banned,
                                      disabled, reported>>
                       /\ InvitesStay /\ discoverable' \subseteq User
           /\ UNCHANGED own => OwnTyped'
<1>1. TypeOK
  BY DEF IInv
<1>2. Counted => UNCHANGED <<calls, disturbed>> /\ disturbed' \in BOOLEAN
  BY <1>1, Typed DEF Counted
<1>3. Reads => UNCHANGED <<day, row, rows, blocks, invite, discoverable, banned, disabled, reported>>
  BY DEF Reads, friendships, accounts
<1>4. Reads => InvitesStay
  BY <1>1, <1>3, SameInvites
<1>5. Reads => discoverable' \subseteq User
  BY <1>1, <1>3 DEF TypeOK, FriendsTypeOK
<1> QED
  BY <1>1, <1>2, <1>3, <1>4, <1>5, OwnStays

\* An operation that is over asks for nothing.
LEMMA Over == OpSound(NoOp)' /\ Decided(NoOp)'
  BY NoOpFacts DEF OpSound, Decided

\* A request dies between two steps.
LEMMA DieInv ==
    ASSUME IInv, NEW r \in Request, Die(r), UNCHANGED own PROVE IInv'
<1>1. /\ op[r] # NoOp /\ Goto(r, NoOp) /\ disturbed' = TRUE /\ UNCHANGED calls /\ Reads
  BY DEF Die
<1> QED
  BY <1>1, Unwritten, Over, NoOpFacts, PlainStepInv

\* After the unique key refused the row, sendRequest accepts a crossed request.
LEMMA ReadAgainInv ==
    ASSUME IInv, NEW r \in Request, ReadAgain(r), UNCHANGED own PROVE IInv'
<1>1. PICK o : /\ Goto(r, o)
               /\ \/ o = NoOp
                  \/ /\ o = [step |-> "accept", u |-> op[r].u, p |-> op[r].p,
                             id |-> row[op[r].p].id, checked |-> FALSE]
                     /\ row[op[r].p].status = "pending" /\ row[op[r].p].by # op[r].u
  BY DEF ReadAgain
<1>2. PICK p, u : p = op[r].p /\ u = op[r].u
  OBVIOUS
<1>3. /\ TypeOK /\ RowsSound /\ op[r] \in Ops /\ op[r].step = "again" /\ Counted /\ Reads
      /\ op[r] # NoOp /\ p \in Pair /\ u \in p /\ u \in User
  <2>1. TypeOK /\ RowsSound /\ RequestsSound /\ op[r].step = "again" /\ Counted /\ Reads
    BY DEF IInv, ReadAgain
  <2>2. op[r] \in Ops /\ OpSound(op[r])
    BY <2>1, Typed DEF RequestsSound, OpSound
  <2> QED
    BY <1>2, <2>1, <2>2, Shapes, NoOpFacts DEF OpSound
<1>4. disturbed
  BY <1>3, Alone, NoOpFacts DEF IInv, Decided
<1>5. UNCHANGED <<row, rows, disturbed>>
  BY <1>3, Unwritten
<1>6. CASE o = NoOp
  BY <1>1, <1>3, <1>4, <1>5, <1>6, Unwritten, Over, NoOpFacts, PlainStepInv
<1>7. CASE /\ o = [step |-> "accept", u |-> u, p |-> p, id |-> row[p].id, checked |-> FALSE]
           /\ row[p].status = "pending" /\ row[p].by # u
  <2>1. row[p] # NoRow /\ row[p].id \in RowId /\ row[p].id = rows[p] /\ rows[p] \in Nat
    BY <1>3, <1>7, Typed DEF RowsSound
  <2>2. o \in Ops /\ o.step = "accept" /\ o.u = u /\ o.p = p /\ o.id = row[p].id
    BY <1>3, <1>7, <2>1 DEF Ops, FriendOps
  <2>3. OpSound(o)'
    BY <1>3, <1>5, <1>7, <2>1, <2>2 DEF OpSound, NotOwn
  <2> QED
    BY <1>1, <1>3, <1>4, <1>5, <2>2, <2>3, Unwritten, PlainStepInv
<1> QED
  BY <1>1, <1>2, <1>6, <1>7

\* acceptInvite reads the pair after it has spent the use.
LEMMA ReadPairInv ==
    ASSUME IInv, NEW r \in Request, ReadPair(r), UNCHANGED own PROVE IInv'
<1>1. PICK u, i, w, p : u = op[r].u /\ i = op[r].i /\ w = invite[i].owner /\ p = {u, w}
  OBVIOUS
<1>2. /\ TypeOK /\ RowsSound /\ op[r].step = "pair" /\ Counted /\ Reads /\ op[r] # NoOp
      /\ u \in User /\ i \in Invites /\ invite[i] # NoInvite /\ u # w /\ w \in User
      /\ p \in Pair
  <2>1. TypeOK /\ RowsSound /\ RequestsSound /\ op[r].step = "pair" /\ Counted /\ Reads
    BY DEF IInv, ReadPair
  <2>2. op[r] \in Ops /\ OpSound(op[r])
    BY <2>1, Typed DEF RequestsSound, OpSound
  <2>3. u \in User /\ i \in Invites /\ invite[i] # NoInvite /\ u # w
    BY <1>1, <2>1, <2>2, Shapes DEF OpSound
  <2> QED
    BY <1>1, <2>1, <2>3, Typed, Pairs, NoOpFacts
<1>3. UNCHANGED <<row, rows, blocks, invite, reported, disturbed>>
  BY <1>2, Unwritten
<1>4. CASE Goto(r, NoOp)
  BY <1>2, <1>3, <1>4, Unwritten, Over, NoOpFacts, PlainStepInv
<1>5. ASSUME ~(row[p].status = "accepted"),
             ~(invite[i].kind = "link" /\ row[p].status = "pending" /\ row[p].by = u),
             NEW o, Goto(r, o),
             o = [step |-> "join", u |-> u, i |-> i, id |-> IF row[p] = NoRow THEN 0 ELSE row[p].id]
      PROVE  IInv'
  <2>1. row[p] # NoRow => /\ row[p].id \in RowId /\ row[p].id = rows[p] /\ rows[p] \in Nat
                          /\ row[p].status = "pending"
    BY <1>2, <1>5, Typed DEF RowsSound
  <2>2. o.step = "join" /\ o.u = u /\ o.i = i /\ o.id = IF row[p] = NoRow THEN 0 ELSE row[p].id
    BY <1>5
  <2>3. o \in Ops
    BY <1>2, <1>5, <2>1 DEF Ops, FriendOps
  <2>4. OpSound(o)'
    <3>1. o.id # 0 => o.id <= rows[p] /\ (invite[i].kind = "link" => NotOwn(o.id, u, p)')
      BY <1>3, <1>5, <2>1, <2>2 DEF NotOwn
    <3> QED
      BY <1>1, <1>2, <1>3, <2>2, <3>1 DEF OpSound, NotOwn
  <2>5. ~disturbed => Decided(o)'
    <3>1. ~disturbed => Apart(p) /\ HaveRoom(p)
      BY <1>1, <1>2, Alone DEF IInv, Decided
    <3>2. Apart(p)' <=> Apart(p)
      BY <1>3 DEF Apart
    <3>3. HaveRoom(p)' <=> HaveRoom(p)
      BY <1>3 DEF HaveRoom, CanAddFriend, MaxFriendsFor, Friend, Status
    <3> QED
      BY <1>1, <1>3, <2>2, <3>1, <3>2, <3>3 DEF Decided, Apart, HaveRoom
  <2> QED
    BY <1>1, <1>2, <1>3, <1>5, <2>2, <2>3, <2>4, <2>5, Unwritten, PlainStepInv
<1> QED
  BY <1>1, <1>4, <1>5 DEF ReadPair, PairOf

\* Revoking the links and hiding are the last steps of their handlers.
LEMMA RevokeInv ==
    ASSUME IInv, NEW r \in Request, Revoke(r), UNCHANGED own PROVE IInv'
<1>1. /\ TypeOK /\ op[r].step = "revoke" /\ Counted /\ Goto(r, NoOp)
      /\ UNCHANGED <<day, row, rows, blocks, discoverable, banned, disabled, reported>>
      /\ invite' = RevokeLinks(op[r].users)
  BY DEF IInv, Revoke, accounts
<1>2. InvitesStay /\ \A i \in Invites : invite[i] = NoInvite => invite'[i] = NoInvite
  BY <1>1, RevokeStays
<1>3. discoverable' \subseteq User
  BY <1>1 DEF TypeOK, FriendsTypeOK
<1> QED
  BY <1>1, <1>2, <1>3, Unwritten, Over, NoOpFacts, PlainStepInv

\* The user is hidden after his links are revoked.
LEMMA HideInv ==
    ASSUME IInv, NEW r \in Request, Hide(r), UNCHANGED own PROVE IInv'
<1>1. /\ TypeOK /\ op[r].step = "hide" /\ Counted /\ Goto(r, NoOp)
      /\ UNCHANGED <<day, row, rows, blocks, invite, banned, disabled, reported>>
      /\ discoverable' \subseteq discoverable
  BY DEF IInv, Hide, friendships
<1>2. InvitesStay /\ discoverable' \subseteq User
  BY <1>1, SameInvites DEF TypeOK, FriendsTypeOK
<1> QED
  BY <1>1, <1>2, Unwritten, Over, NoOpFacts, PlainStepInv

\* The messages, the quotas and the recipients are written in one transaction.
LEMMA CreateMessagesInv ==
    ASSUME IInv, NEW r \in Request, CreateMessages(r) PROVE IInv'
<1> DEFINE u  == op[r].u
           to == op[r].to
           d  == op[r].day
<1>2. PICK o : Goto(r, o) /\ o = [step |-> "tell", u |-> u, to |-> to]
  BY DEF CreateMessages
<1>3. /\ TypeOK /\ op[r].step = "send" /\ Counted /\ Reads
      /\ u \in User /\ to \subseteq User /\ d \in Day /\ op[r] # NoOp
  <2>1. TypeOK /\ op[r].step = "send" /\ Counted /\ Reads
    BY DEF IInv, CreateMessages
  <2> QED
    BY <2>1, Typed, Shapes, NoOpFacts
<1>4. o \in Ops /\ o.step = "tell"
  BY <1>2, <1>3 DEF Ops
<1>5. OpSound(o)' /\ Decided(o)'
  BY <1>4 DEF OpSound, Decided
<1>6. OwnTyped'
  <2> DEFINE M == [day : Day, state : {"unread", "read", "hidden"}]
             m == [v \in User |-> IF v \in to
                      THEN Append(message[u][v], [day |-> d, state |-> "unread"])
                      ELSE message[u][v]]
             c == [v \in User |-> [e \in Day |->
                      recipient[u][v][e] + (IF v \in to /\ e = d THEN 1 ELSE 0)]]
  <2>1. Cardinality(to) \in Nat
    BY <1>3, FS_Subset, FS_CardinalityType, FriendsAssumption
  <2>2. /\ message \in [User -> [User -> Seq(M)]]
        /\ quota \in [User -> [Day -> Nat]] /\ recipient \in [User -> [User -> [Day -> Nat]]]
        /\ told \in [User -> [User -> Nat]]
    BY <1>3 DEF TypeOK
  <2>3. [day |-> d, state |-> "unread"] \in M
    BY <1>3
  <2>4. message' = [message EXCEPT ![u] = m]
    BY DEF CreateMessages
  <2>5. recipient' = [recipient EXCEPT ![u] = c]
    BY DEF CreateMessages
  <2>9. quota' \in [User -> [Day -> Nat]] /\ told' = told
    <3>1. quota' = [quota EXCEPT ![u][d] = @ + Cardinality(to)] /\ told' = told
      BY DEF CreateMessages
    <3>2. quota[u] \in [Day -> Nat] /\ quota[u][d] + Cardinality(to) \in Nat
      BY <1>3, <2>1, <2>2
    <3> HIDE DEF u, to, d
    <3> QED
      BY <1>3, <2>2, <3>1, <3>2
  <2>6. m \in [User -> Seq(M)]
    <3> HIDE DEF M, u, to, d
    <3> QED
      BY <1>3, <2>2, <2>3, AppendProperties
  <2>7. c \in [User -> [Day -> Nat]]
    <3>1. ASSUME NEW v \in User, NEW e \in Day
          PROVE  recipient[u][v][e] + (IF v \in to /\ e = d THEN 1 ELSE 0) \in Nat
      <4>1. recipient[u][v][e] \in Nat
        <5> HIDE DEF u
        <5>1. recipient[u] \in [User -> [Day -> Nat]]
          BY <1>3, <2>2
        <5>2. recipient[u][v] \in [Day -> Nat]
          BY <5>1
        <5> QED
          BY <5>2
      <4> QED
        BY <4>1
    <3> QED
      BY <3>1
  <2>8. /\ message' \in [User -> [User -> Seq(M)]]
        /\ recipient' \in [User -> [User -> [Day -> Nat]]]
    <3> HIDE DEF M, m, c
    <3> QED
      BY <1>3, <2>2, <2>4, <2>5, <2>6, <2>7
  <2> QED
    BY <2>2, <2>8, <2>9 DEF OwnTyped
<1>7. Counted /\ Reads
  BY <1>3
<1> QED
  BY <1>2, <1>3, <1>4, <1>5, <1>6, Unwritten, PlainStepInv

\* The events of the pushes are stored.
LEMMA TellRecipientsInv ==
    ASSUME IInv, NEW r \in Request, TellRecipients(r) PROVE IInv'
<1>1. PICK u, to : u = op[r].u /\ to = op[r].to
  OBVIOUS
<1>2. /\ TypeOK /\ op[r].step = "tell" /\ Counted /\ Reads /\ Goto(r, NoOp)
      /\ u \in User /\ to \subseteq User /\ op[r] # NoOp
  <2>1. TypeOK /\ op[r].step = "tell" /\ Counted /\ Reads /\ Goto(r, NoOp)
    BY DEF IInv, TellRecipients
  <2> QED
    BY <1>1, <2>1, Typed, Shapes, NoOpFacts
<1>3. OwnTyped'
  <2>1. told \in [User -> [User -> Nat]]
    BY <1>2 DEF TypeOK
  <2>2. told' = [told EXCEPT ![u] = [v \in User |-> told[u][v] + (IF v \in to THEN 1 ELSE 0)]]
    BY <1>1, <1>2, <2>1 DEF TellRecipients
  <2>3. told' \in [User -> [User -> Nat]]
    BY <1>2, <2>1, <2>2
  <2> QED
    BY <1>2, <2>3 DEF TellRecipients, TypeOK, OwnTyped
<1> QED
  BY <1>2, <1>3, Unwritten, Over, NoOpFacts, PlainStepInv

-----------------------------------------------------------------------------
(* Steps that write *)

\* Nothing is added to the invitations, the reports or the counts but a row.
LEMMA OnlyRowsCount ==
    ASSUME IInv, NEW r \in Request, NEW o, UNCHANGED <<invite, reported>>,
           o.step \notin {"create", "use", "pair", "join", "report"},
           \A p \in Pair : rows'[p] <= rows[p] + One(Makes(op[r])) /\ rows'[p] \in Nat
    PROVE  CountsKept(r, o) /\ InvitesKept
<1>1. /\ TypeOK /\ UsesCounted
  BY DEF IInv
<1>2. /\ One(Makes(o)) = 0 /\ One(o.step = "report") = 0 /\ One(o.step = "use") = 0
      /\ \A i : One(Spends(o, i)) = 0
      /\ \A b : One(b) \in {0, 1}
  BY DEF One, Makes, Spends
<1>3. \A p \in Pair : rows'[p] + One(Makes(o)) <= rows[p] + One(Makes(op[r]))
  BY <1>1, <1>2, Typed
<1>4. /\ One(o.step = "use") <= One(op[r].step = "use")
      /\ \A u \in User :
          reported'[u] + One(o.step = "report") <= reported[u] + One(op[r].step = "report")
  BY <1>1, <1>2, Typed
<1>5. ASSUME NEW i \in Invites, invite'[i] # NoInvite
      PROVE  /\ invite[i] # NoInvite
             /\ invite'[i].uses + One(o.step = "use") <= invite[i].uses + One(op[r].step = "use")
             /\ invite'[i].uses <= MaxUses
             /\ invite'[i].made + One(Spends(o, i)) - invite'[i].uses
                   <= invite[i].made + One(Spends(op[r], i)) - invite[i].uses
  <2>1. invite'[i] = invite[i]
    OBVIOUS
  <2>2. /\ invite[i] # NoInvite /\ invite[i].uses \in Nat /\ invite[i].made \in Nat
        /\ invite[i].uses <= MaxUses
    BY <1>1, <1>5, <2>1, Typed DEF UsesCounted
  <2>3. One(op[r].step = "use") \in {0, 1} /\ One(Spends(op[r], i)) \in {0, 1}
    BY <1>2
  <2> QED
    BY <1>2, <2>1, <2>2, <2>3
<1>6. InvitesKept
  BY DEF InvitesKept
<1> QED
  BY <1>3, <1>4, <1>5, <1>6 DEF CountsKept

\* The friends of a user are counted by his rows.
LEMMA FriendsFinite ==
    /\ \A u : IsFiniteSet(Friend(u)) /\ Cardinality(Friend(u)) \in Nat
    /\ \A u : IsFiniteSet(Friend(u)') /\ Cardinality(Friend(u)') \in Nat
<1>1. \A S \in SUBSET User : IsFiniteSet(S) /\ Cardinality(S) \in Nat
  BY FriendsAssumption, FS_Subset, FS_CardinalityType
<1>2. \A u : Friend(u) \in SUBSET User /\ Friend(u)' \in SUBSET User
  BY DEF Friend
<1> QED
  BY <1>1, <1>2

\* Changing the row of one pair changes the friends of its users by one at most.
LEMMA OneRow ==
    ASSUME TypeOK, NEW p \in Pair, \A q \in Pair : q # p => row'[q] = row[q],
           NEW u \in User
    PROVE  /\ u \notin p => Friend(u)' = Friend(u)
           /\ Cardinality(Friend(u)') <= Cardinality(Friend(u)) + 1
           /\ row'[p].status # "accepted" => Cardinality(Friend(u)') <= Cardinality(Friend(u))
<1>1. \A v \in User \ {u} : {u, v} \in Pair
  BY Pairs
<1>2. \A v \in User \ {u} : {u, v} # p => (v \in Friend(u)' <=> v \in Friend(u))
  BY <1>1 DEF Friend, Status, PairOf
<1>3. CASE u \notin p
  <2>1. Friend(u)' = Friend(u)
    BY <1>2, <1>3 DEF Friend
  <2> QED
    BY <1>3, <2>1, FriendsFinite
<1>4. CASE u \in p
  <2>1. PICK w \in p : w # u
    BY <1>4, Pairs
  <2>2. \A v \in User \ {u} : v # w => {u, v} # p
    BY <2>1
  <2>3. p = {u, w} /\ w \in User
    BY <1>4, <2>1, Pairs DEF Pair
  <2>4. Friend(u)' \ {w} = Friend(u) \ {w}
    BY <1>2, <2>2 DEF Friend
  <2>5. row'[p].status # "accepted" => w \notin Friend(u)'
    BY <2>3 DEF Friend, Status, PairOf
  <2> QED
    BY <1>4, <2>4, <2>5, FriendsFinite, OneElement
<1> QED
  BY <1>3, <1>4

FriendshipRow ==
    [id : RowId, by : User, status : {"pending", "accepted"}, day : Day, agreed : SUBSET User]

\* A request that makes a row finds an id for it.
LEMMA IdLeft ==
    ASSUME IInv, NEW r \in Request, Makes(op[r]), NEW p \in Pair
    PROVE  rows[p] + 1 \in RowId
<1>1. /\ TypeOK /\ CallsCounted
  BY DEF IInv
<1>2. /\ Cardinality(Creating) \in Nat /\ Cardinality(Creating) > 0
      /\ rows[p] + Cardinality(Creating) <= 1 + calls
      /\ rows[p] \in Nat /\ calls \in Nat /\ calls <= MaxCalls /\ MaxCalls \in Nat
  BY <1>1, CountsAreNats, Typed DEF CallsCounted, Makes
<1> QED
  BY <1>2 DEF RowId

\* The last write of a request, or the one before the links are revoked: it
\* puts the row x in the place of that of the pair p, whose last id is n.
LEMMA RowWriteInv ==
    ASSUME IInv, NEW r \in Request, NEW o \in Ops, op[r] # NoOp, Goto(r, o),
           o.step \in {"none", "revoke"}, Counted,
           UNCHANGED <<day, blocks, discoverable, banned, disabled, reported>>, UNCHANGED own,
           invite' \in [Invites -> {NoInvite} \cup InviteRow], InvitesKept, CountsKept(r, o),
           NEW p \in Pair, NEW x \in {NoRow} \cup FriendshipRow, NEW n \in {0} \cup RowId,
           row' = [row EXCEPT ![p] = x], rows' = [rows EXCEPT ![p] = n], rows[p] <= n,
           x # NoRow => /\ x.id = n /\ x.by \in p /\ x.by \in x.agreed /\ x.agreed \subseteq p
                        /\ x.status = "accepted" => x.agreed = p
                        /\ \/ row[p] # NoRow /\ x.id = row[p].id /\ x.by = row[p].by
                           \/ x.id > rows[p],
           op[r].step = "unfriend" => p = {op[r].u, op[r].v} /\ x = NoRow,
           ~disturbed /\ x # NoRow => Apart(p) /\ (x.status = "accepted" => HaveRoom(p))
    PROVE  IInv'
<1>1. /\ TypeOK /\ RowsSound /\ Undisturbed
  BY DEF IInv
<1>2. /\ row \in [Pair -> {NoRow} \cup FriendshipRow] /\ rows \in [Pair -> {0} \cup RowId]
  BY <1>1 DEF TypeOK, FriendsTypeOK, FriendshipRow
<1>3. /\ \A q \in Pair : row'[q] = IF q = p THEN x ELSE row[q]
      /\ \A q \in Pair : rows'[q] = IF q = p THEN n ELSE rows[q]
      /\ row' \in [Pair -> {NoRow} \cup FriendshipRow] /\ rows' \in [Pair -> {0} \cup RowId]
  BY <1>2
<1>4. UNCHANGED <<calls, disturbed>> /\ OwnTyped'
  BY Unwritten
<1>5. FriendsTypeOK'
  BY <1>1, <1>3, <1>4 DEF TypeOK, FriendsTypeOK, FriendshipRow, InviteRow
<1>6. RowsSound'
  BY <1>1, <1>3 DEF RowsSound
<1>7. RowsGrow
  <2>1. \A q \in Pair : rows[q] \in Nat /\ n \in Nat
    BY <1>1, Typed DEF RowId
  <2> QED
    BY <1>3, <2>1 DEF RowsGrow
<1>8. OpSound(o)' /\ Decided(o)'
  BY DEF OpSound, Decided
<1>9. ASSUME ~disturbed'
      PROVE  /\ \A u \in User : Cardinality(Friend(u)') <= MaxFriendsFor(u)
                                /\ reported'[u] <= MaxReports
             /\ \A q \in Pair : Apart(q)' \/ row'[q] = NoRow
  <2>1. /\ ~disturbed
        /\ \A u \in User : Cardinality(Friend(u)) <= MaxFriendsFor(u) /\ reported[u] <= MaxReports
        /\ \A q \in Pair : \/ Apart(q) \/ row[q] = NoRow
                           \/ op[r].step = "unfriend" /\ {op[r].u, op[r].v} = q
    BY <1>1, <1>4, <1>9, Alone
  <2>2. ASSUME NEW u \in User PROVE Cardinality(Friend(u)') <= MaxFriendsFor(u)
    <3>1. /\ u \notin p => Friend(u)' = Friend(u)
          /\ Cardinality(Friend(u)') <= Cardinality(Friend(u)) + 1
          /\ x.status # "accepted" => Cardinality(Friend(u)') <= Cardinality(Friend(u))
          /\ Cardinality(Friend(u)') \in Nat /\ Cardinality(Friend(u)) \in Nat
      BY <1>1, <1>3, OneRow, FriendsFinite
    <3>2. MaxFriendsFor(u) \in Nat
      BY FriendsAssumption DEF MaxFriendsFor
    <3>3. u \in p /\ x.status = "accepted" => Cardinality(Friend(u)) < MaxFriendsFor(u)
      BY <2>1 DEF HaveRoom, CanAddFriend, NoRow
    <3> QED
      BY <2>1, <3>1, <3>2, <3>3
  <2>3. \A q \in Pair : Apart(q)' <=> Apart(q)
    BY DEF Apart
  <2>4. ASSUME NEW q \in Pair PROVE Apart(q)' \/ row'[q] = NoRow
    BY <1>3, <2>1, <2>3
  <2> QED
    BY <2>1, <2>2, <2>4
<1>10. disturbed' \in BOOLEAN /\ (~disturbed' => ~disturbed)
  BY <1>4, <1>5 DEF FriendsTypeOK
<1> QED
  BY <1>4, <1>5, <1>6, <1>7, <1>8, <1>9, <1>10, GoOnInv

\* Rows alone: the invitations stay as they are.
LEMMA OnlyRowInv ==
    ASSUME IInv, NEW r \in Request, NEW o \in Ops, op[r] # NoOp, Goto(r, o),
           o.step \in {"none", "revoke"}, Counted,
           UNCHANGED <<day, blocks, invite, discoverable, banned, disabled, reported>>,
           UNCHANGED own,
           NEW p \in Pair, NEW x \in {NoRow} \cup FriendshipRow, NEW n \in {0} \cup RowId,
           row' = [row EXCEPT ![p] = x], rows' = [rows EXCEPT ![p] = n], rows[p] <= n,
           n <= rows[p] + One(Makes(op[r])),
           x # NoRow => /\ x.id = n /\ x.by \in p /\ x.by \in x.agreed /\ x.agreed \subseteq p
                        /\ x.status = "accepted" => x.agreed = p
                        /\ \/ row[p] # NoRow /\ x.id = row[p].id /\ x.by = row[p].by
                           \/ x.id > rows[p],
           op[r].step = "unfriend" => p = {op[r].u, op[r].v} /\ x = NoRow,
           ~disturbed /\ x # NoRow => Apart(p) /\ (x.status = "accepted" => HaveRoom(p))
    PROVE  IInv'
<1>1. TypeOK /\ invite' \in [Invites -> {NoInvite} \cup InviteRow]
  BY DEF IInv, TypeOK, FriendsTypeOK, InviteRow
<1>2. rows \in [Pair -> {0} \cup RowId]
  BY <1>1 DEF TypeOK, FriendsTypeOK
<1>3. \A q \in Pair : rows'[q] = IF q = p THEN n ELSE rows[q]
  BY <1>2
<1>4. One(Makes(op[r])) \in {0, 1} /\ n \in Nat
  BY DEF One, RowId
<1>5. \A q \in Pair : rows'[q] <= rows[q] + One(Makes(op[r])) /\ rows'[q] \in Nat
  BY <1>1, <1>3, <1>4, Typed
<1>6. CountsKept(r, o) /\ InvitesKept
  BY <1>5, OnlyRowsCount
<1> QED
  BY <1>1, <1>6, RowWriteInv

\* The pair keeps its last id.
LEMMA SameId ==
    ASSUME TypeOK, UNCHANGED rows, NEW p \in Pair, NEW q, NEW n, n = rows[p]
    PROVE  /\ rows' = [rows EXCEPT ![p] = n] /\ n \in {0} \cup RowId
           /\ n <= rows[p] + One(Makes(q)) /\ rows[p] <= n
<1>1. rows \in [Pair -> {0} \cup RowId]
  BY DEF TypeOK, FriendsTypeOK
<1>2. rows' = [rows EXCEPT ![p] = n] /\ n \in {0} \cup RowId
  BY <1>1
<1>3. n \in Nat /\ One(Makes(q)) \in {0, 1}
  BY Typed DEF One
<1>4. \A k \in {0, 1} : n <= n + k /\ n <= n
  BY <1>3
<1>5. n <= rows[p] + One(Makes(q)) /\ rows[p] <= n
  BY <1>3, <1>4
<1> QED
  BY <1>2, <1>5

\* The row is created, unless the pair has one: then the pair is read again.
LEMMA CreatePendingInv ==
    ASSUME IInv, NEW r \in Request, CreatePending(r), UNCHANGED own PROVE IInv'
<1>1. PICK u, p : p = op[r].p /\ u = op[r].u
  OBVIOUS
<1>2. /\ TypeOK /\ op[r].step = "create" /\ Counted /\ op[r] # NoOp
      /\ op[r] = [step |-> "create", u |-> u, p |-> p]
      /\ p \in Pair /\ u \in p /\ u \in User
      /\ UNCHANGED <<day, blocks, invite, discoverable, banned, disabled, reported>>
  <2>1. /\ TypeOK /\ RequestsSound /\ op[r].step = "create" /\ Counted
        /\ UNCHANGED <<day, blocks, invite, discoverable, banned, disabled, reported>>
    BY DEF IInv, CreatePending, accounts
  <2>2. op[r] \in Ops /\ OpSound(op[r])
    BY <2>1, Typed DEF RequestsSound, OpSound
  <2> QED
    BY <1>1, <2>1, <2>2, Shapes, NoOpFacts DEF OpSound
<1>3. ~disturbed => row[p] = NoRow /\ Apart(p)
  BY <1>1, <1>2, Alone DEF IInv, Decided
<1>4. CASE row[p] = NoRow
  <2>1. PICK n, x : n = rows[p] + 1 /\ x = Row(n, u, "pending", {u})
    OBVIOUS
  <2>2. n \in RowId /\ rows[p] \in Nat /\ n > rows[p] /\ One(Makes(op[r])) = 1 /\ day \in Day
    <3>1. Makes(op[r]) /\ One(Makes(op[r])) = 1
      BY <1>2 DEF Makes, One
    <3>2. n \in RowId
      BY <1>2, <2>1, <3>1, IdLeft
    <3>3. rows[p] \in Nat /\ n > rows[p]
      BY <1>2, <2>1, Typed
    <3>4. day \in Day
      BY <1>2 DEF TypeOK, FriendsTypeOK
    <3> QED
      BY <3>1, <3>2, <3>3, <3>4
  <2>3. /\ x \in FriendshipRow /\ x.id = n /\ x.by = u /\ x.agreed = {u} /\ x.status = "pending"
    BY <1>2, <2>1, <2>2 DEF Row, FriendshipRow
  <2>4. row' = [row EXCEPT ![p] = x] /\ rows' = [rows EXCEPT ![p] = n] /\ Goto(r, NoOp)
    BY <1>1, <1>4, <2>1 DEF CreatePending
  <2>5. /\ x \in {NoRow} \cup FriendshipRow /\ n \in {0} \cup RowId
        /\ rows[p] <= n /\ n <= rows[p] + One(Makes(op[r]))
        /\ x.id = n /\ x.by \in p /\ x.by \in x.agreed /\ x.agreed \subseteq p
        /\ x.status # "accepted" /\ x.id > rows[p]
    <3>1. rows[p] <= n /\ n <= rows[p] + One(Makes(op[r]))
      BY <2>1, <2>2
    <3> QED
      BY <1>2, <2>2, <2>3, <3>1
  <2> QED
    BY <1>2, <1>3, <2>4, <2>5, NoOpFacts, OnlyRowInv
<1>5. CASE row[p] # NoRow
  <2>1. PICK o : o = [op[r] EXCEPT !.step = "again"] /\ Goto(r, o) /\ UNCHANGED <<row, rows>>
    BY <1>1, <1>5 DEF CreatePending
  <2>2. o = [step |-> "again", u |-> u, p |-> p]
    BY <1>2, <2>1
  <2>3. o \in Ops /\ o.step = "again" /\ o.u = u /\ o.p = p
    BY <1>2, <2>2 DEF Ops, FriendOps
  <2>4. OpSound(o)'
    BY <1>2, <2>3 DEF OpSound
  <2>5. InvitesStay /\ discoverable' \subseteq User /\ UNCHANGED <<calls, disturbed>>
        /\ disturbed' \in BOOLEAN /\ OwnTyped'
    BY <1>2, SameInvites, Unwritten DEF TypeOK, FriendsTypeOK
  <2> QED
    BY <1>2, <1>3, <1>5, <2>1, <2>3, <2>4, <2>5, PlainStepInv
<1> QED
  BY <1>4, <1>5

\* The row that was read is accepted, if the pair still has it.
LEMMA WriteAcceptedInv ==
    ASSUME IInv, NEW r \in Request, WriteAccepted(r), UNCHANGED own PROVE IInv'
<1>1. PICK u, p : p = op[r].p /\ u = op[r].u
  OBVIOUS
<1>2. /\ TypeOK /\ RowsSound /\ op[r].step = "accept" /\ Counted /\ op[r] # NoOp /\ Goto(r, NoOp)
      /\ p \in Pair /\ u \in p /\ u \in User /\ NotOwn(op[r].id, u, p)
      /\ UNCHANGED <<day, rows, blocks, invite, discoverable, banned, disabled, reported>>
  <2>1. /\ TypeOK /\ RowsSound /\ RequestsSound /\ op[r].step = "accept" /\ Counted
        /\ Goto(r, NoOp)
        /\ UNCHANGED <<day, rows, blocks, invite, discoverable, banned, disabled, reported>>
    BY DEF IInv, WriteAccepted, accounts
  <2>2. op[r] \in Ops /\ OpSound(op[r])
    BY <2>1, Typed DEF RequestsSound, OpSound
  <2>3. p \in Pair /\ u \in User
    BY <1>1, <2>1, <2>2, Shapes
  <2>4. u \in p /\ NotOwn(op[r].id, u, p)
    BY <1>1, <2>1, <2>2 DEF OpSound, NotOwn
  <2> QED
    BY <2>1, <2>3, <2>4, NoOpFacts
<1>3. ~disturbed => HaveRoom(p) /\ Apart(p)
  BY <1>1, <1>2, Alone DEF IInv, Decided
<1>4. CASE UNCHANGED row
  <2>1. InvitesStay /\ discoverable' \subseteq User /\ UNCHANGED <<calls, disturbed>>
        /\ disturbed' \in BOOLEAN /\ OwnTyped'
    BY <1>2, SameInvites, Unwritten DEF TypeOK, FriendsTypeOK
  <2> QED
    BY <1>2, <1>4, <2>1, Over, NoOpFacts, PlainStepInv
<1>5. CASE row[p] # NoRow /\ row[p].id = op[r].id /\ row' # row
  <2>1. /\ row \in [Pair -> {NoRow} \cup FriendshipRow] /\ rows \in [Pair -> {0} \cup RowId]
        /\ row[p] \in FriendshipRow
    BY <1>2, <1>5 DEF TypeOK, FriendsTypeOK, FriendshipRow
  <2>2. PICK x : x = [row[p] EXCEPT !.status = "accepted", !.agreed = @ \cup {u}]
    OBVIOUS
  <2>3. /\ x \in FriendshipRow /\ x.id = row[p].id /\ x.by = row[p].by
        /\ x.agreed = row[p].agreed \cup {u} /\ x.status = "accepted"
    BY <1>2, <2>1, <2>2 DEF FriendshipRow
  <2>4. row' = [row EXCEPT ![p] = x]
    BY <1>1, <1>2, <1>5, <2>1, <2>2 DEF WriteAccepted
  <2>5. PICK n : n = rows[p]
    OBVIOUS
  <2>6. rows' = [rows EXCEPT ![p] = n] /\ n \in {0} \cup RowId
        /\ n <= rows[p] + One(Makes(op[r])) /\ rows[p] <= n
    BY <1>2, <2>5, SameId
  <2>7. /\ row[p].id = rows[p] /\ row[p].by \in p /\ row[p].by \in row[p].agreed
        /\ row[p].agreed \subseteq p /\ row[p].by # u
    BY <1>2, <1>5 DEF RowsSound, NotOwn
  <2>8. p = {u, row[p].by}
    BY <1>2, <2>7, Pairs
  <2>9. x.agreed = p /\ x.by \in p /\ x.by \in x.agreed /\ x.id = n
    BY <1>2, <2>3, <2>5, <2>7, <2>8
  <2> QED
    BY <1>2, <1>3, <1>5, <2>3, <2>4, <2>6, <2>9, NoOpFacts, OnlyRowInv
<1> QED
  BY <1>1, <1>4, <1>5 DEF WriteAccepted

\* The row that was read is deleted, if the pair still has it; a block deletes
\* any row of the pair.
LEMMA DeleteInv ==
    ASSUME IInv, NEW r \in Request, Delete(r), UNCHANGED own PROVE IInv'
<1>1. PICK p : p = op[r].p
  OBVIOUS
<1>2. /\ TypeOK /\ op[r].step = "delete" /\ Counted /\ op[r] # NoOp /\ Goto(r, NoOp)
      /\ p \in Pair
      /\ UNCHANGED <<day, rows, blocks, invite, discoverable, banned, disabled, reported>>
  <2>1. /\ TypeOK /\ op[r].step = "delete" /\ Counted /\ Goto(r, NoOp)
        /\ UNCHANGED <<day, rows, blocks, invite, discoverable, banned, disabled, reported>>
    BY DEF IInv, Delete, accounts
  <2> QED
    BY <1>1, <2>1, Typed, Shapes, NoOpFacts
<1>3. CASE UNCHANGED row
  <2>1. InvitesStay /\ discoverable' \subseteq User /\ UNCHANGED <<calls, disturbed>>
        /\ disturbed' \in BOOLEAN /\ OwnTyped'
    BY <1>2, SameInvites, Unwritten DEF TypeOK, FriendsTypeOK
  <2> QED
    BY <1>2, <1>3, <2>1, Over, NoOpFacts, PlainStepInv
<1>4. CASE row' = [row EXCEPT ![p] = NoRow]
  <2>1. PICK n : n = rows[p]
    OBVIOUS
  <2>2. rows' = [rows EXCEPT ![p] = n] /\ n \in {0} \cup RowId
        /\ n <= rows[p] + One(Makes(op[r])) /\ rows[p] <= n
    BY <1>2, <2>1, SameId
  <2> QED
    BY <1>2, <1>4, <2>2, NoOpFacts, OnlyRowInv
<1> QED
  BY <1>1, <1>3, <1>4 DEF Delete

\* A block deletes the friendship of the pair, whoever made it.
LEMMA UnfriendInv ==
    ASSUME IInv, NEW r \in Request, Unfriend(r), UNCHANGED own PROVE IInv'
<1>1. PICK p : p = {op[r].u, op[r].v}
  OBVIOUS
<1>2. PICK o : o = [step |-> "revoke", users |-> p] /\ Goto(r, o)
  BY <1>1 DEF Unfriend
<1>3. /\ TypeOK /\ op[r].step = "unfriend" /\ Counted /\ op[r] # NoOp
      /\ p \in Pair /\ row' = [row EXCEPT ![p] = NoRow]
      /\ UNCHANGED <<day, rows, blocks, invite, discoverable, banned, disabled, reported>>
  <2>1. /\ TypeOK /\ RequestsSound /\ op[r].step = "unfriend" /\ Counted
        /\ row' = [row EXCEPT ![p] = NoRow]
        /\ UNCHANGED <<day, rows, blocks, invite, discoverable, banned, disabled, reported>>
    BY <1>1 DEF IInv, Unfriend, accounts, PairOf
  <2>2. op[r] \in Ops /\ OpSound(op[r])
    BY <2>1, Typed DEF RequestsSound, OpSound
  <2>3. op[r].u \in User /\ op[r].v \in User /\ op[r].u # op[r].v
    BY <2>1, <2>2, Shapes DEF OpSound
  <2> QED
    BY <1>1, <2>1, <2>3, Pairs, NoOpFacts
<1>4. o \in Ops /\ o.step = "revoke"
  BY <1>2, <1>3 DEF Ops, FriendOps, Pair
<1>5. PICK n : n = rows[p]
  OBVIOUS
<1>6. rows' = [rows EXCEPT ![p] = n] /\ n \in {0} \cup RowId
      /\ n <= rows[p] + One(Makes(op[r])) /\ rows[p] <= n
  BY <1>3, <1>5, SameId
<1> QED
  BY <1>1, <1>2, <1>3, <1>4, <1>6, OnlyRowInv

\* A use is counted in the row of the invitation, if it has one left.
LEMMA IncrementUseInv ==
    ASSUME IInv, NEW r \in Request, IncrementUse(r), UNCHANGED own PROVE IInv'
<1>1. PICK u, i, w : u = op[r].u /\ i = op[r].i /\ w = invite[i].owner
  OBVIOUS
<1>2. /\ TypeOK /\ op[r].step = "use" /\ Counted /\ op[r] # NoOp
      /\ op[r] = [step |-> "use", u |-> u, i |-> i]
      /\ u \in User /\ i \in Invites /\ invite[i] # NoInvite /\ u # w /\ w \in User
      /\ UNCHANGED <<day, row, rows, blocks, discoverable, banned, disabled, reported>>
  <2>1. /\ TypeOK /\ RequestsSound /\ op[r].step = "use" /\ Counted
        /\ UNCHANGED <<day, row, rows, blocks, discoverable, banned, disabled, reported>>
    BY DEF IInv, IncrementUse, accounts
  <2>2. op[r] \in Ops /\ OpSound(op[r])
    BY <2>1, Typed DEF RequestsSound, OpSound
  <2>3. /\ u \in User /\ i \in Invites /\ invite[i] # NoInvite /\ u # w
        /\ op[r] = [step |-> "use", u |-> u, i |-> i]
    BY <1>1, <2>1, <2>2, Shapes DEF OpSound
  <2> QED
    BY <1>1, <2>1, <2>3, Typed, NoOpFacts
<1>3. ~disturbed => Apart({u, w}) /\ HaveRoom({u, w})
  BY <1>1, <1>2, Alone DEF IInv, Decided
<1>4. UNCHANGED <<calls, disturbed>> /\ disturbed' \in BOOLEAN /\ OwnTyped'
      /\ discoverable' \subseteq User
  BY <1>2, Unwritten DEF TypeOK, FriendsTypeOK
<1>5. CASE UNCHANGED invite /\ Goto(r, NoOp)
  BY <1>2, <1>4, <1>5, SameInvites, Over, NoOpFacts, PlainStepInv
<1>6. ASSUME invite[i].uses < MaxUses, invite' = [invite EXCEPT ![i].uses = @ + 1],
             NEW o, Goto(r, o), o = [op[r] EXCEPT !.step = "pair"]
      PROVE  IInv'
  <2>1. /\ CallsCounted /\ UsesCounted /\ RowsSound /\ Undisturbed
        /\ invite \in [Invites -> {NoInvite} \cup InviteRow]
    BY <1>2 DEF IInv, TypeOK, FriendsTypeOK, InviteRow
  <2>2. o = [step |-> "pair", u |-> u, i |-> i]
    BY <1>2, <1>6
  <2>3. o \in Ops /\ o.step = "pair" /\ o.u = u /\ o.i = i
    BY <1>2, <2>2 DEF Ops, FriendOps
  <2>4. PICK y : y = [invite[i] EXCEPT !.uses = @ + 1]
    OBVIOUS
  <2>5. /\ invite[i] \in InviteRow /\ invite[i].uses \in Nat /\ invite[i].made \in Nat
        /\ invite[i].uses + 1 \in 0..MaxCalls
    <3>1. /\ Cardinality(Using) \in Nat /\ Cardinality(Using) > 0
          /\ invite[i].uses + Cardinality(Using) <= calls
          /\ invite[i].uses \in Nat /\ invite[i].made \in Nat
          /\ calls \in Nat /\ calls <= MaxCalls /\ MaxCalls \in Nat
      BY <1>2, <2>1, CountsAreNats, Typed DEF CallsCounted
    <3>2. invite[i] \in InviteRow
      BY <1>2, <2>1
    <3> QED
      BY <3>1, <3>2
  <2>6. /\ y \in InviteRow /\ y.owner = invite[i].owner /\ y.kind = invite[i].kind
        /\ y.uses = invite[i].uses + 1 /\ y.made = invite[i].made /\ y # NoInvite
    BY <2>4, <2>5 DEF InviteRow, NoInvite
  <2>7. \A j \in Invites : invite'[j] = IF j = i THEN y ELSE invite[j]
    BY <1>6, <2>1, <2>4
  <2>8. invite' \in [Invites -> {NoInvite} \cup InviteRow]
    BY <1>6, <2>1, <2>4, <2>6
  <2>9. FriendsTypeOK'
    BY <1>2, <1>4, <2>8 DEF TypeOK, FriendsTypeOK, InviteRow
  <2>10. InvitesKept /\ RowsSound' /\ RowsGrow /\ \A v : Friend(v)' = Friend(v)
    BY <1>2, <2>1, <2>6, <2>7, SameRows DEF InvitesKept
  <2>11. OpSound(o)'
    BY <1>1, <1>2, <2>3, <2>6, <2>7 DEF OpSound
  <2>12. CountsKept(r, o)
    <3>1. /\ One(Makes(o)) = One(Makes(op[r]))
          /\ One(o.step = "report") = 0 /\ One(op[r].step = "report") = 0
          /\ One(o.step = "use") = 0 /\ One(op[r].step = "use") = 1
          /\ \A j : One(Spends(op[r], j)) = 0
          /\ \A j : One(Spends(o, j)) = IF j = i THEN 1 ELSE 0
          /\ One(Makes(o)) = 1
      BY <1>2, <2>3 DEF One, Makes, Spends
    <3>2. \A p \in Pair : rows'[p] + One(Makes(o)) <= rows[p] + One(Makes(op[r]))
      BY <1>2, <3>1, Typed
    <3>3. \A v \in User :
             reported'[v] + One(o.step = "report") <= reported[v] + One(op[r].step = "report")
      BY <1>2, <3>1, Typed
    <3>4. ASSUME NEW j \in Invites, invite'[j] # NoInvite
          PROVE  /\ invite[j] # NoInvite
                 /\ invite'[j].uses + One(o.step = "use") <= invite[j].uses + One(op[r].step = "use")
                 /\ invite'[j].uses <= MaxUses
                 /\ invite'[j].made + One(Spends(o, j)) - invite'[j].uses
                       <= invite[j].made + One(Spends(op[r], j)) - invite[j].uses
      <4>1. CASE j = i
        BY <1>2, <1>6, <2>5, <2>6, <2>7, <3>1, <4>1, FriendsAssumption
      <4>2. CASE j # i
        <5>1. /\ invite'[j] = invite[j] /\ invite[j].uses \in Nat /\ invite[j].made \in Nat
              /\ invite[j].uses <= MaxUses
          BY <1>2, <2>1, <2>7, <3>4, <4>2, Typed DEF UsesCounted
        <5> QED
          BY <3>1, <3>4, <4>2, <5>1
      <4> QED
        BY <4>1, <4>2
    <3> QED
      BY <3>1, <3>2, <3>3, <3>4 DEF CountsKept
  <2>13. ASSUME ~disturbed'
         PROVE  /\ ~disturbed /\ Decided(o)'
                /\ \A v \in User : Cardinality(Friend(v)') <= MaxFriendsFor(v)
                                   /\ reported'[v] <= MaxReports
                /\ \A p \in Pair : Apart(p)' \/ row'[p] = NoRow
    <3>1. \A p : (Apart(p)' <=> Apart(p)) /\ (HaveRoom(p)' <=> HaveRoom(p))
      BY <1>2, SameRows, <2>1 DEF Apart
    <3>2. Decided(o)'
      <4>1. PICK p : p = {u, w}
        OBVIOUS
      <4>2. Apart(p)' /\ HaveRoom(p)'
        BY <1>3, <1>4, <2>13, <3>1, <4>1
      <4>3. invite'[o.i].owner = w /\ o.u = u /\ o.step = "pair"
        BY <1>1, <1>2, <2>3, <2>6, <2>7
      <4> QED
        BY <4>1, <4>2, <4>3 DEF Decided, Apart, HaveRoom
    <3> QED
      BY <1>2, <1>4, <2>1, <2>10, <2>13, <3>1, <3>2, Alone
  <2> QED
    BY <1>2, <1>4, <1>6, <2>3, <2>9, <2>10, <2>11, <2>12, <2>13, GoOnInv
<1> QED
  BY <1>1, <1>5, <1>6 DEF IncrementUse

\* A code makes two friends, a link a request; both accept the row that waits.
LEMMA JoinInv ==
    ASSUME IInv, NEW r \in Request, Join(r), UNCHANGED own PROVE IInv'
<1>1. PICK u, i, w, p, id : u = op[r].u /\ i = op[r].i /\ w = invite[i].owner /\ p = {u, w}
                            /\ id = op[r].id
  OBVIOUS
<1>2. PICK both : both = IF invite[i].kind = "qr" THEN p ELSE {u}
  OBVIOUS
<1>3. /\ TypeOK /\ RowsSound /\ UsesCounted /\ op[r].step = "join" /\ Counted /\ op[r] # NoOp
      /\ Goto(r, NoOp)
      /\ u \in User /\ i \in Invites /\ invite[i] # NoInvite /\ u # w /\ w \in User
      /\ p \in Pair /\ id \in RowId \cup {0}
      /\ id # 0 => id <= rows[p] /\ (invite[i].kind = "link" => NotOwn(id, u, p))
      /\ UNCHANGED <<day, blocks, discoverable, banned, disabled, reported>>
  <2>1. /\ TypeOK /\ RowsSound /\ RequestsSound /\ UsesCounted /\ op[r].step = "join" /\ Counted
        /\ Goto(r, NoOp)
        /\ UNCHANGED <<day, blocks, discoverable, banned, disabled, reported>>
    BY DEF IInv, Join, accounts
  <2>2. op[r] \in Ops /\ OpSound(op[r])
    BY <2>1, Typed DEF RequestsSound, OpSound
  <2>3. /\ u \in User /\ i \in Invites /\ invite[i] # NoInvite /\ u # w /\ id \in RowId \cup {0}
        /\ id # 0 => id <= rows[p] /\ (invite[i].kind = "link" => NotOwn(id, u, p))
    BY <1>1, <2>1, <2>2, Shapes DEF OpSound, NotOwn
  <2> QED
    BY <1>1, <2>1, <2>3, Typed, Pairs, NoOpFacts
<1>4. ~disturbed => HaveRoom(p) /\ Apart(p)
  BY <1>1, <1>3, Alone DEF IInv, Decided
<1>5. CASE UNCHANGED <<row, rows, invite>>
  BY <1>3, <1>5, SameInvites, Unwritten, Over, NoOpFacts, PlainStepInv DEF TypeOK, FriendsTypeOK
<1>6. ASSUME NEW x \in FriendshipRow, NEW n \in RowId, n \in Nat, rows[p] \in Nat,
             row' = [row EXCEPT ![p] = x], rows' = [rows EXCEPT ![p] = n],
             rows[p] <= n, n <= rows[p] + 1,
             invite' = [invite EXCEPT ![i].made = @ + 1],
             x.id = n, x.by \in p, x.by \in x.agreed, x.agreed \subseteq p,
             x.status = "accepted" => x.agreed = p,
             \/ row[p] # NoRow /\ x.id = row[p].id /\ x.by = row[p].by
             \/ x.id > rows[p]
      PROVE  IInv'
  <2>1. /\ invite \in [Invites -> {NoInvite} \cup InviteRow] /\ invite[i] \in InviteRow
        /\ rows \in [Pair -> {0} \cup RowId]
    BY <1>3 DEF TypeOK, FriendsTypeOK, InviteRow
  <2>2. PICK y : y = [invite[i] EXCEPT !.made = @ + 1]
    OBVIOUS
  <2>3. /\ invite[i].uses \in Nat /\ invite[i].made \in Nat
        /\ invite[i].made + 1 \in 0..MaxCalls
    <3>1. /\ Cardinality(Spending(i)) \in Nat /\ Cardinality(Spending(i)) > 0
          /\ invite[i].made + Cardinality(Spending(i)) <= invite[i].uses
          /\ invite[i].uses \in Nat /\ invite[i].made \in Nat
      BY <1>1, <1>3, CountsAreNats, Typed DEF UsesCounted
    <3>2. invite[i].uses <= MaxCalls /\ MaxCalls \in Nat
      BY <1>3, <2>1, Typed DEF InviteRow
    <3> QED
      BY <3>1, <3>2
  <2>4. /\ y \in InviteRow /\ y.owner = invite[i].owner /\ y.kind = invite[i].kind
        /\ y.uses = invite[i].uses /\ y.made = invite[i].made + 1 /\ y # NoInvite
    BY <2>1, <2>2, <2>3 DEF InviteRow, NoInvite
  <2>5. \A j \in Invites : invite'[j] = IF j = i THEN y ELSE invite[j]
    BY <1>6, <2>1, <2>2
  <2>6. invite' \in [Invites -> {NoInvite} \cup InviteRow] /\ InvitesKept
    <3>1. invite' \in [Invites -> {NoInvite} \cup InviteRow]
      BY <1>6, <2>1, <2>2, <2>4
    <3> QED
      BY <2>4, <2>5, <3>1 DEF InvitesKept
  <2>7. CountsKept(r, NoOp)
    <3>1. /\ One(Makes(NoOp)) = 0 /\ One(Makes(op[r])) = 1
          /\ One(NoOp.step = "report") = 0 /\ One(op[r].step = "report") = 0
          /\ One(NoOp.step = "use") = 0 /\ One(op[r].step = "use") = 0
          /\ \A j : One(Spends(NoOp, j)) = 0
          /\ \A j : One(Spends(op[r], j)) = IF j = i THEN 1 ELSE 0
      BY <1>1, <1>3, NoOpFacts DEF One, Makes, Spends
    <3>2. ASSUME NEW q \in Pair
          PROVE  rows'[q] + One(Makes(NoOp)) <= rows[q] + One(Makes(op[r]))
      <4>1. rows'[q] = IF q = p THEN n ELSE rows[q]
        BY <1>6, <2>1
      <4>2. rows[q] \in Nat
        BY <1>3, Typed
      <4> QED
        BY <1>6, <3>1, <4>1, <4>2
    <3>3. \A v \in User :
             reported'[v] + One(NoOp.step = "report") <= reported[v] + One(op[r].step = "report")
      BY <1>3, <3>1, Typed
    <3>4. ASSUME NEW j \in Invites, invite'[j] # NoInvite
          PROVE  /\ invite[j] # NoInvite
                 /\ invite'[j].uses + One(NoOp.step = "use")
                       <= invite[j].uses + One(op[r].step = "use")
                 /\ invite'[j].uses <= MaxUses
                 /\ invite'[j].made + One(Spends(NoOp, j)) - invite'[j].uses
                       <= invite[j].made + One(Spends(op[r], j)) - invite[j].uses
      <4>1. /\ invite[j] # NoInvite /\ invite'[j].uses = invite[j].uses
            /\ invite'[j].made = invite[j].made + (IF j = i THEN 1 ELSE 0)
            /\ invite[j].uses \in Nat /\ invite[j].made \in Nat /\ invite[j].uses <= MaxUses
        <5>1. invite[j] # NoInvite
          BY <1>3, <2>5, <3>4
        <5>2. invite[j].uses \in Nat /\ invite[j].made \in Nat /\ invite[j].uses <= MaxUses
          BY <1>3, <5>1, Typed DEF UsesCounted
        <5> QED
          BY <2>4, <2>5, <5>1, <5>2
      <4> QED
        BY <3>1, <4>1
    <3> QED
      BY <3>1, <3>2, <3>3, <3>4 DEF CountsKept
  <2> QED
    BY <1>3, <1>4, <1>6, <2>6, <2>7, NoOpFacts, RowWriteInv
<1>7. /\ row \in [Pair -> {NoRow} \cup FriendshipRow] /\ rows \in [Pair -> {0} \cup RowId]
      /\ day \in Day /\ rows[p] \in Nat
  BY <1>3, Typed DEF TypeOK, FriendsTypeOK, FriendshipRow
<1>8. CASE id = 0 /\ row[p] = NoRow /\ ~UNCHANGED <<row, rows, invite>>
  <2>1. PICK n, x : n = rows[p] + 1
                    /\ x = Row(n, u, IF invite[i].kind = "qr" THEN "accepted" ELSE "pending", both)
    OBVIOUS
  <2>2. n \in RowId /\ n \in Nat /\ n > rows[p]
    <3>1. n \in RowId
      BY <1>3, <2>1, IdLeft DEF Makes
    <3> QED
      BY <1>7, <2>1, <3>1
  <2>3. /\ x \in FriendshipRow /\ x.id = n /\ x.by = u /\ x.agreed = both
        /\ x.status = IF invite[i].kind = "qr" THEN "accepted" ELSE "pending"
    BY <1>1, <1>2, <1>3, <1>7, <2>1, <2>2 DEF Row, FriendshipRow
  <2>4. /\ row' = [row EXCEPT ![p] = x] /\ rows' = [rows EXCEPT ![p] = n]
        /\ invite' = [invite EXCEPT ![i].made = @ + 1]
    BY <1>1, <1>2, <1>8, <2>1 DEF Join, PairOf
  <2>5. /\ x.by \in p /\ x.by \in x.agreed /\ x.agreed \subseteq p
        /\ x.status = "accepted" => x.agreed = p
    BY <1>1, <1>2, <2>3
  <2>6. rows[p] <= n /\ n <= rows[p] + 1 /\ x.id > rows[p]
    BY <1>7, <2>1, <2>2, <2>3
  <2> QED
    BY <1>6, <1>7, <2>2, <2>3, <2>4, <2>5, <2>6
<1>9. CASE id # 0 /\ row[p] # NoRow /\ row[p].id = id /\ ~UNCHANGED <<row, rows, invite>>
  <2>1. PICK x : x = [row[p] EXCEPT !.status = "accepted", !.agreed = @ \cup both]
    OBVIOUS
  <2>2. row[p] \in FriendshipRow /\ both \subseteq p /\ u \in both /\ p \subseteq User
    BY <1>1, <1>2, <1>3, <1>7, <1>9
  <2>3. /\ x \in FriendshipRow /\ x.id = row[p].id /\ x.by = row[p].by
        /\ x.agreed = row[p].agreed \cup both /\ x.status = "accepted"
    BY <2>1, <2>2 DEF FriendshipRow
  <2>4. PICK n : n = rows[p]
    OBVIOUS
  <2>5. /\ row' = [row EXCEPT ![p] = x] /\ rows' = rows
        /\ invite' = [invite EXCEPT ![i].made = @ + 1]
    BY <1>1, <1>2, <1>9, <2>1 DEF Join, PairOf
  <2>6. rows' = [rows EXCEPT ![p] = n] /\ n \in Nat /\ rows[p] <= n /\ n <= rows[p] + 1
    BY <1>7, <2>4, <2>5
  <2>7. /\ row[p].id = rows[p] /\ row[p].by \in p /\ row[p].by \in row[p].agreed
        /\ row[p].agreed \subseteq p
    BY <1>3, <1>9 DEF RowsSound
  <2>8. n \in RowId /\ x.id = n
    BY <2>2, <2>3, <2>4, <2>7 DEF FriendshipRow
  <2>9. x.agreed = p
    <3>1. CASE invite[i].kind = "qr"
      BY <1>2, <2>3, <2>7, <3>1
    <3>2. CASE invite[i].kind # "qr"
      <4>1. row[p].by # u
        BY <1>3, <1>9, <3>2, Typed DEF NotOwn
      <4>2. p = {u, row[p].by}
        BY <1>1, <1>3, <2>7, <4>1, Pairs
      <4> QED
        BY <2>2, <2>3, <2>7, <4>2
    <3> QED
      BY <3>1, <3>2
  <2> QED
    BY <1>6, <1>7, <1>9, <2>3, <2>5, <2>6, <2>7, <2>8, <2>9
<1>10. \/ UNCHANGED <<row, rows, invite>>
       \/ id = 0 /\ row[p] = NoRow
       \/ id # 0 /\ row[p] # NoRow /\ row[p].id = id
  BY <1>1 DEF Join, PairOf
<1> QED
  BY <1>5, <1>8, <1>9, <1>10

\* createReport writes the report it has counted.
LEMMA CreateReportInv ==
    ASSUME IInv, NEW r \in Request, CreateReport(r), UNCHANGED own PROVE IInv'
<1>1. PICK u : u = op[r].u
  OBVIOUS
<1>2. /\ TypeOK /\ RowsSound /\ CallsCounted /\ UsesCounted /\ Undisturbed
      /\ op[r].step = "report" /\ Counted /\ op[r] # NoOp
      /\ Goto(r, NoOp) /\ u \in User /\ reported' = [reported EXCEPT ![u] = @ + 1]
      /\ UNCHANGED <<day, row, rows, blocks, invite, discoverable, banned, disabled>>
  <2>1. /\ TypeOK /\ RowsSound /\ CallsCounted /\ UsesCounted /\ Undisturbed
        /\ op[r].step = "report" /\ Counted /\ Goto(r, NoOp)
        /\ reported' = [reported EXCEPT ![u] = @ + 1]
        /\ UNCHANGED <<day, row, rows, blocks, invite, discoverable, banned, disabled>>
    BY <1>1 DEF IInv, CreateReport, friendships
  <2> QED
    BY <1>1, <2>1, Typed, Shapes, NoOpFacts
<1>3. UNCHANGED <<calls, disturbed>> /\ disturbed' \in BOOLEAN /\ OwnTyped'
  BY <1>2, Unwritten
<1>4. /\ \A v \in User : reported'[v] = reported[v] + (IF v = u THEN 1 ELSE 0)
      /\ reported \in [User -> 0..MaxCalls] /\ MaxCalls \in Nat
  <2>1. reported \in [User -> 0..MaxCalls] /\ MaxCalls \in Nat
    BY <1>2, FriendsAssumption DEF TypeOK, FriendsTypeOK
  <2>2. \A v \in User : reported[v] \in Nat
    BY <1>2, Typed
  <2> QED
    BY <1>2, <2>1, <2>2
<1>5. reported[u] + 1 \in 0..MaxCalls
  <2>1. /\ Cardinality(Reporting) \in Nat /\ Cardinality(Reporting) > 0
        /\ reported[u] + Cardinality(Reporting) <= calls /\ reported[u] \in Nat
        /\ calls \in Nat /\ calls <= MaxCalls
    BY <1>2, CountsAreNats, Typed DEF CallsCounted
  <2> QED
    BY <1>4, <2>1
<1>6. FriendsTypeOK'
  <2>1. reported' \in [User -> 0..MaxCalls]
    BY <1>2, <1>4, <1>5
  <2> QED
    BY <1>2, <1>3, <2>1 DEF TypeOK, FriendsTypeOK
<1>7. RowsSound' /\ RowsGrow /\ (\A v : Friend(v)' = Friend(v)) /\ InvitesKept
  BY <1>2, SameRows DEF InvitesKept
<1>8. CountsKept(r, NoOp)
  <2>1. /\ One(Makes(NoOp)) = 0 /\ One(Makes(op[r])) = 0
        /\ One(NoOp.step = "report") = 0 /\ One(op[r].step = "report") = 1
        /\ One(NoOp.step = "use") = 0 /\ One(op[r].step = "use") = 0
        /\ \A i : One(Spends(NoOp, i)) = 0 /\ One(Spends(op[r], i)) = 0
    BY <1>2, NoOpFacts DEF One, Makes, Spends
  <2>2. \A p \in Pair : rows'[p] + One(Makes(NoOp)) <= rows[p] + One(Makes(op[r]))
    BY <1>2, <2>1, Typed
  <2>3. \A v \in User :
           reported'[v] + One(NoOp.step = "report") <= reported[v] + One(op[r].step = "report")
    BY <1>2, <1>4, <2>1, Typed
  <2>4. ASSUME NEW i \in Invites, invite'[i] # NoInvite
        PROVE  /\ invite[i] # NoInvite
               /\ invite'[i].uses + One(NoOp.step = "use")
                     <= invite[i].uses + One(op[r].step = "use")
               /\ invite'[i].uses <= MaxUses
               /\ invite'[i].made + One(Spends(NoOp, i)) - invite'[i].uses
                     <= invite[i].made + One(Spends(op[r], i)) - invite[i].uses
    BY <1>2, <2>1, <2>4, Typed DEF UsesCounted
  <2> QED
    BY <2>1, <2>2, <2>3, <2>4 DEF CountsKept
<1>9. ASSUME ~disturbed'
      PROVE  /\ ~disturbed
             /\ \A v \in User : Cardinality(Friend(v)') <= MaxFriendsFor(v)
                                /\ reported'[v] <= MaxReports
             /\ \A p \in Pair : Apart(p)' \/ row'[p] = NoRow
  <2>1. /\ ~disturbed
        /\ \A v \in User : Cardinality(Friend(v)) <= MaxFriendsFor(v) /\ reported[v] <= MaxReports
        /\ \A p \in Pair : Apart(p) \/ row[p] = NoRow
        /\ Decided(op[r])
    BY <1>2, <1>3, <1>9, Alone
  <2>2. reported[u] < MaxReports
    BY <1>1, <1>2, <2>1 DEF Decided
  <2>3. \A v \in User : reported'[v] <= MaxReports
    BY <1>2, <1>4, <2>1, <2>2, Typed, FriendsAssumption
  <2>4. \A p : Apart(p)' <=> Apart(p)
    BY <1>2 DEF Apart
  <2> QED
    BY <1>2, <1>7, <2>1, <2>3, <2>4
<1> QED
  BY <1>2, <1>3, <1>6, <1>7, <1>8, <1>9, Over, NoOpFacts, GoOnInv

-----------------------------------------------------------------------------
(* Steps of no request *)

\* Time, the expiry of an invitation and the moderation touch no request.
LEMMA IdleInv ==
    ASSUME IInv, UNCHANGED <<row, rows, blocks, op, disturbed>>, UNCHANGED own, FriendsTypeOK',
           InvitesStay, \A i \in Invites : invite[i] = NoInvite => invite'[i] = NoInvite,
           calls <= calls', \A u \in User : reported'[u] <= reported[u]
    PROVE  IInv'
<1>1. /\ TypeOK /\ RowsSound /\ RequestsSound /\ CallsCounted /\ UsesCounted /\ Undisturbed
  BY DEF IInv
<1>2. TypeOK'
  BY <1>1 DEF TypeOK, Ops, FriendOps, own
<1>3. RowsSound' /\ RowsGrow /\ InvitesKept /\ \A u : Friend(u)' = Friend(u)
  BY <1>1, SameRows DEF InvitesStay
<1>4. RequestsSound'
  <2> SUFFICES ASSUME NEW q \in Request PROVE OpSound(op[q])'
    BY DEF RequestsSound
  <2>1. PICK x : x = op[q] /\ x = op'[q] /\ x \in Ops
    BY <1>1, Typed
  <2>2. OpSound(x)
    BY <1>1, <2>1 DEF RequestsSound, OpSound
  <2>3. OpSound(x)'
    BY <1>1, <1>3, <2>1, <2>2, StaysSound
  <2> QED
    BY <2>1, <2>3 DEF OpSound
<1>5. /\ Cardinality(Creating)' = Cardinality(Creating) /\ Cardinality(Creating) \in Nat
      /\ Cardinality(Using)' = Cardinality(Using) /\ Cardinality(Using) \in Nat
      /\ Cardinality(Reporting)' = Cardinality(Reporting) /\ Cardinality(Reporting) \in Nat
      /\ \A i : Cardinality(Spending(i))' = Cardinality(Spending(i))
  <2>1. /\ Creating' = Creating /\ Using' = Using /\ Reporting' = Reporting
        /\ \A i : Spending(i)' = Spending(i)
    BY DEF Creating, Using, Reporting, Spending
  <2> QED
    BY <1>1, <2>1, CountsAreNats
<1>6. /\ calls \in Nat /\ calls' \in Nat
      /\ \A u \in User : reported[u] \in Nat /\ reported'[u] \in Nat
      /\ \A i \in Invites : invite'[i] # NoInvite =>
            /\ invite[i] # NoInvite /\ invite'[i].uses = invite[i].uses
            /\ invite'[i].made = invite[i].made /\ invite[i].uses \in Nat
      /\ \A p \in Pair : rows[p] \in Nat
  BY <1>1, Typed DEF InvitesStay, FriendsTypeOK
<1>7. CallsCounted'
  <2>1. \A p \in Pair : rows'[p] + Cardinality(Creating)' <= 1 + calls'
    BY <1>1, <1>5, <1>6 DEF CallsCounted
  <2>2. \A i \in Invites : invite'[i] # NoInvite => invite'[i].uses + Cardinality(Using)' <= calls'
    BY <1>1, <1>5, <1>6 DEF CallsCounted
  <2>3. \A u \in User : reported'[u] + Cardinality(Reporting)' <= calls'
    BY <1>1, <1>5, <1>6 DEF CallsCounted
  <2>4. Cardinality(Using)' <= calls'
    BY <1>1, <1>5, <1>6 DEF CallsCounted
  <2> QED
    BY <2>1, <2>2, <2>3, <2>4 DEF CallsCounted
<1>8. UsesCounted'
  BY <1>1, <1>5, <1>6 DEF UsesCounted
<1>9. Undisturbed'
  <2> SUFFICES ASSUME ~disturbed'
               PROVE  /\ \A q, s \in Request : op'[q] # NoOp /\ op'[s] # NoOp => q = s
                      /\ \A q \in Request : Decided(op[q])'
                      /\ \A u \in User : Cardinality(Friend(u)') <= MaxFriendsFor(u)
                                         /\ reported'[u] <= MaxReports
                      /\ \A p \in Pair : \/ Apart(p)' \/ row'[p] = NoRow
                                         \/ \E q \in Request : op'[q].step = "unfriend"
                                                               /\ {op'[q].u, op'[q].v} = p
    BY DEF Undisturbed, MaxFriendsFor
  <2>1. /\ \A q, s \in Request : op[q] # NoOp /\ op[s] # NoOp => q = s
        /\ \A u \in User : Cardinality(Friend(u)) <= MaxFriendsFor(u) /\ reported[u] <= MaxReports
        /\ \A p \in Pair : \/ Apart(p) \/ row[p] = NoRow
                           \/ \E q \in Request : op[q].step = "unfriend"
                                                 /\ {op[q].u, op[q].v} = p
    BY <1>1 DEF Undisturbed
  <2>2. \A p : (Apart(p)' <=> Apart(p)) /\ (HaveRoom(p)' <=> HaveRoom(p))
    BY <1>1, SameRows DEF Apart
  <2>3. ASSUME NEW q \in Request PROVE Decided(op[q])'
    <3>1. PICK x : x = op[q] /\ x = op'[q] /\ x \in Ops
      BY <1>1, Typed
    <3>2. Decided(x) /\ OpSound(x)
      BY <1>1, <3>1 DEF RequestsSound, OpSound, Undisturbed, Decided
    <3>3. x.step = "create" => row'[x.p] = NoRow /\ Apart(x.p)'
      BY <2>2, <3>2 DEF Decided
    <3>4. x.step = "accept" => Apart(x.p)' /\ HaveRoom(x.p)'
      BY <2>2, <3>2 DEF Decided
    <3>5. PICK p : p = {x.u, invite[x.i].owner}
      OBVIOUS
    <3>8. x.step \in {"use", "pair", "join"} =>
             Apart(p)' /\ HaveRoom(p)' /\ p = {x.u, invite'[x.i].owner}
      <4>1. SUFFICES ASSUME x.step \in {"use", "pair", "join"}
                     PROVE  Apart(p)' /\ HaveRoom(p)' /\ p = {x.u, invite'[x.i].owner}
        OBVIOUS
      <4>2. invite'[x.i].owner = invite[x.i].owner
        BY <1>3, <3>1, <3>2, <4>1, Shapes DEF OpSound, InvitesKept
      <4>3. Apart(p)' /\ HaveRoom(p)'
        BY <2>2, <3>2, <3>5, <4>1 DEF Decided
      <4> QED
        BY <3>5, <4>2, <4>3
    <3>6. x.step = "report" => reported'[x.u] < MaxReports
      BY <1>6, <3>1, <3>2, Shapes, FriendsAssumption DEF Decided
    <3>7. x.step # "again"
      BY <3>2 DEF Decided
    <3> QED
      BY <3>1, <3>3, <3>4, <3>6, <3>7, <3>8 DEF Decided, Apart, HaveRoom
  <2>4. \A u \in User : reported'[u] <= MaxReports
    BY <1>6, <2>1, FriendsAssumption
  <2> QED
    BY <1>3, <2>1, <2>2, <2>3, <2>4
<1> QED
  BY <1>2, <1>3, <1>4, <1>7, <1>8, <1>9 DEF IInv

\* A day begins.
LEMMA NextDayInv == ASSUME IInv, NextDay, UNCHANGED own PROVE IInv'
<1>1. /\ TypeOK /\ day' = day + 1 /\ day < MaxDay /\ reported' = [u \in User |-> 0]
      /\ UNCHANGED <<row, rows, blocks, invite, discoverable, banned, disabled, op, calls, disturbed>>
  BY DEF IInv, NextDay, Counted, friendships
<1>2. FriendsTypeOK'
  <2>1. day' \in Day
    BY <1>1, FriendsAssumption DEF TypeOK, FriendsTypeOK, Day
  <2>2. reported' \in [User -> 0..MaxCalls]
    <3>1. 0 \in 0..MaxCalls
      BY FriendsAssumption
    <3> QED
      BY <1>1, <3>1
  <2> QED
    BY <1>1, <2>1, <2>2 DEF TypeOK, FriendsTypeOK
<1>3. InvitesStay /\ calls <= calls' /\ \A u \in User : reported'[u] <= reported[u]
  BY <1>1, SameInvites, Typed
<1> QED
  BY <1>1, <1>2, <1>3, IdleInv

\* An invitation expires.
LEMMA ExpireInv == ASSUME IInv, NEW i \in Invites, Expire(i), UNCHANGED own PROVE IInv'
<1>1. /\ TypeOK /\ invite[i] # NoInvite /\ invite' = [invite EXCEPT ![i].state = "expired"]
      /\ UNCHANGED <<day, row, rows, blocks, discoverable, banned, disabled, reported, op, calls,
                     disturbed>>
  BY DEF IInv, Expire, Counted, accounts
<1>2. invite \in [Invites -> {NoInvite} \cup InviteRow] /\ invite[i] \in InviteRow
  BY <1>1 DEF TypeOK, FriendsTypeOK, InviteRow
<1>3. PICK y : y = [invite[i] EXCEPT !.state = "expired"]
  OBVIOUS
<1>4. /\ y \in InviteRow /\ y.owner = invite[i].owner /\ y.kind = invite[i].kind
      /\ y.uses = invite[i].uses /\ y.made = invite[i].made /\ y # NoInvite
  BY <1>2, <1>3 DEF InviteRow, NoInvite
<1>5. \A j \in Invites : invite'[j] = IF j = i THEN y ELSE invite[j]
  BY <1>1, <1>2, <1>3
<1>6. invite' \in [Invites -> {NoInvite} \cup InviteRow]
  BY <1>1, <1>2, <1>3, <1>4
<1>7. InvitesStay
  BY <1>1, <1>4, <1>5, <1>6 DEF InvitesStay, InvitesKept
<1>8. FriendsTypeOK'
  BY <1>1, <1>6 DEF TypeOK, FriendsTypeOK, InviteRow
<1>9. calls <= calls' /\ \A u \in User : reported'[u] <= reported[u]
  BY <1>1, Typed
<1> QED
  BY <1>1, <1>5, <1>7, <1>8, <1>9, IdleInv

\* The moderation bans, cuts off or restores an account.
LEMMA ModerateInv == ASSUME IInv, NEW u \in User, Moderate(u), UNCHANGED own PROVE IInv'
<1>1. /\ TypeOK /\ calls < MaxCalls /\ calls' = calls + 1
      /\ banned' \subseteq banned \cup {u} /\ disabled' \subseteq disabled \cup {u}
      /\ UNCHANGED <<day, row, rows, blocks, invite, discoverable, reported, op, disturbed>>
  BY DEF IInv, Moderate, friendships
<1>2. calls' \in 0..MaxCalls /\ calls <= calls' /\ \A v \in User : reported'[v] <= reported[v]
  BY <1>1, Typed
<1>3. FriendsTypeOK'
  BY <1>1, <1>2 DEF TypeOK, FriendsTypeOK
<1> QED
  BY <1>1, <1>2, <1>3, SameInvites, IdleInv

-----------------------------------------------------------------------------
(* The invariant *)

\* The first states: two friends, or an invitation.
LEMMA InitInv == Init => IInv
<1> SUFFICES ASSUME Init PROVE IInv
  OBVIOUS
<1>1. PICK p \in Pair, i \in Invites,
           inv \in [kind : {"qr", "link"}, owner : User, uses : {0}, made : {0}, state : {"live"}] :
        \/ /\ \E u \in p : row = [q \in Pair |-> IF q = p THEN Row(1, u, "accepted", p) ELSE NoRow]
           /\ rows = [q \in Pair |-> IF q = p THEN 1 ELSE 0]
           /\ invite = [j \in Invites |-> NoInvite]
        \/ /\ row = [q \in Pair |-> NoRow] /\ rows = [q \in Pair |-> 0]
           /\ invite = [j \in Invites |-> IF j = i THEN inv ELSE NoInvite]
  BY DEF Init, FriendsInit
<1>2. PICK x : /\ x = NoRow \/ \E u \in p : x = Row(1, u, "accepted", p)
               /\ row = [q \in Pair |-> IF q = p THEN x ELSE NoRow]
               /\ rows = [q \in Pair |-> IF q = p THEN (IF x = NoRow THEN 0 ELSE 1) ELSE 0]
  <2>1. CASE /\ \E u \in p : row = [q \in Pair |-> IF q = p THEN Row(1, u, "accepted", p) ELSE NoRow]
             /\ rows = [q \in Pair |-> IF q = p THEN 1 ELSE 0]
    <3>1. PICK u \in p : row = [q \in Pair |-> IF q = p THEN Row(1, u, "accepted", p) ELSE NoRow]
      BY <2>1
    <3>2. Row(1, u, "accepted", p) # NoRow
      BY DEF Row, NoRow
    <3> QED
      BY <2>1, <3>1, <3>2
  <2>2. CASE row = [q \in Pair |-> NoRow] /\ rows = [q \in Pair |-> 0]
    BY <2>2
  <2> QED
    BY <1>1, <2>1, <2>2
<1>3. PICK y : /\ y \in {NoInvite, inv}
               /\ invite = [j \in Invites |-> IF j = i THEN y ELSE NoInvite]
  BY <1>1
<1>4. /\ day = 1 /\ blocks = {} /\ discoverable = User /\ banned = {} /\ disabled = {}
      /\ reported = [u \in User |-> 0] /\ op = [r \in Request |-> NoOp]
      /\ calls = 0 /\ disturbed = FALSE
  BY DEF Init, FriendsInit
<1>5. /\ 1 \in Day /\ 1 \in RowId /\ MaxCalls \in Nat /\ 0 \in 0..MaxCalls /\ p \subseteq User
      /\ MaxReports \in Nat /\ \A u : MaxFriendsFor(u) \in Nat \ {0}
  BY FriendsAssumption DEF Day, RowId, Pair, MaxFriendsFor
<1>6. x # NoRow => /\ x \in FriendshipRow /\ x.id = 1 /\ x.by \in p /\ x.agreed = p
                   /\ x.status = "accepted"
  BY <1>2, <1>4, <1>5 DEF Row, FriendshipRow
<1>7. y # NoInvite => y \in InviteRow /\ y.uses = 0 /\ y.made = 0
  BY <1>3, <1>5 DEF InviteRow
<1>8. TypeOK
  <2>1. FriendsTypeOK
    <3>1. row \in [Pair -> {NoRow} \cup FriendshipRow]
      BY <1>2, <1>6
    <3>2. rows \in [Pair -> {0} \cup RowId]
      BY <1>2, <1>5
    <3>3. invite \in [Invites -> {NoInvite} \cup InviteRow]
      BY <1>3, <1>7
    <3> QED
      BY <1>4, <1>5, <3>1, <3>2, <3>3 DEF FriendsTypeOK, FriendshipRow, InviteRow
  <2>2. op \in [Request -> Ops]
    BY <1>4, NoOpFacts
  <2>3. message \in [User -> [User -> Seq([day : Day, state : {"unread", "read", "hidden"}])]]
    <3>1. << >> \in Seq([day : Day, state : {"unread", "read", "hidden"}])
      OBVIOUS
    <3> QED
      BY <3>1 DEF Init
  <2>4. /\ quota \in [User -> [Day -> Nat]] /\ recipient \in [User -> [User -> [Day -> Nat]]]
        /\ told \in [User -> [User -> Nat]]
    BY DEF Init
  <2> QED
    BY <2>1, <2>2, <2>3, <2>4 DEF TypeOK
<1>9. RowsSound
  BY <1>2, <1>6 DEF RowsSound
<1>10. RequestsSound
  <2>1. OpSound(NoOp)
    BY NoOpFacts DEF OpSound
  <2> QED
    BY <1>4, <2>1 DEF RequestsSound
<1>11. /\ Cardinality(Creating) = 0 /\ Cardinality(Using) = 0 /\ Cardinality(Reporting) = 0
       /\ \A j : Cardinality(Spending(j)) = 0
  <2>1. Creating = {} /\ Using = {} /\ Reporting = {} /\ \A j : Spending(j) = {}
    BY <1>4, NoOpFacts DEF Creating, Using, Reporting, Spending
  <2> QED
    BY <2>1, FS_EmptySet
<1>12. CallsCounted
  BY <1>2, <1>3, <1>4, <1>7, <1>11 DEF CallsCounted
<1>13. UsesCounted
  BY <1>3, <1>7, <1>11, FriendsAssumption DEF UsesCounted
<1>14. Undisturbed
  <2>1. Decided(NoOp)
    BY NoOpFacts DEF Decided
  <2>2. \A q \in Pair : Apart(q)
    BY <1>4 DEF Apart
  <2>3. ASSUME NEW u \in User PROVE Cardinality(Friend(u)) <= MaxFriendsFor(u)
    <3>1. IsFiniteSet({}) /\ Cardinality({}) = 0
      BY FS_EmptySet
    <3>2. \A v \in User \ {u} : {u, v} \in Pair /\ ({u, v} # p => v \notin Friend(u))
      BY <1>2, Pairs DEF Friend, Status, PairOf, NoRow
    <3>3. \E w : Friend(u) \subseteq {w}
      <4>1. CASE u \in p
        <5>1. PICK w \in p : w # u
          BY <4>1, Pairs
        <5>2. \A v \in User \ {u} : v # w => {u, v} # p
          BY <5>1
        <5>3. Friend(u) \subseteq {w}
          BY <3>2, <5>2 DEF Friend
        <5> QED
          BY <5>3
      <4>2. CASE u \notin p
        <5>1. Friend(u) \subseteq {u}
          BY <3>2, <4>2 DEF Friend
        <5> QED
          BY <5>1
      <4> QED
        BY <4>1, <4>2
    <3>4. PICK w : Friend(u) \subseteq {w}
      BY <3>3
    <3>5. Cardinality(Friend(u)) <= 1
      <4>1. IsFiniteSet({w}) /\ Cardinality({w}) = 1 /\ Friend(u) \in SUBSET {w}
        BY <3>4, FS_Singleton
      <4>2. \A S \in SUBSET {w} : Cardinality(S) <= Cardinality({w})
        BY <4>1, FS_Subset
      <4> QED
        BY <4>1, <4>2
    <3> QED
      BY <1>5, <3>5, FriendsFinite
  <2>4. \A u \in User : reported[u] <= MaxReports
    BY <1>4, <1>5
  <2>5. \A r \in Request : Decided(op[r])
    BY <1>4, <2>1
  <2>6. \A r \in Request : op[r] = NoOp
    BY <1>4
  <2> QED
    BY <2>2, <2>3, <2>4, <2>5, <2>6 DEF Undisturbed
<1> QED
  BY <1>8, <1>9, <1>10, <1>12, <1>13, <1>14 DEF IInv

\* Every step keeps the invariant.
LEMMA NextInv == IInv /\ [Next]_vars => IInv'
<1> SUFFICES ASSUME IInv, [Next]_vars PROVE IInv'
  OBVIOUS
<1>1. CASE UNCHANGED vars
  <2>1. /\ UNCHANGED <<day, row, rows, blocks, invite, discoverable, banned, disabled, reported, op>>
        /\ UNCHANGED <<calls, disturbed>> /\ UNCHANGED own
    BY <1>1 DEF vars, friendsVars, friendships, accounts
  <2>2. TypeOK /\ FriendsTypeOK'
    BY <2>1 DEF IInv, TypeOK, FriendsTypeOK
  <2>3. calls <= calls' /\ \A u \in User : reported'[u] <= reported[u]
    BY <2>1, <2>2, Typed
  <2> QED
    BY <2>1, <2>2, <2>3, SameInvites, IdleInv
<1>2. CASE FriendsNext /\ UNCHANGED own
  <2>1. CASE NextDay
    BY <1>2, <2>1, NextDayInv
  <2>2. CASE \E i \in Invites : Expire(i)
    BY <1>2, <2>2, ExpireInv
  <2>3. CASE \E u \in User : Moderate(u)
    BY <1>2, <2>3, ModerateInv
  <2>4. ASSUME NEW r \in Request,
               \/ Die(r) \/ CreatePending(r) \/ ReadAgain(r) \/ WriteAccepted(r) \/ Delete(r)
               \/ IncrementUse(r) \/ ReadPair(r) \/ Join(r)
               \/ Unfriend(r) \/ Revoke(r) \/ Hide(r) \/ CreateReport(r)
        PROVE  IInv'
    BY <1>2, <2>4, DieInv, CreatePendingInv, ReadAgainInv, WriteAcceptedInv, DeleteInv,
       IncrementUseInv, ReadPairInv, JoinInv, UnfriendInv, RevokeInv, HideInv, CreateReportInv
  <2>5. ASSUME NEW r \in Request, NEW u \in User, NEW v \in User,
               SendRequest(r, u, v) \/ Block(r, u, v) \/ Unblock(r, u, v) \/ Report(r, u, v)
        PROVE  IInv'
    BY <1>2, <2>5, SendRequestInv, BlockInv, UnblockInv, ReportInv
  <2>6. ASSUME NEW r \in Request, NEW u \in User, NEW p \in Pair,
               Accept(r, u, p) \/ Decline(r, u, p) \/ Cancel(r, u, p) \/ RemoveFriend(r, u, p)
        PROVE  IInv'
    BY <1>2, <2>6, AcceptInv, DeletesInv
  <2>7. ASSUME NEW r \in Request, NEW u \in User, NEW i \in Invites,
               \/ AcceptInvite(r, u, i)
               \/ \E kind \in {"qr", "link"} : CreateInvite(r, u, i, kind)
        PROVE  IInv'
    BY <1>2, <2>7, AcceptInviteInv, CreateInviteInv
  <2>8. ASSUME NEW r \in Request, NEW u \in User, NEW visible \in BOOLEAN,
               UpdateSettings(r, u, visible)
        PROVE  IInv'
    BY <1>2, <2>8, UpdateSettingsInv
  <2> QED
    BY <1>2, <2>1, <2>2, <2>3, <2>4, <2>5, <2>6, <2>7, <2>8 DEF FriendsNext
<1>3. ASSUME NEW r \in Request, CreateMessages(r) \/ TellRecipients(r) PROVE IInv'
  BY <1>3, CreateMessagesInv, TellRecipientsInv
<1>4. ASSUME NEW r \in Request, NEW u \in User, NEW to \in SUBSET User, Send(r, u, to)
      PROVE  IInv'
  BY <1>4, SendInv
<1>5. ASSUME NEW r \in Request, NEW u \in User, NEW v \in User,
             NEW i \in DOMAIN message[v][u], Read(r, u, v, i) \/ Remove(r, u, v, i)
      PROVE  IInv'
  BY <1>5, MarkInv
<1> QED
  BY <1>1, <1>2, <1>3, <1>4, <1>5 DEF Next

\* The invariant that carries the theorems below, kept by every step of requests
\* that overlap, die and read what others wrote since.
THEOREM InductiveInvariant == Spec => []IInv
<1> QED
  BY InitInv, NextInv, PTL DEF Spec

-----------------------------------------------------------------------------
(* Theorems *)

\* Every row of friendships, invitations, requests, messages and quotas keeps
\* its type: ids and uses never pass the number of requests.
THEOREM TypeCorrect == Spec => []TypeOK
<1>1. IInv => TypeOK
  BY DEF IInv
<1> QED
  BY <1>1, InductiveInvariant, PTL

\* Nobody is the friend of someone who did not agree to it, whatever requests,
\* codes, links, refusals and crashes overlap.
THEOREM FriendsConsented == Spec => []Consented
<1>1. IInv => Consented
  BY Typed DEF IInv, RowsSound, Consented
<1> QED
  BY <1>1, InductiveInvariant, PTL

\* However many requests use an invitation at once, it is used as often as it
\* allows and makes no more than one friendship or request for each use.
THEOREM InvitesLimited == Spec => []InviteWithinUses
<1>1. IInv => InviteWithinUses
  <2> SUFFICES ASSUME IInv, NEW i \in Invites, invite[i] # NoInvite
               PROVE  invite[i].made <= invite[i].uses /\ invite[i].uses <= MaxUses
    BY DEF InviteWithinUses
  <2>1. /\ Cardinality(Spending(i)) \in Nat /\ invite[i].made \in Nat /\ invite[i].uses \in Nat
        /\ invite[i].made + Cardinality(Spending(i)) <= invite[i].uses
        /\ invite[i].uses <= MaxUses
    BY CountsAreNats, Typed DEF IInv, UsesCounted
  <2> QED
    BY <2>1
<1> QED
  BY <1>1, InductiveInvariant, PTL

\* Requests that do not overlap keep the limits of friends of both users and
\* the limit of reports.
THEOREM FriendLimitsKept == Spec => []LimitsKept
<1>1. IInv => LimitsKept
  BY DEF IInv, Undisturbed, LimitsKept
<1> QED
  BY <1>1, InductiveInvariant, PTL

\* A block that nothing overlapped leaves neither a friendship nor a request
\* between the two, and their screens never show one.
THEOREM BlocksHold == Spec => []BlockedApart
<1>1. IInv => BlockedApart
  <2> SUFFICES ASSUME IInv, NEW u \in User, NEW v \in User, u # v, Blocked(u, v)
               PROVE  /\ Quiet /\ ~disturbed => v \notin Friend(u) \cup Received(u) \cup SentTo(u)
                      /\ v \notin Leaderboard(u) /\ ~ProfileOpen(u, v)
    BY DEF BlockedApart
  <2>1. ASSUME Quiet, ~disturbed PROVE v \notin Friend(u) \cup Received(u) \cup SentTo(u)
    <3>1. {u, v} \in Pair /\ ~Apart({u, v})
      BY Pairs DEF Apart, Blocked
    <3>2. \A r \in Request : op[r].step # "unfriend"
      BY <2>1, NoOpFacts DEF Quiet
    <3>3. row[{u, v}] = NoRow
      BY <2>1, <3>1, <3>2 DEF IInv, Undisturbed
    <3> QED
      BY <3>3 DEF Friend, Received, SentTo, Status, PairOf, NoRow
  <2>2. v \notin Leaderboard(u) /\ ~ProfileOpen(u, v)
    BY DEF Leaderboard, ProfileOpen
  <2> QED
    BY <2>1, <2>2
<1> QED
  BY <1>1, InductiveInvariant, PTL
-----------------------------------------------------------------------------
(* Messages and their quotas *)

\* The quotas count messages, whatever overlaps.
QuotasCount ==
    \A u \in User, d \in Day :
        /\ IsFiniteSet(SentOn(message[u], d))
        /\ quota[u][d] = Cardinality(SentOn(message[u], d))
        /\ \A v \in User : /\ IsFiniteSet(OfDay(message[u][v], d))
                           /\ recipient[u][v][d] = Cardinality(OfDay(message[u][v], d))

\* The request o has still to store the event of its message from u to v.
Telling(o, u, v) == o.step = "tell" /\ o.u = u /\ v \in o.to

\* What send checked of both quotas.
Fits(o) ==
    o.step = "send" =>
        /\ quota[o.u][o.day] + Cardinality(o.to) <= DailyLimit(o.u)
        /\ \A v \in o.to : recipient[o.u][v][o.day] + 1 <= PerRecipient

\* One request at a time: the quotas hold, with what is about to be sent, and
\* the event of every message is stored or about to be.
Sending ==
    ~disturbed =>
        /\ \A r \in Request : Fits(op[r])
        /\ \A u \in User, d \in Day :
              /\ quota[u][d] <= DailyLimit(u)
              /\ \A v \in User : recipient[u][v][d] <= PerRecipient
        /\ \A u, v \in User :
              told[u][v] + One(\E r \in Request : Telling(op[r], u, v)) = Len(message[u][v])

MInv == QuotasCount /\ Sending

Msg == [day : Day, state : {"unread", "read", "hidden"}]

\* A message more is one of its day.
LEMMA OneMessage ==
    ASSUME NEW s \in Seq(Msg), NEW e \in Msg, NEW d
    PROVE  /\ OfDay(Append(s, e), d) =
                 IF e.day = d THEN OfDay(s, d) \cup {Len(s) + 1} ELSE OfDay(s, d)
           /\ Len(s) + 1 \notin OfDay(s, d)
           /\ Len(Append(s, e)) = Len(s) + 1 /\ Len(s) \in Nat
<1> DEFINE t == Append(s, e)
<1>1. /\ Len(s) \in Nat /\ DOMAIN s = 1..Len(s) /\ Len(t) = Len(s) + 1 /\ t \in Seq(Msg)
      /\ \A i \in 1..Len(s) : t[i] = s[i]
      /\ t[Len(s) + 1] = e
  <2> HIDE DEF t
  <2>1. Len(s) \in Nat /\ DOMAIN s = 1..Len(s)
    BY LenProperties
  <2> QED
    BY <2>1, AppendProperties DEF t
<1>2. DOMAIN t = 1..(Len(s) + 1)
  BY <1>1, LenProperties
<1> HIDE DEF t
<1>3. \A i : i \in 1..(Len(s) + 1) <=> i \in 1..Len(s) \/ i = Len(s) + 1
  BY <1>1
<1>4. Len(s) + 1 \notin 1..Len(s)
  BY <1>1
<1>5. OfDay(t, d) = IF e.day = d THEN OfDay(s, d) \cup {Len(s) + 1} ELSE OfDay(s, d)
  BY <1>1, <1>2, <1>3, <1>4 DEF OfDay
<1> QED
  BY <1>1, <1>4, <1>5 DEF OfDay, t

\* The messages m of a sender, and n, where each of `to` has e besides.
Appended(m, n, to, e) ==
    \A v \in User : m[v] \in Seq(Msg) /\ n[v] = IF v \in to THEN Append(m[v], e) ELSE m[v]

\* Messages to several recipients are as many as these.
LEMMA MoreMessages ==
    ASSUME NEW m, NEW n, NEW e \in Msg, NEW d,
           NEW to \in SUBSET User,
           Appended(m, n, to, e),
           IsFiniteSet(SentOn(m, d))
    PROVE  /\ IsFiniteSet(SentOn(n, d))
           /\ Cardinality(SentOn(n, d)) =
                 Cardinality(SentOn(m, d)) + (IF e.day = d THEN Cardinality(to) ELSE 0)
<1>1. /\ IsFiniteSet(to) /\ Cardinality(to) \in Nat /\ Cardinality(SentOn(m, d)) \in Nat
  BY FriendsAssumption, FS_Subset, FS_CardinalityType
<1>2. \A v \in User :
        /\ v \in to => OfDay(n[v], d) =
              IF e.day = d THEN OfDay(m[v], d) \cup {Len(m[v]) + 1} ELSE OfDay(m[v], d)
        /\ v \notin to => OfDay(n[v], d) = OfDay(m[v], d)
        /\ Len(m[v]) + 1 \notin OfDay(m[v], d)
  <2> SUFFICES ASSUME NEW v \in User
               PROVE  /\ v \in to => OfDay(n[v], d) =
                            IF e.day = d THEN OfDay(m[v], d) \cup {Len(m[v]) + 1}
                            ELSE OfDay(m[v], d)
                      /\ v \notin to => OfDay(n[v], d) = OfDay(m[v], d)
                      /\ Len(m[v]) + 1 \notin OfDay(m[v], d)
    OBVIOUS
  <2>1. PICK s \in Seq(Msg) : s = m[v]
    BY DEF Appended
  <2>2. /\ OfDay(Append(s, e), d) =
              IF e.day = d THEN OfDay(s, d) \cup {Len(s) + 1} ELSE OfDay(s, d)
        /\ Len(s) + 1 \notin OfDay(s, d)
    BY OneMessage
  <2>3. n[v] = IF v \in to THEN Append(s, e) ELSE s
    BY <2>1 DEF Appended
  <2> QED
    BY <2>1, <2>2, <2>3
<1>3. \A v, i : /\ <<v, i>> \in SentOn(m, d) <=> v \in User /\ i \in OfDay(m[v], d)
                /\ <<v, i>> \in SentOn(n, d) <=> v \in User /\ i \in OfDay(n[v], d)
  BY DEF SentOn
<1>4. /\ \A x \in SentOn(m, d) : x = <<x[1], x[2]>>
      /\ \A x \in SentOn(n, d) : x = <<x[1], x[2]>>
  BY DEF SentOn
<1>5. CASE e.day # d
  <2>1. SentOn(n, d) = SentOn(m, d)
    BY <1>2, <1>5 DEF SentOn
  <2> QED
    BY <1>1, <1>5, <2>1
<1>6. CASE e.day = d
  <2> DEFINE N == {<<v, Len(m[v]) + 1>> : v \in to}
             f == [v \in to |-> <<v, Len(m[v]) + 1>>]
  <2>1. f \in Bijection(to, N)
    <3>1. f \in [to -> N] /\ \A x, y \in to : f[x] = f[y] => x = y
      OBVIOUS
    <3>2. \A y \in N : \E x \in to : f[x] = y
      OBVIOUS
    <3> HIDE DEF N, f
    <3> QED
      BY <3>1, <3>2 DEF Bijection, Injection, Surjection, IsInjective
  <2>2. ExistsBijection(to, N)
    BY <2>1 DEF ExistsBijection
  <2> HIDE DEF f
  <2>3. IsFiniteSet(N) /\ Cardinality(N) = Cardinality(to)
    BY <1>1, <2>2, FS_Bijection
  <2>4. \A v, i : <<v, i>> \in N <=> v \in to /\ i = Len(m[v]) + 1
    OBVIOUS
  <2>5. \A x \in N : x = <<x[1], x[2]>>
    OBVIOUS
  <2> HIDE DEF N
  <2>6. ASSUME NEW v, NEW i
        PROVE  <<v, i>> \in SentOn(n, d) <=> <<v, i>> \in SentOn(m, d) \/ <<v, i>> \in N
    <3>1. v \in to => v \in User
      OBVIOUS
    <3>2. v \in User => (i \in OfDay(n[v], d) <=> i \in OfDay(m[v], d) \/ (v \in to /\ i = Len(m[v]) + 1))
      BY <1>2, <1>6
    <3> QED
      BY <1>3, <2>4, <3>1, <3>2
  <2>7. SentOn(n, d) = SentOn(m, d) \cup N
    <3>1. ASSUME NEW x \in SentOn(n, d) PROVE x \in SentOn(m, d) \cup N
      BY <1>4, <2>6
    <3>2. ASSUME NEW x \in SentOn(m, d) PROVE x \in SentOn(n, d)
      BY <1>4, <2>6
    <3>3. ASSUME NEW x \in N PROVE x \in SentOn(n, d)
      BY <2>5, <2>6
    <3> QED
      BY <3>1, <3>2, <3>3
  <2>8. SentOn(m, d) \cap N = {}
    <3>1. \A v, i : ~(<<v, i>> \in SentOn(m, d) /\ <<v, i>> \in N)
      BY <1>2, <1>3, <2>4
    <3> QED
      BY <1>4, <3>1
  <2>9. Cardinality(SentOn(m, d) \cap N) = 0
    BY <2>8, FS_EmptySet
  <2>10. /\ IsFiniteSet(SentOn(m, d) \cup N)
         /\ Cardinality(SentOn(m, d) \cup N) =
              Cardinality(SentOn(m, d)) + Cardinality(N) - Cardinality(SentOn(m, d) \cap N)
    BY <2>3, FS_Union
  <2> QED
    BY <1>1, <1>6, <2>3, <2>7, <2>9, <2>10
<1> QED
  BY <1>5, <1>6

\* What the messages and their quotas are, row by row.
LEMMA OwnRows ==
    ASSUME TypeOK
    PROVE  /\ \A u \in User : message[u] \in [User -> Seq(Msg)]
           /\ \A u, v \in User : message[u][v] \in Seq(Msg) /\ told[u][v] \in Nat
                                 /\ Len(message[u][v]) \in Nat
           /\ \A u \in User, d \in Day : quota[u][d] \in Nat
           /\ \A u, v \in User, d \in Day : recipient[u][v][d] \in Nat
           /\ \A u \in User : DailyLimit(u) \in Nat
           /\ PerRecipient \in Nat
<1>1. /\ message \in [User -> [User -> Seq(Msg)]]
      /\ quota \in [User -> [Day -> Nat]] /\ recipient \in [User -> [User -> [Day -> Nat]]]
      /\ told \in [User -> [User -> Nat]]
  BY DEF TypeOK, Msg
<1> HIDE DEF Msg
<1>2. \A u \in User : message[u] \in [User -> Seq(Msg)]
  BY <1>1
<1>3. \A u, v \in User : message[u][v] \in Seq(Msg)
  BY <1>2
<1>4. \A u, v \in User : told[u][v] \in Nat /\ Len(message[u][v]) \in Nat
  BY <1>1, <1>3, LenProperties
<1>5. \A u, v \in User, d \in Day : recipient[u][v][d] \in Nat
  <2>1. \A u \in User : recipient[u] \in [User -> [Day -> Nat]]
    BY <1>1
  <2>2. \A u, v \in User : recipient[u][v] \in [Day -> Nat]
    BY <2>1
  <2> QED
    BY <2>2
<1>6. \A u \in User, d \in Day : quota[u][d] \in Nat
  BY <1>1
<1>7. PerRecipient \in Nat /\ \A u \in User : DailyLimit(u) \in Nat
  BY MessagesAssumption DEF DailyLimit
<1> QED
  BY <1>2, <1>3, <1>4, <1>5, <1>6, <1>7

\* A step of Friends starts no sending and ends none, except by a crash.
Elsewhere ==
    /\ disturbed => disturbed'
    /\ \A r \in Request : op'[r] # op[r] =>
          /\ op'[r].step \notin {"send", "tell"}
          /\ op[r].step = "tell" => disturbed'

LEMMA StepElsewhere ==
    ASSUME TypeOK, NEW r \in Request, NEW o, Goto(r, o), o.step \notin {"send", "tell"},
           disturbed => disturbed', op[r].step = "tell" => disturbed'
    PROVE  Elsewhere
  BY Going DEF Elsewhere

\* The requests that start: they had nothing under way.
LEMMA StartElsewhere ==
    ASSUME TypeOK, NEW r \in Request, NEW o, Start(r, o), o.step \notin {"send", "tell"}
    PROVE  Elsewhere
<1>1. Goto(r, o) /\ (disturbed => disturbed') /\ op[r].step # "tell"
  BY NoOpFacts DEF Start
<1> QED
  BY <1>1, StepElsewhere

\* What a step that sends nothing leaves of the messages.
SameMessages ==
    /\ UNCHANGED quota /\ UNCHANGED recipient /\ UNCHANGED told
    /\ \A u, v \in User : /\ Len(message'[u][v]) = Len(message[u][v])
                          /\ \A d \in Day : OfDay(message'[u][v], d) = OfDay(message[u][v], d)

\* Nothing is counted that was not.
LEMMA SameQuotas == ASSUME QuotasCount, SameMessages PROVE QuotasCount'
<1> SUFFICES ASSUME NEW u \in User, NEW d \in Day
             PROVE  /\ IsFiniteSet(SentOn(message'[u], d))
                    /\ quota'[u][d] = Cardinality(SentOn(message'[u], d))
                    /\ \A v \in User :
                          /\ IsFiniteSet(OfDay(message'[u][v], d))
                          /\ recipient'[u][v][d] = Cardinality(OfDay(message'[u][v], d))
  BY DEF QuotasCount
<1>1. \A v \in User : OfDay(message'[u][v], d) = OfDay(message[u][v], d)
  BY DEF SameMessages
<1>2. SentOn(message'[u], d) = SentOn(message[u], d)
  BY <1>1 DEF SentOn
<1>3. quota' = quota /\ recipient' = recipient
  BY DEF SameMessages
<1> QED
  BY <1>1, <1>2, <1>3 DEF QuotasCount

\* What was about to be sent or told still is.
LEMMA SameSending ==
    ASSUME Sending, SameMessages,
           ~disturbed' =>
              /\ ~disturbed
              /\ \A r \in Request : Fits(op[r])'
              /\ \A u, v \in User : (\E r \in Request : Telling(op'[r], u, v))
                                     <=> (\E r \in Request : Telling(op[r], u, v))
    PROVE  Sending'
<1> SUFFICES ASSUME ~disturbed'
             PROVE  /\ \A u \in User, d \in Day :
                          /\ quota'[u][d] <= DailyLimit(u)
                          /\ \A v \in User : recipient'[u][v][d] <= PerRecipient
                    /\ \A u, v \in User :
                          told'[u][v] + One(\E r \in Request : Telling(op'[r], u, v))
                             = Len(message'[u][v])
  BY DEF Sending, DailyLimit, Telling
<1>1. quota' = quota /\ recipient' = recipient /\ told' = told
  BY DEF SameMessages
<1>2. ASSUME NEW u \in User, NEW v \in User
      PROVE  told'[u][v] + One(\E r \in Request : Telling(op'[r], u, v)) = Len(message'[u][v])
  <2>1. told[u][v] + One(\E r \in Request : Telling(op[r], u, v)) = Len(message[u][v])
    BY DEF Sending
  <2>2. Len(message'[u][v]) = Len(message[u][v])
    BY DEF SameMessages
  <2>3. One(\E r \in Request : Telling(op'[r], u, v)) = One(\E r \in Request : Telling(op[r], u, v))
    BY DEF One
  <2> QED
    BY <1>1, <2>1, <2>2, <2>3
<1> QED
  BY <1>1, <1>2 DEF Sending

\* What nothing of messages touches stays.
LEMMA ElsewhereInv ==
    ASSUME IInv, MInv, Elsewhere, SameMessages
    PROVE  MInv'
<1>1. UNCHANGED quota /\ UNCHANGED recipient
  BY DEF SameMessages
<1>3. ASSUME ~disturbed' PROVE ~disturbed
  BY <1>3 DEF Elsewhere
<1>4. ASSUME ~disturbed', NEW r \in Request PROVE Fits(op[r])'
  <2>1. PICK x : x = op'[r]
    OBVIOUS
  <2>2. Fits(x)
    <3>1. CASE op'[r] = op[r]
      BY <1>3, <1>4, <2>1, <3>1 DEF MInv, Sending, Fits
    <3>2. CASE op'[r] # op[r]
      BY <2>1, <3>2 DEF Elsewhere, Fits
    <3> QED
      BY <3>1, <3>2
  <2> QED
    BY <1>1, <2>1, <2>2 DEF Fits, DailyLimit
<1>5. ASSUME ~disturbed', NEW u \in User, NEW v \in User
      PROVE  (\E r \in Request : Telling(op'[r], u, v)) <=> (\E r \in Request : Telling(op[r], u, v))
  BY <1>5 DEF Elsewhere, Telling
<1> QED
  BY <1>3, <1>4, <1>5, SameQuotas, SameSending DEF MInv

\* No step of Friends is one of a message.
LEMMA FriendsElsewhere ==
    ASSUME IInv, FriendsNext PROVE Elsewhere
<1>1. TypeOK
  BY DEF IInv
<1>2. CASE NextDay \/ (\E i \in Invites : Expire(i)) \/ (\E u \in User : Moderate(u))
  <2>1. op' = op /\ disturbed' = disturbed
    BY <1>2 DEF NextDay, Expire, Moderate, Counted
  <2> QED
    BY <2>1 DEF Elsewhere
<1>3. ASSUME NEW r \in Request, Die(r) PROVE Elsewhere
  <2>1. Goto(r, NoOp) /\ disturbed' = TRUE
    BY <1>3 DEF Die
  <2> QED
    BY <1>1, <2>1, NoOpFacts, StepElsewhere
<1>4. ASSUME NEW r \in Request,
             \/ CreatePending(r) \/ ReadAgain(r) \/ WriteAccepted(r) \/ Delete(r)
             \/ IncrementUse(r) \/ ReadPair(r) \/ Join(r)
             \/ Unfriend(r) \/ Revoke(r) \/ Hide(r) \/ CreateReport(r)
      PROVE  Elsewhere
  <2>1. op[r] \in Ops /\ op[r].step \notin {"tell"}
    BY <1>1, <1>4, Typed DEF CreatePending, ReadAgain, WriteAccepted, Delete, IncrementUse,
       ReadPair, Join, Unfriend, Revoke, Hide, CreateReport
  <2>2. disturbed' = disturbed
    BY <1>4 DEF CreatePending, ReadAgain, WriteAccepted, Delete, IncrementUse,
       ReadPair, Join, Unfriend, Revoke, Hide, CreateReport, Counted
  <2>3. PICK o : Goto(r, o) /\ o.step \notin {"send", "tell"}
    <3>1. CASE CreatePending(r)
      BY <3>1, <2>1, Shapes, NoOpFacts DEF CreatePending
    <3>2. CASE ReadAgain(r)
      BY <3>2, NoOpFacts DEF ReadAgain
    <3>3. CASE WriteAccepted(r) \/ Delete(r) \/ Join(r) \/ Revoke(r) \/ Hide(r) \/ CreateReport(r)
      BY <3>3, NoOpFacts DEF WriteAccepted, Delete, Join, Revoke, Hide, CreateReport
    <3>4. CASE IncrementUse(r)
      BY <3>4, <2>1, Shapes, NoOpFacts DEF IncrementUse
    <3>5. CASE ReadPair(r)
      BY <3>5, NoOpFacts DEF ReadPair
    <3>6. CASE Unfriend(r)
      BY <3>6 DEF Unfriend
    <3> QED
      BY <1>4, <3>1, <3>2, <3>3, <3>4, <3>5, <3>6
  <2> QED
    BY <1>1, <2>1, <2>2, <2>3, StepElsewhere
<1>5. ASSUME NEW r \in Request, NEW u \in User, NEW v \in User,
             SendRequest(r, u, v) \/ Block(r, u, v) \/ Unblock(r, u, v) \/ Report(r, u, v)
      PROVE  Elsewhere
  <2>1. PICK o : Start(r, o) /\ o.step \notin {"send", "tell"}
    BY <1>5, NoOpFacts DEF SendRequest, Block, Unblock, Report, Begin
  <2> QED
    BY <1>1, <2>1, StartElsewhere
<1>6. ASSUME NEW r \in Request, NEW u \in User, NEW p \in Pair,
             Accept(r, u, p) \/ Decline(r, u, p) \/ Cancel(r, u, p) \/ RemoveFriend(r, u, p)
      PROVE  Elsewhere
  <2>1. PICK o : Start(r, o) /\ o.step \notin {"send", "tell"}
    BY <1>6 DEF Accept, Decline, Cancel, RemoveFriend, Begin
  <2> QED
    BY <1>1, <2>1, StartElsewhere
<1>7. ASSUME NEW r \in Request, NEW u \in User, NEW i \in Invites,
             \/ AcceptInvite(r, u, i)
             \/ \E kind \in {"qr", "link"} : CreateInvite(r, u, i, kind)
      PROVE  Elsewhere
  <2>1. PICK o : Start(r, o) /\ o.step \notin {"send", "tell"}
    BY <1>7, NoOpFacts DEF AcceptInvite, CreateInvite, Begin
  <2> QED
    BY <1>1, <2>1, StartElsewhere
<1>8. ASSUME NEW r \in Request, NEW u \in User, NEW visible \in BOOLEAN,
             UpdateSettings(r, u, visible)
      PROVE  Elsewhere
  <2>1. PICK o : Start(r, o) /\ o.step \notin {"send", "tell"}
    BY <1>8, NoOpFacts DEF UpdateSettings, Begin
  <2> QED
    BY <1>1, <2>1, StartElsewhere
<1> QED
  BY <1>2, <1>3, <1>4, <1>5, <1>6, <1>7, <1>8 DEF FriendsNext

\* A message that is to be sent fits in both quotas.
LEMMA SendCounted ==
    ASSUME IInv, MInv, NEW r \in Request, NEW u \in User, NEW to \in SUBSET User, Send(r, u, to)
    PROVE  MInv'
<1>1. PICK o : o = [step |-> "send", u |-> u, to |-> to, day |-> day] /\ Start(r, o)
  BY DEF Send, Begin
<1>2. /\ UNCHANGED message /\ UNCHANGED quota /\ UNCHANGED recipient /\ UNCHANGED told
      /\ (disturbed => disturbed') /\ Goto(r, o) /\ op[r] = NoOp /\ TypeOK
      /\ quota[u][day] + Cardinality(to) <= DailyLimit(u)
      /\ \A v \in to : recipient[u][v][day] + 1 <= PerRecipient
  BY <1>1 DEF Send, own, Start, MayTell, IInv
<1>3. SameMessages
  BY <1>2 DEF SameMessages
<1>4. \A q \in Request : op'[q] = IF q = r THEN o ELSE op[q]
  BY <1>2, Going
<1>5. Fits(o)
  BY <1>1, <1>2 DEF Fits
<1>6. ASSUME ~disturbed', NEW q \in Request PROVE Fits(op[q])'
  <2>1. PICK x : x = op'[q]
    OBVIOUS
  <2>2. Fits(x)
    BY <1>2, <1>4, <1>5, <1>6, <2>1 DEF MInv, Sending, Fits
  <2> QED
    BY <1>2, <2>1, <2>2 DEF Fits, DailyLimit
<1>7. \A w, v \in User :
         (\E q \in Request : Telling(op'[q], w, v)) <=> (\E q \in Request : Telling(op[q], w, v))
  BY <1>1, <1>2, <1>4, NoOpFacts DEF Telling
<1> QED
  BY <1>2, <1>3, <1>6, <1>7, SameQuotas, SameSending DEF MInv

\* read and remove leave the day of every message.
LEMMA MarkCounted ==
    ASSUME IInv, MInv, NEW r \in Request, NEW u \in User, NEW v \in User,
           NEW i \in DOMAIN message[v][u], Read(r, u, v, i) \/ Remove(r, u, v, i)
    PROVE  MInv'
<1>1. PICK state \in {"read", "hidden"} : Mark(r, u, v, i, state)
  BY DEF Read, Remove
<1>2. /\ Start(r, NoOp) /\ UNCHANGED quota /\ UNCHANGED recipient /\ UNCHANGED told /\ TypeOK
      /\ message' = [message EXCEPT ![v][u][i].state = state]
  BY <1>1 DEF Mark, Begin, IInv
<1>3. /\ message \in [User -> [User -> Seq(Msg)]] /\ message[v] \in [User -> Seq(Msg)]
      /\ message[v][u] \in Seq(Msg)
  BY <1>2, OwnRows DEF TypeOK, Msg
<1> DEFINE s == message[v][u]
           t == [s EXCEPT ![i].state = state]
<1>4. /\ Len(t) = Len(s) /\ DOMAIN t = DOMAIN s
      /\ \A j \in DOMAIN s : t[j].day = s[j].day
  <2>1. s \in [1..Len(s) -> Msg] /\ Len(s) \in Nat /\ DOMAIN s = 1..Len(s)
    BY <1>3, LenProperties
  <2>2. t \in [1..Len(s) -> Msg] /\ \A j \in DOMAIN s : t[j].day = s[j].day
    BY <2>1 DEF Msg
  <2>3. Len(t) = Len(s)
    <3> HIDE DEF t
    <3>1. t \in Seq(Msg)
      BY <2>1, <2>2, SeqDef
    <3> QED
      BY <2>1, <2>2, <3>1, LenProperties
  <2> QED
    BY <2>1, <2>2, <2>3
<1>5. \A d : OfDay(t, d) = OfDay(s, d)
  BY <1>4 DEF OfDay
<1>6. \A w, x \in User : message'[w][x] = IF w = v /\ x = u THEN t ELSE message[w][x]
  BY <1>2, <1>3
<1> HIDE DEF t
<1>7. \A w, x \in User : \A d : OfDay(message'[w][x], d) = OfDay(message[w][x], d)
                                /\ Len(message'[w][x]) = Len(message[w][x])
  BY <1>4, <1>5, <1>6
<1>8. SameMessages
  BY <1>2, <1>7, ZenonT(60) DEF SameMessages
<1> QED
  BY <1>2, <1>8, NoOpFacts, StartElsewhere, ElsewhereInv

\* The messages of one send are counted in both quotas, in one transaction.
LEMMA CreateMessagesCounted ==
    ASSUME IInv, MInv, NEW r \in Request, CreateMessages(r) PROVE MInv'
<1>1. PICK u, to, d : u = op[r].u /\ to = op[r].to /\ d = op[r].day
  OBVIOUS
<1>2. /\ TypeOK /\ op[r].step = "send" /\ Counted /\ Goto(r, [step |-> "tell", u |-> u, to |-> to])
      /\ u \in User /\ to \in SUBSET User /\ d \in Day /\ op[r] # NoOp
  <2>1. /\ TypeOK /\ op[r].step = "send" /\ Counted
        /\ Goto(r, [step |-> "tell", u |-> u, to |-> to])
    BY <1>1 DEF IInv, CreateMessages
  <2> QED
    BY <1>1, <2>1, Typed, Shapes, NoOpFacts
<1>13. PICK e : e = [day |-> d, state |-> "unread"]
  OBVIOUS
<1>3. e \in Msg /\ e.day = d
  BY <1>2, <1>13 DEF Msg
<1>4. /\ message \in [User -> [User -> Seq(Msg)]] /\ message[u] \in [User -> Seq(Msg)]
      /\ quota \in [User -> [Day -> Nat]] /\ recipient \in [User -> [User -> [Day -> Nat]]]
      /\ quota[u] \in [Day -> Nat] /\ recipient[u] \in [User -> [Day -> Nat]]
  BY <1>2 DEF TypeOK, Msg
<1>5. /\ \A w \in User : w # u => message'[w] = message[w]
      /\ \A v \in User : message'[u][v] =
                            IF v \in to THEN Append(message[u][v], e) ELSE message[u][v]
  <2>1. message' = [message EXCEPT ![u] = [v \in User |->
          IF v \in to THEN Append(message[u][v], e) ELSE message[u][v]]]
    BY <1>1, <1>2, <1>4, <1>13 DEF CreateMessages
  <2> QED
    BY <1>2, <1>4, <2>1
<1>6. \A w \in User, x \in Day :
         quota'[w][x] = quota[w][x] + (IF w = u /\ x = d THEN Cardinality(to) ELSE 0)
  <2>1. quota' = [quota EXCEPT ![u][d] = @ + Cardinality(to)]
    BY <1>1 DEF CreateMessages
  <2>2. \A w \in User, x \in Day : quota[w][x] \in Nat
    BY <1>4
  <2>3. \A w \in User, x \in Day : quota'[w][x] =
           IF w = u /\ x = d THEN quota[w][x] + Cardinality(to) ELSE quota[w][x]
    BY <1>2, <1>4, <2>1
  <2> QED
    BY <2>2, <2>3
<1>7. \A w, v \in User : \A x \in Day : recipient'[w][v][x] =
         recipient[w][v][x] + (IF w = u /\ v \in to /\ x = d THEN 1 ELSE 0)
  <2>1. recipient' = [recipient EXCEPT ![u] = [v \in User |-> [x \in Day |->
          recipient[u][v][x] + (IF v \in to /\ x = d THEN 1 ELSE 0)]]]
    BY <1>1, <1>2, <1>4 DEF CreateMessages
  <2>2. \A w, v \in User : \A x \in Day : recipient[w][v][x] \in Nat
    BY <1>2, OwnRows
  <2>3. \A w \in User : w # u => recipient'[w] = recipient[w]
    BY <1>4, <2>1
  <2>4. \A v \in User, x \in Day : recipient'[u][v][x] =
           recipient[u][v][x] + (IF v \in to /\ x = d THEN 1 ELSE 0)
    BY <1>2, <1>4, <2>1
  <2> QED
    BY <2>2, <2>3, <2>4
<1>8. told' = told /\ disturbed' = disturbed
  BY DEF CreateMessages, Counted
<1>9. IsFiniteSet(to) /\ Cardinality(to) \in Nat
  BY <1>2, FriendsAssumption, FS_Subset, FS_CardinalityType
<1>10. \A v \in User : /\ Len(message[u][v]) \in Nat
                       /\ Len(message'[u][v]) = Len(message[u][v]) + One(v \in to)
                       /\ \A x : OfDay(message'[u][v], x) =
                                   IF v \in to /\ x = d
                                   THEN OfDay(message[u][v], x) \cup {Len(message[u][v]) + 1}
                                   ELSE OfDay(message[u][v], x)
                       /\ \A x : Len(message[u][v]) + 1 \notin OfDay(message[u][v], x)
  <2> SUFFICES ASSUME NEW v \in User
               PROVE  /\ Len(message[u][v]) \in Nat
                      /\ Len(message'[u][v]) = Len(message[u][v]) + One(v \in to)
                      /\ \A x : OfDay(message'[u][v], x) =
                                   IF v \in to /\ x = d
                                   THEN OfDay(message[u][v], x) \cup {Len(message[u][v]) + 1}
                                   ELSE OfDay(message[u][v], x)
                      /\ \A x : Len(message[u][v]) + 1 \notin OfDay(message[u][v], x)
    OBVIOUS
  <2>1. PICK s \in Seq(Msg) : s = message[u][v]
    BY <1>4
  <2>3. \A x : /\ OfDay(Append(s, e), x) =
                    IF x = d THEN OfDay(s, x) \cup {Len(s) + 1} ELSE OfDay(s, x)
               /\ Len(s) + 1 \notin OfDay(s, x)
    BY <1>3, OneMessage
  <2>4. Len(Append(s, e)) = Len(s) + 1 /\ Len(s) \in Nat
    BY <1>3, OneMessage
  <2>5. message'[u][v] = IF v \in to THEN Append(s, e) ELSE s
    BY <1>5, <2>1
  <2>6. Len(message'[u][v]) = Len(message[u][v]) + One(v \in to)
    <3>1. CASE v \in to
      BY <2>1, <2>4, <2>5, <3>1 DEF One
    <3>2. CASE v \notin to
      BY <2>1, <2>4, <2>5, <3>2 DEF One
    <3> QED
      BY <3>1, <3>2
  <2>7. ASSUME NEW x
        PROVE  OfDay(message'[u][v], x) =
                    IF v \in to /\ x = d THEN OfDay(message[u][v], x) \cup {Len(message[u][v]) + 1}
                    ELSE OfDay(message[u][v], x)
    <3>1. OfDay(Append(s, e), x) = IF x = d THEN OfDay(s, x) \cup {Len(s) + 1} ELSE OfDay(s, x)
      BY <2>3
    <3> QED
      BY <2>1, <2>5, <3>1
  <2> QED
    BY <2>1, <2>3, <2>4, <2>6, <2>7
<1>11. QuotasCount'
  <2> SUFFICES ASSUME NEW w \in User, NEW x \in Day
               PROVE  /\ IsFiniteSet(SentOn(message'[w], x))
                      /\ quota'[w][x] = Cardinality(SentOn(message'[w], x))
                      /\ \A v \in User :
                            /\ IsFiniteSet(OfDay(message'[w][v], x))
                            /\ recipient'[w][v][x] = Cardinality(OfDay(message'[w][v], x))
    BY DEF QuotasCount
  <2>1. /\ IsFiniteSet(SentOn(message[w], x))
        /\ quota[w][x] = Cardinality(SentOn(message[w], x)) /\ quota[w][x] \in Nat
        /\ \A v \in User : /\ IsFiniteSet(OfDay(message[w][v], x))
                           /\ recipient[w][v][x] = Cardinality(OfDay(message[w][v], x))
                           /\ recipient[w][v][x] \in Nat
    BY <1>2, OwnRows DEF MInv, QuotasCount
  <2>2. CASE w # u
    BY <1>5, <1>6, <1>7, <2>1, <2>2
  <2>3. CASE w = u
    <3>1. /\ IsFiniteSet(SentOn(message'[u], x))
          /\ Cardinality(SentOn(message'[u], x)) = Cardinality(SentOn(message[u], x))
                                                   + (IF d = x THEN Cardinality(to) ELSE 0)
      <4>1. PICK m, n : m = message[u] /\ n = message'[u]
        BY <1>4
      <4>2. Appended(m, n, to, e)
        BY <1>4, <1>5, <4>1 DEF Appended
      <4>3. IsFiniteSet(SentOn(m, x))
        BY <2>1, <2>3, <4>1
      <4>4. /\ IsFiniteSet(SentOn(n, x))
            /\ Cardinality(SentOn(n, x)) =
                 Cardinality(SentOn(m, x)) + (IF e.day = x THEN Cardinality(to) ELSE 0)
        <5>1. to \in SUBSET User /\ e \in Msg
          BY <1>2, <1>3
        <5> QED
          BY <4>2, <4>3, <5>1, MoreMessages
      <4> QED
        BY <1>3, <4>1, <4>4
    <3>2. ASSUME NEW v \in User
          PROVE  /\ IsFiniteSet(OfDay(message'[u][v], x))
                 /\ recipient'[u][v][x] = Cardinality(OfDay(message'[u][v], x))
      <4>1. PICK S, k : S = OfDay(message[u][v], x) /\ k = Len(message[u][v]) + 1
        OBVIOUS
      <4>2. /\ OfDay(message'[u][v], x) = IF v \in to /\ x = d THEN S \cup {k} ELSE S
            /\ k \notin S
        BY <1>10, <4>1
      <4>3. IsFiniteSet(S) /\ recipient[u][v][x] = Cardinality(S) /\ recipient[u][v][x] \in Nat
        BY <2>1, <2>3, <4>1
      <4>4. IsFiniteSet(S \cup {k}) /\ Cardinality(S \cup {k}) = Cardinality(S) + 1
        BY <4>2, <4>3, FS_AddElement
      <4>5. recipient'[u][v][x] = recipient[u][v][x] + (IF v \in to /\ x = d THEN 1 ELSE 0)
        BY <1>2, <1>7
      <4> QED
        BY <4>2, <4>3, <4>4, <4>5
    <3> QED
      BY <1>2, <1>6, <2>1, <2>3, <3>1, <3>2
  <2> QED
    BY <2>2, <2>3
<1>12. Sending'
  <2> SUFFICES ASSUME ~disturbed'
               PROVE  /\ \A q \in Request : Fits(op[q])'
                      /\ \A w \in User, x \in Day :
                            /\ quota'[w][x] <= DailyLimit(w)
                            /\ \A v \in User : recipient'[w][v][x] <= PerRecipient
                      /\ \A w, v \in User :
                            told'[w][v] + One(\E q \in Request : Telling(op'[q], w, v))
                               = Len(message'[w][v])
    BY DEF Sending, DailyLimit, Telling
  <2>1. /\ ~disturbed /\ \A q \in Request : q # r => op[q] = NoOp
    BY <1>2, <1>8, Alone DEF IInv
  <2>2. /\ op'[r] = [step |-> "tell", u |-> u, to |-> to]
        /\ \A q \in Request : q # r => op'[q] = NoOp
    BY <1>2, <2>1, Going
  <2>3. ASSUME NEW q \in Request PROVE Fits(op[q])'
    <3>1. op'[q].step # "send"
      BY <2>2, NoOpFacts
    <3> QED
      BY <3>1 DEF Fits
  <2>4. /\ quota[u][d] + Cardinality(to) <= DailyLimit(u)
        /\ \A v \in to : recipient[u][v][d] + 1 <= PerRecipient
    BY <1>1, <1>2, <2>1 DEF MInv, Sending, Fits
  <2>5. \A w \in User, x \in Day : /\ quota[w][x] <= DailyLimit(w)
                                   /\ \A v \in User : recipient[w][v][x] <= PerRecipient
    BY <2>1 DEF MInv, Sending
  <2>6. \A w \in User, x \in Day : quota'[w][x] <= DailyLimit(w)
    BY <1>2, <1>6, <1>9, <2>4, <2>5, OwnRows
  <2>7. \A w, v \in User : \A x \in Day : recipient'[w][v][x] <= PerRecipient
    <3> SUFFICES ASSUME NEW w \in User, NEW v \in User, NEW x \in Day
                 PROVE  recipient'[w][v][x] <= PerRecipient
      OBVIOUS
    <3>1. /\ recipient'[w][v][x] = recipient[w][v][x] + (IF w = u /\ v \in to /\ x = d THEN 1 ELSE 0)
          /\ recipient[w][v][x] \in Nat /\ recipient[w][v][x] <= PerRecipient
      BY <1>2, <1>7, <2>5, OwnRows
    <3>2. CASE w = u /\ v \in to /\ x = d
      BY <2>4, <3>1, <3>2
    <3>3. CASE ~(w = u /\ v \in to /\ x = d)
      BY <3>1, <3>3
    <3> QED
      BY <3>2, <3>3
  <2>8. ASSUME NEW w \in User, NEW v \in User
        PROVE  told'[w][v] + One(\E q \in Request : Telling(op'[q], w, v)) = Len(message'[w][v])
    <3>1. ~\E q \in Request : Telling(op[q], w, v)
      BY <1>2, <2>1, NoOpFacts DEF Telling
    <3>2. told[w][v] + One(\E q \in Request : Telling(op[q], w, v)) = Len(message[w][v])
      BY <2>1 DEF MInv, Sending
    <3>3. told[w][v] = Len(message[w][v]) /\ told[w][v] \in Nat
      BY <1>2, <3>1, <3>2, OwnRows DEF One
    <3>4. (\E q \in Request : Telling(op'[q], w, v)) <=> w = u /\ v \in to
      BY <2>2, NoOpFacts DEF Telling
    <3>5. Len(message'[w][v]) = Len(message[w][v]) + One(w = u /\ v \in to)
      <4>1. CASE w = u
        <5>1. Len(message'[u][v]) = Len(message[u][v]) + One(v \in to)
          BY <1>10
        <5> QED
          BY <4>1, <5>1 DEF One
      <4>2. CASE w # u
        BY <1>5, <3>3, <4>2 DEF One
      <4> QED
        BY <4>1, <4>2
    <3> QED
      BY <1>8, <3>3, <3>4, <3>5 DEF One
  <2> QED
    BY <2>3, <2>6, <2>7, <2>8
<1> QED
  BY <1>11, <1>12 DEF MInv

\* Every recipient has the event of his message.
LEMMA TellCounted ==
    ASSUME IInv, MInv, NEW r \in Request, TellRecipients(r) PROVE MInv'
<1>1. PICK u, to : u = op[r].u /\ to = op[r].to
  OBVIOUS
<1>2. /\ TypeOK /\ op[r].step = "tell" /\ Counted /\ Goto(r, NoOp)
      /\ u \in User /\ to \in SUBSET User /\ op[r] # NoOp
  <2>1. TypeOK /\ op[r].step = "tell" /\ Counted /\ Goto(r, NoOp)
    BY DEF IInv, TellRecipients
  <2> QED
    BY <1>1, <2>1, Typed, Shapes, NoOpFacts
<1>3. /\ UNCHANGED message /\ UNCHANGED quota /\ UNCHANGED recipient /\ disturbed' = disturbed
  BY DEF TellRecipients, Counted
<1>4. \A w, v \in User : /\ told'[w][v] = told[w][v] + One(w = u /\ v \in to)
                         /\ told[w][v] \in Nat
  <2>1. told \in [User -> [User -> Nat]]
    BY <1>2 DEF TypeOK
  <2>2. told' = [told EXCEPT ![u] = [v \in User |-> told[u][v] + (IF v \in to THEN 1 ELSE 0)]]
    BY <1>1, <1>2, <2>1 DEF TellRecipients
  <2>3. \A w \in User : w # u => told'[w] = told[w]
    BY <2>1, <2>2
  <2>4. \A v \in User : told'[u][v] = told[u][v] + (IF v \in to THEN 1 ELSE 0)
    BY <1>2, <2>1, <2>2
  <2> QED
    BY <2>1, <2>3, <2>4 DEF One
<1>5. QuotasCount'
  BY <1>3 DEF MInv, QuotasCount
<1>6. Sending'
  <2> SUFFICES ASSUME ~disturbed'
               PROVE  /\ \A q \in Request : Fits(op[q])'
                      /\ \A w \in User, x \in Day :
                            /\ quota'[w][x] <= DailyLimit(w)
                            /\ \A v \in User : recipient'[w][v][x] <= PerRecipient
                      /\ \A w, v \in User :
                            told'[w][v] + One(\E q \in Request : Telling(op'[q], w, v))
                               = Len(message'[w][v])
    BY DEF Sending, DailyLimit, Telling
  <2>1. /\ ~disturbed /\ \A q \in Request : q # r => op[q] = NoOp
    BY <1>2, <1>3, Alone DEF IInv
  <2>2. \A q \in Request : op'[q] = NoOp
    BY <1>2, <2>1, Going
  <2>3. ASSUME NEW q \in Request PROVE Fits(op[q])'
    <3>1. op'[q].step # "send"
      BY <2>2, NoOpFacts
    <3> QED
      BY <3>1 DEF Fits
  <2>4. \A w \in User, x \in Day : /\ quota'[w][x] <= DailyLimit(w)
                                   /\ \A v \in User : recipient'[w][v][x] <= PerRecipient
    BY <1>3, <2>1 DEF MInv, Sending
  <2>5. ASSUME NEW w \in User, NEW v \in User
        PROVE  told'[w][v] + One(\E q \in Request : Telling(op'[q], w, v)) = Len(message'[w][v])
    <3>1. (\E q \in Request : Telling(op[q], w, v)) <=> w = u /\ v \in to
      BY <1>1, <1>2, <2>1, NoOpFacts DEF Telling
    <3>2. told[w][v] + One(\E q \in Request : Telling(op[q], w, v)) = Len(message[w][v])
      BY <2>1 DEF MInv, Sending
    <3>3. ~\E q \in Request : Telling(op'[q], w, v)
      BY <2>2, NoOpFacts DEF Telling
    <3> QED
      BY <1>3, <1>4, <3>1, <3>2, <3>3 DEF One
  <2> QED
    BY <2>3, <2>4, <2>5
<1> QED
  BY <1>5, <1>6 DEF MInv

\* At first there is no message.
LEMMA MInit == Init => MInv
<1> SUFFICES ASSUME Init PROVE MInv
  OBVIOUS
<1>1. /\ message = [u \in User |-> [v \in User |-> <<>>]]
      /\ quota = [u \in User |-> [d \in Day |-> 0]]
      /\ recipient = [u \in User |-> [v \in User |-> [d \in Day |-> 0]]]
      /\ told = [u \in User |-> [v \in User |-> 0]]
      /\ op = [r \in Request |-> NoOp]
  BY DEF Init, FriendsInit
<1>2. \A d : OfDay(<<>>, d) = {}
  BY DEF OfDay
<1>3. \A u \in User : \A d : SentOn(message[u], d) = {}
  BY <1>1, <1>2 DEF SentOn
<1>4. QuotasCount
  BY <1>1, <1>2, <1>3, FS_EmptySet DEF QuotasCount
<1>5. \A u, v \in User : ~\E r \in Request : Telling(op[r], u, v)
  BY <1>1, NoOpFacts DEF Telling
<1>6. \A r \in Request : Fits(op[r])
  BY <1>1, NoOpFacts DEF Fits
<1>7. \A u, v \in User : told[u][v] = 0 /\ Len(message[u][v]) = 0
  BY <1>1
<1>8. \A u \in User, d \in Day : /\ quota[u][d] <= DailyLimit(u)
                                 /\ \A v \in User : recipient[u][v][d] <= PerRecipient
  BY <1>1, MessagesAssumption DEF DailyLimit
<1>9. Sending
  BY <1>5, <1>6, <1>7, <1>8 DEF Sending, One
<1> QED
  BY <1>4, <1>9 DEF MInv

LEMMA MNext == IInv /\ MInv /\ [Next]_vars => MInv'
<1> SUFFICES ASSUME IInv, MInv, [Next]_vars PROVE MInv'
  OBVIOUS
<1>1. UNCHANGED own => SameMessages
  BY DEF own, SameMessages
<1>2. CASE UNCHANGED vars
  <2>1. UNCHANGED own /\ op' = op /\ disturbed' = disturbed
    BY <1>2 DEF vars, friendsVars
  <2> QED
    BY <1>1, <2>1, ElsewhereInv DEF Elsewhere
<1>3. CASE FriendsNext /\ UNCHANGED own
  BY <1>1, <1>3, FriendsElsewhere, ElsewhereInv
<1>4. ASSUME NEW r \in Request, CreateMessages(r) \/ TellRecipients(r) PROVE MInv'
  BY <1>4, CreateMessagesCounted, TellCounted
<1>5. ASSUME NEW r \in Request, NEW u \in User, NEW to \in SUBSET User, Send(r, u, to)
      PROVE  MInv'
  BY <1>5, SendCounted
<1>6. ASSUME NEW r \in Request, NEW u \in User, NEW v \in User,
             NEW i \in DOMAIN message[v][u], Read(r, u, v, i) \/ Remove(r, u, v, i)
      PROVE  MInv'
  BY <1>6, MarkCounted
<1> QED
  BY <1>2, <1>3, <1>4, <1>5, <1>6 DEF Next

\* However sends overlap, die and are read or hidden, both quotas of a day count
\* the messages of that day; and requests that do not overlap never pass either
\* quota and leave the event of each message.
THEOREM MessagesCounted == Spec => []MessagesAccounted
<1>1. IInv /\ MInv => MessagesAccounted
  <2> SUFFICES ASSUME IInv, MInv, NEW u \in User, NEW d \in Day
               PROVE  /\ quota[u][d] = Cardinality(SentOn(message[u], d))
                      /\ \A v \in User : recipient[u][v][d] = Cardinality(OfDay(message[u][v], d))
                      /\ Quiet /\ ~disturbed =>
                            /\ quota[u][d] <= DailyLimit(u)
                            /\ \A v \in User : /\ recipient[u][v][d] <= PerRecipient
                                               /\ told[u][v] = Len(message[u][v])
    BY DEF MessagesAccounted
  <2>1. /\ quota[u][d] = Cardinality(SentOn(message[u], d))
        /\ \A v \in User : recipient[u][v][d] = Cardinality(OfDay(message[u][v], d))
    BY DEF MInv, QuotasCount
  <2>2. ASSUME Quiet, ~disturbed
        PROVE  /\ quota[u][d] <= DailyLimit(u)
               /\ \A v \in User : recipient[u][v][d] <= PerRecipient
    BY <2>2 DEF MInv, Sending
  <2>3. ASSUME Quiet, ~disturbed, NEW v \in User PROVE told[u][v] = Len(message[u][v])
    <3>1. ~\E r \in Request : Telling(op[r], u, v)
      BY <2>3, NoOpFacts DEF Quiet, Telling
    <3>2. told[u][v] + One(\E r \in Request : Telling(op[r], u, v)) = Len(message[u][v])
      BY <2>3 DEF MInv, Sending
    <3>3. told[u][v] \in Nat
      BY OwnRows DEF IInv
    <3> QED
      BY <3>1, <3>2, <3>3 DEF One
  <2> QED
    BY <2>1, <2>2, <2>3
<1>2. Spec => []MInv
  BY MInit, MNext, InductiveInvariant, PTL DEF Spec
<1> QED
  BY <1>1, <1>2, InductiveInvariant, PTL
=============================================================================
