--------------------------- MODULE ChallengeProofs ---------------------------
(***************************************************************************)
(* Proofs about Challenge, for every set of challenges, users and          *)
(* requests, every goal, window, target and cap, and every bound.          *)
(***************************************************************************)
EXTENDS Challenge, FiniteSetTheorems, TLAPS

\* What u has done that counts for c.
Counted(c, u) == Cardinality(work[u] \ base[c][u])

\* What a request in progress may rely on when it is doing o.
\*   - The three transactions that take the row lock hold it until they commit,
\*     and the status they found stays: what else changes it waits for the lock.
\*   - Between the decision to end and its commit, nothing makes it wrong.
\*   - Progress is computed on challenges that have started, whose baseline is
\*     final, and a value not yet written is below what has been done.
OpSound(r, o) ==
    /\ o.kind \in {"activate", "finish", "pay"} => lock[o.c] = r
    /\ o.kind = "activate" => status[o.c] = "pending"
    /\ o.kind \in {"finish", "pay"} =>
          /\ status[o.c] = "active"
          /\ \/ now >= EndsAt
             \/ \A u \in InState(o.c, "accepted") : Counted(o.c, u) >= Target
    /\ o.kind = "refresh" =>
          /\ status[o.c] \in {"active"} \cup Closed
          /\ o.at <= now
          /\ o.u # Nobody => o.value <= Counted(o.c, o.u)

RequestsSound == \A r \in Request : OpSound(r, op[r])

\* Before its activation a challenge has no progress, before its completion no
\* reward, and only the sourates have a baseline.
RowsSound ==
    \A c \in Challenge, u \in User :
        /\ status[c] \in {"absent", "pending"} => progress[c][u] = 0
        /\ status[c] # "completed" => paid[c][u] = <<>>
        /\ ~Snapshot => base[c][u] = {}

\* The inductive invariant.
IInv == TypeOK /\ RequestsSound /\ RowsSound /\ ProgressIsEarned /\ NobodyLeftInvited

-----------------------------------------------------------------------------
(* What the operators compute *)

\* A finite set of naturals, given by a bound, has a greatest element.
LEMMA MaxOfBounded ==
    ASSUME NEW k \in Nat, NEW S \in SUBSET (0..k), S # {}
    PROVE  Max(S) \in S
<1> DEFINE Above == {(m + 1)..k : m \in S}
           R == StrictSubsetOrdering(0..k)
<1>1. IsWellFoundedOn(R, FiniteSubsetsOf(0..k))
  BY FS_StrictSubsetOrderingWellFounded
<1>2. Above \subseteq FiniteSubsetsOf(0..k)
  <2>1. ASSUME NEW m \in S PROVE (m + 1)..k \in FiniteSubsetsOf(0..k)
    <3>1. m + 1 \in Int /\ k \in Int /\ (m + 1)..k \subseteq 0..k
      OBVIOUS
    <3> QED
      BY <3>1, FS_Interval DEF FiniteSubsetsOf
  <2> QED
    BY <2>1
<1>3. PICK m \in S : \A n \in S : <<(n + 1)..k, (m + 1)..k>> \notin R
  <2>0. Above # {}
    OBVIOUS
  <2> HIDE DEF R, Above
  <2>1. PICK x \in Above : \A y \in Above : ~ (<<y, x>> \in R)
    BY <1>1, <1>2, <2>0, WFMin
  <2> USE DEF Above
  <2> QED
    BY <2>1
<1>4. ASSUME NEW n \in S, n > m PROVE FALSE
  <2>1. /\ (n + 1)..k \in SUBSET (0..k) /\ (m + 1)..k \in SUBSET (0..k)
        /\ (n + 1)..k \subseteq (m + 1)..k
    BY <1>4
  <2>2. n \in (m + 1)..k /\ n \notin (n + 1)..k
    BY <1>4
  <2>3. (n + 1)..k # (m + 1)..k
    BY <2>2
  <2>4. <<(n + 1)..k, (m + 1)..k>> \in R
    BY <2>1, <2>3 DEF StrictSubsetOrdering
  <2> QED
    BY <2>4, <1>3
<1>5. \A n \in S : m >= n
  BY <1>4
<1> QED
  BY <1>5 DEF Max

\* The units of the window are finitely many, so are those anyone has done.
LEMMA UnitsAreFinite ==
    /\ IsFiniteSet(Unit)
    /\ \A W \in SUBSET Unit : /\ IsFiniteSet(W)
                              /\ Cardinality(W) \in Progress
                              /\ Cardinality(W) \in Nat
<1>1. IsFiniteSet(Unit)
  <2>1. 1 \in Int /\ MaxWork \in Int /\ StartsAt \in Int /\ EndsAt \in Int
    BY ChallengeAssumption
  <2> QED
    BY <2>1, FS_Interval DEF Unit
<1>2. Cardinality(Unit) \in Nat
  BY <1>1, FS_CardinalityType
<1>3. ASSUME NEW W \in SUBSET Unit
      PROVE  IsFiniteSet(W) /\ Cardinality(W) \in Nat /\ Cardinality(W) <= Cardinality(Unit)
  BY <1>1, <1>3, FS_Subset, FS_CardinalityType
<1> QED
  BY <1>1, <1>2, <1>3 DEF Progress

\* What counts for a challenge grows with what is done.
LEMMA CountGrows ==
    ASSUME NEW V \in SUBSET Unit, NEW W \in SUBSET V, NEW B
    PROVE  /\ Cardinality(W \ B) \in Nat /\ Cardinality(V \ B) \in Nat
           /\ Cardinality(W \ B) <= Cardinality(V \ B)
<1>1. V \ B \in SUBSET Unit /\ W \ B \in SUBSET Unit /\ W \ B \in SUBSET (V \ B)
  OBVIOUS
<1>2. IsFiniteSet(V \ B) /\ Cardinality(W \ B) \in Nat /\ Cardinality(V \ B) \in Nat
  BY <1>1, UnitsAreFinite
<1> QED
  BY <1>1, <1>2, FS_Subset

\* The progress computed for a participant is at most what counts for him: a run
\* of days is not longer than the days, and no sourate of the baseline counts.
LEMMA EarnedBound ==
    ASSUME TypeOK, NEW c \in Challenge, NEW u \in User, ~Snapshot => base[c][u] = {}
    PROVE  /\ Earned(c, u) \in Progress
           /\ Earned(c, u) \in Nat
           /\ Earned(c, u) <= Counted(c, u)
           /\ Counted(c, u) \in Nat
<1>1. work[u] \in SUBSET Unit /\ work[u] \ base[c][u] \in SUBSET Unit
  BY DEF TypeOK
<1>2. CASE Snapshot
  BY <1>1, <1>2, UnitsAreFinite DEF Earned, Counted, SourateProgressCount
<1>3. CASE ~Snapshot
  <2> DEFINE k == Cardinality(work[u])
             S == {0} \cup {n \in 1..k : \E d \in work[u] : d..(d + n - 1) \subseteq work[u]}
  <2>1. k \in Nat /\ k \in Progress
    BY <1>1, UnitsAreFinite
  <2>2. S \in SUBSET (0..k) /\ S # {}
    BY <2>1
  <2>3. Max(S) \in 0..k
    BY <2>1, <2>2, MaxOfBounded
  <2>4. Earned(c, u) = Max(S)
    BY <1>3 DEF Earned, LongestStreak
  <2>5. Counted(c, u) = k
    <3>1. work[u] \ base[c][u] = work[u]
      BY <1>3
    <3> QED
      BY <3>1 DEF Counted
  <2>6. Cardinality(Unit) \in Nat
    BY UnitsAreFinite
  <2> QED
    BY <2>1, <2>3, <2>4, <2>5, <2>6 DEF Progress
<1> QED
  BY <1>2, <1>3

\* What a request has read is typed by what it is doing.
LEMMA Shapes ==
    ASSUME NEW o \in Ops
    PROVE  /\ o.kind # "none" => o.c \in Challenge
           /\ o.kind \in {"accept", "decline", "cancel", "nudge", "leave"} => o.u \in User
           /\ o.kind = "activate" => o.accepted \in SUBSET User
           /\ o.kind = "finish" => o.winners \in SUBSET User /\ o.eligible \in SUBSET User
           /\ o.kind = "pay" => o.winners \in SUBSET User /\ o.payees \in SUBSET User
           /\ o.kind = "refresh" =>
                 /\ o.at \in Time /\ o.u \in User \cup {Nobody} /\ o.value \in Progress
                 /\ DOMAIN o.rows \in SUBSET User
                 /\ o.rows \in [DOMAIN o.rows -> [progress : Progress, reachedAt : Time \cup {Never}]]
BY DEF Ops, NoOp, Rows

-----------------------------------------------------------------------------
(* The steps *)

\* Before the challenge is created.
LEMMA InitInv == Init => IInv
<1> SUFFICES ASSUME Init PROVE IInv
  OBVIOUS
<1>1. Cardinality(Unit) \in Nat /\ 0 \in Progress
  BY UnitsAreFinite DEF Progress
<1>2. TypeOK
  BY <1>1, ChallengeAssumption DEF Init, TypeOK, Time, Ops
<1> QED
  BY <1>2 DEF Init, IInv, RequestsSound, OpSound, RowsSound, ProgressIsEarned,
              NobodyLeftInvited, InState, NoOp

\* A step that changes what r is doing and nothing else keeps the invariant if
\* what r does next is sound.
LEMMA OpStepInv ==
    ASSUME IInv, NEW r \in Request, NEW o \in Ops, OpSound(r, o),
           op' = [op EXCEPT ![r] = o],
           UNCHANGED <<now, status, creator, winners, rowVars, paid, work, lock>>,
           nudged' \in [Challenge -> SUBSET User], aborts' \in 0..MaxAborts
    PROVE  IInv'
<1>1. TypeOK'
  BY DEF IInv, TypeOK, rowVars
<1>2. ASSUME NEW q \in Request PROVE OpSound(q, op[q])'
  <2>1. op'[q] = IF q = r THEN o ELSE op[q]
    BY DEF IInv, TypeOK
  <2>2. OpSound(q, op'[q])
    BY <2>1 DEF IInv, RequestsSound
  <2> QED
    BY <2>2 DEF OpSound, Counted, InState, rowVars
<1>3. RowsSound' /\ ProgressIsEarned' /\ NobodyLeftInvited'
  BY DEF IInv, RowsSound, ProgressIsEarned, NobodyLeftInvited, InState, rowVars
<1> QED
  BY <1>1, <1>2, <1>3 DEF IInv, RequestsSound

\* Requests that read first and write later.
LEMMA ReadInv ==
    ASSUME IInv, NEW r \in Request, NEW c \in Challenge, NEW u \in User,
           \/ AcceptRead(r, c, u) \/ DeclineRead(r, c, u)
           \/ LeaveRead(r, c, u) \/ CancelRead(r, c, u)
           \/ \E v \in User : NudgeRead(r, c, u, v)
    PROVE  IInv'
<1>1. ASSUME NEW o, o \in Ops, With(r, o), o.kind \notin {"activate", "finish", "pay", "refresh"},
             UNCHANGED <<now, chalVars, rowVars, paid, work, lock, aborts>>
      PROVE  IInv'
  <2>1. nudged' \in [Challenge -> SUBSET User] /\ aborts' \in 0..MaxAborts
    BY <1>1 DEF IInv, TypeOK, chalVars
  <2>2. OpSound(r, o)
    BY <1>1 DEF OpSound
  <2> QED
    BY <1>1, <2>1, <2>2, OpStepInv DEF With, chalVars
<1>2. \A k \in {"accept", "decline", "cancel", "nudge"}, v \in User :
          [kind |-> k, c |-> c, u |-> v] \in Ops
  BY DEF Ops
<1>3. CASE AcceptRead(r, c, u)
  BY <1>1, <1>2, <1>3 DEF AcceptRead
<1>4. CASE DeclineRead(r, c, u)
  BY <1>1, <1>2, <1>4 DEF DeclineRead
<1>5. CASE LeaveRead(r, c, u)
  <2>1. [kind |-> "leave", c |-> c, u |-> u, seen |-> status[c]] \in Ops
    BY <1>5 DEF LeaveRead, Ops
  <2> QED
    BY <1>1, <2>1, <1>5 DEF LeaveRead
<1>6. CASE CancelRead(r, c, u)
  BY <1>1, <1>2, <1>6 DEF CancelRead
<1>7. CASE \E v \in User : NudgeRead(r, c, u, v)
  BY <1>1, <1>2, <1>7 DEF NudgeRead
<1> QED
  BY <1>3, <1>4, <1>5, <1>6, <1>7

\* A refresh reads the participants of a challenge that is running.
LEMMA RefreshReadInv ==
    ASSUME IInv, NEW r \in Request, NEW c \in Challenge, NEW who, NEW at \in Time,
           RefreshRead(r, c, who, at)
    PROVE  IInv'
<1> DEFINE S == InState(c, "accepted") \cap who
           rows == [u \in S |-> [progress |-> progress[c][u], reachedAt |-> reachedAt[c][u]]]
           o == [kind |-> "refresh", c |-> c, at |-> at, rows |-> rows, u |-> Nobody, value |-> 0]
<1>1. S \in SUBSET User
  BY DEF InState
<1>2. rows \in Rows
  <2>1. \A u \in User : progress[c][u] \in Progress /\ reachedAt[c][u] \in Time \cup {Never}
    BY DEF IInv, TypeOK
  <2>2. rows \in [S -> [progress : Progress, reachedAt : Time \cup {Never}]]
    BY <1>1, <2>1
  <2> QED
    BY <1>1, <2>2 DEF Rows
<1>3. o \in Ops
  <2>1. 0 \in Progress
    BY UnitsAreFinite DEF Progress
  <2> HIDE DEF rows
  <2> QED
    BY <1>2, <2>1 DEF Ops
<1>4. op' = [op EXCEPT ![r] = o] /\ status[c] = "active" /\ at <= now
  BY DEF RefreshRead, With
<1> HIDE DEF rows
<1>5. OpSound(r, o)
  BY <1>4 DEF OpSound
<1>6. nudged' \in [Challenge -> SUBSET User] /\ aborts' \in 0..MaxAborts
  BY DEF RefreshRead, IInv, TypeOK, chalVars
<1> HIDE DEF o
<1> QED
  BY <1>3, <1>4, <1>5, <1>6, OpStepInv DEF RefreshRead, chalVars

\* A refresh goes on to the next participant with nothing computed.
LEMMA NextOpSound ==
    ASSUME IInv, NEW r \in Request, op[r].kind = "refresh", NEW u \in User
    PROVE  LET o == [op[r] EXCEPT !.rows = [v \in DOMAIN @ \ {u} |-> @[v]],
                                  !.u = Nobody, !.value = 0]
           IN  /\ o \in Ops
               /\ o.kind = "refresh" /\ o.c = op[r].c /\ o.at = op[r].at /\ o.u = Nobody
<1> DEFINE D == DOMAIN op[r].rows \ {u}
           rows == [v \in D |-> op[r].rows[v]]
           o == [op[r] EXCEPT !.rows = rows, !.u = Nobody, !.value = 0]
<1>1. op[r] \in [kind : {"refresh"}, c : Challenge, at : Time, rows : Rows,
                 u : User \cup {Nobody}, value : Progress]
  <2>1. op[r] \in Ops
    BY DEF IInv, TypeOK
  <2> QED
    BY <2>1 DEF Ops, NoOp
<1>2. rows \in Rows
  <2>1. /\ DOMAIN op[r].rows \in SUBSET User
        /\ op[r].rows \in [DOMAIN op[r].rows -> [progress : Progress, reachedAt : Time \cup {Never}]]
    BY <1>1 DEF Rows
  <2>2. rows \in [D -> [progress : Progress, reachedAt : Time \cup {Never}]]
    BY <2>1
  <2> QED
    BY <2>1, <2>2 DEF Rows
<1>3. 0 \in Progress
  BY UnitsAreFinite DEF Progress
<1> HIDE DEF rows
<1>4. o \in [kind : {"refresh"}, c : Challenge, at : Time, rows : Rows,
             u : User \cup {Nobody}, value : Progress]
  BY <1>1, <1>2, <1>3
<1>5. o.kind = "refresh" /\ o.c = op[r].c /\ o.at = op[r].at /\ o.u = Nobody
  BY <1>1
<1>6. o \in Ops
  BY <1>4 DEF Ops
<1> QED
  BY <1>5, <1>6 DEF rows

\* A computation keeps what it found, or skips to the next participant.
LEMMA ComputeInv ==
    ASSUME IInv, NEW r \in Request, NEW u \in User, Compute(r, u)
    PROVE  IInv'
<1> DEFINE c == op[r].c
           value == Earned(c, u)
           next == [op[r] EXCEPT !.rows = [v \in DOMAIN @ \ {u} |-> @[v]],
                                 !.u = Nobody, !.value = 0]
           kept == [op[r] EXCEPT !.u = u, !.value = value]
<1>1. op[r].kind = "refresh" /\ op[r] \in Ops /\ OpSound(r, op[r])
  BY DEF Compute, IInv, TypeOK, RequestsSound
<1>2. c \in Challenge
  BY <1>1, Shapes
<1>3. nudged' \in [Challenge -> SUBSET User] /\ aborts' \in 0..MaxAborts
  BY DEF Compute, IInv, TypeOK, chalVars
<1>4. op' = [op EXCEPT ![r] = next] \/ op' = [op EXCEPT ![r] = kept]
  BY DEF Compute, NextParticipant, With
<1>5. next \in Ops /\ OpSound(r, next)
  <2>1. /\ next \in Ops /\ next.kind = "refresh" /\ next.c = op[r].c
        /\ next.at = op[r].at /\ next.u = Nobody
    BY <1>1, NextOpSound
  <2> HIDE DEF next
  <2> QED
    BY <1>1, <2>1 DEF OpSound
<1>6. kept \in Ops /\ OpSound(r, kept)
  <2>1. value \in Progress /\ value <= Counted(c, u)
    BY <1>2, EarnedBound DEF IInv, RowsSound
  <2> HIDE DEF value
  <2>2. op[r] \in [kind : {"refresh"}, c : Challenge, at : Time, rows : Rows,
                   u : User \cup {Nobody}, value : Progress]
    BY <1>1 DEF Ops, NoOp
  <2>3. kept \in [kind : {"refresh"}, c : Challenge, at : Time, rows : Rows,
                  u : User \cup {Nobody}, value : Progress]
    BY <2>1, <2>2
  <2>4. kept.kind = "refresh" /\ kept.c = c /\ kept.at = op[r].at /\ kept.u = u /\ kept.value = value
    BY <2>2
  <2> HIDE DEF kept
  <2> QED
    BY <1>1, <2>1, <2>3, <2>4 DEF OpSound, Ops
<1> HIDE DEF next, kept
<1>7. UNCHANGED <<now, status, creator, winners, rowVars, paid, work, lock>>
  BY DEF Compute, chalVars
<1> QED
  BY <1>3, <1>4, <1>5, <1>6, <1>7, OpStepInv

\* What has been earned when it was computed has been earned when it is written.
LEMMA WriteProgressInv ==
    ASSUME IInv, NEW r \in Request, WriteProgress(r)
    PROVE  IInv'
<1> DEFINE c == op[r].c
           u == op[r].u
           next == [op[r] EXCEPT !.rows = [v \in DOMAIN @ \ {u} |-> @[v]],
                                 !.u = Nobody, !.value = 0]
<1>1. op[r].kind = "refresh" /\ op[r] \in Ops /\ OpSound(r, op[r]) /\ u # Nobody
  BY DEF WriteProgress, IInv, TypeOK, RequestsSound
<1>2. c \in Challenge /\ u \in User /\ op[r].value \in Progress /\ op[r].at \in Time
  BY <1>1, Shapes
<1>3. op' = [op EXCEPT ![r] = next] /\ progress' = [progress EXCEPT ![c][u] = op[r].value]
  BY DEF WriteProgress, NextParticipant, With
<1>4. /\ next \in Ops /\ next.kind = "refresh" /\ next.c = c
      /\ next.at = op[r].at /\ next.u = Nobody
  BY <1>1, <1>2, NextOpSound
<1> HIDE DEF next
<1>5. UNCHANGED <<now, chalVars, member, base, paid, work, lock, aborts>>
  BY DEF WriteProgress
<1>6. TypeOK'
  <2>1. reachedAt' \in [Challenge -> [User -> Time \cup {Never}]]
    BY <1>2 DEF WriteProgress, IInv, TypeOK
  <2> QED
    BY <1>2, <1>3, <1>4, <1>5, <2>1 DEF IInv, TypeOK, chalVars
<1>7. RequestsSound'
  <2>1. ASSUME NEW q \in Request PROVE OpSound(q, op'[q])
    BY <1>1, <1>3, <1>4 DEF IInv, TypeOK, RequestsSound, OpSound
  <2> QED
    BY <2>1, <1>5 DEF RequestsSound, OpSound, Counted, InState, chalVars
<1>8. RowsSound' /\ NobodyLeftInvited'
  BY <1>1, <1>2, <1>3, <1>5
     DEF IInv, TypeOK, RowsSound, NobodyLeftInvited, InState, OpSound, Closed, chalVars
<1>9. ProgressIsEarned'
  <2>1. op[r].value <= Counted(c, u)
    BY <1>1 DEF OpSound
  <2> QED
    BY <1>2, <1>3, <1>5, <2>1 DEF IInv, TypeOK, ProgressIsEarned, Counted
<1> QED
  BY <1>6, <1>7, <1>8, <1>9 DEF IInv

\* The answers of the invited, written without looking at the challenge, and the
\* nudge: nobody becomes invited, nor accepted once it has started.
LEMMA AnswerInv ==
    ASSUME IInv, NEW r \in Request, AcceptWrite(r) \/ DeclineWrite(r)
    PROVE  IInv'
<1> DEFINE c == op[r].c
           u == op[r].u
<1>1. /\ c \in Challenge /\ u \in User /\ op[r].kind \in {"accept", "decline"}
      /\ op' = [op EXCEPT ![r] = NoOp]
      /\ UNCHANGED <<now, chalVars, progress, reachedAt, base, paid, work, lock, aborts>>
  <2>1. op[r] \in Ops
    BY DEF IInv, TypeOK
  <2> QED
    BY <2>1, Shapes DEF AcceptWrite, DeclineWrite, Done, With
<1>2. \/ member' = member
      \/ member[c][u] = "invited" /\ member' = [member EXCEPT ![c][u] = "accepted"]
      \/ member' = [member EXCEPT ![c][u] = "declined"]
  BY DEF AcceptWrite, DeclineWrite
<1>a. member \in [Challenge -> [User ->
          {"none", "invited", "accepted", "declined", "left", "expired"}]]
  BY DEF IInv, TypeOK
<1>b. c \in Challenge /\ u \in User
  BY <1>1
<1> HIDE DEF c, u
<1>3. TypeOK'
  <2>1. member' \in [Challenge -> [User ->
            {"none", "invited", "accepted", "declined", "left", "expired"}]]
    BY <1>b, <1>2, <1>a
  <2>2. NoOp \in Ops
    BY DEF Ops
  <2> QED
    BY <1>1, <2>1, <2>2 DEF IInv, TypeOK, chalVars
<1>4. ASSUME NEW d \in Challenge, status[d] \notin {"absent", "pending"}
      PROVE  InState(d, "invited")' = {} /\ InState(d, "accepted")' \subseteq InState(d, "accepted")
  <2>1. \A v \in User : member[d][v] # "invited"
    BY <1>4 DEF IInv, NobodyLeftInvited, InState
  <2>2. ASSUME NEW v \in User
        PROVE  /\ member'[d][v] # "invited"
               /\ member'[d][v] = "accepted" => member[d][v] = "accepted"
    BY <1>b, <1>2, <2>1, <1>a
  <2> QED
    BY <2>2 DEF InState
<1>5. NobodyLeftInvited'
  BY <1>1, <1>4 DEF NobodyLeftInvited, chalVars
<1>6. ASSUME NEW q \in Request PROVE OpSound(q, op[q])'
  <2>1. op'[q] = IF q = r THEN NoOp ELSE op[q]
    BY <1>1 DEF IInv, TypeOK
  <2>2. OpSound(q, op[q]) /\ op[q] \in Ops
    BY DEF IInv, TypeOK, RequestsSound
  <2>3. op[q].kind # "none" => op[q].c \in Challenge
    BY <2>2, Shapes
  <2>4. CASE q = r
    BY <2>1, <2>4 DEF OpSound, NoOp
  <2>5. CASE q # r
    <3>1. op'[q] = op[q]
      BY <2>1, <2>5
    <3>2. op[q].kind \in {"finish", "pay"} =>
             InState(op[q].c, "accepted")' \subseteq InState(op[q].c, "accepted")
      BY <1>4, <2>2, <2>3, <3>1 DEF OpSound, InState
    <3> QED
      BY <1>1, <2>2, <3>1, <3>2 DEF OpSound, Counted, InState, chalVars
  <2> QED
    BY <2>4, <2>5
<1>7. RowsSound' /\ ProgressIsEarned'
  BY <1>1 DEF IInv, RowsSound, ProgressIsEarned, chalVars
<1> QED
  BY <1>3, <1>5, <1>6, <1>7 DEF IInv, RequestsSound

\* A step of r that changes the challenge c, whose row no other request holds.
LEMMA AloneOnChallenge ==
    ASSUME IInv, NEW r \in Request, NEW c \in Challenge,
           lock[c] \in {Nobody, r},
           NEW o \in Ops, op' = [op EXCEPT ![r] = o], OpSound(r, o)',
           UNCHANGED <<now, work>>,
           \A d \in Challenge \ {c} :
               /\ status'[d] = status[d] /\ member'[d] = member[d]
               /\ base'[d] = base[d] /\ lock'[d] = lock[d],
           status[c] \in {"active"} \cup Closed =>
               status'[c] \in {"active"} \cup Closed /\ base'[c] = base[c]
    PROVE  RequestsSound'
<1>1. OpSound(r, op[r])'
  BY DEF IInv, TypeOK
<1>2. ASSUME NEW q \in Request, q # r PROVE OpSound(q, op[q])'
  <2>1. op'[q] = op[q] /\ op[q] \in Ops /\ OpSound(q, op[q])
    BY <1>2 DEF IInv, TypeOK, RequestsSound
  <2>2. op[q].kind # "none" => op[q].c \in Challenge
    BY <2>1, Shapes
  <2>3. q # Nobody
    BY ChallengeAssumption
  <2>4. CASE op[q].kind \in {"activate", "finish", "pay"}
    <3>1. op[q].c \in Challenge \ {c}
      BY <1>2, <2>1, <2>2, <2>3, <2>4 DEF OpSound
    <3> QED
      BY <2>1, <2>4, <3>1 DEF OpSound, InState, Counted
  <2>5. CASE op[q].kind = "refresh"
    <3>1. op[q].c \in Challenge /\ status[op[q].c] \in {"active"} \cup Closed
      BY <2>1, <2>2, <2>5 DEF OpSound
    <3>2. status'[op[q].c] \in {"active"} \cup Closed /\ base'[op[q].c] = base[op[q].c]
      BY <3>1
    <3> QED
      BY <2>1, <2>5, <3>1, <3>2 DEF OpSound, Counted
  <2>6. CASE op[q].kind \notin {"activate", "finish", "pay", "refresh"}
    BY <2>1, <2>6 DEF OpSound
  <2> QED
    BY <2>4, <2>5, <2>6
<1> QED
  BY <1>1, <1>2 DEF RequestsSound

\* A departure and a cancellation decide under the lock.
LEMMA LeaveCancelInv ==
    ASSUME IInv, NEW r \in Request, LeaveWrite(r) \/ CancelWrite(r)
    PROVE  IInv'
<1> DEFINE c == op[r].c
           u == op[r].u
<1>1. /\ c \in Challenge /\ u \in User /\ lock[c] = Nobody
      /\ op' = [op EXCEPT ![r] = NoOp]
      /\ UNCHANGED <<now, creator, winners, nudged, progress, reachedAt, base, paid, work, lock, aborts>>
  <2>1. op[r] \in Ops
    BY DEF IInv, TypeOK
  <2> QED
    BY <2>1, Shapes DEF LeaveWrite, CancelWrite, Done, With, Free
<1>2. \/ /\ member' = [member EXCEPT ![c][u] = "left"]
         /\ \/ status' = status
            \/ status[c] = "active" /\ status' = [status EXCEPT ![c] = "cancelled"]
      \/ /\ status[c] = "pending" /\ status' = [status EXCEPT ![c] = "cancelled"]
         /\ member' = [member EXCEPT ![c] = ExpireInvited(c)]
      \/ UNCHANGED <<status, member>>
  BY DEF LeaveWrite, CancelWrite
<1>3. /\ member \in [Challenge -> [User ->
             {"none", "invited", "accepted", "declined", "left", "expired"}]]
      /\ status \in [Challenge -> {"absent", "pending", "active"} \cup Closed]
  BY DEF IInv, TypeOK
<1>4. NoOp \in Ops /\ OpSound(r, NoOp)'
  BY DEF Ops, OpSound, NoOp
<1> HIDE DEF c, u
<1>5. /\ status' \in [Challenge -> {"absent", "pending", "active"} \cup Closed]
      /\ \A d \in Challenge \ {c} : status'[d] = status[d] /\ member'[d] = member[d]
      /\ \/ status'[c] = status[c]
         \/ status[c] \in {"pending", "active"} /\ status'[c] = "cancelled"
  BY <1>1, <1>2, <1>3 DEF Closed
<1>6. /\ member' \in [Challenge -> [User ->
             {"none", "invited", "accepted", "declined", "left", "expired"}]]
      /\ \A v \in User : member'[c][v] = "invited" =>
             member[c][v] = "invited" /\ (status[c] = "pending" => status'[c] = "pending")
  <2>1. CASE /\ member' = [member EXCEPT ![c][u] = "left"]
             /\ status' = status \/ status[c] = "active"
    BY <1>1, <1>3, <2>1
  <2>2. CASE member' = [member EXCEPT ![c] = ExpireInvited(c)]
    BY <1>1, <1>3, <2>2 DEF ExpireInvited
  <2>3. CASE UNCHANGED <<status, member>>
    BY <1>1, <1>3, <2>3
  <2> QED
    BY <1>2, <2>1, <2>2, <2>3
<1>7. TypeOK'
  BY <1>1, <1>4, <1>5, <1>6 DEF IInv, TypeOK
<1>8. RequestsSound'
  BY <1>1, <1>4, <1>5, AloneOnChallenge DEF Closed
<1>9. NobodyLeftInvited'
  <2>1. ASSUME NEW d \in Challenge, status'[d] \notin {"absent", "pending"}, NEW v \in User,
               member'[d][v] = "invited"
        PROVE  FALSE
    BY <2>1, <1>5, <1>6 DEF IInv, NobodyLeftInvited, InState
  <2> QED
    BY <2>1 DEF NobodyLeftInvited, InState
<1>10. RowsSound' /\ ProgressIsEarned'
  BY <1>1, <1>5 DEF IInv, RowsSound, ProgressIsEarned, Closed
<1> QED
  BY <1>7, <1>8, <1>9, <1>10 DEF IInv

\* The activation takes the lock, and starts every accepted participant at zero.
LEMMA ActivateBeginInv ==
    ASSUME IInv, NEW r \in Request, NEW c \in Challenge, ActivateBegin(r, c)
    PROVE  IInv'
<1>1. PICK o \in Ops : o = [kind |-> "activate", c |-> c, accepted |-> InState(c, "accepted")]
  BY DEF Ops, InState
<1>2. /\ op' = [op EXCEPT ![r] = o] /\ lock' = [lock EXCEPT ![c] = r]
      /\ status[c] = "pending" /\ lock[c] = Nobody
      /\ UNCHANGED <<now, status, creator, winners, nudged, member, progress, reachedAt, base,
                     paid, work, aborts>>
  BY <1>1 DEF ActivateBegin, With, Free, chalVars, rowVars
<1>3. OpSound(r, o)'
  BY <1>1, <1>2 DEF OpSound, IInv, TypeOK
<1>4. TypeOK'
  BY <1>1, <1>2 DEF IInv, TypeOK
<1>5. RequestsSound'
  <2>1. \A d \in Challenge \ {c} : lock'[d] = lock[d]
    BY <1>2 DEF IInv, TypeOK
  <2> QED
    BY <1>1, <1>2, <1>3, <2>1, AloneOnChallenge
<1>6. RowsSound' /\ ProgressIsEarned' /\ NobodyLeftInvited'
  BY <1>2 DEF IInv, RowsSound, ProgressIsEarned, NobodyLeftInvited, InState
<1> QED
  BY <1>4, <1>5, <1>6 DEF IInv

\* The commit of an activation.
LEMMA ActivateCommitInv ==
    ASSUME IInv, NEW r \in Request, ActivateCommit(r)
    PROVE  IInv'
<1> DEFINE c == op[r].c
           acc == op[r].accepted
           start == Cardinality(acc) >= 2
<1>1. /\ op[r].kind = "activate" /\ op' = [op EXCEPT ![r] = NoOp]
      /\ UNCHANGED <<now, creator, winners, nudged, paid, work, aborts>>
      /\ lock' = [lock EXCEPT ![c] = Nobody]
      /\ status' = [status EXCEPT ![c] = IF start THEN "active" ELSE "cancelled"]
      /\ member' = [member EXCEPT ![c] = ExpireInvited(c)]
  BY DEF ActivateCommit, Done, With
<1>2. c \in Challenge /\ status[c] = "pending" /\ lock[c] = r /\ \A u \in User : progress[c][u] = 0
  <2>1. op[r] \in Ops /\ OpSound(r, op[r])
    BY DEF IInv, TypeOK, RequestsSound
  <2>2. c \in Challenge /\ status[c] = "pending" /\ lock[c] = r
    BY <1>1, <2>1, Shapes DEF OpSound
  <2> QED
    BY <2>2 DEF IInv, RowsSound
<1>3. PICK b \in [User -> SUBSET Unit], p \in [User -> Progress], t \in [User -> Time \cup {Never}] :
         /\ base' = [base EXCEPT ![c] = b]
         /\ progress' = [progress EXCEPT ![c] = p]
         /\ reachedAt' = [reachedAt EXCEPT ![c] = t]
         /\ \A u \in User : p[u] = 0 /\ (~Snapshot => b[u] = {})
  <2>1. 0 \in Progress
    BY UnitsAreFinite DEF Progress
  <2>2. /\ base[c] \in [User -> SUBSET Unit] /\ progress[c] \in [User -> Progress]
        /\ reachedAt[c] \in [User -> Time \cup {Never}] /\ work \in [User -> SUBSET Unit]
    BY <1>2 DEF IInv, TypeOK
  <2>3. ~Snapshot => \A u \in User : base[c][u] = {}
    BY <1>2 DEF IInv, RowsSound
  <2> DEFINE counted == IF Snapshot THEN work ELSE [u \in User |-> {}]
             b == IF start THEN [u \in User |-> IF u \in acc THEN counted[u] ELSE base[c][u]]
                  ELSE base[c]
             p == IF start THEN [u \in User |-> IF u \in acc THEN [v \in User |-> 0][u]
                                                ELSE progress[c][u]]
                  ELSE progress[c]
             t == IF start THEN [u \in User |-> IF u \in acc THEN [v \in User |-> Never][u]
                                                ELSE reachedAt[c][u]]
                  ELSE reachedAt[c]
  <2>4. /\ base' = [base EXCEPT ![c] = b] /\ progress' = [progress EXCEPT ![c] = p]
        /\ reachedAt' = [reachedAt EXCEPT ![c] = t]
    BY DEF ActivateCommit
  <2>5. b \in [User -> SUBSET Unit] /\ (~Snapshot => \A u \in User : b[u] = {})
    BY <2>2, <2>3
  <2>6. p \in [User -> Progress] /\ \A u \in User : p[u] = 0
    BY <1>2, <2>1, <2>2
  <2>7. t \in [User -> Time \cup {Never}]
    BY <2>2
  <2> HIDE DEF b, p, t
  <2> QED
    BY <2>4, <2>5, <2>6, <2>7
<1>4. NoOp \in Ops /\ OpSound(r, NoOp)'
  BY DEF Ops, OpSound, NoOp
<1>5. /\ member \in [Challenge -> [User ->
             {"none", "invited", "accepted", "declined", "left", "expired"}]]
      /\ status \in [Challenge -> {"absent", "pending", "active"} \cup Closed]
  BY DEF IInv, TypeOK
<1> HIDE DEF c, acc, start
<1>6. /\ status' \in [Challenge -> {"absent", "pending", "active"} \cup Closed]
      /\ status'[c] \in {"active", "cancelled"}
      /\ \A d \in Challenge \ {c} : status'[d] = status[d] /\ member'[d] = member[d]
  BY <1>1, <1>2, <1>5 DEF Closed
<1>7. /\ member' \in [Challenge -> [User ->
             {"none", "invited", "accepted", "declined", "left", "expired"}]]
      /\ \A v \in User : member'[c][v] # "invited"
  BY <1>1, <1>2, <1>5 DEF ExpireInvited
<1>8. TypeOK'
  BY <1>1, <1>2, <1>3, <1>4, <1>6, <1>7 DEF IInv, TypeOK
<1>9. RequestsSound'
  <2>1. \A d \in Challenge \ {c} : base'[d] = base[d] /\ lock'[d] = lock[d]
    BY <1>1, <1>3 DEF IInv, TypeOK
  <2> QED
    BY <1>1, <1>2, <1>4, <1>6, <2>1, AloneOnChallenge, ZenonT(60) DEF Closed
<1>10. NobodyLeftInvited'
  <2>1. ASSUME NEW d \in Challenge, status'[d] \notin {"absent", "pending"}, NEW v \in User,
               member'[d][v] = "invited"
        PROVE  FALSE
    BY <2>1, <1>6, <1>7 DEF IInv, NobodyLeftInvited, InState
  <2> QED
    BY <2>1 DEF NobodyLeftInvited, InState
<1>11. RowsSound' /\ ProgressIsEarned'
  <2>1. ASSUME NEW d \in Challenge, NEW u \in User, d # c
        PROVE  progress'[d][u] = progress[d][u] /\ base'[d][u] = base[d][u] /\ status'[d] = status[d]
    BY <2>1, <1>3, <1>6 DEF IInv, TypeOK
  <2>2. ASSUME NEW u \in User
        PROVE  progress'[c][u] = 0 /\ (~Snapshot => base'[c][u] = {})
    BY <1>2, <1>3 DEF IInv, TypeOK
  <2>3. RowsSound'
    BY <1>1, <1>2, <1>6, <2>1, <2>2 DEF IInv, RowsSound, Closed
  <2>4. ProgressIsEarned'
    BY <1>1, <1>2, <2>1, <2>2 DEF IInv, ProgressIsEarned
  <2> QED
    BY <2>3, <2>4
<1> QED
  BY <1>8, <1>9, <1>10, <1>11 DEF IInv

\* The end is decided under the lock: either its time has come, or all have
\* reached the target, and what they reached they have earned.
LEMMA FinishBeginInv ==
    ASSUME IInv, NEW r \in Request, FinishBegin(r)
    PROVE  IInv'
<1>1. PICK c \in Challenge : c = op[r].c /\ op[r].at \in Time /\ op[r].at <= now
  <2>1. op[r] \in Ops /\ OpSound(r, op[r])
    BY DEF IInv, TypeOK, RequestsSound
  <2> QED
    BY <2>1, Shapes DEF FinishBegin, OpSound
<1>2. PICK o \in Ops :
         /\ o.kind = "finish" /\ o.c = c
         /\ op' = [op EXCEPT ![r] = o] /\ lock' = [lock EXCEPT ![c] = r]
  <2> DEFINE accepted == InState(c, "accepted")
             won == DetermineWinners(c, accepted)
             eligible == IF Cardinality(accepted) < 2 THEN {}
                         ELSE {u \in accepted : u \in won \/ Reached(c, u)}
             o == [kind |-> "finish", c |-> c, winners |-> won, eligible |-> eligible]
  <2>1. accepted \in SUBSET User
    BY DEF InState
  <2>2. won \in SUBSET User
    BY <2>1 DEF DetermineWinners
  <2>3. eligible \in SUBSET User
    BY <2>1
  <2>4. op' = [op EXCEPT ![r] = o] /\ lock' = [lock EXCEPT ![c] = r]
    BY <1>1 DEF FinishBegin, With
  <2> HIDE DEF won, eligible
  <2>5. o \in Ops
    BY <2>2, <2>3 DEF Ops
  <2> QED
    BY <2>4, <2>5
<1>3. /\ UNCHANGED <<now, status, creator, winners, nudged, member, progress, reachedAt, base,
                     paid, work, aborts>>
      /\ lock[c] = Nobody /\ status[c] = "active"
      /\ now >= EndsAt \/ \A u \in InState(c, "accepted") : progress[c][u] >= Target
  <2>1. op[r].at >= EndsAt => now >= EndsAt
    BY <1>1, ChallengeAssumption DEF FinishBegin, IInv, TypeOK, Time
  <2> QED
    BY <1>1, <2>1 DEF FinishBegin, MayFinish, Reached, Free, chalVars, rowVars
<1>4. now >= EndsAt \/ \A u \in InState(c, "accepted") : Counted(c, u) >= Target
  <2>1. ASSUME NEW u \in User, progress[c][u] >= Target PROVE Counted(c, u) >= Target
    <3>1. progress[c][u] \in Nat /\ Counted(c, u) \in Nat
      BY UnitsAreFinite, EarnedBound DEF IInv, TypeOK, RowsSound, Progress
    <3> QED
      BY <2>1, <3>1, ChallengeAssumption DEF IInv, ProgressIsEarned, Counted
  <2> QED
    BY <1>3, <2>1 DEF InState
<1>5. OpSound(r, o)'
  BY <1>2, <1>3, <1>4 DEF OpSound, Counted, InState, IInv, TypeOK
<1>6. TypeOK'
  BY <1>2, <1>3 DEF IInv, TypeOK
<1>7. RequestsSound'
  <2>1. \A d \in Challenge \ {c} : lock'[d] = lock[d]
    BY <1>2 DEF IInv, TypeOK
  <2> QED
    BY <1>2, <1>3, <1>5, <2>1, AloneOnChallenge
<1>8. RowsSound' /\ ProgressIsEarned' /\ NobodyLeftInvited'
  BY <1>3 DEF IInv, RowsSound, ProgressIsEarned, NobodyLeftInvited, InState
<1> QED
  BY <1>6, <1>7, <1>8 DEF IInv

\* Counting the rewards of the week, and finding that the end has not come.
LEMMA FinishPayInv ==
    ASSUME IInv, NEW r \in Request, FinishPay(r) \/ FinishNothing(r)
    PROVE  IInv'
<1>1. op[r] \in Ops /\ OpSound(r, op[r])
  BY DEF IInv, TypeOK, RequestsSound
<1>2. /\ nudged' \in [Challenge -> SUBSET User] /\ aborts' \in 0..MaxAborts
      /\ UNCHANGED <<now, status, creator, winners, rowVars, paid, work, lock>>
  BY DEF FinishPay, FinishNothing, IInv, TypeOK, chalVars
<1>3. CASE FinishPay(r)
  <2>1. PICK friends \in SUBSET op[r].eligible :
           op' = [op EXCEPT ![r] = [kind |-> "pay", c |-> op[r].c, winners |-> op[r].winners,
                     payees |-> {u \in friends : /\ RewardsThisWeek(u) < WeeklyCap
                                                 /\ paid[op[r].c][u] = <<>>}]]
    BY <1>3 DEF FinishPay, With
  <2> DEFINE payees == {u \in friends : /\ RewardsThisWeek(u) < WeeklyCap
                                        /\ paid[op[r].c][u] = <<>>}
             o == [kind |-> "pay", c |-> op[r].c, winners |-> op[r].winners, payees |-> payees]
  <2>2. op[r].kind = "finish" /\ op[r].c \in Challenge /\ op[r].winners \in SUBSET User
        /\ payees \in SUBSET User
    BY <1>1, <1>3, <2>1, Shapes DEF FinishPay
  <2>3. op' = [op EXCEPT ![r] = o]
    BY <2>1
  <2> HIDE DEF payees
  <2>4. o \in Ops /\ OpSound(r, o)
    BY <1>1, <2>2 DEF Ops, OpSound
  <2> HIDE DEF o
  <2> QED
    BY <1>2, <2>3, <2>4, OpStepInv
<1>4. CASE FinishNothing(r)
  <2>1. NoOp \in Ops /\ OpSound(r, NoOp) /\ op' = [op EXCEPT ![r] = NoOp]
    BY <1>4 DEF FinishNothing, Done, With, Ops, OpSound, NoOp
  <2> QED
    BY <1>2, <2>1, OpStepInv
<1> QED
  BY <1>3, <1>4

\* The commit of an end.
LEMMA FinishCommitInv ==
    ASSUME IInv, NEW r \in Request, FinishCommit(r)
    PROVE  IInv'
<1>1. PICK c \in Challenge : /\ c = op[r].c
                             /\ status[c] = "active" /\ lock[c] = r
                             /\ op[r].winners \in SUBSET User
  <2>1. op[r] \in Ops /\ OpSound(r, op[r])
    BY DEF IInv, TypeOK, RequestsSound
  <2> QED
    BY <2>1, Shapes DEF FinishCommit, OpSound
<1>2. /\ UNCHANGED <<now, creator, nudged, member, progress, reachedAt, base, work, aborts>>
      /\ status' = [status EXCEPT ![c] = "completed"]
      /\ lock' = [lock EXCEPT ![c] = Nobody]
      /\ op' = [op EXCEPT ![r] = NoOp]
  BY <1>1 DEF FinishCommit, rowVars, Done, With
<1>3. NoOp \in Ops /\ OpSound(r, NoOp)'
  BY DEF Ops, OpSound, NoOp
<1>4. TypeOK'
  <2>1. winners' \in [Challenge -> SUBSET User]
    BY <1>1 DEF FinishCommit, IInv, TypeOK
  <2>2. PICK p \in [User -> Seq({"win", "complete"})] : paid' = [paid EXCEPT ![c] = p]
    <3> DEFINE p == [u \in User |->
                       IF u \notin op[r].payees THEN paid[c][u]
                       ELSE Append(paid[c][u], IF u \in op[r].winners THEN "win" ELSE "complete")]
    <3>1. \A u \in User : paid[c][u] \in Seq({"win", "complete"})
      BY DEF IInv, TypeOK
    <3>2. p \in [User -> Seq({"win", "complete"})]
      BY <3>1
    <3>3. paid' = [paid EXCEPT ![c] = p]
      BY <1>1 DEF FinishCommit
    <3> QED
      BY <3>2, <3>3
  <2>3. paid' \in [Challenge -> [User -> Seq({"win", "complete"})]]
    BY <2>2 DEF IInv, TypeOK
  <2>4. /\ status' \in [Challenge -> {"absent", "pending", "active"} \cup Closed]
        /\ lock' \in [Challenge -> Request \cup {Nobody}]
        /\ op' \in [Request -> Ops]
    BY <1>2, <1>3 DEF IInv, TypeOK, Closed
  <2> QED
    BY <1>2, <2>1, <2>3, <2>4 DEF IInv, TypeOK
<1>5. RequestsSound'
  <2>1. /\ \A d \in Challenge \ {c} : lock'[d] = lock[d] /\ status'[d] = status[d]
        /\ status'[c] = "completed"
    BY <1>2 DEF IInv, TypeOK
  <2> QED
    BY <1>1, <1>2, <1>3, <2>1, AloneOnChallenge DEF Closed
<1>6. RowsSound'
  <2>1. ASSUME NEW d \in Challenge, NEW u \in User
        PROVE  /\ d # c => status'[d] = status[d] /\ paid'[d][u] = paid[d][u]
               /\ status'[c] = "completed"
    BY <1>1, <1>2 DEF FinishCommit, IInv, TypeOK
  <2> QED
    BY <1>2, <2>1 DEF IInv, RowsSound
<1>7. ProgressIsEarned' /\ NobodyLeftInvited'
  BY <1>1, <1>2 DEF IInv, TypeOK, ProgressIsEarned, NobodyLeftInvited, InState
<1> QED
  BY <1>4, <1>5, <1>6, <1>7 DEF IInv

\* A request that dies gives its lock back, and only its own.
LEMMA AbortInv ==
    ASSUME IInv, NEW r \in Request, Abort(r)
    PROVE  IInv'
<1>1. /\ UNCHANGED <<now, status, creator, winners, nudged, member, progress, reachedAt, base,
                     paid, work>>
      /\ op' = [op EXCEPT ![r] = NoOp]
      /\ lock' = [c \in Challenge |-> IF lock[c] = r THEN Nobody ELSE lock[c]]
      /\ aborts' \in 0..MaxAborts
  BY ChallengeAssumption DEF Abort, chalVars, rowVars, Done, With, IInv, TypeOK
<1>2. NoOp \in Ops
  BY DEF Ops
<1>3. TypeOK'
  BY <1>1, <1>2 DEF IInv, TypeOK
<1>4. ASSUME NEW q \in Request PROVE OpSound(q, op[q])'
  <2>1. op'[q] = (IF q = r THEN NoOp ELSE op[q]) /\ OpSound(q, op[q]) /\ op[q] \in Ops
    BY <1>1 DEF IInv, TypeOK, RequestsSound
  <2>2. op[q].kind # "none" => op[q].c \in Challenge
    BY <2>1, Shapes
  <2> QED
    BY <1>1, <2>1, <2>2 DEF OpSound, Counted, InState, NoOp
<1>5. RowsSound' /\ ProgressIsEarned' /\ NobodyLeftInvited'
  BY <1>1 DEF IInv, RowsSound, ProgressIsEarned, NobodyLeftInvited, InState
<1> QED
  BY <1>3, <1>4, <1>5 DEF IInv, RequestsSound

\* A nudge, what the users learn, and time.
LEMMA NudgeWriteInv ==
    ASSUME IInv, NEW r \in Request, NudgeWrite(r)
    PROVE  IInv'
<1>1. op[r].c \in Challenge /\ op[r].u \in User
  <2>1. op[r] \in Ops
    BY DEF IInv, TypeOK
  <2> QED
    BY <2>1, Shapes DEF NudgeWrite
<1>2. nudged' \in [Challenge -> SUBSET User] /\ aborts' \in 0..MaxAborts
  BY <1>1 DEF NudgeWrite, IInv, TypeOK
<1>3. NoOp \in Ops /\ OpSound(r, NoOp) /\ op' = [op EXCEPT ![r] = NoOp]
  BY DEF NudgeWrite, Done, With, Ops, OpSound, NoOp
<1> QED
  BY <1>2, <1>3, OpStepInv DEF NudgeWrite

\* A lesson recorded for every challenge under way.
LEMMA LessonInv ==
    ASSUME IInv, NEW u \in User, Lesson(u)
    PROVE  IInv'
<1>1. /\ UNCHANGED <<now, chalVars, rowVars, paid, lock, op, aborts>>
      /\ work' \in [User -> SUBSET Unit]
      /\ \A v \in User : work[v] \subseteq work'[v] /\ work'[v] \in SUBSET Unit
  <2>1. PICK unit \in Unit : work' = [work EXCEPT ![u] = @ \cup {unit}]
    BY DEF Lesson
  <2> QED
    BY <2>1 DEF Lesson, IInv, TypeOK
<1>2. ASSUME NEW c \in Challenge, NEW v \in User
      PROVE  /\ Counted(c, v) \in Nat /\ Counted(c, v)' \in Nat
             /\ Counted(c, v) <= Counted(c, v)'
  <2>1. work'[v] \in SUBSET Unit /\ work[v] \in SUBSET work'[v] /\ base' = base
    BY <1>1 DEF rowVars
  <2> QED
    BY <2>1, CountGrows DEF Counted
<1>3. TypeOK'
  BY <1>1 DEF IInv, TypeOK, chalVars, rowVars
<1>4. ASSUME NEW q \in Request PROVE OpSound(q, op[q])'
  <2>1. op' = op /\ OpSound(q, op[q]) /\ op[q] \in Ops
    BY <1>1 DEF IInv, TypeOK, RequestsSound
  <2>2. CASE op[q].kind \in {"finish", "pay"}
    <3>1. op[q].c \in Challenge
      BY <2>1, <2>2, Shapes
    <3>2. \A v \in User : Counted(op[q].c, v) >= Target => Counted(op[q].c, v)' >= Target
      BY <1>2, <2>1, <3>1, ChallengeAssumption
    <3> QED
      BY <1>1, <2>1, <2>2, <3>1, <3>2 DEF OpSound, InState, chalVars, rowVars
  <2>3. CASE op[q].kind = "refresh"
    <3>1. /\ op[q].c \in Challenge /\ op[q].value \in Nat
          /\ op[q].u # Nobody => op[q].u \in User
      BY <2>1, <2>3, Shapes, UnitsAreFinite DEF Progress
    <3>2. \A v \in User : op[q].value <= Counted(op[q].c, v) => op[q].value <= Counted(op[q].c, v)'
      BY <1>2, <2>1, <3>1
    <3> QED
      BY <1>1, <2>1, <2>3, <3>1, <3>2 DEF OpSound, InState, chalVars, rowVars
  <2>4. CASE op[q].kind \notin {"finish", "pay", "refresh"}
    BY <1>1, <2>1, <2>4 DEF OpSound, chalVars
  <2> QED
    BY <2>2, <2>3, <2>4
<1>5. ProgressIsEarned'
  <2>1. ASSUME NEW c \in Challenge, NEW v \in User, progress[c][v] > 0
        PROVE  progress[c][v] <= Counted(c, v)'
    <3>1. progress[c][v] \in Nat
      BY UnitsAreFinite DEF IInv, TypeOK, Progress
    <3>2. progress[c][v] <= Counted(c, v)
      BY <2>1 DEF IInv, ProgressIsEarned, Counted
    <3> QED
      BY <1>2, <3>1, <3>2
  <2> QED
    BY <1>1, <2>1 DEF ProgressIsEarned, Counted, rowVars
<1>6. RowsSound' /\ NobodyLeftInvited'
  BY <1>1 DEF IInv, RowsSound, NobodyLeftInvited, InState, chalVars, rowVars
<1> QED
  BY <1>3, <1>4, <1>5, <1>6 DEF IInv, RequestsSound

\* Time passes.
LEMMA TickInv == ASSUME IInv, Tick PROVE IInv'
<1>1. /\ UNCHANGED <<status, creator, winners, member, progress, reachedAt, base, paid, work,
                     lock, op, aborts>>
      /\ now' \in Time /\ now \in Time /\ now <= now' /\ nudged' \in [Challenge -> SUBSET User]
  BY ChallengeAssumption DEF Tick, IInv, TypeOK, Time, rowVars
<1>2. TypeOK'
  BY <1>1 DEF IInv, TypeOK
<1>3. ASSUME NEW q \in Request PROVE OpSound(q, op[q])'
  <2>1. op' = op /\ OpSound(q, op[q]) /\ op[q] \in Ops
    BY <1>1 DEF IInv, TypeOK, RequestsSound
  <2>2. op[q].kind = "refresh" => op[q].at \in Int
    BY <2>1, Shapes DEF Time
  <2>3. now >= EndsAt => now' >= EndsAt
    BY <1>1, ChallengeAssumption DEF Time
  <2>4. op[q].kind = "refresh" /\ op[q].at <= now => op[q].at <= now'
    BY <1>1, <2>2, ChallengeAssumption DEF Time
  <2> QED
    BY <1>1, <2>1, <2>3, <2>4 DEF OpSound, Counted, InState
<1>4. RowsSound' /\ ProgressIsEarned' /\ NobodyLeftInvited'
  BY <1>1 DEF IInv, RowsSound, ProgressIsEarned, NobodyLeftInvited, InState
<1> QED
  BY <1>2, <1>3, <1>4 DEF IInv, RequestsSound

\* Nothing is under way on a challenge that does not exist yet but what takes no
\* account of it.
LEMMA CreateInv ==
    ASSUME IInv, NEW c \in Challenge, NEW u \in User, NEW S \in SUBSET User, Create(c, u, S)
    PROVE  IInv'
<1>1. /\ UNCHANGED <<now, winners, nudged, progress, reachedAt, base, paid, work, lock, op, aborts>>
      /\ status[c] = "absent" /\ status' = [status EXCEPT ![c] = "pending"]
      /\ creator' = [creator EXCEPT ![c] = u]
  BY DEF Create
<1>2. PICK m \in [User -> {"none", "invited", "accepted"}] : member' = [member EXCEPT ![c] = m]
  <2> DEFINE m == [v \in User |-> IF v = u THEN "accepted" ELSE IF v \in S THEN "invited" ELSE "none"]
  <2>1. member' = [member EXCEPT ![c] = m] /\ m \in [User -> {"none", "invited", "accepted"}]
    BY DEF Create
  <2> QED
    BY <2>1
<1>3. /\ status'[c] = "pending"
      /\ \A d \in Challenge \ {c} : status'[d] = status[d] /\ member'[d] = member[d]
  BY <1>1, <1>2 DEF IInv, TypeOK
<1>4. TypeOK'
  <2>1. status' \in [Challenge -> {"absent", "pending", "active"} \cup Closed]
    BY <1>1 DEF IInv, TypeOK
  <2>2. member' \in [Challenge -> [User ->
           {"none", "invited", "accepted", "declined", "left", "expired"}]]
    BY <1>2 DEF IInv, TypeOK
  <2> QED
    BY <1>1, <2>1, <2>2 DEF IInv, TypeOK
<1>5. ASSUME NEW q \in Request PROVE OpSound(q, op[q])'
  <2>1. op' = op /\ OpSound(q, op[q]) /\ op[q] \in Ops
    BY <1>1 DEF IInv, TypeOK, RequestsSound
  <2>2. op[q].kind \in {"activate", "finish", "pay", "refresh"} => op[q].c \in Challenge \ {c}
    BY <1>1, <2>1, Shapes DEF OpSound, Closed
  <2> QED
    BY <1>1, <1>3, <2>1, <2>2 DEF OpSound, Counted, InState
<1>6. NobodyLeftInvited'
  BY <1>3 DEF IInv, NobodyLeftInvited, InState
<1>7. RowsSound' /\ ProgressIsEarned'
  BY <1>1, <1>3 DEF IInv, RowsSound, ProgressIsEarned
<1> QED
  BY <1>4, <1>5, <1>6, <1>7 DEF IInv, RequestsSound

\* Every step keeps the inductive invariant.
LEMMA NextInv == IInv /\ [Next]_vars => IInv'
<1> SUFFICES ASSUME IInv, [Next]_vars PROVE IInv'
  OBVIOUS
<1>1. ASSUME NEW r \in Request, NEW c \in Challenge, NEW u \in User, UserRequest(r, c, u)
      PROVE  IInv'
  BY <1>1, ReadInv, ActivateBeginInv, RefreshReadInv DEF UserRequest
<1>2. JobRequest \in Request
  BY ChallengeAssumption
<1>3. ASSUME NEW c \in Challenge, JobStart(c) PROVE IInv'
  BY <1>2, <1>3, ActivateBeginInv, RefreshReadInv DEF JobStart
<1>4. ASSUME NEW r \in Request, Proceed(r) PROVE IInv'
  BY <1>4, AnswerInv, LeaveCancelInv, NudgeWriteInv, ActivateCommitInv, ComputeInv,
     WriteProgressInv, FinishBeginInv, FinishPayInv, FinishCommitInv DEF Proceed
<1>5. CASE UNCHANGED vars
  BY <1>5 DEF vars, chalVars, rowVars, IInv, TypeOK, RequestsSound, OpSound, RowsSound,
              ProgressIsEarned, NobodyLeftInvited, InState, Counted
<1> QED
  BY <1>1, <1>3, <1>4, <1>5, CreateInv, AbortInv, LessonInv, TickInv DEF Next

-----------------------------------------------------------------------------
(* The theorems *)

\* All that a challenge goes through keeps what the theorems below rest on: each
\* request is sound with respect to the rows it is about to write.
THEOREM InductiveInvariant == Spec => []IInv
BY InitInv, NextInv, PTL DEF Spec

\* Every column keeps its type; in particular nobody progresses by more than the
\* window holds (computeParticipantProgress).
THEOREM TypeCorrect == Spec => []TypeOK
<1>1. IInv => TypeOK
  BY DEF IInv
<1> QED
  BY <1>1, InductiveInvariant, PTL

\* Nobody is credited with more than he has done since the baseline was taken,
\* however late a refresh writes (refreshChallengeProgress).
THEOREM ProgressEarned == Spec => []ProgressIsEarned
<1>1. IInv => ProgressIsEarned
  BY DEF IInv
<1> QED
  BY <1>1, InductiveInvariant, PTL

\* No invitation stays open once a challenge has started or ended, not even one
\* answered while it starts (activateDueChallenges, cancel).
THEOREM InvitationsClosed == Spec => []NobodyLeftInvited
<1>1. IInv => NobodyLeftInvited
  BY DEF IInv
<1> QED
  BY <1>1, InductiveInvariant, PTL

\* A challenge completed before its deadline was over for everybody when it was
\* decided, and still is when it is written (finishChallenge): the departures,
\* answers and lessons in between leave the decision right.
THEOREM EarlyEnd == Spec => EarlyEndMeansAllDone
<1> DEFINE Right(c) ==
      status[c] = "active" /\ status'[c] = "completed" /\ now < EndsAt =>
          \A u \in InState(c, "accepted") : Cardinality(work[u] \ base[c][u]) >= Target
<1>1. ASSUME IInv, [Next]_vars, NEW c \in Challenge,
             status[c] = "active", status'[c] = "completed", now < EndsAt
      PROVE  \A u \in InState(c, "accepted") : Cardinality(work[u] \ base[c][u]) >= Target
  <2>1. PICK r \in Request : FinishCommit(r) /\ op[r].c = c
    <3>1. ASSUME NEW r \in Request, ActivateCommit(r) PROVE FALSE
      <4>1. op[r] \in Ops /\ OpSound(r, op[r])
        BY <1>1 DEF IInv, TypeOK, RequestsSound
      <4>2. op[r].c \in Challenge /\ status[op[r].c] = "pending"
        BY <3>1, <4>1, Shapes DEF ActivateCommit, OpSound
      <4> QED
        BY <1>1, <3>1, <4>2 DEF ActivateCommit, IInv, TypeOK
    <3>2. ASSUME NEW r \in Request, FinishCommit(r) PROVE op[r].c = c
      <4>1. op[r] \in Ops
        BY <1>1 DEF IInv, TypeOK
      <4> QED
        BY <1>1, <3>2, <4>1, Shapes DEF FinishCommit, IInv, TypeOK
    <3>3. ASSUME NEW r \in Request, LeaveWrite(r) \/ CancelWrite(r) PROVE FALSE
      <4>1. op[r] \in Ops
        BY <1>1 DEF IInv, TypeOK
      <4> QED
        BY <1>1, <3>3, <4>1, Shapes DEF LeaveWrite, CancelWrite, IInv, TypeOK
    <3>4. ASSUME NEW d \in Challenge, NEW u \in User, NEW S \in SUBSET User, Create(d, u, S)
          PROVE  FALSE
      BY <1>1, <3>4 DEF Create, IInv, TypeOK
    <3>5. status' = status => FALSE
      BY <1>1
    <3>6. ASSUME NEW r \in Request, Proceed(r) PROVE FinishCommit(r)
      BY <3>1, <3>3, <3>5, <3>6 DEF Proceed, AcceptWrite, DeclineWrite, NudgeWrite, Compute,
         WriteProgress, FinishBegin, FinishNothing, FinishPay, chalVars
    <3>7. ASSUME NEW r, NEW d, NEW u, UserRequest(r, d, u) PROVE FALSE
      BY <3>5, <3>7 DEF UserRequest, AcceptRead, DeclineRead, LeaveRead, CancelRead, NudgeRead,
         ActivateBegin, RefreshRead, chalVars
    <3>8. ASSUME NEW d, JobStart(d) PROVE FALSE
      BY <3>5, <3>8 DEF JobStart, ActivateBegin, RefreshRead, chalVars
    <3>9. ASSUME NEW r, Abort(r) \/ Lesson(r) \/ Tick PROVE FALSE
      BY <3>5, <3>9 DEF Abort, Lesson, Tick, chalVars
    <3>10. UNCHANGED vars => FALSE
      BY <3>5 DEF vars, chalVars
    <3> QED
      BY <1>1, <3>2, <3>4, <3>6, <3>7, <3>8, <3>9, <3>10 DEF Next
  <2>2. OpSound(r, op[r])
    BY <1>1 DEF IInv, RequestsSound
  <2>3. now \in Int /\ EndsAt \in Int
    BY <1>1, ChallengeAssumption DEF IInv, TypeOK, Time
  <2>4. ~(now >= EndsAt)
    BY <1>1, <2>3
  <2> QED
    BY <2>1, <2>2, <2>4 DEF FinishCommit, OpSound, Counted
<1>2. IInv /\ [Next]_vars => [\A c \in Challenge : Right(c)]_vars
  BY <1>1
<1> HIDE DEF Right
<1>3. Spec => [][\A c \in Challenge : Right(c)]_vars
  BY <1>2, InductiveInvariant, PTL DEF Spec
<1> QED
  BY <1>3 DEF EarlyEndMeansAllDone, Right

\* Every step of a challenge is a step of its life, or changes nothing of it.
LEMMA StepRefines == IInv /\ IInv' /\ [Next]_vars => [Life!Next]_(Life!vars)
<1> SUFFICES ASSUME IInv, IInv', [Next]_vars PROVE [Life!Next]_(Life!vars)
  OBVIOUS
<1> USE DEF Life!Next, Life!vars
<1>1. ASSUME NEW c \in Challenge, NEW u \in User, NEW S \in SUBSET User, Create(c, u, S)
      PROVE  Life!Open(c)
  BY <1>1 DEF Create, Life!Open, Life!Become
<1>2. ASSUME NEW r \in Request, ActivateCommit(r)
      PROVE  Life!Start(op[r].c) \/ Life!Cancel(op[r].c)
  <2>1. op[r] \in Ops /\ OpSound(r, op[r])
    BY DEF IInv, TypeOK, RequestsSound
  <2>2. status[op[r].c] = "pending"
    BY <1>2, <2>1 DEF ActivateCommit, OpSound
  <2>3. UNCHANGED <<winners, paid>>
    BY <1>2 DEF ActivateCommit
  <2>4. \/ status' = [status EXCEPT ![op[r].c] = "active"]
        \/ status' = [status EXCEPT ![op[r].c] = "cancelled"]
    BY <1>2 DEF ActivateCommit
  <2> QED
    BY <2>2, <2>3, <2>4 DEF Life!Start, Life!Cancel, Life!Become
<1>3. ASSUME NEW r \in Request, LeaveWrite(r) \/ CancelWrite(r)
      PROVE  Life!Cancel(op[r].c) \/ UNCHANGED <<status, winners, paid>>
  BY <1>3 DEF LeaveWrite, CancelWrite, Life!Cancel, Life!Become
<1>4. ASSUME NEW r \in Request, FinishCommit(r)
      PROVE  Life!Complete(op[r].c)
  <2>1. PICK c \in Challenge : /\ c = op[r].c /\ status[c] = "active"
                               /\ op[r].winners \in SUBSET User /\ op[r].payees \in SUBSET User
    <3>1. op[r] \in Ops /\ OpSound(r, op[r])
      BY DEF IInv, TypeOK, RequestsSound
    <3> QED
      BY <1>4, <3>1, Shapes DEF FinishCommit, OpSound
  <2>2. \A u \in User : paid[c][u] = <<>>
    BY <2>1 DEF IInv, RowsSound
  <2> DEFINE W == op[r].winners
             R == op[r].payees
             written == [u \in User |-> IF u \notin R THEN paid[c][u]
                                        ELSE Append(paid[c][u], IF u \in W THEN "win" ELSE "complete")]
             due == [u \in User |-> IF u \notin R THEN <<>>
                                    ELSE IF u \in W THEN <<"win">> ELSE <<"complete">>]
  <2>3. written = due
    <3>1. Append(<<>>, "win") = <<"win">> /\ Append(<<>>, "complete") = <<"complete">>
      OBVIOUS
    <3> QED
      BY <2>2, <3>1
  <2>4. /\ winners' = [winners EXCEPT ![c] = W] /\ paid' = [paid EXCEPT ![c] = written]
        /\ status' = [status EXCEPT ![c] = "completed"]
    BY <1>4, <2>1 DEF FinishCommit
  <2>5. paid' = [paid EXCEPT ![c] = due]
    BY <2>3, <2>4
  <2> QED
    BY <2>1, <2>4, <2>5, ZenonT(60) DEF Life!Complete, Life!Become
<1>5. ASSUME NEW r \in Request, Proceed(r)
      PROVE  \/ UNCHANGED <<status, winners, paid>>
             \/ ActivateCommit(r) \/ LeaveWrite(r) \/ CancelWrite(r) \/ FinishCommit(r)
  BY <1>5 DEF Proceed, AcceptWrite, DeclineWrite, NudgeWrite, Compute,
     WriteProgress, FinishBegin, FinishNothing, FinishPay, chalVars
<1>6. ASSUME NEW r \in Request, Proceed(r) PROVE [Life!Next]_(Life!vars)
  <2>1. op[r].kind # "none" => op[r].c \in Challenge
    BY Shapes DEF IInv, TypeOK
  <2>2. ActivateCommit(r) \/ LeaveWrite(r) \/ CancelWrite(r) \/ FinishCommit(r)
           => op[r].c \in Challenge
    BY <2>1 DEF ActivateCommit, LeaveWrite, CancelWrite, FinishCommit
  <2> QED
    BY <1>2, <1>3, <1>4, <1>5, <1>6, <2>2
<1>7. ASSUME NEW r, NEW d, NEW u, UserRequest(r, d, u) PROVE UNCHANGED <<status, winners, paid>>
  BY <1>7 DEF UserRequest, AcceptRead, DeclineRead, LeaveRead, CancelRead, NudgeRead,
     ActivateBegin, RefreshRead, chalVars
<1>8. ASSUME NEW d, JobStart(d) PROVE UNCHANGED <<status, winners, paid>>
  BY <1>8 DEF JobStart, ActivateBegin, RefreshRead, chalVars
<1>9. ASSUME NEW r, Abort(r) \/ Lesson(r) \/ Tick PROVE UNCHANGED <<status, winners, paid>>
  BY <1>9 DEF Abort, Lesson, Tick, chalVars
<1>10. UNCHANGED vars => UNCHANGED <<status, winners, paid>>
  BY DEF vars, chalVars
<1> QED
  BY <1>1, <1>6, <1>7, <1>8, <1>9, <1>10 DEF Next

\* Whatever the requests, the outbox handler and the job do at the same time, a
\* challenge lives the life of `transition`: it starts and ends at most once, its
\* winners and rewards are fixed by the one step that completes it, and what is
\* over never changes again.
THEOREM ChallengeImplementsLife == Spec => ImplementsLife
<1>1. Init => Life!Init
  BY DEF Init, Life!Init
<1>2. Spec => Life!Init /\ [][Life!Next]_(Life!vars)
  BY <1>1, StepRefines, InductiveInvariant, PTL DEF Spec
<1> QED
  BY <1>2 DEF ImplementsLife, Life!Spec
=============================================================================
