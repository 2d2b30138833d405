---------------------------- MODULE AccountsProofs ----------------------------
(***************************************************************************)
(* Proofs about Accounts and the sessions under it, for every number of    *)
(* devices and requests, every grace period and every bound.               *)
(***************************************************************************)
EXTENDS Accounts, FiniteSetTheorems, SequenceTheorems, TLAPS

\* What a request of Accounts may be doing.
AllOps ==
    Ops
    \cup [step : {"invalidate", "create"}, k : Kind]
    \cup [step : {"mail"}, k : Kind, i : Nat]
    \cup [step : {"createUser"}, d : Device, open : BOOLEAN]
    \cup [step : {"verify", "code", "burn", "miss"}, d : Device, i : Nat]
    \cup [step : {"confirm"}, d : Device]
    \cup [step : {"password"}, i : Nat]

Rows == /\ minted \in 0..MaxTokens
        /\ device \in [Token -> Device \cup {Nobody}]
        /\ revoked \in [Token -> Age \cup {Live}]
        /\ replacedBy \in [Token -> Token \cup {0}]
        /\ op \in [Request -> AllOps]
        /\ held \in [Device -> Token \cup {0}]
        /\ waiting \in [Device -> Request \cup {Nobody}]
        /\ logins \in [Device -> Int]
        /\ strays \in [Device -> Nat]
        /\ account \in {"none", "unverified", "verified"}
        /\ secret \in [Kind -> Seq([spent : BOOLEAN, late : BOOLEAN, tries : Nat, alone : BOOLEAN])]
        /\ inbox \in [Kind -> Nat]

-----------------------------------------------------------------------------
(* The sessions of a device *)

\* A request that may still mint a token, by a login or by a refresh.
LoginOp(o) == \/ o.step \in {"verify", "code", "burn", "miss", "confirm"}
              \/ o.step = "createUser" /\ o.open
              \/ o.step = "mint" /\ o.retired = 0
RefreshOp(o) == \/ o.step \in {"sent", "replacement", "user"}
                \/ o.step = "mint" /\ o.retired # 0
PreMint(o) == LoginOp(o) \/ RefreshOp(o)
Minters == {r \in Request : PreMint(op[r])}

Owned(t, d) == t \in 1..minted /\ device[t] = d

\* The tokens a request names are minted, and those of its device.
OpOwned(o) ==
    /\ o.step = "sent" => Owned(o.t, o.d)
    /\ o.step = "replacement" => Owned(o.next, o.d)
    /\ o.step = "user" => Owned(o.retired, o.d)
    /\ o.step = "mint" /\ o.retired # 0 => Owned(o.retired, o.d)
    /\ o.step = "rotate" => Owned(o.retired, o.d) /\ Owned(o.t, o.d)
    /\ o.step = "answer" /\ o.t # 0 => Owned(o.t, o.d)
    /\ o.step = "logout" => o.t \in 1..minted

TokensOwned ==
    /\ \A r \in Request : OpOwned(op[r])
    /\ \A d \in Device : held[d] # 0 => Owned(held[d], d)
    /\ \A t \in Token : replacedBy[t] # 0 => t \in 1..minted /\ Owned(replacedBy[t], device[t])
    /\ \A t \in Token : t > minted => revoked[t] = Live
    /\ minted + Cardinality(Minters) <= MaxTokens

\* A client awaits a request of its own.
AwaitsItsOwn ==
    \A d \in Device : waiting[d] # Nobody =>
        LET o == op[waiting[d]]
        IN  (PreMint(o) \/ o.step \in {"rotate", "answer"}) /\ o.d = d

LiveOf(d)  == {t \in LiveTokens : device[t] = d}
Strayed(d) == {r \in Request : PreMint(op[r]) /\ op[r].d = d /\ waiting[d] # r}

\* What the request a client awaits may yet add to its live tokens: a login, one;
\* a refresh, none, as it retires a token for the one it mints, unless somebody
\* else has retired it first.
Due(d) ==
    LET o == op[waiting[d]]
        dead == IF revoked[o.retired] = Live THEN 0 ELSE 1
    IN  IF waiting[d] = Nobody THEN 0
        ELSE IF LoginOp(o) THEN 1
        ELSE IF o.step \in {"user", "mint"} THEN dead
        ELSE IF o.step = "rotate" THEN dead - 1
        ELSE 0

\* Every live token, and every one that may still come, is that of a login or of
\* a request given up.
Accounted ==
    \A d \in Device :
        Cardinality(LiveOf(d)) + Cardinality(Strayed(d)) + Due(d) <= logins[d] + strays[d]

SessionInv == Rows /\ TokensOwned /\ AwaitsItsOwn /\ Accounted

-----------------------------------------------------------------------------
(* The secrets *)

\* Before the address is verified no request, client or row has a token.
NoTokenYet ==
    account # "verified" =>
        /\ minted = 0
        /\ \A r \in Request : op[r].step # "mint"

\* A secret whose send was alone is still the newest, and no other send is about
\* to store a newer one without having invalidated it.
AloneIsNewest ==
    \A k \in Kind : \A i \in 1..Len(secret[k]) : secret[k][i].alone =>
        /\ ~secret[k][i].spent
        /\ i = Len(secret[k])
        /\ \A r \in Request : ~(op[r].step = "create" /\ op[r].k = k)

InboxSent ==
    /\ \A k \in Kind : inbox[k] <= Len(secret[k])
    /\ \A r \in Request :
          /\ op[r].step = "mail" => op[r].i \in 1..Len(secret[op[r].k])
          /\ op[r].step \in {"burn", "miss"} => op[r].i \in 1..Len(secret["code"])
          /\ op[r].step = "password" => op[r].i \in 1..Len(secret["link"])

SecretInv == NoTokenYet /\ AloneIsNewest /\ InboxSent

IInv == SessionInv /\ SecretInv

-----------------------------------------------------------------------------
(* Counting *)

\* A set that differs from another in at most one element.
LEMMA OneElement ==
    ASSUME NEW S, IsFiniteSet(S), NEW T, NEW x, T \ {x} = S \ {x}
    PROVE  /\ IsFiniteSet(T) /\ Cardinality(S) \in Nat /\ Cardinality(T) \in Nat
           /\ (x \in S /\ x \in T) => Cardinality(T) = Cardinality(S)
           /\ (x \in S /\ x \notin T) => Cardinality(T) = Cardinality(S) - 1
           /\ (x \notin S /\ x \in T) => Cardinality(T) = Cardinality(S) + 1
           /\ (x \notin S /\ x \notin T) => Cardinality(T) = Cardinality(S)
<1>1. CASE (x \in S) <=> (x \in T)
  <2>1. T = S
    BY <1>1
  <2> QED
    BY <1>1, <2>1, FS_CardinalityType
<1>2. CASE x \in S /\ x \notin T
  <2>1. T = S \ {x}
    BY <1>2
  <2> QED
    BY <1>2, <2>1, FS_RemoveElement, FS_CardinalityType
<1>3. CASE x \notin S /\ x \in T
  <2>1. T = S \cup {x}
    BY <1>3
  <2> QED
    BY <1>3, <2>1, FS_AddElement, FS_CardinalityType
<1> QED
  BY <1>1, <1>2, <1>3

\* The sets of requests and tokens are finite.
LEMMA Finite ==
    ASSUME Rows
    PROVE  /\ \A d \in Device : /\ IsFiniteSet(LiveOf(d)) /\ Cardinality(LiveOf(d)) \in Nat
                                /\ IsFiniteSet(Strayed(d)) /\ Cardinality(Strayed(d)) \in Nat
           /\ IsFiniteSet(Minters) /\ Cardinality(Minters) \in Nat
<1>1. IsFiniteSet(1..minted)
  BY FS_Interval DEF Rows
<1>2. ASSUME NEW d \in Device PROVE LiveOf(d) \in SUBSET (1..minted) /\ Strayed(d) \in SUBSET Request
  BY DEF LiveOf, LiveTokens, Strayed
<1>3. Minters \in SUBSET Request /\ IsFiniteSet(Request)
  BY SessionsAssumption DEF Minters
<1> QED
  BY <1>1, <1>2, <1>3, FS_Subset, FS_CardinalityType

\* Tokens that die leave room: as much as a refresh awaited may need, when the one
\* it was going to retire is among them.
LEMMA Deaths ==
    ASSUME Rows, UNCHANGED <<minted, device>>, NEW d \in Device,
           \A t \in Token : revoked'[t] = Live => revoked[t] = Live
    PROVE  /\ Cardinality(LiveOf(d))' \in Nat
           /\ Cardinality(LiveOf(d))' <= Cardinality(LiveOf(d))
           /\ \A t : Owned(t, d) /\ revoked[t] = Live /\ revoked'[t] # Live =>
                 Cardinality(LiveOf(d))' + 1 <= Cardinality(LiveOf(d))
<1>1. IsFiniteSet(LiveOf(d)) /\ Cardinality(LiveOf(d)) \in Nat
  BY Finite
<1>2. LiveOf(d)' \in SUBSET LiveOf(d)
  <2>1. 1..minted \subseteq Token
    BY SessionsAssumption DEF Rows, Token
  <2> QED
    BY <2>1 DEF LiveOf, LiveTokens
<1>3. Cardinality(LiveOf(d)') \in Nat /\ Cardinality(LiveOf(d)') <= Cardinality(LiveOf(d))
  BY <1>1, <1>2, FS_Subset, FS_CardinalityType
<1>4. ASSUME NEW t, Owned(t, d), revoked[t] = Live, revoked'[t] # Live
      PROVE  Cardinality(LiveOf(d)') + 1 <= Cardinality(LiveOf(d))
  <2>1. t \in LiveOf(d)
    BY <1>4 DEF LiveOf, LiveTokens, Owned
  <2>2. LiveOf(d)' \in SUBSET (LiveOf(d) \ {t})
    BY <1>2, <1>4 DEF LiveOf, LiveTokens
  <2>3. IsFiniteSet(LiveOf(d) \ {t}) /\ Cardinality(LiveOf(d) \ {t}) = Cardinality(LiveOf(d)) - 1
    BY <1>1, <2>1, FS_RemoveElement
  <2>4. Cardinality(LiveOf(d)') <= Cardinality(LiveOf(d) \ {t})
    BY <2>2, <2>3, FS_Subset
  <2> QED
    BY <1>1, <1>3, <2>3, <2>4
<1> QED
  BY <1>3, <1>4

\* What is due to a request that stays where it is grows by one at most, and only
\* when the token it retires dies.
LEMMA DueUntouched ==
    ASSUME SessionInv, UNCHANGED <<minted, device>>, NEW d \in Device,
           \A t \in Token : revoked'[t] = Live => revoked[t] = Live,
           waiting'[d] = waiting[d], waiting[d] # Nobody => op'[waiting[d]] = op[waiting[d]]
    PROVE  /\ Due(d) \in -1..1 /\ Due(d)' \in -1..1
           /\ Cardinality(LiveOf(d))' + Due(d)' <= Cardinality(LiveOf(d)) + Due(d)
<1> DEFINE w == waiting[d]
           o == op[waiting[d]]
<1>1. Rows
  BY DEF SessionInv
<1>2. /\ Cardinality(LiveOf(d)) \in Nat /\ Cardinality(LiveOf(d))' \in Nat
      /\ Cardinality(LiveOf(d))' <= Cardinality(LiveOf(d))
  BY <1>1, Deaths, Finite
<1>3. Due(d) \in -1..1 /\ Due(d)' \in -1..1
  BY DEF Due
<1>4. CASE Due(d)' <= Due(d)
  BY <1>2, <1>3, <1>4
<1>5. CASE Due(d)' > Due(d)
  <2>1. /\ w # Nobody /\ ~LoginOp(o) /\ o.step \in {"user", "mint", "rotate"}
        /\ revoked[o.retired] = Live /\ revoked'[o.retired] # Live
    BY <1>5 DEF Due, LoginOp
  <2>2. Due(d)' = Due(d) + 1
    BY <2>1 DEF Due, LoginOp
  <2>3. Owned(o.retired, d)
    <3>1. w \in Request
      BY <1>1, <2>1 DEF Rows
    <3>2. OpOwned(o) /\ o.d = d
      BY <2>1, <3>1 DEF SessionInv, TokensOwned, AwaitsItsOwn
    <3> QED
      BY <2>1, <3>2 DEF OpOwned, LoginOp
  <2>4. Cardinality(LiveOf(d))' + 1 <= Cardinality(LiveOf(d))
    BY <1>1, <2>1, <2>3, Deaths
  <2> QED
    BY <1>2, <1>3, <2>2, <2>4
<1> QED
  BY <1>3, <1>4, <1>5

-----------------------------------------------------------------------------
(* The steps of the sessions *)

\* Whatever a request does next that mints nothing and opens no new way to mint.
LEMMA NoMintInv ==
    ASSUME SessionInv, Rows', NEW r \in Request, NEW o, op' = [op EXCEPT ![r] = o],
           UNCHANGED <<minted, device, replacedBy, logins, strays>>,
           \A t \in Token : revoked'[t] = Live => revoked[t] = Live,
           \A t \in Token : t > minted => revoked'[t] = Live,
           \A d \in Device : held'[d] # 0 => Owned(held'[d], d),
           OpOwned(o), o.step # "rotate",
           PreMint(o) => PreMint(op[r]) /\ o.d = op[r].d,
           LoginOp(o) => LoginOp(op[r]),
           ~LoginOp(o) /\ o.step \in {"user", "mint"} =>
               \/ revoked'[o.retired] = Live
               \/ op[r].step = "user" /\ o.retired = op[r].retired /\ revoked' = revoked,
           \A d \in Device :
               \/ waiting[d] # r /\ waiting'[d] = waiting[d]
               \/ waiting[d] = r /\ waiting'[d] = Nobody /\ op[r].step = "answer" /\ ~PreMint(o)
               \/ /\ waiting[d] = r /\ waiting'[d] = r /\ op[r].step # "rotate"
                  /\ o.d = op[r].d /\ (PreMint(o) \/ o.step = "answer")
    PROVE  SessionInv'
<1>1. Rows
  BY DEF SessionInv
<1>2. \A q \in Request : op'[q] = IF q = r THEN o ELSE op[q]
  BY <1>1 DEF Rows
<1>3. Nobody \notin Request
  BY SessionsAssumption
<1>4. TokensOwned'
  <2>1. \A q \in Request : OpOwned(op'[q])
    BY <1>2 DEF SessionInv, TokensOwned
  <2>2. \A q \in Request : OpOwned(op[q])'
    BY <2>1 DEF OpOwned, Owned
  <2>3. Minters' \in SUBSET Minters
    BY <1>2 DEF Minters, PreMint, LoginOp, RefreshOp
  <2>4. Cardinality(Minters') \in Nat /\ Cardinality(Minters') <= Cardinality(Minters)
    BY <1>1, <2>3, Finite, FS_Subset, FS_CardinalityType
  <2>5. minted' + Cardinality(Minters') <= MaxTokens
    BY <1>1, <2>4, Finite, SessionsAssumption DEF SessionInv, TokensOwned, Rows
  <2> QED
    BY <2>2, <2>5 DEF SessionInv, TokensOwned, Owned
<1>5. AwaitsItsOwn'
  <2>1. ASSUME NEW d \in Device, waiting'[d] # Nobody
        PROVE  LET p == op'[waiting'[d]]
               IN  (PreMint(p) \/ p.step \in {"rotate", "answer"}) /\ p.d = d
    <3>1. waiting[d] = waiting'[d] /\ waiting[d] \in Request
      BY <1>1, <2>1 DEF Rows
    <3> QED
      BY <1>2, <2>1, <3>1 DEF SessionInv, AwaitsItsOwn
  <2> QED
    BY <2>1 DEF AwaitsItsOwn, PreMint, LoginOp, RefreshOp
<1>6. ASSUME NEW d \in Device
      PROVE  /\ Cardinality(LiveOf(d))' \in Nat /\ Due(d)' \in -1..1 /\ Due(d) \in -1..1
             /\ Cardinality(LiveOf(d))' + Due(d)' <= Cardinality(LiveOf(d)) + Due(d)
  <2>0. Cardinality(LiveOf(d))' \in Nat /\ Cardinality(LiveOf(d))' <= Cardinality(LiveOf(d))
    BY <1>1, Deaths
  <2>1. CASE waiting[d] # r /\ waiting'[d] = waiting[d]
    <3>1. waiting[d] # Nobody => op'[waiting[d]] = op[waiting[d]]
      BY <1>1, <1>2, <2>1 DEF Rows
    <3> QED
      BY <2>0, <2>1, <3>1, DueUntouched
  <2>2. CASE waiting[d] = r /\ waiting'[d] = Nobody /\ op[r].step = "answer"
    <3>1. Due(d) = 0 /\ Due(d)' = 0
      BY <1>3, <2>2 DEF Due, LoginOp
    <3> QED
      BY <1>1, <2>0, <3>1, Finite
  <2>3. CASE /\ waiting[d] = r /\ waiting'[d] = r /\ op[r].step # "rotate"
             /\ PreMint(o) \/ o.step = "answer"
    <3>1. Due(d) \in 0..1
      BY <1>3, <2>3 DEF Due
    <3>2. Due(d)' = IF LoginOp(o) THEN 1
                    ELSE IF o.step \in {"user", "mint"}
                         THEN IF revoked'[o.retired] = Live THEN 0 ELSE 1
                         ELSE 0
      BY <1>2, <1>3, <2>3 DEF Due, LoginOp
    <3>3. LoginOp(o) => Due(d) = 1
      BY <1>3, <2>3 DEF Due
    <3>4. ~LoginOp(o) /\ o.step \in {"user", "mint"} => Due(d)' <= Due(d)
      <4>1. ASSUME ~LoginOp(o), o.step \in {"user", "mint"}, revoked'[o.retired] # Live
            PROVE  Due(d) = 1
        BY <1>3, <2>3, <4>1 DEF Due
      <4> QED
        BY <3>1, <3>2, <4>1
    <3>5. Due(d)' <= Due(d) /\ Due(d)' \in 0..1
      BY <3>1, <3>2, <3>3, <3>4
    <3> QED
      BY <1>1, <2>0, <3>1, <3>5, Finite
  <2> QED
    BY <2>1, <2>2, <2>3
<1>7. ASSUME NEW d \in Device
      PROVE  /\ Cardinality(Strayed(d))' \in Nat
             /\ Cardinality(Strayed(d))' <= Cardinality(Strayed(d))
  <2>1. ASSUME NEW q \in Request, PreMint(op'[q]), op'[q].d = d, waiting'[d] # q
        PROVE  PreMint(op[q]) /\ op[q].d = d /\ waiting[d] # q
    BY <1>2, <1>3, <2>1
  <2>2. Strayed(d)' \in SUBSET Strayed(d)
    BY <2>1 DEF Strayed, PreMint, LoginOp, RefreshOp
  <2> QED
    BY <1>1, <2>2, Finite, FS_Subset, FS_CardinalityType
<1>8. Accounted'
  <2>1. ASSUME NEW d \in Device
        PROVE  Cardinality(LiveOf(d))' + Cardinality(Strayed(d))' + Due(d)'
                   <= logins'[d] + strays'[d]
    <3>1. Cardinality(LiveOf(d)) + Cardinality(Strayed(d)) + Due(d) <= logins[d] + strays[d]
      BY DEF SessionInv, Accounted
    <3>2. logins[d] \in Int /\ strays[d] \in Int /\ logins'[d] = logins[d] /\ strays'[d] = strays[d]
      BY <1>1 DEF Rows
    <3>3. Cardinality(LiveOf(d)) \in Int /\ Cardinality(Strayed(d)) \in Int
      BY <1>1, Finite
    <3> QED
      BY <1>6, <1>7, <3>1, <3>2, <3>3
  <2> QED
    BY <2>1 DEF Accounted
<1> QED
  BY <1>4, <1>5, <1>8 DEF SessionInv

\* What changes no request: a logout of a device, the lift of a ban, time.
LEMMA QuietInv ==
    ASSUME SessionInv, Rows',
           UNCHANGED <<minted, device, replacedBy, op, waiting, logins, strays>>,
           \A t \in Token : revoked'[t] = Live => revoked[t] = Live,
           \A t \in Token : t > minted => revoked'[t] = Live,
           \A d \in Device : held'[d] # 0 => held'[d] = held[d]
    PROVE  SessionInv'
<1>1. Rows
  BY DEF SessionInv
<1>2. TokensOwned'
  BY DEF SessionInv, TokensOwned, OpOwned, Owned, Minters, PreMint, LoginOp, RefreshOp
<1>3. AwaitsItsOwn'
  BY DEF SessionInv, AwaitsItsOwn, PreMint, LoginOp, RefreshOp
<1>4. ASSUME NEW d \in Device
      PROVE  Cardinality(LiveOf(d))' + Cardinality(Strayed(d))' + Due(d)'
                   <= logins'[d] + strays'[d]
  <2>1. Cardinality(LiveOf(d)) + Cardinality(Strayed(d)) + Due(d) <= logins[d] + strays[d]
    BY DEF SessionInv, Accounted
  <2>2. /\ Due(d)' \in -1..1 /\ Due(d) \in -1..1
        /\ Cardinality(LiveOf(d))' + Due(d)' <= Cardinality(LiveOf(d)) + Due(d)
    BY DueUntouched
  <2>3. Strayed(d)' = Strayed(d)
    BY DEF Strayed, PreMint, LoginOp, RefreshOp
  <2>4. Cardinality(LiveOf(d)) \in Nat /\ Cardinality(Strayed(d)) \in Nat
        /\ Cardinality(LiveOf(d))' \in Nat
    BY <1>1, Finite, Deaths
  <2>5. logins[d] \in Int /\ strays[d] \in Int
    BY <1>1 DEF Rows
  <2> QED
    BY <2>1, <2>2, <2>3, <2>4, <2>5
<1>5. Accounted'
  BY <1>4 DEF Accounted
<1> QED
  BY <1>2, <1>3, <1>5 DEF SessionInv

\* A request sent by a client that waits for nothing: a login (or a registration,
\* or a verification) opens a way to mint, and counts as a login of the device.
LEMMA SendInv ==
    ASSUME SessionInv, Rows', NEW r \in Request, NEW d \in Device, NEW o,
           op[r] = NoOp, waiting[d] = Nobody, MayMint,
           op' = [op EXCEPT ![r] = o], waiting' = [waiting EXCEPT ![d] = r],
           UNCHANGED <<tokenVars, held, strays>>,
           OpOwned(o), o.d = d,
           \/ LoginOp(o) /\ logins' = [logins EXCEPT ![d] = @ + 1]
           \/ o.step = "sent" /\ logins' = logins
    PROVE  SessionInv'
<1>1. Rows /\ Nobody \notin Request /\ PreMint(o)
  BY SessionsAssumption DEF SessionInv, PreMint, RefreshOp
<1>2. \A q \in Request : op'[q] = IF q = r THEN o ELSE op[q]
  BY <1>1 DEF Rows
<1>3. ~PreMint(op[r])
  BY DEF PreMint, LoginOp, RefreshOp, NoOp
<1>4. TokensOwned'
  <2>1. \A q \in Request : OpOwned(op'[q])
    BY <1>2 DEF SessionInv, TokensOwned
  <2>2. \A q \in Request : OpOwned(op[q])'
    BY <2>1 DEF OpOwned, Owned, tokenVars
  <2>3. Minters' \ {r} = Minters \ {r}
    BY <1>2 DEF Minters, PreMint, LoginOp, RefreshOp
  <2>4. Cardinality(Minters') <= Cardinality(Minters) + 1 /\ Cardinality(Minters') \in Nat
        /\ Cardinality(Minters) \in Nat
    <3>1. IsFiniteSet(Minters) /\ r \notin Minters
      BY <1>1, <1>3, Finite DEF Minters
    <3>2. /\ Cardinality(Minters) \in Nat /\ Cardinality(Minters') \in Nat
          /\ r \in Minters' => Cardinality(Minters') = Cardinality(Minters) + 1
          /\ r \notin Minters' => Cardinality(Minters') = Cardinality(Minters)
      BY <2>3, <3>1, OneElement
    <3> QED
      BY <3>2
  <2>5. minted + Cardinality(Minters) < MaxTokens
    <3> DEFINE M == {q \in Request : Minting(q)}
    <3>1. M \in SUBSET Request /\ Minters \in SUBSET M
      BY DEF Minters, Minting, PreMint, LoginOp, RefreshOp
    <3>2. IsFiniteSet(M) /\ Cardinality(M) \in Nat /\ Cardinality(Minters) <= Cardinality(M)
      BY <3>1, SessionsAssumption, FS_Subset, FS_CardinalityType
    <3>3. minted + Cardinality(M) < MaxTokens
      BY DEF MayMint
    <3> HIDE DEF M
    <3> QED
      BY <1>1, <2>4, <3>2, <3>3, SessionsAssumption DEF Rows
  <2>6. minted' + Cardinality(Minters') <= MaxTokens
    BY <1>1, <2>4, <2>5, SessionsAssumption DEF Rows, tokenVars
  <2> QED
    BY <2>2, <2>6 DEF SessionInv, TokensOwned, Owned, tokenVars
<1>5. AwaitsItsOwn'
  <2>1. ASSUME NEW e \in Device, waiting'[e] # Nobody
        PROVE  LET p == op'[waiting'[e]]
               IN  (PreMint(p) \/ p.step \in {"rotate", "answer"}) /\ p.d = e
    <3>1. CASE e = d
      BY <1>1, <1>2, <3>1 DEF Rows
    <3>2. CASE e # d
      <4>1. waiting'[e] = waiting[e] /\ waiting[e] \in Request
        BY <1>1, <2>1, <3>2 DEF Rows
      <4>2. waiting[e] # r
        <5>1. op[r].step = "none"
          BY DEF NoOp
        <5> QED
          BY <1>3, <2>1, <4>1, <5>1 DEF SessionInv, AwaitsItsOwn
      <4> QED
        BY <1>2, <2>1, <4>1, <4>2 DEF SessionInv, AwaitsItsOwn
    <3> QED
      BY <3>1, <3>2
  <2> QED
    BY <2>1 DEF AwaitsItsOwn, PreMint, LoginOp, RefreshOp
<1>6. \A t \in Token : revoked'[t] = Live => revoked[t] = Live
  BY DEF tokenVars
<1>7. ASSUME NEW e \in Device
      PROVE  Cardinality(LiveOf(e))' + Cardinality(Strayed(e))' + Due(e)'
                   <= logins'[e] + strays'[e]
  <2>1. Cardinality(LiveOf(e)) + Cardinality(Strayed(e)) + Due(e) <= logins[e] + strays[e]
    BY DEF SessionInv, Accounted
  <2>2. LiveOf(e)' = LiveOf(e)
    BY DEF LiveOf, LiveTokens, tokenVars
  <2>3. Strayed(e)' = Strayed(e)
    <3>1. ASSUME NEW q \in Request
          PROVE  (PreMint(op'[q]) /\ op'[q].d = e /\ waiting'[e] # q)
                     <=> (PreMint(op[q]) /\ op[q].d = e /\ waiting[e] # q)
      BY <1>1, <1>2, <1>3 DEF Rows
    <3> QED
      BY <3>1 DEF Strayed, PreMint, LoginOp, RefreshOp
  <2>4. Cardinality(LiveOf(e)) \in Nat /\ Cardinality(Strayed(e)) \in Nat
    BY <1>1, Finite
  <2>5. logins[e] \in Int /\ strays[e] \in Int /\ strays'[e] = strays[e]
    BY <1>1 DEF Rows
  <2>6. CASE e = d
    <3>1. Due(e) = 0
      BY <2>6 DEF Due
    <3>2. LoginOp(o) => Due(e)' = 1
      BY <1>1, <1>2, <2>6 DEF Due, LoginOp, Rows
    <3>3. o.step = "sent" => Due(e)' = 0
      BY <1>1, <1>2, <2>6 DEF Due, LoginOp, Rows
    <3>4. o.step = "sent" => ~LoginOp(o)
      BY DEF LoginOp
    <3>5. logins'[e] = IF LoginOp(o) THEN logins[e] + 1 ELSE logins[e]
      BY <1>1, <2>6, <3>4 DEF Rows
    <3> QED
      BY <2>1, <2>2, <2>3, <2>4, <2>5, <3>1, <3>2, <3>3, <3>5
  <2>7. CASE e # d
    <3>1. waiting'[e] = waiting[e] /\ logins'[e] = logins[e]
      BY <1>1, <2>7 DEF Rows
    <3>2. waiting[e] # Nobody => waiting[e] \in Request \ {r}
      <4>1. op[r].step = "none"
        BY DEF NoOp
      <4> QED
        BY <1>1, <1>3, <4>1 DEF SessionInv, AwaitsItsOwn, Rows
    <3>3. waiting[e] # Nobody => op'[waiting[e]] = op[waiting[e]]
      BY <1>2, <3>2
    <3>4. /\ Due(e)' \in -1..1 /\ Due(e) \in -1..1
          /\ Cardinality(LiveOf(e))' + Due(e)' <= Cardinality(LiveOf(e)) + Due(e)
      BY <1>6, <3>1, <3>3, DueUntouched DEF tokenVars
    <3> QED
      BY <2>1, <2>2, <2>3, <2>4, <2>5, <3>1, <3>4
  <2> QED
    BY <2>6, <2>7
<1> QED
  BY <1>4, <1>5, <1>7 DEF SessionInv, Accounted

\* What a request names, by what it is doing.
LEMMA Shapes ==
    ASSUME NEW o \in AllOps
    PROVE  /\ PreMint(o) \/ o.step \in {"rotate", "answer"} => o.d \in Device
           /\ o.step = "sent" => o.t \in Token
           /\ o.step = "replacement" => o.next \in Token
           /\ o.step \in {"user", "mint"} => o.retired \in Token \cup {0}
           /\ o.step = "rotate" => o.retired \in Token /\ o.t \in Token
           /\ o.step = "answer" => o.t \in Token \cup {0}
           /\ o.step = "logout" => o.t \in Token
           /\ o.step \in {"invalidate", "create", "mail"} => o.k \in Kind
           /\ o.step \in {"mail", "verify", "code", "burn", "miss", "password"} => o.i \in Nat
           /\ o.step = "createUser" => o.d \in Device /\ o.open \in BOOLEAN
<1>1. o \in Ops => (PreMint(o) \/ o.step \in {"rotate", "answer"} => o.d \in Device)
  BY DEF Ops, NoOp, PreMint, LoginOp, RefreshOp
<1>2. o \notin Ops => (PreMint(o) \/ o.step \in {"rotate", "answer"} => o.d \in Device)
  BY DEF AllOps, PreMint, LoginOp, RefreshOp
<1> QED
  BY <1>1, <1>2 DEF AllOps, Ops, NoOp

\* A request that will have no tokens is answered, and the login is not counted.
LEMMA NoTokensInv ==
    ASSUME SessionInv, Rows', NEW r \in Request, LoginOp(op[r]), NoTokens(r), Keep
    PROVE  SessionInv'
<1> DEFINE d == op[r].d
           o == [step |-> "answer", d |-> op[r].d, t |-> 0]
<1>1. Rows /\ Nobody \notin Request /\ d \in Device /\ PreMint(op[r])
  BY Shapes, SessionsAssumption DEF SessionInv, Rows, PreMint
<1>2. /\ \A q \in Request : op'[q] = IF q = r THEN o ELSE op[q]
      /\ UNCHANGED <<minted, device, revoked, replacedBy, held, waiting, strays>>
      /\ \A e \in Device : logins'[e] = IF e = d THEN logins[e] - 1 ELSE logins[e]
  BY <1>1 DEF NoTokens, Refuse, Goto, Keep, tokenVars, Rows
<1>3. ~PreMint(o) /\ OpOwned(o) /\ o.step = "answer" /\ o.d = d
  BY DEF PreMint, LoginOp, RefreshOp, OpOwned
<1> HIDE DEF d, o
<1>4. TokensOwned'
  <2>1. \A q \in Request : OpOwned(op'[q])
    BY <1>2, <1>3 DEF SessionInv, TokensOwned
  <2>2. \A q \in Request : OpOwned(op[q])'
    BY <1>2, <2>1 DEF OpOwned, Owned
  <2>3. Minters' \in SUBSET Minters
    BY <1>2, <1>3 DEF Minters, PreMint, LoginOp, RefreshOp
  <2>4. Cardinality(Minters') \in Nat /\ Cardinality(Minters') <= Cardinality(Minters)
    BY <1>1, <2>3, Finite, FS_Subset, FS_CardinalityType
  <2>5. minted' + Cardinality(Minters') <= MaxTokens
    BY <1>1, <1>2, <2>4, Finite, SessionsAssumption DEF SessionInv, TokensOwned, Rows
  <2> QED
    BY <1>2, <2>2, <2>5 DEF SessionInv, TokensOwned, Owned
<1>5. AwaitsItsOwn'
  <2>1. ASSUME NEW e \in Device, waiting'[e] # Nobody
        PROVE  LET p == op'[waiting'[e]]
               IN  (PreMint(p) \/ p.step \in {"rotate", "answer"}) /\ p.d = e
    <3>1. waiting[e] = waiting'[e] /\ waiting[e] \in Request
      BY <1>1, <1>2, <2>1 DEF Rows
    <3>2. waiting[e] = r => d = e
      BY <3>1, <1>1, <2>1 DEF SessionInv, AwaitsItsOwn, d
    <3> QED
      BY <1>2, <1>3, <2>1, <3>1, <3>2 DEF SessionInv, AwaitsItsOwn
  <2> QED
    BY <2>1 DEF AwaitsItsOwn, PreMint, LoginOp, RefreshOp
<1>6. ASSUME NEW e \in Device
      PROVE  Cardinality(LiveOf(e))' + Cardinality(Strayed(e))' + Due(e)'
                   <= logins'[e] + strays'[e]
  <2>1. Cardinality(LiveOf(e)) + Cardinality(Strayed(e)) + Due(e) <= logins[e] + strays[e]
    BY DEF SessionInv, Accounted
  <2>2. LiveOf(e)' = LiveOf(e)
    BY <1>2 DEF LiveOf, LiveTokens
  <2>3. Cardinality(LiveOf(e)) \in Nat /\ Cardinality(Strayed(e)) \in Nat /\ IsFiniteSet(Strayed(e))
    BY <1>1, Finite
  <2>4. logins[e] \in Int /\ strays[e] \in Int /\ strays'[e] = strays[e]
    BY <1>1, <1>2 DEF Rows
  <2>5. Due(e) \in -1..1 /\ Due(e)' \in -1..1
    BY DEF Due
  <2>6. ASSUME NEW q \in Request, q # r
        PROVE  (PreMint(op'[q]) /\ op'[q].d = e /\ waiting'[e] # q)
                   <=> (PreMint(op[q]) /\ op[q].d = e /\ waiting[e] # q)
    BY <1>2, <2>6
  <2>7. Strayed(e)' \ {r} = Strayed(e) \ {r}
    BY <2>6 DEF Strayed, PreMint, LoginOp, RefreshOp
  <2>8. r \notin Strayed(e)'
    <3>1. ~PreMint(op'[r])
      BY <1>2, <1>3
    <3> QED
      BY <3>1 DEF Strayed, PreMint, LoginOp, RefreshOp
  <2>9. r \in Strayed(e) <=> e = d /\ waiting[e] # r
    BY <1>1 DEF Strayed, d
  <2>10. /\ Cardinality(Strayed(e)') \in Nat
         /\ r \in Strayed(e) => Cardinality(Strayed(e)') = Cardinality(Strayed(e)) - 1
         /\ r \notin Strayed(e) => Cardinality(Strayed(e)') = Cardinality(Strayed(e))
    BY <2>3, <2>7, <2>8, OneElement
  <2>11. CASE waiting[e] = r
    <3>1. e = d
      BY <1>1, <2>11 DEF SessionInv, AwaitsItsOwn, d
    <3>2. Due(e) = 1
      BY <1>1, <2>11 DEF Due
    <3>3. Due(e)' = 0
      BY <1>1, <1>2, <1>3, <2>11 DEF Due, LoginOp
    <3> QED
      BY <1>2, <2>1, <2>2, <2>3, <2>4, <2>9, <2>10, <2>11, <3>1, <3>2, <3>3
  <2>12. CASE waiting[e] # r
    <3>1. Due(e)' = Due(e)
      <4>1. waiting[e] # Nobody => op'[waiting[e]] = op[waiting[e]]
        BY <1>1, <1>2, <2>12 DEF Rows
      <4> QED
        BY <1>2, <4>1 DEF Due, LoginOp
    <3> QED
      BY <1>2, <2>1, <2>2, <2>3, <2>4, <2>5, <2>9, <2>10, <2>12, <3>1
  <2> QED
    BY <2>11, <2>12
<1> QED
  BY <1>4, <1>5, <1>6 DEF SessionInv, Accounted

\* A token minted is one that was due, to a request awaited or to one given up.
LEMMA MintInv ==
    ASSUME SessionInv, Rows, Rows', NEW r \in Request, Mint(r)
    PROVE  SessionInv'
<1>1. PICK d \in Device, retired \in Token \cup {0}, n \in Nat :
         /\ d = op[r].d /\ retired = op[r].retired /\ op[r].step = "mint" /\ n = minted + 1
  BY Shapes, SessionsAssumption DEF Mint, Rows, PreMint, LoginOp, RefreshOp
<1>2. PICK o : /\ op' = [op EXCEPT ![r] = o] /\ o.d = d /\ o.t = n
               /\ retired = 0 => o.step = "answer"
               /\ retired # 0 => o.step = "rotate" /\ o.retired = retired
  <2>1. CASE retired = 0
    <3> DEFINE o == [step |-> "answer", d |-> d, t |-> n]
    <3>1. op' = [op EXCEPT ![r] = o]
      BY <1>1, <2>1 DEF Mint, Goto
    <3>2. o.d = d /\ o.t = n /\ o.step = "answer"
      OBVIOUS
    <3> HIDE DEF o
    <3> QED
      BY <2>1, <3>1, <3>2
  <2>2. CASE retired # 0
    <3> DEFINE o == [step |-> "rotate", d |-> d, retired |-> retired, t |-> n]
    <3>1. op' = [op EXCEPT ![r] = o]
      BY <1>1, <2>2 DEF Mint, Goto
    <3>2. o.d = d /\ o.t = n /\ o.step = "rotate" /\ o.retired = retired
      OBVIOUS
    <3> HIDE DEF o
    <3> QED
      BY <2>2, <3>1, <3>2
  <2> QED
    BY <2>1, <2>2
<1>3. /\ \A q \in Request : op'[q] = IF q = r THEN o ELSE op[q]
      /\ UNCHANGED <<revoked, replacedBy, held, waiting, logins, strays>>
      /\ minted' = n /\ device' = [device EXCEPT ![n] = d]
      /\ ~PreMint(o) /\ PreMint(op[r]) /\ Nobody \notin Request
  BY <1>1, <1>2, SessionsAssumption
     DEF Mint, clientVars, Rows, PreMint, LoginOp, RefreshOp
<1>4. /\ n \in Token /\ minted \in Nat /\ minted + Cardinality(Minters) <= MaxTokens
      /\ minted' + Cardinality(Minters') <= MaxTokens
  <2>1. Minters' \ {r} = Minters \ {r} /\ r \in Minters /\ r \notin Minters'
    BY <1>3 DEF Minters, PreMint, LoginOp, RefreshOp
  <2>2. /\ Cardinality(Minters) \in Nat /\ Cardinality(Minters') \in Nat
        /\ Cardinality(Minters') = Cardinality(Minters) - 1
    BY <2>1, Finite, OneElement
  <2>3. minted + Cardinality(Minters) <= MaxTokens
    BY DEF SessionInv, TokensOwned
  <2> QED
    BY <1>1, <1>3, <2>2, <2>3, SessionsAssumption DEF Rows, Token
<1>5. \A t, e : Owned(t, e) => Owned(t, e)'
  BY <1>1, <1>3, <1>4 DEF Owned, Rows
<1>6. Owned(n, d)'
  BY <1>1, <1>3, <1>4 DEF Owned, Rows
<1>7. TokensOwned'
  <2>1. ASSUME NEW q \in Request, q # r PROVE OpOwned(op[q])'
    <3>1. OpOwned(op[q]) /\ op'[q] = op[q]
      BY <1>3, <2>1 DEF SessionInv, TokensOwned
    <3> QED
      BY <1>4, <1>5, <1>3, <1>1, <3>1 DEF OpOwned, Rows
  <2>2. OpOwned(op[r])'
    <3>1. retired # 0 => Owned(retired, d)
      BY <1>1 DEF SessionInv, TokensOwned, OpOwned
    <3>2. retired # 0 => Owned(retired, d)'
      BY <1>5, <3>1
    <3>3. op'[r] = o
      BY <1>3
    <3> QED
      BY <1>2, <1>6, <3>2, <3>3 DEF OpOwned
  <2>3. \A e \in Device : held'[e] # 0 => Owned(held[e], e)'
    BY <1>3, <1>5 DEF SessionInv, TokensOwned
  <2>4. ASSUME NEW t \in Token, replacedBy'[t] # 0
        PROVE  t \in 1..minted' /\ Owned(replacedBy[t], device[t])'
    <3>1. t \in 1..minted /\ Owned(replacedBy[t], device[t])
      BY <1>3, <2>4 DEF SessionInv, TokensOwned
    <3>2. device'[t] = device[t] /\ t \in 1..minted'
      BY <1>1, <1>3, <1>4, <3>1 DEF Rows
    <3> QED
      BY <1>3, <1>1, <1>4, <3>1, <3>2 DEF Owned, Rows
  <2>5. \A t \in Token : t > minted' => revoked'[t] = Live
    BY <1>1, <1>3, <1>4 DEF SessionInv, TokensOwned, Token
  <2> QED
    BY <1>3, <1>4, <2>1, <2>2, <2>3, <2>4, <2>5 DEF TokensOwned
<1>8. AwaitsItsOwn'
  <2>1. ASSUME NEW e \in Device, waiting'[e] # Nobody
        PROVE  LET p == op'[waiting'[e]]
               IN  (PreMint(p) \/ p.step \in {"rotate", "answer"}) /\ p.d = e
    <3>1. waiting[e] = waiting'[e] /\ waiting[e] \in Request
      BY <1>3, <2>1 DEF Rows
    <3>2. waiting[e] = r => d = e
      BY <1>1, <3>1, <2>1 DEF SessionInv, AwaitsItsOwn
    <3> QED
      BY <1>2, <1>3, <2>1, <3>1, <3>2 DEF SessionInv, AwaitsItsOwn
  <2> QED
    BY <2>1 DEF AwaitsItsOwn, PreMint, LoginOp, RefreshOp
<1>9. ASSUME NEW e \in Device
      PROVE  Cardinality(LiveOf(e))' + Cardinality(Strayed(e))' + Due(e)'
                   <= logins'[e] + strays'[e]
  <2>1. Cardinality(LiveOf(e)) + Cardinality(Strayed(e)) + Due(e) <= logins[e] + strays[e]
    BY DEF SessionInv, Accounted
  <2>2. /\ Cardinality(LiveOf(e)) \in Nat /\ Cardinality(Strayed(e)) \in Nat
        /\ IsFiniteSet(LiveOf(e)) /\ IsFiniteSet(Strayed(e))
    BY Finite
  <2>3. logins[e] \in Int /\ strays[e] \in Int /\ logins'[e] = logins[e] /\ strays'[e] = strays[e]
    BY <1>3 DEF Rows
  <2>4. Due(e) \in -1..1 /\ Due(e)' \in -1..1
    BY DEF Due
  <2>5. Strayed(e)' \ {r} = Strayed(e) \ {r} /\ r \notin Strayed(e)'
        /\ (r \in Strayed(e) <=> e = d /\ waiting[e] # r)
    <3>1. ASSUME NEW q \in Request, q # r
          PROVE  (PreMint(op'[q]) /\ op'[q].d = e /\ waiting'[e] # q)
                     <=> (PreMint(op[q]) /\ op[q].d = e /\ waiting[e] # q)
      BY <1>3, <3>1
    <3>2. ~PreMint(op'[r])
      BY <1>3
    <3> QED
      BY <1>1, <1>3, <3>1, <3>2 DEF Strayed, PreMint, LoginOp, RefreshOp
  <2>6. /\ Cardinality(Strayed(e)') \in Nat
        /\ r \in Strayed(e) => Cardinality(Strayed(e)') = Cardinality(Strayed(e)) - 1
        /\ r \notin Strayed(e) => Cardinality(Strayed(e)') = Cardinality(Strayed(e))
    BY <2>2, <2>5, OneElement
  <2>7. waiting[e] # r => Due(e)' = Due(e)
    <3>1. ASSUME waiting[e] # r, waiting[e] # Nobody PROVE op'[waiting[e]] = op[waiting[e]]
      BY <1>3, <3>1 DEF Rows
    <3> QED
      BY <1>3, <3>1 DEF Due, LoginOp
  <2>8. CASE e # d
    <3>1. LiveOf(e)' = LiveOf(e)
      BY <1>1, <1>3, <1>4, <2>8 DEF LiveOf, LiveTokens, Rows
    <3>2. waiting[e] # r
      BY <1>1, <1>3, <2>8 DEF SessionInv, AwaitsItsOwn
    <3> QED
      BY <2>1, <2>2, <2>3, <2>4, <2>5, <2>6, <2>7, <2>8, <3>1, <3>2
  <2>9. CASE e = d
    <3>1. LiveOf(e)' \ {n} = LiveOf(e) \ {n} /\ n \notin LiveOf(e)
      BY <1>1, <1>3, <1>4, <2>9 DEF LiveOf, LiveTokens, Rows
    <3>2. /\ Cardinality(LiveOf(e)') \in Nat
          /\ Cardinality(LiveOf(e)') <= Cardinality(LiveOf(e)) + 1
      <4>1. /\ Cardinality(LiveOf(e)') \in Nat
            /\ n \in LiveOf(e)' => Cardinality(LiveOf(e)') = Cardinality(LiveOf(e)) + 1
            /\ n \notin LiveOf(e)' => Cardinality(LiveOf(e)') = Cardinality(LiveOf(e))
        BY <2>2, <3>1, OneElement
      <4> QED
        BY <2>2, <4>1
    <3>3. ASSUME waiting[e] = r PROVE Due(e)' = Due(e) - 1
      <4>1. waiting'[e] = r /\ r # Nobody /\ op'[r] = o /\ revoked' = revoked
        BY <1>3, <3>3
      <4>2. CASE retired = 0
        <5>1. Due(e) = 1
          BY <1>1, <3>3, <4>1, <4>2 DEF Due, LoginOp
        <5>2. Due(e)' = 0
          BY <1>2, <4>1, <4>2 DEF Due, LoginOp
        <5> QED
          BY <5>1, <5>2
      <4>3. CASE retired # 0
        BY <1>1, <1>2, <3>3, <4>1, <4>3 DEF Due, LoginOp
      <4> QED
        BY <4>2, <4>3
    <3> QED
      BY <2>1, <2>2, <2>3, <2>4, <2>5, <2>6, <2>7, <2>9, <3>2, <3>3
  <2> QED
    BY <2>8, <2>9
<1> QED
  BY <1>7, <1>8, <1>9 DEF SessionInv, Accounted

\* A rotation marks the token it retires, whatever has become of it: the one it
\* minted takes its place, or that of the one somebody else retired first.
LEMMA RotateInv ==
    ASSUME SessionInv, Rows, Rows', NEW r \in Request, Rotate(r)
    PROVE  SessionInv'
<1>1. PICK d \in Device, retired \in Token, t \in Token :
         /\ d = op[r].d /\ retired = op[r].retired /\ t = op[r].t /\ op[r].step = "rotate"
  BY Shapes DEF Rotate, Rows
<1>2. PICK o : op' = [op EXCEPT ![r] = o] /\ o.d = d /\ o.t = t /\ o.step = "answer"
  <2> DEFINE o == [step |-> "answer", d |-> d, t |-> t]
  <2>1. op' = [op EXCEPT ![r] = o]
    BY <1>1 DEF Rotate, Goto
  <2>2. o.d = d /\ o.t = t /\ o.step = "answer"
    OBVIOUS
  <2> HIDE DEF o
  <2> QED
    BY <2>1, <2>2
<1>3. /\ \A q \in Request : op'[q] = IF q = r THEN o ELSE op[q]
      /\ UNCHANGED <<minted, device, held, waiting, logins, strays>>
      /\ revoked' = [revoked EXCEPT ![retired] = 0]
      /\ replacedBy' = [replacedBy EXCEPT ![retired] = t]
      /\ ~PreMint(o) /\ ~PreMint(op[r]) /\ Nobody \notin Request
  BY <1>1, <1>2, SessionsAssumption
     DEF Rotate, clientVars, histVars, Rows, PreMint, LoginOp, RefreshOp
<1>4. Owned(retired, d) /\ Owned(t, d)
  BY <1>1 DEF SessionInv, TokensOwned, OpOwned
<1>5. \A u \in Token : revoked'[u] = Live => revoked[u] = Live
  BY <1>3 DEF Rows, Live
<1>6. TokensOwned'
  <2>1. \A q \in Request : OpOwned(op'[q])
    BY <1>2, <1>3, <1>4 DEF SessionInv, TokensOwned, OpOwned
  <2>2. \A q \in Request : OpOwned(op[q])'
    BY <1>3, <2>1 DEF OpOwned, Owned
  <2>3. Minters' = Minters
    BY <1>3 DEF Minters, PreMint, LoginOp, RefreshOp
  <2>4. ASSUME NEW u \in Token, replacedBy'[u] # 0
        PROVE  u \in 1..minted' /\ Owned(replacedBy[u], device[u])'
    BY <1>3, <1>4, <2>4 DEF SessionInv, TokensOwned, Owned, Rows
  <2>5. \A u \in Token : u > minted' => revoked'[u] = Live
    BY <1>3, <1>4 DEF SessionInv, TokensOwned, Owned, Rows, Token
  <2> QED
    BY <1>3, <2>2, <2>3, <2>4, <2>5 DEF SessionInv, TokensOwned, Owned
<1>7. AwaitsItsOwn'
  <2>1. ASSUME NEW e \in Device, waiting'[e] # Nobody
        PROVE  LET p == op'[waiting'[e]]
               IN  (PreMint(p) \/ p.step \in {"rotate", "answer"}) /\ p.d = e
    <3>1. waiting[e] = waiting'[e] /\ waiting[e] \in Request
      BY <1>3, <2>1 DEF Rows
    <3>2. waiting[e] = r => d = e
      BY <1>1, <3>1, <2>1 DEF SessionInv, AwaitsItsOwn
    <3> QED
      BY <1>2, <1>3, <2>1, <3>1, <3>2 DEF SessionInv, AwaitsItsOwn
  <2> QED
    BY <2>1 DEF AwaitsItsOwn, PreMint, LoginOp, RefreshOp
<1>8. ASSUME NEW e \in Device
      PROVE  Cardinality(LiveOf(e))' + Cardinality(Strayed(e))' + Due(e)'
                   <= logins'[e] + strays'[e]
  <2>1. Cardinality(LiveOf(e)) + Cardinality(Strayed(e)) + Due(e) <= logins[e] + strays[e]
    BY DEF SessionInv, Accounted
  <2>2. /\ Cardinality(LiveOf(e)) \in Nat /\ Cardinality(Strayed(e)) \in Nat
        /\ Cardinality(LiveOf(e))' \in Nat /\ Cardinality(LiveOf(e))' <= Cardinality(LiveOf(e))
    BY <1>3, <1>5, Finite, Deaths
  <2>3. logins[e] \in Int /\ strays[e] \in Int /\ logins'[e] = logins[e] /\ strays'[e] = strays[e]
    BY <1>3 DEF Rows
  <2>4. Strayed(e)' = Strayed(e)
    <3>1. ASSUME NEW q \in Request
          PROVE  (PreMint(op'[q]) /\ op'[q].d = e /\ waiting'[e] # q)
                     <=> (PreMint(op[q]) /\ op[q].d = e /\ waiting[e] # q)
      BY <1>3, <3>1
    <3> QED
      BY <3>1 DEF Strayed, PreMint, LoginOp, RefreshOp
  <2>5. CASE waiting[e] # r
    <3>1. waiting[e] # Nobody => op'[waiting[e]] = op[waiting[e]]
      BY <1>3, <2>5 DEF Rows
    <3>2. /\ Due(e)' \in -1..1 /\ Due(e) \in -1..1
          /\ Cardinality(LiveOf(e))' + Due(e)' <= Cardinality(LiveOf(e)) + Due(e)
      BY <1>3, <1>5, <3>1, DueUntouched
    <3> QED
      BY <2>1, <2>2, <2>3, <2>4, <3>2
  <2>6. CASE waiting[e] = r
    <3>1. e = d
      BY <1>1, <1>3, <2>6 DEF SessionInv, AwaitsItsOwn
    <3>2. Due(e)' = 0
      BY <1>2, <1>3, <2>6 DEF Due, LoginOp
    <3>3. Due(e) = IF revoked[retired] = Live THEN -1 ELSE 0
      BY <1>1, <1>3, <2>6 DEF Due, LoginOp
    <3>4. revoked[retired] = Live => Cardinality(LiveOf(e))' + 1 <= Cardinality(LiveOf(e))
      <4>1. revoked'[retired] # Live
        BY <1>3 DEF Rows, Live
      <4> QED
        BY <1>3, <1>4, <1>5, <3>1, <4>1, Deaths
    <3> QED
      BY <2>1, <2>2, <2>3, <2>4, <3>2, <3>3, <3>4
  <2> QED
    BY <2>5, <2>6
<1> QED
  BY <1>6, <1>7, <1>8 DEF SessionInv, Accounted

\* A client that gives up: the request it no longer awaits counts as a stray,
\* unless its answer was ready.
LEMMA GiveUpInv ==
    ASSUME SessionInv, Rows, Rows', NEW d \in Device, LoseAnswer(d) \/ Crash(d)
    PROVE  SessionInv'
<1>1. PICK r \in Request : r = waiting[d]
  BY DEF LoseAnswer, Crash, GiveUp, Rows
<1>2. PICK o : /\ o = NoOp \/ (o = op[r] /\ op[r].step # "answer")
               /\ op' = [op EXCEPT ![r] = o]
  <2>1. CASE LoseAnswer(d) /\ op[r].step # "answer"
    <3>1. op' = [op EXCEPT ![r] = op[r]]
      BY <1>1, <2>1 DEF LoseAnswer, Rows
    <3> QED
      BY <2>1, <3>1
  <2>2. CASE ~(LoseAnswer(d) /\ op[r].step # "answer")
    <3>1. op' = [op EXCEPT ![r] = NoOp]
      BY <1>1, <2>2 DEF LoseAnswer, Crash, Goto
    <3> QED
      BY <3>1
  <2> QED
    BY <2>1, <2>2
<1>3. /\ \A q \in Request : op'[q] = IF q = r THEN o ELSE op[q]
      /\ UNCHANGED <<minted, device, revoked, replacedBy, held, logins>>
      /\ waiting' = [waiting EXCEPT ![d] = Nobody]
      /\ \A e \in Device :
             strays'[e] = IF e = d /\ op[r].step # "answer" THEN strays[e] + 1 ELSE strays[e]
      /\ Nobody \notin Request
  BY <1>1, <1>2, SessionsAssumption DEF LoseAnswer, Crash, GiveUp, tokenVars, Rows
<1>4. OpOwned(o) /\ (PreMint(o) => o = op[r]) /\ op[r].d = d
      /\ (PreMint(op[r]) \/ op[r].step \in {"rotate", "answer"})
  BY <1>1, <1>2, <1>3 DEF SessionInv, TokensOwned, AwaitsItsOwn, OpOwned, NoOp,
     PreMint, LoginOp, RefreshOp
<1>5. TokensOwned'
  <2>1. \A q \in Request : OpOwned(op'[q])
    BY <1>3, <1>4 DEF SessionInv, TokensOwned
  <2>2. \A q \in Request : OpOwned(op[q])'
    BY <1>3, <2>1 DEF OpOwned, Owned
  <2>3. Minters' \in SUBSET Minters
    BY <1>3, <1>4 DEF Minters, PreMint, LoginOp, RefreshOp
  <2>4. Cardinality(Minters') \in Nat /\ Cardinality(Minters') <= Cardinality(Minters)
    BY <2>3, Finite, FS_Subset, FS_CardinalityType
  <2>5. minted' + Cardinality(Minters') <= MaxTokens
    BY <1>3, <2>4, Finite, SessionsAssumption DEF SessionInv, TokensOwned, Rows
  <2> QED
    BY <1>3, <2>2, <2>5 DEF SessionInv, TokensOwned, Owned
<1>6. AwaitsItsOwn'
  <2>1. ASSUME NEW e \in Device, waiting'[e] # Nobody
        PROVE  LET p == op'[waiting'[e]]
               IN  (PreMint(p) \/ p.step \in {"rotate", "answer"}) /\ p.d = e
    <3>1. e # d /\ waiting[e] = waiting'[e] /\ waiting[e] \in Request
      BY <1>3, <2>1 DEF Rows
    <3>2. waiting[e] # r
      BY <1>3, <1>4, <3>1 DEF SessionInv, AwaitsItsOwn
    <3> QED
      BY <1>3, <2>1, <3>1, <3>2 DEF SessionInv, AwaitsItsOwn
  <2> QED
    BY <2>1 DEF AwaitsItsOwn, PreMint, LoginOp, RefreshOp
<1>7. ASSUME NEW e \in Device
      PROVE  Cardinality(LiveOf(e))' + Cardinality(Strayed(e))' + Due(e)'
                   <= logins'[e] + strays'[e]
  <2>1. Cardinality(LiveOf(e)) + Cardinality(Strayed(e)) + Due(e) <= logins[e] + strays[e]
    BY DEF SessionInv, Accounted
  <2>2. LiveOf(e)' = LiveOf(e)
    BY <1>3 DEF LiveOf, LiveTokens
  <2>3. Cardinality(LiveOf(e)) \in Nat /\ Cardinality(Strayed(e)) \in Nat /\ IsFiniteSet(Strayed(e))
    BY Finite
  <2>4. logins[e] \in Int /\ strays[e] \in Int /\ logins'[e] = logins[e]
    BY <1>3 DEF Rows
  <2>5. CASE e # d
    <3>1. waiting'[e] = waiting[e] /\ strays'[e] = strays[e]
      BY <1>3, <2>5 DEF Rows
    <3>2. waiting[e] # r
      BY <1>3, <1>4, <2>5 DEF SessionInv, AwaitsItsOwn
    <3>3. waiting[e] # Nobody => op'[waiting[e]] = op[waiting[e]]
      BY <1>3, <3>2 DEF Rows
    <3>4. Due(e)' = Due(e) /\ Due(e) \in -1..1
      BY <1>3, <3>1, <3>3 DEF Due, LoginOp
    <3>5. ASSUME NEW q \in Request
          PROVE  (PreMint(op'[q]) /\ op'[q].d = e /\ waiting'[e] # q)
                     <=> (PreMint(op[q]) /\ op[q].d = e /\ waiting[e] # q)
      BY <1>3, <1>4, <2>5, <3>1, <3>5
    <3>6. Strayed(e)' = Strayed(e)
      BY <3>5 DEF Strayed, PreMint, LoginOp, RefreshOp
    <3> QED
      BY <2>1, <2>2, <2>3, <2>4, <3>1, <3>4, <3>6
  <2>6. CASE e = d
    <3>1. Due(e)' = 0
      BY <1>3, <2>6 DEF Due, Rows
    <3>2. ASSUME NEW q \in Request, q # r
          PROVE  (PreMint(op'[q]) /\ op'[q].d = e /\ waiting'[e] # q)
                     <=> (PreMint(op[q]) /\ op[q].d = e /\ waiting[e] # q)
      BY <1>1, <1>3, <2>6, <3>2 DEF Rows
    <3>3. Strayed(e)' \ {r} = Strayed(e) \ {r} /\ r \notin Strayed(e)
      BY <1>1, <2>6, <3>2 DEF Strayed, PreMint, LoginOp, RefreshOp
    <3>4. /\ Cardinality(Strayed(e)') \in Nat
          /\ r \in Strayed(e)' => Cardinality(Strayed(e)') = Cardinality(Strayed(e)) + 1
          /\ r \notin Strayed(e)' => Cardinality(Strayed(e)') = Cardinality(Strayed(e))
      BY <2>3, <3>3, OneElement
    <3>5. r \in Strayed(e)' => PreMint(op[r]) /\ op[r].step # "answer"
      <4>1. r \in Strayed(e)' => PreMint(op'[r])
        BY DEF Strayed, PreMint, LoginOp, RefreshOp
      <4>2. PreMint(op[r]) => op[r].step # "answer"
        BY DEF PreMint, LoginOp, RefreshOp
      <4> QED
        BY <1>3, <1>4, <4>1, <4>2
    <3>6. /\ PreMint(op[r]) => Due(e) \in 0..1
          /\ op[r].step = "answer" => Due(e) = 0
          /\ Due(e) \in -1..1
      BY <1>1, <1>3, <2>6 DEF Due, PreMint, LoginOp, RefreshOp
    <3>7. strays'[e] = IF op[r].step # "answer" THEN strays[e] + 1 ELSE strays[e]
      BY <1>3, <2>6
    <3> QED
      BY <2>1, <2>2, <2>3, <2>4, <3>1, <3>4, <3>5, <3>6, <3>7
  <2> QED
    BY <2>5, <2>6
<1> QED
  BY <1>5, <1>6, <1>7 DEF SessionInv, Accounted

-----------------------------------------------------------------------------
(* The rows keep their types *)

SecretRow == [spent : BOOLEAN, late : BOOLEAN, tries : Nat, alone : BOOLEAN]

\* The requests the actions make.
LEMMA Makes ==
    ASSUME NEW d \in Device
    PROVE  /\ NoOp \in AllOps /\ [step |-> "cut"] \in AllOps
           /\ \A t \in Token :
                 /\ [step |-> "sent", d |-> d, t |-> t] \in AllOps
                 /\ [step |-> "replacement", d |-> d, next |-> t] \in AllOps
                 /\ [step |-> "logout", t |-> t] \in AllOps
                 /\ \A u \in Token :
                       [step |-> "rotate", d |-> d, retired |-> t, t |-> u] \in AllOps
           /\ \A t \in Token \cup {0} :
                 /\ [step |-> "user", d |-> d, retired |-> t] \in AllOps
                 /\ [step |-> "mint", d |-> d, retired |-> t] \in AllOps
                 /\ [step |-> "answer", d |-> d, t |-> t] \in AllOps
           /\ \A k \in Kind :
                 /\ [step |-> "invalidate", k |-> k] \in AllOps
                 /\ [step |-> "create", k |-> k] \in AllOps
                 /\ \A i \in Nat : [step |-> "mail", k |-> k, i |-> i] \in AllOps
           /\ \A i \in Nat : \A s \in {"verify", "code", "burn", "miss"} :
                 [step |-> s, d |-> d, i |-> i] \in AllOps
           /\ [step |-> "confirm", d |-> d] \in AllOps
           /\ \A i \in Nat : [step |-> "password", i |-> i] \in AllOps
           /\ \A b \in BOOLEAN : [step |-> "createUser", d |-> d, open |-> b] \in AllOps
  BY DEF AllOps, Ops

\* The rows of a kind that are all spent.
LEMMA AllSpentSeq ==
    ASSUME NEW rows \in Seq(SecretRow)
    PROVE  /\ AllSpent(rows) \in Seq(SecretRow)
           /\ Len(AllSpent(rows)) = Len(rows)
           /\ \A i \in 1..Len(rows) : AllSpent(rows)[i].spent /\ ~AllSpent(rows)[i].alone
<1>1. DOMAIN rows = 1..Len(rows) /\ Len(rows) \in Nat
  BY LenProperties
<1>2. Spent \in SecretRow /\ Spent.spent /\ ~Spent.alone
  BY DEF Spent, Fresh, SecretRow
<1>3. AllSpent(rows) \in [1..Len(rows) -> SecretRow]
  BY <1>1, <1>2 DEF AllSpent
<1>4. AllSpent(rows) \in Seq(SecretRow)
  BY <1>1, <1>3, SeqDef
<1>5. \A i \in 1..Len(rows) : AllSpent(rows)[i] = Spent
  BY <1>1 DEF AllSpent
<1>6. DOMAIN AllSpent(rows) = 1..Len(AllSpent(rows)) /\ Len(AllSpent(rows)) \in Nat
  BY <1>4, LenProperties
<1>7. Len(AllSpent(rows)) = Len(rows)
  BY <1>1, <1>3, <1>6
<1> QED
  BY <1>2, <1>4, <1>5, <1>7

\* A row changed, if it is there.
LEMMA ExceptRow ==
    ASSUME NEW rows \in Seq(SecretRow), NEW i, NEW e \in SecretRow
    PROVE  /\ [rows EXCEPT ![i] = e] \in Seq(SecretRow)
           /\ Len([rows EXCEPT ![i] = e]) = Len(rows)
           /\ \A j \in 1..Len(rows) : [rows EXCEPT ![i] = e][j] = IF j = i THEN e ELSE rows[j]
<1> DEFINE new == [rows EXCEPT ![i] = e]
<1>1. DOMAIN rows = 1..Len(rows) /\ Len(rows) \in Nat /\ rows \in [1..Len(rows) -> SecretRow]
  BY LenProperties
<1>2. new \in [1..Len(rows) -> SecretRow]
  BY <1>1
<1>3. new \in Seq(SecretRow)
  BY <1>1, <1>2, SeqDef
<1>4. DOMAIN new = 1..Len(new) /\ Len(new) \in Nat
  BY <1>3, LenProperties
<1>5. Len(new) = Len(rows)
  BY <1>1, <1>2, <1>4
<1>6. \A j \in 1..Len(rows) : new[j] = IF j = i THEN e ELSE rows[j]
  BY <1>1
<1> QED
  BY <1>3, <1>5, <1>6

\* A request that goes on is still a request.
LEMMA GotoRows ==
    ASSUME Rows, NEW r \in Request, NEW o \in AllOps, Goto(r, o)
    PROVE  op' \in [Request -> AllOps]
  BY DEF Rows, Goto

\* Tokens revoked, those alone that were live and minted.
LEMMA RevokeRows ==
    ASSUME Rows, NEW S, RevokeThose(S)
    PROVE  /\ revoked' \in [Token -> Age \cup {Live}]
           /\ \A t \in Token : revoked'[t] = Live => revoked[t] = Live
           /\ \A t \in Token : t > minted /\ revoked[t] = Live => revoked'[t] = Live
<1>1. 0 \in Age
  BY SessionsAssumption DEF Age, Expired
<1>2. revoked' \in [Token -> Age \cup {Live}]
  BY <1>1 DEF RevokeThose, Rows
<1>3. \A t \in Token : revoked'[t] = Live => revoked[t] = Live
  BY DEF RevokeThose, Live, Rows
<1>4. \A t \in Token : t > minted => t \notin LiveTokens
  BY SessionsAssumption DEF LiveTokens, Rows, Token
<1>5. \A t \in Token : t > minted => revoked'[t] = revoked[t]
  BY <1>4 DEF RevokeThose
<1> QED
  BY <1>2, <1>3, <1>5

\* The steps of a refresh up to the mint, and those of the client.
LEMMA RefreshRows ==
    ASSUME SessionInv, NEW r \in Request, UNCHANGED accountVars,
           \/ RefreshRead(r) \/ RefreshReplacement(r) \/ RefreshUser(r)
           \/ Deliver(r) \/ Drop(r) \/ Die(r)
    PROVE  Rows'
<1>1. Rows
  BY DEF SessionInv
<1> DEFINE o == op[r]
<1>2. o \in AllOps /\ NoOp \in AllOps
  BY <1>1 DEF Rows, AllOps, Ops
<1>3. PreMint(o) \/ o.step \in {"rotate", "answer"} => o.d \in Device
  BY <1>2, Shapes
<1>4. ASSUME PreMint(o), Refuse(r) PROVE op' \in [Request -> AllOps]
  <2>1. [step |-> "answer", d |-> o.d, t |-> 0] \in AllOps
    BY <1>3, <1>4, Makes
  <2> QED
    BY <1>1, <1>4, <2>1, GotoRows DEF Refuse
<1>5. ASSUME PreMint(o), NEW t \in Token \cup {0}, Goto(r, [step |-> "user", d |-> o.d, retired |-> t])
      PROVE op' \in [Request -> AllOps]
  <2>1. [step |-> "user", d |-> o.d, retired |-> t] \in AllOps
    BY <1>3, <1>5, Makes
  <2> QED
    BY <1>1, <1>5, <2>1, GotoRows
<1>6. CASE RefreshRead(r)
  <2>1. PreMint(o) /\ o.t \in Token
    BY <1>2, <1>6, Shapes DEF RefreshRead, PreMint, RefreshOp
  <2>2. op' \in [Request -> AllOps]
    <3>1. CASE revoked[o.t] = Live
      BY <1>5, <1>6, <2>1, <3>1 DEF RefreshRead
    <3>2. CASE revoked[o.t] # Live /\ InGrace(o.t)
      <4>1. [step |-> "replacement", d |-> o.d, next |-> replacedBy[o.t]] \in AllOps
        BY <1>1, <1>3, <2>1, <3>2, Makes DEF InGrace, Rows
      <4> QED
        BY <1>1, <1>6, <3>2, <4>1, GotoRows DEF RefreshRead
    <3>3. CASE revoked[o.t] # Live /\ ~InGrace(o.t)
      BY <1>4, <1>6, <2>1, <3>3 DEF RefreshRead
    <3> QED
      BY <3>1, <3>2, <3>3
  <2> QED
    BY <1>1, <1>6, <2>2 DEF RefreshRead, Rows, tokenVars, clientVars, histVars, accountVars
<1>7. CASE RefreshReplacement(r)
  <2>1. PreMint(o) /\ o.next \in Token
    BY <1>2, <1>7, Shapes DEF RefreshReplacement, PreMint, RefreshOp
  <2>2. op' \in [Request -> AllOps]
    BY <1>4, <1>5, <1>7, <2>1 DEF RefreshReplacement
  <2> QED
    BY <1>1, <1>7, <2>2 DEF RefreshReplacement, Rows, tokenVars, clientVars, histVars, accountVars
<1>8. CASE RefreshUser(r)
  <2>1. PreMint(o) /\ o.retired \in Token \cup {0} /\ o.step = "user"
    BY <1>2, <1>8, Shapes DEF RefreshUser, PreMint, RefreshOp
  <2>2. op' \in [Request -> AllOps]
    <3>1. [o EXCEPT !.step = "mint"] \in AllOps
      <4>1. o \in [step : {"user"}, d : Device, retired : Token \cup {0}]
        BY <1>2, <2>1 DEF AllOps, Ops, NoOp
      <4>2. [o EXCEPT !.step = "mint"] \in [step : {"mint"}, d : Device, retired : Token \cup {0}]
        BY <4>1
      <4> QED
        BY <4>2 DEF AllOps, Ops
    <3>2. CASE banned
      BY <1>4, <1>8, <2>1, <3>2 DEF RefreshUser
    <3>3. CASE ~banned
      BY <1>1, <1>8, <3>1, <3>3, GotoRows DEF RefreshUser
    <3> QED
      BY <3>2, <3>3
  <2>3. revoked' \in [Token -> Age \cup {Live}]
    BY <1>1, <1>8, RevokeRows DEF RefreshUser, Rows
  <2> QED
    BY <1>1, <1>8, <2>2, <2>3 DEF RefreshUser, Rows, clientVars, accountVars
<1>9. CASE Deliver(r) \/ Drop(r) \/ Die(r)
  <2>1. op' \in [Request -> AllOps]
    BY <1>1, <1>2, <1>9, GotoRows DEF Deliver, Drop, Die
  <2>2. held' \in [Device -> Token \cup {0}] /\ waiting' \in [Device -> Request \cup {Nobody}]
    <3>1. o.step = "answer" => o.t \in Token \cup {0}
      BY <1>2, Shapes
    <3> QED
      BY <1>1, <1>9, <3>1 DEF Deliver, Drop, Die, Rows, clientVars
  <2> QED
    BY <1>1, <1>9, <2>1, <2>2 DEF Deliver, Drop, Die, Rows, tokenVars, histVars, accountVars
<1> QED
  BY <1>6, <1>7, <1>8, <1>9

\* The mint finds room for its token: each request that may still mint has one.
LEMMA MintRows ==
    ASSUME SessionInv, NEW r \in Request, UNCHANGED accountVars, Mint(r) \/ Rotate(r)
    PROVE  Rows'
<1>1. Rows /\ op[r] \in AllOps
  BY DEF SessionInv, Rows
<1>2. op[r].d \in Device
  BY <1>1, Shapes DEF Mint, Rotate, PreMint, LoginOp, RefreshOp
<1>3. CASE Mint(r)
  <2>1. op[r].retired \in Token \cup {0}
    BY <1>1, <1>3, Shapes DEF Mint
  <2>2. minted' \in 0..MaxTokens /\ minted' \in Token
    <3>1. PreMint(op[r])
      BY <1>3 DEF Mint, PreMint, LoginOp, RefreshOp
    <3>2. r \in Minters
      BY <3>1 DEF Minters
    <3>3. IsFiniteSet(Minters) /\ Cardinality(Minters) \in Nat
      BY <1>1, Finite
    <3>4. Cardinality(Minters) # 0
      BY <3>2, <3>3, FS_EmptySet
    <3>5. minted + Cardinality(Minters) <= MaxTokens
      BY DEF SessionInv, TokensOwned
    <3> QED
      BY <1>1, <1>3, <3>3, <3>4, <3>5, SessionsAssumption DEF Mint, Rows, Token
  <2>3. op' \in [Request -> AllOps]
    <3>1. CASE op[r].retired = 0
      <4>1. [step |-> "answer", d |-> op[r].d, t |-> minted'] \in AllOps
        BY <1>2, <2>2, Makes
      <4> QED
        BY <1>1, <1>3, <3>1, <4>1, GotoRows DEF Mint
    <3>2. CASE op[r].retired # 0
      <4>1. [step |-> "rotate", d |-> op[r].d, retired |-> op[r].retired, t |-> minted'] \in AllOps
        BY <1>2, <2>1, <2>2, <3>2, Makes
      <4> QED
        BY <1>1, <1>3, <3>2, <4>1, GotoRows DEF Mint
    <3> QED
      BY <3>1, <3>2
  <2> QED
    BY <1>1, <1>2, <1>3, <2>2, <2>3 DEF Mint, Rows, clientVars, accountVars
<1>4. CASE Rotate(r)
  <2>1. op[r].retired \in Token /\ op[r].t \in Token
    BY <1>1, <1>4, Shapes DEF Rotate
  <2>2. [step |-> "answer", d |-> op[r].d, t |-> op[r].t] \in AllOps
    BY <1>2, <2>1, Makes
  <2>3. op' \in [Request -> AllOps]
    BY <1>1, <1>4, <2>2, GotoRows DEF Rotate
  <2>4. 0 \in Age
    BY SessionsAssumption DEF Age, Expired
  <2> QED
    BY <1>1, <1>4, <2>1, <2>3, <2>4 DEF Rotate, Rows, clientVars, histVars, accountVars
<1> QED
  BY <1>3, <1>4

\* The steps of a client, and of a server that dies.
LEMMA ClientRows ==
    ASSUME SessionInv, NEW d \in Device, NEW r \in Request, UNCHANGED accountVars,
           \/ RefreshSend(r, d) \/ LogoutToken(r, d) \/ Login(r, d)
           \/ LoseAnswer(d) \/ Crash(d)
    PROVE  Rows'
<1>1. Rows /\ op[r] \in AllOps
  BY DEF SessionInv, Rows
<1>2. NoOp \in AllOps /\ 0 \in Token \cup {0}
  BY Makes
<1>3. CASE RefreshSend(r, d) \/ LogoutToken(r, d)
  <2>1. held[d] \in Token
    BY <1>1, <1>3 DEF RefreshSend, LogoutToken, Rows
  <2>2. /\ [step |-> "sent", d |-> d, t |-> held[d]] \in AllOps
        /\ [step |-> "logout", t |-> held[d]] \in AllOps
    BY <2>1, Makes
  <2>3. op' \in [Request -> AllOps]
    BY <1>1, <1>3, <2>2, GotoRows DEF RefreshSend, LogoutToken, Rows
  <2> QED
    BY <1>1, <1>3, <2>3 DEF RefreshSend, LogoutToken, Rows, tokenVars, histVars, accountVars
<1>4. CASE Login(r, d)
  <2>1. [step |-> "mint", d |-> d, retired |-> 0] \in AllOps
    BY <1>2, Makes
  <2>2. op' \in [Request -> AllOps]
    BY <1>1, <1>4, <2>1, GotoRows DEF Login
  <2> QED
    BY <1>1, <1>4, <2>2 DEF Login, Rows, tokenVars, accountVars
<1>5. CASE LoseAnswer(d) \/ Crash(d)
  <2>1. waiting[d] \in Request
    BY <1>1, <1>5 DEF LoseAnswer, Crash, GiveUp, Rows
  <2>2. op' \in [Request -> AllOps]
    BY <1>1, <1>2, <1>5, <2>1, GotoRows DEF LoseAnswer, Crash, Goto, Rows
  <2>3. strays' \in [Device -> Nat]
    BY <1>1, <1>5 DEF LoseAnswer, Crash, GiveUp, Rows
  <2>4. waiting' \in [Device -> Request \cup {Nobody}]
    BY <1>1, <1>5 DEF LoseAnswer, Crash, GiveUp, Rows
  <2> QED
    BY <1>1, <1>5, <2>2, <2>3, <2>4 DEF LoseAnswer, Crash, Rows, tokenVars, accountVars
<1> QED
  BY <1>3, <1>4, <1>5

\* The steps of a request that ends sessions.
LEMMA CutRows ==
    ASSUME SessionInv, NEW r \in Request, UNCHANGED accountVars,
           \/ LogoutWrite(r) \/ RevokeAll(r) \/ \E ban \in BOOLEAN : BeginCut(r, ban)
    PROVE  Rows'
<1>1. Rows /\ op[r] \in AllOps
  BY DEF SessionInv, Rows
<1>2. NoOp \in AllOps /\ [step |-> "cut"] \in AllOps
  BY DEF AllOps, Ops
<1>3. CASE LogoutWrite(r)
  <2>1. 0 \in Age /\ op' \in [Request -> AllOps]
    BY <1>1, <1>2, <1>3, GotoRows, SessionsAssumption DEF LogoutWrite, Age, Expired
  <2> QED
    BY <1>1, <1>3, <2>1 DEF LogoutWrite, Rows, clientVars, histVars, accountVars
<1>4. CASE RevokeAll(r)
  <2>1. revoked' \in [Token -> Age \cup {Live}] /\ op' \in [Request -> AllOps]
    BY <1>1, <1>2, <1>4, RevokeRows, GotoRows DEF RevokeAll
  <2> QED
    BY <1>1, <1>4, <2>1 DEF RevokeAll, Rows, clientVars, accountVars
<1>5. ASSUME NEW ban \in BOOLEAN, BeginCut(r, ban) PROVE Rows'
  <2>1. op' \in [Request -> AllOps]
    BY <1>1, <1>2, <1>5, GotoRows DEF BeginCut
  <2> QED
    BY <1>1, <1>5, <2>1 DEF BeginCut, Rows, tokenVars, clientVars, histVars, accountVars
<1> QED
  BY <1>3, <1>4, <1>5

\* The steps of no request.
LEMMA IdleRows ==
    ASSUME SessionInv, UNCHANGED accountVars,
           (\E d \in Device : LogoutDevice(d)) \/ Unban \/ Tick
    PROVE  Rows'
<1>1. Rows
  BY DEF SessionInv
<1>2. ASSUME NEW d \in Device, LogoutDevice(d) PROVE Rows'
  <2>1. revoked' \in [Token -> Age \cup {Live}]
    BY <1>1, <1>2, RevokeRows DEF LogoutDevice
  <2> QED
    BY <1>1, <1>2, <2>1 DEF LogoutDevice, Rows, accountVars
<1>3. CASE Unban
  BY <1>1, <1>3 DEF Unban, Rows, tokenVars, clientVars, histVars, accountVars
<1>4. CASE Tick
  <2>1. \A a \in Age : a # Expired => a + 1 \in Age
    BY SessionsAssumption DEF Age, Expired
  <2>2. revoked' \in [Token -> Age \cup {Live}]
    BY <1>1, <1>4, <2>1 DEF Tick, Rows
  <2> QED
    BY <1>1, <1>4, <2>2 DEF Tick, Rows, clientVars, histVars, accountVars
<1> QED
  BY <1>2, <1>3, <1>4

\* The steps of a mail.
LEMMA MailRows ==
    ASSUME SessionInv, NEW r \in Request,
           \/ Invalidate(r) \/ CreateSecret(r) \/ UseLink(r)
           \/ \E sent \in BOOLEAN : Mail(r, sent)
           \/ \E k \in Kind : Ask(r, k)
    PROVE  Rows'
<1>1. Rows /\ op[r] \in AllOps
  BY DEF SessionInv, Rows
<1>2. NoOp \in AllOps /\ [step |-> "cut"] \in AllOps
  BY DEF AllOps, Ops
<1>3. /\ op[r].step \in {"invalidate", "create", "mail"} => op[r].k \in Kind
      /\ op[r].step \in {"mail", "password"} => op[r].i \in Nat
  BY <1>1, Shapes
<1>4. \A k \in Kind : secret[k] \in Seq(SecretRow)
  BY <1>1 DEF Rows, SecretRow
<1>5. \A k \in Kind : \A i \in Nat : /\ [step |-> "invalidate", k |-> k] \in AllOps
                                     /\ [step |-> "create", k |-> k] \in AllOps
                                     /\ [step |-> "mail", k |-> k, i |-> i] \in AllOps
  BY DEF AllOps
<1>6. CASE Invalidate(r)
  <2>1. op[r] = [step |-> "invalidate", k |-> op[r].k]
    BY <1>1, <1>6 DEF Invalidate, AllOps, Ops, NoOp
  <2>2. [op[r] EXCEPT !.step = "create"] = [step |-> "create", k |-> op[r].k]
    BY <2>1
  <2>3. op' \in [Request -> AllOps]
    BY <1>1, <1>3, <1>5, <1>6, <2>2, GotoRows DEF Invalidate
  <2>4. secret' \in [Kind -> Seq(SecretRow)]
    BY <1>1, <1>3, <1>4, <1>6, AllSpentSeq DEF Invalidate, Rows, SecretRow
  <2> QED
    BY <1>1, <1>6, <2>3, <2>4 DEF Invalidate, Keep, Rows, tokenVars, SecretRow
<1>7. CASE CreateSecret(r)
  <2>1. [Fresh EXCEPT !.alone = Sending(op[r].k) = {r}] \in SecretRow
    BY DEF Fresh, SecretRow
  <2>2. secret' \in [Kind -> Seq(SecretRow)]
    BY <1>1, <1>3, <1>4, <1>7, <2>1, AppendProperties DEF CreateSecret, Rows, SecretRow
  <2>3. Len(secret'[op[r].k]) \in Nat
    BY <1>3, <1>7, <2>2, LenProperties DEF CreateSecret
  <2>4. op' \in [Request -> AllOps]
    BY <1>1, <1>3, <1>5, <1>7, <2>3, GotoRows DEF CreateSecret
  <2> QED
    BY <1>1, <1>7, <2>2, <2>4 DEF CreateSecret, Keep, Rows, tokenVars, SecretRow
<1>8. CASE UseLink(r)
  <2>1. "link" \in Kind /\ Spent \in SecretRow
    BY DEF Kind, Spent, Fresh, SecretRow
  <2>2. [secret["link"] EXCEPT ![op[r].i] = Spent] \in Seq(SecretRow)
    BY <1>4, <2>1, ExceptRow
  <2>3. secret' = [secret EXCEPT !["link"] = [secret["link"] EXCEPT ![op[r].i] = Spent]]
    BY <1>8 DEF UseLink
  <2>4. secret' \in [Kind -> Seq(SecretRow)]
    BY <1>1, <2>1, <2>2, <2>3 DEF Rows, SecretRow
  <2>5. op' \in [Request -> AllOps]
    BY <1>1, <1>2, <1>8, GotoRows DEF UseLink
  <2> QED
    BY <1>1, <1>8, <2>4, <2>5 DEF UseLink, Keep, Rows, tokenVars, SecretRow
<1>9. ASSUME NEW sent \in BOOLEAN, Mail(r, sent) PROVE Rows'
  <2>1. op' \in [Request -> AllOps]
    BY <1>1, <1>2, <1>9, GotoRows DEF Mail
  <2>2. inbox' \in [Kind -> Nat]
    BY <1>1, <1>3, <1>9 DEF Mail, Rows
  <2> QED
    BY <1>1, <1>9, <2>1, <2>2 DEF Mail, Keep, Rows, tokenVars
<1>10. ASSUME NEW k \in Kind, Ask(r, k) PROVE Rows'
  <2>1. op' \in [Request -> AllOps]
    BY <1>1, <1>5, <1>10, GotoRows DEF Ask
  <2> QED
    BY <1>1, <1>10, <2>1 DEF Ask, Keep, Rows, tokenVars, accountVars
<1> QED
  BY <1>6, <1>7, <1>8, <1>9, <1>10

\* The steps of a registration, of a verification and of a reset.
LEMMA AccountRows ==
    ASSUME SessionInv, NEW r \in Request,
           \/ CreateUser(r) \/ VerifyUser(r) \/ VerifyCode(r) \/ Miss(r) \/ Burn(r)
           \/ Confirm(r) \/ ConfirmReset(r)
           \/ \E d \in Device, open \in BOOLEAN : Register(r, d, open)
           \/ \E d \in Device, i \in {0, inbox["code"]} : Verify(r, d, i)
    PROVE  Rows'
<1>1. Rows /\ op[r] \in AllOps
  BY DEF SessionInv, Rows
<1>2. NoOp \in AllOps /\ "code" \in Kind /\ "link" \in Kind
  BY DEF AllOps, Ops, Kind
<1>3. /\ op[r].step \in {"createUser", "verify", "code", "miss", "burn", "confirm"}
             => op[r].d \in Device
      /\ op[r].step \in {"verify", "code", "miss", "burn"} => op[r].i \in Nat
      /\ op[r].step = "createUser" => op[r].open \in BOOLEAN
  BY <1>1, Shapes DEF PreMint, LoginOp
<1>4. \A k \in Kind : secret[k] \in Seq(SecretRow)
  BY <1>1 DEF Rows, SecretRow
<1>5. ASSUME NEW d \in Device
      PROVE  /\ [step |-> "mint", d |-> d, retired |-> 0] \in AllOps
             /\ [step |-> "answer", d |-> d, t |-> 0] \in AllOps
             /\ [step |-> "confirm", d |-> d] \in AllOps
             /\ [step |-> "invalidate", k |-> "code"] \in AllOps
             /\ \A b \in BOOLEAN : [step |-> "createUser", d |-> d, open |-> b] \in AllOps
             /\ \A i \in Nat : /\ [step |-> "password", i |-> i] \in AllOps
                               /\ \A s \in {"verify", "code", "burn", "miss"} :
                                     [step |-> s, d |-> d, i |-> i] \in AllOps
  BY <1>2, <1>5, Makes
<1>6. ASSUME op[r].d \in Device, NoTokens(r)
      PROVE  op' \in [Request -> AllOps] /\ logins' \in [Device -> Int] /\ waiting' = waiting
  <2>1. [step |-> "answer", d |-> op[r].d, t |-> 0] \in AllOps
    BY <1>5, <1>6
  <2>2. op' \in [Request -> AllOps]
    BY <1>1, <1>6, <2>1, GotoRows DEF NoTokens, Refuse
  <2>3. logins' \in [Device -> Int]
    BY <1>1, <1>6 DEF NoTokens, Rows
  <2> QED
    BY <1>6, <2>2, <2>3 DEF NoTokens
<1>7. CASE CreateUser(r)
  <2>1. op[r].d \in Device /\ op[r].open \in BOOLEAN
    BY <1>3, <1>7 DEF CreateUser
  <2>2. op' \in [Request -> AllOps] /\ logins' \in [Device -> Int] /\ waiting' = waiting
    <3>1. CASE account # "none" /\ op[r].open
      BY <1>6, <1>7, <2>1, <3>1 DEF CreateUser
    <3>2. CASE account # "none" /\ ~op[r].open
      BY <1>1, <1>2, <1>7, <3>2, GotoRows DEF CreateUser, Rows
    <3>3. CASE account = "none" /\ op[r].open
      BY <1>1, <1>5, <1>7, <2>1, <3>3, GotoRows DEF CreateUser, Rows
    <3>4. CASE account = "none" /\ ~op[r].open
      BY <1>1, <1>5, <1>7, <2>1, <3>4, GotoRows DEF CreateUser, Rows
    <3> QED
      BY <2>1, <3>1, <3>2, <3>3, <3>4
  <2>3. account' \in {"none", "unverified", "verified"}
    BY <1>1, <1>7 DEF CreateUser, Rows
  <2> QED
    BY <1>1, <1>7, <2>2, <2>3 DEF CreateUser, Keep, Rows, tokenVars
<1>8. CASE VerifyUser(r)
  <2>1. op[r].d \in Device /\ op[r].i \in Nat
    BY <1>3, <1>8 DEF VerifyUser
  <2>2. [op[r] EXCEPT !.step = "code"] = [step |-> "code", d |-> op[r].d, i |-> op[r].i]
    <3>1. op[r] = [step |-> "verify", d |-> op[r].d, i |-> op[r].i]
      BY <1>1, <1>8 DEF VerifyUser, AllOps, Ops, NoOp
    <3> QED
      BY <3>1
  <2>3. op' \in [Request -> AllOps]
    BY <1>1, <1>5, <1>8, <2>1, <2>2, GotoRows DEF VerifyUser
  <2> QED
    BY <1>1, <1>8, <2>3 DEF VerifyUser, Keep, Rows, tokenVars, accountVars
<1>9. CASE VerifyCode(r)
  <2>1. op[r].d \in Device
    BY <1>3, <1>9 DEF VerifyCode
  <2>2. Active("code") \subseteq Nat
    BY <1>2, <1>4, LenProperties DEF Active, Unspent
  <2>3. op' \in [Request -> AllOps] /\ logins' \in [Device -> Int] /\ waiting' = waiting
    <3>1. CASE NoTokens(r)
      BY <1>6, <2>1, <3>1
    <3>2. CASE ~NoTokens(r)
      <4>1. PICK i \in Active("code") :
               /\ Goto(r, [step |-> IF op[r].i = i THEN "burn" ELSE "miss", d |-> op[r].d, i |-> i])
               /\ UNCHANGED <<waiting, logins>>
        BY <1>9, <3>2 DEF VerifyCode
      <4>2. [step |-> IF op[r].i = i THEN "burn" ELSE "miss", d |-> op[r].d, i |-> i] \in AllOps
        BY <1>5, <2>1, <2>2
      <4> QED
        BY <1>1, <4>1, <4>2, GotoRows DEF Rows
    <3> QED
      BY <3>1, <3>2
  <2> QED
    BY <1>1, <1>9, <2>3 DEF VerifyCode, Keep, Rows, tokenVars, accountVars
<1>10. CASE Miss(r)
  <2>1. op[r].d \in Device
    BY <1>3, <1>10 DEF Miss
  <2>2. op' \in [Request -> AllOps] /\ logins' \in [Device -> Int] /\ waiting' = waiting
    BY <1>6, <1>10, <2>1 DEF Miss
  <2>3. secret' \in [Kind -> Seq(SecretRow)]
    <3> DEFINE rows == secret["code"]
               i == op[r].i
               e == [rows[i] EXCEPT !.tries = @ + 1]
    <3>1. secret' = [secret EXCEPT !["code"] = [rows EXCEPT ![i] = e]]
      BY <1>10 DEF Miss
    <3>2. [rows EXCEPT ![i] = e] \in Seq(SecretRow)
      <4>1. rows \in Seq(SecretRow) /\ DOMAIN rows = 1..Len(rows) /\ Len(rows) \in Nat
            /\ rows \in [1..Len(rows) -> SecretRow]
        BY <1>2, <1>4, LenProperties
      <4>2. CASE i \in 1..Len(rows)
        <5>1. rows[i] \in SecretRow
          BY <4>1, <4>2
        <5>2. e \in SecretRow
          BY <5>1 DEF SecretRow
        <5>3. \A q \in Seq(SecretRow), x \in SecretRow : [q EXCEPT ![i] = x] \in Seq(SecretRow)
          BY ExceptRow
        <5> QED
          BY <4>1, <5>2, <5>3
      <4>3. CASE i \notin 1..Len(rows)
        <5>1. [rows EXCEPT ![i] = e] = rows
          BY <4>1, <4>3
        <5> QED
          BY <4>1, <5>1
      <4> QED
        BY <4>2, <4>3
    <3> QED
      BY <1>1, <3>1, <3>2 DEF Rows, SecretRow
  <2> QED
    BY <1>1, <1>10, <2>2, <2>3 DEF Miss, Keep, Rows, tokenVars, SecretRow
<1>11. CASE Burn(r)
  <2>1. op[r].d \in Device /\ Spent \in SecretRow
    BY <1>3, <1>11 DEF Burn, Spent, Fresh, SecretRow
  <2>2. [secret["code"] EXCEPT ![op[r].i] = Spent] \in Seq(SecretRow)
    BY <1>2, <1>4, <2>1, ExceptRow
  <2>3. secret' = [secret EXCEPT !["code"] = [secret["code"] EXCEPT ![op[r].i] = Spent]]
    BY <1>11 DEF Burn
  <2>4. secret' \in [Kind -> Seq(SecretRow)]
    BY <1>1, <2>2, <2>3 DEF Rows, SecretRow
  <2>5. op' \in [Request -> AllOps]
    BY <1>1, <1>5, <1>11, <2>1, GotoRows DEF Burn
  <2> QED
    BY <1>1, <1>11, <2>4, <2>5 DEF Burn, Keep, Rows, tokenVars, SecretRow
<1>12. CASE Confirm(r)
  <2>1. op[r].d \in Device
    BY <1>3, <1>12 DEF Confirm
  <2>2. op' \in [Request -> AllOps]
    BY <1>1, <1>5, <1>12, <2>1, GotoRows DEF Confirm
  <2>3. secret' \in [Kind -> Seq(SecretRow)]
    BY <1>1, <1>2, <1>4, <1>12, AllSpentSeq DEF Confirm, Rows, SecretRow
  <2> QED
    BY <1>1, <1>12, <2>2, <2>3 DEF Confirm, Keep, Rows, tokenVars, SecretRow
<1>13. CASE ConfirmReset(r)
  <2>1. inbox["link"] \in Nat
    BY <1>1, <1>2 DEF Rows
  <2>2. [step |-> "password", i |-> inbox["link"]] \in AllOps
    BY <2>1 DEF AllOps
  <2>3. op' \in [Request -> AllOps]
    BY <1>1, <1>13, <2>2, GotoRows DEF ConfirmReset
  <2> QED
    BY <1>1, <1>13, <2>3 DEF ConfirmReset, Rows, tokenVars, clientVars, histVars, accountVars
<1>14. ASSUME NEW d \in Device, NEW open \in BOOLEAN, Register(r, d, open) PROVE Rows'
  <2>1. op' \in [Request -> AllOps]
    BY <1>1, <1>5, <1>14, GotoRows DEF Register
  <2>2. waiting' \in [Device -> Request \cup {Nobody}] /\ logins' \in [Device -> Int]
    <3>1. CASE open
      <4>1. Waits(r, d)
        BY <1>14, <3>1, Zenon DEF Register
      <4> QED
        BY <1>1, <4>1 DEF Waits, Rows
    <3>2. CASE ~open
      BY <1>1, <1>14, <3>2 DEF Register, Rows
    <3> QED
      BY <3>1, <3>2
  <2> QED
    BY <1>1, <1>14, <2>1, <2>2 DEF Register, Keep, Rows, tokenVars, accountVars
<1>15. ASSUME NEW d \in Device, NEW i \in {0, inbox["code"]}, Verify(r, d, i) PROVE Rows'
  <2>1. i \in Nat
    BY <1>1, <1>2 DEF Rows
  <2>2. op' \in [Request -> AllOps]
    BY <1>1, <1>5, <1>15, <2>1, GotoRows DEF Verify
  <2>3. waiting' \in [Device -> Request \cup {Nobody}] /\ logins' \in [Device -> Int]
    BY <1>1, <1>15 DEF Verify, Waits, Rows
  <2> QED
    BY <1>1, <1>15, <2>2, <2>3 DEF Verify, Keep, Rows, tokenVars, accountVars
<1> QED
  BY <1>7, <1>8, <1>9, <1>10, <1>11, <1>12, <1>13, <1>14, <1>15

-----------------------------------------------------------------------------
(* Every step keeps the invariant of the sessions *)

\* A request nobody awaits.
LEMMA Alone ==
    ASSUME SessionInv, NEW r \in Request, ~PreMint(op[r]), op[r].step \notin {"rotate", "answer"}
    PROVE  \A d \in Device : waiting[d] # r
<1>1. Nobody \notin Request
  BY SessionsAssumption
<1> QED
  BY <1>1 DEF SessionInv, AwaitsItsOwn

\* A request that had nothing to do with tokens, and has none after the step.
LEMMA ApartInv ==
    ASSUME SessionInv, Rows', NEW r \in Request, NEW o, op' = [op EXCEPT ![r] = o],
           UNCHANGED <<minted, device, replacedBy, waiting, logins, strays>>,
           \A t \in Token : revoked'[t] = Live => revoked[t] = Live,
           \A t \in Token : t > minted => revoked'[t] = Live,
           \A d \in Device : held'[d] # 0 => held'[d] = held[d],
           ~PreMint(op[r]), op[r].step \notin {"rotate", "answer"},
           ~PreMint(o), o.step \notin {"rotate", "answer"},
           o.step = "logout" => o.t \in 1..minted
    PROVE  SessionInv'
<1>1. \A d \in Device : waiting[d] # r /\ waiting'[d] = waiting[d]
  BY Alone
<1>2. OpOwned(o)
  BY DEF OpOwned, PreMint, LoginOp, RefreshOp
<1>3. \A d \in Device : held'[d] # 0 => Owned(held'[d], d)
  BY DEF SessionInv, TokensOwned
<1>4. ~LoginOp(o) /\ o.step \notin {"user", "mint"}
  BY DEF PreMint, LoginOp, RefreshOp
<1> QED
  BY <1>1, <1>2, <1>3, <1>4, NoMintInv

\* A request that hoped for tokens, and goes on hoping or is refused.
LEMMA HopesInv ==
    ASSUME SessionInv, Rows', NEW r \in Request, NEW o, op' = [op EXCEPT ![r] = o],
           UNCHANGED <<minted, device, replacedBy, held, waiting, logins, strays>>,
           \A t \in Token : revoked'[t] = Live => revoked[t] = Live,
           \A t \in Token : t > minted => revoked'[t] = Live,
           PreMint(op[r]), OpOwned(o), o.d = op[r].d,
           PreMint(o) \/ o.step = "answer",
           LoginOp(o) => LoginOp(op[r]),
           ~LoginOp(o) /\ o.step \in {"user", "mint"} =>
               \/ revoked'[o.retired] = Live
               \/ op[r].step = "user" /\ o.retired = op[r].retired /\ revoked' = revoked
    PROVE  SessionInv'
<1>1. op[r].step # "rotate" /\ o.step # "rotate"
  BY DEF PreMint, LoginOp, RefreshOp
<1>2. \A d \in Device :
        \/ waiting[d] # r /\ waiting'[d] = waiting[d]
        \/ waiting[d] = r /\ waiting'[d] = Nobody /\ op[r].step = "answer" /\ ~PreMint(o)
        \/ /\ waiting[d] = r /\ waiting'[d] = r /\ op[r].step # "rotate"
           /\ o.d = op[r].d /\ (PreMint(o) \/ o.step = "answer")
  BY <1>1
<1>3. \A d \in Device : held'[d] # 0 => Owned(held'[d], d)
  BY DEF SessionInv, TokensOwned
<1> QED
  BY <1>1, <1>2, <1>3, NoMintInv

\* A refresh read, from its token to the user: what it names stays its own.
LEMMA RefreshInv ==
    ASSUME SessionInv, Rows', NEW r \in Request,
           RefreshRead(r) \/ RefreshReplacement(r) \/ RefreshUser(r)
    PROVE  SessionInv'
<1>1. Rows /\ OpOwned(op[r]) /\ op[r] \in AllOps
  BY DEF SessionInv, TokensOwned, Rows
<1>2. PreMint(op[r])
  BY DEF RefreshRead, RefreshReplacement, RefreshUser, PreMint, RefreshOp
<1>3. \A t \in Token : t > minted => revoked[t] = Live
  BY DEF SessionInv, TokensOwned
<1>4. ASSUME Refuse(r), UNCHANGED <<minted, device, replacedBy, held, waiting, logins, strays>>,
             revoked' = revoked \/ RevokeThose(Token)
      PROVE  SessionInv'
  <2>1. PICK o : op' = [op EXCEPT ![r] = o] /\ o = [step |-> "answer", d |-> op[r].d, t |-> 0]
    BY <1>4 DEF Refuse, Goto
  <2>2. OpOwned(o) /\ o.d = op[r].d /\ o.step = "answer" /\ ~LoginOp(o)
    BY <2>1 DEF OpOwned, LoginOp
  <2>3. /\ \A t \in Token : revoked'[t] = Live => revoked[t] = Live
        /\ \A t \in Token : t > minted => revoked'[t] = Live
    BY <1>1, <1>3, <1>4, RevokeRows
  <2> QED
    BY <1>2, <1>4, <2>1, <2>2, <2>3, HopesInv
<1>5. ASSUME NEW t \in Token, Owned(t, op[r].d), revoked[t] = Live,
             Goto(r, [step |-> "user", d |-> op[r].d, retired |-> t]),
             UNCHANGED <<tokenVars, clientVars, histVars>>
      PROVE  SessionInv'
  <2>1. PICK o : op' = [op EXCEPT ![r] = o] /\ o = [step |-> "user", d |-> op[r].d, retired |-> t]
    BY <1>5 DEF Goto
  <2>2. OpOwned(o) /\ o.d = op[r].d /\ o.step = "user" /\ ~LoginOp(o) /\ PreMint(o)
        /\ o.retired = t
    BY <1>5, <2>1 DEF OpOwned, LoginOp, PreMint, RefreshOp
  <2>3. UNCHANGED <<minted, device, revoked, replacedBy, held, waiting, logins, strays>>
    BY <1>5 DEF tokenVars, clientVars, histVars
  <2> QED
    BY <1>2, <1>3, <1>5, <2>1, <2>2, <2>3, HopesInv
<1>6. CASE RefreshRead(r)
  <2>1. op[r].t \in Token /\ Owned(op[r].t, op[r].d)
    BY <1>1, <1>6, Shapes DEF RefreshRead, OpOwned
  <2>2. UNCHANGED <<tokenVars, clientVars, histVars>>
    BY <1>6 DEF RefreshRead
  <2>3. CASE revoked[op[r].t] = Live
    BY <1>5, <1>6, <2>1, <2>2, <2>3 DEF RefreshRead
  <2>4. CASE revoked[op[r].t] # Live /\ InGrace(op[r].t)
    <3>1. PICK o : /\ op' = [op EXCEPT ![r] = o]
                   /\ o = [step |-> "replacement", d |-> op[r].d, next |-> replacedBy[op[r].t]]
      BY <1>6, <2>4 DEF RefreshRead, Goto
    <3>2. Owned(replacedBy[op[r].t], op[r].d)
      BY <2>1, <2>4 DEF SessionInv, TokensOwned, InGrace, Owned
    <3>3. OpOwned(o) /\ o.d = op[r].d /\ o.step = "replacement" /\ ~LoginOp(o) /\ PreMint(o)
      BY <3>1, <3>2 DEF OpOwned, LoginOp, PreMint, RefreshOp
    <3>4. UNCHANGED <<minted, device, revoked, replacedBy, held, waiting, logins, strays>>
      BY <2>2 DEF tokenVars, clientVars, histVars
    <3> QED
      BY <1>2, <1>3, <3>1, <3>3, <3>4, HopesInv
  <2>5. CASE revoked[op[r].t] # Live /\ ~InGrace(op[r].t)
    <3>1. Refuse(r)
      BY <1>6, <2>5 DEF RefreshRead
    <3> QED
      BY <1>4, <2>2, <3>1 DEF tokenVars, clientVars, histVars
  <2> QED
    BY <2>3, <2>4, <2>5
<1>7. CASE RefreshReplacement(r)
  <2>1. op[r].next \in Token /\ Owned(op[r].next, op[r].d)
    BY <1>1, <1>7, Shapes DEF RefreshReplacement, OpOwned
  <2>2. UNCHANGED <<tokenVars, clientVars, histVars>>
    BY <1>7 DEF RefreshReplacement
  <2>3. CASE revoked[op[r].next] = Live
    BY <1>5, <1>7, <2>1, <2>2, <2>3 DEF RefreshReplacement
  <2>4. CASE revoked[op[r].next] # Live
    <3>1. Refuse(r)
      BY <1>7, <2>4 DEF RefreshReplacement
    <3> QED
      BY <1>4, <2>2, <3>1 DEF tokenVars, clientVars, histVars
  <2> QED
    BY <2>3, <2>4
<1>8. CASE RefreshUser(r)
  <2>1. UNCHANGED <<minted, device, replacedBy, held, waiting, logins, strays>>
    BY <1>8 DEF RefreshUser, clientVars
  <2>2. CASE banned
    <3>1. Refuse(r) /\ RevokeThose(Token)
      BY <1>8, <2>2 DEF RefreshUser
    <3> QED
      BY <1>4, <2>1, <3>1
  <2>3. CASE ~banned
    <3>1. op[r].step = "user" /\ op[r].retired \in Token \cup {0} /\ Owned(op[r].retired, op[r].d)
      BY <1>1, <1>8, Shapes DEF RefreshUser, OpOwned
    <3>2. op[r] = [step |-> "user", d |-> op[r].d, retired |-> op[r].retired]
      BY <1>1, <3>1 DEF AllOps, Ops, NoOp
    <3>3. PICK o : /\ op' = [op EXCEPT ![r] = o]
                   /\ o = [step |-> "mint", d |-> op[r].d, retired |-> op[r].retired]
      BY <1>8, <2>3, <3>2 DEF RefreshUser, Goto
    <3>4. op[r].retired # 0
      BY <3>1 DEF Owned
    <3>5. OpOwned(o) /\ o.d = op[r].d /\ o.step = "mint" /\ ~LoginOp(o) /\ PreMint(o)
          /\ o.retired = op[r].retired
      BY <3>1, <3>3, <3>4 DEF OpOwned, LoginOp, PreMint, RefreshOp
    <3>6. revoked' = revoked
      BY <1>8, <2>3 DEF RefreshUser
    <3> QED
      BY <1>2, <1>3, <2>1, <3>1, <3>3, <3>5, <3>6, HopesInv
  <2> QED
    BY <2>2, <2>3
<1> QED
  BY <1>6, <1>7, <1>8

\* A request that ends: its answer arrives or is dropped, or the server dies.
LEMMA AnswerInv ==
    ASSUME SessionInv, Rows', NEW r \in Request, Deliver(r) \/ Drop(r) \/ Die(r)
    PROVE  SessionInv'
<1>1. Rows /\ OpOwned(op[r]) /\ op[r] \in AllOps /\ Nobody \notin Request
  BY SessionsAssumption DEF SessionInv, TokensOwned, Rows
<1>2. PICK o : op' = [op EXCEPT ![r] = o] /\ o = NoOp
  BY DEF Deliver, Drop, Die, Goto
<1>3. ~PreMint(o) /\ ~LoginOp(o) /\ OpOwned(o) /\ o.step = "none"
  BY <1>2 DEF NoOp, PreMint, LoginOp, RefreshOp, OpOwned
<1>4. UNCHANGED <<minted, device, revoked, replacedBy, logins, strays>>
  BY DEF Deliver, Drop, Die, tokenVars, histVars
<1>5. /\ \A t \in Token : t > minted => revoked[t] = Live
      /\ \A d \in Device : held[d] # 0 => Owned(held[d], d)
      /\ \A d \in Device : waiting[d] = r => op[r].d = d
  BY <1>1 DEF SessionInv, TokensOwned, AwaitsItsOwn
<1>6. \A d \in Device : held'[d] # 0 => Owned(held'[d], d)
  BY <1>1, <1>5 DEF Deliver, Drop, Die, clientVars, OpOwned, Rows
<1>7. \A d \in Device :
        \/ waiting[d] # r /\ waiting'[d] = waiting[d]
        \/ waiting[d] = r /\ waiting'[d] = Nobody /\ op[r].step = "answer" /\ ~PreMint(o)
  <2>1. CASE Deliver(r)
    BY <1>1, <1>3, <1>5, <2>1 DEF Deliver, Rows
  <2>2. CASE Drop(r) \/ Die(r)
    BY <1>5, <2>2 DEF Drop, Die, clientVars
  <2> QED
    BY <2>1, <2>2
<1> QED
  BY <1>2, <1>3, <1>4, <1>5, <1>6, <1>7, NoMintInv

\* The requests that end sessions retire tokens and mint none.
LEMMA EndInv ==
    ASSUME SessionInv, Rows', NEW r \in Request,
           \/ LogoutWrite(r) \/ RevokeAll(r) \/ \E ban \in BOOLEAN : BeginCut(r, ban)
           \/ \E d \in Device : LogoutToken(r, d)
    PROVE  SessionInv'
<1>1. Rows /\ OpOwned(op[r]) /\ op[r] \in AllOps
  BY DEF SessionInv, TokensOwned, Rows
<1>2. \A t \in Token : t > minted => revoked[t] = Live
  BY DEF SessionInv, TokensOwned
<1>3. ASSUME NEW o, op' = [op EXCEPT ![r] = o], op[r].step \in {"none", "logout", "cut"},
             o.step \in {"none", "logout", "cut"}, o.step = "logout" => o.t \in 1..minted,
             UNCHANGED <<minted, device, replacedBy, waiting, logins, strays>>,
             \A t \in Token : revoked'[t] = Live => revoked[t] = Live,
             \A t \in Token : t > minted => revoked'[t] = Live,
             \A e \in Device : held'[e] # 0 => held'[e] = held[e]
      PROVE  SessionInv'
  <2>1. ~PreMint(op[r]) /\ ~PreMint(o)
    BY <1>3 DEF PreMint, LoginOp, RefreshOp
  <2> QED
    BY <1>3, <2>1, ApartInv
<1>4. CASE LogoutWrite(r)
  <2>1. PICK o : op' = [op EXCEPT ![r] = o] /\ o = NoOp
    BY <1>4 DEF LogoutWrite, Goto
  <2>2. op[r].t \in 1..minted
    BY <1>1, <1>4 DEF LogoutWrite, OpOwned
  <2>3. /\ \A t \in Token : revoked'[t] = Live => revoked[t] = Live
        /\ \A t \in Token : t > minted => revoked'[t] = Live
    BY <1>1, <1>2, <1>4, <2>2 DEF LogoutWrite, Rows, Live
  <2>4. UNCHANGED <<minted, device, replacedBy, held, waiting, logins, strays>>
    BY <1>4 DEF LogoutWrite, clientVars, histVars
  <2>5. op[r].step = "logout" /\ o.step = "none"
    BY <1>4, <2>1 DEF LogoutWrite, NoOp
  <2> QED
    BY <1>3, <2>1, <2>3, <2>4, <2>5
<1>5. CASE RevokeAll(r)
  <2>1. PICK o : op' = [op EXCEPT ![r] = o] /\ o = NoOp
    BY <1>5 DEF RevokeAll, Goto
  <2>2. RevokeThose(Token)
        /\ UNCHANGED <<minted, device, replacedBy, held, waiting, logins, strays>>
    BY <1>5 DEF RevokeAll, clientVars
  <2>3. /\ \A t \in Token : revoked'[t] = Live => revoked[t] = Live
        /\ \A t \in Token : t > minted => revoked'[t] = Live
    BY <1>1, <1>2, <2>2, RevokeRows
  <2>4. op[r].step = "cut" /\ o.step = "none"
    BY <1>5, <2>1 DEF RevokeAll, NoOp
  <2> QED
    BY <1>3, <2>1, <2>2, <2>3, <2>4
<1>6. ASSUME NEW ban \in BOOLEAN, BeginCut(r, ban) PROVE SessionInv'
  <2>1. PICK o : op' = [op EXCEPT ![r] = o] /\ o = [step |-> "cut"]
    BY <1>6 DEF BeginCut, Goto
  <2>2. op[r].step = "none" /\ o.step = "cut"
    BY <1>6, <2>1 DEF BeginCut, NoOp
  <2>3. UNCHANGED <<minted, device, revoked, replacedBy, held, waiting, logins, strays>>
    BY <1>6 DEF BeginCut, tokenVars, clientVars, histVars
  <2> QED
    BY <1>2, <1>3, <2>1, <2>2, <2>3
<1>7. ASSUME NEW d \in Device, LogoutToken(r, d) PROVE SessionInv'
  <2>1. UNCHANGED <<minted, device, revoked, replacedBy, waiting, logins, strays>>
        /\ op[r] = NoOp /\ held[d] # 0
    BY <1>7 DEF LogoutToken, tokenVars
  <2>2. \A e \in Device : held'[e] # 0 => held'[e] = held[e]
    BY <1>1, <1>7 DEF LogoutToken, Rows
  <2>3. CASE revoked[held[d]] = Live
    <3>1. PICK o : op' = [op EXCEPT ![r] = o] /\ o = [step |-> "logout", t |-> held[d]]
      BY <1>7, <2>3 DEF LogoutToken, Goto
    <3>2. held[d] \in 1..minted
      BY <2>1 DEF SessionInv, TokensOwned, Owned
    <3>3. op[r].step = "none" /\ o.step = "logout" /\ o.t \in 1..minted
      BY <2>1, <3>1, <3>2 DEF NoOp
    <3> QED
      BY <1>2, <1>3, <2>1, <2>2, <3>1, <3>3
  <2>4. CASE revoked[held[d]] # Live
    <3>1. op' = op
      BY <1>7, <2>4 DEF LogoutToken
    <3> QED
      BY <1>2, <2>1, <2>2, <3>1, QuietInv
  <2> QED
    BY <2>3, <2>4
<1> QED
  BY <1>4, <1>5, <1>6, <1>7

\* The logout of a device, the lift of a ban, and time.
LEMMA IdleInv ==
    ASSUME SessionInv, Rows', (\E d \in Device : LogoutDevice(d)) \/ Unban \/ Tick
    PROVE  SessionInv'
<1>1. Rows /\ \A t \in Token : t > minted => revoked[t] = Live
  BY DEF SessionInv, TokensOwned
<1>2. ASSUME NEW d \in Device, LogoutDevice(d) PROVE SessionInv'
  <2>1. UNCHANGED <<minted, device, replacedBy, op, waiting, logins, strays>>
    BY <1>2 DEF LogoutDevice
  <2>2. /\ \A t \in Token : revoked'[t] = Live => revoked[t] = Live
        /\ \A t \in Token : t > minted => revoked'[t] = Live
    BY <1>1, <1>2, RevokeRows DEF LogoutDevice
  <2>3. \A e \in Device : held'[e] # 0 => held'[e] = held[e]
    BY <1>1, <1>2 DEF LogoutDevice, Rows
  <2> QED
    BY <2>1, <2>2, <2>3, QuietInv
<1>3. CASE Unban \/ Tick
  <2>1. UNCHANGED <<minted, device, replacedBy, op, held, waiting, logins, strays>>
    BY <1>3 DEF Unban, Tick, tokenVars, clientVars, histVars
  <2>2. /\ \A t \in Token : revoked'[t] = Live => revoked[t] = Live
        /\ \A t \in Token : t > minted => revoked'[t] = Live
    <3>1. \A a \in Age : a + 1 # Live /\ a # Live
      BY SessionsAssumption DEF Age, Expired, Live
    <3> QED
      BY <1>1, <1>3, <3>1 DEF Unban, Tick, tokenVars, Rows
  <2> QED
    BY <2>1, <2>2, QuietInv
<1> QED
  BY <1>2, <1>3

\* What a client that waits for nothing may send.
LEMMA SendsInv ==
    ASSUME SessionInv, Rows', NEW r \in Request, NEW d \in Device,
           \/ Login(r, d) \/ RefreshSend(r, d)
           \/ Register(r, d, TRUE) \/ \E i \in {0, inbox["code"]} : Verify(r, d, i)
    PROVE  SessionInv'
<1>1. CASE RefreshSend(r, d)
  <2>1. PICK o : op' = [op EXCEPT ![r] = o] /\ o = [step |-> "sent", d |-> d, t |-> held[d]]
    BY <1>1 DEF RefreshSend, Goto
  <2>2. Owned(held[d], d)
    BY <1>1 DEF RefreshSend, SessionInv, TokensOwned
  <2>3. OpOwned(o) /\ o.d = d /\ o.step = "sent"
    BY <2>1, <2>2 DEF OpOwned
  <2>4. /\ op[r] = NoOp /\ waiting[d] = Nobody /\ MayMint
        /\ waiting' = [waiting EXCEPT ![d] = r]
        /\ UNCHANGED <<tokenVars, held, strays, logins>>
    BY <1>1 DEF RefreshSend, histVars
  <2> QED
    BY <2>1, <2>3, <2>4, SendInv
<1>2. ASSUME NEW o, op' = [op EXCEPT ![r] = o], LoginOp(o), o.d = d, OpOwned(o),
             op[r] = NoOp, MayWait(d), Waits(r, d), UNCHANGED <<tokenVars, held, strays>>
      PROVE  SessionInv'
  BY <1>2, SendInv DEF MayWait, Waits
<1>3. CASE Login(r, d)
  <2>1. PICK o : op' = [op EXCEPT ![r] = o] /\ o = [step |-> "mint", d |-> d, retired |-> 0]
    BY <1>3 DEF Login, Goto
  <2>2. OpOwned(o) /\ o.d = d /\ LoginOp(o)
    BY <2>1 DEF OpOwned, LoginOp
  <2>3. op[r] = NoOp /\ MayWait(d) /\ Waits(r, d) /\ UNCHANGED <<tokenVars, held, strays>>
    BY <1>3 DEF Login, MayWait, Waits
  <2> QED
    BY <1>2, <2>1, <2>2, <2>3
<1>4. CASE Register(r, d, TRUE)
  <2>1. PICK o : op' = [op EXCEPT ![r] = o] /\ o = [step |-> "createUser", d |-> d, open |-> TRUE]
    BY <1>4 DEF Register, Goto
  <2>2. OpOwned(o) /\ o.d = d /\ LoginOp(o)
    BY <2>1 DEF OpOwned, LoginOp
  <2>3. op[r] = NoOp /\ MayWait(d) /\ Waits(r, d) /\ UNCHANGED <<tokenVars, held, strays>>
    BY <1>4 DEF Register, Keep
  <2> QED
    BY <1>2, <2>1, <2>2, <2>3
<1>5. ASSUME NEW i, Verify(r, d, i) PROVE SessionInv'
  <2>1. PICK o : op' = [op EXCEPT ![r] = o] /\ o = [step |-> "verify", d |-> d, i |-> i]
    BY <1>5 DEF Verify, Goto
  <2>2. OpOwned(o) /\ o.d = d /\ LoginOp(o)
    BY <2>1 DEF OpOwned, LoginOp
  <2>3. op[r] = NoOp /\ MayWait(d) /\ Waits(r, d) /\ UNCHANGED <<tokenVars, held, strays>>
    BY <1>5 DEF Verify, Keep
  <2> QED
    BY <1>2, <2>1, <2>2, <2>3
<1> QED
  BY <1>1, <1>3, <1>4, <1>5

\* The requests about mails and links have no tokens.
LEMMA MailMoves ==
    ASSUME SessionInv, NEW r \in Request,
           \/ Invalidate(r) \/ CreateSecret(r) \/ UseLink(r) \/ ConfirmReset(r)
           \/ \E sent \in BOOLEAN : Mail(r, sent)
           \/ \E k \in Kind : Ask(r, k)
           \/ \E d \in Device : Register(r, d, FALSE)
           \/ CreateUser(r) /\ ~op[r].open
    PROVE  /\ UNCHANGED <<tokenVars, held, waiting, logins, losses, strays, ended>>
           /\ op[r].step \in {"none", "invalidate", "create", "mail", "password", "createUser"}
           /\ ~PreMint(op[r])
           /\ \E o : /\ op' = [op EXCEPT ![r] = o] /\ ~PreMint(o)
                     /\ o.step \in {"none", "invalidate", "create", "mail", "password", "cut",
                                    "createUser"}
<1>1. Rows /\ op[r] \in AllOps
  BY DEF SessionInv, Rows
<1>2. PICK o : op' = [op EXCEPT ![r] = o]
               /\ o.step \in {"none", "invalidate", "create", "mail", "password", "cut", "createUser"}
               /\ (o.step = "createUser" => ~o.open)
  <2>1. CASE Invalidate(r)
    <3>1. PICK o : op' = [op EXCEPT ![r] = o] /\ o = [op[r] EXCEPT !.step = "create"]
      BY <2>1 DEF Invalidate, Goto
    <3>2. op[r] = [step |-> "invalidate", k |-> op[r].k]
      BY <1>1, <2>1 DEF Invalidate, AllOps, Ops, NoOp
    <3>3. o.step = "create"
      BY <3>1, <3>2
    <3> QED
      BY <3>1, <3>3
  <2>2. CASE CreateSecret(r)
    <3>1. PICK o : op' = [op EXCEPT ![r] = o] /\ o = [step |-> "mail", k |-> op[r].k, i |-> Len(secret'[op[r].k])]
      BY <2>2 DEF CreateSecret, Goto
    <3>2. o.step = "mail"
      BY <3>1
    <3> QED
      BY <3>1, <3>2
  <2>3. CASE UseLink(r)
    <3>1. PICK o : op' = [op EXCEPT ![r] = o] /\ o = [step |-> "cut"]
      BY <2>3 DEF UseLink, Goto
    <3>2. o.step = "cut"
      BY <3>1
    <3> QED
      BY <3>1, <3>2
  <2>4. CASE ConfirmReset(r)
    <3>1. PICK o : op' = [op EXCEPT ![r] = o] /\ o = [step |-> "password", i |-> inbox["link"]]
      BY <2>4 DEF ConfirmReset, Goto
    <3>2. o.step = "password"
      BY <3>1
    <3> QED
      BY <3>1, <3>2
  <2>5. CASE \E sent \in BOOLEAN : Mail(r, sent)
    <3>1. PICK o : op' = [op EXCEPT ![r] = o] /\ o = NoOp
      BY <2>5 DEF Mail, Goto
    <3>2. o.step = "none"
      BY <3>1 DEF NoOp
    <3> QED
      BY <3>1, <3>2
  <2>6. ASSUME NEW k \in Kind, Ask(r, k)
        PROVE  \E o : op' = [op EXCEPT ![r] = o] /\ o.step = "invalidate"
    <3>1. PICK o : op' = [op EXCEPT ![r] = o] /\ o = [step |-> "invalidate", k |-> k]
      BY <2>6 DEF Ask, Goto
    <3>2. o.step = "invalidate"
      BY <3>1
    <3> QED
      BY <3>1, <3>2
  <2>7. ASSUME NEW d \in Device, Register(r, d, FALSE)
        PROVE  \E o : op' = [op EXCEPT ![r] = o] /\ o.step = "createUser" /\ ~o.open
    <3>1. PICK o : op' = [op EXCEPT ![r] = o] /\ o = [step |-> "createUser", d |-> d, open |-> FALSE]
      BY <2>7 DEF Register, Goto
    <3>2. o.step = "createUser" /\ ~o.open
      BY <3>1
    <3> QED
      BY <3>1, <3>2
  <2>8. CASE CreateUser(r) /\ ~op[r].open
    <3>1. PICK o : op' = [op EXCEPT ![r] = o]
                   /\ (o = NoOp \/ o = [step |-> "invalidate", k |-> "code"])
      BY <2>8 DEF CreateUser, Goto
    <3>2. o.step \in {"none", "invalidate"}
      BY <3>1 DEF NoOp
    <3> QED
      BY <3>1, <3>2
  <2> QED
    BY <2>1, <2>2, <2>3, <2>4, <2>5, <2>6, <2>7, <2>8
<1>3. /\ op[r].step \in {"none", "invalidate", "create", "mail", "password", "createUser"}
      /\ op[r].step = "createUser" => ~op[r].open
  <2>1. CASE Invalidate(r) \/ CreateSecret(r) \/ UseLink(r) \/ (CreateUser(r) /\ ~op[r].open)
    BY <2>1 DEF Invalidate, CreateSecret, UseLink, CreateUser
  <2>2. CASE \/ ConfirmReset(r) \/ \E k \in Kind : Ask(r, k)
             \/ \E d \in Device : Register(r, d, FALSE)
    <3>1. op[r] = NoOp
      BY <2>2 DEF ConfirmReset, Ask, Register
    <3> QED
      BY <3>1 DEF NoOp
  <2>3. CASE \E sent \in BOOLEAN : Mail(r, sent)
    BY <2>3 DEF Mail
  <2> QED
    BY <2>1, <2>2, <2>3
<1>4. ~PreMint(o) /\ ~PreMint(op[r])
  BY <1>2, <1>3 DEF PreMint, LoginOp, RefreshOp
<1>5. UNCHANGED <<tokenVars, held, waiting, logins, losses, strays, ended>>
  BY DEF Invalidate, CreateSecret, UseLink, ConfirmReset, Mail, Ask, Register, CreateUser,
         Keep, clientVars, histVars
<1> QED
  BY <1>2, <1>3, <1>4, <1>5

LEMMA MailInv ==
    ASSUME SessionInv, Rows', NEW r \in Request,
           \/ Invalidate(r) \/ CreateSecret(r) \/ UseLink(r) \/ ConfirmReset(r)
           \/ \E sent \in BOOLEAN : Mail(r, sent)
           \/ \E k \in Kind : Ask(r, k)
           \/ \E d \in Device : Register(r, d, FALSE)
           \/ CreateUser(r) /\ ~op[r].open
    PROVE  SessionInv'
<1>1. PICK o : /\ op' = [op EXCEPT ![r] = o] /\ ~PreMint(o)
               /\ o.step \in {"none", "invalidate", "create", "mail", "password", "cut",
                              "createUser"}
  BY MailMoves
<1>2. /\ UNCHANGED <<tokenVars, held, waiting, logins, strays>>
      /\ op[r].step \in {"none", "invalidate", "create", "mail", "password", "createUser"}
      /\ ~PreMint(op[r])
  BY MailMoves
<1>3. UNCHANGED <<minted, device, revoked, replacedBy, held, waiting, logins, strays>>
      /\ \A t \in Token : t > minted => revoked[t] = Live
  BY <1>2 DEF tokenVars, SessionInv, TokensOwned
<1> QED
  BY <1>1, <1>2, <1>3, ApartInv

\* A registration or a verification on its way to its tokens.
LEMMA LoginMoves ==
    ASSUME SessionInv, NEW r \in Request,
           \/ VerifyUser(r) \/ VerifyCode(r) \/ Miss(r) \/ Burn(r) \/ Confirm(r)
           \/ CreateUser(r) /\ op[r].open
    PROVE  /\ LoginOp(op[r]) /\ PreMint(op[r]) /\ Keep
           /\ \/ NoTokens(r)
              \/ /\ UNCHANGED <<waiting, logins>>
                 /\ \E o : /\ op' = [op EXCEPT ![r] = o]
                           /\ LoginOp(o) /\ o.d = op[r].d
                           /\ o.step = "mint" => o.retired = 0
<1>1. Rows /\ op[r] \in AllOps
  BY DEF SessionInv, Rows
<1>2. LoginOp(op[r]) /\ PreMint(op[r])
  BY DEF VerifyUser, VerifyCode, Miss, Burn, Confirm, CreateUser, LoginOp, PreMint
<1>3. Keep
  BY DEF VerifyUser, VerifyCode, Miss, Burn, Confirm, CreateUser
<1>4. CASE NoTokens(r)
  BY <1>2, <1>3, <1>4
<1>5. ASSUME ~NoTokens(r)
      PROVE  \E o : /\ op' = [op EXCEPT ![r] = o]
                    /\ LoginOp(o) /\ o.d = op[r].d
                    /\ o.step = "mint" => o.retired = 0
  <2>1. ASSUME Goto(r, [step |-> "mint", d |-> op[r].d, retired |-> 0])
        PROVE  \E o : /\ op' = [op EXCEPT ![r] = o]
                      /\ LoginOp(o) /\ o.d = op[r].d
                      /\ o.step = "mint" => o.retired = 0
    <3>1. PICK o : op' = [op EXCEPT ![r] = o] /\ o = [step |-> "mint", d |-> op[r].d, retired |-> 0]
      BY <2>1 DEF Goto
    <3>2. LoginOp(o) /\ o.d = op[r].d /\ o.retired = 0
      BY <3>1 DEF LoginOp
    <3> QED
      BY <3>1, <3>2
  <2>2. CASE VerifyUser(r)
    <3>1. op[r] = [step |-> "verify", d |-> op[r].d, i |-> op[r].i]
      BY <1>1, <2>2 DEF VerifyUser, AllOps, Ops, NoOp
    <3>2. [op[r] EXCEPT !.step = "code"] = [step |-> "code", d |-> op[r].d, i |-> op[r].i]
      BY <3>1
    <3>3. CASE account = "verified"
      BY <2>1, <2>2, <3>3 DEF VerifyUser
    <3>4. CASE account # "verified"
      BY <2>2, <3>2, <3>4 DEF VerifyUser, Goto, LoginOp
    <3> QED
      BY <3>3, <3>4
  <2>3. CASE VerifyCode(r)
    <3>1. PICK i : Goto(r, [step |-> IF op[r].i = i THEN "burn" ELSE "miss", d |-> op[r].d, i |-> i])
      BY <1>5, <2>3 DEF VerifyCode
    <3> DEFINE o == [step |-> IF op[r].i = i THEN "burn" ELSE "miss", d |-> op[r].d, i |-> i]
    <3>2. LoginOp(o) /\ o.d = op[r].d /\ o.step # "mint"
      BY DEF LoginOp
    <3> QED
      BY <3>1, <3>2 DEF Goto
  <2>4. CASE Burn(r)
    <3>1. PICK o : op' = [op EXCEPT ![r] = o] /\ o = [step |-> "confirm", d |-> op[r].d]
      BY <2>4 DEF Burn, Goto
    <3>2. LoginOp(o) /\ o.d = op[r].d /\ o.step # "mint"
      BY <3>1 DEF LoginOp
    <3> QED
      BY <3>1, <3>2
  <2>5. CASE Confirm(r)
    BY <2>1, <2>5 DEF Confirm
  <2>6. CASE CreateUser(r) /\ op[r].open
    BY <1>5, <2>1, <2>6 DEF CreateUser
  <2>7. CASE Miss(r)
    BY <1>5, <2>7 DEF Miss
  <2> QED
    BY <2>2, <2>3, <2>4, <2>5, <2>6, <2>7
<1>6. ~NoTokens(r) => UNCHANGED <<waiting, logins>>
  BY DEF VerifyUser, VerifyCode, Miss, Burn, Confirm, CreateUser
<1> QED
  BY <1>2, <1>3, <1>4, <1>5, <1>6

LEMMA VerifyInv ==
    ASSUME SessionInv, Rows', NEW r \in Request,
           \/ VerifyUser(r) \/ VerifyCode(r) \/ Miss(r) \/ Burn(r) \/ Confirm(r)
           \/ CreateUser(r) /\ op[r].open
    PROVE  SessionInv'
<1>1. LoginOp(op[r]) /\ PreMint(op[r]) /\ Keep
  BY LoginMoves
<1>2. CASE NoTokens(r)
  BY <1>1, <1>2, NoTokensInv
<1>3. CASE ~NoTokens(r)
  <2>1. UNCHANGED <<waiting, logins>>
    BY <1>3, LoginMoves
  <2>2. PICK o : /\ op' = [op EXCEPT ![r] = o]
                 /\ LoginOp(o) /\ o.d = op[r].d
                 /\ o.step = "mint" => o.retired = 0
    BY <1>3, LoginMoves
  <2>3. PreMint(o) /\ OpOwned(o)
    BY <2>2 DEF PreMint, OpOwned, LoginOp
  <2>4. UNCHANGED <<minted, device, revoked, replacedBy, held, waiting, logins, strays>>
        /\ \A t \in Token : t > minted => revoked[t] = Live
    BY <1>1, <2>1 DEF Keep, tokenVars, SessionInv, TokensOwned
  <2> QED
    BY <1>1, <2>2, <2>3, <2>4, HopesInv
<1> QED
  BY <1>2, <1>3

\* An expiry changes rows of secrets only.
LEMMA ExpireRows ==
    ASSUME SessionInv, NEW k \in Kind, NEW i \in DOMAIN secret[k], Expire(k, i)
    PROVE  Rows' /\ UNCHANGED <<minted, device, revoked, replacedBy, op, held, waiting, logins, strays>>
<1>1. Rows /\ secret[k] \in Seq(SecretRow)
  BY DEF SessionInv, Rows, SecretRow
<1>2. DOMAIN secret[k] = 1..Len(secret[k]) /\ secret[k] \in [1..Len(secret[k]) -> SecretRow]
  BY <1>1, LenProperties
<1>3. secret[k][i] \in SecretRow
  BY <1>2
<1>4. [secret[k][i] EXCEPT !.late = TRUE] \in SecretRow
  BY <1>3 DEF SecretRow
<1>5. [secret[k] EXCEPT ![i] = [secret[k][i] EXCEPT !.late = TRUE]] \in Seq(SecretRow)
  BY <1>1, <1>4, ExceptRow
<1>6. secret' = [secret EXCEPT ![k] = [secret[k] EXCEPT ![i] = [secret[k][i] EXCEPT !.late = TRUE]]]
  BY DEF Expire
<1>7. secret' \in [Kind -> Seq(SecretRow)]
  BY <1>1, <1>5, <1>6 DEF Rows, SecretRow
<1>8. UNCHANGED <<minted, device, revoked, replacedBy, op, held, waiting, logins, strays>>
  BY DEF Expire, vars, tokenVars, clientVars, histVars
<1> QED
  BY <1>1, <1>7, <1>8 DEF Expire, Rows, SecretRow

\* Whatever the step, the sessions keep their invariant.
LEMMA SessionStep ==
    ASSUME SessionInv, AccountsStep
    PROVE  Rows' /\ SessionInv'
<1>1. Rows
  BY DEF SessionInv
<1>2. ASSUME NEW r \in Request, Proceed(r), UNCHANGED accountVars PROVE Rows' /\ SessionInv'
  <2>1. CASE RefreshRead(r) \/ RefreshReplacement(r) \/ RefreshUser(r)
    BY <1>2, <2>1, RefreshRows, RefreshInv
  <2>2. CASE Deliver(r) \/ Drop(r) \/ Die(r)
    BY <1>2, <2>2, RefreshRows, AnswerInv
  <2>3. CASE Mint(r)
    BY <1>1, <1>2, <2>3, MintRows, MintInv
  <2>4. CASE Rotate(r)
    BY <1>1, <1>2, <2>4, MintRows, RotateInv
  <2>5. CASE LogoutWrite(r) \/ RevokeAll(r)
    BY <1>2, <2>5, CutRows, EndInv
  <2> QED
    BY <1>2, <2>1, <2>2, <2>3, <2>4, <2>5 DEF Proceed
<1>3. ASSUME NEW d \in Device, LoseAnswer(d) \/ Crash(d), UNCHANGED accountVars
      PROVE  Rows' /\ SessionInv'
  <2>1. waiting[d] \in Request
    BY <1>1, <1>3 DEF LoseAnswer, Crash, GiveUp, Rows
  <2>2. Rows'
    BY <1>3, <2>1, ClientRows
  <2> QED
    BY <1>1, <1>3, <2>2, GiveUpInv
<1>4. ASSUME NEW r \in Request, NEW d \in Device, UNCHANGED accountVars,
             Login(r, d) \/ RefreshSend(r, d)
      PROVE  Rows' /\ SessionInv'
  BY <1>4, ClientRows, SendsInv
<1>5. ASSUME NEW r \in Request, NEW d \in Device, UNCHANGED accountVars, LogoutToken(r, d)
      PROVE  Rows' /\ SessionInv'
  BY <1>5, ClientRows, EndInv
<1>6. ASSUME NEW r \in Request, NEW ban \in BOOLEAN, UNCHANGED accountVars, BeginCut(r, ban)
      PROVE  Rows' /\ SessionInv'
  BY <1>6, CutRows, EndInv
<1>7. ASSUME UNCHANGED accountVars, (\E d \in Device : LogoutDevice(d)) \/ Unban \/ Tick
      PROVE  Rows' /\ SessionInv'
  BY <1>7, IdleRows, IdleInv
<1>8. ASSUME NEW r \in Request, Account(r) PROVE Rows' /\ SessionInv'
  <2>1. CASE Invalidate(r) \/ CreateSecret(r) \/ UseLink(r)
    BY <2>1, MailRows, MailInv
  <2>2. CASE \E sent \in BOOLEAN : Mail(r, sent)
    BY <2>2, MailRows, MailInv
  <2>3. CASE \E k \in Kind : Ask(r, k)
    BY <2>3, MailRows, MailInv
  <2>4. CASE ConfirmReset(r)
    BY <2>4, AccountRows, MailInv
  <2>5. CASE CreateUser(r)
    <3>1. Rows'
      BY <2>5, AccountRows
    <3> QED
      BY <2>5, <3>1, MailInv, VerifyInv
  <2>6. CASE VerifyUser(r) \/ VerifyCode(r) \/ Miss(r) \/ Burn(r) \/ Confirm(r)
    BY <2>6, AccountRows, VerifyInv
  <2>7. ASSUME NEW d \in Device, NEW open \in BOOLEAN, Register(r, d, open)
        PROVE  Rows' /\ SessionInv'
    <3>1. Rows'
      BY <2>7, AccountRows
    <3>2. CASE open = TRUE
      BY <2>7, <3>1, <3>2, SendsInv
    <3>3. CASE open = FALSE
      BY <2>7, <3>1, <3>3, MailInv
    <3> QED
      BY <3>1, <3>2, <3>3
  <2>8. ASSUME NEW d \in Device, NEW i \in {0, inbox["code"]}, Verify(r, d, i)
        PROVE  Rows' /\ SessionInv'
    <3>1. Rows'
      BY <2>8, AccountRows
    <3> QED
      BY <2>8, <3>1, SendsInv
  <2> QED
    BY <1>8, <2>1, <2>2, <2>3, <2>4, <2>5, <2>6, <2>7, <2>8 DEF Account
<1>9. ASSUME NEW k \in Kind, NEW i \in DOMAIN secret[k], Expire(k, i) PROVE Rows' /\ SessionInv'
  <2>1. /\ Rows'
        /\ UNCHANGED <<minted, device, revoked, replacedBy, op, held, waiting, logins, strays>>
    BY <1>9, ExpireRows
  <2>2. \A t \in Token : t > minted => revoked[t] = Live
    BY DEF SessionInv, TokensOwned
  <2> QED
    BY <2>1, <2>2, QuietInv
<1> QED
  BY <1>2, <1>3, <1>4, <1>5, <1>6, <1>7, <1>8, <1>9 DEF AccountsStep, Ongoing

-----------------------------------------------------------------------------
(* Every step keeps the invariant of the secrets *)

SendSteps == {"create", "mail", "burn", "miss", "password"}

\* The steps of Sessions start nothing that has to do with a secret, and mint
\* nothing before the address is verified.
LEMMA SessionsApart ==
    ASSUME Rows, Ongoing \/ \E r \in Request, d \in Device : Login(r, d)
    PROVE  \A q \in Request : op'[q].step \in SendSteps => op'[q] = op[q]
<1>1. ASSUME NEW r \in Request, NEW o, op' = [op EXCEPT ![r] = o], o.step \notin SendSteps
      PROVE  \A q \in Request : op'[q].step \in SendSteps => op'[q] = op[q]
  BY <1>1 DEF Rows
<1>2. NoOp.step \notin SendSteps
  BY DEF NoOp, SendSteps
<1>3. ASSUME NEW r \in Request, Refuse(r)
      PROVE  \A q \in Request : op'[q].step \in SendSteps => op'[q] = op[q]
  BY <1>3 DEF Refuse, Goto, SendSteps, Rows
<1>4. ASSUME NEW r \in Request, Proceed(r)
      PROVE  \A q \in Request : op'[q].step \in SendSteps => op'[q] = op[q]
  <2>1. CASE RefreshRead(r) \/ RefreshReplacement(r)
    BY <1>3, <2>1 DEF RefreshRead, RefreshReplacement, Goto, SendSteps, Rows
  <2>2. CASE RefreshUser(r)
    <3>1. CASE banned
      BY <1>3, <2>2, <3>1 DEF RefreshUser
    <3>2. CASE ~banned
      <4>1. op[r] \in [step : {"user"}, d : Device, retired : Token \cup {0}]
        <5>1. op[r] \in AllOps /\ op[r].step = "user"
          BY <2>2 DEF RefreshUser, Rows
        <5> QED
          BY <5>1 DEF AllOps, Ops, NoOp
      <4>2. [op[r] EXCEPT !.step = "mint"].step = "mint"
        BY <4>1
      <4> QED
        BY <2>2, <3>2, <4>2 DEF RefreshUser, Goto, SendSteps, Rows
    <3> QED
      BY <3>1, <3>2
  <2>3. CASE Mint(r)
    BY <2>3 DEF Mint, Goto, SendSteps, Rows
  <2>4. CASE Rotate(r)
    BY <2>4 DEF Rotate, Goto, SendSteps, Rows
  <2>5. CASE Deliver(r) \/ Drop(r) \/ Die(r) \/ LogoutWrite(r) \/ RevokeAll(r)
    <3>1. op' = [op EXCEPT ![r] = NoOp]
      BY <2>5 DEF Deliver, Drop, Die, LogoutWrite, RevokeAll, Goto
    <3> QED
      BY <1>1, <1>2, <3>1
  <2> QED
    BY <1>4, <2>1, <2>2, <2>3, <2>4, <2>5 DEF Proceed
<1>5. ASSUME NEW r \in Request, NEW d \in Device,
             RefreshSend(r, d) \/ LogoutToken(r, d) \/ Login(r, d)
      PROVE  \A q \in Request : op'[q].step \in SendSteps => op'[q] = op[q]
  BY <1>5 DEF RefreshSend, LogoutToken, Login, Goto, SendSteps, Rows
<1>6. ASSUME NEW d \in Device, LoseAnswer(d) \/ Crash(d) \/ LogoutDevice(d)
      PROVE  \A q \in Request : op'[q].step \in SendSteps => op'[q] = op[q]
  BY <1>2, <1>6 DEF LoseAnswer, Crash, LogoutDevice, GiveUp, Goto, Rows
<1>7. ASSUME NEW r \in Request, NEW ban \in BOOLEAN, BeginCut(r, ban)
      PROVE  \A q \in Request : op'[q].step \in SendSteps => op'[q] = op[q]
  BY <1>7 DEF BeginCut, Goto, SendSteps, Rows
<1>8. Unban \/ Tick => op' = op
  BY DEF Unban, Tick
<1> QED
  BY <1>4, <1>5, <1>6, <1>7, <1>8 DEF Ongoing

\* Before the address is verified, nobody mints: a refresh has no token to present.
LEMMA NoTokenStep ==
    ASSUME SessionInv, NoTokenYet, AccountsStep
    PROVE  NoTokenYet'
<1>1. SUFFICES ASSUME account' # "verified"
               PROVE  minted' = 0 /\ \A q \in Request : op'[q].step # "mint"
  BY DEF NoTokenYet
<1>2. Rows
  BY DEF SessionInv
<1>3. account # "verified"
  BY <1>1 DEF AccountsStep, accountVars, Account, Expire, Invalidate, CreateSecret, CreateUser,
     VerifyUser, VerifyCode, Miss, Burn, Confirm, ConfirmReset, UseLink, Mail, Ask, Register, Verify
<1>4. minted = 0 /\ \A q \in Request : op[q].step # "mint"
  BY <1>3 DEF NoTokenYet
<1>5. \A q \in Request : op[q].step # "user"
  <2>1. \A t, d : ~Owned(t, d)
    BY <1>4 DEF Owned
  <2> QED
    BY <2>1 DEF SessionInv, TokensOwned, OpOwned
<1>6. ASSUME NEW r \in Request, NEW o, Goto(r, o), o.step # "mint", minted' = minted
      PROVE  minted' = 0 /\ \A q \in Request : op'[q].step # "mint"
  BY <1>2, <1>4, <1>6 DEF Rows, Goto
<1>7. NoOp.step # "mint"
  BY DEF NoOp
<1>8. ASSUME Ongoing
      PROVE  minted' = 0 /\ \A q \in Request : op'[q].step # "mint"
  <2>1. ASSUME NEW r \in Request, Proceed(r)
        PROVE  minted' = 0 /\ \A q \in Request : op'[q].step # "mint"
    <3>1. CASE RefreshRead(r) \/ RefreshReplacement(r)
      <4>1. \/ \E d, t : Goto(r, [step |-> "user", d |-> d, retired |-> t])
            \/ \E d, t : Goto(r, [step |-> "replacement", d |-> d, next |-> t])
            \/ \E d : Goto(r, [step |-> "answer", d |-> d, t |-> 0])
        BY <3>1 DEF RefreshRead, RefreshReplacement, Refuse
      <4>2. minted' = minted
        BY <3>1 DEF RefreshRead, RefreshReplacement, tokenVars
      <4> QED
        BY <1>6, <4>1, <4>2
    <3>2. ~RefreshUser(r) /\ ~Mint(r)
      BY <1>4, <1>5 DEF RefreshUser, Mint
    <3>3. CASE Rotate(r)
      BY <1>2, <1>4, <3>3 DEF Rotate, Goto, Rows
    <3>4. CASE Deliver(r) \/ Drop(r) \/ Die(r) \/ LogoutWrite(r) \/ RevokeAll(r)
      <4>1. Goto(r, NoOp) /\ minted' = minted
        BY <3>4 DEF Deliver, Drop, Die, LogoutWrite, RevokeAll, tokenVars
      <4> QED
        BY <1>6, <1>7, <4>1
    <3> QED
      BY <2>1, <3>1, <3>2, <3>3, <3>4 DEF Proceed
  <2>2. ASSUME NEW r \in Request, NEW d \in Device, RefreshSend(r, d) \/ LogoutToken(r, d)
        PROVE  minted' = 0 /\ \A q \in Request : op'[q].step # "mint"
    <3>1. \/ Goto(r, [step |-> "sent", d |-> d, t |-> held[d]])
          \/ Goto(r, [step |-> "logout", t |-> held[d]])
          \/ op' = op
      BY <2>2 DEF RefreshSend, LogoutToken
    <3>2. minted' = minted
      BY <2>2 DEF RefreshSend, LogoutToken, tokenVars
    <3> QED
      BY <1>4, <1>6, <3>1, <3>2
  <2>3. ASSUME NEW d \in Device, LoseAnswer(d) \/ Crash(d) \/ LogoutDevice(d)
        PROVE  minted' = 0 /\ \A q \in Request : op'[q].step # "mint"
    BY <1>2, <1>4, <1>7, <2>3 DEF LoseAnswer, Crash, LogoutDevice, GiveUp, Goto, Rows, tokenVars
  <2>4. ASSUME NEW r \in Request, NEW ban \in BOOLEAN, BeginCut(r, ban)
        PROVE  minted' = 0 /\ \A q \in Request : op'[q].step # "mint"
    BY <1>2, <1>4, <2>4 DEF BeginCut, Goto, Rows, tokenVars
  <2>5. Unban \/ Tick => op' = op /\ minted' = minted
    BY DEF Unban, Tick, tokenVars
  <2> QED
    BY <1>4, <1>8, <2>1, <2>2, <2>3, <2>4, <2>5 DEF Ongoing
<1>9. ASSUME NEW r \in Request, Account(r)
      PROVE  minted' = 0 /\ \A q \in Request : op'[q].step # "mint"
  <2>1. minted' = minted
    BY <1>9 DEF Account, Keep, tokenVars, Invalidate, CreateSecret, CreateUser, VerifyUser,
       VerifyCode, Miss, Burn, Confirm, ConfirmReset, UseLink, Mail, Ask, Register, Verify
  <2>2. op[r] \in AllOps
    BY <1>2 DEF Rows
  <2>3. CASE Invalidate(r)
    <3>1. op[r] = [step |-> "invalidate", k |-> op[r].k]
      BY <2>2, <2>3 DEF Invalidate, AllOps, Ops, NoOp
    <3>2. [op[r] EXCEPT !.step = "create"].step = "create"
      BY <3>1
    <3> QED
      BY <1>2, <1>4, <2>1, <2>3, <3>2 DEF Invalidate, Goto, Rows
  <2>4. CASE VerifyUser(r)
    <3>1. op[r] = [step |-> "verify", d |-> op[r].d, i |-> op[r].i]
      BY <2>2, <2>4 DEF VerifyUser, AllOps, Ops, NoOp
    <3>2. [op[r] EXCEPT !.step = "code"].step = "code"
      BY <3>1
    <3> QED
      BY <1>2, <1>3, <1>4, <2>1, <2>4, <3>2 DEF VerifyUser, Goto, Rows
  <2>5. CASE CreateUser(r)
    <3>1. CASE account # "none"
      <4>1. Goto(r, NoOp) \/ Goto(r, [step |-> "answer", d |-> op[r].d, t |-> 0])
        BY <2>5, <3>1 DEF CreateUser, NoTokens, Refuse
      <4> QED
        BY <1>6, <1>7, <2>1, <4>1
    <3>2. CASE account = "none"
      <4>1. ~op[r].open
        BY <1>1, <2>5, <3>2 DEF CreateUser
      <4> QED
        BY <1>6, <2>1, <2>5, <3>2, <4>1 DEF CreateUser
    <3> QED
      BY <3>1, <3>2
  <2>6. CASE VerifyCode(r) \/ Miss(r)
    <3>1. \/ Goto(r, [step |-> "answer", d |-> op[r].d, t |-> 0])
          \/ \E i : Goto(r, [step |-> IF op[r].i = i THEN "burn" ELSE "miss", d |-> op[r].d, i |-> i])
      BY <2>6 DEF VerifyCode, Miss, NoTokens, Refuse
    <3> QED
      BY <1>6, <2>1, <3>1
  <2>7. ~Confirm(r)
    BY <1>1 DEF Confirm
  <2>8. CASE CreateSecret(r) \/ Burn(r) \/ ConfirmReset(r) \/ UseLink(r)
    <3>1. \/ Goto(r, [step |-> "mail", k |-> op[r].k, i |-> Len(secret'[op[r].k])])
          \/ Goto(r, [step |-> "confirm", d |-> op[r].d])
          \/ Goto(r, [step |-> "password", i |-> inbox["link"]])
          \/ Goto(r, [step |-> "cut"])
      BY <2>8 DEF CreateSecret, Burn, ConfirmReset, UseLink
    <3> QED
      BY <1>6, <2>1, <3>1
  <2>9. CASE \/ \E sent \in BOOLEAN : Mail(r, sent)
             \/ \E k \in Kind : Ask(r, k)
             \/ \E d \in Device, open \in BOOLEAN : Register(r, d, open)
             \/ \E d \in Device, i \in {0, inbox["code"]} : Verify(r, d, i)
    <3>1. \/ Goto(r, NoOp)
          \/ \E k : Goto(r, [step |-> "invalidate", k |-> k])
          \/ \E d, open : Goto(r, [step |-> "createUser", d |-> d, open |-> open])
          \/ \E d, i : Goto(r, [step |-> "verify", d |-> d, i |-> i])
      BY <2>9 DEF Mail, Ask, Register, Verify
    <3> QED
      BY <1>6, <1>7, <2>1, <3>1
  <2> QED
    BY <1>9, <2>3, <2>4, <2>5, <2>6, <2>7, <2>8, <2>9 DEF Account
<1>10. ASSUME NEW k \in Kind, NEW i \in DOMAIN secret[k], Expire(k, i)
       PROVE  minted' = 0 /\ \A q \in Request : op'[q].step # "mint"
  BY <1>4, <1>10 DEF Expire, vars, tokenVars
<1> QED
  BY <1>3, <1>8, <1>9, <1>10 DEF AccountsStep

\* A request at a step that names a secret names one of the rows, and one about to
\* store a secret finds no row of its kind that was sent alone.
Sound(o) ==
    /\ o.step = "create" => \A i \in 1..Len(secret[o.k]) : ~secret[o.k][i].alone
    /\ o.step = "mail" => o.i \in 1..Len(secret[o.k])
    /\ o.step \in {"burn", "miss"} => o.i \in 1..Len(secret["code"])
    /\ o.step = "password" => o.i \in 1..Len(secret["link"])

\* The rows of a kind: one sent alone is unspent and the newest.
NewestAlone(rows) ==
    \A i \in 1..Len(rows) : rows[i].alone => ~rows[i].spent /\ i = Len(rows)

\* The invariant of the secrets, one kind and one request at a time.
LEMMA SecretParts ==
    ASSUME Rows
    PROVE  (AloneIsNewest /\ InboxSent) <=>
               /\ \A k \in Kind : NewestAlone(secret[k]) /\ inbox[k] <= Len(secret[k])
               /\ \A r \in Request : Sound(op[r])
<1>1. \A r \in Request : op[r].step = "create" => op[r].k \in Kind
  BY Shapes DEF Rows
<1> QED
  BY <1>1 DEF AloneIsNewest, InboxSent, Sound, NewestAlone

\* A step that stores no secret.
LEMMA NothingStored ==
    ASSUME Rows, Rows', AloneIsNewest, InboxSent,
           \A k \in Kind : Len(secret'[k]) = Len(secret[k]),
           \A k \in Kind : \A i \in 1..Len(secret[k]) : secret'[k][i].alone =>
               secret[k][i].alone /\ secret'[k][i].spent = secret[k][i].spent,
           \A k \in Kind : inbox'[k] <= Len(secret[k]),
           \A q \in Request : op'[q].step \in SendSteps => op'[q] = op[q] \/ Sound(op[q])'
    PROVE  (AloneIsNewest /\ InboxSent)'
<1>1. /\ \A k \in Kind : NewestAlone(secret[k]) /\ inbox[k] <= Len(secret[k])
      /\ \A r \in Request : Sound(op[r])
  BY SecretParts
<1>2. \A k \in Kind : NewestAlone(secret'[k]) /\ inbox'[k] <= Len(secret'[k])
  BY <1>1 DEF NewestAlone
<1>3. ASSUME NEW q \in Request PROVE Sound(op[q])'
  <2>1. CASE op'[q].step \notin SendSteps
    BY <2>1 DEF Sound, SendSteps
  <2>2. CASE op'[q] = op[q]
    <3>1. Sound(op[q])
      BY <1>1
    <3>2. /\ op[q].step \in {"create", "mail"} => op[q].k \in Kind
          /\ "code" \in Kind /\ "link" \in Kind
      BY Shapes DEF Rows, Kind
    <3> QED
      BY <2>2, <3>1, <3>2 DEF Sound
  <2> QED
    BY <2>1, <2>2
<1>4. \A r \in Request : op'[r].step = "create" => op'[r].k \in Kind
  BY Shapes DEF Rows
<1>5. AloneIsNewest'
  BY <1>2, <1>3, <1>4 DEF AloneIsNewest, Sound, NewestAlone
<1>6. InboxSent'
  BY <1>2, <1>3 DEF InboxSent, Sound
<1> QED
  BY <1>5, <1>6

\* A request that goes on, to a step that names a row or to another.
LEMMA GoneOn ==
    ASSUME Rows, NEW r \in Request, NEW o, Goto(r, o), o.step \notin SendSteps \/ Sound(o)'
    PROVE  \A q \in Request : op'[q].step \in SendSteps => op'[q] = op[q] \/ Sound(op[q])'
<1>1. \A q \in Request : op'[q] = IF q = r THEN o ELSE op[q]
  BY DEF Rows, Goto
<1> QED
  BY <1>1 DEF Sound

\* The steps of the mails.
LEMMA MailsKeepSecrets ==
    ASSUME Rows, Rows', AloneIsNewest, InboxSent, NEW r \in Request,
           \/ Invalidate(r) \/ CreateSecret(r) \/ UseLink(r) \/ ConfirmReset(r)
           \/ \E sent \in BOOLEAN : Mail(r, sent)
           \/ \E k \in Kind : Ask(r, k)
    PROVE  (AloneIsNewest /\ InboxSent)'
<1>1. /\ op[r] \in AllOps
      /\ \A k \in Kind : NewestAlone(secret[k]) /\ inbox[k] <= Len(secret[k])
      /\ \A q \in Request : Sound(op[q])
  BY SecretParts DEF Rows
<1>2. \A k \in Kind : /\ secret[k] \in Seq(SecretRow) /\ Len(secret[k]) \in Nat
                      /\ inbox[k] \in Nat
  BY LenProperties DEF Rows, SecretRow
<1>3. /\ op[r].step \in {"invalidate", "create", "mail"} => op[r].k \in Kind
      /\ "link" \in Kind
      /\ \A q \in Request : op[q].step \in {"create", "mail"} => op[q].k \in Kind
  BY Shapes DEF Rows, Kind
<1>4. CASE Invalidate(r)
  <2>1. PICK k \in Kind : k = op[r].k
    BY <1>3, <1>4 DEF Invalidate
  <2>2. secret' = [secret EXCEPT ![k] = AllSpent(secret[k])] /\ inbox' = inbox
    BY <1>4, <2>1 DEF Invalidate
  <2>3. /\ Len(AllSpent(secret[k])) = Len(secret[k])
        /\ \A i \in 1..Len(secret[k]) : ~AllSpent(secret[k])[i].alone
    BY <1>2, AllSpentSeq
  <2>4. /\ \A j \in Kind : Len(secret'[j]) = Len(secret[j])
        /\ \A j \in Kind : \A i \in 1..Len(secret[j]) : secret'[j][i].alone =>
              secret[j][i].alone /\ secret'[j][i].spent = secret[j][i].spent
        /\ \A i \in 1..Len(secret'[k]) : ~secret'[k][i].alone
    BY <2>2, <2>3 DEF Rows
  <2>5. op[r] = [step |-> "invalidate", k |-> k]
    BY <1>1, <1>4, <2>1 DEF Invalidate, AllOps, Ops, NoOp
  <2>6. PICK o : Goto(r, o) /\ o = [step |-> "create", k |-> k]
    BY <1>4, <2>5 DEF Invalidate
  <2>7. Sound(o)'
    BY <2>4, <2>6 DEF Sound
  <2>8. \A q \in Request : op'[q].step \in SendSteps => op'[q] = op[q] \/ Sound(op[q])'
    BY <2>6, <2>7, GoneOn
  <2> QED
    BY <1>1, <2>2, <2>4, <2>8, NothingStored
<1>5. CASE CreateSecret(r)
  <2>1. PICK k \in Kind : k = op[r].k
    BY <1>3, <1>5 DEF CreateSecret
  <2>2. PICK e \in SecretRow : e = [Fresh EXCEPT !.alone = Sending(k) = {r}]
    <3>1. [Fresh EXCEPT !.alone = Sending(k) = {r}] \in SecretRow
      BY DEF Fresh, SecretRow
    <3> QED
      BY <3>1
  <2>3. /\ secret' = [secret EXCEPT ![k] = Append(secret[k], e)] /\ inbox' = inbox
        /\ op[r].step = "create"
    BY <1>5, <2>1, <2>2 DEF CreateSecret
  <2>4. /\ Len(secret'[k]) = Len(secret[k]) + 1
        /\ \A i \in 1..Len(secret[k]) : secret'[k][i] = secret[k][i]
        /\ secret'[k][Len(secret[k]) + 1] = e
    <3>1. secret'[k] = Append(secret[k], e)
      BY <2>3 DEF Rows
    <3> QED
      BY <1>2, <3>1, AppendProperties
  <2>5. \A j \in Kind : j # k => secret'[j] = secret[j]
    BY <2>3 DEF Rows
  <2>6. \A i \in 1..Len(secret[k]) : ~secret[k][i].alone
    BY <1>1, <2>1, <2>3 DEF Sound
  <2>7. ~e.spent /\ (e.alone => Sending(k) = {r})
    BY <2>2 DEF Fresh
  <2>8. PICK o : Goto(r, o) /\ o = [step |-> "mail", k |-> k, i |-> Len(secret[k]) + 1]
    BY <1>5, <2>1, <2>4 DEF CreateSecret
  <2>9. \A q \in Request : op'[q] = IF q = r THEN o ELSE op[q]
    BY <2>8 DEF Goto, Rows
  <2>10. AloneIsNewest'
    <3>1. ASSUME NEW j \in Kind, NEW i \in 1..Len(secret'[j]), secret'[j][i].alone
          PROVE  ~secret'[j][i].spent /\ i = Len(secret'[j])
      <4>1. CASE j = k
        BY <1>2, <2>4, <2>6, <2>7, <3>1, <4>1
      <4>2. CASE j # k
        BY <1>1, <2>5, <3>1, <4>2 DEF NewestAlone
      <4> QED
        BY <4>1, <4>2
    <3>2. ASSUME NEW j \in Kind, NEW i \in 1..Len(secret'[j]), secret'[j][i].alone,
                 NEW q \in Request, op'[q].step = "create", op'[q].k = j
          PROVE  FALSE
      <4>1. q # r /\ op[q] = op'[q]
        BY <2>8, <2>9, <3>2
      <4>2. CASE j = k
        <5>1. i = Len(secret[k]) + 1 /\ e.alone
          BY <1>2, <2>4, <2>6, <3>2, <4>2
        <5>2. q \in Sending(k)
          BY <3>2, <4>1, <4>2 DEF Sending
        <5> QED
          BY <2>7, <4>1, <5>1, <5>2
      <4>3. CASE j # k
        BY <1>1, <2>5, <3>2, <4>1, <4>3 DEF Sound
      <4> QED
        BY <4>2, <4>3
    <3> QED
      BY <3>1, <3>2 DEF AloneIsNewest
  <2>11. InboxSent'
    <3>1. \A j \in Kind : Len(secret[j]) <= Len(secret'[j]) /\ Len(secret'[j]) \in Nat
      BY <1>2, <2>4, <2>5
    <3>2. \A j \in Kind : inbox'[j] <= Len(secret'[j])
      BY <1>1, <1>2, <2>3, <3>1
    <3>3. ASSUME NEW q \in Request
          PROVE  /\ op'[q].step = "mail" => op'[q].i \in 1..Len(secret'[op'[q].k])
                 /\ op'[q].step \in {"burn", "miss"} => op'[q].i \in 1..Len(secret'["code"])
                 /\ op'[q].step = "password" => op'[q].i \in 1..Len(secret'["link"])
      <4>1. CASE q = r
        BY <1>2, <2>4, <2>8, <2>9, <4>1
      <4>2. CASE q # r
        <5>1. Sound(op[q]) /\ op'[q] = op[q] /\ "code" \in Kind /\ "link" \in Kind
              /\ (op[q].step = "mail" => op[q].k \in Kind)
          BY <1>1, <1>3, <2>9, <4>2 DEF Kind
        <5> QED
          BY <1>2, <3>1, <5>1, SMTT(30) DEF Sound
      <4> QED
        BY <4>1, <4>2
    <3> QED
      BY <3>2, <3>3 DEF InboxSent
  <2> QED
    BY <2>10, <2>11
<1>6. CASE UseLink(r)
  <2>1. secret' = [secret EXCEPT !["link"] = [secret["link"] EXCEPT ![op[r].i] = Spent]]
        /\ inbox' = inbox /\ Spent \in SecretRow /\ ~Spent.alone
    BY <1>6 DEF UseLink, Spent, Fresh, SecretRow
  <2>2. /\ Len([secret["link"] EXCEPT ![op[r].i] = Spent]) = Len(secret["link"])
        /\ \A i \in 1..Len(secret["link"]) : [secret["link"] EXCEPT ![op[r].i] = Spent][i]
              = IF i = op[r].i THEN Spent ELSE secret["link"][i]
    BY <1>2, <1>3, <2>1, ExceptRow
  <2>3. /\ \A j \in Kind : Len(secret'[j]) = Len(secret[j])
        /\ \A j \in Kind : \A i \in 1..Len(secret[j]) : secret'[j][i].alone =>
              secret[j][i].alone /\ secret'[j][i].spent = secret[j][i].spent
    BY <1>3, <2>1, <2>2, SMTT(30) DEF Rows
  <2>4. PICK o : Goto(r, o) /\ o = [step |-> "cut"]
    BY <1>6 DEF UseLink
  <2>5. o.step \notin SendSteps
    BY <2>4 DEF SendSteps
  <2>6. \A q \in Request : op'[q].step \in SendSteps => op'[q] = op[q] \/ Sound(op[q])'
    BY <2>4, <2>5, GoneOn
  <2> QED
    BY <1>1, <2>1, <2>3, <2>6, NothingStored
<1>7. ASSUME NEW o, Goto(r, o), o.step \notin SendSteps \/ Sound(o)', secret' = secret,
             \A k \in Kind : inbox'[k] <= Len(secret[k])
      PROVE  (AloneIsNewest /\ InboxSent)'
  <2>1. \A q \in Request : op'[q].step \in SendSteps => op'[q] = op[q] \/ Sound(op[q])'
    BY <1>7, GoneOn
  <2> QED
    BY <1>7, <2>1, NothingStored
<1>8. CASE ConfirmReset(r)
  <2>1. PICK o : Goto(r, o) /\ o = [step |-> "password", i |-> inbox["link"]]
    BY <1>8 DEF ConfirmReset
  <2>2. secret' = secret /\ inbox' = inbox /\ inbox["link"] # 0
    BY <1>8 DEF ConfirmReset, accountVars
  <2>3. Sound(o)'
    BY <1>1, <1>2, <1>3, <2>1, <2>2 DEF Sound
  <2> QED
    BY <1>1, <1>7, <2>1, <2>2, <2>3
<1>9. ASSUME NEW sent \in BOOLEAN, Mail(r, sent) PROVE (AloneIsNewest /\ InboxSent)'
  <2>1. PICK o : Goto(r, o) /\ o = NoOp
    BY <1>9 DEF Mail
  <2>2. o.step \notin SendSteps
    BY <2>1 DEF NoOp, SendSteps
  <2>3. secret' = secret
    BY <1>9 DEF Mail
  <2>4. \A k \in Kind : inbox'[k] <= Len(secret[k])
    <3>1. op[r].i \in 1..Len(secret[op[r].k]) /\ op[r].k \in Kind
      BY <1>1, <1>3, <1>9 DEF Mail, Sound
    <3> QED
      BY <1>1, <1>2, <1>9, <3>1 DEF Mail, Rows
  <2> QED
    BY <1>7, <2>1, <2>2, <2>3, <2>4
<1>10. ASSUME NEW k \in Kind, Ask(r, k) PROVE (AloneIsNewest /\ InboxSent)'
  <2>1. PICK o : Goto(r, o) /\ o = [step |-> "invalidate", k |-> k]
    BY <1>10 DEF Ask
  <2>2. o.step \notin SendSteps /\ secret' = secret /\ inbox' = inbox
    BY <1>10, <2>1 DEF SendSteps, Ask, accountVars
  <2> QED
    BY <1>1, <1>7, <2>1, <2>2
<1> QED
  BY <1>4, <1>5, <1>6, <1>8, <1>9, <1>10

\* The steps of a registration and of a verification, and the expiry of a secret.
LEMMA AccountsKeepSecrets ==
    ASSUME Rows, Rows', AloneIsNewest, InboxSent, NEW r \in Request,
           \/ CreateUser(r) \/ VerifyUser(r) \/ VerifyCode(r) \/ Miss(r) \/ Burn(r)
           \/ Confirm(r)
           \/ \E d \in Device, open \in BOOLEAN : Register(r, d, open)
           \/ \E d \in Device, i \in {0, inbox["code"]} : Verify(r, d, i)
    PROVE  (AloneIsNewest /\ InboxSent)'
<1>1. /\ op[r] \in AllOps
      /\ \A k \in Kind : NewestAlone(secret[k]) /\ inbox[k] <= Len(secret[k])
      /\ \A q \in Request : Sound(op[q])
  BY SecretParts DEF Rows
<1>2. \A k \in Kind : /\ secret[k] \in Seq(SecretRow) /\ Len(secret[k]) \in Nat
                      /\ DOMAIN secret[k] = 1..Len(secret[k]) /\ inbox[k] \in Nat
                      /\ secret[k] \in [1..Len(secret[k]) -> SecretRow]
  BY LenProperties DEF Rows, SecretRow
<1>3. "code" \in Kind
  BY DEF Kind
<1>4. ASSUME NEW o, Goto(r, o), o.step \notin SendSteps \/ Sound(o)', UNCHANGED <<secret, inbox>>
      PROVE  (AloneIsNewest /\ InboxSent)'
  <2>1. \A q \in Request : op'[q].step \in SendSteps => op'[q] = op[q] \/ Sound(op[q])'
    BY <1>4, GoneOn
  <2> QED
    BY <1>1, <1>4, <2>1, NothingStored
<1>5. ASSUME NEW rows \in Seq(SecretRow), secret' = [secret EXCEPT !["code"] = rows],
             Len(rows) = Len(secret["code"]),
             \A i \in 1..Len(rows) : rows[i].alone =>
                 secret["code"][i].alone /\ rows[i].spent = secret["code"][i].spent,
             NEW o, Goto(r, o), o.step \notin SendSteps,
             \A k \in Kind : inbox'[k] <= Len(secret[k])
      PROVE  (AloneIsNewest /\ InboxSent)'
  <2>1. /\ \A j \in Kind : Len(secret'[j]) = Len(secret[j])
        /\ \A j \in Kind : \A i \in 1..Len(secret[j]) : secret'[j][i].alone =>
              secret[j][i].alone /\ secret'[j][i].spent = secret[j][i].spent
    BY <1>3, <1>5 DEF Rows
  <2>2. \A q \in Request : op'[q].step \in SendSteps => op'[q] = op[q] \/ Sound(op[q])'
    BY <1>5, GoneOn
  <2> QED
    BY <1>5, <2>1, <2>2, NothingStored
<1>6. ASSUME Refuse(r) \/ Goto(r, NoOp)
      PROVE  \E o : Goto(r, o) /\ o.step \notin SendSteps
  BY <1>6 DEF Refuse, NoOp, SendSteps
<1>7. CASE CreateUser(r)
  <2>1. UNCHANGED <<secret, inbox>>
    BY <1>7 DEF CreateUser
  <2>2. CASE account # "none"
    <3>1. Refuse(r) \/ Goto(r, NoOp)
      BY <1>7, <2>2 DEF CreateUser, NoTokens
    <3> QED
      BY <1>4, <1>6, <2>1, <3>1
  <2>3. CASE account = "none"
    <3>1. PICK o : /\ Goto(r, o)
                   /\ o \in {[step |-> "mint", d |-> op[r].d, retired |-> 0],
                             [step |-> "invalidate", k |-> "code"]}
      BY <1>7, <2>3 DEF CreateUser
    <3>2. o.step \notin SendSteps
      BY <3>1 DEF SendSteps
    <3> QED
      BY <1>4, <2>1, <3>1, <3>2
  <2> QED
    BY <2>2, <2>3
<1>8. CASE VerifyUser(r)
  <2>1. op[r] = [step |-> "verify", d |-> op[r].d, i |-> op[r].i]
    BY <1>1, <1>8 DEF VerifyUser, AllOps, Ops, NoOp
  <2>2. PICK o : /\ Goto(r, o)
                 /\ o \in {[step |-> "mint", d |-> op[r].d, retired |-> 0],
                           [step |-> "code", d |-> op[r].d, i |-> op[r].i]}
    BY <1>8, <2>1 DEF VerifyUser
  <2>3. o.step \notin SendSteps /\ UNCHANGED <<secret, inbox>>
    BY <1>8, <2>2 DEF SendSteps, VerifyUser, accountVars
  <2> QED
    BY <1>4, <2>2, <2>3
<1>9. CASE VerifyCode(r)
  <2>1. UNCHANGED <<secret, inbox>>
    BY <1>9 DEF VerifyCode, accountVars
  <2>2. CASE NoTokens(r)
    <3>1. Refuse(r)
      BY <2>2 DEF NoTokens
    <3> QED
      BY <1>4, <1>6, <2>1, <3>1
  <2>3. CASE ~NoTokens(r)
    <3>1. PICK i \in Active("code") :
            Goto(r, [step |-> IF op[r].i = i THEN "burn" ELSE "miss", d |-> op[r].d, i |-> i])
      BY <1>9, <2>3 DEF VerifyCode
    <3>2. i \in 1..Len(secret["code"])
      BY <1>2, <1>3 DEF Active, Unspent
    <3>3. PICK o : /\ Goto(r, o)
                   /\ o = [step |-> IF op[r].i = i THEN "burn" ELSE "miss", d |-> op[r].d, i |-> i]
      BY <3>1
    <3>4. Sound(o)'
      BY <2>1, <3>2, <3>3 DEF Sound
    <3> QED
      BY <1>4, <2>1, <3>3, <3>4
  <2> QED
    BY <2>2, <2>3
<1>10. CASE Miss(r)
  <2>1. PICK i \in 1..Len(secret["code"]) : i = op[r].i
    BY <1>1, <1>10 DEF Miss, Sound
  <2>2. PICK e : e = [secret["code"][i] EXCEPT !.tries = @ + 1]
    OBVIOUS
  <2>3. secret["code"][i] \in SecretRow
    BY <1>2, <1>3
  <2>4. /\ e \in SecretRow
        /\ e.alone = secret["code"][i].alone /\ e.spent = secret["code"][i].spent
    BY <2>2, <2>3 DEF SecretRow
  <2>5. PICK rows : rows = [secret["code"] EXCEPT ![i] = e]
    OBVIOUS
  <2>6. secret' = [secret EXCEPT !["code"] = rows]
    BY <1>10, <2>1, <2>2, <2>5 DEF Miss
  <2>7. /\ rows \in Seq(SecretRow) /\ Len(rows) = Len(secret["code"])
        /\ \A j \in 1..Len(secret["code"]) : rows[j] = IF j = i THEN e ELSE secret["code"][j]
    BY <1>2, <1>3, <2>4, <2>5, ExceptRow
  <2>8. \A j \in 1..Len(rows) : rows[j].alone =>
           secret["code"][j].alone /\ rows[j].spent = secret["code"][j].spent
    BY <2>4, <2>7
  <2>9. Refuse(r) /\ inbox' = inbox
    BY <1>10 DEF Miss, NoTokens
  <2>10. PICK o : Goto(r, o) /\ o.step \notin SendSteps
    BY <1>6, <2>9
  <2> QED
    BY <1>1, <1>5, <2>6, <2>7, <2>8, <2>9, <2>10
<1>11. CASE Burn(r)
  <2>1. Spent \in SecretRow /\ ~Spent.alone
    BY DEF Spent, Fresh, SecretRow
  <2>2. PICK rows : rows = [secret["code"] EXCEPT ![op[r].i] = Spent]
    OBVIOUS
  <2>3. secret' = [secret EXCEPT !["code"] = rows] /\ inbox' = inbox
    BY <1>11, <2>2 DEF Burn
  <2>4. /\ rows \in Seq(SecretRow) /\ Len(rows) = Len(secret["code"])
        /\ \A j \in 1..Len(secret["code"]) :
              rows[j] = IF j = op[r].i THEN Spent ELSE secret["code"][j]
    BY <1>2, <1>3, <2>1, <2>2, ExceptRow
  <2>5. \A j \in 1..Len(rows) : rows[j].alone =>
           secret["code"][j].alone /\ rows[j].spent = secret["code"][j].spent
    BY <2>1, <2>4
  <2>6. PICK o : Goto(r, o) /\ o = [step |-> "confirm", d |-> op[r].d]
    BY <1>11 DEF Burn
  <2>7. o.step \notin SendSteps
    BY <2>6 DEF SendSteps
  <2> QED
    BY <1>1, <1>5, <2>3, <2>4, <2>5, <2>6, <2>7
<1>12. CASE Confirm(r)
  <2>1. PICK rows : rows = AllSpent(secret["code"])
    OBVIOUS
  <2>2. secret' = [secret EXCEPT !["code"] = rows] /\ inbox' = [inbox EXCEPT !["code"] = 0]
    BY <1>12, <2>1 DEF Confirm
  <2>3. /\ rows \in Seq(SecretRow) /\ Len(rows) = Len(secret["code"])
        /\ \A j \in 1..Len(secret["code"]) : ~rows[j].alone
    BY <1>2, <1>3, <2>1, AllSpentSeq
  <2>4. PICK o : Goto(r, o) /\ o = [step |-> "mint", d |-> op[r].d, retired |-> 0]
    BY <1>12 DEF Confirm
  <2>5. o.step \notin SendSteps
    BY <2>4 DEF SendSteps
  <2>6. \A k \in Kind : inbox'[k] <= Len(secret[k])
    BY <1>1, <1>2, <2>2 DEF Rows
  <2> QED
    BY <1>5, <2>2, <2>3, <2>4, <2>5, <2>6
<1>13. ASSUME NEW d \in Device, NEW open \in BOOLEAN, Register(r, d, open)
       PROVE  (AloneIsNewest /\ InboxSent)'
  <2>1. PICK o : Goto(r, o) /\ o = [step |-> "createUser", d |-> d, open |-> open]
    BY <1>13 DEF Register
  <2>2. o.step \notin SendSteps /\ UNCHANGED <<secret, inbox>>
    BY <1>13, <2>1 DEF SendSteps, Register, accountVars
  <2> QED
    BY <1>4, <2>1, <2>2
<1>14. ASSUME NEW d \in Device, NEW i \in {0, inbox["code"]}, Verify(r, d, i)
       PROVE  (AloneIsNewest /\ InboxSent)'
  <2>1. PICK o : Goto(r, o) /\ o = [step |-> "verify", d |-> d, i |-> i]
    BY <1>14 DEF Verify
  <2>2. o.step \notin SendSteps /\ UNCHANGED <<secret, inbox>>
    BY <1>14, <2>1 DEF SendSteps, Verify, accountVars
  <2> QED
    BY <1>4, <2>1, <2>2
<1> QED
  BY <1>7, <1>8, <1>9, <1>10, <1>11, <1>12, <1>13, <1>14

\* An expiry neither spends a secret nor stores one.
LEMMA ExpireKeepsSecrets ==
    ASSUME SessionInv, AloneIsNewest, InboxSent,
           NEW k \in Kind, NEW i \in DOMAIN secret[k], Expire(k, i)
    PROVE  (AloneIsNewest /\ InboxSent)'
<1>1. Rows /\ Rows' /\ op' = op /\ inbox' = inbox
  BY ExpireRows DEF SessionInv, Expire
<1>2. /\ \A j \in Kind : inbox[j] <= Len(secret[j])
      /\ secret[k] \in Seq(SecretRow) /\ DOMAIN secret[k] = 1..Len(secret[k])
      /\ secret[k] \in [1..Len(secret[k]) -> SecretRow]
  BY <1>1, LenProperties DEF InboxSent, Rows, SecretRow
<1>3. PICK e : e = [secret[k][i] EXCEPT !.late = TRUE]
  OBVIOUS
<1>4. e \in SecretRow /\ e.alone = secret[k][i].alone /\ e.spent = secret[k][i].spent
  <2>1. secret[k][i] \in SecretRow
    BY <1>2
  <2> QED
    BY <1>3, <2>1 DEF SecretRow
<1>5. PICK rows : rows = [secret[k] EXCEPT ![i] = e]
  OBVIOUS
<1>6. secret' = [secret EXCEPT ![k] = rows]
  BY <1>3, <1>5 DEF Expire
<1>7. /\ Len(rows) = Len(secret[k])
      /\ \A j \in 1..Len(secret[k]) : rows[j] = IF j = i THEN e ELSE secret[k][j]
  BY <1>2, <1>4, <1>5, ExceptRow
<1>8. /\ \A j \in Kind : Len(secret'[j]) = Len(secret[j])
      /\ \A j \in Kind : \A n \in 1..Len(secret[j]) : secret'[j][n].alone =>
            secret[j][n].alone /\ secret'[j][n].spent = secret[j][n].spent
  BY <1>1, <1>4, <1>6, <1>7 DEF Rows
<1> QED
  BY <1>1, <1>2, <1>8, NothingStored

\* Whatever the step, the secrets keep their invariant.
LEMMA SecretStep ==
    ASSUME IInv, AccountsStep
    PROVE  SecretInv'
<1>1. Rows /\ Rows' /\ SessionInv /\ AloneIsNewest /\ InboxSent
  BY SessionStep DEF IInv, SecretInv, SessionInv
<1>2. NoTokenYet'
  BY NoTokenStep DEF IInv, SecretInv
<1>3. (AloneIsNewest /\ InboxSent)'
  <2>1. ASSUME Ongoing \/ \E r \in Request, d \in Device : Login(r, d), UNCHANGED accountVars
        PROVE  (AloneIsNewest /\ InboxSent)'
    <3>1. UNCHANGED <<secret, inbox>>
      BY <2>1 DEF accountVars
    <3>2. \A q \in Request : op'[q].step \in SendSteps => op'[q] = op[q]
      BY <1>1, <2>1, SessionsApart
    <3>3. /\ \A k \in Kind : Len(secret'[k]) = Len(secret[k]) /\ inbox'[k] <= Len(secret[k])
          /\ \A k \in Kind : \A i \in 1..Len(secret[k]) : secret'[k][i].alone =>
                secret[k][i].alone /\ secret'[k][i].spent = secret[k][i].spent
      BY <1>1, <3>1 DEF InboxSent
    <3> QED
      BY <1>1, <3>2, <3>3, NothingStored
  <2>2. ASSUME NEW r \in Request, Account(r) PROVE (AloneIsNewest /\ InboxSent)'
    BY <1>1, <2>2, MailsKeepSecrets, AccountsKeepSecrets DEF Account
  <2>3. ASSUME NEW k \in Kind, NEW i \in DOMAIN secret[k], Expire(k, i)
        PROVE  (AloneIsNewest /\ InboxSent)'
    BY <1>1, <2>3, ExpireKeepsSecrets
  <2> QED
    BY <2>1, <2>2, <2>3 DEF AccountsStep
<1> QED
  BY <1>2, <1>3 DEF SecretInv

\* Before anything is registered.
LEMMA InitInv ==
    ASSUME AccountsInit
    PROVE  IInv
<1> USE DEF AccountsInit, Init
<1>1. NoOp \in AllOps /\ NoOp.step = "none" /\ Kind = {"code", "link"}
  BY DEF AllOps, Ops, NoOp, Kind
<1>2. Rows
  <2>1. << >> \in Seq(SecretRow)
    BY EmptySeq
  <2> QED
    BY <1>1, <2>1, SessionsAssumption DEF Rows, Token, SecretRow
<1>3. \A r \in Request : ~PreMint(op[r]) /\ OpOwned(op[r])
  BY <1>1 DEF PreMint, LoginOp, RefreshOp, OpOwned
<1>4. TokensOwned
  <2>1. Minters = {}
    BY <1>3 DEF Minters
  <2>2. minted + Cardinality(Minters) <= MaxTokens
    BY <2>1, FS_EmptySet, SessionsAssumption
  <2> QED
    BY <1>3, <2>2 DEF TokensOwned
<1>5. AwaitsItsOwn
  BY DEF AwaitsItsOwn
<1>6. ASSUME NEW d \in Device
      PROVE  Cardinality(LiveOf(d)) + Cardinality(Strayed(d)) + Due(d) <= logins[d] + strays[d]
  <2>1. LiveOf(d) = {} /\ Strayed(d) = {}
    BY <1>3 DEF LiveOf, LiveTokens, Strayed
  <2>2. Due(d) = 0
    BY DEF Due
  <2> QED
    BY <2>1, <2>2, FS_EmptySet
<1>7. SessionInv
  BY <1>2, <1>4, <1>5, <1>6 DEF SessionInv, Accounted
<1>8. SecretInv
  <2>1. \A k \in Kind : secret[k] = << >> /\ Len(secret[k]) = 0
    BY EmptySeq
  <2> QED
    BY <1>1, <2>1 DEF SecretInv, NoTokenYet, AloneIsNewest, InboxSent
<1> QED
  BY <1>7, <1>8 DEF IInv

-----------------------------------------------------------------------------
(* The session a client keeps *)

\* A request that is, or will be, about the tokens of a device.
Holder(o) == PreMint(o) \/ o.step \in {"rotate", "answer"}

\* No logout under way is about to retire t.
Unended(t) == \A r \in Request : ~(op[r].step = "logout" /\ op[r].t = t)
Good(t)    == revoked[t] = Live /\ Unended(t)

\* A device that has given up no request awaits all those it has.
Awaited(d) ==
    strays[d] = 0 => \A r \in Request : Holder(op[r]) /\ op[r].d = d => waiting[d] = r

\* It awaits a login when it is signed out, a refresh when it is not.
Stage(d) ==
    waiting[d] # Nobody =>
        /\ LoginOp(op[waiting[d]]) => held[d] = 0
        /\ RefreshOp(op[waiting[d]]) \/ op[waiting[d]].step = "rotate" => held[d] # 0

\* The token held is live, or, after one answer lost, its successor is.
InHand(d) ==
    /\ Unended(held[d])
    /\ losses[d] = 0 => revoked[held[d]] = Live
    /\ losses[d] = 1 => /\ revoked[held[d]] # Live /\ replacedBy[held[d]] # 0
                        /\ Good(replacedBy[held[d]])
\* The token that the next rotation retires.
Presented(d) == IF losses[d] = 0 THEN held[d] ELSE replacedBy[held[d]]

\* What the request a client awaits has read of the tokens.
Reading(d, o) ==
    /\ o.step = "sent" => o.t = held[d]
    /\ o.step = "replacement" => losses[d] = 1 /\ o.next = replacedBy[held[d]]
    /\ o.step \in {"user", "mint", "rotate"} => o.retired = Presented(d)
    /\ o.step = "rotate" => o.t # held[d]

\* What an answer says of them.
Answered(d, o) ==
    IF o.t = 0
    THEN losses[d] = 1 /\ revoked[held[d]] = Expired /\ Unended(held[d])
    ELSE losses[d] = 0 => /\ Unended(held[d]) /\ revoked[held[d]] # Live
                          /\ replacedBy[held[d]] = o.t

Brings(o) ==
    /\ o.step \in {"rotate", "answer"} /\ o.t # 0 => Good(o.t)
    /\ o.step = "rotate" => o.t # o.retired

Kept(d) ==
    strays[d] = 0 /\ ~ended[d] =>
        /\ waiting[d] # Nobody => Brings(op[waiting[d]])
        /\ held[d] # 0 /\ losses[d] <= 1 =>
              \/ waiting[d] = Nobody /\ InHand(d)
              \/ /\ waiting[d] # Nobody /\ op[waiting[d]].step = "answer"
                 /\ Answered(d, op[waiting[d]])
              \/ /\ waiting[d] # Nobody /\ op[waiting[d]].step # "answer"
                 /\ InHand(d) /\ Reading(d, op[waiting[d]])

KeepInv ==
    /\ losses \in [Device -> Nat] /\ ended \in [Device -> BOOLEAN]
    /\ \A d \in Device : Awaited(d) /\ Stage(d) /\ Kept(d)

KeptAt(d) == Awaited(d) /\ Stage(d) /\ Kept(d)

-----------------------------------------------------------------------------
(* The tokens of a device that a step leaves as they are *)

\* What d holds and awaits is the same.
Untouched(d) ==
    /\ waiting'[d] = waiting[d] /\ held'[d] = held[d]
    /\ losses'[d] = losses[d] /\ strays'[d] = strays[d]
    /\ waiting[d] # Nobody => op'[waiting[d]] = op[waiting[d]]
    /\ strays[d] = 0 /\ ~ended'[d] => ~ended[d]

\* Nobody else does anything about d, or to a token of d in use.
NoneForIt(d) ==
    \A r \in Request : Holder(op'[r]) /\ op'[r].d = d => Holder(op[r]) /\ op[r].d = d
SameToken(t) ==
    /\ Unended(t)' /\ (revoked'[t] = Live <=> revoked[t] = Live)
    /\ revoked[t] = Expired => revoked'[t] = Expired
    /\ replacedBy'[t] = replacedBy[t]
Spares(d) == \A t \in Token : Owned(t, d) /\ Unended(t) => SameToken(t)

LEMMA HeldOwned ==
    ASSUME SessionInv, NEW d \in Device
    PROVE  /\ held[d] # 0 => held[d] \in Token /\ Owned(held[d], d)
           /\ held[d] # 0 /\ replacedBy[held[d]] # 0 =>
                  replacedBy[held[d]] \in Token /\ Owned(replacedBy[held[d]], d)
           /\ waiting[d] # Nobody => waiting[d] \in Request /\ OpOwned(op[waiting[d]])
                                     /\ op[waiting[d]].d = d
BY DEF SessionInv, Rows, TokensOwned, AwaitsItsOwn, Owned

\* A token named by a rotation or an answer is one of the device.
LEMMA NamedOwned ==
    ASSUME SessionInv, NEW d \in Device, waiting[d] # Nobody,
           op[waiting[d]].step \in {"rotate", "answer"}, op[waiting[d]].t # 0
    PROVE  op[waiting[d]].t \in Token /\ Owned(op[waiting[d]].t, d)
<1>1. OpOwned(op[waiting[d]]) /\ op[waiting[d]].d = d
    BY HeldOwned
<1>2. Owned(op[waiting[d]].t, d)
    BY <1>1 DEF OpOwned
<1>3. minted \in 0..MaxTokens /\ MaxTokens \in Nat
    BY SessionsAssumption DEF SessionInv, Rows
<1> QED BY <1>2, <1>3 DEF Owned, Token

LEMMA Elsewhere ==
    ASSUME SessionInv, NEW d \in Device, KeptAt(d), Untouched(d),
           strays[d] = 0 => NoneForIt(d),
           strays[d] = 0 /\ ~ended'[d] => Spares(d)
    PROVE  KeptAt(d)'
<1>1. Awaited(d)'
    BY DEF KeptAt, Awaited, Untouched, NoneForIt
<1>2. Stage(d)'
    BY DEF KeptAt, Stage, Untouched
<1>3. Kept(d)'
    <2> SUFFICES ASSUME strays[d] = 0, ~ended'[d] PROVE Kept(d)'
        BY DEF Kept, Untouched
    <2>1. ~ended[d] /\ Spares(d)
        BY DEF Untouched
    <2>2. waiting[d] # Nobody => Brings(op[waiting[d]])'
        BY <2>1, NamedOwned DEF KeptAt, Kept, Brings, Untouched, Good, Spares, SameToken
    <2>3. ASSUME held[d] # 0, InHand(d) PROVE InHand(d)'
        <3>1. held[d] \in Token /\ Owned(held[d], d) /\ SameToken(held[d])
            BY <2>1, <2>3, HeldOwned DEF InHand, Spares
        <3>2. ASSUME losses[d] = 1 PROVE Good(replacedBy[held[d]])'
            <4>1. PICK n : n = replacedBy[held[d]] /\ n = replacedBy'[held'[d]]
                BY <3>1 DEF SameToken, Untouched
            <4>2. n \in Token /\ Owned(n, d) /\ Good(n)
                BY <2>3, <3>2, <4>1, HeldOwned DEF InHand
            <4>3. SameToken(n)
                BY <2>1, <4>2 DEF Spares, Good
            <4> QED BY <4>1, <4>2, <4>3 DEF Good, SameToken
        <3> QED BY <2>3, <3>1, <3>2 DEF InHand, SameToken, Untouched, Good
    <2>4. ASSUME held[d] # 0, waiting[d] # Nobody, Reading(d, op[waiting[d]]), InHand(d)
          PROVE  Reading(d, op[waiting[d]])'
        <3>1. replacedBy'[held[d]] = replacedBy[held[d]]
            BY <2>1, <2>4, HeldOwned DEF InHand, Spares, SameToken
        <3> QED BY <2>4, <3>1 DEF Reading, Presented, Untouched
    <2>5. ASSUME held[d] # 0, waiting[d] # Nobody, Answered(d, op[waiting[d]])
          PROVE  Answered(d, op[waiting[d]])'
        <3>1. Unended(held[d]) => SameToken(held[d])
            BY <2>1, <2>5, HeldOwned DEF Spares
        <3> QED BY <2>5, <3>1 DEF Answered, SameToken, Untouched
    <2> QED BY <2>1, <2>2, <2>3, <2>4, <2>5 DEF KeptAt, Kept, Untouched
<1> QED BY <1>1, <1>2, <1>3 DEF KeptAt

LEMMA IdleHolds == NoOp.step = "none" /\ ~Holder(NoOp)
BY DEF NoOp, Holder, PreMint, LoginOp, RefreshOp

\* A request that is not about tokens is awaited by nobody.
LEMMA AwaitedHolds ==
    ASSUME SessionInv, NEW d \in Device, waiting[d] # Nobody
    PROVE  Holder(op[waiting[d]]) /\ op[waiting[d]].d = d /\ waiting[d] \in Request
BY DEF SessionInv, Rows, AwaitsItsOwn, Holder

LEMMA QuietSpares ==
    ASSUME NEW r \in Request, NEW o, Rows, op' = op \/ op' = [op EXCEPT ![r] = o],
           NEW d \in Device, o.step = "logout" => ~Owned(o.t, d), UNCHANGED replacedBy,
           \A t \in Token : Owned(t, d) /\ Unended(t) =>
               revoked'[t] = revoked[t] \/ (revoked[t] \in Age /\ revoked'[t] = revoked[t] + 1
                                            /\ revoked[t] # Expired)
    PROVE  Spares(d)
<1> SUFFICES ASSUME NEW t \in Token, Owned(t, d), Unended(t) PROVE SameToken(t)
    BY DEF Spares
<1>1. Unended(t)'
    BY DEF Unended, Rows
<1>2. revoked[t] \in Age => revoked[t] + 1 # Live /\ revoked[t] # Live
    BY SessionsAssumption DEF Age, Live, Expired
<1> QED BY <1>1, <1>2 DEF SameToken

\* A request nobody awaits, or awaited by another device, takes a step.
LEMMA OtherKept ==
    ASSUME SessionInv, NEW r \in Request, NEW o, op' = [op EXCEPT ![r] = o],
           NEW d \in Device, KeptAt(d), waiting[d] # r,
           waiting'[d] = waiting[d], held'[d] = held[d], losses'[d] = losses[d],
           strays'[d] = strays[d],
           Holder(o) => (Holder(op[r]) /\ o.d = op[r].d) \/ o.d # d,
           ~(Holder(op[r]) /\ op[r].d = d) /\ ~ended'[d] => ~ended[d] /\ Spares(d)
    PROVE  KeptAt(d)'
<1>1. op \in [Request -> AllOps]
    BY DEF SessionInv, Rows
<1>3. strays[d] = 0 => ~(Holder(op[r]) /\ op[r].d = d)
    BY DEF KeptAt, Awaited
<1>2. Untouched(d)
    BY <1>1, <1>3, AwaitedHolds DEF Untouched
<1>4. strays[d] = 0 => NoneForIt(d)
    BY <1>1, <1>3 DEF NoneForIt
<1> QED BY <1>2, <1>3, <1>4, Elsewhere

\* A step of a request that is not about tokens.
LEMMA ApartKept ==
    ASSUME SessionInv, NEW r \in Request, NEW o, op' = [op EXCEPT ![r] = o],
           ~Holder(op[r]), ~Holder(o), NEW d \in Device, KeptAt(d),
           UNCHANGED <<waiting, held, losses, strays>>,
           ~ended'[d] => ~ended[d] /\ Spares(d)
    PROVE  KeptAt(d)'
<1>1. waiting[d] # r
    BY AwaitedHolds, SessionsAssumption
<1> QED BY <1>1, OtherKept

\* No request takes a step.
LEMMA StillKept ==
    ASSUME SessionInv, UNCHANGED op, NEW d \in Device, KeptAt(d),
           waiting'[d] = waiting[d], held'[d] = held[d], losses'[d] = losses[d],
           strays'[d] = strays[d], ~ended'[d] => ~ended[d] /\ Spares(d)
    PROVE  KeptAt(d)'
BY Elsewhere DEF Untouched, NoneForIt

\* A session ended on purpose, of a device that awaits nothing.
LEMMA EndedKept ==
    ASSUME NEW d \in Device, KeptAt(d), ended'[d] = TRUE, waiting[d] = Nobody,
           waiting'[d] = Nobody, strays'[d] = strays[d], NoneForIt(d)
    PROVE  KeptAt(d)'
BY DEF KeptAt, Awaited, Stage, Kept, NoneForIt

-----------------------------------------------------------------------------
(* The steps of the request a client awaits *)

LEMMA OwnKept ==
    ASSUME SessionInv, NEW r \in Request, NEW o, op' = [op EXCEPT ![r] = o],
           NEW d \in Device, KeptAt(d), waiting[d] = r, waiting'[d] = r,
           held'[d] = held[d], strays'[d] = strays[d],
           LoginOp(o) => LoginOp(op[r]),
           RefreshOp(o) \/ o.step = "rotate" => RefreshOp(op[r]) \/ op[r].step = "rotate",
           strays[d] = 0 /\ ~ended'[d] =>
               /\ Brings(o)'
               /\ held[d] # 0 /\ losses'[d] <= 1 =>
                      \/ o.step = "answer" /\ Answered(d, o)'
                      \/ o.step # "answer" /\ InHand(d)' /\ Reading(d, o)'
    PROVE  KeptAt(d)'
<1>1. op \in [Request -> AllOps] /\ op'[r] = o /\ Nobody \notin Request
    BY SessionsAssumption DEF SessionInv, Rows
<1>2. Awaited(d)'
    BY <1>1 DEF KeptAt, Awaited
<1>3. Stage(d)'
    BY <1>1 DEF KeptAt, Stage
<1>4. Kept(d)'
    BY <1>1 DEF Kept
<1> QED BY <1>2, <1>3, <1>4 DEF KeptAt

\* What the step of a request that ends no session says of the tokens.
LEMMA SameEnds ==
    ASSUME Rows, NEW r \in Request, NEW o, op' = [op EXCEPT ![r] = o],
           op[r].step # "logout", o.step # "logout"
    PROVE  \A t : Unended(t)' <=> Unended(t)
BY DEF Rows, Unended

LEMMA SameHand ==
    ASSUME Rows, NEW r \in Request, NEW o, op' = [op EXCEPT ![r] = o],
           op[r].step # "logout", o.step # "logout", UNCHANGED <<revoked, replacedBy, held, losses>>
    PROVE  /\ \A t : (Unended(t)' <=> Unended(t)) /\ (Good(t)' <=> Good(t))
           /\ \A d : (InHand(d)' <=> InHand(d)) /\ Presented(d)' = Presented(d)
<1>1. \A t : Unended(t)' <=> Unended(t)
    BY SameEnds
<1> QED BY <1>1 DEF Good, InHand, Presented

\* A login that goes on, or is refused.
LEMMA LoginKept ==
    ASSUME SessionInv, NEW r \in Request, NEW o, op' = [op EXCEPT ![r] = o],
           LoginOp(op[r]), LoginOp(o) \/ (o.step = "answer" /\ o.t = 0),
           NEW d \in Device, KeptAt(d), waiting[d] = r,
           UNCHANGED <<waiting, held, strays>>
    PROVE  KeptAt(d)'
<1>1. held[d] = 0
    BY SessionsAssumption DEF KeptAt, Stage
<1>2. ~RefreshOp(o) /\ o.step # "rotate"
    BY DEF LoginOp, RefreshOp
<1>3. Brings(o)'
    BY DEF Brings, LoginOp
<1> QED BY <1>1, <1>2, <1>3, OwnKept

\* What holds of a client that awaits a refresh.
LEMMA Refreshing ==
    ASSUME SessionInv, NEW d \in Device, KeptAt(d), waiting[d] # Nobody,
           RefreshOp(op[waiting[d]]) \/ op[waiting[d]].step = "rotate",
           strays[d] = 0, ~ended[d]
    PROVE  /\ held[d] # 0 /\ held[d] \in Token /\ Brings(op[waiting[d]])
           /\ losses[d] <= 1 => InHand(d) /\ Reading(d, op[waiting[d]])
<1>1. op[waiting[d]].step # "answer"
    BY DEF RefreshOp
<1>2. held[d] # 0
    BY DEF KeptAt, Stage
<1> QED BY <1>1, <1>2, HeldOwned DEF KeptAt, Kept

LEMMA RefreshReadKept ==
    ASSUME SessionInv, NEW r \in Request, RefreshRead(r), losses \in [Device -> Nat],
           NEW d \in Device, KeptAt(d), waiting[d] = r
    PROVE  KeptAt(d)'
<1>1. op[r].step = "sent" /\ op[r].d = d /\ RefreshOp(op[r]) /\ waiting[d] # Nobody
    BY AwaitedHolds, SessionsAssumption DEF RefreshRead, RefreshOp
<1>2. PICK t, o :
          /\ t = op[r].t /\ op' = [op EXCEPT ![r] = o]
          /\ \/ revoked[t] = Live /\ o = [step |-> "user", d |-> d, retired |-> t]
             \/ revoked[t] # Live /\ InGrace(t)
                /\ o = [step |-> "replacement", d |-> d, next |-> replacedBy[t]]
             \/ revoked[t] # Live /\ ~InGrace(t) /\ o = [step |-> "answer", d |-> d, t |-> 0]
    <2>1. PICK t : t = op[r].t
        OBVIOUS
    <2>2. ASSUME revoked[t] = Live
          PROVE  op' = [op EXCEPT ![r] = [step |-> "user", d |-> d, retired |-> t]]
        BY <1>1, <2>1, <2>2 DEF RefreshRead, Goto
    <2>3. ASSUME revoked[t] # Live, InGrace(t)
          PROVE  op' = [op EXCEPT ![r] = [step |-> "replacement", d |-> d, next |-> replacedBy[t]]]
        BY <1>1, <2>1, <2>3 DEF RefreshRead, Goto
    <2>4. ASSUME revoked[t] # Live, ~InGrace(t)
          PROVE  op' = [op EXCEPT ![r] = [step |-> "answer", d |-> d, t |-> 0]]
        BY <1>1, <2>1, <2>4 DEF RefreshRead, Goto, Refuse
    <2> QED BY <2>1, <2>2, <2>3, <2>4, ZenonT(60)
<1>3. /\ UNCHANGED <<revoked, replacedBy, held, losses, waiting, strays, ended>>
      /\ o.step \in {"user", "replacement", "answer"} /\ o.step # "logout"
    BY <1>2 DEF RefreshRead, clientVars, histVars, tokenVars
<1>4. ~LoginOp(o) /\ Brings(o)'
    BY <1>2 DEF LoginOp, Brings
<1>5. ASSUME strays[d] = 0, ~ended'[d], held[d] # 0, losses'[d] <= 1
      PROVE  \/ o.step = "answer" /\ Answered(d, o)'
             \/ o.step # "answer" /\ InHand(d)' /\ Reading(d, o)'
    <2>1. InHand(d) /\ Reading(d, op[r]) /\ held[d] \in Token
        BY <1>1, <1>3, <1>5, Refreshing
    <2>2. t = held[d] /\ losses[d] \in {0, 1}
        BY <1>1, <1>2, <1>3, <1>5, <2>1 DEF Reading
    <2>3. InHand(d)' /\ Unended(t)' /\ Presented(d)' = Presented(d)
        BY <1>1, <1>2, <1>3, <2>1, <2>2, SameHand DEF InHand, SessionInv
    <2>4. CASE revoked[t] = Live
        BY <1>2, <1>3, <2>1, <2>2, <2>3, <2>4 DEF InHand, Reading, Presented
    <2>5. CASE revoked[t] # Live /\ InGrace(t)
        BY <1>2, <1>3, <2>1, <2>2, <2>3, <2>5 DEF InHand, Reading
    <2>6. CASE revoked[t] # Live /\ ~InGrace(t)
        <3>1. losses[d] = 1 /\ replacedBy[t] # 0
            BY <2>1, <2>2, <2>6 DEF InHand
        <3>2. revoked[t] = Expired
            BY <2>1, <2>2, <2>6, <3>1, SessionsAssumption
            DEF InGrace, SessionInv, Rows, Age, Live, Expired
        <3> QED BY <1>2, <1>3, <2>2, <2>3, <2>6, <3>1, <3>2 DEF Answered
    <2> QED BY <2>4, <2>5, <2>6
<1> QED BY <1>1, <1>2, <1>3, <1>4, <1>5, OwnKept

LEMMA RefreshReplacementKept ==
    ASSUME SessionInv, NEW r \in Request, RefreshReplacement(r), losses \in [Device -> Nat],
           NEW d \in Device, KeptAt(d), waiting[d] = r
    PROVE  KeptAt(d)'
<1>1. op[r].step = "replacement" /\ op[r].d = d /\ RefreshOp(op[r]) /\ waiting[d] # Nobody
    BY AwaitedHolds, SessionsAssumption DEF RefreshReplacement, RefreshOp
<1>2. PICK n, o :
          /\ n = op[r].next /\ op' = [op EXCEPT ![r] = o]
          /\ \/ revoked[n] = Live /\ o = [step |-> "user", d |-> d, retired |-> n]
             \/ revoked[n] # Live /\ o = [step |-> "answer", d |-> d, t |-> 0]
    <2>1. PICK n : n = op[r].next
        OBVIOUS
    <2>2. ASSUME revoked[n] = Live
          PROVE  op' = [op EXCEPT ![r] = [step |-> "user", d |-> d, retired |-> n]]
        BY <1>1, <2>1, <2>2 DEF RefreshReplacement, Goto
    <2>3. ASSUME revoked[n] # Live
          PROVE  op' = [op EXCEPT ![r] = [step |-> "answer", d |-> d, t |-> 0]]
        BY <1>1, <2>1, <2>3 DEF RefreshReplacement, Goto, Refuse
    <2> QED BY <2>1, <2>2, <2>3
<1>3. /\ UNCHANGED <<revoked, replacedBy, held, losses, waiting, strays, ended>>
      /\ o.step \in {"user", "answer"} /\ o.step # "logout"
    BY <1>2 DEF RefreshReplacement, clientVars, histVars, tokenVars
<1>4. ~LoginOp(o) /\ Brings(o)'
    BY <1>2 DEF LoginOp, Brings
<1>5. ASSUME strays[d] = 0, ~ended'[d], held[d] # 0, losses'[d] <= 1
      PROVE  o.step # "answer" /\ InHand(d)' /\ Reading(d, o)'
    <2>1. InHand(d) /\ Reading(d, op[r]) /\ held[d] \in Token
        BY <1>1, <1>3, <1>5, Refreshing
    <2>2. n = replacedBy[held[d]] /\ losses[d] = 1
        BY <1>1, <1>2, <2>1 DEF Reading
    <2>3. InHand(d)' /\ Presented(d)' = Presented(d)
        BY <1>1, <1>2, <1>3, <2>1, SameHand DEF SessionInv
    <2>4. o = [step |-> "user", d |-> d, retired |-> n]
        BY <1>2, <2>1, <2>2 DEF InHand, Good
    <2> QED BY <2>2, <2>3, <2>4 DEF Reading, Presented
<1> QED BY <1>1, <1>2, <1>3, <1>4, <1>5, OwnKept

LEMMA RefreshUserKept ==
    ASSUME SessionInv, NEW r \in Request, RefreshUser(r), losses \in [Device -> Nat],
           ended \in [Device -> BOOLEAN], NEW d \in Device, KeptAt(d), waiting[d] = r
    PROVE  KeptAt(d)'
<1>1. op[r].step = "user" /\ op[r].d = d /\ RefreshOp(op[r]) /\ waiting[d] # Nobody
    BY AwaitedHolds, SessionsAssumption DEF RefreshUser, RefreshOp
<1>2. op[r].retired # 0
    BY <1>1, SessionsAssumption DEF SessionInv, TokensOwned, OpOwned, Owned, Rows
<1>3. CASE banned
    <2>1. PICK o : op' = [op EXCEPT ![r] = o] /\ o = [step |-> "answer", d |-> d, t |-> 0]
        BY <1>1, <1>3 DEF RefreshUser, Goto, Refuse
    <2>2. ended'[d] = TRUE /\ UNCHANGED <<waiting, held, strays>>
        BY <1>3 DEF RefreshUser, clientVars
    <2>3. ~LoginOp(o) /\ ~RefreshOp(o) /\ o.step # "rotate"
        BY <2>1 DEF LoginOp, RefreshOp
    <2> QED BY <2>1, <2>2, <2>3, OwnKept
<1>4. CASE ~banned
    <2>1. PICK o : op' = [op EXCEPT ![r] = o] /\ o = [op[r] EXCEPT !.step = "mint"]
        BY <1>4 DEF RefreshUser, Goto
    <2>2. /\ UNCHANGED <<revoked, replacedBy, held, losses, waiting, strays, ended>>
          /\ o.step = "mint" /\ o.retired = op[r].retired
        BY <1>1, <1>4, <2>1 DEF RefreshUser, clientVars, SessionInv, Rows, AllOps, Ops, NoOp
    <2>3. ~LoginOp(o) /\ Brings(o)'
        BY <1>2, <2>2 DEF LoginOp, Brings
    <2>4. ASSUME strays[d] = 0, ~ended'[d], held[d] # 0, losses'[d] <= 1
          PROVE  o.step # "answer" /\ InHand(d)' /\ Reading(d, o)'
        <3>1. InHand(d) /\ Reading(d, op[r])
            BY <1>1, <2>2, <2>4, Refreshing
        <3>2. InHand(d)' /\ Presented(d)' = Presented(d)
            BY <1>1, <2>1, <2>2, <3>1, SameHand DEF SessionInv
        <3> QED BY <1>1, <2>2, <3>1, <3>2 DEF Reading
    <2> QED BY <1>1, <2>1, <2>2, <2>3, <2>4, OwnKept
<1> QED BY <1>3, <1>4

\* A token just minted.
LEMMA NewToken ==
    ASSUME SessionInv, SessionInv', NEW r \in Request, Mint(r)
    PROVE  minted \in Nat /\ \E n \in Token : n = minted' /\ n = minted + 1 /\ Good(n)'
<1>1. PICK n : n = minted'
    OBVIOUS
<1>2. n = minted + 1 /\ minted \in Nat /\ n \in Nat /\ n <= MaxTokens /\ MaxTokens \in Nat
    BY <1>1, SessionsAssumption DEF Mint, SessionInv, Rows
<1>3. n \in Token
    BY <1>2 DEF Token
<1>4. revoked'[n] = Live
    BY <1>2, <1>3 DEF Mint, SessionInv, TokensOwned
<1>5. \/ op' = [op EXCEPT ![r] = [step |-> "answer", d |-> op[r].d, t |-> n]]
      \/ op' = [op EXCEPT ![r] =
                   [step |-> "rotate", d |-> op[r].d, retired |-> op[r].retired, t |-> n]]
    BY <1>1 DEF Mint, Goto
<1>6. \A q \in Request : op'[q].step = "logout" => op[q].step = "logout" /\ op'[q].t = op[q].t
    <2>1. op \in [Request -> AllOps]
        BY DEF SessionInv, Rows
    <2> QED BY <1>5, <2>1
<1>7. \A q \in Request : op[q].step = "logout" => op[q].t \in 1..minted
    BY DEF SessionInv, TokensOwned, OpOwned
<1>8. Unended(n)'
    BY <1>2, <1>6, <1>7 DEF Unended
<1> QED BY <1>1, <1>2, <1>3, <1>4, <1>8 DEF Good

LEMMA MintKept ==
    ASSUME SessionInv, SessionInv', NEW r \in Request, Mint(r), losses \in [Device -> Nat],
           ended \in [Device -> BOOLEAN], NEW d \in Device, KeptAt(d), waiting[d] = r
    PROVE  KeptAt(d)'
<1>1. op[r].step = "mint" /\ op[r].d = d /\ waiting[d] # Nobody
    BY AwaitedHolds, SessionsAssumption DEF Mint
<1>2. UNCHANGED <<revoked, replacedBy, held, losses, waiting, strays>>
    BY DEF Mint, clientVars
<1>3. PICK n : n = minted' /\ n = minted + 1 /\ minted \in Nat /\ n \in Token /\ Good(n)'
    BY NewToken
<1>4. CASE op[r].retired = 0
    <2>1. PICK o : op' = [op EXCEPT ![r] = o] /\ o = [step |-> "answer", d |-> d, t |-> n]
        BY <1>1, <1>3, <1>4 DEF Mint, Goto
    <2>2. held[d] = 0
        BY <1>1, <1>4 DEF KeptAt, Stage, LoginOp
    <2>3. ~LoginOp(o) /\ ~RefreshOp(o) /\ o.step # "rotate" /\ Brings(o)'
        BY <1>3, <2>1 DEF LoginOp, RefreshOp, Brings
    <2> QED BY <1>2, <2>1, <2>2, <2>3, OwnKept
<1>5. CASE op[r].retired # 0
    <2>1. PICK o, x : /\ x = op[r].retired /\ op' = [op EXCEPT ![r] = o]
                      /\ o = [step |-> "rotate", d |-> d, retired |-> x, t |-> n]
        BY <1>1, <1>3, <1>5 DEF Mint, Goto
    <2>2. RefreshOp(op[r]) /\ (ended'[d] <=> ended[d])
        BY <1>1, <1>5 DEF RefreshOp, Mint
    <2>3. x \in 1..minted /\ x # n
        BY <1>1, <1>3, <1>5, <2>1 DEF SessionInv, TokensOwned, OpOwned, Owned
    <2>4. ~LoginOp(o) /\ Brings(o)' /\ o.step # "logout"
        BY <1>3, <2>1, <2>3 DEF LoginOp, Brings
    <2>5. ASSUME strays[d] = 0, ~ended'[d], held[d] # 0, losses'[d] <= 1
          PROVE  o.step # "answer" /\ InHand(d)' /\ Reading(d, o)'
        <3>1. InHand(d) /\ Reading(d, op[r]) /\ held[d] \in Token /\ Owned(held[d], d)
            BY <1>1, <1>2, <2>2, <2>5, Refreshing, HeldOwned
        <3>2. InHand(d)' /\ Presented(d)' = Presented(d)
            BY <1>1, <1>2, <2>1, <2>4, <3>1, SameHand DEF SessionInv
        <3>3. held[d] # n
            BY <1>3, <3>1 DEF Owned
        <3> QED BY <1>1, <1>2, <2>1, <3>1, <3>2, <3>3 DEF Reading
    <2> QED BY <1>1, <1>2, <2>1, <2>2, <2>4, <2>5, OwnKept
<1> QED BY <1>4, <1>5

LEMMA RotateKept ==
    ASSUME SessionInv, NEW r \in Request, Rotate(r), losses \in [Device -> Nat],
           NEW d \in Device, KeptAt(d), waiting[d] = r
    PROVE  KeptAt(d)'
<1>1. op[r].step = "rotate" /\ op[r].d = d /\ waiting[d] # Nobody
    BY AwaitedHolds, SessionsAssumption DEF Rotate
<1>2. PICK o, x, t :
          /\ x = op[r].retired /\ t = op[r].t
          /\ op' = [op EXCEPT ![r] = o] /\ o = [step |-> "answer", d |-> d, t |-> t]
          /\ revoked' = [revoked EXCEPT ![x] = 0] /\ replacedBy' = [replacedBy EXCEPT ![x] = t]
    BY <1>1 DEF Rotate, Goto
<1>3. UNCHANGED <<held, losses, waiting, strays, ended>>
    BY DEF Rotate, clientVars, histVars
<1>4. x \in Token /\ t \in Token /\ t # 0 /\ 0 # Live
    BY <1>1, <1>2, SessionsAssumption
    DEF SessionInv, TokensOwned, OpOwned, Owned, Rows, Token, Live
<1>5. \A y : Unended(y)' <=> Unended(y)
    <2>1. Rows /\ op[r].step # "logout" /\ o.step # "logout" /\ op' = [op EXCEPT ![r] = o]
        BY <1>1, <1>2 DEF SessionInv
    <2> QED BY <2>1, SameEnds
<1>6. ~LoginOp(o) /\ ~RefreshOp(o) /\ o.step # "rotate"
    BY <1>2 DEF LoginOp, RefreshOp
<1>7. ASSUME strays[d] = 0, ~ended'[d] PROVE Brings(o)'
    <2>1. Good(t) /\ t # x
        BY <1>1, <1>2, <1>3, <1>4, <1>7, Refreshing DEF Brings
    <2>2. Good(t)'
        BY <1>2, <1>4, <1>5, <2>1 DEF Good, SessionInv, Rows
    <2> QED BY <1>2, <2>2 DEF Brings
<1>8. ASSUME strays[d] = 0, ~ended'[d], held[d] # 0, losses'[d] <= 1 PROVE Answered(d, o)'
    <2>1. InHand(d) /\ Reading(d, op[r])
        BY <1>1, <1>3, <1>8, Refreshing
    <2>2. losses[d] = 0 => x = held[d] /\ Unended(held[d])
        BY <1>1, <1>2, <2>1 DEF Reading, Presented, InHand
    <2> QED BY <1>2, <1>3, <1>4, <1>5, <2>2 DEF Answered, SessionInv, Rows
<1> QED BY <1>1, <1>2, <1>3, <1>6, <1>7, <1>8, OwnKept

LEMMA DeliverKept ==
    ASSUME SessionInv, NEW r \in Request, Deliver(r), losses \in [Device -> Nat],
           NEW d \in Device, KeptAt(d), waiting[d] = r
    PROVE  KeptAt(d)'
<1>1. op[r].step = "answer" /\ op[r].d = d /\ waiting[d] # Nobody
    BY AwaitedHolds, SessionsAssumption DEF Deliver
<1>2. PICK t : /\ t = op[r].t /\ op' = [op EXCEPT ![r] = NoOp]
               /\ held'[d] = t /\ waiting'[d] = Nobody /\ losses'[d] = 0
    BY <1>1 DEF Deliver, Goto, SessionInv, Rows
<1>3. UNCHANGED <<revoked, replacedBy, strays, ended>>
    BY DEF Deliver, tokenVars
<1>4. Awaited(d)'
    BY <1>1, <1>2, <1>3, IdleHolds DEF KeptAt, Awaited, SessionInv, Rows
<1>5. Stage(d)'
    BY <1>2 DEF Stage
<1>6. Kept(d)'
    <2> SUFFICES ASSUME strays[d] = 0, ~ended[d], t # 0 PROVE InHand(d)'
        BY <1>2, <1>3 DEF Kept
    <2>1. Good(t)
        BY <1>1, <1>2 DEF KeptAt, Kept, Brings
    <2>2. Unended(t)'
        BY <1>1, <1>2, <2>1, SameEnds, IdleHolds DEF Good, SessionInv
    <2> QED BY <1>2, <1>3, <2>1, <2>2 DEF InHand, Good
<1> QED BY <1>4, <1>5, <1>6 DEF KeptAt

\* The client gives up: an answer is lost, or the request goes on without it.
LEMMA GiveUpKept ==
    ASSUME SessionInv, NEW d \in Device, LoseAnswer(d) \/ Crash(d),
           losses \in [Device -> Nat], KeptAt(d)
    PROVE  KeptAt(d)'
<1>1. PICK r \in Request : r = waiting[d] /\ Holder(op[r]) /\ op[r].d = d
    BY AwaitedHolds DEF LoseAnswer, Crash, GiveUp
<1>2. waiting'[d] = Nobody /\ held' = held /\ UNCHANGED <<revoked, replacedBy, ended>>
    BY DEF LoseAnswer, Crash, GiveUp, SessionInv, Rows, tokenVars
<1>3. CASE op[r].step # "answer"
    <2>1. strays'[d] # 0
        BY <1>1, <1>3 DEF LoseAnswer, Crash, GiveUp, SessionInv, Rows
    <2> QED BY <1>2, <2>1 DEF KeptAt, Awaited, Stage, Kept
<1>4. CASE op[r].step = "answer"
    <2>1. /\ op' = [op EXCEPT ![r] = NoOp] /\ losses'[d] = losses[d] + 1 /\ strays' = strays
          /\ losses[d] \in Nat
        BY <1>1, <1>4 DEF LoseAnswer, Crash, GiveUp, Goto
    <2>2. Awaited(d)'
        BY <1>1, <2>1, IdleHolds DEF KeptAt, Awaited, SessionInv, Rows
    <2>3. Stage(d)'
        BY <1>2 DEF Stage
    <2>4. ASSUME strays[d] = 0, ~ended[d], held[d] # 0, losses'[d] <= 1 PROVE InHand(d)'
        <3>1. losses[d] = 0 /\ losses'[d] = 1
            BY <2>1, <2>4
        <3>2. waiting[d] # Nobody
            BY <1>1, SessionsAssumption
        <3>3. Brings(op[r]) /\ Answered(d, op[r])
            BY <1>1, <1>4, <2>4, <3>1, <3>2 DEF KeptAt, Kept
        <3>4. PICK t, h : /\ t = op[r].t /\ t # 0 /\ Good(t)
                          /\ h = held[d] /\ replacedBy[h] = t /\ Unended(h) /\ revoked[h] # Live
            BY <1>4, <3>1, <3>3 DEF Brings, Answered
        <3>5. Unended(t)' /\ Unended(h)'
            <4>1. Rows /\ op[r].step # "logout" /\ NoOp.step # "logout"
                BY <1>4, IdleHolds DEF SessionInv
            <4>2. \A u : Unended(u)' <=> Unended(u)
                BY <2>1, <4>1, SameEnds
            <4> QED BY <3>4, <4>2 DEF Good
        <3>6. held'[d] = h /\ revoked'[h] # Live /\ replacedBy'[h] = t /\ revoked'[t] = Live
            BY <1>2, <3>4 DEF Good
        <3> QED BY <3>1, <3>4, <3>5, <3>6 DEF InHand, Good
    <2>5. Kept(d)'
        BY <1>2, <2>1, <2>4 DEF Kept
    <2> QED BY <2>2, <2>3, <2>5 DEF KeptAt
<1> QED BY <1>3, <1>4

\* A client that awaited nothing sends a request.
LEMMA SendKept ==
    ASSUME SessionInv, NEW r \in Request, NEW o, op' = [op EXCEPT ![r] = o], op[r] = NoOp,
           NEW d \in Device, KeptAt(d), waiting[d] = Nobody, waiting'[d] = r,
           UNCHANGED <<revoked, replacedBy, held, losses, strays, ended>>,
           \/ LoginOp(o) /\ held[d] = 0
           \/ o.step = "sent" /\ o.t = held[d] /\ held[d] # 0
    PROVE  KeptAt(d)'
<1>1. op \in [Request -> AllOps] /\ op'[r] = o /\ Nobody \notin Request
    BY SessionsAssumption DEF SessionInv, Rows
<1>2. o.step \notin {"rotate", "answer", "logout"} /\ ~(LoginOp(o) /\ o.step = "sent")
    BY DEF LoginOp
<1>3. Awaited(d)'
    BY <1>1 DEF KeptAt, Awaited
<1>4. Stage(d)'
    BY <1>1, <1>2 DEF Stage, RefreshOp, LoginOp
<1>5. Brings(o)'
    BY <1>2 DEF Brings
<1>6. ASSUME strays[d] = 0, ~ended[d], held[d] # 0, losses[d] <= 1
      PROVE  InHand(d)' /\ Reading(d, o)'
    <2>1. InHand(d)
        BY <1>6 DEF KeptAt, Kept
    <2>2. InHand(d)'
        BY <1>2, <2>1, SameHand, IdleHolds DEF SessionInv
    <2> QED BY <1>6, <2>2 DEF Reading
<1>7. Kept(d)'
    BY <1>1, <1>2, <1>5, <1>6 DEF Kept
<1> QED BY <1>3, <1>4, <1>7 DEF KeptAt

-----------------------------------------------------------------------------
(* Every step keeps them *)

\* A request that a device does not await, and that retires nothing.
LEMMA Unaffected ==
    ASSUME SessionInv, NEW r \in Request, NEW o, op' = [op EXCEPT ![r] = o], o.step # "logout",
           UNCHANGED <<revoked, replacedBy>>,
           NEW d \in Device, KeptAt(d), waiting[d] # r, ended'[d] = ended[d] \/ op[r].d = d,
           ended'[d] = ended[d] \/ Holder(op[r]),
           waiting'[d] = waiting[d], held'[d] = held[d], losses'[d] = losses[d],
           strays'[d] = strays[d],
           Holder(o) => (Holder(op[r]) /\ o.d = op[r].d) \/ o.d # d
    PROVE  KeptAt(d)'
<1>1. Rows
    BY DEF SessionInv
<1>2. Spares(d)
    BY <1>1, QuietSpares
<1> QED BY <1>2, OtherKept

LEMMA RefreshKept ==
    ASSUME SessionInv, SessionInv', KeepInv, NEW r \in Request, NEW d \in Device,
           RefreshRead(r) \/ RefreshReplacement(r) \/ RefreshUser(r) \/ Mint(r) \/ Rotate(r)
    PROVE  KeptAt(d)'
<1>1. KeptAt(d) /\ losses \in [Device -> Nat] /\ ended \in [Device -> BOOLEAN]
    BY DEF KeepInv, KeptAt
<1>2. CASE waiting[d] = r
    BY <1>1, <1>2, RefreshReadKept, RefreshReplacementKept, RefreshUserKept, MintKept, RotateKept
<1>3. CASE waiting[d] # r
    <2>1. Holder(op[r])
        BY DEF Holder, PreMint, RefreshOp, LoginOp, RefreshRead, RefreshReplacement, RefreshUser,
               Mint, Rotate
    <2>2. CASE RefreshRead(r) \/ RefreshReplacement(r)
        <3>1. PICK o : /\ op' = [op EXCEPT ![r] = o] /\ o.step \in {"user", "replacement", "answer"}
                       /\ o.d = op[r].d
            BY <2>2 DEF RefreshRead, RefreshReplacement, Goto, Refuse
        <3>2. UNCHANGED <<revoked, replacedBy, held, losses, waiting, strays, ended>>
            BY <2>2 DEF RefreshRead, RefreshReplacement, clientVars, histVars, tokenVars
        <3> QED BY <1>1, <1>3, <2>1, <3>1, <3>2, Unaffected
    <2>3. CASE RefreshUser(r)
        <3>1. UNCHANGED <<replacedBy, held, losses, waiting, strays>>
            BY <2>3 DEF RefreshUser, clientVars
        <3>2. CASE banned
            <4>1. PICK o : op' = [op EXCEPT ![r] = o] /\ o.d = op[r].d
                BY <2>3, <3>2 DEF RefreshUser, Goto, Refuse
            <4>2. ended'[d] = TRUE
                BY <2>3, <3>2 DEF RefreshUser
            <4> QED BY <1>1, <1>3, <2>1, <3>1, <4>1, <4>2, OtherKept
        <3>3. CASE ~banned
            <4>1. PICK o : op' = [op EXCEPT ![r] = o] /\ o = [op[r] EXCEPT !.step = "mint"]
                BY <2>3, <3>3 DEF RefreshUser, Goto
            <4>3. o.d = op[r].d /\ o.step = "mint"
                BY <2>3, <4>1 DEF RefreshUser, SessionInv, Rows, AllOps, Ops, NoOp
            <4>2. UNCHANGED <<revoked, ended>>
                BY <2>3, <3>3 DEF RefreshUser
            <4> QED BY <1>1, <1>3, <2>1, <3>1, <4>1, <4>2, <4>3, Unaffected, ZenonT(60)
        <3> QED BY <3>2, <3>3
    <2>4. CASE Mint(r)
        <3>1. PICK n : n = minted'
            OBVIOUS
        <3>2. PICK o :
                 /\ op' = [op EXCEPT ![r] = o]
                 /\ \/ o = [step |-> "answer", d |-> op[r].d, t |-> n]
                    \/ o = [step |-> "rotate", d |-> op[r].d, retired |-> op[r].retired, t |-> n]
            BY <2>4, <3>1 DEF Mint, Goto
        <3>3. /\ UNCHANGED <<revoked, replacedBy, held, losses, waiting, strays>>
              /\ ended'[d] = ended[d] \/ op[r].d = d
            BY <1>1, <2>4 DEF Mint, clientVars
        <3>4. o.d = op[r].d /\ o.step # "logout"
            BY <3>2
        <3> QED BY <1>1, <1>3, <2>1, <3>2, <3>3, <3>4, Unaffected
    <2>5. CASE Rotate(r)
        <3>1. PICK o, x :
                 /\ op' = [op EXCEPT ![r] = o] /\ o.d = op[r].d /\ o.step = "answer"
                 /\ x = op[r].retired /\ op[r].step = "rotate"
                 /\ \A t \in Token \ {x} : revoked'[t] = revoked[t] /\ replacedBy'[t] = replacedBy[t]
            BY <2>5 DEF Rotate, Goto, SessionInv, Rows
        <3>2. UNCHANGED <<held, losses, waiting, strays, ended>>
            BY <2>5 DEF Rotate, clientVars, histVars
        <3>3. Owned(x, op[r].d)
            BY <3>1 DEF SessionInv, TokensOwned, OpOwned
        <3>4. \A t : Unended(t)' <=> Unended(t)
            <4>1. Rows /\ op[r].step # "logout" /\ o.step # "logout"
                BY <3>1 DEF SessionInv
            <4> QED BY <3>1, <4>1, SameEnds
        <3>5. op[r].d # d => Spares(d)
            BY <3>1, <3>3, <3>4 DEF Spares, SameToken, Owned
        <3> QED BY <1>1, <1>3, <2>1, <3>1, <3>2, <3>5, OtherKept
    <2> QED BY <2>2, <2>3, <2>4, <2>5
<1> QED BY <1>2, <1>3

\* The answers, and the requests that end without.
LEMMA AnswerKept ==
    ASSUME SessionInv, KeepInv, NEW r \in Request, NEW d \in Device,
           Deliver(r) \/ Drop(r) \/ Die(r)
    PROVE  KeptAt(d)'
<1>1. KeptAt(d) /\ losses \in [Device -> Nat]
    BY DEF KeepInv, KeptAt
<1>2. op' = [op EXCEPT ![r] = NoOp] /\ UNCHANGED <<revoked, replacedBy, strays, ended>>
    BY DEF Deliver, Drop, Die, Goto, tokenVars, histVars
<1>3. CASE waiting[d] = r
    <2>1. Deliver(r)
        BY <1>3, AwaitedHolds, SessionsAssumption DEF Drop, Die
    <2> QED BY <1>1, <1>3, <2>1, DeliverKept
<1>4. CASE waiting[d] # r
    <2>1. waiting'[d] = waiting[d] /\ held'[d] = held[d] /\ losses'[d] = losses[d]
        <3>1. CASE Deliver(r)
            <4>1. d # op[r].d
                BY <1>4, <3>1 DEF Deliver
            <4> QED BY <1>1, <3>1, <4>1 DEF Deliver, SessionInv, Rows
        <3>2. CASE Drop(r) \/ Die(r)
            BY <3>2 DEF Drop, Die, clientVars, histVars
        <3> QED BY <3>1, <3>2
    <2> QED BY <1>1, <1>2, <1>4, <2>1, IdleHolds, Unaffected
<1> QED BY <1>3, <1>4

\* A client gives up its request.
LEMMA LossKept ==
    ASSUME SessionInv, KeepInv, NEW e \in Device, LoseAnswer(e) \/ Crash(e), NEW d \in Device
    PROVE  KeptAt(d)'
<1>1. KeptAt(d) /\ losses \in [Device -> Nat]
    BY DEF KeepInv, KeptAt
<1>2. CASE d = e
    BY <1>1, <1>2, GiveUpKept
<1>3. CASE d # e
    <2>1. PICK r \in Request : r = waiting[e] /\ op[r].d = e
        BY AwaitedHolds DEF LoseAnswer, Crash, GiveUp
    <2>2. waiting[d] # r
        BY <1>3, <2>1, AwaitedHolds, SessionsAssumption
    <2>3. /\ waiting'[d] = waiting[d] /\ held'[d] = held[d] /\ losses'[d] = losses[d]
          /\ strays'[d] = strays[d] /\ UNCHANGED <<revoked, replacedBy, ended>>
        BY <1>1, <1>3 DEF LoseAnswer, Crash, GiveUp, SessionInv, Rows, tokenVars
    <2>4. op' = op \/ op' = [op EXCEPT ![r] = NoOp]
        BY <2>1 DEF LoseAnswer, Crash, GiveUp, Goto
    <2>5. CASE op' = [op EXCEPT ![r] = NoOp]
        BY <1>1, <2>2, <2>3, <2>5, IdleHolds, Unaffected
    <2>6. CASE op' = op
        <3>1. Spares(d)
            BY <2>3, <2>6 DEF Spares, SameToken, Unended
        <3> QED BY <1>1, <2>3, <2>6, <3>1, StillKept
    <2> QED BY <2>4, <2>5, <2>6
<1> QED BY <1>2, <1>3

\* A request is sent by a client that is signed in, or to sign in.
LEMMA SendsKept ==
    ASSUME SessionInv, KeepInv, NEW r \in Request, NEW e \in Device, NEW d \in Device,
           \/ Login(r, e) \/ RefreshSend(r, e) \/ Register(r, e, TRUE)
           \/ \E i \in {0, inbox["code"]} : Verify(r, e, i)
    PROVE  KeptAt(d)'
<1>1. KeptAt(d) /\ op[r] = NoOp
    BY DEF KeepInv, KeptAt, Login, RefreshSend, Register, Verify
<1>2. UNCHANGED <<revoked, replacedBy, held, losses, strays, ended>>
    BY DEF Login, RefreshSend, Register, Verify, Keep, tokenVars, histVars
<1>3. waiting' = [waiting EXCEPT ![e] = r] /\ waiting[e] = Nobody
    BY DEF Login, RefreshSend, Register, Verify, MayWait, Waits
<1>4. PICK o :
         /\ op' = [op EXCEPT ![r] = o] /\ o.d = e /\ o.step # "logout"
         /\ \/ LoginOp(o) /\ held[e] = 0
            \/ o.step = "sent" /\ o.t = held[e] /\ held[e] # 0
    <2>1. CASE Login(r, e)
        <3>1. PICK o : op' = [op EXCEPT ![r] = o] /\ o = [step |-> "mint", d |-> e, retired |-> 0]
            BY <2>1 DEF Login, Goto
        <3>2. LoginOp(o) /\ held[e] = 0 /\ o.d = e /\ o.step # "logout"
            BY <2>1, <3>1 DEF Login, LoginOp
        <3> QED BY <3>1, <3>2
    <2>2. CASE RefreshSend(r, e)
        <3>1. PICK o : op' = [op EXCEPT ![r] = o] /\ o = [step |-> "sent", d |-> e, t |-> held[e]]
            BY <2>2 DEF RefreshSend, Goto
        <3>2. held[e] # 0 /\ o.d = e /\ o.step = "sent" /\ o.t = held[e]
            BY <2>2, <3>1 DEF RefreshSend
        <3> QED BY <3>1, <3>2
    <2>3. CASE Register(r, e, TRUE)
        <3>1. PICK o : op' = [op EXCEPT ![r] = o]
                       /\ o = [step |-> "createUser", d |-> e, open |-> TRUE]
            BY <2>3 DEF Register, Goto
        <3>2. LoginOp(o) /\ held[e] = 0 /\ o.d = e /\ o.step # "logout"
            BY <2>3, <3>1 DEF Register, MayWait, LoginOp
        <3> QED BY <3>1, <3>2
    <2>4. ASSUME NEW i, Verify(r, e, i)
          PROVE  \E o : /\ op' = [op EXCEPT ![r] = o] /\ o.d = e /\ o.step # "logout"
                        /\ \/ LoginOp(o) /\ held[e] = 0
                           \/ o.step = "sent" /\ o.t = held[e] /\ held[e] # 0
        <3>1. PICK o : op' = [op EXCEPT ![r] = o] /\ o = [step |-> "verify", d |-> e, i |-> i]
            BY <2>4 DEF Verify, Goto
        <3>2. LoginOp(o) /\ held[e] = 0 /\ o.d = e /\ o.step # "logout"
            BY <2>4, <3>1 DEF Verify, MayWait, LoginOp
        <3> QED BY <3>1, <3>2
    <2> QED BY <2>1, <2>2, <2>3, <2>4
<1>5. CASE d = e
    <2>1. waiting'[d] = r /\ waiting[d] = Nobody
        BY <1>3, <1>5 DEF SessionInv, Rows
    <2> QED BY <1>1, <1>2, <1>4, <1>5, <2>1, SendKept
<1>6. CASE d # e
    <2>1. waiting[d] # r /\ ~Holder(op[r])
        BY <1>1, AwaitedHolds, IdleHolds, SessionsAssumption
    <2>2. waiting'[d] = waiting[d]
        BY <1>3, <1>6 DEF SessionInv, Rows
    <2>3. Spares(d)
        BY <1>2, <1>4, QuietSpares DEF SessionInv
    <2>4. Holder(o) => o.d # d
        BY <1>4, <1>6
    <2> QED BY <1>1, <1>2, <1>4, <2>1, <2>2, <2>3, <2>4, OtherKept
<1> QED BY <1>5, <1>6

\* A login goes on, whoever awaits it.
LEMMA LoginsKept ==
    ASSUME SessionInv, KeepInv, NEW r \in Request, NEW o, op' = [op EXCEPT ![r] = o],
           LoginOp(op[r]), LoginOp(o) \/ (o.step = "answer" /\ o.t = 0), o.d = op[r].d,
           UNCHANGED <<revoked, replacedBy, held, waiting, losses, strays, ended>>,
           NEW d \in Device
    PROVE  KeptAt(d)'
<1>1. KeptAt(d) /\ Holder(op[r]) /\ o.step # "logout"
    BY DEF KeepInv, KeptAt, Holder, PreMint, LoginOp
<1>2. CASE waiting[d] = r
    BY <1>1, <1>2, LoginKept
<1>3. CASE waiting[d] # r
    BY <1>1, <1>3, Unaffected
<1> QED BY <1>2, <1>3

\* A request that has nothing to do with tokens.
LEMMA NothingKept ==
    ASSUME SessionInv, KeepInv, NEW r \in Request, NEW o, op' = [op EXCEPT ![r] = o],
           ~Holder(op[r]), ~Holder(o), o.step # "logout",
           UNCHANGED <<revoked, replacedBy, held, waiting, losses, strays, ended>>,
           NEW d \in Device
    PROVE  KeptAt(d)'
<1>1. KeptAt(d) /\ waiting[d] # r
    BY AwaitedHolds, SessionsAssumption DEF KeepInv, KeptAt
<1> QED BY <1>1, Unaffected

LEMMA AccountKept ==
    ASSUME SessionInv, KeepInv, NEW r \in Request, Account(r), NEW d \in Device
    PROVE  KeptAt(d)'
<1>1. ASSUME \/ VerifyUser(r) \/ VerifyCode(r) \/ Miss(r) \/ Burn(r) \/ Confirm(r)
             \/ CreateUser(r) /\ op[r].open
      PROVE  KeptAt(d)'
    <2>1. /\ LoginOp(op[r]) /\ Keep
          /\ \/ NoTokens(r)
             \/ /\ UNCHANGED <<waiting, logins>>
                /\ \E o : /\ op' = [op EXCEPT ![r] = o]
                          /\ LoginOp(o) /\ o.d = op[r].d
                          /\ o.step = "mint" => o.retired = 0
        BY <1>1, LoginMoves, ZenonT(30)
    <2>2. PICK o : /\ op' = [op EXCEPT ![r] = o] /\ o.d = op[r].d
                   /\ LoginOp(o) \/ (o.step = "answer" /\ o.t = 0)
        <3>1. CASE NoTokens(r)
            <4>1. PICK o : op' = [op EXCEPT ![r] = o] /\ o = [step |-> "answer", d |-> op[r].d, t |-> 0]
                BY <3>1 DEF NoTokens, Refuse, Goto
            <4>2. o.d = op[r].d /\ o.step = "answer" /\ o.t = 0
                BY <4>1
            <4> QED BY <4>1, <4>2
        <3>2. CASE ~NoTokens(r)
            BY <2>1, <3>2
        <3> QED BY <3>1, <3>2
    <2>3. waiting' = waiting
        BY <2>1 DEF NoTokens
    <2>4. LoginOp(op[r]) /\ UNCHANGED <<revoked, replacedBy, held, losses, strays, ended>>
        BY <2>1 DEF Keep, tokenVars
    <2> QED BY <2>2, <2>3, <2>4, LoginsKept
<1>2. ASSUME \/ Invalidate(r) \/ CreateSecret(r) \/ UseLink(r) \/ ConfirmReset(r)
             \/ \E sent \in BOOLEAN : Mail(r, sent)
             \/ \E k \in Kind : Ask(r, k)
             \/ \E e \in Device : Register(r, e, FALSE)
             \/ CreateUser(r) /\ ~op[r].open
      PROVE  KeptAt(d)'
    <2>1. UNCHANGED <<revoked, replacedBy, held, waiting, losses, strays, ended>>
        BY <1>2, MailMoves DEF tokenVars
    <2>2. PICK o : /\ op' = [op EXCEPT ![r] = o] /\ ~PreMint(o)
                   /\ o.step \in {"none", "invalidate", "create", "mail", "password", "cut",
                                  "createUser"}
        BY <1>2, MailMoves
    <2>3. ~Holder(op[r]) /\ ~Holder(o) /\ o.step # "logout"
        BY <1>2, <2>2, MailMoves DEF Holder
    <2> QED BY <2>1, <2>2, <2>3, NothingKept
<1>3. ASSUME NEW e \in Device, Register(r, e, TRUE) \/ \E i \in {0, inbox["code"]} : Verify(r, e, i)
      PROVE  KeptAt(d)'
    BY <1>3, SendsKept
<1>4. ASSUME NEW e \in Device, NEW open \in BOOLEAN, Register(r, e, open) PROVE KeptAt(d)'
    <2>1. CASE open = TRUE
        BY <1>3, <1>4, <2>1
    <2>2. CASE open = FALSE
        BY <1>2, <1>4, <2>2
    <2> QED BY <2>1, <2>2
<1> QED BY <1>1, <1>2, <1>3, <1>4 DEF Account

\* The sessions that somebody ends, and what is none of a client's doing.
LEMMA LogoutKept ==
    ASSUME SessionInv, KeepInv, NEW r \in Request, NEW e \in Device, LogoutToken(r, e),
           NEW d \in Device
    PROVE  KeptAt(d)'
<1>1. KeptAt(d) /\ ended \in [Device -> BOOLEAN] /\ op[r] = NoOp
    BY DEF KeepInv, KeptAt, LogoutToken
<1>2. /\ UNCHANGED <<revoked, replacedBy, waiting, losses, strays>>
      /\ held' = [held EXCEPT ![e] = 0] /\ ended' = [ended EXCEPT ![e] = TRUE]
      /\ held[e] # 0 /\ waiting[e] = Nobody
    BY DEF LogoutToken, tokenVars
<1>3. op' = op \/ op' = [op EXCEPT ![r] = [step |-> "logout", t |-> held[e]]]
    BY DEF LogoutToken, Goto
<1>4. NoneForIt(d)
    <2>1. op \in [Request -> AllOps]
        BY DEF SessionInv, Rows
    <2>2. ~Holder([step |-> "logout", t |-> held[e]])
        BY DEF Holder, PreMint, LoginOp, RefreshOp
    <2> QED BY <1>3, <2>1, <2>2 DEF NoneForIt
<1>5. CASE d = e
    BY <1>1, <1>2, <1>4, <1>5, EndedKept
<1>6. CASE d # e
    <2>1. Owned(held[e], e)
        BY <1>2, HeldOwned
    <2>2. ~Owned(held[e], d)
        BY <1>6, <2>1 DEF Owned
    <2>3. Spares(d)
        <3>1. CASE op' = op
            BY <1>2, <3>1 DEF Spares, SameToken, Unended
        <3>2. CASE op' = [op EXCEPT ![r] = [step |-> "logout", t |-> held[e]]]
            <4>1. PICK o : op' = [op EXCEPT ![r] = o] /\ o = [step |-> "logout", t |-> held[e]]
                BY <3>2
            <4>2. o.t = held[e]
                BY <4>1
            <4> QED BY <1>2, <2>2, <4>1, <4>2, QuietSpares DEF SessionInv
        <3> QED BY <1>3, <3>1, <3>2
    <2>4. waiting[d] # r
        BY <1>1, AwaitedHolds, IdleHolds, SessionsAssumption
    <2>5. Untouched(d)
        BY <1>1, <1>2, <1>3, <1>6, <2>4, AwaitedHolds DEF Untouched, SessionInv, Rows
    <2> QED BY <1>1, <1>4, <2>3, <2>5, Elsewhere
<1> QED BY <1>5, <1>6

LEMMA DeviceKept ==
    ASSUME SessionInv, KeepInv, NEW e \in Device, LogoutDevice(e), NEW d \in Device
    PROVE  KeptAt(d)'
<1>1. KeptAt(d) /\ ended \in [Device -> BOOLEAN]
    BY DEF KeepInv, KeptAt
<1>2. /\ UNCHANGED <<replacedBy, waiting, losses, strays, op>>
      /\ held' = [held EXCEPT ![e] = 0] /\ ended' = [ended EXCEPT ![e] = TRUE]
      /\ waiting[e] = Nobody
    BY DEF LogoutDevice
<1>3. CASE d = e
    <2>1. NoneForIt(d)
        BY <1>2 DEF NoneForIt
    <2> QED BY <1>1, <1>2, <1>3, <2>1, EndedKept
<1>4. CASE d # e
    <2>1. \A t \in Token : Owned(t, d) => revoked'[t] = revoked[t]
        BY <1>4 DEF LogoutDevice, RevokeThose, Owned
    <2>2. Spares(d)
        BY <1>2, <2>1 DEF Spares, SameToken, Unended
    <2>3. held'[d] = held[d] /\ ended'[d] = ended[d]
        BY <1>1, <1>2, <1>4 DEF SessionInv, Rows
    <2> QED BY <1>1, <1>2, <2>2, <2>3, StillKept
<1> QED BY <1>3, <1>4

LEMMA CutsKept ==
    ASSUME SessionInv, KeepInv, NEW r \in Request, NEW d \in Device,
           LogoutWrite(r) \/ RevokeAll(r) \/ \E ban \in BOOLEAN : BeginCut(r, ban)
    PROVE  KeptAt(d)'
<1>1. KeptAt(d)
    BY DEF KeepInv, KeptAt
<1>2. CASE LogoutWrite(r)
    <2>1. PICK x : /\ x = op[r].t /\ revoked' = [revoked EXCEPT ![x] = 0]
                   /\ op[r].step = "logout" /\ op' = [op EXCEPT ![r] = NoOp]
        BY <1>2 DEF LogoutWrite, Goto
    <2>2. UNCHANGED <<replacedBy, held, waiting, losses, strays, ended>>
        BY <1>2 DEF LogoutWrite, clientVars, histVars
    <2>3. ~Holder(op[r])
        BY <2>1 DEF Holder, PreMint, LoginOp, RefreshOp
    <2>4. \A t \in Token : Unended(t) => revoked'[t] = revoked[t]
        BY <2>1 DEF Unended, SessionInv, Rows
    <2>5. Spares(d)
        BY <2>1, <2>2, <2>4, IdleHolds, QuietSpares DEF SessionInv
    <2> QED BY <1>1, <2>1, <2>2, <2>3, <2>5, IdleHolds, ApartKept
<1>3. CASE RevokeAll(r)
    <2>1. op[r].step = "cut" /\ op' = [op EXCEPT ![r] = NoOp] /\ ended'[d] = TRUE
        BY <1>3 DEF RevokeAll, Goto
    <2>2. UNCHANGED <<held, waiting, losses, strays>>
        BY <1>3 DEF RevokeAll, clientVars
    <2>3. ~Holder(op[r])
        BY <2>1 DEF Holder, PreMint, LoginOp, RefreshOp
    <2> QED BY <1>1, <2>1, <2>2, <2>3, IdleHolds, ApartKept
<1>4. ASSUME NEW ban \in BOOLEAN, BeginCut(r, ban) PROVE KeptAt(d)'
    <2>1. PICK o : op' = [op EXCEPT ![r] = o] /\ o = [step |-> "cut"]
        BY <1>4 DEF BeginCut, Goto
    <2>2. ~Holder(o) /\ o.step # "logout" /\ ~Holder(op[r])
        BY <1>4, <2>1, IdleHolds DEF BeginCut, Holder, PreMint, LoginOp, RefreshOp
    <2>3. UNCHANGED <<revoked, replacedBy, held, waiting, losses, strays, ended>>
        BY <1>4 DEF BeginCut, tokenVars, clientVars, histVars
    <2> QED BY <2>1, <2>2, <2>3, NothingKept
<1> QED BY <1>2, <1>3, <1>4

LEMMA ClockKept ==
    ASSUME SessionInv, KeepInv, NEW d \in Device,
           Unban \/ Tick \/ UNCHANGED allVars
           \/ \E k \in Kind : \E i \in DOMAIN secret[k] : Expire(k, i)
    PROVE  KeptAt(d)'
<1>1. KeptAt(d)
    BY DEF KeepInv, KeptAt
<1>2. UNCHANGED <<replacedBy, op, held, waiting, losses, strays, ended>>
    BY DEF Unban, Tick, Expire, allVars, vars, tokenVars, clientVars, histVars
<1>3. revoked \in [Token -> Age \cup {Live}]
    BY DEF SessionInv, Rows
<1>4. \A t \in Token : \/ revoked'[t] = revoked[t]
                       \/ revoked[t] \in Age /\ revoked'[t] = revoked[t] + 1 /\ revoked[t] # Expired
    <2> SUFFICES ASSUME NEW t \in Token
                 PROVE  \/ revoked'[t] = revoked[t]
                        \/ revoked[t] \in Age /\ revoked'[t] = revoked[t] + 1 /\ revoked[t] # Expired
        OBVIOUS
    <2>1. CASE Tick
        <3>1. revoked[t] \in Age \/ revoked[t] = Live
            BY <1>3
        <3>2. revoked'[t] = IF revoked[t] \in {Live, Expired} THEN revoked[t] ELSE revoked[t] + 1
            BY <2>1 DEF Tick
        <3> QED BY <3>1, <3>2
    <2>2. Tick \/ revoked'[t] = revoked[t]
        BY DEF Unban, Expire, allVars, vars, tokenVars
    <2> QED BY <2>1, <2>2
<1>5. Spares(d)
    <2> SUFFICES ASSUME NEW t \in Token, Unended(t) PROVE SameToken(t)
        BY DEF Spares
    <2>1. Unended(t)'
        BY <1>2 DEF Unended
    <2>2. revoked[t] \in Age => revoked[t] + 1 # Live /\ revoked[t] # Live
        BY SessionsAssumption DEF Age, Live, Expired
    <2> QED BY <1>2, <1>4, <2>1, <2>2 DEF SameToken
<1> QED BY <1>1, <1>2, <1>5, StillKept

LEMMA AccountFrame ==
    ASSUME NEW r \in Request, Account(r)
    PROVE  UNCHANGED <<held, losses, ended>>
<1>1. ASSUME NEW d \in Device, \/ \E open \in BOOLEAN : Register(r, d, open)
                               \/ \E i \in {0, inbox["code"]} : Verify(r, d, i)
      PROVE  Keep
    BY <1>1 DEF Register, Verify
<1>2. ConfirmReset(r) => UNCHANGED <<held, losses, ended>>
    BY DEF ConfirmReset, clientVars, histVars
<1>3. CASE \/ Invalidate(r) \/ CreateSecret(r) \/ CreateUser(r) \/ VerifyUser(r)
           \/ VerifyCode(r) \/ Miss(r) \/ Burn(r) \/ Confirm(r) \/ UseLink(r)
           \/ \E sent \in BOOLEAN : Mail(r, sent)
           \/ \E k \in Kind : Ask(r, k)
    <2>1. Keep
        BY <1>3 DEF Invalidate, CreateSecret, CreateUser, VerifyUser, VerifyCode, Miss, Burn,
                    Confirm, UseLink, Mail, Ask
    <2> QED BY <2>1 DEF Keep
<1>4. Keep => UNCHANGED <<held, losses, ended>>
    BY DEF Keep
<1> QED BY <1>1, <1>2, <1>3, <1>4 DEF Account

LEMMA KeepTypes ==
    ASSUME SessionInv, KeepInv, AccountsStep
    PROVE  (losses \in [Device -> Nat] /\ ended \in [Device -> BOOLEAN])'
<1>1. losses \in [Device -> Nat] /\ ended \in [Device -> BOOLEAN]
    BY DEF KeepInv
<1>2. ASSUME NEW r \in Request, Proceed(r)
      PROVE  losses' \in [Device -> Nat] /\ ended' \in [Device -> BOOLEAN]
    <2>1. CASE RefreshUser(r) \/ Mint(r) \/ RevokeAll(r)
        <3>1. losses' = losses
            BY <2>1 DEF RefreshUser, Mint, RevokeAll
        <3>2. \/ ended' = ended \/ ended' = [d \in Device |-> TRUE]
              \/ \E d : ended' = [ended EXCEPT ![d] = @ /\ op[r].retired # 0]
            BY <2>1 DEF RefreshUser, Mint, RevokeAll
        <3>3. ended' \in [Device -> BOOLEAN]
            BY <1>1, <3>2
        <3> QED BY <1>1, <3>1, <3>3
    <2>2. CASE Deliver(r)
        BY <1>1, <2>2 DEF Deliver
    <2>3. CASE RefreshRead(r) \/ RefreshReplacement(r) \/ Rotate(r) \/ Drop(r) \/ Die(r) \/ LogoutWrite(r)
        BY <1>1, <2>3 DEF RefreshRead, RefreshReplacement, Rotate, Drop, Die, LogoutWrite, histVars
    <2> QED BY <1>2, <2>1, <2>2, <2>3 DEF Proceed
<1>3. ASSUME NEW d \in Device, LoseAnswer(d) \/ Crash(d)
      PROVE  losses' \in [Device -> Nat] /\ ended' \in [Device -> BOOLEAN]
    BY <1>1, <1>3 DEF LoseAnswer, Crash, GiveUp
<1>4. ASSUME NEW d \in Device, LogoutDevice(d) \/ \E r \in Request : LogoutToken(r, d)
      PROVE  losses' \in [Device -> Nat] /\ ended' \in [Device -> BOOLEAN]
    BY <1>1, <1>4 DEF LogoutDevice, LogoutToken
<1>5. ASSUME NEW r \in Request, NEW d \in Device, RefreshSend(r, d) \/ Login(r, d)
      PROVE  UNCHANGED <<losses, ended>>
    BY <1>5 DEF RefreshSend, Login, histVars
<1>6. ASSUME NEW r \in Request, NEW ban \in BOOLEAN, BeginCut(r, ban)
      PROVE  UNCHANGED <<losses, ended>>
    BY <1>6 DEF BeginCut, histVars
<1>7. ASSUME Unban \/ Tick \/ \E k \in Kind : \E i \in DOMAIN secret[k] : Expire(k, i)
      PROVE  UNCHANGED <<losses, ended>>
    BY <1>7 DEF Unban, Tick, Expire, vars, histVars
<1>8. ASSUME NEW r \in Request, Account(r) PROVE UNCHANGED <<losses, ended>>
    BY <1>8, AccountFrame
<1> QED BY <1>1, <1>2, <1>3, <1>4, <1>5, <1>6, <1>7, <1>8 DEF AccountsStep, Ongoing

\* Only an answer or a logout takes the token of a client.
LEMMA HeldStays ==
    ASSUME AccountsNext, ~\E r \in Request : Deliver(r),
           ~\E e \in Device : LogoutDevice(e),
           ~\E r \in Request, e \in Device : LogoutToken(r, e)
    PROVE  held' = held
<1>1. ASSUME NEW r \in Request, Proceed(r) PROVE held' = held
    BY <1>1 DEF Proceed, RefreshRead, RefreshReplacement, RefreshUser, Mint, Rotate, Drop, Die,
                LogoutWrite, RevokeAll, clientVars
<1>2. ASSUME NEW r \in Request, NEW d \in Device,
             RefreshSend(r, d) \/ Login(r, d) \/ LoseAnswer(d) \/ Crash(d)
      PROVE  held' = held
    BY <1>2 DEF RefreshSend, Login, LoseAnswer, Crash
<1>3. ASSUME NEW r \in Request, NEW ban \in BOOLEAN, BeginCut(r, ban) PROVE held' = held
    BY <1>3 DEF BeginCut, clientVars
<1>4. ASSUME Unban \/ Tick \/ \E k \in Kind : \E i \in DOMAIN secret[k] : Expire(k, i)
      PROVE  held' = held
    BY <1>4 DEF Unban, Tick, Expire, vars, clientVars
<1>5. ASSUME NEW r \in Request, Account(r) PROVE held' = held
    BY <1>5, AccountFrame
<1>6. ASSUME NEW d \in Device, LoseAnswer(d) \/ Crash(d) PROVE held' = held
    BY <1>6 DEF LoseAnswer, Crash
<1> QED BY <1>1, <1>2, <1>3, <1>4, <1>5, <1>6 DEF AccountsNext, AccountsStep, Ongoing

LEMMA KeepStep ==
    ASSUME SessionInv, SessionInv', KeepInv, AccountsStep
    PROVE  KeepInv'
<1>1. ASSUME NEW d \in Device PROVE KeptAt(d)'
    <2>1. ASSUME NEW r \in Request, Proceed(r) PROVE KeptAt(d)'
        BY <2>1, RefreshKept, AnswerKept, CutsKept DEF Proceed
    <2>2. ASSUME NEW r \in Request, NEW e \in Device,
                 RefreshSend(r, e) \/ LogoutToken(r, e) \/ Login(r, e)
          PROVE  KeptAt(d)'
        BY <2>2, SendsKept, LogoutKept
    <2>3. ASSUME NEW e \in Device, LoseAnswer(e) \/ Crash(e) \/ LogoutDevice(e)
          PROVE  KeptAt(d)'
        BY <2>3, LossKept, DeviceKept
    <2>4. ASSUME NEW r \in Request, NEW ban \in BOOLEAN, BeginCut(r, ban) PROVE KeptAt(d)'
        BY <2>4, CutsKept
    <2>5. CASE Unban \/ Tick \/ \E k \in Kind : \E i \in DOMAIN secret[k] : Expire(k, i)
        BY <2>5, ClockKept
    <2>6. ASSUME NEW r \in Request, Account(r) PROVE KeptAt(d)'
        BY <2>6, AccountKept
    <2> QED BY <2>1, <2>2, <2>3, <2>4, <2>5, <2>6 DEF AccountsStep, Ongoing
<1> QED BY <1>1, KeepTypes DEF KeepInv, KeptAt

-----------------------------------------------------------------------------
(* The theorems *)

\* The invariant of the account and of its sessions (auth.service.ts): the rows
\* have their types, the tokens a request names are those of its device, every
\* live token is accounted for, and a code sent alone is the newest.
THEOREM InductiveInvariant == AccountsSpec => []IInv
<1>1. AccountsInit => IInv
  BY InitInv
<1>2. IInv /\ [AccountsNext]_allVars => IInv'
  <2>1. ASSUME IInv, AccountsStep PROVE IInv'
    BY <2>1, SessionStep, SecretStep DEF IInv
  <2>2. ASSUME IInv, UNCHANGED allVars PROVE IInv'
    <3>1. UNCHANGED <<minted, device, revoked, replacedBy, op, held, waiting, logins, strays,
                      account, secret, inbox>>
      BY <2>2 DEF allVars, vars, tokenVars, clientVars, histVars, accountVars
    <3>2. Rows' /\ Rows
      BY <2>2, <3>1 DEF IInv, SessionInv, Rows
    <3>3. SessionInv'
      <4>1. SessionInv /\ \A t \in Token : t > minted => revoked[t] = Live
        BY <2>2 DEF IInv, SessionInv, TokensOwned
      <4> QED
        BY <3>1, <3>2, <4>1, QuietInv
    <3>4. SecretInv'
      BY <2>2, <3>1 DEF IInv, SecretInv, NoTokenYet, AloneIsNewest, InboxSent
    <3> QED
      BY <3>3, <3>4 DEF IInv
  <2> QED
    BY <2>1, <2>2 DEF AccountsNext
<1> QED
  BY <1>1, <1>2, PTL DEF AccountsSpec

\* Rotation does not multiply sessions, however the requests, the losses and the
\* crashes interleave: a device has at most one live token for each login, each
\* request it gave up, and each rotation under way (mintTokens, markRotated).
THEOREM SessionsCounted == AccountsSpec => []NoGhostSessions
<1>1. IInv => NoGhostSessions
  <2>1. SUFFICES ASSUME IInv, NEW d \in Device
                 PROVE  Cardinality(LiveOf(d)) <= logins[d] + strays[d]
                          + Cardinality({r \in Request : op[r].step = "rotate" /\ op[r].d = d})
    BY DEF NoGhostSessions, LiveOf
  <2> DEFINE R == {r \in Request : op[r].step = "rotate" /\ op[r].d = d}
  <2>2. Rows
    BY <2>1 DEF IInv, SessionInv
  <2>3. Cardinality(LiveOf(d)) \in Nat /\ Cardinality(Strayed(d)) \in Nat
    BY <2>2, Finite
  <2>4. IsFiniteSet(R) /\ Cardinality(R) \in Nat
    BY SessionsAssumption, FS_Subset, FS_CardinalityType
  <2>5. Cardinality(LiveOf(d)) + Cardinality(Strayed(d)) + Due(d) <= logins[d] + strays[d]
    BY <2>1 DEF IInv, SessionInv, Accounted
  <2>6. Due(d) \in -1..1 /\ logins[d] \in Int /\ strays[d] \in Int
    BY <2>2 DEF Due, Rows
  <2>7. Due(d) = -1 => Cardinality(R) # 0
    <3>1. ASSUME Due(d) = -1 PROVE R # {}
      <4>1. waiting[d] # Nobody /\ op[waiting[d]].step = "rotate"
        BY <3>1 DEF Due
      <4>2. waiting[d] \in Request /\ op[waiting[d]].d = d
        BY <2>1, <2>2, <4>1 DEF IInv, SessionInv, AwaitsItsOwn, Rows
      <4> QED
        BY <4>1, <4>2
    <3> QED
      BY <2>4, <3>1, FS_EmptySet
  <2> HIDE DEF R
  <2>8. Cardinality(LiveOf(d)) <= logins[d] + strays[d] + Cardinality(R)
    BY <2>3, <2>4, <2>5, <2>6, <2>7
  <2> QED
    BY <2>8 DEF R
<1> QED
  BY <1>1, InductiveInvariant, PTL

\* No session before the address is verified; and the code received last, when no
\* other send overlapped its own, is the one verifyEmail compares with, whatever
\* became of the earlier ones (register, verifyEmail, resendVerification).
THEOREM CodeOpens == AccountsSpec => []LastCodeOpens
<1>1. IInv => LastCodeOpens
  <2>1. SUFFICES ASSUME IInv PROVE LastCodeOpens
    OBVIOUS
  <2>2. account # "verified" => minted = 0
    BY <2>1 DEF IInv, SecretInv, NoTokenYet
  <2>3. ASSUME NEW i, i = inbox["code"], account = "unverified", i # 0, secret["code"][i].alone
        PROVE  Active("code") = {i}
    <3>1. "code" \in Kind /\ inbox["code"] \in Nat /\ secret["code"] \in Seq(SecretRow)
      BY <2>1 DEF IInv, SessionInv, Rows, Kind, SecretRow
    <3>2. DOMAIN secret["code"] = 1..Len(secret["code"]) /\ Len(secret["code"]) \in Nat
      BY <3>1, LenProperties
    <3>3. i \in 1..Len(secret["code"])
      BY <2>1, <2>3, <3>1, <3>2 DEF IInv, SecretInv, InboxSent
    <3>4. ~secret["code"][i].spent /\ i = Len(secret["code"])
      BY <2>1, <2>3, <3>1, <3>3 DEF IInv, SecretInv, AloneIsNewest
    <3>5. i \in Unspent("code") /\ \A j \in Unspent("code") : j \in Nat /\ j <= i
      BY <3>2, <3>3, <3>4 DEF Unspent
    <3>6. i \in Active("code")
      BY <3>5 DEF Active
    <3>7. \A j \in Active("code") : j <= i /\ i <= j /\ j \in Nat
      BY <3>5 DEF Active
    <3>8. \A j \in Active("code") : j = i
      BY <3>2, <3>3, <3>7
    <3> QED
      BY <3>6, <3>8
  <2> QED
    BY <2>2, <2>3 DEF LastCodeOpens
<1> QED
  BY <1>1, InductiveInvariant, PTL

\* The rotation never costs an honest client its session: a device loses the
\* token it holds only by a logout, a ban or a new password, by a request it gave
\* up, or by the loss of two answers in a row or of one for too long (refresh,
\* reusableReplacement, markRotated).
THEOREM SessionsKept == AccountsSpec => ClientKeepsSession
<1>1. AccountsInit => KeepInv
    <2> SUFFICES ASSUME AccountsInit PROVE KeepInv
        OBVIOUS
    <2>1. /\ losses = [d \in Device |-> 0] /\ ended = [d \in Device |-> FALSE]
          /\ op = [r \in Request |-> NoOp] /\ held = [d \in Device |-> 0]
          /\ waiting = [d \in Device |-> Nobody]
        BY DEF AccountsInit, Init
    <2>2. \A d \in Device : Awaited(d) /\ Stage(d) /\ Kept(d)
        BY <2>1, IdleHolds DEF Awaited, Stage, Kept
    <2> QED BY <2>1, <2>2 DEF KeepInv
<1>2. IInv /\ IInv' /\ KeepInv /\ [AccountsNext]_allVars => KeepInv'
    <2>1. ASSUME IInv, IInv', KeepInv, AccountsNext PROVE KeepInv'
        BY <2>1, KeepStep DEF IInv, AccountsNext
    <2>2. ASSUME IInv, KeepInv, UNCHANGED allVars PROVE KeepInv'
        <3>1. UNCHANGED <<losses, ended>>
            BY <2>2 DEF allVars, vars, histVars
        <3>2. \A d \in Device : KeptAt(d)'
            BY <2>2, ClockKept DEF IInv
        <3> QED BY <2>2, <3>1, <3>2 DEF KeepInv, KeptAt
    <2> QED BY <2>1, <2>2
<1>3. ASSUME IInv, KeepInv, AccountsNext, NEW d \in Device, held[d] # 0, held'[d] = 0
      PROVE  \/ ended'[d] \/ strays[d] > 0 \/ losses[d] > 1
             \/ losses[d] = 1 /\ revoked[held[d]] = Expired
    <2>1. /\ held \in [Device -> Token \cup {0}] /\ ended \in [Device -> BOOLEAN]
          /\ strays[d] \in Nat /\ losses[d] \in Nat /\ Kept(d)
        BY <1>3 DEF IInv, SessionInv, Rows, KeepInv
    <2>2. CASE \E r \in Request : Deliver(r)
        <3>1. PICK r \in Request : Deliver(r)
            BY <2>2
        <3>2. /\ op[r].d = d /\ waiting[d] = r /\ op[r].step = "answer" /\ op[r].t = 0
              /\ ended' = ended
            BY <1>3, <2>1, <3>1 DEF Deliver
        <3>3. waiting[d] # Nobody
            BY <3>2, SessionsAssumption
        <3>4. ASSUME strays[d] = 0, ~ended[d], losses[d] <= 1
              PROVE  losses[d] = 1 /\ revoked[held[d]] = Expired
            BY <1>3, <2>1, <3>2, <3>3, <3>4 DEF Kept, Answered
        <3> QED BY <2>1, <3>2, <3>4
    <2>3. CASE \/ \E e \in Device : LogoutDevice(e)
               \/ \E r \in Request, e \in Device : LogoutToken(r, e)
        <3>1. PICK e \in Device : held' = [held EXCEPT ![e] = 0] /\ ended' = [ended EXCEPT ![e] = TRUE]
            BY <2>3 DEF LogoutDevice, LogoutToken
        <3> QED BY <1>3, <2>1, <3>1
    <2>4. CASE /\ ~\E r \in Request : Deliver(r)
               /\ ~\E e \in Device : LogoutDevice(e)
               /\ ~\E r \in Request, e \in Device : LogoutToken(r, e)
        BY <1>3, <2>4, HeldStays
    <2> QED BY <2>2, <2>3, <2>4
<1>4. IInv /\ KeepInv /\ [AccountsNext]_allVars =>
        [\A d \in Device :
          held[d] # 0 /\ held'[d] = 0 =>
              \/ ended'[d] \/ strays[d] > 0 \/ losses[d] > 1
              \/ losses[d] = 1 /\ revoked[held[d]] = Expired]_vars
    BY <1>3 DEF allVars
<1> QED BY <1>1, <1>2, <1>4, InductiveInvariant, PTL DEF AccountsSpec, ClientKeepsSession
=============================================================================
