------------------------------- MODULE Sessions -------------------------------
(***************************************************************************)
(* The sessions of one account: modules/auth/auth.service.ts, and the ban  *)
(* of modules/adminUsers.  A device holds a refresh token; each refresh    *)
(* mints a successor and then retires the token presented, pointing at the *)
(* successor.  A client that never received the successor may present the  *)
(* old token again for a while, and that retires the lost successor.       *)
(*                                                                         *)
(* Nothing here is a transaction: every database call of a request is a    *)
(* step, and op[r] keeps what the request r has read.  Requests and        *)
(* answers may be lost or late, and the server may die at any step.        *)
(*                                                                         *)
(* Tokens are numbered in the order they are minted.  Passwords are always *)
(* right, and the 90 days after which an unused token expires do not pass. *)
(***************************************************************************)
EXTENDS Integers, FiniteSets

CONSTANTS Device, Request,
          Grace,      \* REFRESH_REUSE_GRACE_SECONDS, in ticks
          MaxTokens,  \* bound on the tokens minted
          MaxLogins,  \* bound on the logins of a device
          MaxFaults,  \* bound on the requests and answers lost
          MaxCuts,    \* bound on the bans and password changes
          Nobody

ASSUME SessionsAssumption ==
    /\ Grace \in Nat /\ MaxTokens \in Nat
    /\ MaxLogins \in Nat /\ MaxFaults \in Nat /\ MaxCuts \in Nat
    /\ Nobody \notin Request /\ IsFiniteSet(Request)

VARIABLES
    banned,     \* User.bannedAt is set
    minted,     \* tokens 1..minted exist
    device,     \* RefreshToken.deviceId
    revoked,    \* time since RefreshToken.revokedAt, Live when it is NULL
    replacedBy, \* RefreshToken.replacedById, 0 when it is NULL
    op,         \* op[r]: what r is doing and what it has read
    held,       \* held[d]: the token the client holds, 0 when signed out
    waiting,    \* waiting[d]: the request whose answer the client awaits
    cuts,       \* bans and password changes
    \* history, read by no guard but the bounds
    logins,     \* logins[d]: tokens minted by a login
    losses,     \* losses[d]: answers lost since the client last received one
    strays,     \* strays[d]: requests given up before the server was through
    ended       \* ended[d]: the session was ended on purpose

tokenVars  == <<minted, device, revoked, replacedBy>>
clientVars == <<held, waiting>>
histVars   == <<logins, losses, strays, ended>>
vars       == <<banned, tokenVars, op, clientVars, cuts, histVars>>

Token   == 1..MaxTokens
Live    == -1
Expired == Grace + 1   \* ages beyond the grace period are not told apart
Age     == 0..Expired
NoOp    == [step |-> "none"]

Ops ==
    {NoOp}
    \cup [step : {"sent"}, d : Device, t : Token]
    \cup [step : {"replacement"}, d : Device, next : Token]
    \cup [step : {"user", "mint"}, d : Device, retired : Token \cup {0}]
    \cup [step : {"rotate"}, d : Device, retired : Token, t : Token]
    \cup [step : {"answer"}, d : Device, t : Token \cup {0}]
    \cup [step : {"logout"}, t : Token]
    \cup [step : {"cut"}]

TypeOK ==
    /\ banned \in BOOLEAN
    /\ minted \in 0..MaxTokens
    /\ device \in [Token -> Device \cup {Nobody}]
    /\ revoked \in [Token -> Age \cup {Live}]
    /\ replacedBy \in [Token -> Token \cup {0}]
    /\ op \in [Request -> Ops]
    /\ held \in [Device -> Token \cup {0}]
    /\ waiting \in [Device -> Request \cup {Nobody}]
    /\ cuts \in 0..MaxCuts
    /\ logins \in [Device -> 0..MaxLogins]
    /\ losses \in [Device -> 0..MaxFaults]
    /\ strays \in [Device -> 0..MaxFaults]
    /\ ended \in [Device -> BOOLEAN]

Init ==
    /\ banned = FALSE
    /\ minted = 0
    /\ device = [t \in Token |-> Nobody]
    /\ revoked = [t \in Token |-> Live]
    /\ replacedBy = [t \in Token |-> 0]
    /\ op = [r \in Request |-> NoOp]
    /\ held = [d \in Device |-> 0]
    /\ waiting = [d \in Device |-> Nobody]
    /\ cuts = 0
    /\ logins = [d \in Device |-> 0]
    /\ losses = [d \in Device |-> 0]
    /\ strays = [d \in Device |-> 0]
    /\ ended = [d \in Device |-> FALSE]

Goto(r, o)   == op' = [op EXCEPT ![r] = o]
Refuse(r)    == Goto(r, [step |-> "answer", d |-> op[r].d, t |-> 0])
LiveTokens   == {t \in 1..minted : revoked[t] = Live}
Minting(r)   == op[r].step \notin {"none", "answer", "rotate", "logout", "cut"}
MayMint      == minted + Cardinality({r \in Request : Minting(r)}) < MaxTokens

\* revokeAll and revokeByDevice: live tokens only.
RevokeThose(S) ==
    revoked' = [t \in Token |-> IF t \in S \cap LiveTokens THEN 0 ELSE revoked[t]]

-----------------------------------------------------------------------------
(* login *)

Login(r, d) ==
    /\ op[r] = NoOp
    /\ held[d] = 0 /\ waiting[d] = Nobody
    /\ ~banned
    /\ MayMint /\ logins[d] < MaxLogins
    /\ Goto(r, [step |-> "mint", d |-> d, retired |-> 0])
    /\ waiting' = [waiting EXCEPT ![d] = r]
    /\ logins' = [logins EXCEPT ![d] = @ + 1]
    /\ UNCHANGED <<banned, tokenVars, held, cuts, losses, strays, ended>>

-----------------------------------------------------------------------------
(* refresh *)

RefreshSend(r, d) ==
    /\ op[r] = NoOp
    /\ held[d] # 0 /\ waiting[d] = Nobody
    /\ MayMint
    /\ Goto(r, [step |-> "sent", d |-> d, t |-> held[d]])
    /\ waiting' = [waiting EXCEPT ![d] = r]
    /\ UNCHANGED <<banned, tokenVars, held, cuts, histVars>>

NoGrace(t) == FALSE   \* mutant: a rotated token is dead at once

\* Only a token revoked by a rotation, and only for a while.
InGrace(t) ==
    /\ replacedBy[t] # 0
    /\ revoked[t] <= Grace

RefreshForgets(r) ==   \* mutant: the successor that was lost is not retired
    /\ op[r].step = "sent"
    /\ LET t == op[r].t  d == op[r].d
       IN  IF revoked[t] = Live \/ InGrace(t)
           THEN Goto(r, [step |-> "user", d |-> d, retired |-> t])
           ELSE Refuse(r)
    /\ UNCHANGED <<banned, tokenVars, clientVars, cuts, histVars>>

RefreshRead(r) ==
    /\ op[r].step = "sent"
    /\ LET t == op[r].t  d == op[r].d
       IN  IF revoked[t] = Live THEN Goto(r, [step |-> "user", d |-> d, retired |-> t])
           ELSE IF InGrace(t)
           THEN Goto(r, [step |-> "replacement", d |-> d, next |-> replacedBy[t]])
           ELSE Refuse(r)
    /\ UNCHANGED <<banned, tokenVars, clientVars, cuts, histVars>>

\* reusableReplacement: the successor must be live, and is retired in its turn.
RefreshReplacement(r) ==
    /\ op[r].step = "replacement"
    /\ IF revoked[op[r].next] = Live
       THEN Goto(r, [step |-> "user", d |-> op[r].d, retired |-> op[r].next])
       ELSE Refuse(r)
    /\ UNCHANGED <<banned, tokenVars, clientVars, cuts, histVars>>

\* A ban kills the sessions that are left.
RefreshUser(r) ==
    /\ op[r].step = "user"
    /\ IF banned
       THEN /\ RevokeThose(Token)
            /\ ended' = [d \in Device |-> TRUE]
            /\ Refuse(r)
       ELSE /\ Goto(r, [op[r] EXCEPT !.step = "mint"])
            /\ UNCHANGED <<revoked, ended>>
    /\ UNCHANGED <<banned, minted, device, replacedBy, clientVars, cuts, logins, losses, strays>>

\* mintTokens, of a login or of a refresh.
Mint(r) ==
    /\ op[r].step = "mint"
    /\ minted' = minted + 1
    /\ device' = [device EXCEPT ![minted'] = op[r].d]
    /\ Goto(r, IF op[r].retired = 0
               THEN [step |-> "answer", d |-> op[r].d, t |-> minted']
               ELSE [step |-> "rotate", d |-> op[r].d, retired |-> op[r].retired, t |-> minted'])
    /\ ended' = [ended EXCEPT ![op[r].d] = @ /\ op[r].retired # 0]
    /\ UNCHANGED <<banned, revoked, replacedBy, clientVars, cuts, logins, losses, strays>>

\* markRotated writes whatever has happened to the token since it was read.
Rotate(r) ==
    /\ op[r].step = "rotate"
    /\ revoked' = [revoked EXCEPT ![op[r].retired] = 0]
    /\ replacedBy' = [replacedBy EXCEPT ![op[r].retired] = op[r].t]
    /\ Goto(r, [step |-> "answer", d |-> op[r].d, t |-> op[r].t])
    /\ UNCHANGED <<banned, minted, device, clientVars, cuts, histVars>>

-----------------------------------------------------------------------------
(* The client and the network *)

\* The client keeps the new token, or signs out when it is refused.
Deliver(r) ==
    /\ op[r].step = "answer"
    /\ LET d == op[r].d
       IN  /\ waiting[d] = r
           /\ held' = [held EXCEPT ![d] = op[r].t]
           /\ waiting' = [waiting EXCEPT ![d] = Nobody]
           /\ losses' = [losses EXCEPT ![d] = 0]
    /\ Goto(r, NoOp)
    /\ UNCHANGED <<banned, tokenVars, cuts, logins, strays, ended>>

Faults == LET Sum[S \in SUBSET Device] ==
                 IF S = {} THEN 0
                 ELSE LET d == CHOOSE d \in S : TRUE IN losses[d] + strays[d] + Sum[S \ {d}]
          IN  Sum[Device]

\* The client stops waiting: the answer is lost if the server was through, and
\* otherwise the request goes on without it.
GiveUp(d) ==
    LET r == waiting[d]
    IN  /\ r # Nobody
        /\ Faults < MaxFaults
        /\ waiting' = [waiting EXCEPT ![d] = Nobody]
        /\ IF op[r].step = "answer"
           THEN losses' = [losses EXCEPT ![d] = @ + 1] /\ UNCHANGED strays
           ELSE strays' = [strays EXCEPT ![d] = @ + 1] /\ UNCHANGED losses

LoseAnswer(d) ==
    /\ GiveUp(d)
    /\ op' = IF op[waiting[d]].step = "answer" THEN [op EXCEPT ![waiting[d]] = NoOp] ELSE op
    /\ UNCHANGED <<banned, tokenVars, held, cuts, logins, ended>>

\* The server dies in the middle of a request.
Crash(d) ==
    /\ GiveUp(d)
    /\ Goto(waiting[d], NoOp)
    /\ UNCHANGED <<banned, tokenVars, held, cuts, logins, ended>>

\* The same, of a request nobody waits for: a logout or a cut half done, or a
\* refresh given up by its client.
Die(r) ==
    /\ op[r].step \notin {"none", "answer"}
    /\ \A d \in Device : waiting[d] # r
    /\ Goto(r, NoOp)
    /\ UNCHANGED <<banned, tokenVars, clientVars, cuts, histVars>>

\* The answer to a request given up reaches nobody.
Drop(r) ==
    /\ op[r].step = "answer"
    /\ waiting[op[r].d] # r
    /\ Goto(r, NoOp)
    /\ UNCHANGED <<banned, tokenVars, clientVars, cuts, histVars>>

-----------------------------------------------------------------------------
(* The end of sessions *)

\* logout with the token: it is found live, then revoked by its id.
LogoutToken(r, d) ==
    /\ op[r] = NoOp
    /\ held[d] # 0 /\ waiting[d] = Nobody
    /\ IF revoked[held[d]] = Live THEN Goto(r, [step |-> "logout", t |-> held[d]])
       ELSE UNCHANGED op
    /\ held' = [held EXCEPT ![d] = 0]
    /\ ended' = [ended EXCEPT ![d] = TRUE]
    /\ UNCHANGED <<banned, tokenVars, waiting, cuts, logins, losses, strays>>

LogoutWrite(r) ==
    /\ op[r].step = "logout"
    /\ revoked' = [revoked EXCEPT ![op[r].t] = 0]
    /\ Goto(r, NoOp)
    /\ UNCHANGED <<banned, minted, device, replacedBy, clientVars, cuts, histVars>>

\* logout of one device, by its id.
LogoutDevice(d) ==
    /\ held[d] # 0 /\ waiting[d] = Nobody
    /\ RevokeThose({t \in Token : device[t] = d})
    /\ held' = [held EXCEPT ![d] = 0]
    /\ ended' = [ended EXCEPT ![d] = TRUE]
    /\ UNCHANGED <<banned, minted, device, replacedBy, op, waiting, cuts, logins, losses, strays>>

\* A new password (change or reset), or a ban: written first, and then every
\* session is revoked.  The logout of all devices is the second step alone.
BeginCut(r, ban) ==
    /\ op[r] = NoOp
    /\ cuts < MaxCuts
    /\ cuts' = cuts + 1
    /\ banned' = (banned \/ ban)
    /\ Goto(r, [step |-> "cut"])
    /\ UNCHANGED <<tokenVars, clientVars, histVars>>

RevokeAll(r) ==
    /\ op[r].step = "cut"
    /\ RevokeThose(Token)
    /\ ended' = [d \in Device |-> TRUE]
    /\ Goto(r, NoOp)
    /\ UNCHANGED <<banned, minted, device, replacedBy, clientVars, cuts, logins, losses, strays>>

Unban ==
    /\ banned
    /\ banned' = FALSE
    /\ UNCHANGED <<tokenVars, op, clientVars, cuts, histVars>>

Tick ==
    /\ revoked' = [t \in Token |-> IF revoked[t] \in {Live, Expired} THEN revoked[t]
                                   ELSE revoked[t] + 1]
    /\ UNCHANGED <<banned, minted, device, replacedBy, op, clientVars, cuts, histVars>>

-----------------------------------------------------------------------------

Proceed(r) ==
    \/ RefreshRead(r) \/ RefreshReplacement(r) \/ RefreshUser(r) \/ Mint(r) \/ Rotate(r)
    \/ Deliver(r) \/ Drop(r) \/ Die(r) \/ LogoutWrite(r) \/ RevokeAll(r)

\* Everything but a login.
Ongoing ==
    \/ \E r \in Request : Proceed(r)
    \/ \E r \in Request, d \in Device : RefreshSend(r, d) \/ LogoutToken(r, d)
    \/ \E d \in Device : LoseAnswer(d) \/ Crash(d) \/ LogoutDevice(d)
    \/ \E r \in Request, ban \in BOOLEAN : BeginCut(r, ban)
    \/ Unban \/ Tick

Next == Ongoing \/ \E r \in Request, d \in Device : Login(r, d)

Spec == Init /\ [][Next]_vars

-----------------------------------------------------------------------------
(* Properties *)

\* The rotation never costs an honest client its session: unless somebody ended
\* it, a client is refused only if it lost two answers in a row, waited beyond
\* the grace period after losing one, or has sent again while an earlier
\* request was still under way (comment of reusableReplacement; test "a lost
\* rotation response can be recovered once, within the grace window").
ClientKeepsSession ==
    [][\A d \in Device :
          held[d] # 0 /\ held'[d] = 0 =>
              \/ ended'[d] \/ strays[d] > 0 \/ losses[d] > 1
              \/ losses[d] = 1 /\ revoked[held[d]] = Expired]_vars

\* Rotation does not multiply sessions: a device has no more live tokens than
\* logins, however many answers are lost, except one for each request it gave
\* up half-way and for each rotation under way.
NoGhostSessions ==
    \A d \in Device :
        Cardinality({t \in LiveTokens : device[t] = d})
            <= logins[d] + strays[d]
               + Cardinality({r \in Request : op[r].step = "rotate" /\ op[r].d = d})
=============================================================================
