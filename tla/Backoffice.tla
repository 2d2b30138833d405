------------------------------ MODULE Backoffice ------------------------------
(***************************************************************************)
(* The accounts of the back office: sessions, passwords, invitations and   *)
(* permissions (modules/adminAuth), and the script that makes the owner    *)
(* (prisma/seedBackoffice.ts).                                             *)
(*                                                                         *)
(* doing[r] is what a request has read and the call of the repository it   *)
(* makes next.  A password is a number: the version of it.  A session is   *)
(* named by the index of its token; it stems from a login.                 *)
(***************************************************************************)
EXTENDS Integers, FiniteSets

CONSTANTS Owner, Member,   \* the owner; those he invites
          Device, Module,
          Grid,            \* grids of permissions: the modules to be seen and to be edited
          Request,         \* overlapping requests and runs of the script
          MaxTokens,       \* bound on refresh tokens
          MaxCalls         \* bound on requests

Person == {Owner} \cup Member
Token  == 1..MaxTokens
Level  == {"view", "edit"}
Full   == [k \in Module |-> "edit"]
\* The rows of AdminPermission that a call writes for a grid.
RowsOf(g, call) == {<<k, g[k], call>> : k \in {k \in Module : g[k] # "none"}}
Row    == Module \X Level \X (0..MaxCalls)

ASSUME BackofficeAssumption ==
    /\ Owner \notin Member /\ IsFiniteSet(Request) /\ MaxTokens \in Nat /\ MaxCalls \in Nat
    /\ Grid \subseteq [Module -> Level \cup {"none"}]

VARIABLES
    person,   \* person[p]: AdminUser (pw is the version of passwordHash) and its permissions
    token,    \* AdminRefreshToken: token[t]
    doing,    \* doing[r]: the next step of a request
    calls,    \* how many requests began
    cuts,     \* history: how often the sessions of p were revoked
    uncut,    \* history: whose password changed while his sessions stayed
    doubled,  \* history: doubled[t], the refreshes of sessions from t that found them revoked
    given,    \* history: the last call that gave p permissions, and those that overlapped it
    left      \* history: the tokens of devices their owner asked to log out

history == <<cuts, uncut, doubled, given, left>>
backofficeVars == <<person, token, doing, calls, history>>

NoToken == [member |-> Owner, live |-> FALSE, device |-> "none"]
Used == {t \in Token : token[t] # NoToken}
Live == {t \in Token : token[t].live}
Idle == [step |-> "none"]

BackofficeTypeOK ==
    /\ person \in [Person -> [known : BOOLEAN, pw : 0..MaxCalls, rows : SUBSET Row]]
    /\ \A p \in Person, a, b \in Row :
         {a, b} \subseteq person[p].rows /\ a[1] = b[1] => a = b
    /\ \A t \in Used : token[t] \in
         [member : Person, device : Device, live : BOOLEAN, pw : 0..MaxCalls,
          root : Used, since : Nat, born : Nat]
    /\ Used = 1..Cardinality(Used)
    /\ calls \in 0..MaxCalls

BackofficeInit ==
    /\ person = [p \in Person |-> [known |-> p = Owner, pw |-> 0,
                                   rows |-> IF p = Owner THEN RowsOf(Full, 0) ELSE {}]]
    /\ token = [t \in Token |-> NoToken]
    /\ doing = [r \in Request |-> Idle] /\ calls = 0
    /\ cuts = [p \in Person |-> 0] /\ uncut = {} /\ doubled = [t \in Token |-> 0]
    /\ given = [p \in Person |-> {}] /\ left = {}

Becomes(r, o) == doing' = [doing EXCEPT ![r] = o]
End(r) == Becomes(r, Idle)
Begin(r) == doing[r] = Idle /\ calls < MaxCalls /\ calls' = calls + 1
At(r, step) == doing[r].step = step

------------------------------------------------------------------------------
(* Sessions.                                                                *)

\* findByEmail and the comparison of the password; another one than the last is refused.
Login(r, p, d) ==
    /\ person[p].known /\ Begin(r)
    /\ Becomes(r, [step |-> "issue", member |-> p, device |-> d, pw |-> person[p].pw,
                   root |-> 0, since |-> cuts[p]])
    /\ UNCHANGED <<person, token, history>>

IssueTokens(r) ==
    /\ At(r, "issue") /\ Used # Token
    /\ LET o == doing[r]
           t == Cardinality(Used) + 1
       IN token' = [token EXCEPT ![t] =
                      [member |-> o.member, device |-> o.device, live |-> TRUE, pw |-> o.pw,
                       root |-> IF o.root = 0 THEN t ELSE o.root, since |-> o.since,
                       born |-> cuts[o.member]]]
    /\ End(r) /\ UNCHANGED <<person, calls, history>>

\* The record is found valid, then the account.
Refresh(r, t) ==
    /\ t \in Live /\ Begin(r) /\ Becomes(r, [step |-> "rotate", t |-> t])
    /\ UNCHANGED <<person, token, history>>
RotateKept(r) ==   \* mutant: the token that was presented stays valid
    /\ At(r, "rotate")
    /\ LET o == token[doing[r].t] IN
         Becomes(r, [step |-> "issue", member |-> o.member, device |-> o.device, pw |-> o.pw,
                     root |-> o.root, since |-> o.since])
    /\ UNCHANGED <<person, token, calls, history>>
\* revokeRefreshToken, whatever happened to the record since it was found.
Rotate(r) ==
    /\ At(r, "rotate")
    /\ LET t == doing[r].t
           o == token[t]
       IN /\ token' = [token EXCEPT ![t].live = FALSE]
          /\ doubled' = IF o.live THEN doubled ELSE [doubled EXCEPT ![o.root] = @ + 1]
          /\ Becomes(r, [step |-> "issue", member |-> o.member, device |-> o.device, pw |-> o.pw,
                         root |-> o.root, since |-> o.since])
    /\ UNCHANGED <<person, calls, cuts, uncut, given, left>>

Logout(r, t) ==
    /\ t \in Live /\ Begin(r) /\ Becomes(r, [step |-> "revoke", t |-> t])
    /\ UNCHANGED <<person, token, history>>
RevokeRefreshToken(r) ==
    /\ At(r, "revoke") /\ token' = [token EXCEPT ![doing[r].t].live = FALSE]
    /\ End(r) /\ UNCHANGED <<person, calls, history>>

\* Of devices, without a token: the route asks for no authentication, so that the
\* account is unknown to logout, which revokes nothing.
LogoutDevices(r, p, ds) ==
    /\ Begin(r) /\ left' = left \cup {t \in Used : token[t].member = p /\ token[t].device \in ds}
    /\ UNCHANGED <<person, token, doing, cuts, uncut, doubled, given>>

------------------------------------------------------------------------------
(* Passwords, by the owner or by oneself: updatePassword, then revokeAll.   *)

SetPassword(r, p) ==
    /\ person[p].known /\ Begin(r) /\ Becomes(r, [step |-> "password", member |-> p, pw |-> calls'])
    /\ UNCHANGED <<person, token, history>>
UpdatePassword(r) ==
    /\ At(r, "password")
    /\ person' = [person EXCEPT ![doing[r].member].pw = doing[r].pw]
    /\ Becomes(r, [step |-> "cut", member |-> doing[r].member])
    /\ UNCHANGED <<token, calls, history>>
\* mutant: the sessions of the device last used are revoked, as revokeByDevice does.
RevokeOne(r) ==
    /\ At(r, "cut")
    /\ LET p == doing[r].member
           last == {t \in Live : token[t].member = p /\ \A s \in Live : s <= t}
       IN /\ token' = [t \in Token |-> IF t \in last THEN [token[t] EXCEPT !.live = FALSE]
                                       ELSE token[t]]
          /\ cuts' = [cuts EXCEPT ![p] = @ + 1] /\ uncut' = uncut \ {p}
    /\ End(r) /\ UNCHANGED <<person, calls, doubled, given, left>>
RevokeAll(r) ==
    /\ At(r, "cut")
    /\ LET p == doing[r].member IN
         /\ token' = [t \in Token |-> IF t \in Live /\ token[t].member = p
                                      THEN [token[t] EXCEPT !.live = FALSE] ELSE token[t]]
         /\ cuts' = [cuts EXCEPT ![p] = @ + 1] /\ uncut' = uncut \ {p}
    /\ End(r) /\ UNCHANGED <<person, calls, doubled, given, left>>

------------------------------------------------------------------------------
(* Members and permissions.                                                 *)

Invite(r, p, g) ==
    /\ ~person[p].known /\ Begin(r)
    /\ Becomes(r, [step |-> "create", member |-> p, grid |-> g, call |-> calls'])
    /\ UNCHANGED <<person, token, history>>
\* The address is unique: of two invitations the second fails here.
CreateMember(r) ==
    /\ At(r, "create")
    /\ LET p == doing[r].member IN
         IF person[p].known THEN End(r) /\ UNCHANGED person
         ELSE /\ person' = [person EXCEPT ![p].known = TRUE, ![p].pw = doing[r].call]
              /\ Becomes(r, [doing[r] EXCEPT !.step = "replace"])
    /\ UNCHANGED <<token, calls, history>>

UpdatePermissions(r, p, g) ==
    /\ p # Owner /\ person[p].known /\ Begin(r)
    /\ Becomes(r, [step |-> "replace", member |-> p, grid |-> g, call |-> calls'])
    /\ UNCHANGED <<person, token, history>>

\* deleteMany of replacePermissions: the rows that its statement sees.  Nothing is visible
\* to others before the commit.
ReplaceDelete(r) ==
    /\ At(r, "replace")
    /\ LET p == doing[r].member IN
         Becomes(r, [step |-> "write", member |-> p, grid |-> doing[r].grid, call |-> doing[r].call,
                     seen |-> person[p].rows, began |-> given[p]])
    /\ UNCHANGED <<person, token, calls, history>>

KeepsAll(rows, seen) == rows   \* mutant: nothing is deleted
\* What is left of the rows once those that were seen are deleted.
Kept(rows, seen) == rows \ seen

\* @@unique([adminUserId, module])
Clash(rows, new) == \E a \in rows, b \in new : a[1] = b[1]

\* createMany and commit.  Rows written since by another call are still there: those of
\* the same module make it fail (unique on account and module), and the whole is rolled
\* back; the others stay beside the new ones.
ReplaceCommit(r) ==
    /\ At(r, "write")
    /\ LET o    == doing[r]
           p    == o.member
           kept == Kept(person[p].rows, o.seen)
           new  == RowsOf(o.grid, o.call)
       IN IF Clash(kept, new)
          THEN UNCHANGED <<person, given>>
          ELSE /\ person' = [person EXCEPT ![p].rows = kept \cup new]
               /\ given' = [given EXCEPT ![p] = (IF @ = o.began THEN {} ELSE @)
                                                \cup {[grid |-> o.grid, call |-> o.call]}]
    /\ End(r) /\ UNCHANGED <<token, calls, cuts, uncut, doubled, left>>

------------------------------------------------------------------------------
(* The script that makes the owner, or gives him a new password: an upsert, *)
(* then the two statements of his permissions, each on its own.             *)

Seed(r) ==
    /\ Begin(r) /\ person' = [person EXCEPT ![Owner].pw = calls']
    /\ uncut' = uncut \cup {Owner} /\ Becomes(r, [step |-> "clear", call |-> calls'])
    /\ UNCHANGED <<token, cuts, doubled, given, left>>
SeedDelete(r) ==
    /\ At(r, "clear")
    /\ person' = [person EXCEPT ![Owner].rows = {}]
    /\ Becomes(r, [doing[r] EXCEPT !.step = "fill"])
    /\ UNCHANGED <<token, calls, history>>
\* It fails if another run has filled them.
SeedCreate(r) ==
    /\ At(r, "fill")
    /\ person' = IF person[Owner].rows = {}
                 THEN [person EXCEPT ![Owner].rows = RowsOf(Full, doing[r].call)] ELSE person
    /\ End(r) /\ UNCHANGED <<token, calls, history>>

\* The process dies between two calls.
Die(r) ==
    /\ doing[r] # Idle /\ End(r)
    /\ uncut' = IF At(r, "cut") THEN uncut \cup {doing[r].member} ELSE uncut
    /\ UNCHANGED <<person, token, calls, cuts, doubled, given, left>>

------------------------------------------------------------------------------

Proceed(r) ==
    \/ IssueTokens(r) \/ Rotate(r) \/ RevokeRefreshToken(r)
    \/ UpdatePassword(r) \/ RevokeAll(r)
    \/ CreateMember(r) \/ ReplaceDelete(r) \/ ReplaceCommit(r)
    \/ SeedDelete(r) \/ SeedCreate(r)

BackofficeNext == \E r \in Request :
    \/ Proceed(r) \/ Die(r) \/ Seed(r)
    \/ \E t \in Token : Refresh(r, t) \/ Logout(r, t)
    \/ \E p \in Person : \/ SetPassword(r, p)
                         \/ \E d \in Device : Login(r, p, d)
                         \/ \E ds \in SUBSET Device \ {{}} : LogoutDevices(r, p, ds)
                         \/ \E g \in Grid : UpdatePermissions(r, p, g)
    \/ \E p \in Member, g \in Grid : Invite(r, p, g)

BackofficeSpec == BackofficeInit /\ [][BackofficeNext]_backofficeVars
------------------------------------------------------------------------------
(* Properties.                                                              *)

\* A login has one session at a time, whatever rotates it: one more for each refresh that
\* overlapped the end of the session it refreshed (refresh revokes without a second look,
\* and has no grace period in which it would find the successor).
OneSessionPerLogin ==
    \A x \in Used : Cardinality({t \in Live : token[t].root = x}) <= 1 + doubled[x]

Changing(p) == p \in uncut \/ \E r \in Request : At(r, "cut") /\ doing[r].member = p
\* A new password ends every session that was there: a session of an older one was
\* opened, or rotated, by a request that overlapped the change (adminAuth.service.ts:147:
\* "every existing session is revoked").
ChangeEndsSessions ==
    \A t \in Live : LET p == token[t].member IN
        /\ token[t].born = cuts[p]
        /\ token[t].pw # person[p].pw => token[t].since < cuts[p] \/ Changing(p)

\* A member may do what the last call gave him, together with what the calls that
\* overlapped it gave: never what was taken from him before, nor anything else.
PermissionsAsGiven ==
    \A p \in Member :
        LET rows == UNION {RowsOf(x.grid, x.call) : x \in given[p]} IN
        /\ person[p].rows \subseteq rows
        /\ Cardinality(given[p]) = 1 => person[p].rows = rows

\* adminAuth.routes.ts:35 says that logout revokes the current session, or all of them.
LogoutEnds == left \cap Live = {}
=============================================================================
