------------------------------- MODULE Accounts -------------------------------
(***************************************************************************)
(* The account behind the sessions of Sessions: its registration, the      *)
(* verification of its address and the reset of its password               *)
(* (modules/auth/auth.service.ts).  A code or a link is a secret sent by   *)
(* mail in three steps: the earlier ones are invalidated, a new one is     *)
(* stored, and it is mailed.                                               *)
(*                                                                         *)
(* Every database call is a step, and the server may die between two of    *)
(* them (Die and Crash of Sessions).  Mails may be lost, never reordered   *)
(* by the network: two requests may send theirs in any order.              *)
(***************************************************************************)
EXTENDS Sessions, Sequences

CONSTANTS MaxCodes, MaxLinks,  \* bounds on the secrets of each kind
          MaxTries,            \* EMAIL_VERIFICATION_MAX_ATTEMPTS
          MaxMixed             \* bound on secrets, faults and cuts together

ASSUME AccountsAssumption ==
    MaxCodes \in Nat /\ MaxLinks \in Nat /\ MaxTries \in Nat \ {0} /\ MaxMixed \in Nat

VARIABLES
    account,  \* "none", or whether User.emailVerified
    secret,   \* secret[k]: the rows of kind k, oldest first
    inbox     \* inbox[k]: the secret last received, 0 when there is none

accountVars == <<account, secret, inbox>>
allVars     == <<vars, accountVars>>

Kind   == {"code", "link"}   \* EmailVerificationCode and PasswordResetToken
Secret == [spent : BOOLEAN,       \* usedAt is set
           late  : BOOLEAN,       \* expiresAt has passed
           tries : 0..MaxTries + Cardinality(Request),
           alone : BOOLEAN]       \* history: no send of its kind overlapped its own
Fresh  == [spent |-> FALSE, late |-> FALSE, tries |-> 0, alone |-> FALSE]
Spent  == [Fresh EXCEPT !.spent = TRUE]   \* the rest of it is read no more
MaxSends(k) == IF k = "code" THEN MaxCodes ELSE MaxLinks

AccountsTypeOK ==
    /\ account \in {"none", "unverified", "verified"}
    /\ secret \in [Kind -> Seq(Secret)] /\ \A k \in Kind : Len(secret[k]) <= MaxSends(k)
    /\ \A k \in Kind : inbox[k] \in 0..Len(secret[k])

AccountsInit ==
    /\ Init
    /\ account = "none"
    /\ secret = [k \in Kind |-> << >>]
    /\ inbox = [k \in Kind |-> 0]

AllSpent(rows) == [i \in DOMAIN rows |-> Spent]
Sending(k) == {r \in Request : op[r].step \in {"invalidate", "create", "mail"} /\ op[r].k = k}
Keep       == UNCHANGED <<banned, tokenVars, held, cuts, losses, strays, ended>>
Waits(r, d) == waiting' = [waiting EXCEPT ![d] = r] /\ logins' = [logins EXCEPT ![d] = @ + 1]
MayWait(d)  == held[d] = 0 /\ waiting[d] = Nobody /\ MayMint /\ logins[d] < MaxLogins

\* The answer without tokens to a request that hoped for some.
NoTokens(r) ==
    /\ Refuse(r)
    /\ logins' = [logins EXCEPT ![op[r].d] = @ - 1]
    /\ UNCHANGED waiting

-----------------------------------------------------------------------------
(* The mails.                                                              *)

\* One call of invalidateUserVerificationCodes or invalidateUserResets.
Invalidate(r) ==
    /\ op[r].step = "invalidate"
    /\ secret' = [secret EXCEPT ![op[r].k] = AllSpent(@)]
    /\ Goto(r, [op[r] EXCEPT !.step = "create"])
    /\ Keep /\ UNCHANGED <<waiting, logins, account, inbox>>

CreateSecret(r) ==
    LET k == op[r].k IN
    /\ op[r].step = "create"
    /\ secret' = [secret EXCEPT ![k] = Append(@,
          [Fresh EXCEPT !.alone = Sending(k) = {r}])]
    /\ Goto(r, [step |-> "mail", k |-> k, i |-> Len(secret'[k])])
    /\ Keep /\ UNCHANGED <<waiting, logins, account, inbox>>

\* A mail that cannot be sent is logged (register) or answered by an error.
Mail(r, sent) ==
    /\ op[r].step = "mail"
    /\ inbox' = IF sent THEN [inbox EXCEPT ![op[r].k] = op[r].i] ELSE inbox
    /\ Goto(r, NoOp)
    /\ Keep /\ UNCHANGED <<waiting, logins, account, secret>>

\* The user asks for a code while he is not verified, for a link at any time.
Ask(r, k) ==
    /\ op[r] = NoOp
    /\ account = "unverified" \/ (account = "verified" /\ k = "link")
    /\ Len(secret[k]) + Cardinality(Sending(k)) < MaxSends(k)
    /\ Goto(r, [step |-> "invalidate", k |-> k])
    /\ Keep /\ UNCHANGED <<waiting, logins, accountVars>>

Expire(k, i) ==
    /\ ~secret[k][i].spent /\ ~secret[k][i].late
    /\ secret' = [secret EXCEPT ![k][i].late = TRUE]
    /\ UNCHANGED <<vars, account, inbox>>

-----------------------------------------------------------------------------
(* register                                                                *)

\* open: the switch of the back office does not ask for a verified address.
Register(r, d, open) ==
    /\ op[r] = NoOp
    /\ account = "none"
    /\ MayWait(d)
    /\ Goto(r, [step |-> "createUser", d |-> d, open |-> open])
    /\ IF open THEN Waits(r, d) ELSE UNCHANGED <<waiting, logins>>
    /\ Keep /\ UNCHANGED accountVars

\* The address is unique: the second of two registrations fails.
CreateUser(r) ==
    LET o == op[r] IN
    /\ op[r].step = "createUser"
    /\ IF account # "none"
       THEN /\ IF o.open THEN NoTokens(r) ELSE Goto(r, NoOp) /\ UNCHANGED <<waiting, logins>>
            /\ UNCHANGED account
       ELSE /\ account' = IF o.open THEN "verified" ELSE "unverified"
            /\ Goto(r, IF o.open THEN [step |-> "mint", d |-> o.d, retired |-> 0]
                                 ELSE [step |-> "invalidate", k |-> "code"])
            /\ UNCHANGED <<waiting, logins>>
    /\ Keep /\ UNCHANGED <<secret, inbox>>

-----------------------------------------------------------------------------
(* verifyEmail, with the code last received or a wrong one (0).            *)

Verify(r, d, i) ==
    /\ op[r] = NoOp
    /\ account # "none"
    /\ MayWait(d)
    /\ Goto(r, [step |-> "verify", d |-> d, i |-> i])
    /\ Waits(r, d)
    /\ Keep /\ UNCHANGED accountVars

\* An account already verified needs no code.
VerifyUser(r) ==
    /\ op[r].step = "verify"
    /\ Goto(r, IF account = "verified" THEN [step |-> "mint", d |-> op[r].d, retired |-> 0]
               ELSE [op[r] EXCEPT !.step = "code"])
    /\ Keep /\ UNCHANGED <<waiting, logins, accountVars>>

Unspent(k)     == {i \in DOMAIN secret[k] : ~secret[k][i].spent}
ActiveFirst(k) == {i \in Unspent(k) : \A j \in Unspent(k) : i <= j}  \* mutant: the oldest code

\* findActiveVerificationCode: the newest that was neither used nor replaced.
Active(k) == {i \in Unspent(k) : \A j \in Unspent(k) : j <= i}

VerifyCode(r) ==
    LET o == op[r]
        usable == {i \in Active("code") : ~secret["code"][i].late /\ secret["code"][i].tries < MaxTries}
    IN
    /\ o.step = "code"
    /\ \/ usable = {} /\ NoTokens(r)
       \/ \E i \in usable :
             /\ Goto(r, [step |-> IF o.i = i THEN "burn" ELSE "miss", d |-> o.d, i |-> i])
             /\ UNCHANGED <<waiting, logins>>
    /\ Keep /\ UNCHANGED accountVars

Miss(r) ==
    /\ op[r].step = "miss"
    /\ secret' = [secret EXCEPT !["code"][op[r].i].tries = @ + 1]
    /\ NoTokens(r)
    /\ Keep /\ UNCHANGED <<account, inbox>>

\* markVerificationCodeUsed, then markEmailVerified.  No code of a verified
\* account is read any more, and the model forgets them.
Burn(r) ==
    /\ op[r].step = "burn"
    /\ secret' = [secret EXCEPT !["code"][op[r].i] = Spent]
    /\ Goto(r, [step |-> "confirm", d |-> op[r].d])
    /\ Keep /\ UNCHANGED <<waiting, logins, account, inbox>>

Confirm(r) ==
    /\ op[r].step = "confirm"
    /\ account' = "verified"
    /\ secret' = [secret EXCEPT !["code"] = AllSpent(@)]
    /\ inbox' = [inbox EXCEPT !["code"] = 0]
    /\ Goto(r, [step |-> "mint", d |-> op[r].d, retired |-> 0])
    /\ Keep /\ UNCHANGED <<waiting, logins>>

-----------------------------------------------------------------------------
(* confirmPasswordReset, with the link last received.                      *)

ConfirmReset(r) ==
    LET i == inbox["link"] IN
    /\ op[r] = NoOp
    /\ i # 0 /\ ~secret["link"][i].spent /\ ~secret["link"][i].late
    /\ cuts < MaxCuts
    /\ cuts' = cuts + 1
    /\ Goto(r, [step |-> "password", i |-> i])
    /\ UNCHANGED <<banned, tokenVars, clientVars, histVars, accountVars>>

\* The new password is written, then the link is used up; RevokeAll follows.
UseLink(r) ==
    /\ op[r].step = "password"
    /\ secret' = [secret EXCEPT !["link"][op[r].i] = Spent]
    /\ Goto(r, [step |-> "cut"])
    /\ Keep /\ UNCHANGED <<waiting, logins, account, inbox>>

-----------------------------------------------------------------------------

Account(r) ==
    \/ Invalidate(r) \/ CreateSecret(r) \/ CreateUser(r)
    \/ VerifyUser(r) \/ VerifyCode(r) \/ Miss(r) \/ Burn(r) \/ Confirm(r)
    \/ ConfirmReset(r) \/ UseLink(r)
    \/ \E sent \in BOOLEAN : Mail(r, sent)
    \/ \E k \in Kind : Ask(r, k)
    \/ \E d \in Device, open \in BOOLEAN : Register(r, d, open)
    \/ \E d \in Device, i \in {0, inbox["code"]} : Verify(r, d, i)

\* login refuses an account whose address is not verified.
AccountsStep ==
    \/ Ongoing /\ UNCHANGED accountVars
    \/ \E r \in Request, d \in Device :
          account = "verified" /\ Login(r, d) /\ UNCHANGED accountVars
    \/ \E r \in Request : Account(r)
    \/ \E k \in Kind : \E i \in DOMAIN secret[k] : Expire(k, i)

Bounded      == Len(secret["code"]) + Len(secret["link"]) + Faults + cuts <= MaxMixed
AccountsNext == AccountsStep /\ Bounded'

AccountsSpec == AccountsInit /\ [][AccountsNext]_allVars

-----------------------------------------------------------------------------
(* Properties.                                                             *)

\* No session is opened before the address is verified (comment of register:
\* "Pas de session tant que l'email n'est pas verifie").  And nobody is locked
\* out: whatever became of the earlier sends, of crashes and of wrong answers,
\* the code a user received last is the one verifyEmail compares with, unless
\* a send overlapped its own or came after, or a verification used it up.
LastCodeOpens ==
    /\ account # "verified" => minted = 0
    /\ LET i == inbox["code"] IN
       account = "unverified" /\ i # 0 /\ secret["code"][i].alone => Active("code") = {i}
=============================================================================
