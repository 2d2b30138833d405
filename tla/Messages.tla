-------------------------------- MODULE Messages --------------------------------
(***************************************************************************)
(* Messages between friends and their daily quotas, over the friendships   *)
(* of Friends: modules/messages/messages.service.ts.                       *)
(***************************************************************************)
EXTENDS Friends, Sequences

CONSTANTS FreeMessages, PremiumMessages,  \* messagesPerDayFree, messagesPerDayPremium
          PerRecipient                    \* DAILY_RECIPIENT_QUOTA

ASSUME MessagesAssumption ==
    /\ {FreeMessages, PremiumMessages, PerRecipient} \subseteq Nat \ {0}

VARIABLES
    message,     \* message[u][v]: the FriendMessage rows from u to v
    quota,       \* quota[u][d]: DailyQuota.count of u on day d
    recipient,   \* recipient[u][v][d]: DailyRecipientQuota.count
    told         \* told[u][v]: the "message" events stored for v about u

own  == <<message, quota, recipient, told>>
vars == <<friendsVars, own>>

Ops ==
    FriendOps
    \cup [step : {"send"}, u : User, to : SUBSET User, day : Day]
    \cup [step : {"tell"}, u : User, to : SUBSET User]

TypeOK ==
    /\ FriendsTypeOK
    /\ op \in [Request -> Ops]
    /\ message \in [User -> [User -> Seq([day : Day, state : {"unread", "read", "hidden"}])]]
    /\ quota \in [User -> [Day -> Nat]] /\ recipient \in [User -> [User -> [Day -> Nat]]]
    /\ told \in [User -> [User -> Nat]]

Init ==
    /\ FriendsInit
    /\ message = [u \in User |-> [v \in User |-> <<>>]]
    /\ quota = [u \in User |-> [d \in Day |-> 0]]
    /\ recipient = [u \in User |-> [v \in User |-> [d \in Day |-> 0]]]
    /\ told = [u \in User |-> [v \in User |-> 0]]

-----------------------------------------------------------------------------
(* Messages.                                                               *)

DailyLimit(u) == IF u \in Premium THEN PremiumMessages ELSE FreeMessages

MayStillTell(u, v) == recipient[u][v][day] <= PerRecipient   \* mutant: one too many
MayTell(u, v)      == recipient[u][v][day] + 1 <= PerRecipient

\* Friendship, blocks and both quotas are checked for every recipient, and the
\* day is taken, before the transaction.
Send(r, u, to) ==
    /\ to # {} /\ u \notin to /\ u \notin banned
    /\ \A v \in to : ~Blocked(u, v) /\ Status(u, v) = "accepted" /\ v \notin banned
    /\ quota[u][day] + Cardinality(to) <= DailyLimit(u)
    /\ \A v \in to : MayTell(u, v)
    /\ Begin(r, u, [step |-> "send", u |-> u, to |-> to, day |-> day])
    /\ Reads /\ UNCHANGED own

\* incrementDailyQuota, incrementRecipientQuota and createMany, in one
\* transaction.  All recipients count.
CreateMessages(r) ==
    LET o == op[r] IN
    /\ o.step = "send"
    /\ message' = [message EXCEPT ![o.u] = [v \in User |->
          IF v \in o.to THEN Append(@[v], [day |-> o.day, state |-> "unread"]) ELSE @[v]]]
    /\ quota' = [quota EXCEPT ![o.u][o.day] = @ + Cardinality(o.to)]
    /\ recipient' = [recipient EXCEPT ![o.u] = [v \in User |-> [d \in Day |->
          @[v][d] + (IF v \in o.to /\ d = o.day THEN 1 ELSE 0)]]]
    /\ Goto(r, [step |-> "tell", u |-> o.u, to |-> o.to])
    /\ Counted /\ Reads /\ UNCHANGED told

\* A second transaction stores the events of the pushes, one for each recipient.
TellRecipients(r) ==
    LET o == op[r] IN
    /\ o.step = "tell"
    /\ told' = [told EXCEPT ![o.u] = [v \in User |-> @[v] + (IF v \in o.to THEN 1 ELSE 0)]]
    /\ Goto(r, NoOp)
    /\ Counted /\ Reads /\ UNCHANGED <<message, quota, recipient>>

\* read and remove write at once what they read: only their recipient may.
Mark(r, u, v, i, state) ==
    /\ i \in DOMAIN message[v][u]
    /\ Begin(r, u, NoOp)
    /\ message' = [message EXCEPT ![v][u][i].state = state]
    /\ Reads /\ UNCHANGED <<quota, recipient, told>>
Read(r, u, v, i)   == message[v][u][i].state # "hidden" /\ Mark(r, u, v, i, "read")
Remove(r, u, v, i) == Mark(r, u, v, i, "hidden")

-----------------------------------------------------------------------------

Next ==
    \/ FriendsNext /\ UNCHANGED own
    \/ \E r \in Request :
         \/ CreateMessages(r) \/ TellRecipients(r)
         \/ \E u \in User, to \in SUBSET User : Send(r, u, to)
         \/ \E u, v \in User : \E i \in DOMAIN message[v][u] : Read(r, u, v, i) \/ Remove(r, u, v, i)

Spec == Init /\ [][Next]_vars

-----------------------------------------------------------------------------
(* Properties.                                                             *)

\* The messages of a sequence, and those of one sender, that are of day d.
OfDay(s, d)  == {i \in DOMAIN s : s[i].day = d}
SentOn(m, d) == UNION {{v} \X OfDay(m[v], d) : v \in User}

\* The quotas count the messages of the day, one for each recipient, those
\* that were hidden too; without an overlap or a crash neither quota is ever
\* exceeded, and every message has the event of its push.
MessagesAccounted ==
    \A u \in User, d \in Day :
        /\ quota[u][d] = Cardinality(SentOn(message[u], d))
        /\ \A v \in User : recipient[u][v][d] = Cardinality(OfDay(message[u][v], d))
        /\ Quiet /\ ~disturbed =>
              /\ quota[u][d] <= DailyLimit(u)
              /\ \A v \in User : recipient[u][v][d] <= PerRecipient /\ told[u][v] = Len(message[u][v])
=============================================================================
