--------------------------- MODULE MCNotifications ---------------------------
(* Small instances of Notifications for TLC. *)
EXTENDS Notifications

\* Clocks that differ by a tick.
MCZone == [u \in User |-> u - 1]
MCHours == [u \in User |-> {Day - 1}]
MCThreshold == <<1, 2>>
MCSegments == {User}
\* Each user has a device, the first has those that are left.
MCOwners == {own \in [Token -> User] : {own[t] : t \in Token} = User}
\* They opened it when they played, or again on the first day.
MCSince == {-Day, 0}
=============================================================================
