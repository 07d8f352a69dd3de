-------------------------- MODULE MCNotificationQueue --------------------------
(* A queue of one or two notifications, checked by TLC, and quiet hours on *)
(* every instant of two short days.                                        *)
EXTENDS NotificationQueue, QuietHours

MCChannel == [n \in Notifications |-> CASE n = "mail" -> "email"
                                        [] n = "text" -> "sms"
                                        [] OTHER -> "in_app"]
MCBackoff == [a \in 0..MaxAttempts |-> a]

\* Quiet hours have no state: TLC looks at them where nothing has happened yet.
Untouched == age = [w \in Workers |-> 0] /\ crashes = 0 /\ stage = [w \in Workers |-> "idle"]
               /\ \A n \in Notifications : status[n] = "absent"

\* enqueue promises the first instant at which its person is reachable.
QuietHoursDelayNeverDrop == Untouched => DueWhenFirstReachable
=============================================================================
