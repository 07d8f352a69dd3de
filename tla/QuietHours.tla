------------------------------ MODULE QuietHours ------------------------------
(***************************************************************************)
(* When a notification is due for a person with quiet hours                *)
(* (isWithinQuietHours, nextDeliverableAt and their use in enqueue,        *)
(* notifications/service.ts).  Instants are minutes of absolute time; the  *)
(* person's wall clock follows them, except that it goes back by ClockBack *)
(* at the instant ChangeAt (daylight saving; going forward by k is going   *)
(* back by Day - k).  Nothing here has state: NotificationQueue is told    *)
(* only by how much a row may be postponed (QuietDelay).                   *)
(***************************************************************************)
EXTENDS Integers

CONSTANTS
  Day,          \* minutes in a day
  ClockBack,    \* minutes the wall clock goes back by, 0 for no change
  ChangeAt,     \* the instant it does
  Horizon       \* bound: instants considered

ASSUME DayAssumption == Day \in Nat \ {0} /\ Horizon \in Nat
ASSUME ChangeAssumption == ClockBack \in 0..(Day - 1) /\ ChangeAt \in Nat

\* DeliveryProfile, as far as quiet hours go.
Profiles == [enabled : BOOLEAN, start : 0..(Day - 1), end : 0..(Day - 1)]

\* zonedParts(instant).hour * 60 + .minute
WallMinute(t) == (IF t >= ChangeAt THEN t - ClockBack ELSE t) % Day

\* The overnight window, where start > end, is the normal one.
IsWithinQuietHours(p, t) ==
  /\ p.enabled /\ p.start # p.end
  /\ IF p.start < p.end THEN WallMinute(t) >= p.start /\ WallMinute(t) < p.end
                        ELSE WallMinute(t) >= p.start \/ WallMinute(t) < p.end

\* Mutant: the end of the window is always tomorrow's.
MinutesUntilEndTomorrow(p, t) == Day - WallMinute(t) + p.end

MinutesUntilEnd(p, t) ==
  IF WallMinute(t) < p.end THEN p.end - WallMinute(t) ELSE Day - WallMinute(t) + p.end

NextDeliverableAt(p, t) == IF IsWithinQuietHours(p, t) THEN t + MinutesUntilEnd(p, t) ELSE t

\* What enqueue stores, at now.
ScheduledFor(p, now, overrides) == IF overrides THEN now ELSE NextDeliverableAt(p, now)

-----------------------------------------------------------------------------
ClockChangesBetween(t, u) == t < ChangeAt /\ ChangeAt <= u

\* "Delayed, never dropped": the row is due at the FIRST instant from now on at
\* which the person is reachable - not a minute early, not a day late, whichever
\* way round the window is - unless the clocks change while it waits: the code
\* adds wall-clock minutes to an instant, and is then off by the change.
DueWhenFirstReachable ==
  \A p \in Profiles, now \in 0..Horizon :
    LET due == ScheduledFor(p, now, FALSE) IN
    ~ClockChangesBetween(now, due) =>
      /\ due >= now /\ ~IsWithinQuietHours(p, due)
      /\ \A t \in now..(due - 1) : IsWithinQuietHours(p, t)
=============================================================================
