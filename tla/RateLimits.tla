------------------------------- MODULE RateLimits -------------------------------
(***************************************************************************)
(* The limit on an action one person may take, shared by every server      *)
(* (server/rate-limit.ts, server/db/rate-limit-store.ts): a row with the   *)
(* beginning of a fixed window and a count, which each call changes in one *)
(* statement.  The statement's now() is its transaction's beginning, and   *)
(* it may wait for the row: a call lands up to Wait later.                 *)
(***************************************************************************)
EXTENDS Naturals, Sequences, FiniteSets

CONSTANTS
  Calls,        \* calls there may be at once
  Allowance,    \* calls a window allows
  Window, Day,
  Wait,         \* how long a statement may wait for the row
  None,         \* null
  LastInstant,  \* bound: the clock
  MaxCalls      \* bound: calls

VARIABLES
  clock,
  limit,    \* the row: when its window began, and the calls since
  now,      \* the calls under way: their transaction's beginning
  allowed,  \* when those that were let through landed
  calls     \* calls so far

vars == <<clock, limit, now, allowed, calls>>

Instants == 0..LastInstant
Under    == {c \in Calls : now[c] # None}

Init ==
  /\ clock = 0 /\ limit = None /\ calls = 0
  /\ now = [c \in Calls |-> None]
  /\ allowed = <<>>

TimePasses ==
  /\ clock < LastInstant /\ clock' = clock + 1
  /\ \A c \in Under : clock' <= now[c] + Wait
  /\ UNCHANGED <<limit, now, allowed, calls>>

Call(c) ==
  /\ now[c] = None /\ calls < MaxCalls
  /\ calls' = calls + 1 /\ now' = [now EXCEPT ![c] = clock]
  /\ UNCHANGED <<clock, limit, allowed>>

Lands(c) == now[c] # None /\ now' = [now EXCEPT ![c] = None]

\* Whether a call that began then starts a new window.
IsOver(at) == limit = None \/ limit.started + Window <= at

\* Mutant: the count is read before and written after.
CountedOnce == [started |-> limit.started, count |-> IF limit.count = 1 THEN 2 ELSE limit.count]

Incremented == [started |-> limit.started, count |-> limit.count + 1]

\* consumeRateLimit and rateLimited: the call is counted either way.
ConsumeRateLimit(c) ==
  /\ Lands(c)
  /\ limit' = IF IsOver(now[c]) THEN [started |-> now[c], count |-> 1] ELSE Incremented
  /\ allowed' = IF limit'.count <= Allowance THEN Append(allowed, clock) ELSE allowed
  /\ UNCHANGED <<clock, calls>>

\* The database cannot be reached: let through, uncounted.
FailsOpen(c) == Lands(c) /\ UNCHANGED <<clock, limit, allowed, calls>>

IsOld == limit.started + Day < clock

PruneRateLimits ==
  /\ limit # None /\ IsOld /\ limit' = None
  /\ UNCHANGED <<clock, now, allowed, calls>>

Next ==
  \/ TimePasses \/ PruneRateLimits
  \/ \E c \in Calls : Call(c) \/ ConsumeRateLimit(c) \/ FailsOpen(c)

Spec == Init /\ [][Next]_vars

-----------------------------------------------------------------------------
(* Properties *)

\* Every variable stays in its type.
TypeOK ==
  /\ clock \in Instants /\ calls \in 0..MaxCalls
  /\ limit \in [started : Instants, count : Nat \ {0}] \union {None}
  /\ now \in [Calls -> Instants \union {None}]
  /\ allowed \in Seq(Instants)

Through(times) == Cardinality({k \in DOMAIN allowed : allowed[k] \in times})

\* However calls fall on either side of the end of a window, and however long their statements
\* wait, what passes in the time of a window (less a statement's wait) is less than twice the limit.
BurstIsBounded ==
  \A t \in Instants : Through(t..(t + Window - Wait - 1)) < 2 * Allowance

=============================================================================
