--------------------------- MODULE NotificationQueue ---------------------------
(***************************************************************************)
(* The notification table as a delivery queue: request handlers enqueue,   *)
(* cancel and retry rows, and any number of worker processes claim due     *)
(* rows under a lease, send them outside any transaction and record the    *)
(* outcome in a later transaction (notifications/service.ts, worker.ts).   *)
(*                                                                         *)
(* A row is named by its idempotency key, which is unique per organization.*)
(*                                                                         *)
(* TIME.  Every instant the code stores is kept relative to the clock, so  *)
(* the state stays finite: due is scheduled_for - clock, lock is           *)
(* locked_until - clock, and age[w] is clock - now, where now is the       *)
(* instant worker w read ONCE, when its tick began.  The code compares and *)
(* computes with that now, so its "x <= now" is "x <= -age[w]" here, and   *)
(* what it stores as now + d is d - age[w].  Instants more than TickSpan   *)
(* in the past are not told apart: no comparison can (age <= TickSpan).    *)
(*                                                                         *)
(* A claim token is a fresh uuid per claim.  One process has at most one   *)
(* batch in flight and never completes a batch it lost in a crash, so the  *)
(* token is represented by the process that holds it.                      *)
(***************************************************************************)
EXTENDS Integers, FiniteSets

CONSTANTS
  Notifications,  \* idempotency keys
  Workers,        \* worker processes
  Channel,        \* the channel of each notification
  Lease,          \* DELIVERY_LEASE_MS
  MaxAttempts,    \* MAX_DELIVERY_ATTEMPTS
  Backoff,        \* retryBackoffMs, per attempt
  QuietDelay,     \* how far quiet hours may postpone a row
  BatchSize,      \* rows claimed per batch
  TickSpan,       \* longest a tick runs before it ends or is killed
  MaxCrashes,     \* bound: worker crashes in a behaviour
  ClaimCap        \* bound: claims of one row between two resets

NoWorker == "no worker"

Channels == {"in_app", "email", "sms"}
Statuses == {"absent", "pending", "sent", "failed", "suppressed", "cancelled"}
Stages   == {"idle", "open", "sending", "more"}
Outcomes == {"sent", "transient", "permanent"}
Unknown  == "unknown"

ASSUME NamesAssumption == NoWorker \notin Workers /\ Channel \in [Notifications -> Channels]
ASSUME TimesAssumption ==
  /\ Lease \in Nat \ {0} /\ TickSpan \in Nat /\ QuietDelay \in Nat
  /\ MaxAttempts \in Nat \ {0} /\ Backoff \in [0..MaxAttempts -> Nat]
ASSUME BoundsAssumption == BatchSize \in Nat \ {0} /\ MaxCrashes \in Nat /\ ClaimCap \in Nat

VARIABLES
  status,     \* notifications.status, "absent" before the row exists
  attempts,   \* notifications.attempts
  due,        \* notifications.scheduled_for, relative to the clock
  lock,       \* notifications.locked_until, relative; past when null
  token,      \* notifications.claim_token: the claiming worker
  retryable,  \* a failure retryFailedNotifications still looks at
  stage,      \* where each worker is in its tick
  age,        \* how long ago each worker's tick began
  batch,      \* rows each worker claimed and has not completed
  outcome,    \* what the sender returned for them
  accepted,   \* idempotency keys the e-mail provider has accepted
  crashes

rowVars    == <<status, attempts, due, lock, token, retryable>>
workerVars == <<stage, age, batch, outcome>>
vars == <<rowVars, workerVars, accepted, crashes>>

LongAgo == -TickSpan
NoOutcome == [n \in Notifications |-> Unknown]
Earlier(t) == IF t > LongAgo THEN t - 1 ELSE t

Init ==
  /\ status    = [n \in Notifications |-> "absent"]
  /\ attempts  = [n \in Notifications |-> 0]
  /\ due       = [n \in Notifications |-> 0]
  /\ lock      = [n \in Notifications |-> LongAgo]
  /\ token     = [n \in Notifications |-> NoWorker]
  /\ retryable = [n \in Notifications |-> FALSE]
  /\ stage     = [w \in Workers |-> "idle"]
  /\ age       = [w \in Workers |-> 0]
  /\ batch     = [w \in Workers |-> {}]
  /\ outcome   = [w \in Workers |-> NoOutcome]
  /\ accepted  = {}
  /\ crashes   = 0

-----------------------------------------------------------------------------
(* Request handlers *)

\* enqueue: decided when the row is created - suppressed if the person muted
\* the category, otherwise due now or at the end of their quiet hours.  A key
\* that exists already is left alone (onConflictDoNothing).
Enqueue(n) ==
  /\ status[n] = "absent"
  /\ \/ status' = [status EXCEPT ![n] = "suppressed"] /\ due' = due
     \/ /\ status' = [status EXCEPT ![n] = "pending"]
        /\ \E delay \in {0, QuietDelay} : due' = [due EXCEPT ![n] = delay]
  /\ UNCHANGED <<attempts, lock, token, retryable, workerVars, accepted, crashes>>

\* cancelForSubject: every queued row of the subject, leased or not.  The
\* lease and the token stay as they are.
Cancel(S) ==
  /\ S # {} /\ \A n \in S : status[n] = "pending"
  /\ status' = [n \in Notifications |-> IF n \in S THEN "cancelled" ELSE status[n]]
  /\ UNCHANGED <<attempts, due, lock, token, retryable, workerVars, accepted, crashes>>

Requeue(S) ==
  /\ S # {} /\ \A n \in S : status[n] = "failed"
  /\ status'    = [n \in Notifications |-> IF n \in S THEN "pending" ELSE status[n]]
  /\ attempts'  = [n \in Notifications |-> IF n \in S THEN 0 ELSE attempts[n]]
  /\ due'       = [n \in Notifications |-> IF n \in S THEN 0 ELSE due[n]]
  /\ lock'      = [n \in Notifications |-> IF n \in S THEN LongAgo ELSE lock[n]]
  /\ token'     = [n \in Notifications |-> IF n \in S THEN NoWorker ELSE token[n]]
  /\ retryable' = [n \in Notifications |-> IF n \in S THEN FALSE ELSE retryable[n]]
  /\ UNCHANGED <<workerVars, accepted, crashes>>

\* retryFailedNotifications: all of last week's failures that may clear up.
RetryFailedNotifications == Requeue({n \in Notifications : retryable[n]})

\* retryFailed: one failed row, whatever the reason.
RetryFailed(n) == Requeue({n})

\* A failure becomes more than seven days old.
FailureAges(n) ==
  /\ retryable[n]
  /\ retryable' = [retryable EXCEPT ![n] = FALSE]
  /\ UNCHANGED <<status, attempts, due, lock, token, workerVars, accepted, crashes>>

-----------------------------------------------------------------------------
(* Workers *)

Leave(w, next, a) ==
  /\ stage'   = [stage EXCEPT ![w] = next]
  /\ age'     = [age EXCEPT ![w] = a]
  /\ batch'   = [batch EXCEPT ![w] = {}]
  /\ outcome' = [outcome EXCEPT ![w] = NoOutcome]

\* The tick ends, or goes on to another batch with the same now.
Stop(w)     == Leave(w, "idle", 0)
Continue(w) == Leave(w, "more", age[w])

\* runWorkerTick reads the clock once; the other steps of the tick come
\* before delivery, so time may pass before the first claim.
StartTick(w) ==
  /\ stage[w] = "idle"
  /\ stage' = [stage EXCEPT ![w] = "open"]
  /\ UNCHANGED <<rowVars, age, batch, outcome, accepted, crashes>>

\* Mutant: the lease is not looked at.
ClaimableLeased(w) == {n \in Notifications : status[n] = "pending" /\ due[n] <= -age[w]}

Claimable(w) ==
  {n \in Notifications : status[n] = "pending" /\ due[n] <= -age[w] /\ lock[n] <= -age[w]}

\* The first BatchSize claimable rows by scheduled_for.  A row skipped because
\* another transaction holds it is, here, a row that transaction changed first.
FirstOf(C) ==
  {B \in SUBSET C :
     /\ Cardinality(B) = IF Cardinality(C) < BatchSize THEN Cardinality(C) ELSE BatchSize
     /\ \A b \in B, c \in C \ B : due[b] <= due[c]}

\* claimDueNotifications, one transaction.
Claim(w) ==
  /\ stage[w] \in {"open", "more"}
  /\ \E B \in FirstOf(Claimable(w)) :
       /\ B # {} /\ \A n \in B : attempts[n] < ClaimCap
       /\ batch'    = [batch EXCEPT ![w] = B]
       /\ attempts' = [n \in Notifications |-> IF n \in B THEN attempts[n] + 1 ELSE attempts[n]]
       /\ lock'     = [n \in Notifications |-> IF n \in B THEN Lease - age[w] ELSE lock[n]]
       /\ token'    = [n \in Notifications |-> IF n \in B THEN w ELSE token[n]]
  /\ stage' = [stage EXCEPT ![w] = "sending"]
  /\ UNCHANGED <<status, due, retryable, age, outcome, accepted, crashes>>

\* The sender (defaultSender): in-app delivery always succeeds, sms and push
\* are not built, and the e-mail provider accepts a message, refuses it, or
\* fails in a way that may have let it through.
Send(w, n) ==
  /\ stage[w] = "sending" /\ n \in batch[w] /\ outcome[w][n] = Unknown
  /\ \E o \in Outcomes :
       /\ Channel[n] = "in_app" => o = "sent"
       /\ Channel[n] = "sms" => o = "permanent"
       /\ outcome' = [outcome EXCEPT ![w][n] = o]
       /\ \/ /\ Channel[n] = "email" /\ o # "permanent"
             /\ accepted' = accepted \union {n}
          \/ /\ Channel[n] # "email" \/ o # "sent"
             /\ accepted' = accepted
  /\ UNCHANGED <<rowVars, stage, age, batch, crashes>>

\* Mutants: the claim token, or the status, is not checked.
OwnedByAnybody(w)      == {n \in batch[w] : status[n] = "pending"}
OwnedWhateverStatus(w) == {n \in batch[w] : token[n] = w}

\* The rows a completion may write: still pending, still carrying its token.
\* An owned row's attempts are still what its claim returned: whatever changes
\* them - a later claim, a retry - replaces the token too.
Owned(w) == {n \in batch[w] : status[n] = "pending" /\ token[n] = w}

Exhausted(n) == attempts[n] >= MaxAttempts

SentBy(w)    == {n \in Owned(w) : outcome[w][n] = "sent"}
FailedBy(w)  == {n \in Owned(w) : outcome[w][n] = "permanent"
                                  \/ (outcome[w][n] = "transient" /\ Exhausted(n))}
RetriedBy(w) == {n \in Owned(w) : outcome[w][n] = "transient" /\ ~Exhausted(n)}

\* completeDelivery for the whole batch, one transaction.  An operator's retry
\* leaves out what failed for want of an address or of a channel, not what the
\* provider refused.  A full batch means there may be more to claim in this tick.
Complete(w) ==
  /\ stage[w] = "sending" /\ \A n \in batch[w] : outcome[w][n] # Unknown
  /\ status' = [n \in Notifications |-> IF n \in SentBy(w) THEN "sent"
                                        ELSE IF n \in FailedBy(w) THEN "failed" ELSE status[n]]
  /\ due' = [n \in Notifications |-> IF n \in RetriedBy(w) THEN Backoff[attempts[n]] - age[w]
                                     ELSE due[n]]
  /\ \E noAddress \in SUBSET {n \in FailedBy(w) : outcome[w][n] = "permanent"} :
       retryable' = [n \in Notifications |->
         IF n \in FailedBy(w) THEN Channel[n] = "email" /\ n \notin noAddress ELSE retryable[n]]
  /\ lock'  = [n \in Notifications |-> IF n \in Owned(w) THEN LongAgo ELSE lock[n]]
  /\ token' = [n \in Notifications |-> IF n \in Owned(w) THEN NoWorker ELSE token[n]]
  /\ IF Cardinality(batch[w]) < BatchSize THEN Stop(w) ELSE Continue(w)
  /\ UNCHANGED <<attempts, accepted, crashes>>

\* Nothing is due, or - after the first batch - the deadline or maxBatches.
EndTick(w) ==
  /\ \/ stage[w] = "open" /\ Claimable(w) = {}
     \/ stage[w] = "more"
  /\ Stop(w)
  /\ UNCHANGED <<rowVars, accepted, crashes>>

\* The process stops, is killed, or its step throws: everything it has not
\* committed is lost.
Crash(w) ==
  /\ stage[w] # "idle" /\ crashes < MaxCrashes
  /\ Stop(w)
  /\ crashes' = crashes + 1
  /\ UNCHANGED <<rowVars, accepted>>

Elapse ==
  /\ \A w \in Workers : stage[w] # "idle" => age[w] < TickSpan
  /\ due'  = [n \in Notifications |-> Earlier(due[n])]
  /\ lock' = [n \in Notifications |-> Earlier(lock[n])]
  /\ age'  = [w \in Workers |-> IF stage[w] = "idle" THEN age[w] ELSE age[w] + 1]
  /\ UNCHANGED <<status, attempts, token, retryable, stage, batch, outcome, accepted, crashes>>

Next ==
  \/ \E n \in Notifications : Enqueue(n) \/ RetryFailed(n) \/ FailureAges(n)
  \/ \E S \in SUBSET Notifications : Cancel(S)
  \/ RetryFailedNotifications
  \/ \E w \in Workers : StartTick(w) \/ Claim(w) \/ Complete(w) \/ EndTick(w) \/ Crash(w)
  \/ \E w \in Workers, n \in Notifications : Send(w, n)
  \/ Elapse

Spec == Init /\ [][Next]_vars

\* The loop (or the cron schedule) starts a tick again and again, a tick that
\* runs keeps going - the sender may be slow but it returns - and time passes.
\* Crashes, operators and enqueues owe nothing.
Fairness ==
  /\ \A w \in Workers :
       /\ WF_vars(StartTick(w)) /\ WF_vars(Claim(w)) /\ WF_vars(Complete(w)) /\ WF_vars(EndTick(w))
       /\ \A n \in Notifications : WF_vars(Send(w, n))
  /\ WF_vars(Elapse)

FairSpec == Spec /\ Fairness

-----------------------------------------------------------------------------
(* Properties *)

\* The type of every column and of the workers' local state (schema.ts).
TypeOK ==
  /\ status \in [Notifications -> Statuses]
  /\ attempts \in [Notifications -> Nat]
  /\ due \in [Notifications -> Int]
  /\ lock \in [Notifications -> Int]
  /\ token \in [Notifications -> Workers \union {NoWorker}]
  /\ retryable \in [Notifications -> BOOLEAN]
  /\ stage \in [Workers -> Stages]
  /\ age \in [Workers -> 0..TickSpan]
  /\ batch \in [Workers -> SUBSET Notifications]
  /\ outcome \in [Workers -> [Notifications -> Outcomes \union {Unknown}]]
  /\ accepted \in SUBSET Notifications
  /\ crashes \in Nat

\* "Concurrent workers take disjoint rows": no notification is in the hands of
\* two workers at once.  Holds when every tick is shorter than the lease.
DisjointBatches ==
  \A w, v \in Workers : w # v => batch[w] \intersect batch[v] = {}

\* A claim whose outcome is never recorded costs an attempt, and only a crash
\* leaves one: a row is claimed at most MaxAttempts times, plus the crashes.
AttemptsBounded ==
  \A n \in Notifications : attempts[n] <= MaxAttempts + crashes

\* A row says "sent" only if the provider took the message (or the channel is
\* the in-app bell), however completions, crashes and re-claims interleave.
SentWasAccepted ==
  \A n \in Notifications :
    status[n] = "sent" => (Channel[n] = "in_app" \/ (Channel[n] = "email" /\ n \in accepted))

\* A worker whose lease ran out and whose row another worker has claimed since
\* (its tick is the younger one) leaves that row alone when it completes late.
StaleHolderIsPowerless ==
  [][\A n \in Notifications, w, v \in Workers :
       ( /\ n \in batch[w] /\ n \in batch[v] /\ age[v] < age[w]
         /\ n \notin batch'[w] )
       => /\ status'[n] = status[n] /\ due'[n] = due[n]
          /\ lock'[n] = lock[n] /\ token'[n] = token[n]]_vars

\* What the application is promised (DeliveryPromise.tla): every queued
\* notification is settled exactly one way, through any number of crashes.
Promise == INSTANCE DeliveryPromise WITH state <- status, handed <- accepted
DeliveryPromised == Promise!Spec
=============================================================================
