------------------------- MODULE QueueAndPlannerProofs -------------------------
(***************************************************************************)
(* Proofs about NotificationQueue and, below, about Planner, for every     *)
(* value of their constants.  The two share no name and no lemma.          *)
(***************************************************************************)
EXTENDS MCNotificationQueue, Planner, FiniteSetTheorems, WellFoundedInduction, TLAPS

\* Retrying last week's failures requeues a set of rows.
LEMMA RetryAllIsRequeue ==
  RetryFailedNotifications => \E S \in SUBSET Notifications : Requeue(S)
<1>1. {n \in Notifications : retryable[n]} \in SUBSET Notifications
  OBVIOUS
<1>2. QED BY <1>1 DEF RetryFailedNotifications

\* Leaving a batch, by finishing, crashing or going on, keeps worker types.
LEMMA LeaveType ==
  ASSUME TypeOK, NEW w \in Workers, NEW next \in Stages, NEW a \in 0..TickSpan,
         Leave(w, next, a)
  PROVE  /\ stage' \in [Workers -> Stages]
         /\ age' \in [Workers -> 0..TickSpan]
         /\ batch' \in [Workers -> SUBSET Notifications]
         /\ outcome' \in [Workers -> [Notifications -> Outcomes \union {Unknown}]]
<1>1. NoOutcome \in [Notifications -> Outcomes \union {Unknown}]
  BY DEF NoOutcome
<1>2. QED BY <1>1 DEF Leave, TypeOK

LEMMA TypeStep == TypeOK /\ [Next]_vars => TypeOK'
<1> SUFFICES ASSUME TypeOK, [Next]_vars PROVE TypeOK'
  OBVIOUS
<1> USE TimesAssumption, BoundsAssumption, NamesAssumption DEF LongAgo
<1>u. CASE UNCHANGED vars
  BY <1>u DEF TypeOK, vars, rowVars, workerVars
<1>1. ASSUME NEW n \in Notifications, Enqueue(n) PROVE TypeOK'
  <2>1. CASE status' = [status EXCEPT ![n] = "suppressed"] /\ due' = due
    BY <1>1, <2>1 DEF TypeOK, Enqueue, workerVars, Statuses
  <2>2. ASSUME NEW delay \in {0, QuietDelay},
               status' = [status EXCEPT ![n] = "pending"], due' = [due EXCEPT ![n] = delay]
        PROVE  TypeOK'
    <3>1. delay \in Int
      OBVIOUS
    <3>2. QED BY <1>1, <2>2, <3>1 DEF TypeOK, Enqueue, workerVars, Statuses
  <2>3. QED BY <1>1, <2>1, <2>2 DEF Enqueue
<1>2. ASSUME NEW S \in SUBSET Notifications, Requeue(S) PROVE TypeOK'
  <2>1. retryable' \in [Notifications -> BOOLEAN]
    BY <1>2, Zenon DEF TypeOK, Requeue
  <2>2. status' \in [Notifications -> Statuses] /\ token' \in [Notifications -> Workers \union {NoWorker}]
    BY <1>2 DEF TypeOK, Requeue, Statuses
  <2>3. attempts' \in [Notifications -> Nat] /\ due' \in [Notifications -> Int] /\ lock' \in [Notifications -> Int]
    BY <1>2 DEF TypeOK, Requeue
  <2>4. QED BY <1>2, <2>1, <2>2, <2>3 DEF TypeOK, Requeue, workerVars
<1>3. ASSUME NEW n \in Notifications, FailureAges(n) PROVE TypeOK'
  BY <1>3 DEF TypeOK, FailureAges, workerVars
<1>4. ASSUME NEW S \in SUBSET Notifications, Cancel(S) PROVE TypeOK'
  BY <1>4 DEF TypeOK, Cancel, workerVars, Statuses
<1>5. ASSUME NEW w \in Workers, StartTick(w) PROVE TypeOK'
  BY <1>5 DEF TypeOK, StartTick, rowVars, Stages
<1>6. ASSUME NEW w \in Workers, Claim(w) PROVE TypeOK'
  <2>1. PICK B \in FirstOf(Claimable(w)) :
          /\ batch'    = [batch EXCEPT ![w] = B]
          /\ attempts' = [n \in Notifications |-> IF n \in B THEN attempts[n] + 1 ELSE attempts[n]]
          /\ lock'     = [n \in Notifications |-> IF n \in B THEN Lease - age[w] ELSE lock[n]]
          /\ token'    = [n \in Notifications |-> IF n \in B THEN w ELSE token[n]]
    BY <1>6 DEF Claim
  <2>2. B \in SUBSET Notifications
    BY <2>1 DEF FirstOf, Claimable
  <2>3. age[w] \in Int
    BY DEF TypeOK
  <2>4. /\ attempts' \in [Notifications -> Nat] /\ lock' \in [Notifications -> Int]
    BY <2>1, <2>3 DEF TypeOK
  <2>5. token' \in [Notifications -> Workers \union {NoWorker}]
    BY <2>1 DEF TypeOK
  <2>6. stage' \in [Workers -> Stages] /\ batch' \in [Workers -> SUBSET Notifications]
    BY <1>6, <2>1, <2>2 DEF TypeOK, Claim, Stages
  <2>7. UNCHANGED <<status, due, retryable, age, outcome, accepted, crashes>>
    BY <1>6 DEF Claim
  <2>8. QED BY <2>4, <2>5, <2>6, <2>7 DEF TypeOK
<1>7. ASSUME NEW w \in Workers, NEW n \in Notifications, Send(w, n) PROVE TypeOK'
  BY <1>7 DEF TypeOK, Send, rowVars
<1>8. ASSUME NEW w \in Workers, Complete(w) PROVE TypeOK'
  <2>1. age[w] \in 0..TickSpan /\ age[w] \in Int
    BY DEF TypeOK
  <2>2. Stop(w) \/ Continue(w)
    BY <1>8 DEF Complete
  <2>3. /\ stage' \in [Workers -> Stages]
        /\ age' \in [Workers -> 0..TickSpan]
        /\ batch' \in [Workers -> SUBSET Notifications]
        /\ outcome' \in [Workers -> [Notifications -> Outcomes \union {Unknown}]]
    BY <2>1, <2>2, LeaveType DEF Stop, Continue, Stages
  <2>4. \A n \in RetriedBy(w) : Backoff[attempts[n]] - age[w] \in Int
    <3>1. SUFFICES ASSUME NEW n \in RetriedBy(w) PROVE Backoff[attempts[n]] \in Nat
      BY <2>1
    <3>2. n \in Notifications /\ attempts[n] < MaxAttempts /\ attempts[n] \in Nat
      BY DEF RetriedBy, Owned, Exhausted, TypeOK
    <3>3. QED BY <3>2
  <2>5. status' \in [Notifications -> Statuses]
    BY <1>8 DEF Complete, TypeOK, Statuses
  <2>6. due' \in [Notifications -> Int] /\ lock' \in [Notifications -> Int]
    BY <1>8, <2>4 DEF Complete, TypeOK
  <2>7. retryable' \in [Notifications -> BOOLEAN]
    <3>1. \A n \in Notifications : retryable'[n] \in BOOLEAN
      BY <1>8 DEF Complete, TypeOK
    <3>2. QED BY <1>8, <3>1 DEF Complete
  <2>8. QED BY <1>8, <2>3, <2>5, <2>6, <2>7 DEF Complete, TypeOK
<1>9. ASSUME NEW w \in Workers, EndTick(w) PROVE TypeOK'
  <2>1. /\ stage' \in [Workers -> Stages]
        /\ age' \in [Workers -> 0..TickSpan]
        /\ batch' \in [Workers -> SUBSET Notifications]
        /\ outcome' \in [Workers -> [Notifications -> Outcomes \union {Unknown}]]
    BY <1>9, LeaveType DEF EndTick, Stop, Stages
  <2>2. QED BY <1>9, <2>1 DEF EndTick, TypeOK, rowVars
<1>10. ASSUME NEW w \in Workers, Crash(w) PROVE TypeOK'
  <2>1. /\ stage' \in [Workers -> Stages]
        /\ age' \in [Workers -> 0..TickSpan]
        /\ batch' \in [Workers -> SUBSET Notifications]
        /\ outcome' \in [Workers -> [Notifications -> Outcomes \union {Unknown}]]
    BY <1>10, LeaveType DEF Crash, Stop, Stages
  <2>2. QED BY <1>10, <2>1 DEF Crash, TypeOK, rowVars
<1>11. ASSUME Elapse PROVE TypeOK'
  BY <1>11 DEF TypeOK, Elapse, Earlier
<1>12. QED
  BY <1>u, <1>1, <1>2, <1>3, <1>4, <1>5, <1>6, <1>7, <1>8, <1>9, <1>10, <1>11, RetryAllIsRequeue
     DEF Next, RetryFailed

\* TypeOK is an invariant: no interleaving of handlers and workers, stale or
\* not, puts a row or a worker outside its type.
THEOREM TypeCorrect == Spec => []TypeOK
<1>1. Init => TypeOK
  BY TimesAssumption DEF Init, TypeOK, LongAgo, NoOutcome, Statuses, Stages
<1>2. QED BY <1>1, TypeStep, PTL DEF Spec

-----------------------------------------------------------------------------
(* What a worker knows about a row it holds, whatever the length of a tick. *)

\* Only a worker that is sending holds rows, and only rows that were queued.
SendersHoldRows ==
  \A w \in Workers : \A n \in batch[w] :
    stage[w] = "sending" /\ status[n] \notin {"absent", "suppressed"}

LEMMA SendersStep == TypeOK /\ SendersHoldRows /\ [Next]_vars => SendersHoldRows'
<1> SUFFICES ASSUME TypeOK, SendersHoldRows, [Next]_vars PROVE SendersHoldRows'
  OBVIOUS
<1> USE DEF SendersHoldRows
<1>u. CASE UNCHANGED vars
  BY <1>u DEF vars, rowVars, workerVars
<1>1. ASSUME NEW n \in Notifications, Enqueue(n) PROVE SendersHoldRows'
  BY <1>1 DEF TypeOK, Enqueue, workerVars
<1>2. ASSUME NEW S \in SUBSET Notifications, Requeue(S) PROVE SendersHoldRows'
  BY <1>2 DEF TypeOK, Requeue, workerVars
<1>3. ASSUME NEW n \in Notifications, FailureAges(n) PROVE SendersHoldRows'
  BY <1>3 DEF FailureAges, workerVars
<1>4. ASSUME NEW S \in SUBSET Notifications, Cancel(S) PROVE SendersHoldRows'
  BY <1>4 DEF TypeOK, Cancel, workerVars
<1>5. ASSUME NEW w \in Workers, StartTick(w) PROVE SendersHoldRows'
  BY <1>5 DEF TypeOK, StartTick, rowVars
<1>6. ASSUME NEW w \in Workers, Claim(w) PROVE SendersHoldRows'
  BY <1>6 DEF TypeOK, Claim, FirstOf, Claimable
<1>7. ASSUME NEW w \in Workers, NEW n \in Notifications, Send(w, n) PROVE SendersHoldRows'
  BY <1>7 DEF Send, rowVars
<1>8. ASSUME NEW w \in Workers, Complete(w) PROVE SendersHoldRows'
  <2>1. /\ batch' = [batch EXCEPT ![w] = {}]
        /\ \A v \in Workers \ {w} : stage'[v] = stage[v]
    BY <1>8 DEF Complete, Stop, Continue, Leave, TypeOK
  <2>2. \A n \in Notifications : status'[n] \in {status[n], "sent", "failed"}
    BY <1>8 DEF Complete
  <2>3. QED BY <2>1, <2>2 DEF TypeOK
<1>9. ASSUME NEW w \in Workers, EndTick(w) PROVE SendersHoldRows'
  BY <1>9 DEF TypeOK, EndTick, Stop, Leave, rowVars
<1>10. ASSUME NEW w \in Workers, Crash(w) PROVE SendersHoldRows'
  BY <1>10 DEF TypeOK, Crash, Stop, Leave, rowVars
<1>11. ASSUME Elapse PROVE SendersHoldRows'
  BY <1>11 DEF Elapse
<1>12. QED
  BY <1>u, <1>1, <1>2, <1>3, <1>4, <1>5, <1>6, <1>7, <1>8, <1>9, <1>10, <1>11, RetryAllIsRequeue
     DEF Next, RetryFailed

\* Until a pending row's claim or its schedule says otherwise, nobody whose
\* tick began before the holder's can claim it again.
HeldRowIsBarred ==
  \A v \in Workers : \A n \in batch[v] :
    status[n] = "pending" => lock[n] >= -age[v] \/ due[n] >= -age[v]

\* Of two workers holding a row, the one whose token it carries began its tick
\* no earlier than the other.
TokenIsYoungest ==
  \A w, v \in Workers : \A n \in batch[w] \intersect batch[v] :
    status[n] = "pending" /\ token[n] = w => age[w] <= age[v]

HolderInv == SendersHoldRows /\ HeldRowIsBarred /\ TokenIsYoungest

LEMMA HolderStep == TypeOK /\ HolderInv /\ [Next]_vars => HolderInv'
<1> SUFFICES ASSUME TypeOK, HolderInv, [Next]_vars PROVE HolderInv'
  OBVIOUS
<1> USE TimesAssumption, BoundsAssumption, NamesAssumption DEF LongAgo, HolderInv
<1>t. SendersHoldRows'
  BY SendersStep
<1>u. CASE UNCHANGED vars
  BY <1>u, <1>t DEF HeldRowIsBarred, TokenIsYoungest, vars, rowVars, workerVars
<1>1. ASSUME NEW n \in Notifications, Enqueue(n) PROVE HolderInv'
  <2>1. \A v \in Workers : n \notin batch[v]
    BY <1>1 DEF SendersHoldRows, Enqueue
  <2>2. \A m \in Notifications \ {n} : status'[m] = status[m] /\ due'[m] = due[m]
    BY <1>1 DEF Enqueue, TypeOK
  <2>3. \A v \in Workers : batch[v] \in SUBSET (Notifications \ {n})
    BY <2>1 DEF TypeOK
  <2>4. UNCHANGED <<lock, token, age, batch>>
    BY <1>1 DEF Enqueue, workerVars
  <2>5. HeldRowIsBarred'
    BY <2>2, <2>3, <2>4 DEF HeldRowIsBarred
  <2>6. TokenIsYoungest'
    BY <2>2, <2>3, <2>4 DEF TokenIsYoungest
  <2>7. QED BY <1>t, <2>5, <2>6
<1>2. ASSUME NEW S \in SUBSET Notifications, Requeue(S) PROVE HolderInv'
  <2>1. \A m \in S : due'[m] = 0 /\ token'[m] = NoWorker
    BY <1>2 DEF Requeue
  <2>2. \A m \in Notifications \ S : /\ status'[m] = status[m] /\ due'[m] = due[m]
                                    /\ lock'[m] = lock[m] /\ token'[m] = token[m]
    BY <1>2 DEF Requeue
  <2>3. \A v \in Workers : age[v] \in Nat /\ batch[v] \in SUBSET Notifications
    BY DEF TypeOK
  <2>4. batch' = batch /\ age' = age
    BY <1>2 DEF Requeue, workerVars
  <2>5. HeldRowIsBarred'
    BY <2>1, <2>2, <2>3, <2>4 DEF HeldRowIsBarred
  <2>6. TokenIsYoungest'
    BY <2>1, <2>2, <2>3, <2>4 DEF TokenIsYoungest
  <2>7. QED BY <1>t, <2>5, <2>6
<1>3. ASSUME NEW n \in Notifications, FailureAges(n) PROVE HolderInv'
  BY <1>3, <1>t DEF HeldRowIsBarred, TokenIsYoungest, FailureAges, workerVars
<1>4. ASSUME NEW S \in SUBSET Notifications, Cancel(S) PROVE HolderInv'
  BY <1>4, <1>t DEF HeldRowIsBarred, TokenIsYoungest, TypeOK, Cancel, workerVars
<1>5. ASSUME NEW w \in Workers, StartTick(w) PROVE HolderInv'
  BY <1>5, <1>t DEF HeldRowIsBarred, TokenIsYoungest, TypeOK, StartTick, rowVars
<1>6. ASSUME NEW w \in Workers, Claim(w) PROVE HolderInv'
  <2>1. PICK B \in FirstOf(Claimable(w)) :
          /\ batch'    = [batch EXCEPT ![w] = B]
          /\ lock'     = [n \in Notifications |-> IF n \in B THEN Lease - age[w] ELSE lock[n]]
          /\ token'    = [n \in Notifications |-> IF n \in B THEN w ELSE token[n]]
    BY <1>6 DEF Claim
  <2>2. \A n \in B : /\ n \in Notifications /\ status[n] = "pending"
                     /\ due[n] <= -age[w] /\ lock[n] <= -age[w]
    BY <2>1 DEF FirstOf, Claimable
  <2>3. UNCHANGED <<status, due, age>>
    BY <1>6 DEF Claim
  <2>4. \A v \in Workers : age[v] \in Nat /\ batch[v] \in SUBSET Notifications
    BY DEF TypeOK
  <2>5. \A v \in Workers : \A n \in batch[v] : n \in B => age[w] <= age[v]
    <3> SUFFICES ASSUME NEW v \in Workers, NEW n \in batch[v], n \in B PROVE age[w] <= age[v]
      OBVIOUS
    <3>1. due[n] \in Int /\ lock[n] \in Int
      BY <2>2 DEF TypeOK
    <3>2. lock[n] >= -age[v] \/ due[n] >= -age[v]
      BY <2>2 DEF HeldRowIsBarred
    <3>3. QED BY <2>2, <2>4, <3>1, <3>2
  <2>6. HeldRowIsBarred'
    <3> SUFFICES ASSUME NEW v \in Workers, NEW n \in batch'[v], status[n] = "pending"
                 PROVE  lock'[n] >= -age[v] \/ due[n] >= -age[v]
      BY <2>3 DEF HeldRowIsBarred
    <3>1. n \in Notifications /\ due[n] \in Int /\ lock[n] \in Int
      BY <2>1, <2>2, <2>4 DEF TypeOK
    <3>2. CASE n \in B
      BY <2>1, <2>4, <2>5, <3>1, <3>2 DEF TypeOK
    <3>3. CASE n \notin B
      BY <2>1, <3>1, <3>3 DEF HeldRowIsBarred, TypeOK
    <3>4. QED BY <3>2, <3>3
  <2>7. TokenIsYoungest'
    BY <2>1, <2>2, <2>3, <2>4, <2>5 DEF TokenIsYoungest, TypeOK
  <2>8. QED BY <1>t, <2>6, <2>7
<1>7. ASSUME NEW w \in Workers, NEW n \in Notifications, Send(w, n) PROVE HolderInv'
  BY <1>7, <1>t DEF HeldRowIsBarred, TokenIsYoungest, Send, rowVars
<1>8. ASSUME NEW w \in Workers, Complete(w) PROVE HolderInv'
  <2>1. /\ batch' = [batch EXCEPT ![w] = {}]
        /\ \A v \in Workers \ {w} : age'[v] = age[v]
    BY <1>8 DEF Complete, Stop, Continue, Leave, TypeOK
  <2>2. \A v \in Workers : age[v] \in Nat /\ batch[v] \in SUBSET Notifications
    BY DEF TypeOK
  <2>3. \A n \in Notifications : status'[n] = "pending" => status[n] = "pending"
    BY <1>8 DEF Complete
  <2>4. HeldRowIsBarred'
    <3> SUFFICES ASSUME NEW v \in Workers, NEW n \in batch'[v], status'[n] = "pending"
                 PROVE  lock'[n] >= -age'[v] \/ due'[n] >= -age'[v]
      BY DEF HeldRowIsBarred
    <3>1. v # w /\ n \in batch[v] /\ n \in Notifications /\ age'[v] = age[v]
      BY <2>1, <2>2 DEF TypeOK
    <3>2. status[n] = "pending"
      BY <2>3, <3>1
    <3>3. CASE n \notin Owned(w)
      <4>1. lock'[n] = lock[n] /\ due'[n] = due[n]
        BY <1>8, <3>1, <3>3 DEF Complete, RetriedBy
      <4>2. QED BY <4>1, <3>1, <3>2 DEF HeldRowIsBarred
    <3>4. CASE n \in Owned(w)
      <4>1. age[w] <= age[v]
        BY <3>1, <3>2, <3>4 DEF TokenIsYoungest, Owned
      <4>2. n \in RetriedBy(w)
        BY <1>8, <3>1, <3>4 DEF Complete, RetriedBy, SentBy, FailedBy, Owned, TypeOK, Outcomes
      <4>3. attempts[n] \in 0..MaxAttempts
        BY <4>2, <3>1 DEF RetriedBy, Exhausted, TypeOK
      <4>4. due'[n] = Backoff[attempts[n]] - age[w] /\ Backoff[attempts[n]] \in Nat
        BY <1>8, <3>1, <4>2, <4>3 DEF Complete
      <4>5. due'[n] >= -age'[v]
        BY <4>1, <4>4, <3>1, <2>2
      <4>6. QED BY <4>5
    <3>5. QED BY <3>3, <3>4
  <2>5. TokenIsYoungest'
    <3> SUFFICES ASSUME NEW x \in Workers, NEW v \in Workers, NEW n \in batch'[x] \intersect batch'[v],
                        status'[n] = "pending", token'[n] = x
                 PROVE  age'[x] <= age'[v]
      BY DEF TokenIsYoungest
    <3>1. x # w /\ v # w /\ n \in batch[x] \intersect batch[v] /\ n \in Notifications
      BY <2>1, <2>2 DEF TypeOK
    <3>2. status[n] = "pending" /\ token[n] = x
      BY <1>8, <2>3, <3>1 DEF Complete
    <3>3. QED BY <2>1, <3>1, <3>2 DEF TokenIsYoungest
  <2>6. QED BY <1>t, <2>4, <2>5
<1>9. ASSUME NEW w \in Workers, EndTick(w) PROVE HolderInv'
  BY <1>9, <1>t DEF HeldRowIsBarred, TokenIsYoungest, EndTick, Stop, Leave, TypeOK, rowVars
<1>10. ASSUME NEW w \in Workers, Crash(w) PROVE HolderInv'
  BY <1>10, <1>t DEF HeldRowIsBarred, TokenIsYoungest, Crash, Stop, Leave, TypeOK, rowVars
<1>11. ASSUME Elapse PROVE HolderInv'
  <2>1. \A v \in Workers : \A n \in batch[v] : /\ n \in Notifications
                                               /\ age'[v] = age[v] + 1 /\ age[v] < TickSpan
    BY <1>11 DEF SendersHoldRows, TypeOK, Elapse
  <2>2. \A v \in Workers : age[v] \in Nat
    BY DEF TypeOK
  <2>3. \A n \in Notifications : /\ due[n] \in Int /\ lock[n] \in Int
                                 /\ due'[n] = Earlier(due[n]) /\ lock'[n] = Earlier(lock[n])
    BY <1>11 DEF TypeOK, Elapse
  <2>4. HeldRowIsBarred'
    <3> SUFFICES ASSUME NEW v \in Workers, NEW n \in batch[v], status[n] = "pending"
                 PROVE  lock'[n] >= -age'[v] \/ due'[n] >= -age'[v]
      BY <1>11 DEF HeldRowIsBarred, Elapse
    <3>1. lock[n] >= -age[v] \/ due[n] >= -age[v]
      BY DEF HeldRowIsBarred
    <3>2. age[v] \in Nat /\ age'[v] = age[v] + 1 /\ age[v] < TickSpan
      BY <2>1, <2>2
    <3>3. n \in Notifications
      BY <2>1
    <3>4. CASE lock[n] >= -age[v]
      <4>1. lock[n] \in Int /\ lock'[n] = Earlier(lock[n])
        BY <2>3, <3>3
      <4>2. lock'[n] >= -age'[v]
        BY SMTT(60), <3>2, <3>4, <4>1 DEF Earlier
      <4>3. QED BY <4>2
    <3>5. CASE due[n] >= -age[v]
      <4>1. due[n] \in Int /\ due'[n] = Earlier(due[n])
        BY <2>3, <3>3
      <4>2. due'[n] >= -age'[v]
        BY SMTT(60), <3>2, <3>5, <4>1 DEF Earlier
      <4>3. QED BY <4>2
    <3>6. QED BY <3>1, <3>4, <3>5
  <2>5. TokenIsYoungest'
    BY <1>11, <2>1, <2>2 DEF TokenIsYoungest, Elapse
  <2>6. QED BY <1>t, <2>4, <2>5
<1>12. QED
  BY <1>u, <1>1, <1>2, <1>3, <1>4, <1>5, <1>6, <1>7, <1>8, <1>9, <1>10, <1>11, RetryAllIsRequeue
     DEF Next, RetryFailed

THEOREM HolderInvariant == Spec => []HolderInv
<1>1. Init => HolderInv
  BY DEF Init, HolderInv, SendersHoldRows, HeldRowIsBarred, TokenIsYoungest
<1>2. QED BY <1>1, HolderStep, TypeCorrect, PTL DEF Spec

\* StaleHolderIsPowerless, for ticks of any length: the late completion of a
\* worker whose row was re-claimed writes nothing to that row.
THEOREM StaleHolder == Spec => StaleHolderIsPowerless
<1> DEFINE A == \A n \in Notifications, w, v \in Workers :
       ( /\ n \in batch[w] /\ n \in batch[v] /\ age[v] < age[w]
         /\ n \notin batch'[w] )
       => /\ status'[n] = status[n] /\ due'[n] = due[n]
          /\ lock'[n] = lock[n] /\ token'[n] = token[n]
<1>1. TypeOK /\ HolderInv /\ [Next]_vars => [A]_vars
  <2> SUFFICES ASSUME TypeOK, HolderInv, Next,
                      NEW n \in Notifications, NEW w \in Workers, NEW v \in Workers,
                      n \in batch[w], n \in batch[v], age[v] < age[w], n \notin batch'[w]
               PROVE  /\ status'[n] = status[n] /\ due'[n] = due[n]
                      /\ lock'[n] = lock[n] /\ token'[n] = token[n]
    OBVIOUS
  <2> DEFINE Same == /\ status'[n] = status[n] /\ due'[n] = due[n]
                     /\ lock'[n] = lock[n] /\ token'[n] = token[n]
  <2>1. stage[w] = "sending"
    BY DEF HolderInv, SendersHoldRows
  <2>2. n \notin Owned(w)
    BY DEF HolderInv, TokenIsYoungest, Owned, TypeOK
  <2>3. CASE Complete(w)
    BY <2>2, <2>3 DEF Complete, SentBy, FailedBy, RetriedBy
  <2>4. CASE Crash(w)
    BY <2>4 DEF Crash, rowVars
  <2>5. Complete(w) \/ Crash(w)
    <3>1. ASSUME batch' = batch PROVE FALSE
      BY <3>1
    <3>2. \A m \in Notifications : ~Enqueue(m) /\ ~FailureAges(m)
      BY <3>1 DEF Enqueue, FailureAges, workerVars
    <3>3. \A S \in SUBSET Notifications : ~Requeue(S) /\ ~Cancel(S)
      BY <3>1 DEF Requeue, Cancel, workerVars
    <3>4. \A x \in Workers : ~StartTick(x) /\ \A m \in Notifications : ~Send(x, m)
      BY <3>1 DEF StartTick, Send
    <3>5. ~Elapse
      BY <3>1 DEF Elapse
    <3>6. \A x \in Workers \ {w} : ~Claim(x) /\ ~Complete(x) /\ ~EndTick(x) /\ ~Crash(x)
      <4> SUFFICES ASSUME NEW x \in Workers \ {w}, Claim(x) \/ Complete(x) \/ EndTick(x) \/ Crash(x)
                   PROVE  batch'[w] = batch[w]
        OBVIOUS
      <4>1. QED BY DEF Claim, Complete, EndTick, Crash, Stop, Continue, Leave, TypeOK
    <3>7. ~Claim(w) /\ ~EndTick(w)
      BY <2>1 DEF Claim, EndTick
    <3>8. QED BY <3>2, <3>3, <3>4, <3>5, <3>6, <3>7, RetryAllIsRequeue DEF Next, RetryFailed
  <2>6. QED BY <2>3, <2>4, <2>5
<1>2. QED BY <1>1, TypeCorrect, HolderInvariant, PTL DEF Spec, StaleHolderIsPowerless

-----------------------------------------------------------------------------
(* Ticks shorter than the lease: the scheduled endpoint. *)

\* A row in a worker's hands is queued, under that worker's running lease, or
\* has been cancelled since.
HeldRowIsLeased ==
  \A w \in Workers : \A n \in batch[w] :
    /\ status[n] \in {"pending", "cancelled"}
    /\ status[n] = "pending" => token[n] = w /\ lock[n] = Lease - age[w]

\* A pending row nobody holds has an attempt left, or a crash to show for it.
FreeRowHasAttempts ==
  \A n \in Notifications :
    (status[n] \in {"absent", "pending"} /\ \A w \in Workers : n \notin batch[w])
      => attempts[n] < MaxAttempts + crashes

CronInv == /\ SendersHoldRows /\ DisjointBatches /\ HeldRowIsLeased
           /\ AttemptsBounded /\ FreeRowHasAttempts

LEMMA CronStep ==
  ASSUME TickSpan < Lease PROVE TypeOK /\ CronInv /\ [Next]_vars => CronInv'
<1> SUFFICES ASSUME TypeOK, CronInv, [Next]_vars PROVE CronInv'
  OBVIOUS
<1> USE TimesAssumption, BoundsAssumption, NamesAssumption DEF LongAgo, CronInv
<1>t. SendersHoldRows' /\ TypeOK'
  BY SendersStep, TypeStep
<1>a. /\ \A v \in Workers : age[v] \in Nat /\ age[v] <= TickSpan
                            /\ batch[v] \in SUBSET Notifications
      /\ \A n \in Notifications : attempts[n] \in Nat
      /\ crashes \in Nat
  BY DEF TypeOK
<1>u. CASE UNCHANGED vars
  BY <1>u, <1>t DEF vars, rowVars, workerVars, DisjointBatches, HeldRowIsLeased,
                    AttemptsBounded, FreeRowHasAttempts
<1>1. ASSUME NEW n \in Notifications, Enqueue(n) PROVE CronInv'
  <2>1. status[n] = "absent" /\ \A v \in Workers : n \notin batch[v]
    BY <1>1 DEF SendersHoldRows, Enqueue
  <2>2. \A m \in Notifications \ {n} : status'[m] = status[m]
    BY <1>1 DEF Enqueue, TypeOK
  <2>3. UNCHANGED <<attempts, lock, token, age, batch, crashes>>
    BY <1>1 DEF Enqueue, workerVars
  <2>4. HeldRowIsLeased'
    BY <1>a, <2>1, <2>2, <2>3 DEF HeldRowIsLeased
  <2>5. DisjointBatches' /\ AttemptsBounded'
    BY <2>3 DEF DisjointBatches, AttemptsBounded
  <2>6. FreeRowHasAttempts'
    BY <2>1, <2>2, <2>3 DEF FreeRowHasAttempts
  <2>7. QED BY <1>t, <2>4, <2>5, <2>6
<1>2. ASSUME NEW S \in SUBSET Notifications, Requeue(S) PROVE CronInv'
  <2>1. UNCHANGED <<age, batch, crashes>>
    BY <1>2 DEF Requeue, workerVars
  <2>2. \A m \in S : status[m] = "failed" /\ attempts'[m] = 0
    BY <1>2 DEF Requeue
  <2>3. \A m \in Notifications \ S : /\ status'[m] = status[m] /\ attempts'[m] = attempts[m]
                                    /\ lock'[m] = lock[m] /\ token'[m] = token[m]
    BY <1>2 DEF Requeue
  <2>4. \A v \in Workers : batch[v] \intersect S = {}
    BY <2>2 DEF HeldRowIsLeased
  <2>5. DisjointBatches'
    BY <2>1 DEF DisjointBatches
  <2>6. HeldRowIsLeased'
    BY <1>a, <2>1, <2>3, <2>4 DEF HeldRowIsLeased
  <2>7. AttemptsBounded'
    BY <1>a, <2>1, <2>2, <2>3 DEF AttemptsBounded
  <2>8. FreeRowHasAttempts'
    BY <1>a, <2>1, <2>2, <2>3 DEF FreeRowHasAttempts
  <2>9. QED BY <1>t, <2>5, <2>6, <2>7, <2>8
<1>3. ASSUME NEW n \in Notifications, FailureAges(n) PROVE CronInv'
  BY <1>3, <1>t DEF FailureAges, workerVars, DisjointBatches, HeldRowIsLeased,
                    AttemptsBounded, FreeRowHasAttempts
<1>4. ASSUME NEW S \in SUBSET Notifications, Cancel(S) PROVE CronInv'
  <2>1. UNCHANGED <<attempts, lock, token, age, batch, crashes>>
    BY <1>4 DEF Cancel, workerVars
  <2>2. \A m \in Notifications : status'[m] = IF m \in S THEN "cancelled" ELSE status[m]
    BY <1>4 DEF Cancel
  <2>3. HeldRowIsLeased'
    BY <1>a, <2>1, <2>2 DEF HeldRowIsLeased
  <2>4. FreeRowHasAttempts'
    BY <2>1, <2>2 DEF FreeRowHasAttempts
  <2>5. QED BY <1>t, <2>1, <2>3, <2>4 DEF DisjointBatches, AttemptsBounded
<1>5. ASSUME NEW w \in Workers, StartTick(w) PROVE CronInv'
  BY <1>5, <1>t DEF StartTick, rowVars, DisjointBatches, HeldRowIsLeased,
                    AttemptsBounded, FreeRowHasAttempts
<1>6. ASSUME NEW w \in Workers, Claim(w) PROVE CronInv'
  <2>1. PICK B \in FirstOf(Claimable(w)) :
          /\ batch'    = [batch EXCEPT ![w] = B]
          /\ attempts' = [n \in Notifications |-> IF n \in B THEN attempts[n] + 1 ELSE attempts[n]]
          /\ lock'     = [n \in Notifications |-> IF n \in B THEN Lease - age[w] ELSE lock[n]]
          /\ token'    = [n \in Notifications |-> IF n \in B THEN w ELSE token[n]]
    BY <1>6 DEF Claim
  <2>2. \A n \in B : n \in Notifications /\ status[n] = "pending" /\ lock[n] <= -age[w]
    BY <2>1 DEF FirstOf, Claimable
  <2>3. UNCHANGED <<status, age, crashes>>
    BY <1>6 DEF Claim
  <2>4. batch[w] = {}
    BY <1>6, <1>a DEF Claim, SendersHoldRows
  <2>5. \A v \in Workers : \A n \in batch[v] : n \notin B
    <3> SUFFICES ASSUME NEW v \in Workers, NEW n \in batch[v], n \in B PROVE FALSE
      OBVIOUS
    <3>1. lock[n] = Lease - age[v] /\ lock[n] <= -age[w]
      BY <2>2 DEF HeldRowIsLeased
    <3>2. QED BY <3>1, <1>a
  <2>6. DisjointBatches'
    BY <1>a, <2>1, <2>5 DEF DisjointBatches, TypeOK
  <2>7. HeldRowIsLeased'
    <3> SUFFICES ASSUME NEW v \in Workers, NEW n \in batch'[v]
                 PROVE  /\ status[n] \in {"pending", "cancelled"}
                        /\ status[n] = "pending" => token'[n] = v /\ lock'[n] = Lease - age[v]
      BY <2>3 DEF HeldRowIsLeased
    <3>1. CASE v = w
      BY <2>1, <2>2, <3>1 DEF TypeOK
    <3>2. CASE v # w
      <4>1. n \in batch[v] /\ n \in Notifications /\ n \notin B
        BY <1>a, <2>1, <2>5, <3>2 DEF TypeOK
      <4>2. QED BY <2>1, <4>1 DEF HeldRowIsLeased
    <3>3. QED BY <3>1, <3>2
  <2>8. AttemptsBounded'
    <3>1. \A n \in B : attempts[n] < MaxAttempts + crashes
      BY <2>2, <2>5 DEF FreeRowHasAttempts
    <3>2. QED BY <1>a, <2>1, <2>3, <3>1 DEF AttemptsBounded
  <2>9. FreeRowHasAttempts'
    <3> SUFFICES ASSUME NEW n \in Notifications, status[n] \in {"absent", "pending"},
                        \A v \in Workers : n \notin batch'[v]
                 PROVE  attempts'[n] < MaxAttempts + crashes
      BY <2>3 DEF FreeRowHasAttempts
    <3>1. n \notin B /\ \A v \in Workers : n \notin batch[v]
      BY <2>1, <2>4 DEF TypeOK
    <3>2. QED BY <2>1, <3>1 DEF FreeRowHasAttempts
  <2>10. QED BY <1>t, <2>6, <2>7, <2>8, <2>9
<1>7. ASSUME NEW w \in Workers, NEW n \in Notifications, Send(w, n) PROVE CronInv'
  BY <1>7, <1>t DEF Send, rowVars, DisjointBatches, HeldRowIsLeased,
                    AttemptsBounded, FreeRowHasAttempts
<1>8. ASSUME NEW w \in Workers, Complete(w) PROVE CronInv'
  <2>1. /\ batch' = [batch EXCEPT ![w] = {}]
        /\ \A v \in Workers \ {w} : age'[v] = age[v]
    BY <1>8 DEF Complete, Stop, Continue, Leave, TypeOK
  <2>2. UNCHANGED <<attempts, crashes>>
    BY <1>8 DEF Complete
  <2>3. \A n \in Notifications \ batch[w] :
          status'[n] = status[n] /\ token'[n] = token[n] /\ lock'[n] = lock[n]
    BY <1>8 DEF Complete, SentBy, FailedBy, Owned
  <2>4. DisjointBatches'
    BY <2>1 DEF DisjointBatches, TypeOK
  <2>5. HeldRowIsLeased'
    <3> SUFFICES ASSUME NEW v \in Workers, NEW n \in batch'[v]
                 PROVE  /\ status'[n] \in {"pending", "cancelled"}
                        /\ status'[n] = "pending" => token'[n] = v /\ lock'[n] = Lease - age'[v]
      BY DEF HeldRowIsLeased
    <3>1. v # w /\ n \in batch[v] /\ n \in Notifications /\ n \notin batch[w]
      BY <1>a, <2>1 DEF TypeOK, DisjointBatches
    <3>2. QED BY <2>1, <2>3, <3>1 DEF HeldRowIsLeased
  <2>6. AttemptsBounded'
    BY <2>2 DEF AttemptsBounded
  <2>7. FreeRowHasAttempts'
    <3> SUFFICES ASSUME NEW n \in Notifications, status'[n] \in {"absent", "pending"},
                        \A v \in Workers : n \notin batch'[v]
                 PROVE  attempts[n] < MaxAttempts + crashes
      BY <2>2 DEF FreeRowHasAttempts
    <3>1. CASE n \notin batch[w]
      <4>1. \A v \in Workers : n \notin batch[v]
        BY <2>1, <3>1 DEF TypeOK
      <4>2. QED BY <2>3, <3>1, <4>1 DEF FreeRowHasAttempts
    <3>2. CASE n \in batch[w]
      <4>1. status[n] = "pending" /\ n \in Owned(w) /\ n \notin SentBy(w) /\ n \notin FailedBy(w)
        BY <1>8, <3>2 DEF Complete, HeldRowIsLeased, Owned
      <4>2. outcome[w][n] = "transient" /\ ~Exhausted(n)
        BY <1>8, <3>2, <4>1 DEF Complete, SentBy, FailedBy, TypeOK, Outcomes
      <4>3. QED BY <1>a, <4>2 DEF Exhausted
    <3>3. QED BY <3>1, <3>2
  <2>8. QED BY <1>t, <2>4, <2>5, <2>6, <2>7
<1>9. ASSUME NEW w \in Workers, EndTick(w) PROVE CronInv'
  <2>1. batch[w] = {}
    BY <1>9, <1>a DEF EndTick, SendersHoldRows
  <2>2. batch' = batch /\ \A v \in Workers \ {w} : age'[v] = age[v]
    BY <1>9, <2>1 DEF EndTick, Stop, Leave, TypeOK
  <2>3. UNCHANGED <<rowVars, crashes>>
    BY <1>9 DEF EndTick
  <2>4. HeldRowIsLeased'
    BY <2>1, <2>2, <2>3 DEF HeldRowIsLeased, rowVars
  <2>5. QED BY <1>t, <2>2, <2>3, <2>4 DEF DisjointBatches, AttemptsBounded, FreeRowHasAttempts, rowVars
<1>10. ASSUME NEW w \in Workers, Crash(w) PROVE CronInv'
  <2>1. batch' = [batch EXCEPT ![w] = {}] /\ \A v \in Workers \ {w} : age'[v] = age[v]
    BY <1>10 DEF Crash, Stop, Leave, TypeOK
  <2>2. UNCHANGED rowVars /\ crashes' = crashes + 1
    BY <1>10 DEF Crash
  <2>3. HeldRowIsLeased'
    BY <2>1, <2>2 DEF HeldRowIsLeased, rowVars, TypeOK
  <2>4. DisjointBatches'
    BY <2>1 DEF DisjointBatches, TypeOK
  <2>5. AttemptsBounded' /\ FreeRowHasAttempts'
    <3>1. \A n \in Notifications : attempts[n] < MaxAttempts + crashes'
      BY <1>a, <2>2 DEF AttemptsBounded
    <3>2. \A n \in Notifications : attempts'[n] = attempts[n]
      BY <2>2 DEF rowVars
    <3>3. QED BY <1>a, <2>2, <3>1, <3>2 DEF AttemptsBounded, FreeRowHasAttempts
  <2>6. QED BY <1>t, <2>3, <2>4, <2>5
<1>11. ASSUME Elapse PROVE CronInv'
  <2>1. UNCHANGED <<status, attempts, token, batch, crashes>>
    BY <1>11 DEF Elapse
  <2>2. HeldRowIsLeased'
    <3> SUFFICES ASSUME NEW w \in Workers, NEW n \in batch[w], status[n] = "pending"
                 PROVE  lock'[n] = Lease - age'[w]
      BY <2>1 DEF HeldRowIsLeased
    <3>1. lock[n] = Lease - age[w] /\ n \in Notifications
      BY <1>a DEF HeldRowIsLeased
    <3>2. age'[w] = age[w] + 1 /\ age[w] < TickSpan
      BY <1>11 DEF Elapse, SendersHoldRows
    <3>3. lock'[n] = Earlier(lock[n])
      BY <1>11, <3>1 DEF Elapse
    <3>4. QED BY <1>a, <3>1, <3>2, <3>3 DEF Earlier
  <2>3. QED BY <1>t, <2>1, <2>2 DEF DisjointBatches, AttemptsBounded, FreeRowHasAttempts
<1>12. QED
  BY <1>u, <1>1, <1>2, <1>3, <1>4, <1>5, <1>6, <1>7, <1>8, <1>9, <1>10, <1>11, RetryAllIsRequeue
     DEF Next, RetryFailed

LEMMA CronInvariant == ASSUME TickSpan < Lease PROVE Spec => []CronInv
<1>1. Init => CronInv
  BY TimesAssumption DEF Init, CronInv, SendersHoldRows, DisjointBatches, HeldRowIsLeased,
                         AttemptsBounded, FreeRowHasAttempts
<1>2. QED BY <1>1, CronStep, TypeCorrect, PTL DEF Spec

\* DisjointBatches, for any number of workers, rows and crashes, when a tick is
\* killed before the lease of its first claim can run out.
THEOREM Disjoint == ASSUME TickSpan < Lease PROVE Spec => []DisjointBatches
BY CronInvariant, PTL DEF CronInv

\* AttemptsBounded under the same condition: crashes are the only way past
\* MAX_DELIVERY_ATTEMPTS.
THEOREM Attempts == ASSUME TickSpan < Lease PROVE Spec => []AttemptsBounded
BY CronInvariant, PTL DEF CronInv

-----------------------------------------------------------------------------
(* The abstract specification *)

\* What a worker remembers of a send is true: "sent" means the provider has the
\* message, and the in-app bell never fails.
OutcomeIsTrue ==
  \A w \in Workers, n \in Notifications :
    /\ outcome[w][n] = "sent" =>
         Channel[n] = "in_app" \/ (Channel[n] = "email" /\ n \in accepted)
    /\ outcome[w][n] \in {"transient", "permanent"} => Channel[n] # "in_app"

SentInv == SendersHoldRows /\ OutcomeIsTrue /\ SentWasAccepted

LEMMA SentStep == TypeOK /\ SentInv /\ [Next]_vars => SentInv'
<1> SUFFICES ASSUME TypeOK, SentInv, [Next]_vars PROVE SentInv'
  OBVIOUS
<1> USE DEF SentInv
<1>t. SendersHoldRows'
  BY SendersStep
<1>o. NoOutcome \in [Notifications -> {Unknown}] /\ Unknown \notin Outcomes
  BY DEF NoOutcome, Unknown, Outcomes
<1>1. ASSUME UNCHANGED <<outcome, accepted>>, status' = status PROVE SentInv'
  BY <1>1, <1>t DEF OutcomeIsTrue, SentWasAccepted
<1>2. ASSUME UNCHANGED <<outcome, accepted>>,
             NEW S \in SUBSET Notifications, NEW s \in {"pending", "suppressed", "cancelled"},
             \A m \in Notifications : status'[m] = IF m \in S THEN s ELSE status[m]
      PROVE SentInv'
  BY <1>2, <1>t DEF OutcomeIsTrue, SentWasAccepted
<1>3. ASSUME NEW n \in Notifications, Enqueue(n) PROVE SentInv'
  <2>1. \E s \in {"pending", "suppressed"} : status' = [status EXCEPT ![n] = s]
    BY <1>3 DEF Enqueue
  <2>2. PICK s \in {"pending", "suppressed"} :
          \A m \in Notifications : status'[m] = IF m \in {n} THEN s ELSE status[m]
    BY <2>1 DEF TypeOK
  <2>3. QED BY <1>2, <1>3, <2>2 DEF Enqueue, workerVars
<1>4. ASSUME NEW S \in SUBSET Notifications, Requeue(S) PROVE SentInv'
  BY <1>2, <1>4 DEF Requeue, workerVars
<1>5. ASSUME NEW S \in SUBSET Notifications, Cancel(S) PROVE SentInv'
  BY <1>2, <1>5 DEF Cancel, workerVars
<1>6. ASSUME NEW w \in Workers, NEW n \in Notifications, Send(w, n) PROVE SentInv'
  <2>1. PICK o \in Outcomes :
          /\ Channel[n] = "in_app" => o = "sent"
          /\ Channel[n] = "sms" => o = "permanent"
          /\ outcome' = [outcome EXCEPT ![w][n] = o]
          /\ \/ /\ Channel[n] = "email" /\ o # "permanent"
                /\ accepted' = accepted \union {n}
             \/ /\ Channel[n] # "email" \/ o # "sent"
                /\ accepted' = accepted
    BY <1>6 DEF Send
  <2>2. Channel[n] \in {"in_app", "email", "sms"}
    BY NamesAssumption DEF Channels
  <2>3. accepted \subseteq accepted' /\ (o = "sent" /\ Channel[n] = "email" => n \in accepted')
    BY <2>1
  <2>4. \A v \in Workers, m \in Notifications :
          outcome'[v][m] = IF v = w /\ m = n THEN o ELSE outcome[v][m]
    BY <2>1 DEF TypeOK
  <2>5. OutcomeIsTrue'
    BY <2>1, <2>2, <2>3, <2>4 DEF OutcomeIsTrue
  <2>6. status' = status
    BY <1>6 DEF Send, rowVars
  <2>7. QED BY <1>t, <2>3, <2>5, <2>6 DEF SentWasAccepted
<1>7. ASSUME NEW w \in Workers, Leave(w, stage'[w], age'[w]), accepted' = accepted
      PROVE  OutcomeIsTrue'
  <2>1. \A v \in Workers, m \in Notifications :
          outcome'[v][m] = IF v = w THEN Unknown ELSE outcome[v][m]
    BY <1>7 DEF Leave, TypeOK, NoOutcome
  <2>2. QED BY <1>7, <2>1 DEF OutcomeIsTrue, Unknown
<1>8. ASSUME NEW w \in Workers, Complete(w) PROVE SentInv'
  <2>1. OutcomeIsTrue'
    BY <1>7, <1>8 DEF Complete, Stop, Continue, Leave, TypeOK
  <2>2. \A n \in SentBy(w) : Channel[n] = "in_app" \/ (Channel[n] = "email" /\ n \in accepted)
    BY DEF SentBy, Owned, OutcomeIsTrue, TypeOK
  <2>3. SentWasAccepted'
    BY <1>8, <2>2 DEF Complete, SentWasAccepted
  <2>4. QED BY <1>t, <2>1, <2>3
<1>9. ASSUME NEW w \in Workers, EndTick(w) PROVE SentInv'
  BY <1>7, <1>9, <1>t DEF EndTick, Stop, Leave, TypeOK, rowVars, SentWasAccepted
<1>10. ASSUME NEW w \in Workers, Crash(w) PROVE SentInv'
  BY <1>7, <1>10, <1>t DEF Crash, Stop, Leave, TypeOK, rowVars, SentWasAccepted
<1>11. CASE UNCHANGED vars
  BY <1>1, <1>11 DEF vars, rowVars, workerVars
<1>12. ASSUME NEW n \in Notifications, FailureAges(n) PROVE SentInv'
  BY <1>1, <1>12 DEF FailureAges, workerVars
<1>13. ASSUME NEW w \in Workers, StartTick(w) \/ Claim(w) PROVE SentInv'
  BY <1>1, <1>13 DEF StartTick, Claim, rowVars
<1>14. CASE Elapse
  BY <1>1, <1>14 DEF Elapse
<1>15. QED
  BY <1>3, <1>4, <1>5, <1>6, <1>8, <1>9, <1>10, <1>11, <1>12, <1>13, <1>14, RetryAllIsRequeue
     DEF Next, RetryFailed

LEMMA SentInvariant == Spec => []SentInv
<1>1. Init => SentInv
  BY DEF Init, SentInv, SendersHoldRows, OutcomeIsTrue, SentWasAccepted, NoOutcome, Unknown
<1>2. QED BY <1>1, SentStep, TypeCorrect, PTL DEF Spec

\* SentWasAccepted, with stale leases, crashes and re-claims allowed: completion
\* never marks a message sent that its own sender did not see accepted.
THEOREM SentAccepted == Spec => []SentWasAccepted
BY SentInvariant, PTL DEF SentInv

\* One step of the queue is one step of the promise, or none.
LEMMA PromiseStep ==
  TypeOK /\ SentInv /\ [Next]_vars => [Promise!Next]_Promise!vars
<1> SUFFICES ASSUME TypeOK, SentInv, [Next]_vars PROVE [Promise!Next]_Promise!vars
  OBVIOUS
<1> USE DEF SentInv, Promise!Next, Promise!vars
<1>0. ASSUME UNCHANGED <<status, accepted>> PROVE [Promise!Next]_Promise!vars
  BY <1>0
<1>1. ASSUME NEW n \in Notifications, Enqueue(n) PROVE Promise!Offer(n)
  <2>1. \E s \in {"pending", "suppressed"} : status' = [status EXCEPT ![n] = s]
    BY <1>1 DEF Enqueue
  <2>2. QED BY <1>1, <2>1 DEF Enqueue, TypeOK, Promise!Offer, Promise!Becomes
<1>2. ASSUME NEW S \in SUBSET Notifications, Requeue(S) PROVE Promise!Requeue(S)
  BY <1>2 DEF Requeue, Promise!Requeue, Promise!Becomes
<1>3. ASSUME NEW S \in SUBSET Notifications, Cancel(S) PROVE Promise!Withdraw(S)
  BY <1>3 DEF Cancel, Promise!Withdraw, Promise!Becomes
<1>4. ASSUME NEW w \in Workers, NEW n \in Notifications, Send(w, n)
      PROVE  [Promise!Next]_Promise!vars
  <2>1. CASE accepted' = accepted
    BY <1>0, <1>4, <2>1 DEF Send, rowVars
  <2>2. CASE Channel[n] = "email" /\ accepted' = accepted \union {n}
    <3>1. status[n] \notin {"absent", "suppressed"}
      BY <1>4 DEF Send, SendersHoldRows
    <3>2. Promise!Hand(n)
      BY <1>4, <2>2, <3>1 DEF Promise!Hand, Send, rowVars
    <3>3. QED BY <3>2
  <2>3. QED BY <1>4, <2>1, <2>2 DEF Send
<1>5. ASSUME NEW w \in Workers, Complete(w) PROVE [Promise!Next]_Promise!vars
  <2>1. CASE SentBy(w) \union FailedBy(w) = {}
    <3>1. status' = status
      BY <1>5, <2>1 DEF Complete, TypeOK
    <3>2. QED BY <1>0, <1>5, <3>1 DEF Complete
  <2>2. CASE SentBy(w) \union FailedBy(w) # {}
    <3>1. SentBy(w) \in SUBSET Notifications /\ FailedBy(w) \in SUBSET Notifications
      BY DEF SentBy, FailedBy, Owned, TypeOK
    <3>2. /\ SentBy(w) \intersect FailedBy(w) = {}
          /\ \A n \in SentBy(w) \union FailedBy(w) : status[n] = "pending"
      BY DEF SentBy, FailedBy, Owned
    <3>3. \A n \in SentBy(w) : Channel[n] = "in_app" \/ (Channel[n] = "email" /\ n \in accepted)
      BY <3>1 DEF SentBy, OutcomeIsTrue
    <3>4. \A n \in FailedBy(w) : Channel[n] # "in_app"
      BY <3>1 DEF FailedBy, OutcomeIsTrue
    <3>5. Promise!Settle(SentBy(w), FailedBy(w))
      BY <1>5, <2>2, <3>2, <3>3, <3>4 DEF Complete, Promise!Settle
    <3>6. QED BY <3>1, <3>5
  <2>3. QED BY <2>1, <2>2
<1>6. ASSUME NEW w \in Workers, StartTick(w) \/ Claim(w) \/ EndTick(w) \/ Crash(w)
      PROVE  [Promise!Next]_Promise!vars
  BY <1>0, <1>6 DEF StartTick, Claim, EndTick, Crash, rowVars
<1>7. ASSUME NEW n \in Notifications, FailureAges(n) PROVE [Promise!Next]_Promise!vars
  BY <1>0, <1>7 DEF FailureAges
<1>8. CASE Elapse
  BY <1>0, <1>8 DEF Elapse
<1>9. CASE UNCHANGED vars
  BY <1>0, <1>9 DEF vars, rowVars
<1>10. QED
  BY <1>1, <1>2, <1>3, <1>4, <1>5, <1>6, <1>7, <1>8, <1>9, RetryAllIsRequeue DEF Next, RetryFailed

\* The queue implements the safety part of DeliveryPromise; that it also
\* settles every notification is checked by TLC.
THEOREM PromiseKept == Spec => Promise!Safety
<1>1. Init => Promise!Init
  BY DEF Init, Promise!Init
<1>2. QED BY <1>1, PromiseStep, TypeCorrect, SentInvariant, PTL DEF Spec, Promise!Safety

-----------------------------------------------------------------------------
(* Quiet hours *)

\* Division leaves a rest, and no other.
LEMMA DivisionWithRest ==
  ASSUME NEW x \in Int, NEW d \in Nat \ {0}
  PROVE  /\ x \div d \in Int /\ x % d \in 0..(d - 1)
         /\ x = d * (x \div d) + (x % d)
<1>1. x \div d \in Int
  OBVIOUS
<1>2. x % d \in 0..(d - 1)
  OBVIOUS
<1>3. x = d * (x \div d) + (x % d)
  OBVIOUS
<1> QED BY <1>1, <1>2, <1>3

LEMMA MultipleIsAtLeast ==
  ASSUME NEW d \in Nat \ {0}, NEW z \in Int, z >= 1
  PROVE  d * z >= d
  OBVIOUS

LEMMA RestIsUnique ==
  ASSUME NEW x \in Int, NEW d \in Nat \ {0}, NEW q \in Int, NEW r \in 0..(d - 1), x = d * q + r
  PROVE  x % d = r
<1> DEFINE p == x \div d
           s == x % d
<1>1. p \in Int /\ s \in 0..(d - 1) /\ x = d * p + s
  BY DivisionWithRest
<1> HIDE DEF p, s
<1>2. d * p + s = d * q + r
  BY <1>1
<1>3. CASE p - q >= 1
  <2>1. d * (p - q) >= d
    BY <1>1, <1>3, MultipleIsAtLeast
  <2>2. d * (p - q) = d * p - d * q
    BY <1>1
  <2> QED BY <1>1, <1>2, <2>1, <2>2
<1>4. CASE q - p >= 1
  <2>1. d * (q - p) >= d
    BY <1>1, <1>4, MultipleIsAtLeast
  <2>2. d * (q - p) = d * q - d * p
    BY <1>1
  <2> QED BY <1>1, <1>2, <2>1, <2>2
<1>5. CASE p = q
  BY <1>1, <1>2, <1>5 DEF s
<1> QED BY <1>1, <1>3, <1>4, <1>5

\* While the clocks do not change the wall clock follows the instants, around the day.
LEMMA WallClockGoesOn ==
  ASSUME NEW t \in Nat, NEW k \in 0..(Day - 1), ~ClockChangesBetween(t, t + k)
  PROVE  /\ WallMinute(t) \in 0..(Day - 1)
         /\ WallMinute(t + k) = IF WallMinute(t) + k < Day THEN WallMinute(t) + k
                                                        ELSE WallMinute(t) + k - Day
<1> USE DayAssumption, ChangeAssumption
<1> DEFINE back == IF t >= ChangeAt THEN ClockBack ELSE 0
           q == (t - back) \div Day
           w == (t - back) % Day
<1>1. back \in Int /\ t - back \in Int
  OBVIOUS
<1>2. WallMinute(t) = w
  BY DEF WallMinute
<1>3. WallMinute(t + k) = (t + k - back) % Day
  BY DEF WallMinute, ClockChangesBetween
<1>4. q \in Int /\ w \in 0..(Day - 1) /\ t - back = Day * q + w
  BY <1>1, DivisionWithRest
<1> HIDE DEF back, q, w
<1>5. CASE w + k < Day
  <2>1. t + k - back = Day * q + (w + k)
    BY <1>1, <1>4
  <2>2. w + k \in 0..(Day - 1) /\ t + k - back \in Int
    BY <1>1, <1>4, <1>5
  <2>3. (t + k - back) % Day = w + k
    BY <1>4, <2>1, <2>2, RestIsUnique
  <2> QED BY <1>2, <1>3, <1>4, <1>5, <2>3
<1>6. CASE ~(w + k < Day)
  <2>1. Day * (q + 1) = Day * q + Day
    BY <1>4
  <2>2. t + k - back = Day * (q + 1) + (w + k - Day)
    BY <1>1, <1>4, <2>1
  <2>3. w + k - Day \in 0..(Day - 1) /\ t + k - back \in Int /\ q + 1 \in Int
    BY <1>1, <1>4, <1>6
  <2>4. (t + k - back) % Day = w + k - Day
    BY <2>2, <2>3, RestIsUnique
  <2> QED BY <1>2, <1>3, <1>4, <1>6, <2>4
<1> QED BY <1>5, <1>6

\* A window is over after fewer minutes than a day has, and not before.
LEMMA WindowEnds ==
  ASSUME NEW p \in Profiles, NEW now \in Nat, IsWithinQuietHours(p, now)
  PROVE  /\ MinutesUntilEnd(p, now) \in 1..(Day - 1)
         /\ ~ClockChangesBetween(now, now + MinutesUntilEnd(p, now)) =>
              /\ ~IsWithinQuietHours(p, now + MinutesUntilEnd(p, now))
              /\ \A k \in 0..(MinutesUntilEnd(p, now) - 1) : IsWithinQuietHours(p, now + k)
<1> USE DayAssumption, ChangeAssumption
<1> DEFINE w == WallMinute(now)
           wait == MinutesUntilEnd(p, now)
<1>1. 0 \in 0..(Day - 1) /\ ~ClockChangesBetween(now, now + 0)
  BY DEF ClockChangesBetween
<1>2. w \in 0..(Day - 1)
  BY <1>1, WallClockGoesOn
<1>3. p.start \in 0..(Day - 1) /\ p.end \in 0..(Day - 1)
  BY DEF Profiles
<1>4. /\ p.enabled /\ p.start # p.end
      /\ IF p.start < p.end THEN w >= p.start /\ w < p.end ELSE w >= p.start \/ w < p.end
  BY DEF IsWithinQuietHours
<1>5. wait = IF w < p.end THEN p.end - w ELSE Day - w + p.end
  BY DEF MinutesUntilEnd
<1> HIDE DEF w, wait
<1>6. wait \in 1..(Day - 1)
  BY <1>2, <1>3, <1>4, <1>5
<1>7. ASSUME ~ClockChangesBetween(now, now + wait)
      PROVE  ~IsWithinQuietHours(p, now + wait)
  <2>1. WallMinute(now + wait) = IF w + wait < Day THEN w + wait ELSE w + wait - Day
    BY <1>6, <1>7, WallClockGoesOn DEF w
  <2>2. WallMinute(now + wait) = p.end
    BY <1>2, <1>3, <1>4, <1>5, <2>1
  <2> QED BY <1>3, <1>4, <2>2 DEF IsWithinQuietHours
<1>8. ASSUME ~ClockChangesBetween(now, now + wait), NEW k \in 0..(wait - 1)
      PROVE  IsWithinQuietHours(p, now + k)
  <2>1. k \in 0..(Day - 1) /\ ~ClockChangesBetween(now, now + k)
    BY <1>6, <1>8 DEF ClockChangesBetween
  <2>2. WallMinute(now + k) = IF w + k < Day THEN w + k ELSE w + k - Day
    BY <2>1, WallClockGoesOn DEF w
  <2>3. IF p.start < p.end THEN WallMinute(now + k) >= p.start /\ WallMinute(now + k) < p.end
                           ELSE WallMinute(now + k) >= p.start \/ WallMinute(now + k) < p.end
    BY <1>2, <1>3, <1>4, <1>5, <1>8, <2>2
  <2> QED BY <1>4, <2>3 DEF IsWithinQuietHours
<1> QED BY <1>6, <1>7, <1>8 DEF wait

\* A notification is due at the first instant at which its person is reachable, for days of any
\* length, any window and any change of the clocks that does not fall in between.
LEMMA FirstReachable == DueWhenFirstReachable
<1> USE DayAssumption
<1> SUFFICES ASSUME NEW p \in Profiles, NEW now \in 0..Horizon
             PROVE  LET instant == ScheduledFor(p, now, FALSE) IN
                    ~ClockChangesBetween(now, instant) =>
                      /\ instant >= now /\ ~IsWithinQuietHours(p, instant)
                      /\ \A t \in now..(instant - 1) : IsWithinQuietHours(p, t)
  BY DEF DueWhenFirstReachable
<1> DEFINE First(instant) == ~ClockChangesBetween(now, instant) =>
                           /\ instant >= now /\ ~IsWithinQuietHours(p, instant)
                           /\ \A t \in now..(instant - 1) : IsWithinQuietHours(p, t)
<1>1. now \in Nat
  OBVIOUS
<1>2. CASE IsWithinQuietHours(p, now)
  <2> DEFINE wait == MinutesUntilEnd(p, now)
  <2>1. ScheduledFor(p, now, FALSE) = now + wait
    BY <1>2 DEF ScheduledFor, NextDeliverableAt
  <2>2. /\ wait \in 1..(Day - 1)
        /\ ~ClockChangesBetween(now, now + wait) =>
             /\ ~IsWithinQuietHours(p, now + wait)
             /\ \A k \in 0..(wait - 1) : IsWithinQuietHours(p, now + k)
    BY <1>1, <1>2, WindowEnds
  <2> HIDE DEF wait
  <2>3. ASSUME ~ClockChangesBetween(now, now + wait), NEW t \in now..(now + wait - 1)
        PROVE  IsWithinQuietHours(p, t)
    <3>1. t - now \in 0..(wait - 1) /\ now + (t - now) = t
      BY <1>1, <2>2
    <3> QED BY <2>2, <2>3, <3>1
  <2>4. now + wait >= now
    BY <1>1, <2>2
  <2>5. First(now + wait)
    BY <2>2, <2>3, <2>4
  <2> HIDE DEF First
  <2>6. First(ScheduledFor(p, now, FALSE))
    BY <2>1, <2>5
  <2> QED BY <2>6 DEF First
<1>3. CASE ~IsWithinQuietHours(p, now)
  <2>1. ScheduledFor(p, now, FALSE) = now
    BY <1>3 DEF ScheduledFor, NextDeliverableAt
  <2>2. now..(now - 1) = {} /\ now >= now
    BY <1>1
  <2>3. First(now)
    BY <1>3, <2>2
  <2> HIDE DEF First
  <2>4. First(ScheduledFor(p, now, FALSE))
    BY <2>1, <2>3
  <2> QED BY <2>4 DEF First
<1> QED BY <1>2, <1>3

\* Quiet hours delay a notification to the first instant its person is reachable, and no further
\* (enqueue, nextDeliverableAt).
THEOREM QuietHoursDelay == Spec => []QuietHoursDelayNeverDrop
<1>1. QuietHoursDelayNeverDrop
  BY FirstReachable DEF QuietHoursDelayNeverDrop
<1> QED BY <1>1, PTL

-----------------------------------------------------------------------------
(* The week's planner (Planner.tla) begins here. *)

-----------------------------------------------------------------------------
(* Availability *)

\* Read a date at a time, as conflicts.ts does, or all together.
LEMMA UnavailableEitherWay ==
  ASSUME NEW p, NEW s
  PROVE  IsUnavailable(p, s) <=>
           \E w \in WindowsDuring(p, s) : w.preference = "unavailable" /\ Touches(w, s)
<1>1. ASSUME NEW d, NEW w
      PROVE  w \in (IF On(exceptions[p], d) # {}
                    THEN {v \in On(exceptions[p], d) : v.preference = "unavailable"}
                    ELSE {v \in On(rules[p], d) : v.preference = "unavailable"})
               <=> w \in WindowsOn(p, d) /\ w.preference = "unavailable"
  BY DEF WindowsOn
<1> QED  BY <1>1 DEF IsUnavailable, WindowsDuring

LEMMA States ==
  ASSUME NEW p, NEW s
  PROVE  /\ AvailabilityState(p, s) \in {"time_off", "unavailable", "available", "not_preferred"}
         /\ AvailabilityState(p, s) = "time_off" <=> TimeOff(p, "approved", s)
         /\ AvailabilityState(p, s) = "unavailable" <=> ~TimeOff(p, "approved", s) /\ IsUnavailable(p, s)
<1> DEFINE said(preference) == \E w \in WindowsDuring(p, s) : w.preference = preference /\ Touches(w, s)
<1>1. IsUnavailable(p, s) <=> said("unavailable")
  BY UnavailableEitherWay
<1>2. AvailabilityState(p, s) =
        CASE TimeOff(p, "approved", s) -> "time_off"
          [] ~TimeOff(p, "approved", s) /\ said("unavailable") -> "unavailable"
          [] OTHER -> IF said("preferred") THEN "available"
                      ELSE IF said("available") \/ WindowsDuring(p, s) # {} THEN "not_preferred"
                      ELSE "available"
  BY DEF AvailabilityState
<1> HIDE DEF said
<1> QED  BY <1>1, <1>2

LEMMA Conflicts ==
  ASSUME NEW p, NEW r, NEW s
  PROVE  /\ "overlap" \in DetectConflicts(p, r, s) <=> \E t \in Others(p, r) : Overlaps(s, t)
         /\ "time_off_approved" \in DetectConflicts(p, r, s) <=> TimeOff(p, "approved", s)
         /\ "unavailable" \in DetectConflicts(p, r, s) <=> IsUnavailable(p, s)
BY DEF DetectConflicts

\* The two copies of the availability rules agree, for days of any length, any windows, and any
\* hours the clocks skip (availability-state.ts, conflicts.ts).
THEOREM RulesAgree == PlannerSpec => []AvailabilityRulesAgree
<1>1. AvailabilityRulesAgree
  BY States, Conflicts DEF AvailabilityRulesAgree
<1> QED  BY <1>1, PTL

-----------------------------------------------------------------------------
(* Time *)

LEMMA TimesMonotone ==
  ASSUME NEW a \in Nat, NEW b \in Nat, NEW c \in Nat, a <= b
  PROVE  a * c <= b * c /\ a * c \in Nat
OBVIOUS

LEMMA DayOf ==
  ASSUME NEW d \in Nat, NEW h \in Nat, NEW n \in Nat, h < n
  PROVE  (d * n + h) \div n = d
<1> DEFINE x == d * n + h
           q == x \div n
<1>1. x \in Nat /\ n # 0
  OBVIOUS
<1>2. q \in Nat /\ n * q <= x /\ x < n * (q + 1)
  <2> HIDE DEF x
  <2> QED  BY <1>1, SMT
<1>3. CASE q < d
  <2>1. q + 1 <= d
    BY <1>2, <1>3
  <2> QED  BY <1>2, <2>1, TimesMonotone
<1>4. CASE q > d
  <2>1. d + 1 <= q
    BY <1>2, <1>4
  <2>2. (d + 1) * n <= q * n
    BY <1>2, <2>1, TimesMonotone
  <2> QED  BY <1>2, <2>2
<1> QED  BY <1>2, <1>3, <1>4

\* The hours of a pattern are hours of the week, on the day it is for.
LEMMA PatternTimes ==
  ASSUME NEW k \in Patterns, NEW d \in Days
  PROVE  /\ ShiftTimes(k, d) \in Period
         /\ DateOf(ShiftTimes(k, d).start) = d
         /\ InWeek(ShiftTimes(k, d))
<1> DEFINE a == Shape[k].start
           b == Shape[k].end
           n == DayHours
<1>1. /\ n \in Nat /\ LastDay \in Nat /\ d \in Nat /\ 1 <= d /\ d <= LastDay
      /\ a \in Nat /\ a < n /\ b \in Nat /\ a < b /\ b < n + n
  <2>1. n \in Nat /\ LastDay \in Nat
    BY PlannerBounds
  <2>2. a \in 0..n - 1 /\ b \in a + 1..a + n - 1
    BY PatternsAssumption
  <2> QED  BY <2>1, <2>2 DEF Days
<1>2. ShiftTimes(k, d) = [start |-> d * n + a, end |-> d * n + b]
  BY DEF ShiftTimes, LocalTime
<1>3. DateOf(d * n + a) = d
  BY <1>1, DayOf DEF DateOf
<1>4. d * n \in Nat /\ n <= d * n /\ d * n <= LastDay * n /\ LastDay * n \in Nat
      /\ n * (LastDay + 2) = LastDay * n + n + n /\ (LastDay + 1) * n = LastDay * n + n
      /\ 1 * n = n
  BY <1>1, TimesMonotone
<1> DEFINE x == d * n
           y == LastDay * n
<1>5. d * n + a \in Hours /\ d * n + b \in Hours /\ d * n + a < d * n + b
  <2>1. x + a \in 0..y + n + n /\ x + b \in 0..y + n + n /\ x + a < x + b
    <3> HIDE DEF x, y, a, b, n
    <3> QED  BY <1>1, <1>4 DEF x, y
  <2> QED  BY <1>4, <2>1 DEF Hours
<1>6. n + 0 <= x + a /\ x + a < y + n
  <2> HIDE DEF a, b, n
  <2> QED  BY <1>1, <1>4
<1>7. InWeek(ShiftTimes(k, d))
  <2>1. InWeek(ShiftTimes(k, d)) <=> 1 * n + 0 <= d * n + a /\ d * n + a < (LastDay + 1) * n + 0
    BY <1>2 DEF InWeek, WeekBounds, LocalTime
  <2> HIDE DEF a, b, n
  <2> QED  BY <1>1, <1>4, <1>6, <2>1
<1> HIDE DEF a, b, n, x, y
<1> QED  BY <1>2, <1>3, <1>5, <1>7 DEF Period

LEMMA SlotParts ==
  ASSUME NEW r \in Slots
  PROVE  r[1] \in Patterns /\ r[2] \in Days /\ r[3] \in 1..Copies /\ r = <<r[1], r[2], r[3]>>
BY DEF Slots

LEMMA SlotsAreFinite == IsFiniteSet(Slots)
<1> DEFINE Pairs == (Patterns \X Days) \X (1..Copies)
           f == [x \in Pairs |-> <<x[1][1], x[1][2], x[2]>>]
<1>1. IsFiniteSet(Patterns) /\ IsFiniteSet(1..Copies) /\ IsFiniteSet(1..LastDay)
  BY PatternsAssumption, PlannerBounds, FS_Interval
<1>2. IsFiniteSet(Patterns \X Days)
  BY <1>1, FS_Product DEF Days
<1>3. IsFiniteSet(Pairs)
  BY <1>1, <1>2, FS_Product
<1>4. f \in [Pairs -> Slots]
  BY DEF Slots
<1>5. ASSUME NEW r \in Slots
      PROVE  \E x \in Pairs : f[x] = r
  <2> DEFINE x == <<<<r[1], r[2]>>, r[3]>>
  <2>1. x \in Pairs
    BY SlotParts
  <2>2. f[x] = r
    BY <2>1, SlotParts
  <2> QED  BY <2>1, <2>2
<1>6. f \in Surjection(Pairs, Slots)
  BY <1>4, <1>5 DEF Surjection
<1> QED  BY <1>3, <1>6, FS_Surjection

LEMMA LeastNumber ==
  ASSUME NEW S \in SUBSET Nat, S # {}
  PROVE  \E m \in S : \A k \in S : m <= k
<1> DEFINE R == {ss \in Nat \X Nat : ss[1] < ss[2]}
<1>1. IsWellFoundedOn(R, Nat)
  BY NatLessThanWellFounded DEF OpToRel
<1>2. PICK m \in S : \A k \in S : <<k, m>> \notin R
  BY <1>1, WFMin
<1>3. ASSUME NEW k \in S
      PROVE  m <= k
  <2>1. k \in Nat /\ m \in Nat /\ <<k, m>> \notin R
    BY <1>2
  <2> QED  BY <2>1
<1> QED  BY <1>3

-----------------------------------------------------------------------------
(* Load *)

HourByHour(periods) == UNION {{s} \X Worked(s) : s \in periods}

LEMMA LoadOf ==
  ASSUME NEW S \in SUBSET Period, IsFiniteSet(S)
  PROVE  /\ IsFiniteSet(HourByHour(S)) /\ Load(S) = Cardinality(HourByHour(S)) /\ Load(S) \in Nat
<1>1. IsFiniteSet(Hours)
  <2> DEFINE last == DayHours * (LastDay + 2)
  <2>1. last \in Int
    BY PlannerBounds
  <2>2. Hours = 0..last
    BY DEF Hours
  <2> HIDE DEF last
  <2> QED  BY <2>1, <2>2, FS_Interval
<1>2. IsFiniteSet(S \X Hours)
  BY <1>1, FS_Product
<1>3. ASSUME NEW s \in S, NEW h \in Worked(s)
      PROVE  h \in Hours
  <2>1. s.start \in Nat /\ s.end \in Nat /\ DayHours * (LastDay + 2) \in Nat /\ s.end <= DayHours * (LastDay + 2)
    BY PlannerBounds DEF Period, Hours
  <2>2. h \in s.start..s.end - 1
    BY <1>3 DEF Worked
  <2> QED  BY <2>1, <2>2 DEF Hours
<1>4. HourByHour(S) \subseteq S \X Hours
  BY <1>3 DEF HourByHour
<1>5. IsFiniteSet(HourByHour(S))
  BY <1>2, <1>4, FS_Subset
<1> QED  BY <1>5, FS_CardinalityType DEF Load, HourByHour

LEMMA LoadGrows ==
  ASSUME NEW T \in SUBSET Period, IsFiniteSet(T), NEW S \in SUBSET T
  PROVE  Load(S) <= Load(T)
<1>1. S \in SUBSET Period /\ IsFiniteSet(S)
  BY FS_Subset
<1>2. HourByHour(S) \subseteq HourByHour(T)
  BY DEF HourByHour
<1>3. IsFiniteSet(HourByHour(T)) /\ Load(S) = Cardinality(HourByHour(S)) /\ Load(T) = Cardinality(HourByHour(T))
  BY <1>1, LoadOf
<1> QED  BY <1>2, <1>3, FS_Subset

LEMMA LoadWith ==
  ASSUME NEW S \in SUBSET Period, IsFiniteSet(S), NEW t \in Period
  PROVE  Load(S \union {t}) <= Load(S) + Paid(t) /\ Paid(t) \in Nat
<1> DEFINE W == Worked(t)
<1>1. IsFiniteSet(W)
  <2>1. t.start \in Int /\ t.end - 1 \in Int
    BY PlannerBounds DEF Period, Hours
  <2>2. IsFiniteSet(t.start..t.end - 1)
    BY <2>1, FS_Interval
  <2> QED  BY <2>2, FS_Subset DEF Worked
<1>2. Paid(t) \in Nat /\ Cardinality(W) = Paid(t)
  BY <1>1, FS_CardinalityType DEF Paid
<1>3. IsFiniteSet({t}) /\ Cardinality({t}) = 1
  BY FS_Singleton
<1>4. IsFiniteSet({t} \X W) /\ Cardinality({t} \X W) = Paid(t)
  BY <1>1, <1>2, <1>3, FS_Product
<1>5. HourByHour(S \union {t}) = HourByHour(S) \union ({t} \X W)
  BY DEF HourByHour
<1>6. IsFiniteSet(S \union {t}) /\ S \union {t} \in SUBSET Period
  BY FS_AddElement
<1>7. /\ IsFiniteSet(HourByHour(S)) /\ Load(S) = Cardinality(HourByHour(S)) /\ Load(S) \in Nat
      /\ Load(S \union {t}) = Cardinality(HourByHour(S \union {t}))
  BY <1>6, LoadOf
<1> DEFINE A == HourByHour(S)
           B == {t} \X W
<1>8. IsFiniteSet(A \intersect B) /\ Cardinality(A \intersect B) \in Nat
  BY <1>7, FS_Intersection, FS_CardinalityType
<1> HIDE DEF A, B, W
<1>9. Cardinality(A \union B) = Cardinality(A) + Cardinality(B) - Cardinality(A \intersect B)
  BY <1>4, <1>7, FS_Union DEF A, B
<1>10. Load(S \union {t}) = Cardinality(A \union B) /\ Cardinality(A) = Load(S) /\ Cardinality(B) = Paid(t)
  BY <1>4, <1>5, <1>7 DEF A, B
<1> QED  BY <1>2, <1>7, <1>8, <1>9, <1>10

-----------------------------------------------------------------------------
(* What autofill has given out *)

TakenWith(picks) ==
  [p \in People |-> Taken[p] \union {Times(r) : r \in {q \in Slots : picks[q] = p}}]

Willing(p, r) ==
  p \in Holders[r[1]] /\ AvailabilityState(p, Times(r)) \notin {"time_off", "unavailable"}

\* Of the slots in done: each was given to somebody willing, whose week has stayed short enough, or
\* to nobody because each who is willing works then or would work too long.
WellPicked(picks, done) ==
  /\ picks \in [Slots -> People \union {None}]
  /\ \A r \in Slots : picks[r] # None =>
       /\ r \in done /\ picks[r] \in People /\ Willing(picks[r], r)
       /\ Load(TakenWith(picks)[picks[r]]) <= Overtime
  /\ \A r \in done, p \in People : picks[r] = None /\ Willing(p, r) =>
       \/ \E s \in TakenWith(picks)[p] : Overlaps(s, Times(r))
       \/ ~(Load(TakenWith(picks)[p]) + Paid(Times(r)) <= Overtime)

-----------------------------------------------------------------------------
(* The invariant *)

\* A shift has the hours of its pattern, on its own day unless the board moved it.
ShiftOK(row, r) ==
  /\ row \in Shift
  /\ row.status = "none" => row = NoShift
  /\ row.status # "none" =>
       \E d \in Days : row.start = ShiftTimes(r[1], d).start /\ row.end = ShiftTimes(r[1], d).end
  /\ row.status # "none" /\ ~row.moved => row.start = ShiftTimes(r[1], r[2]).start

PlanOK ==
  \/ planning.op = "generate" /\ planning.missing \in [Patterns \X Days -> Nat]
  \/ /\ planning.op = "assign" /\ planning.row \in Slots /\ planning.who \in People
     /\ planning.against \in BOOLEAN
  \/ planning.op = "autofill" /\ planning.picks \in [Slots -> People \union {None}]

PlannerTypes ==
  /\ PlannerTypeOK
  /\ \A r \in Slots : ShiftOK(shift[r], r)
  /\ \A p \in People : request[p].status \in {"pending", "approved"} =>
       \E s \in Offs : request[p].start = s.start /\ request[p].end = s.end
  /\ \A p \in People : IsFiniteSet(elsewhere[p])
  /\ planning # None => PlanOK

\* One at a time, what a transaction has decided is still right when it writes.
Decided ==
  Serial /\ planning # None =>
    /\ planning.op = "generate" =>
         \A k \in Patterns, d \in Days : planning.missing[<<k, d>>] = Missing(k, d)
    /\ planning.op = "assign" => ~TimeOff(planning.who, "approved", Times(planning.row))
    /\ planning.op = "autofill" => WellPicked(planning.picks, Empty)

PlannerInvariant == PlannerTypes /\ Decided /\ SlotsAreNotDuplicated

-----------------------------------------------------------------------------
(* Types *)

LEMMA NoShiftOK == ASSUME NEW r \in Slots PROVE ShiftOK(NoShift, r)
<1>1. 0 \in Hours
  BY PlannerBounds DEF Hours
<1>2. NoShift \in Shift
  BY <1>1 DEF NoShift, Shift
<1> QED  BY <1>2 DEF ShiftOK, NoShift

LEMMA GivenOK ==
  ASSUME NEW r \in Slots, NEW row, ShiftOK(row, r), row.status # "none",
         NEW p \in People \union {None}
  PROVE  ShiftOK([row EXCEPT !.who = p], r)
BY DEF ShiftOK, Shift

LEMMA PlannerTypesInit == PlannerInit => PlannerTypes
<1> SUFFICES ASSUME PlannerInit PROVE PlannerTypes  OBVIOUS
<1>1. \A r \in Slots : shift[r] = NoShift /\ ShiftOK(NoShift, r) /\ NoShift \in Shift
  BY NoShiftOK DEF PlannerInit, ShiftOK
<1>2. NoRequest \in Request
  BY PlannerBounds DEF NoRequest, Request, Hours
<1>3. ASSUME NEW p \in People
      PROVE  IsFiniteSet(elsewhere[p]) /\ elsewhere[p] \in SUBSET Elsewhere
  <2>1. elsewhere[p] = {} \/ \E e \in Elsewhere : elsewhere[p] = {e}
    BY DEF PlannerInit
  <2> QED  BY <2>1, FS_EmptySet, FS_Singleton
<1>4. elsewhere \in [People -> SUBSET Elsewhere]
  BY <1>3 DEF PlannerInit
<1>5. 0 \in 0..MaxChanges
  BY PlannerBounds
<1>6. shift \in [Slots -> Shift]
  BY <1>1 DEF PlannerInit
<1>7. request \in [People -> Request] /\ \A p \in People : request[p].status = "none"
  BY <1>2 DEF PlannerInit, NoRequest
<1>8. PlannerTypeOK
  BY <1>4, <1>5, <1>6, <1>7 DEF PlannerInit, PlannerTypeOK
<1> QED  BY <1>1, <1>3, <1>7, <1>8 DEF PlannerTypes, PlannerInit

\* A step that touches none of the shifts.
LEMMA ShiftsStay ==
  ASSUME PlannerTypes, PlannerTypeOK', shift' = shift, elsewhere' = elsewhere,
         planning' # None => planning' = planning \/ PlanOK',
         \A p \in People : \/ request'[p] = request[p]
                           \/ request'[p].status \notin {"pending", "approved"}
                           \/ \E s \in Offs : request'[p].start = s.start /\ request'[p].end = s.end
  PROVE  PlannerTypes'
<1>1. planning' # None => PlanOK'
  BY DEF PlannerTypes, PlanOK
<1> QED  BY <1>1 DEF PlannerTypes

\* A step that changes shifts and ends what was under way, if anything does.
LEMMA ShiftsChange ==
  ASSUME PlannerTypes, UNCHANGED <<isolation, elsewhere, rules, exceptions, request, template>>,
         shift' = [r \in Slots |-> shift'[r]], \A r \in Slots : ShiftOK(shift'[r], r),
         override' \in [Slots -> People \union {None}],
         review' \in [Days -> {"pending", "approved", "flagged"}],
         callout' \in [Slots -> {None} \union [who : People, replacement : People \union {None}]],
         planning' = planning \/ planning' = None, changes' \in 0..MaxChanges
  PROVE  PlannerTypes'
<1>1. shift' \in [Slots -> Shift]
  BY DEF ShiftOK
<1>2. PlannerTypeOK'
  BY <1>1 DEF PlannerTypes, PlannerTypeOK
<1>3. planning' # None => PlanOK'
  BY DEF PlannerTypes, PlanOK
<1> QED  BY <1>2, <1>3 DEF PlannerTypes

LEMMA PeopleTypes ==
  ASSUME PlannerTypes, NEW p \in People,
         \/ ReplaceWeeklyAvailability(p) \/ AddAvailabilityException(p) \/ RemoveAvailabilityException(p)
         \/ RequestTimeOff(p) \/ DecideTimeOff(p) \/ CancelTimeOff(p)
  PROVE  PlannerTypes'
<1>1. changes' \in 0..MaxChanges
  <2>1. changes' = changes \/ Change
    BY DEF ReplaceWeeklyAvailability, AddAvailabilityException, RemoveAvailabilityException, RequestTimeOff,
       DecideTimeOff, CancelTimeOff
  <2> QED  BY <2>1, PlannerBounds DEF PlannerTypes, PlannerTypeOK, Change
<1>2. /\ UnchangedByPeople
      /\ rules' \in [People -> Weeklies] /\ exceptions' \in [People -> SUBSET Exceptions]
  BY DEF PlannerTypes, PlannerTypeOK, ReplaceWeeklyAvailability, AddAvailabilityException,
     RemoveAvailabilityException, RequestTimeOff, DecideTimeOff, CancelTimeOff
<1>3. \/ request' = request
      \/ \E s \in Offs :
           request' = [request EXCEPT ![p] = [status |-> "pending", start |-> s.start, end |-> s.end]]
      \/ request[p].status = "pending"
         /\ \E decision \in {"approved", "closed"} : request' = [request EXCEPT ![p].status = decision]
      \/ request' = [request EXCEPT ![p].status = "closed"]
  BY DEF ReplaceWeeklyAvailability, AddAvailabilityException,
     RemoveAvailabilityException, RequestTimeOff, DecideTimeOff, CancelTimeOff
<1>4. request \in [People -> Request]
  BY DEF PlannerTypes, PlannerTypeOK
<1>5. \A s \in Offs : s.start \in Hours /\ s.end \in Hours
  BY DeclaredAssumption DEF Period
<1>6. request' \in [People -> Request]
  BY <1>3, <1>4, <1>5 DEF Request
<1>7. ASSUME NEW q \in People
      PROVE  \/ request'[q] = request[q]
             \/ request'[q].status \notin {"pending", "approved"}
             \/ \E s \in Offs : request'[q].start = s.start /\ request'[q].end = s.end
  BY <1>3, <1>4, <1>7 DEF PlannerTypes, Request
<1>8. PlannerTypeOK'
  BY <1>1, <1>2, <1>6 DEF PlannerTypes, PlannerTypeOK, UnchangedByPeople
<1> QED  BY <1>2, <1>7, <1>8, ShiftsStay DEF UnchangedByPeople

LEMMA BoardTypes ==
  ASSUME PlannerTypes, NEW r \in Slots,
         \/ \E d \in Days : UpdateShift(r, d)
         \/ \E p \in People \union {None} : AssignShift(r, p)
         \/ CancelShift(r)
  PROVE  PlannerTypes'
<1>0. Change /\ UnchangedByBoard /\ Active(r)
  BY DEF UpdateShift, AssignShift, CancelShift
<1>1. /\ UnchangedByBoard /\ changes' \in 0..MaxChanges /\ Active(r)
      /\ override' = override \/ override' = [override EXCEPT ![r] = None]
      /\ callout' = callout \/ callout' = [callout EXCEPT ![r] = None]
  <2>1. changes' \in 0..MaxChanges
    BY SMTT(60), <1>0, PlannerBounds DEF PlannerTypes, PlannerTypeOK, Change
  <2>2. override' = override \/ override' = [override EXCEPT ![r] = None]
    BY ZenonT(60) DEF UpdateShift, AssignShift, CancelShift
  <2>3. callout' = callout \/ callout' = [callout EXCEPT ![r] = None]
    BY DEF UpdateShift, AssignShift, CancelShift
  <2> QED  BY <1>0, <2>1, <2>2, <2>3
<1>2. /\ override' \in [Slots -> People \union {None}]
      /\ callout' \in [Slots -> {None} \union [who : People, replacement : People \union {None}]]
      /\ review' \in [Days -> {"pending", "approved", "flagged"}]
  BY <1>1 DEF PlannerTypes, PlannerTypeOK, UnchangedByBoard
<1>3. \E row : shift' = [shift EXCEPT ![r] = row] /\ ShiftOK(row, r)
  <2>1. ShiftOK(shift[r], r) /\ shift[r].status = "active" /\ shift \in [Slots -> Shift] /\ shift[r] \in Shift
    BY <1>1 DEF PlannerTypes, PlannerTypeOK, Active
  <2>2. ASSUME NEW d \in Days, UpdateShift(r, d)
        PROVE  \E row : shift' = [shift EXCEPT ![r] = row] /\ ShiftOK(row, r)
    <3> DEFINE s == ShiftTimes(r[1], d)
               row == [shift[r] EXCEPT !.start = s.start, !.end = s.end, !.moved = TRUE]
    <3>1. shift' = [shift EXCEPT ![r] = row]
      BY <2>1, <2>2 DEF UpdateShift
    <3>2. s.start \in Hours /\ s.end \in Hours
      BY SlotParts, PatternTimes DEF Period
    <3>3. row \in Shift /\ row.status = "active" /\ row.moved = TRUE
          /\ row.start = s.start /\ row.end = s.end
      <4> HIDE DEF s
      <4> QED  BY <2>1, <3>2 DEF Shift
    <3> HIDE DEF row
    <3> QED  BY <3>1, <3>3 DEF ShiftOK
  <2>3. ASSUME NEW p \in People \union {None}, AssignShift(r, p)
        PROVE  \E row : shift' = [shift EXCEPT ![r] = row] /\ ShiftOK(row, r)
    <3>1. shift' = [shift EXCEPT ![r] = [shift[r] EXCEPT !.who = p]]
      BY <2>1, <2>3 DEF AssignShift
    <3> QED  BY <2>1, <3>1, GivenOK
  <2>4. ASSUME CancelShift(r)
        PROVE  \E row : shift' = [shift EXCEPT ![r] = row] /\ ShiftOK(row, r)
    <3>1. ShiftOK([shift[r] EXCEPT !.status = "cancelled"], r)
      BY <2>1 DEF ShiftOK, Shift
    <3>2. \/ shift' = [shift EXCEPT ![r] = NoShift]
          \/ shift' = [shift EXCEPT ![r] = [shift[r] EXCEPT !.status = "cancelled"]]
      BY <2>1, <2>4 DEF CancelShift
    <3> QED  BY <3>1, <3>2, NoShiftOK
  <2> QED  BY <2>2, <2>3, <2>4
<1>4. shift' = [q \in Slots |-> shift'[q]] /\ \A q \in Slots : ShiftOK(shift'[q], q)
  BY <1>3 DEF PlannerTypes, PlannerTypeOK
<1> QED  BY SMTT(60), <1>1, <1>2, <1>4, ShiftsChange DEF UnchangedByBoard

LEMMA WeekTypes ==
  ASSUME PlannerTypes,
         \/ CreateTemplateSet \/ ArchiveTemplateSet \/ EndGenerate
         \/ \E d \in Days : SetDayReview(d)
         \/ \E r \in Slots : ClearSlot(r) \/ ReportCallout(r)
  PROVE  PlannerTypes'
<1>1. changes' \in 0..MaxChanges
  <2>1. changes' = changes \/ Change
    BY DEF CreateTemplateSet, ArchiveTemplateSet, EndGenerate, SetDayReview, ClearSlot, ReportCallout
  <2> QED  BY <2>1, PlannerBounds DEF PlannerTypes, PlannerTypeOK, Change
<1>2. shift \in [Slots -> Shift] /\ \A r \in Slots : ShiftOK(shift[r], r)
  BY DEF PlannerTypes, PlannerTypeOK
<1>3. CASE CreateTemplateSet \/ ArchiveTemplateSet \/ \E d \in Days : SetDayReview(d)
  <2>1. /\ UNCHANGED <<isolation, elsewhere, rules, exceptions, request, shift, override, callout, planning>>
        /\ template' \in {"absent", "active", "archived"}
        /\ review' \in [Days -> {"pending", "approved", "flagged"}]
    BY <1>3 DEF CreateTemplateSet, ArchiveTemplateSet, SetDayReview, UnchangedByPlanner, PlannerTypes, PlannerTypeOK
  <2>2. PlannerTypeOK'
    BY <1>1, <2>1 DEF PlannerTypes, PlannerTypeOK
  <2> QED  BY <2>1, <2>2, ShiftsStay
<1>4. ASSUME NEW r \in Slots, ReportCallout(r)
      PROVE  PlannerTypes'
  <2>1. /\ UNCHANGED <<isolation, elsewhere, rules, exceptions, request, shift, override, review, planning, template>>
        /\ callout' = [callout EXCEPT ![r] = [who |-> shift[r].who, replacement |-> None]]
        /\ shift[r].who # None
    BY <1>4 DEF ReportCallout, UnchangedByPlanner
  <2>2. shift[r].who \in People
    BY <1>2, <2>1 DEF Shift
  <2>3. callout' \in [Slots -> {None} \union [who : People, replacement : People \union {None}]]
    BY <2>1, <2>2 DEF PlannerTypes, PlannerTypeOK
  <2>4. PlannerTypeOK'
    BY <1>1, <2>1, <2>3 DEF PlannerTypes, PlannerTypeOK
  <2> QED  BY <2>1, <2>4, ShiftsStay
<1>5. ASSUME NEW r \in Slots, ClearSlot(r)
      PROVE  PlannerTypes'
  <2>1. /\ UNCHANGED <<isolation, elsewhere, rules, exceptions, request, callout, planning, template>>
        /\ shift' = [shift EXCEPT ![r] = [shift[r] EXCEPT !.who = None]] /\ shift[r].status # "none"
        /\ override' = [override EXCEPT ![r] = None]
        /\ review' = [review EXCEPT ![DateOf(shift[r].start)] = "pending"]
    BY <1>2, <1>5 DEF ClearSlot, UnchangedByPlanner
  <2>2. ShiftOK([shift[r] EXCEPT !.who = None], r)
    BY <1>2, <2>1, GivenOK
  <2>3. shift' = [q \in Slots |-> shift'[q]] /\ \A q \in Slots : ShiftOK(shift'[q], q)
    BY <1>2, <2>1, <2>2
  <2>4. /\ override' \in [Slots -> People \union {None}]
        /\ review' \in [Days -> {"pending", "approved", "flagged"}]
        /\ callout' \in [Slots -> {None} \union [who : People, replacement : People \union {None}]]
    BY <2>1 DEF PlannerTypes, PlannerTypeOK
  <2> QED  BY <1>1, <2>1, <2>3, <2>4, ShiftsChange
<1>6. CASE EndGenerate
  <2>1. /\ UNCHANGED <<isolation, elsewhere, rules, exceptions, request, override, review, callout, template>>
        /\ planning' = None /\ shift' = [q \in Slots |-> shift'[q]]
        /\ \A q \in Slots : \/ shift'[q] = shift[q]
                            \/ shift'[q] = [NoShift EXCEPT !.status = "active",
                                 !.start = ShiftTimes(q[1], q[2]).start, !.end = ShiftTimes(q[1], q[2]).end]
    BY <1>6 DEF EndGenerate, UnchangedByPlanner
  <2>2. ASSUME NEW q \in Slots
        PROVE  ShiftOK([NoShift EXCEPT !.status = "active", !.start = ShiftTimes(q[1], q[2]).start,
                                       !.end = ShiftTimes(q[1], q[2]).end], q)
    <3>1. q[1] \in Patterns /\ q[2] \in Days
      BY SlotParts
    <3>2. ShiftTimes(q[1], q[2]).start \in Hours /\ ShiftTimes(q[1], q[2]).end \in Hours
      BY <3>1, PatternTimes DEF Period
    <3> QED  BY <3>1, <3>2 DEF ShiftOK, Shift, NoShift
  <2>3. \A q \in Slots : ShiftOK(shift'[q], q)
    BY <1>2, <2>1, <2>2
  <2>4. /\ override' \in [Slots -> People \union {None}]
        /\ review' \in [Days -> {"pending", "approved", "flagged"}]
        /\ callout' \in [Slots -> {None} \union [who : People, replacement : People \union {None}]]
    BY <2>1 DEF PlannerTypes, PlannerTypeOK
  <2> QED  BY <1>1, <2>1, <2>3, <2>4, ShiftsChange
<1> QED  BY <1>3, <1>4, <1>5, <1>6

LEMMA PlanTypes ==
  ASSUME PlannerTypes, BeginGenerate \/ (\E r \in Slots, p \in People : BeginAssign(r, p)) \/ Rollback
  PROVE  PlannerTypes'
<1>1. changes' \in 0..MaxChanges
  <2>1. changes' = changes \/ Change
    BY DEF BeginGenerate, BeginAssign, Rollback
  <2> QED  BY <2>1, PlannerBounds DEF PlannerTypes, PlannerTypeOK, Change
<1>2. UNCHANGED <<isolation, template, elsewhere, rules, exceptions, request, shift, override, review, callout>>
  BY DEF BeginGenerate, BeginAssign, Rollback, UnchangedByPlanner
<1>3. planning' # None => PlanOK' /\ planning'.op \in {"generate", "assign", "autofill"}
  <2>1. CASE BeginGenerate
    <3>1. ASSUME NEW k \in Patterns, NEW d \in Days
          PROVE  Missing(k, d) \in Nat
      <4>1. Shape[k].headcount \in Nat
        BY PatternsAssumption
      <4>2. Already(k, d) \in Nat
        BY SlotsAreFinite, FS_Subset, FS_CardinalityType DEF Already
      <4> QED  BY <4>1, <4>2 DEF Missing
    <3> QED  BY <2>1, <3>1 DEF BeginGenerate, PlanOK
  <2>2. ASSUME NEW r \in Slots, NEW p \in People, BeginAssign(r, p)
        PROVE  planning' # None => PlanOK' /\ planning'.op \in {"generate", "assign", "autofill"}
    BY <2>2 DEF BeginAssign, PlanOK
  <2>3. CASE Rollback
    BY <2>3 DEF Rollback
  <2> QED  BY <2>1, <2>2, <2>3
<1>4. PlannerTypeOK'
  BY <1>1, <1>2, <1>3 DEF PlannerTypes, PlannerTypeOK
<1> QED  BY <1>2, <1>3, <1>4, ShiftsStay

LEMMA EndAssignTypes ==
  ASSUME PlannerTypes, EndAssign
  PROVE  PlannerTypes'
<1>1. shift \in [Slots -> Shift] /\ \A r \in Slots : ShiftOK(shift[r], r)
  BY DEF PlannerTypes, PlannerTypeOK
<1>2. planning.op = "assign" /\ planning.row \in Slots /\ planning.who \in People /\ planning.against \in BOOLEAN
  BY DEF EndAssign, PlannerTypes, PlanOK
<1>3. shift' = [q \in Slots |-> shift'[q]] /\ \A q \in Slots : ShiftOK(shift'[q], q)
  <2>1. \/ shift' = shift
        \/ /\ shift[planning.row].status # "none"
           /\ shift' = [shift EXCEPT ![planning.row] = [shift[planning.row] EXCEPT !.who = planning.who]]
    BY <1>1, <1>2 DEF EndAssign, Assigned
  <2> QED  BY <1>1, <1>2, <2>1, GivenOK
<1>4. override' \in [Slots -> People \union {None}]
  BY <1>2 DEF EndAssign, OverrideOf, PlannerTypes, PlannerTypeOK
<1>5. review' \in [Days -> {"pending", "approved", "flagged"}]
  BY DEF EndAssign, PlannerTypes, PlannerTypeOK
<1>6. callout' \in [Slots -> {None} \union [who : People, replacement : People \union {None}]]
  <2>1. callout \in [Slots -> {None} \union [who : People, replacement : People \union {None}]]
    BY DEF PlannerTypes, PlannerTypeOK
  <2>2. \/ callout' = callout
        \/ /\ callout[planning.row] # None
           /\ callout' = [callout EXCEPT ![planning.row].replacement = planning.who]
    BY DEF EndAssign
  <2> QED  BY <1>2, <2>1, <2>2
<1>7. /\ UNCHANGED <<isolation, elsewhere, rules, exceptions, request, template>> /\ planning' = None
      /\ changes' \in 0..MaxChanges
  BY DEF EndAssign, UnchangedByPlanner, PlannerTypes, PlannerTypeOK
<1> QED  BY <1>3, <1>4, <1>5, <1>6, <1>7, ShiftsChange

LEMMA EndAutofillTypes ==
  ASSUME PlannerTypes, EndAutofill
  PROVE  PlannerTypes'
<1>1. shift \in [Slots -> Shift] /\ \A r \in Slots : ShiftOK(shift[r], r)
  BY DEF PlannerTypes, PlannerTypeOK
<1>2. planning.op = "autofill" /\ planning.picks \in [Slots -> People \union {None}]
  BY DEF EndAutofill, PlannerTypes, PlanOK
<1>3. shift' = [q \in Slots |-> shift'[q]]
  BY DEF EndAutofill, Filled
<1>4. ASSUME NEW q \in Slots
      PROVE  ShiftOK(shift'[q], q)
  <2>1. \/ shift'[q] = shift[q]
        \/ /\ shift[q].status # "none" /\ shift'[q] = [shift[q] EXCEPT !.who = planning.picks[q]]
    BY DEF EndAutofill, Filled, Picked
  <2> QED  BY <1>1, <1>2, <2>1, GivenOK
<1>5. /\ override' \in [Slots -> People \union {None}]
      /\ review' \in [Days -> {"pending", "approved", "flagged"}]
      /\ callout' \in [Slots -> {None} \union [who : People, replacement : People \union {None}]]
  BY DEF EndAutofill, PlannerTypes, PlannerTypeOK
<1>6. /\ UNCHANGED <<isolation, elsewhere, rules, exceptions, request, template>> /\ planning' = None
      /\ changes' \in 0..MaxChanges
  BY DEF EndAutofill, UnchangedByPlanner, PlannerTypes, PlannerTypeOK
<1> QED  BY <1>3, <1>4, <1>5, <1>6, ShiftsChange

-----------------------------------------------------------------------------
(* Autofill *)

LEMMA TimesOfShift ==
  ASSUME PlannerTypes, NEW r \in Slots, shift[r].status # "none"
  PROVE  Times(r) \in Period /\ InWeek(Times(r))
<1>1. PICK d \in Days : shift[r].start = ShiftTimes(r[1], d).start /\ shift[r].end = ShiftTimes(r[1], d).end
  BY DEF PlannerTypes, ShiftOK
<1>2. ShiftTimes(r[1], d) \in Period /\ InWeek(ShiftTimes(r[1], d))
  BY SlotParts, PatternTimes
<1>3. Times(r) = ShiftTimes(r[1], d)
  BY <1>1, <1>2 DEF Times, Period
<1> QED  BY <1>2, <1>3

\* What anybody has taken is a finite set of periods.
LEMMA TakenPeriods ==
  ASSUME PlannerTypes, NEW picks, \A r \in Slots : picks[r] # None => r \in Empty, NEW p \in People
  PROVE  TakenWith(picks)[p] \in SUBSET Period /\ IsFiniteSet(TakenWith(picks)[p])
<1> DEFINE TimesOf(S) == {Times(r) : r \in S}
           Given == {q \in Slots : picks[q] = p}
<1>1. ASSUME NEW S \in SUBSET Slots
      PROVE  IsFiniteSet(TimesOf(S))
  <2> DEFINE f == [r \in S |-> Times(r)]
  <2>1. IsFiniteSet(S)
    BY SlotsAreFinite, FS_Subset
  <2>2. f \in Surjection(S, TimesOf(S))
    BY DEF Surjection
  <2> HIDE DEF f
  <2> QED  BY <2>1, <2>2, FS_Surjection
<1>2. HeldBy(p, shift) \subseteq Slots /\ \A r \in HeldBy(p, shift) : shift[r].status = "active"
  BY DEF HeldBy
<1>3. Given \subseteq Slots /\ \A r \in Given : shift[r].status = "active"
  BY NoneAssumption DEF Empty, Active
<1>4. \A r \in HeldBy(p, shift) \union Given : Times(r) \in Period
  BY <1>2, <1>3, TimesOfShift
<1>5. elsewhere[p] \subseteq Period /\ IsFiniteSet(elsewhere[p])
  BY DeclaredAssumption DEF PlannerTypes, PlannerTypeOK
<1>6. IsFiniteSet(TimesOf(HeldBy(p, shift)) \union elsewhere[p])
  BY <1>1, <1>2, <1>5, FS_Union
<1>7. /\ Taken[p] \subseteq TimesOf(HeldBy(p, shift)) \union elsewhere[p]
      /\ TakenWith(picks)[p] = Taken[p] \union TimesOf(Given)
  BY DEF Taken, TakenWith
<1>8. IsFiniteSet(Taken[p])
  BY <1>6, <1>7, FS_Subset
<1>9. IsFiniteSet(TimesOf(Given))
  BY <1>1, <1>3
<1>10. IsFiniteSet(TakenWith(picks)[p])
  BY ZenonT(60), <1>7, <1>8, <1>9, FS_Union
<1>11. TakenWith(picks)[p] \subseteq Period
  BY <1>4, <1>5, <1>7
<1> QED  BY <1>10, <1>11

\* Of those who are free somebody is ahead of all others: by rank, then load, then name.
LEMMA BestIsFree ==
  ASSUME NEW taken, NEW r \in Slots, \A p \in People : taken[p] \in SUBSET Period /\ IsFiniteSet(taken[p]),
         Free(taken, r) # {}
  PROVE  Best(taken, r) \in Free(taken, r)
<1> DEFINE F == Free(taken, r)
           Ranks == {Rank(p, r) : p \in F}
<1>1. F \subseteq People
  BY SlotParts, PatternsAssumption DEF Free
<1>2. \A p \in F : Rank(p, r) \in Nat /\ Load(taken[p]) \in Nat /\ p \in Nat
  <2>1. \A p \in F : Rank(p, r) \in Nat
    BY DEF Rank
  <2>2. \A p \in F : Load(taken[p]) \in Nat
    BY <1>1, LoadOf
  <2> QED  BY <1>1, <2>1, <2>2, PeopleAssumption
<1> HIDE DEF F
<1>3. PICK a \in F : \A q \in F : Rank(a, r) <= Rank(q, r)
  <2>1. Ranks \in SUBSET Nat /\ Ranks # {}
    BY <1>2 DEF F
  <2>2. PICK m \in Ranks : \A k \in Ranks : m <= k
    BY <2>1, LeastNumber
  <2> QED  BY <2>2
<1> DEFINE F1 == {p \in F : Rank(p, r) = Rank(a, r)}
           Loads == {Load(taken[p]) : p \in F1}
<1>4. PICK b \in F1 : \A q \in F1 : Load(taken[b]) <= Load(taken[q])
  <2>1. Loads \in SUBSET Nat /\ Loads # {}
    BY <1>2, <1>3
  <2>2. PICK m \in Loads : \A k \in Loads : m <= k
    BY <2>1, LeastNumber
  <2> QED  BY <2>2
<1> DEFINE F2 == {p \in F1 : Load(taken[p]) = Load(taken[b])}
<1>5. PICK c \in F2 : \A q \in F2 : c <= q
  <2>1. F2 \in SUBSET Nat /\ F2 # {}
    BY <1>2, <1>4
  <2> QED  BY <2>1, LeastNumber
<1>6. ASSUME NEW q \in F \ {c}
      PROVE  Ahead(taken, r, c, q)
  <2>1. /\ Rank(c, r) = Rank(a, r) /\ Load(taken[c]) = Load(taken[b]) /\ c \in F /\ c \in Nat
        /\ Rank(c, r) \in Nat /\ Rank(q, r) \in Nat /\ Load(taken[c]) \in Nat /\ Load(taken[q]) \in Nat
        /\ q \in Nat /\ q # c /\ Rank(c, r) <= Rank(q, r)
    BY <1>2, <1>3, <1>5, <1>6
  <2>2. Rank(q, r) = Rank(c, r) => Load(taken[c]) <= Load(taken[q])
    BY <1>4, <1>6, <2>1
  <2>3. Rank(q, r) = Rank(c, r) /\ Load(taken[q]) = Load(taken[c]) => c <= q
    BY <1>5, <1>6, <2>1
  <2> QED  BY <2>1, <2>2, <2>3 DEF Ahead
<1>7. c \in F /\ \A q \in F \ {c} : Ahead(taken, r, c, q)
  BY <1>5, <1>6
<1> QED  BY <1>7 DEF Best, F

\* One slot more.
LEMMA OnePick ==
  ASSUME PlannerTypes, NEW done \in SUBSET Empty, NEW r \in Empty \ done, NEW picks, WellPicked(picks, done),
         NEW next, next = Pick([picks |-> picks, taken |-> TakenWith(picks)], r)
  PROVE  next = [picks |-> next.picks, taken |-> TakenWith(next.picks)] /\ WellPicked(next.picks, done \union {r})
<1> DEFINE taken == TakenWith(picks)
<1>1. /\ r \in Slots /\ r \in Empty /\ shift[r].status = "active" /\ done \subseteq Slots
      /\ picks \in [Slots -> People \union {None}] /\ picks[r] = None
      /\ \A q \in Slots : picks[q] # None => q \in Empty
  BY DEF Empty, Active, WellPicked
<1>2. \A p \in People : taken[p] \in SUBSET Period /\ IsFiniteSet(taken[p])
  BY <1>1, TakenPeriods
<1>3. Times(r) \in Period /\ Paid(Times(r)) \in Nat
  BY <1>1, <1>2, TimesOfShift, LoadWith, FS_EmptySet
<1>4. \A p \in People : p \in Free(taken, r) <=>
        /\ Willing(p, r) /\ \A s \in taken[p] : ~Overlaps(s, Times(r))
        /\ Load(taken[p]) + Paid(Times(r)) <= Overtime
  BY DEF Free, Willing
<1>5. CASE Free(taken, r) = {}
  <2>1. next = [picks |-> picks, taken |-> taken]
    BY <1>5 DEF Pick
  <2>2. ASSUME NEW p \in People, Willing(p, r)
        PROVE  \/ \E s \in taken[p] : Overlaps(s, Times(r))
               \/ ~(Load(taken[p]) + Paid(Times(r)) <= Overtime)
    BY <1>4, <1>5, <2>2
  <2> HIDE DEF taken
  <2>3. WellPicked(picks, done \union {r})
    BY <2>2 DEF WellPicked, taken
  <2> QED  BY <2>1, <2>3 DEF taken
<1>6. CASE Free(taken, r) # {}
  <2> DEFINE p == Best(taken, r)
             after == [picks EXCEPT ![r] = p]
  <2>1. p \in Free(taken, r)
    BY <1>1, <1>2, <1>6, BestIsFree
  <2>2. p \in People /\ p # None
    BY <1>1, <2>1, SlotParts, PatternsAssumption, NoneAssumption DEF Free
  <2>3. next = [picks |-> after, taken |-> [taken EXCEPT ![p] = @ \union {Times(r)}]]
    BY <1>6 DEF Pick, Remembered
  <2> HIDE DEF p
  <2>4. /\ after \in [Slots -> People \union {None}] /\ after[r] = p
        /\ \A q \in Slots \ {r} : after[q] = picks[q]
    BY <1>1, <2>2
  <2> HIDE DEF after
  <2>5. TakenWith(after) = [taken EXCEPT ![p] = @ \union {Times(r)}]
    <3>1. ASSUME NEW q \in People
          PROVE  TakenWith(after)[q] = IF q = p THEN taken[q] \union {Times(r)} ELSE taken[q]
      <4>1. {x \in Slots : after[x] = q}
              = IF q = p THEN {x \in Slots : picks[x] = q} \union {r} ELSE {x \in Slots : picks[x] = q}
        BY <1>1, <2>2, <2>4, NoneAssumption
      <4> QED  BY <4>1 DEF TakenWith
    <3>2. TakenWith(after) = [q \in People |-> TakenWith(after)[q]] /\ taken = [q \in People |-> taken[q]]
      BY DEF TakenWith
    <3> HIDE DEF taken
    <3> QED  BY <2>2, <3>1, <3>2
  <2>6. \A q \in People : taken[q] \subseteq TakenWith(after)[q]
    <3>1. taken = [q \in People |-> taken[q]]
      BY DEF TakenWith
    <3> HIDE DEF taken
    <3> QED  BY <2>2, <2>5, <3>1
  <2>7. \A q \in People : TakenWith(after)[q] \in SUBSET Period /\ IsFiniteSet(TakenWith(after)[q])
    <3>1. \A q \in Slots : after[q] # None => q \in Empty
      BY <1>1, <2>4
    <3> QED  BY <3>1, TakenPeriods
  <2>8. \A q \in People : /\ Load(taken[q]) <= Load(TakenWith(after)[q])
                          /\ Load(taken[q]) \in Nat /\ Load(TakenWith(after)[q]) \in Nat
    BY <1>2, <2>6, <2>7, LoadGrows, LoadOf
  <2>9. Load(TakenWith(after)[p]) <= Overtime /\ Willing(p, r)
    <3>1. TakenWith(after)[p] = taken[p] \union {Times(r)}
      <4>1. taken = [q \in People |-> taken[q]]
        BY DEF TakenWith
      <4> HIDE DEF taken
      <4> QED  BY <2>2, <2>5, <4>1
    <3>2. Load(TakenWith(after)[p]) <= Load(taken[p]) + Paid(Times(r))
      BY <1>2, <1>3, <2>2, <3>1, LoadWith
    <3>3. Load(taken[p]) + Paid(Times(r)) <= Overtime /\ Willing(p, r)
      BY <1>4, <2>1, <2>2
    <3> QED  BY <1>3, <2>2, <2>8, <3>2, <3>3, PlannerBounds
  <2>10. ASSUME NEW q \in Slots, after[q] # None
         PROVE  /\ q \in done \union {r} /\ after[q] \in People /\ Willing(after[q], q)
                /\ Load(TakenWith(after)[after[q]]) <= Overtime
    <3>1. CASE q = r
      BY <2>2, <2>4, <2>9, <3>1
    <3>2. CASE q # r /\ after[q] = p
      BY <2>2, <2>4, <2>9, <2>10, <3>2 DEF WellPicked
    <3>3. CASE q # r /\ after[q] # p
      <4>1. picks[q] = after[q] /\ picks[q] \in People /\ picks[q] # p
            /\ q \in done /\ Willing(picks[q], q) /\ Load(taken[picks[q]]) <= Overtime
        BY <2>4, <2>10, <3>3 DEF WellPicked
      <4>2. TakenWith(after)[picks[q]] = taken[picks[q]]
        <5>1. taken = [x \in People |-> taken[x]]
          BY DEF TakenWith
        <5> HIDE DEF taken
        <5> QED  BY <2>5, <4>1, <5>1
      <4> QED  BY <4>1, <4>2
    <3> QED  BY <3>1, <3>2, <3>3
  <2>11. ASSUME NEW x \in done \union {r}, NEW q \in People, after[x] = None, Willing(q, x)
         PROVE  \/ \E s \in TakenWith(after)[q] : Overlaps(s, Times(x))
                \/ ~(Load(TakenWith(after)[q]) + Paid(Times(x)) <= Overtime)
    <3>1. x \in done /\ x # r /\ picks[x] = None /\ x \in Slots /\ shift[x].status = "active"
      BY <1>1, <2>2, <2>4, <2>11 DEF Empty, Active
    <3>2. \/ \E s \in taken[q] : Overlaps(s, Times(x))
          \/ ~(Load(taken[q]) + Paid(Times(x)) <= Overtime)
      BY <2>11, <3>1 DEF WellPicked
    <3>3. Times(x) \in Period /\ Paid(Times(x)) \in Nat
      BY <1>2, <3>1, TimesOfShift, LoadWith, FS_EmptySet
    <3> HIDE DEF taken
    <3> QED  BY <2>6, <2>8, <3>2, <3>3, PlannerBounds
  <2>12. WellPicked(after, done \union {r})
    BY <2>4, <2>10, <2>11 DEF WellPicked
  <2> QED  BY <2>3, <2>5, <2>12
<1> QED  BY <1>5, <1>6

\* Autofill goes on until it has been through all slots.
LEMMA FoldIsThere ==
  ASSUME NEW order, Len(order) \in Nat, NEW Base
  PROVE  \E g : g = [n \in 0..Len(order) |-> IF n = 0 THEN Base ELSE Pick(g[n - 1], order[n])]
<1> DEFINE Is(g, m) == g = [n \in 0..m |-> IF n = 0 THEN Base ELSE Pick(g[n - 1], order[n])]
           Missed == {m \in Nat : ~\E g : Is(g, m)}
<1>1. CASE Missed = {}
  BY <1>1
<1>2. CASE Missed # {}
  <2>1. Missed \in SUBSET Nat
    OBVIOUS
  <2>2. PICK m \in Missed : \A k \in Missed : m <= k
    BY <1>2, <2>1, LeastNumber
  <2>3. m \in Nat /\ ~\E g : Is(g, m)
    BY <2>2
  <2>4. CASE m = 0
    <3>1. Is([n \in 0..0 |-> Base], 0)
      OBVIOUS
    <3> QED  BY <2>3, <2>4, <3>1
  <2>5. CASE m # 0
    <3>1. m - 1 \in Nat /\ m - 1 \notin Missed
      <4>1. m - 1 \in Nat /\ ~(m <= m - 1)
        BY <2>3, <2>5
      <4> HIDE DEF Missed
      <4> QED  BY <2>2, <4>1
    <3>2. PICK f : Is(f, m - 1)
      BY <3>1
    <3> DEFINE g == [n \in 0..m |-> IF n = m THEN Pick(f[m - 1], order[m]) ELSE f[n]]
    <3>3. ASSUME NEW n \in 0..m
          PROVE  g[n] = IF n = 0 THEN Base ELSE Pick(g[n - 1], order[n])
      <4>1. CASE n = m
        <5>1. g[n - 1] = f[m - 1]
          BY <2>3, <2>5, <4>1
        <5> QED  BY <2>3, <2>5, <4>1, <5>1
      <4>2. CASE n # m
        <5>1. n \in 0..m - 1 /\ g[n] = f[n]
          BY <2>3, <4>2
        <5>2. n # 0 => g[n - 1] = f[n - 1]
          BY <2>3, <5>1
        <5>3. f[n] = IF n = 0 THEN Base ELSE Pick(f[n - 1], order[n])
          BY <3>2, <5>1
        <5> QED  BY <5>1, <5>2, <5>3
      <4> QED  BY <4>1, <4>2
    <3>4. g = [n \in 0..m |-> g[n]]
      OBVIOUS
    <3> HIDE DEF g
    <3>5. Is(g, m)
      BY <3>3, <3>4
    <3> QED  BY <2>3, <3>5
  <2> QED  BY <2>4, <2>5
<1> QED  BY <1>1, <1>2

LEMMA AutofillIsRight ==
  ASSUME PlannerTypes, NEW order \in InOrder
  PROVE  WellPicked(Autofilled(order), Empty)
<1> DEFINE N == Len(order)
           Base == [picks |-> Nobody, taken |-> Taken]
           done[n \in 0..Len(order)] == IF n = 0 THEN Base ELSE Pick(done[n - 1], order[n])
           Seen(n) == {order[i] : i \in 1..n}
           Good(n) == /\ done[n] = [picks |-> done[n].picks, taken |-> TakenWith(done[n].picks)]
                      /\ WellPicked(done[n].picks, Seen(n))
<1>1. Autofilled(order) = done[N].picks
  BY DEF Autofilled
<1>2. IsFiniteSet(Empty) /\ Cardinality(Empty) \in Nat
  BY SlotsAreFinite, FS_Subset, FS_CardinalityType DEF Empty
<1>3. /\ order \in [1..Cardinality(Empty) -> Empty]
      /\ \A i, j \in 1..Cardinality(Empty) : i # j => order[i] # order[j]
  BY DEF InOrder, SetToSeqs
<1>4. N = Cardinality(Empty) /\ N \in Nat
  BY <1>2, <1>3
<1>5. Seen(N) = Empty
  <2>1. Seen(N) \subseteq Empty
    BY <1>3, <1>4
  <2>2. order \in Surjection(1..N, Seen(N)) /\ order \in Injection(1..N, Seen(N))
    <3>1. order \in [1..N -> Seen(N)]
      BY <1>3, <1>4
    <3>2. \A x \in Seen(N) : \E i \in 1..N : order[i] = x
      OBVIOUS
    <3>3. \A i, j \in 1..N : order[i] = order[j] => i = j
      BY <1>3, <1>4
    <3> HIDE DEF Seen, N
    <3> QED  BY <3>1, <3>2, <3>3 DEF Surjection, Injection, IsInjective
  <2>3. IsFiniteSet(1..N) /\ Cardinality(1..N) = N
    BY <1>4, FS_Interval
  <2>4. Cardinality(Seen(N)) = Cardinality(Empty)
    <3> HIDE DEF Seen, N
    <3>1. Cardinality(Seen(N)) = Cardinality(1..N)
      BY <2>2, <2>3, FS_Surjection
    <3> QED  BY <1>4, <2>3, <3>1
  <2> QED  BY <1>2, <2>1, <2>4, FS_Subset
<1>6. done = [n \in 0..N |-> IF n = 0 THEN Base ELSE Pick(done[n - 1], order[n])]
  BY <1>4, FoldIsThere
<1> HIDE DEF done
<1>7. done[0] = Base /\ \A n \in 1..N : done[n] = Pick(done[n - 1], order[n])
  BY <1>4, <1>6
<1>8. Good(0)
  <2>1. \A r \in Slots : Nobody[r] = None
    BY DEF Nobody
  <2>2. TakenWith(Nobody) = Taken
    BY <2>1, NoneAssumption DEF TakenWith, Taken
  <2>3. Seen(0) = {}
    OBVIOUS
  <2>4. WellPicked(Nobody, {})
    BY <2>1 DEF WellPicked, Nobody
  <2>5. done[0].picks = Nobody /\ done[0] = [picks |-> Nobody, taken |-> TakenWith(Nobody)]
    BY <1>7, <2>2
  <2> HIDE DEF Seen
  <2> QED  BY <2>3, <2>4, <2>5
<1>9. ASSUME NEW n \in 1..N, Good(n - 1)
      PROVE  Good(n)
  <2>1. /\ n - 1 \in 0..N /\ order[n] \in Empty \ Seen(n - 1) /\ Seen(n - 1) \in SUBSET Empty
        /\ Seen(n) = Seen(n - 1) \union {order[n]}
    BY <1>3, <1>4
  <2>2. done[n] = Pick([picks |-> done[n - 1].picks, taken |-> TakenWith(done[n - 1].picks)], order[n])
    BY <1>7, <1>9
  <2>3. WellPicked(done[n - 1].picks, Seen(n - 1))
    BY <1>9
  <2> HIDE DEF Seen
  <2>4. /\ done[n] = [picks |-> done[n].picks, taken |-> TakenWith(done[n].picks)]
        /\ WellPicked(done[n].picks, Seen(n - 1) \union {order[n]})
    BY <2>1, <2>2, <2>3, OnePick
  <2> QED  BY <2>1, <2>4
<1> HIDE DEF Good
<1>10. Good(N)
  <2> DEFINE Bad == {n \in Nat : n <= N /\ ~Good(n)}
  <2>1. CASE Bad = {}
    BY <1>4, <2>1
  <2>2. CASE Bad # {}
    <3>1. Bad \in SUBSET Nat
      OBVIOUS
    <3>2. PICK m \in Bad : \A k \in Bad : m <= k
      BY <2>2, <3>1, LeastNumber
    <3>3. m \in Nat /\ m <= N /\ ~Good(m) /\ m # 0
      BY <1>8, <3>2
    <3>4. m \in 1..N /\ m - 1 \in Nat /\ m - 1 <= N /\ m - 1 \notin Bad
      BY <1>4, <3>2, <3>3
    <3> QED  BY <1>9, <3>3, <3>4
  <2> QED  BY <2>1, <2>2
<1> QED  BY <1>1, <1>5, <1>10 DEF Good

-----------------------------------------------------------------------------
(* What was decided is still right *)

LEMMA PlannerTypesStep == PlannerTypes /\ [PlannerNext]_plannerVars => PlannerTypes'
<1> SUFFICES ASSUME PlannerTypes, [PlannerNext]_plannerVars
             PROVE  PlannerTypes'
  OBVIOUS
<1>1. CASE UNCHANGED plannerVars
  BY <1>1 DEF plannerVars, PlannerTypes, PlannerTypeOK, PlanOK
<1>2. ASSUME NEW order \in InOrder, BeginAutofill, planning' = [op |-> "autofill", picks |-> Autofilled(order)]
      PROVE  PlannerTypes'
  <2>1. Autofilled(order) \in [Slots -> People \union {None}]
    BY AutofillIsRight DEF WellPicked
  <2>2. UNCHANGED <<isolation, template, elsewhere, rules, exceptions, request, shift, override, review, callout>>
    BY <1>2 DEF BeginAutofill, UnchangedByPlanner
  <2>3. changes' \in 0..MaxChanges
    BY <1>2, PlannerBounds DEF BeginAutofill, Change, PlannerTypes, PlannerTypeOK
  <2>4. planning'.op = "autofill" /\ PlanOK'
    BY <1>2, <2>1 DEF PlanOK
  <2>5. PlannerTypeOK'
    BY <2>2, <2>3, <2>4 DEF PlannerTypes, PlannerTypeOK
  <2> QED  BY <2>2, <2>4, <2>5, ShiftsStay
<1>3. BeginAutofill => PlannerTypes'
  BY <1>2 DEF BeginAutofill
<1> QED  BY <1>1, <1>3, PeopleTypes, BoardTypes, WeekTypes, PlanTypes, EndAssignTypes, EndAutofillTypes DEF PlannerNext

\* One at a time, nothing happens while a transaction is under way but its own end.
LEMMA SerialAlone ==
  ASSUME Serial, planning # None, [PlannerNext]_plannerVars
  PROVE  UNCHANGED plannerVars \/ EndGenerate \/ EndAssign \/ EndAutofill \/ Rollback
<1>1. ~Between
  BY DEF Between
<1>2. ASSUME NEW p \in People
      PROVE  ~(ReplaceWeeklyAvailability(p) \/ AddAvailabilityException(p)
               \/ RemoveAvailabilityException(p) \/ RequestTimeOff(p) \/ DecideTimeOff(p) \/ CancelTimeOff(p))
  BY SMTT(60), <1>1 DEF ReplaceWeeklyAvailability, AddAvailabilityException, RemoveAvailabilityException,
              RequestTimeOff, DecideTimeOff, CancelTimeOff
<1>3. ASSUME NEW r \in Slots
      PROVE  /\ ~\E d \in Days : UpdateShift(r, d)
             /\ ~\E p \in People \union {None} : AssignShift(r, p)
             /\ ~(CancelShift(r) \/ ClearSlot(r) \/ ReportCallout(r))
             /\ ~\E p \in People : BeginAssign(r, p)
  BY <1>1 DEF UpdateShift, AssignShift, CancelShift, ClearSlot, ReportCallout, BeginAssign
<1>4. ~(CreateTemplateSet \/ ArchiveTemplateSet \/ BeginGenerate \/ BeginAutofill \/ \E d \in Days : SetDayReview(d))
  BY <1>1 DEF CreateTemplateSet, ArchiveTemplateSet, BeginGenerate, BeginAutofill, SetDayReview
<1> QED  BY <1>2, <1>3, <1>4 DEF PlannerNext

LEMMA SameQuestions ==
  ASSUME UNCHANGED <<shift, elsewhere, rules, exceptions, request>>, NEW CONSTANT p, NEW CONSTANT r
  PROVE  /\ Times(r)' = Times(r)
         /\ TimeOff(p, "approved", Times(r))' <=> TimeOff(p, "approved", Times(r))
         /\ AvailabilityState(p, Times(r))' = AvailabilityState(p, Times(r))
<1>1. Times(r)' = Times(r)
  BY DEF Times
<1>2. TimeOff(p, "approved", Times(r))' <=> TimeOff(p, "approved", Times(r))
  BY <1>1 DEF TimeOff
<1>3. WindowsDuring(p, Times(r))' = WindowsDuring(p, Times(r))
  BY <1>1 DEF WindowsDuring, WindowsOn
<1>4. AvailabilityState(p, Times(r))' = AvailabilityState(p, Times(r))
  BY <1>1, <1>2, <1>3 DEF AvailabilityState
<1> QED  BY <1>1, <1>2, <1>4

LEMMA SameMissing ==
  ASSUME UNCHANGED shift, NEW CONSTANT k, NEW CONSTANT d
  PROVE  Missing(k, d)' = Missing(k, d)
BY DEF Missing, Already, Active

LEMMA SamePicks ==
  ASSUME UNCHANGED <<shift, elsewhere, rules, exceptions, request>>, NEW CONSTANT picks
  PROVE  WellPicked(picks, Empty)' <=> WellPicked(picks, Empty)
<1>1. Empty' = Empty
  BY DEF Empty, Active
<1>2. Taken' = Taken
  BY DEF Taken, HeldBy, Times
<1>3. TakenWith(picks)' = TakenWith(picks)
  BY <1>2 DEF TakenWith, Times
<1>4. ASSUME NEW p, NEW r
      PROVE  (Willing(p, r)' <=> Willing(p, r)) /\ Times(r)' = Times(r)
  BY SameQuestions DEF Willing
<1> QED  BY <1>1, <1>3, <1>4 DEF WellPicked

LEMMA SerialStays ==
  ASSUME [PlannerNext]_plannerVars
  PROVE  Serial' <=> Serial
<1>1. isolation' = isolation
  <2>1. ASSUME NEW p \in People
        PROVE  ReplaceWeeklyAvailability(p) \/ AddAvailabilityException(p)
               \/ RemoveAvailabilityException(p) \/ RequestTimeOff(p) \/ DecideTimeOff(p) \/ CancelTimeOff(p)
               => isolation' = isolation
    BY SMTT(60) DEF ReplaceWeeklyAvailability, AddAvailabilityException, RemoveAvailabilityException, RequestTimeOff,
           DecideTimeOff, CancelTimeOff, UnchangedByPeople
  <2>2. ASSUME NEW r \in Slots
        PROVE  (\E d \in Days : UpdateShift(r, d)) \/ (\E p \in People \union {None} : AssignShift(r, p))
               \/ CancelShift(r) \/ ClearSlot(r) \/ ReportCallout(r) \/ (\E p \in People : BeginAssign(r, p))
               => isolation' = isolation
    BY DEF UpdateShift, AssignShift, CancelShift, ClearSlot, ReportCallout, BeginAssign, UnchangedByBoard,
           UnchangedByPlanner
  <2>3. CreateTemplateSet \/ ArchiveTemplateSet \/ (\E d \in Days : SetDayReview(d))
        \/ EndGenerate \/ EndAssign \/ EndAutofill \/ Rollback \/ BeginGenerate \/ BeginAutofill
        => isolation' = isolation
    BY DEF CreateTemplateSet, ArchiveTemplateSet, SetDayReview, UnchangedByPlanner, EndGenerate, EndAssign,
           EndAutofill, Rollback, BeginGenerate, BeginAutofill
  <2>4. UNCHANGED plannerVars => isolation' = isolation
    BY DEF plannerVars
  <2> QED  BY <2>1, <2>2, <2>3, <2>4 DEF PlannerNext
<1> QED  BY <1>1 DEF Serial

LEMMA DecidedStep ==
  ASSUME PlannerInvariant, [PlannerNext]_plannerVars
  PROVE  Decided'
<1> DEFINE Rows == <<shift, elsewhere, rules, exceptions, request>>
<1>1. CASE ~Serial'
  BY <1>1 DEF Decided
<1>2. CASE Serial /\ planning # None
  <2>1. CASE UNCHANGED plannerVars
    <3>1. UNCHANGED Rows /\ planning' = planning /\ Serial
      BY <1>2, <2>1 DEF plannerVars
    <3> DEFINE missing == planning.missing
    <3>2. ASSUME planning.op = "generate", NEW k \in Patterns, NEW d \in Days
          PROVE  planning'.missing[<<k, d>>] = Missing(k, d)'
      BY <1>2, <3>1, <3>2, SameMissing DEF PlannerInvariant, Decided
    <3>3. planning.op = "assign" => ~TimeOff(planning.who, "approved", Times(planning.row))'
      BY <1>2, <2>1 DEF plannerVars, PlannerInvariant, Decided, TimeOff, Times
    <3>4. planning.op = "autofill" => WellPicked(planning.picks, Empty)'
      <4> SUFFICES ASSUME planning.op = "autofill" PROVE WellPicked(planning.picks, Empty)'
        OBVIOUS
      <4>1. WellPicked(planning.picks, Empty)
        BY <1>2 DEF PlannerInvariant, Decided
      <4>2. \A picks : WellPicked(picks, Empty)' <=> WellPicked(picks, Empty)
        BY <3>1, SamePicks
      <4> QED  BY <3>1, <4>1, <4>2
    <3> QED  BY <3>1, <3>2, <3>3, <3>4 DEF Decided
  <2>2. CASE EndGenerate \/ EndAssign \/ EndAutofill \/ Rollback
    BY <2>2 DEF EndGenerate, EndAssign, EndAutofill, Rollback, Decided
  <2> QED  BY <1>2, <2>1, <2>2, SerialAlone
<1>3. ASSUME planning = None, NEW r \in Slots, NEW p \in People, BeginAssign(r, p)
      PROVE  Decided'
  <2>1. /\ UNCHANGED Rows /\ planning'.op = "assign" /\ planning'.row = r /\ planning'.who = p
        /\ AvailabilityState(p, Times(r)) # "time_off"
    BY <1>3 DEF BeginAssign, UnchangedByPlanner
  <2>2. ~TimeOff(p, "approved", Times(r))
    BY <2>1, States
  <2>3. ~TimeOff(planning.who, "approved", Times(planning.row))'
    BY <2>1, <2>2 DEF TimeOff, Times
  <2> QED  BY <2>1, <2>3 DEF Decided
<1>4. ASSUME planning = None, BeginGenerate
      PROVE  Decided'
  <2>1. UNCHANGED Rows /\ planning' = [op |-> "generate", missing |-> [w \in Patterns \X Days |-> Missing(w[1], w[2])]]
    BY <1>4 DEF BeginGenerate, UnchangedByPlanner
  <2>2. \A k \in Patterns, d \in Days : planning'.missing[<<k, d>>] = Missing(k, d)'
    BY <2>1, SameMissing
  <2> QED  BY <2>1, <2>2 DEF Decided
<1>5. ASSUME planning = None, BeginAutofill
      PROVE  Decided'
  <2>1. PICK order \in InOrder : planning' = [op |-> "autofill", picks |-> Autofilled(order)]
    BY <1>5 DEF BeginAutofill
  <2>2. UNCHANGED Rows
    BY <1>5 DEF BeginAutofill, UnchangedByPlanner
  <2>3. WellPicked(Autofilled(order), Empty)
    BY AutofillIsRight DEF PlannerInvariant
  <2>4. \A picks : WellPicked(picks, Empty)' <=> WellPicked(picks, Empty)
    BY <2>2, SamePicks
  <2>5. planning'.op = "autofill" /\ planning'.picks = Autofilled(order)
    BY <2>1
  <2>6. WellPicked(planning.picks, Empty)'
    BY <2>3, <2>4, <2>5
  <2> QED  BY <2>5, <2>6 DEF Decided
<1>6. CASE Serial' /\ planning = None
  <2>1. planning' = None \/ BeginGenerate \/ BeginAutofill \/ \E r \in Slots, p \in People : BeginAssign(r, p)
    <3>1. ASSUME NEW p \in People
          PROVE  ReplaceWeeklyAvailability(p) \/ AddAvailabilityException(p)
                 \/ RemoveAvailabilityException(p) \/ RequestTimeOff(p) \/ DecideTimeOff(p) \/ CancelTimeOff(p)
                 => planning' = planning
      BY SMTT(60) DEF ReplaceWeeklyAvailability, AddAvailabilityException, RemoveAvailabilityException, RequestTimeOff,
             DecideTimeOff, CancelTimeOff, UnchangedByPeople
    <3>2. ASSUME NEW r \in Slots
          PROVE  (\E d \in Days : UpdateShift(r, d)) \/ (\E p \in People \union {None} : AssignShift(r, p))
                 \/ CancelShift(r) \/ ClearSlot(r) \/ ReportCallout(r)
                 => planning' = planning
      BY DEF UpdateShift, AssignShift, CancelShift, ClearSlot, ReportCallout, UnchangedByBoard
    <3>3. CreateTemplateSet \/ ArchiveTemplateSet \/ (\E d \in Days : SetDayReview(d)) => planning' = planning
      BY DEF CreateTemplateSet, ArchiveTemplateSet, SetDayReview
    <3>4. EndGenerate \/ EndAssign \/ EndAutofill \/ Rollback => planning' = None
      BY DEF EndGenerate, EndAssign, EndAutofill, Rollback
    <3>5. UNCHANGED plannerVars => planning' = planning
      BY DEF plannerVars
    <3> QED  BY <1>6, <3>1, <3>2, <3>3, <3>4, <3>5 DEF PlannerNext
  <2>2. planning' = None => Decided'
    BY DEF Decided
  <2> QED  BY <1>3, <1>4, <1>5, <1>6, <2>1, <2>2
<1>7. Serial' <=> Serial
  BY SerialStays
<1> QED  BY <1>1, <1>2, <1>6, <1>7

-----------------------------------------------------------------------------
(* Slots *)

\* The shifts that generating the week made for a pattern and a day and the board did not move.
Made(k, d) == {r \in Slots : r[1] = k /\ Active(r) /\ ~shift[r].moved /\ DateOf(shift[r].start) = d}

LEMMA FewerMade ==
  ASSUME SlotsAreNotDuplicated, Serial' <=> Serial,
         \A k \in Patterns, d \in Days : Made(k, d)' \subseteq Made(k, d)
  PROVE  SlotsAreNotDuplicated'
<1> SUFFICES ASSUME Serial, NEW k \in Patterns, NEW d \in Days
             PROVE  Cardinality(Made(k, d)') <= Shape[k].headcount
  BY DEF SlotsAreNotDuplicated, Made
<1>1. Made(k, d) \subseteq Slots /\ IsFiniteSet(Made(k, d))
  BY SlotsAreFinite, FS_Subset DEF Made
<1>2. Cardinality(Made(k, d)) <= Shape[k].headcount
  BY DEF SlotsAreNotDuplicated, Made
<1>3. /\ Cardinality(Made(k, d)') <= Cardinality(Made(k, d)) /\ IsFiniteSet(Made(k, d)')
      /\ Cardinality(Made(k, d)) \in Nat /\ Cardinality(Made(k, d)') \in Nat
  BY <1>1, FS_Subset, FS_CardinalityType
<1>4. Shape[k].headcount \in Nat
  BY PatternsAssumption
<1> QED  BY <1>2, <1>3, <1>4

\* The first so many of a set of numbers are no more than that.
LEMMA FirstFew ==
  ASSUME NEW c \in Nat, NEW S \in SUBSET (1..c), NEW m \in Nat,
         NEW F, F = {n \in S : Cardinality({x \in S : x <= n}) <= m}
  PROVE  IsFiniteSet(F) /\ Cardinality(F) <= m
<1>1. IsFiniteSet(S) /\ IsFiniteSet(F) /\ S \subseteq Nat
  <2>1. IsFiniteSet(1..c)
    BY FS_Interval
  <2>2. IsFiniteSet(S)
    BY <2>1, FS_Subset
  <2>3. F \in SUBSET S
    OBVIOUS
  <2>4. IsFiniteSet(F)
    BY <2>2, <2>3, FS_Subset
  <2> QED  BY <2>2, <2>4
<1>2. CASE F = {}
  <2>1. Cardinality(F) = 0
    BY <1>2, FS_EmptySet, Zenon
  <2>2. 0 <= m
    OBVIOUS
  <2> QED  BY <1>1, <2>1, <2>2
<1>3. CASE F # {}
  <2> DEFINE Above == {n \in Nat : \A k \in F : k <= n}
  <2>1. PICK b \in Above : \A n \in Above : b <= n
    <3>1. c \in Above /\ Above \in SUBSET Nat
      OBVIOUS
    <3> HIDE DEF Above
    <3> QED  BY <3>1, LeastNumber
  <2>2. b \in F
    <3> SUFFICES ASSUME b \notin F PROVE FALSE
      OBVIOUS
    <3>1. PICK a \in F : a \in 1..c
      BY <1>3
    <3>2. b \in Nat /\ a <= b /\ \A k \in F : k \in Nat /\ k <= b /\ k # b
      BY <1>1, <2>1
    <3>3. b - 1 \in Nat /\ ~(b <= b - 1)
      BY <3>1, <3>2
    <3>4. \A k \in F : k <= b - 1
      BY <3>2, <3>3
    <3> QED  BY <2>1, <3>3, <3>4
  <2>3. F \subseteq {x \in S : x <= b}
    BY <2>1
  <2>4. IsFiniteSet({x \in S : x <= b})
    BY <1>1, FS_Subset
  <2>5. /\ Cardinality(F) <= Cardinality({x \in S : x <= b}) /\ Cardinality({x \in S : x <= b}) <= m
        /\ Cardinality(F) \in Nat /\ Cardinality({x \in S : x <= b}) \in Nat
    <3>1. Cardinality({x \in S : x <= b}) <= m
      BY <2>2
    <3>2. Cardinality(F) <= Cardinality({x \in S : x <= b})
      BY <2>3, <2>4, FS_Subset
    <3> QED  BY <1>1, <2>4, <3>1, <3>2, FS_CardinalityType
  <2> DEFINE u == Cardinality(F)
             v == Cardinality({x \in S : x <= b})
  <2>6. u <= v /\ v <= m /\ u \in Nat /\ v \in Nat
    BY <2>5
  <2> HIDE DEF u, v
  <2>7. u <= m
    BY <2>6
  <2> QED  BY <1>1, <2>7 DEF u
<1> QED  BY <1>1, <1>2, <1>3

\* Generating the week again tops a pattern's day up to the headcount.
LEMMA GeneratedOnce ==
  ASSUME PlannerInvariant, EndGenerate
  PROVE  SlotsAreNotDuplicated'
<1> SUFFICES ASSUME Serial, NEW k \in Patterns, NEW d \in Days
             PROVE  Cardinality(Made(k, d)') <= Shape[k].headcount
  BY DEF SlotsAreNotDuplicated, Made, Serial, EndGenerate, UnchangedByPlanner
<1> DEFINE free == Unused(k, d)
           m == planning.missing[<<k, d>>]
           First == {n \in free : Cardinality({x \in free : x <= n}) <= m}
           New == {r \in Inserted : r[1] = k /\ r[2] = d}
           Held == {r \in Slots : r[1] = k /\ Active(r) /\ DateOf(shift[r].start) = d}
<1>1. planning # None /\ planning.op = "generate" /\ m = Missing(k, d)
  BY DEF EndGenerate, PlannerInvariant, Decided
<1>2. Shape[k].headcount \in Nat /\ Copies \in Nat
  BY PatternsAssumption, PlannerBounds
<1>3. IsFiniteSet(Held) /\ Cardinality(Held) = Already(k, d) /\ Already(k, d) \in Nat
  BY SlotsAreFinite, FS_Subset, FS_CardinalityType DEF Already
<1>4. m \in Nat /\ (m = 0 \/ m + Already(k, d) = Shape[k].headcount)
  BY <1>1, <1>2, <1>3 DEF Missing
<1>5. IsFiniteSet(New) /\ Cardinality(New) <= m /\ Cardinality(New) \in Nat
  <2>1. free \in SUBSET (1..Copies)
    BY DEF Unused
  <2>2. IsFiniteSet(First) /\ Cardinality(First) <= m
    BY <1>2, <1>4, <2>1, FirstFew
  <2> DEFINE f == [n \in First |-> <<k, d, n>>]
  <2>3. \A r \in New : r[3] \in First /\ f[r[3]] = r
    BY SlotParts DEF Inserted
  <2>4. New = {f[n] : n \in {n \in First : f[n] \in New}}
    BY <2>3
  <2> DEFINE some == {n \in First : f[n] \in New}
             g == [n \in some |-> f[n]]
  <2>5. IsFiniteSet(some) /\ Cardinality(some) <= Cardinality(First) /\ Cardinality(some) \in Nat
        /\ Cardinality(First) \in Nat
    BY <2>2, FS_Subset, FS_CardinalityType
  <2>6. g \in Surjection(some, New)
    <3>1. g \in [some -> New] /\ \A r \in New : \E n \in some : g[n] = r
      BY <2>3
    <3> HIDE DEF g, some, New
    <3> QED  BY <3>1 DEF Surjection
  <2> HIDE DEF f, g, some, First, New, m, free
  <2>7. IsFiniteSet(New) /\ Cardinality(New) <= Cardinality(some)
    BY <2>5, <2>6, FS_Surjection
  <2>8. Cardinality(New) \in Nat
    BY <2>7, FS_CardinalityType
  <2> QED  BY <1>4, <2>2, <2>5, <2>7, <2>8
<1>6. ASSUME NEW r \in Made(k, d)'
      PROVE  r \in New \/ r \in Made(k, d)
  <2>1. r \in Slots /\ r[1] = k /\ shift'[r].status = "active" /\ ~shift'[r].moved /\ DateOf(shift'[r].start) = d
    BY <1>6 DEF Made, Active
  <2>2. CASE r \in Inserted
    <3>1. shift'[r].start = ShiftTimes(r[1], r[2]).start
      BY <2>1, <2>2 DEF EndGenerate, NoShift
    <3>2. r[2] = d
      BY <2>1, <3>1, SlotParts, PatternTimes
    <3> QED  BY <2>1, <2>2, <3>2
  <2>3. CASE r \notin Inserted
    BY <2>1, <2>3 DEF EndGenerate, Made, Active
  <2> QED  BY <2>2, <2>3
<1>7. /\ Made(k, d) \subseteq Held /\ IsFiniteSet(Made(k, d))
      /\ Cardinality(Made(k, d)) <= Cardinality(Held) /\ Cardinality(Made(k, d)) \in Nat
  <2>1. Made(k, d) \subseteq Held
    BY DEF Made
  <2> QED  BY <1>3, <2>1, FS_Subset, FS_CardinalityType
<1>8. Cardinality(Made(k, d)) <= Shape[k].headcount
  BY DEF PlannerInvariant, SlotsAreNotDuplicated, Made
<1> HIDE DEF New, Held, m
<1>9. /\ IsFiniteSet(Made(k, d) \union New)
      /\ Cardinality(Made(k, d) \union New) <= Cardinality(Made(k, d)) + Cardinality(New)
  <2>1. Cardinality(Made(k, d) \intersect New) \in Nat
    BY <1>7, FS_Intersection, FS_CardinalityType
  <2> DEFINE a == Cardinality(Made(k, d))
             b == Cardinality(New)
             both == Cardinality(Made(k, d) \intersect New)
             all == Cardinality(Made(k, d) \union New)
  <2>2. IsFiniteSet(Made(k, d) \union New) /\ all = a + b - both
    BY <1>5, <1>7, FS_Union
  <2>3. a \in Nat /\ b \in Nat /\ both \in Nat
    BY <1>5, <1>7, <2>1
  <2> HIDE DEF a, b, both, all
  <2>4. all <= a + b
    BY <2>2, <2>3
  <2> QED  BY <2>2, <2>4 DEF a, b, all
<1>10. Cardinality(Made(k, d)') <= Cardinality(Made(k, d) \union New)
  BY <1>6, <1>9, FS_Subset
<1>11. Cardinality(Made(k, d)') \in Nat /\ Cardinality(Made(k, d) \union New) \in Nat
  BY <1>6, <1>9, FS_Subset, FS_CardinalityType
<1> DEFINE after == Cardinality(Made(k, d)')
           a == Cardinality(Made(k, d))
           b == Cardinality(New)
           h == Cardinality(Held)
           all == Cardinality(Made(k, d) \union New)
<1>12. /\ after \in Nat /\ a \in Nat /\ b \in Nat /\ h \in Nat /\ all \in Nat
       /\ after <= all /\ all <= a + b /\ a <= h /\ b <= m /\ a <= Shape[k].headcount
       /\ (m = 0 \/ m + h = Shape[k].headcount)
  BY <1>3, <1>4, <1>5, <1>7, <1>8, <1>9, <1>10, <1>11
<1> HIDE DEF after, a, b, h, all
<1>13. after <= Shape[k].headcount
  BY <1>2, <1>4, <1>12
<1> QED  BY <1>13 DEF after

LEMMA OthersMakeNone ==
  ASSUME PlannerInvariant, [PlannerNext]_plannerVars, ~EndGenerate
  PROVE  SlotsAreNotDuplicated'
<1>1. ASSUME NEW k \in Patterns, NEW d \in Days,
             \A r \in Slots : shift'[r].status = "active" /\ ~shift'[r].moved =>
               /\ shift[r].status = "active" /\ ~shift[r].moved /\ shift'[r].start = shift[r].start
      PROVE  Made(k, d)' \subseteq Made(k, d)
  BY <1>1 DEF Made, Active
<1>2. shift \in [Slots -> Shift]
  BY DEF PlannerInvariant, PlannerTypes, PlannerTypeOK
<1>3. ASSUME NEW r \in Slots, shift'[r].status = "active", ~shift'[r].moved
      PROVE  shift[r].status = "active" /\ ~shift[r].moved /\ shift'[r].start = shift[r].start
  <2>1. CASE UNCHANGED shift
    BY <1>3, <2>1
  <2>2. ASSUME NEW q \in Slots, NEW d \in Days, UpdateShift(q, d)
        PROVE  shift[r].status = "active" /\ ~shift[r].moved /\ shift'[r].start = shift[r].start
    BY <1>2, <1>3, <2>2 DEF UpdateShift, Shift
  <2>3. ASSUME NEW q \in Slots, NEW p \in People \union {None}, AssignShift(q, p)
        PROVE  shift[r].status = "active" /\ ~shift[r].moved /\ shift'[r].start = shift[r].start
    BY <1>2, <1>3, <2>3 DEF AssignShift, Shift
  <2>4. ASSUME NEW q \in Slots, CancelShift(q)
        PROVE  shift[r].status = "active" /\ ~shift[r].moved /\ shift'[r].start = shift[r].start
    BY <1>2, <1>3, <2>4 DEF CancelShift, Shift, NoShift
  <2>5. ASSUME NEW q \in Slots, ClearSlot(q)
        PROVE  shift[r].status = "active" /\ ~shift[r].moved /\ shift'[r].start = shift[r].start
    BY <1>2, <1>3, <2>5 DEF ClearSlot, Shift
  <2>6. CASE EndAssign
    BY <1>2, <1>3, <2>6 DEF EndAssign, Assigned, Shift
  <2>7. CASE EndAutofill
    BY <1>2, <1>3, <2>7 DEF EndAutofill, Filled, Shift
  <2>8. ASSUME NEW p \in People,
               ReplaceWeeklyAvailability(p) \/ AddAvailabilityException(p)
               \/ RemoveAvailabilityException(p) \/ RequestTimeOff(p) \/ DecideTimeOff(p) \/ CancelTimeOff(p)
        PROVE  UNCHANGED shift
    BY <2>8 DEF ReplaceWeeklyAvailability, AddAvailabilityException, RemoveAvailabilityException, RequestTimeOff,
                DecideTimeOff, CancelTimeOff, UnchangedByPeople
  <2>9. ASSUME \/ CreateTemplateSet \/ ArchiveTemplateSet \/ BeginGenerate \/ BeginAutofill \/ Rollback
               \/ (\E d \in Days : SetDayReview(d)) \/ UNCHANGED plannerVars
        PROVE  UNCHANGED shift
    BY <2>9 DEF CreateTemplateSet, ArchiveTemplateSet, BeginGenerate, BeginAutofill, Rollback, SetDayReview, plannerVars
  <2>10. ASSUME NEW q \in Slots, ReportCallout(q) \/ \E p \in People : BeginAssign(q, p)
         PROVE  UNCHANGED shift
    BY <2>10 DEF ReportCallout, BeginAssign
  <2> QED  BY <2>1, <2>2, <2>3, <2>4, <2>5, <2>6, <2>7, <2>8, <2>9, <2>10 DEF PlannerNext
<1>4. Serial' <=> Serial
  BY SerialStays
<1> QED  BY <1>1, <1>3, <1>4, FewerMade DEF PlannerInvariant

-----------------------------------------------------------------------------
(* The invariant holds *)

LEMMA PlannerBegins == PlannerInit => PlannerInvariant
<1> SUFFICES ASSUME PlannerInit PROVE PlannerInvariant  OBVIOUS
<1>1. Decided
  BY DEF PlannerInit, Decided
<1>2. ASSUME NEW k \in Patterns, NEW d \in Days
      PROVE  Cardinality(Made(k, d)) <= Shape[k].headcount
  <2>1. Made(k, d) = {}
    BY DEF PlannerInit, Made, Active, NoShift
  <2>2. Cardinality({}) = 0
    BY FS_EmptySet
  <2>3. Shape[k].headcount \in Nat
    BY PatternsAssumption
  <2> QED  BY <2>1, <2>2, <2>3
<1>3. SlotsAreNotDuplicated
  BY <1>2 DEF SlotsAreNotDuplicated, Made
<1> QED  BY <1>1, <1>3, PlannerTypesInit DEF PlannerInvariant

LEMMA PlannerGoesOn == PlannerInvariant /\ [PlannerNext]_plannerVars => PlannerInvariant'
<1> SUFFICES ASSUME PlannerInvariant, [PlannerNext]_plannerVars
             PROVE  PlannerInvariant'
  OBVIOUS
<1>1. PlannerTypes'
  BY PlannerTypesStep DEF PlannerInvariant
<1>2. SlotsAreNotDuplicated'
  BY GeneratedOnce, OthersMakeNone
<1> QED  BY <1>1, <1>2, DecidedStep DEF PlannerInvariant

LEMMA PlannerAlways == PlannerSpec => []PlannerInvariant
BY PlannerBegins, PlannerGoesOn, PTL DEF PlannerSpec

\* Every column of the week's tables keeps its type, and so does what a transaction has decided,
\* however transactions overlap.
THEOREM PlannerTypeCorrect == PlannerSpec => []PlannerTypeOK
<1>1. PlannerInvariant => PlannerTypeOK
  BY DEF PlannerInvariant, PlannerTypes
<1> QED  BY <1>1, PlannerAlways, PTL

\* One at a time, for any number of patterns, days and headcounts, generating the week again never
\* gives a pattern more shifts on a day than its headcount (generateWeek, applyTemplates).
THEOREM SlotsAreMadeOnce == PlannerSpec => []SlotsAreNotDuplicated
<1>1. PlannerInvariant => SlotsAreNotDuplicated
  BY DEF PlannerInvariant
<1> QED  BY <1>1, PlannerAlways, PTL

-----------------------------------------------------------------------------
(* Time off *)

LEMMA BlockedByTimeOff ==
  ASSUME NEW p \in People, NEW s, ~TimeOff(p, "approved", s), Possible(request[p])
  PROVE  ~(request[p].status = "approved" /\ s.start < request[p].end /\ request[p].start < s.end)
BY DEF TimeOff, Overlaps

\* Nobody is given a shift during approved time off that begins and ends at hours that exist, nor
\* is theirs moved into it, one transaction at a time, whatever else is asked for and whatever the
\* interface: board, slot, call-out or autofill (slotted.ts, conflicts.ts).
THEOREM TimeOffIsLocked == PlannerSpec => ApprovedTimeOffIsLocked
<1> DEFINE Locked == Serial => \A r \in Slots, p \in People :
                       NewlyHeld(r, p) /\ Possible(request[p]) => ~DuringTimeOff(r, p)
<1>1. ASSUME PlannerInvariant, [PlannerNext]_plannerVars
      PROVE  Locked
  <2> DEFINE Clash(r, p) == request[p].status = "approved"
                            /\ shift'[r].start < request[p].end /\ request[p].start < shift'[r].end
  <2> SUFFICES ASSUME Serial, NEW r \in Slots, NEW p \in People, NewlyHeld(r, p), Possible(request[p])
               PROVE  ~Clash(r, p)
    BY DEF DuringTimeOff
  <2> USE DEF NewlyHeld
  <2>1. PlannerTypes /\ shift \in [Slots -> Shift] /\ p # None
    BY <1>1, NoneAssumption DEF PlannerInvariant, PlannerTypes, PlannerTypeOK
  <2>2. ASSUME NEW s, s.start = shift'[r].start, s.end = shift'[r].end, ~TimeOff(p, "approved", s)
        PROVE  ~Clash(r, p)
    BY <2>2, BlockedByTimeOff
  <2>3. ASSUME NEW q \in Slots, NEW d \in Days, UpdateShift(q, d)
        PROVE  ~Clash(r, p)
    <3> DEFINE s == ShiftTimes(q[1], d)
    <3>1. q = r /\ shift'[r].start = s.start /\ shift'[r].end = s.end /\ shift[r].who = p
      BY <2>1, <2>3 DEF UpdateShift, Shift
    <3>2. ~Blocked(p, r, s)
      BY <2>1, <2>3, <3>1 DEF UpdateShift
    <3>3. ~TimeOff(p, "approved", s)
      BY <3>2, Conflicts DEF Blocked
    <3> HIDE DEF s
    <3> QED  BY <2>2, <3>1, <3>3
  <2>4. ASSUME NEW q \in Slots, NEW w \in People \union {None}, AssignShift(q, w)
        PROVE  ~Clash(r, p)
    <3>1. q = r /\ w = p /\ shift'[r].start = Times(r).start /\ shift'[r].end = Times(r).end
      BY <2>1, <2>4 DEF AssignShift, Shift, Times
    <3>2. ~Blocked(p, r, Times(r))
      BY <2>1, <2>4, <3>1 DEF AssignShift
    <3>3. ~TimeOff(p, "approved", Times(r))
      BY <3>2, Conflicts DEF Blocked
    <3> QED  BY <2>2, <3>1, <3>3
  <2>5. CASE EndAssign
    <3>1. r = planning.row /\ p = planning.who /\ shift'[r].start = Times(r).start /\ shift'[r].end = Times(r).end
      BY <2>1, <2>5 DEF EndAssign, Assigned, Shift, Times
    <3>2. ~TimeOff(p, "approved", Times(r))
      BY <1>1, <2>5, <3>1 DEF EndAssign, PlannerInvariant, Decided
    <3> QED  BY <2>2, <3>1, <3>2
  <2>6. CASE EndAutofill
    <3>1. p = planning.picks[r] /\ shift'[r].start = Times(r).start /\ shift'[r].end = Times(r).end
      BY <2>1, <2>6 DEF EndAutofill, Filled, Shift, Times
    <3>2. WellPicked(planning.picks, Empty)
      BY <1>1, <2>6 DEF EndAutofill, PlannerInvariant, Decided
    <3>3. AvailabilityState(p, Times(r)) # "time_off"
      BY <2>1, <3>1, <3>2 DEF WellPicked, Willing
    <3>4. ~TimeOff(p, "approved", Times(r))
      BY <3>3, States
    <3> QED  BY <2>2, <3>1, <3>4
  <2>7. ASSUME NEW q \in Slots, CancelShift(q)
        PROVE  FALSE
    BY <2>1, <2>7 DEF CancelShift, Shift, NoShift
  <2>8. ASSUME NEW q \in Slots, ClearSlot(q)
        PROVE  FALSE
    BY <2>1, <2>8 DEF ClearSlot, Shift
  <2>9. CASE EndGenerate
    BY <2>1, <2>9 DEF EndGenerate, Shift, NoShift
  <2>10. shift' # shift
    OBVIOUS
  <2>11. ASSUME NEW q \in People
         PROVE  ~(ReplaceWeeklyAvailability(q) \/ AddAvailabilityException(q)
                  \/ RemoveAvailabilityException(q) \/ RequestTimeOff(q) \/ DecideTimeOff(q) \/ CancelTimeOff(q))
    BY <2>10 DEF ReplaceWeeklyAvailability, AddAvailabilityException, RemoveAvailabilityException, RequestTimeOff,
                 DecideTimeOff, CancelTimeOff, UnchangedByPeople
  <2>12. ~(\/ CreateTemplateSet \/ ArchiveTemplateSet \/ BeginGenerate \/ BeginAutofill \/ Rollback
           \/ (\E d \in Days : SetDayReview(d)) \/ UNCHANGED plannerVars)
    BY <2>10 DEF CreateTemplateSet, ArchiveTemplateSet, BeginGenerate, BeginAutofill, Rollback, SetDayReview, plannerVars
  <2>13. ASSUME NEW q \in Slots, ReportCallout(q) \/ \E w \in People : BeginAssign(q, w)
         PROVE  FALSE
    BY <2>10, <2>13 DEF ReportCallout, BeginAssign
  <2> QED  BY <1>1, <2>3, <2>4, <2>5, <2>6, <2>7, <2>8, <2>9, <2>11, <2>12, <2>13 DEF PlannerNext
<1>2. PlannerInvariant /\ [PlannerNext]_plannerVars
        => [Serial => \A r \in Slots, p \in People :
              NewlyHeld(r, p) /\ Possible(request[p]) => ~DuringTimeOff(r, p)]_plannerVars
  BY <1>1
<1> QED  BY <1>2, PlannerAlways, PTL DEF PlannerSpec, ApprovedTimeOffIsLocked

-----------------------------------------------------------------------------
(* What autofill leaves behind *)

Shifted(r) == [start |-> shift'[r].start, end |-> shift'[r].end]

LEMMA FilledRow ==
  ASSUME PlannerTypes, NEW picks, picks = planning.picks, WellPicked(picks, Empty), shift' = Filled,
         NEW r \in Slots
  PROVE  /\ Shifted(r) = Times(r) /\ shift'[r].status = shift[r].status
         /\ picks[r] = None => shift'[r] = shift[r]
         /\ picks[r] # None => r \in Empty /\ shift'[r].who = picks[r]
         /\ shift'[r].status = "none" => shift[r].status = "none"
<1>1. shift[r] \in Shift
  BY DEF PlannerTypes, PlannerTypeOK
<1>2. CASE picks[r] = None
  <2>1. shift'[r] = shift[r]
    BY <1>2 DEF Filled, Picked
  <2> QED  BY <1>2, <2>1 DEF Shifted, Times
<1>3. CASE picks[r] # None
  <2>1. r \in Empty /\ shift[r].status = "active"
    BY <1>3 DEF WellPicked, Empty, Active
  <2>2. shift'[r] = [shift[r] EXCEPT !.who = picks[r]]
    BY <1>3, <2>1 DEF Filled, Picked
  <2> QED  BY <1>1, <1>3, <2>1, <2>2 DEF Shifted, Times, Shift
<1> QED  BY <1>2, <1>3

\* Each person's week is then what autofill remembered of it.
LEMMA TakenAfter ==
  ASSUME PlannerTypes, NEW picks, picks = planning.picks, WellPicked(picks, Empty), shift' = Filled,
         NEW p \in People
  PROVE  /\ LoadAfter(p) = Load(TakenWith(picks)[p])
         /\ \A s \in TakenWith(picks)[p] : s \in elsewhere[p] \/ \E q \in HeldBy(p, shift') : s = Times(q)
<1> DEFINE Given == {q \in Slots : picks[q] = p}
           Week == {Times(r) : r \in HeldBy(p, shift')}
<1>1. HeldBy(p, shift') = HeldBy(p, shift) \union Given
  <2>1. ASSUME NEW r \in Slots
        PROVE  shift'[r].status = "active" /\ shift'[r].who = p
                 <=> (shift[r].status = "active" /\ shift[r].who = p) \/ picks[r] = p
    <3>1. p # None
      BY NoneAssumption
    <3>2. r \in Empty => shift[r].status = "active" /\ shift[r].who = None
      BY DEF Empty, Active
    <3>3. /\ shift'[r].status = shift[r].status
          /\ picks[r] = None => shift'[r] = shift[r]
          /\ picks[r] # None => r \in Empty /\ shift'[r].who = picks[r]
      BY FilledRow
    <3> QED  BY <3>1, <3>2, <3>3
  <2> QED  BY <2>1 DEF HeldBy
<1>2. \A r \in HeldBy(p, shift') : Shifted(r) = Times(r) /\ InWeek(Times(r))
  <2> SUFFICES ASSUME NEW r \in HeldBy(p, shift')
               PROVE  Shifted(r) = Times(r) /\ InWeek(Times(r))
    OBVIOUS
  <2>1. r \in Slots /\ shift'[r].status = "active"
    BY DEF HeldBy
  <2>2. Shifted(r) = Times(r) /\ shift'[r].status = shift[r].status
    BY <2>1, FilledRow
  <2> QED  BY <2>1, <2>2, TimesOfShift
<1>3. {Shifted(r) : r \in HeldBy(p, shift')} = Week
  BY <1>2
<1>4. {s \in Week \union elsewhere[p] : InWeek(s)} = TakenWith(picks)[p]
  <2> DEFINE Mine == {Times(r) : r \in HeldBy(p, shift)}
             More == {Times(r) : r \in Given}
  <2>1. Week = Mine \union More
    BY <1>1
  <2>2. \A s \in More : InWeek(s)
    BY <1>1, <1>2
  <2>3. TakenWith(picks)[p] = {s \in Mine \union elsewhere[p] : InWeek(s)} \union More
    BY DEF TakenWith, Taken
  <2> HIDE DEF Mine, More, Week
  <2> QED  BY <2>1, <2>2, <2>3
<1>5. LoadAfter(p) = Load({s \in {Shifted(r) : r \in HeldBy(p, shift')} \union elsewhere[p] : InWeek(s)})
  BY DEF LoadAfter, Shifted
<1>6. \A s \in TakenWith(picks)[p] : s \in elsewhere[p] \/ s \in Week
  <2> HIDE DEF Week
  <2> QED  BY <1>4
<1> QED  BY <1>3, <1>4, <1>5, <1>6

LEMMA SlotsWereFilled ==
  ASSUME PlannerTypes, NEW picks, picks = planning.picks, WellPicked(picks, Empty), shift' = Filled,
         NEW r \in Empty, NEW p \in People
  PROVE  GivenForGoodReason(r, p)
<1> DEFINE willing == p \in Holders[r[1]]
                      /\ AvailabilityState(p, Times(r)) \in {"available", "not_preferred"}
<1>1. r \in Slots /\ shift[r].status = "active" /\ shift[r].who = None /\ p # None
  BY NoneAssumption DEF Empty, Active
<1>2. willing <=> Willing(p, r)
  BY States DEF Willing
<1>3. /\ picks[r] = None => shift'[r] = shift[r]
      /\ picks[r] # None => shift'[r].who = picks[r]
  BY <1>1, FilledRow
<1>4. /\ LoadAfter(p) = Load(TakenWith(picks)[p])
      /\ \A s \in TakenWith(picks)[p] : s \in elsewhere[p] \/ \E q \in HeldBy(p, shift') : s = Times(q)
  BY TakenAfter
<1> HIDE DEF willing
<1>5. ASSUME shift'[r].who = p
      PROVE  willing /\ LoadAfter(p) <= Overtime
  <2>1. picks[r] = p
    BY <1>1, <1>3, <1>5
  <2>2. Willing(p, r) /\ Load(TakenWith(picks)[p]) <= Overtime
    BY <1>1, <2>1 DEF WellPicked
  <2> QED  BY <1>2, <1>4, <2>2
<1>6. ASSUME shift'[r].who = None, willing
      PROVE  \/ LoadAfter(p) + Paid(Times(r)) > Overtime
             \/ \E q \in HeldBy(p, shift') : Overlaps(Times(q), Times(r))
             \/ \E s \in elsewhere[p] : Overlaps(s, Times(r))
  <2>1. picks[r] = None
    BY <1>3, <1>6
  <2>2. \/ \E s \in TakenWith(picks)[p] : Overlaps(s, Times(r))
        \/ ~(Load(TakenWith(picks)[p]) + Paid(Times(r)) <= Overtime)
    BY <1>2, <1>6, <2>1 DEF WellPicked
  <2>3. ASSUME NEW s \in TakenWith(picks)[p], Overlaps(s, Times(r))
        PROVE  \/ \E q \in HeldBy(p, shift') : Overlaps(Times(q), Times(r))
               \/ \E t \in elsewhere[p] : Overlaps(t, Times(r))
    BY <1>4, <2>3
  <2>4. \A q \in Slots : picks[q] # None => q \in Empty
    BY DEF WellPicked
  <2>5. Load(TakenWith(picks)[p]) \in Nat
    BY <2>4, TakenPeriods, LoadOf
  <2>6. Paid(Times(r)) \in Nat
    BY <1>1, TimesOfShift, LoadWith, FS_EmptySet
  <2> DEFINE a == Load(TakenWith(picks)[p])
             b == Paid(Times(r))
  <2>7. a \in Nat /\ b \in Nat /\ Overtime \in Nat
    BY <2>5, <2>6, PlannerBounds
  <2>8. ~(a + b <= Overtime) => a + b > Overtime
    <3> HIDE DEF a, b
    <3> QED  BY <2>7
  <2> QED  BY <1>4, <2>2, <2>3, <2>8
<1> QED  BY <1>5, <1>6 DEF willing, GivenForGoodReason

\* One at a time, for any template, people and hours, autofill takes nobody's shift, gives none to
\* people who are off, said no or lack the role, takes nobody over forty hours, leaves a slot empty
\* only if that holds of everybody else or they are working then, and has every day reviewed again.
THEOREM AutofillKeeps == PlannerSpec => AutofillKeepsItsWord
<1>1. ASSUME PlannerInvariant, [PlannerNext]_plannerVars,
             Serial /\ planning # None /\ planning' = None /\ planning.op = "autofill"
             /\ (shift' # shift \/ \A r \in Slots : planning.picks[r] = None)
      PROVE  /\ \A r \in Slots : shift[r].who # None => shift'[r] = shift[r]
             /\ \A r \in Empty, p \in People :
                  GivenForGoodReason(r, p)
             /\ shift' # shift => review' = [d \in Days |-> "pending"]
  <2> DEFINE picks == planning.picks
  <2>1. WellPicked(picks, Empty) /\ PlannerTypes
    BY <1>1 DEF PlannerInvariant, Decided
  <2>2. (\A r \in Slots : picks[r] = None) => Filled = shift
    <3>1. shift = [r \in Slots |-> shift[r]]
      BY <2>1 DEF PlannerTypes, PlannerTypeOK
    <3> QED  BY <3>1 DEF Filled, Picked
  <2>3. EndAutofill \/ (Rollback /\ shift' = shift)
    <3>1. ~UNCHANGED plannerVars
      BY <1>1 DEF plannerVars
    <3>2. ~EndGenerate /\ ~EndAssign
      BY <1>1 DEF EndGenerate, EndAssign
    <3>3. Rollback => shift' = shift
      BY DEF Rollback
    <3> QED  BY <1>1, <3>1, <3>2, <3>3, SerialAlone
  <2>4. shift' = Filled
    BY <1>1, <2>2, <2>3 DEF EndAutofill
  <2>5. shift' # shift => review' = [d \in Days |-> "pending"]
    BY <2>2, <2>3, <2>4 DEF EndAutofill
  <2>6. ASSUME NEW r \in Slots, shift[r].who # None
        PROVE  shift'[r] = shift[r]
    <3>1. r \notin Empty
      BY <2>6 DEF Empty
    <3> QED  BY <2>1, <2>4, <3>1, FilledRow
  <2>7. ASSUME NEW r \in Empty, NEW p \in People
        PROVE  GivenForGoodReason(r, p)
    BY <2>1, <2>4, SlotsWereFilled
  <2> QED  BY <2>5, <2>6, <2>7
<1>2. PlannerInvariant /\ [PlannerNext]_plannerVars
        => [Serial /\ planning # None /\ planning' = None /\ planning.op = "autofill"
            /\ (shift' # shift \/ \A r \in Slots : planning.picks[r] = None) =>
              /\ \A r \in Slots : shift[r].who # None => shift'[r] = shift[r]
              /\ \A r \in Empty, p \in People :
                   GivenForGoodReason(r, p)
              /\ shift' # shift => review' = [d \in Days |-> "pending"]]_plannerVars
  BY <1>1
<1> QED  BY <1>2, PlannerAlways, PTL DEF PlannerSpec, AutofillKeepsItsWord

=============================================================================
