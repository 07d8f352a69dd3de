-------------------------------- MODULE Billing --------------------------------
(***************************************************************************)
(* One organization's subscription: what the owner asks for, what the      *)
(* billing provider reports through its webhook, what the worker does when *)
(* a trial, a grace period or a billing period runs out, and what EverCalm *)
(* staff set by hand on a manual pilot (billing/policy.ts, service.ts,     *)
(* webhook.ts, drizzle/0020).                                              *)
(*                                                                         *)
(* Every handler locks the subscription row first (lockSubscription), so   *)
(* each is one action.  A change is an inserted billing event first: when  *)
(* its idempotency key exists already nothing changes (recordChange).      *)
(*                                                                         *)
(* The provider's events are numbered in the order it issued them; the     *)
(* webhook may bring them late, again and out of order.                    *)
(* Billing periods are numbered in the order they end.  pastDueFor is the  *)
(* age in days of past_due_since, and counts no further than Grace.        *)
(***************************************************************************)
EXTENDS Integers, Sequences

CONSTANTS
  Grace,       \* GRACE_DAYS
  MaxEvents,   \* bound: events the provider issues
  MaxPeriods   \* bound: billing periods

ASSUME GraceAssumption == Grace \in Nat
ASSUME BillingBounds == MaxEvents \in Nat /\ MaxPeriods \in Nat

VARIABLES
  provider,           \* subscriptions.provider, as BILLING_PROVIDER has it
  status,             \* subscriptions.status, "none" before the row exists
  trialOver,          \* trial_ends_at <= now
  hasPaymentMethod,
  currentPeriodEnd,   \* the period whose end it is, 0 for null
  cancelAtPeriodEnd,
  pastDueFor,         \* Undated for null
  recorded,           \* provider events with a billing event
  ended,              \* periods with a period_ended billing event
  issued,             \* what the provider has issued
  over,               \* how many periods have ended
  inOrder,            \* have first deliveries come in the order of issue so far
  sincePaid           \* days since a payment was last applied

subscription == <<status, hasPaymentMethod, currentPeriodEnd, cancelAtPeriodEnd, pastDueFor>>
billingEvents == <<recorded, ended>>
world == <<provider, trialOver, issued, over>>
history == <<inOrder, sincePaid>>
billingVars == <<subscription, billingEvents, world, history>>

Undated == -1
Statuses == {"trialing", "active", "past_due", "canceled", "suspended"}
EventTypes == {"payment_succeeded", "payment_failed", "payment_method_added"}

BillingInit ==
  /\ provider \in {"mock", "manual"} /\ status = "none" /\ trialOver = FALSE
  /\ hasPaymentMethod = FALSE /\ currentPeriodEnd = 0 /\ cancelAtPeriodEnd = FALSE
  /\ pastDueFor = Undated /\ recorded = {} /\ ended = {}
  /\ issued = <<>> /\ over = 0 /\ inOrder = TRUE /\ sincePaid = Grace

-----------------------------------------------------------------------------
(* Owners and staff *)

\* ensureSubscription: a trial, or - with the manual provider - a pilot.
EnsureSubscription ==
  /\ status = "none"
  /\ status' = IF provider = "manual" THEN "active" ELSE "trialing"
  /\ UNCHANGED <<hasPaymentMethod, currentPeriodEnd, cancelAtPeriodEnd, pastDueFor,
                 billingEvents, world, history>>

\* requestCancellation, for an owner who is not on a manual pilot.
RequestCancellation ==
  /\ provider # "manual" /\ ~cancelAtPeriodEnd /\ status \in {"trialing", "active", "past_due"}
  /\ cancelAtPeriodEnd' = TRUE
  /\ UNCHANGED <<status, hasPaymentMethod, currentPeriodEnd, pastDueFor,
                 billingEvents, world, history>>

WithdrawCancellation ==
  /\ provider # "manual" /\ cancelAtPeriodEnd /\ status # "canceled"
  /\ cancelAtPeriodEnd' = FALSE
  /\ UNCHANGED <<status, hasPaymentMethod, currentPeriodEnd, pastDueFor,
                 billingEvents, world, history>>

\* evercalm_staff_set_subscription_status: manual pilots only.
StaffSetsStatus(s) ==
  /\ provider = "manual" /\ status \notin {"none", s}
  /\ status' = s
  /\ pastDueFor' = IF s # "past_due" THEN Undated
                   ELSE IF pastDueFor = Undated THEN 0 ELSE pastDueFor
  /\ cancelAtPeriodEnd' = IF s = "canceled" THEN FALSE ELSE cancelAtPeriodEnd
  /\ UNCHANGED <<hasPaymentMethod, currentPeriodEnd, billingEvents, world, history>>

-----------------------------------------------------------------------------
(* The provider's webhook *)

IsPayment(n) == issued[n].type = "payment_succeeded"

\* Mutants: a replay is not recognised; a payment clears nothing that is overdue.
NeverRecorded(n) == FALSE
PaymentOnTimeOnly(n) ==
  /\ status' = IF status = "past_due" THEN "past_due" ELSE "active"
  /\ currentPeriodEnd' = issued[n].period
  /\ pastDueFor' = IF status = "past_due" THEN pastDueFor ELSE Undated
  /\ hasPaymentMethod' = TRUE
  /\ cancelAtPeriodEnd' = IF status = "canceled" THEN FALSE ELSE cancelAtPeriodEnd
  /\ sincePaid' = 0

IsRecorded(n) == n \in recorded

\* applyBillingEvent, payment_succeeded: whatever the status was.
PaymentSucceeded(n) ==
  /\ status' = "active" /\ currentPeriodEnd' = issued[n].period
  /\ pastDueFor' = Undated /\ hasPaymentMethod' = TRUE
  /\ cancelAtPeriodEnd' = IF status = "canceled" THEN FALSE ELSE cancelAtPeriodEnd
  /\ sincePaid' = 0

\* payment_failed: recorded whatever the status is, past due from now if it was
\* trialing or active.
PaymentFailed ==
  /\ IF status \in {"active", "trialing"} THEN status' = "past_due" /\ pastDueFor' = 0
                                          ELSE UNCHANGED <<status, pastDueFor>>
  /\ UNCHANGED <<hasPaymentMethod, currentPeriodEnd, cancelAtPeriodEnd, sincePaid>>

PaymentMethodAdded ==
  /\ hasPaymentMethod' = TRUE
  /\ UNCHANGED <<status, currentPeriodEnd, cancelAtPeriodEnd, pastDueFor, sincePaid>>

\* receiveBillingWebhook and handleProviderEvent; a manual pilot has no provider
\* to listen to.  Any issued event may come, the first time or again.
ReceiveWebhook(n) ==
  /\ n \in 1..Len(issued) /\ provider # "manual" /\ status # "none"
  /\ \/ IsRecorded(n) /\ UNCHANGED <<subscription, sincePaid>>
     \/ ~IsRecorded(n) /\ IsPayment(n) /\ PaymentSucceeded(n)
     \/ ~IsRecorded(n) /\ issued[n].type = "payment_failed" /\ PaymentFailed
     \/ ~IsRecorded(n) /\ issued[n].type = "payment_method_added" /\ PaymentMethodAdded
  /\ recorded' = recorded \union {n}
  /\ inOrder' = (inOrder /\ 1..(n - 1) \subseteq recorded)
  /\ UNCHANGED <<ended, world>>

-----------------------------------------------------------------------------
(* The worker: dueLifecycleEvents finds at most one due event, and             *)
(* processBillingLifecycle records it under the instant it is anchored to.     *)

TrialEnds ==
  /\ provider # "manual" /\ status = "trialing" /\ trialOver
  /\ IF cancelAtPeriodEnd THEN status' = "canceled" /\ UNCHANGED pastDueFor
     ELSE IF hasPaymentMethod THEN status' = "active" /\ UNCHANGED pastDueFor
     ELSE status' = "past_due" /\ pastDueFor' = 0
  /\ UNCHANGED <<hasPaymentMethod, currentPeriodEnd, cancelAtPeriodEnd, billingEvents,
                 world, history>>

\* Mutants: the grace period is a day short; it has to be exceeded.
GraceOverEarly == pastDueFor >= Grace - 1
GraceOverNever == pastDueFor > Grace

GraceOver == pastDueFor >= Grace

GraceExpires ==
  /\ provider # "manual" /\ status = "past_due" /\ GraceOver
  /\ status' = "suspended"
  /\ UNCHANGED <<hasPaymentMethod, currentPeriodEnd, cancelAtPeriodEnd, pastDueFor,
                 billingEvents, world, history>>

PeriodOver == currentPeriodEnd # 0 /\ currentPeriodEnd <= over

\* The key names the period, so each period ends the subscription at most once.
PeriodEnds ==
  /\ provider # "manual" /\ status = "active" /\ cancelAtPeriodEnd /\ PeriodOver
  /\ currentPeriodEnd \notin ended
  /\ status' = "canceled" /\ ended' = ended \union {currentPeriodEnd}
  /\ UNCHANGED <<hasPaymentMethod, currentPeriodEnd, cancelAtPeriodEnd, pastDueFor, recorded,
                 world, history>>

-----------------------------------------------------------------------------
(* The world *)

\* The last period a payment was issued for.
LastPaidFor ==
  IF \E n \in 1..Len(issued) : IsPayment(n)
  THEN LET n == CHOOSE n \in 1..Len(issued) :
                  /\ IsPayment(n) /\ \A m \in 1..Len(issued) : IsPayment(m) => m <= n
       IN issued[n].period
  ELSE 0

\* The provider issues an event; a payment is for a period still to end.
ProviderIssues ==
  /\ provider # "manual" /\ status # "none" /\ Len(issued) < MaxEvents
  /\ \E e \in [type : EventTypes, period : 0..MaxPeriods] :
       /\ IF e.type = "payment_succeeded"
          THEN e.period > over /\ e.period >= LastPaidFor
          ELSE e.period = 0
       /\ issued' = Append(issued, e)
  /\ UNCHANGED <<subscription, billingEvents, provider, trialOver, over, history>>

DayPasses ==
  /\ pastDueFor' = IF pastDueFor \in 0..(Grace - 1) THEN pastDueFor + 1 ELSE pastDueFor
  /\ sincePaid' = IF sincePaid < Grace THEN sincePaid + 1 ELSE sincePaid
  /\ UNCHANGED <<status, hasPaymentMethod, currentPeriodEnd, cancelAtPeriodEnd, billingEvents, world,
                 inOrder>>

TrialRunsOut ==
  /\ ~trialOver /\ trialOver' = TRUE
  /\ UNCHANGED <<subscription, billingEvents, provider, issued, over, history>>

PeriodRunsOut ==
  /\ over < MaxPeriods /\ over' = over + 1
  /\ UNCHANGED <<subscription, billingEvents, provider, trialOver, issued, history>>

Lifecycle == TrialEnds \/ GraceExpires \/ PeriodEnds

BillingNext ==
  \/ EnsureSubscription \/ RequestCancellation \/ WithdrawCancellation
  \/ \E s \in Statuses \ {"trialing"} : StaffSetsStatus(s)
  \/ \E n \in 1..MaxEvents : ReceiveWebhook(n)
  \/ TrialEnds \/ GraceExpires \/ PeriodEnds
  \/ ProviderIssues \/ DayPasses \/ TrialRunsOut \/ PeriodRunsOut

BillingSpec == BillingInit /\ [][BillingNext]_billingVars

\* The worker's billing step runs again and again while something is due, and
\* days pass.  Owners, staff and the provider owe nothing.
BillingFairSpec == BillingSpec /\ WF_billingVars(Lifecycle) /\ WF_billingVars(DayPasses)

-----------------------------------------------------------------------------
(* Properties *)

\* The columns' types and checks (billing/schema.ts), and that only a
\* subscription that is or was past due carries a date for it - which a
\* past-due one always does, or its grace would never end.
BillingTypeOK ==
  /\ provider \in {"mock", "manual"} /\ status \in Statuses \union {"none"}
  /\ trialOver \in BOOLEAN /\ hasPaymentMethod \in BOOLEAN /\ cancelAtPeriodEnd \in BOOLEAN
  /\ currentPeriodEnd \in 0..MaxPeriods /\ pastDueFor \in 0..Grace \union {Undated}
  /\ status = "past_due" => pastDueFor # Undated
  /\ recorded \in SUBSET (1..MaxEvents) /\ ended \in SUBSET (1..MaxPeriods)
  /\ issued \in Seq([type : EventTypes, period : 0..MaxPeriods]) /\ Len(issued) <= MaxEvents
  /\ over \in 0..MaxPeriods /\ inOrder \in BOOLEAN /\ sincePaid \in 0..Grace

\* GRACE_DAYS: the lifecycle makes a workspace read-only only when Grace days
\* have passed since a payment was last applied, through any sequence of
\* failures, recoveries, replays and late deliveries.
GraceIsGranted ==
  [][(provider = "mock" /\ status # "suspended" /\ status' = "suspended") => sincePaid = Grace]_billingVars

\* While the provider delivers in order (replays allowed), a subscription is past
\* due or suspended only if the last the provider told about payments is not a
\* success: a payment is never forgotten, a failure never comes back.
PastDueMeansUnpaid ==
  (inOrder /\ provider = "mock" /\ status \in {"past_due", "suspended"}) =>
    \A n \in recorded : IsPayment(n) =>
      \E m \in recorded : m > n /\ issued[m].type = "payment_failed"

\* "Everything works for GRACE_DAYS", no longer: a past-due subscription is
\* paid for or suspended (a manual pilot is in the hands of staff).
PastDueEnds == (provider = "mock" /\ status = "past_due") ~> status # "past_due"

\* "A period-end cancellation (canceled)": an active subscription that is to be
\* canceled when its period ends, and whose period has ended, is canceled, unless
\* it is renewed, fails to be, or the owner withdraws.  It is not said of a period
\* that has ended the subscription once: when a second payment for that period
\* revives it, the key of PeriodEnds is taken, and nothing ends it again.
CancellationPending ==
  /\ provider = "mock" /\ status = "active" /\ cancelAtPeriodEnd
  /\ currentPeriodEnd # 0 /\ currentPeriodEnd <= over /\ currentPeriodEnd \notin ended
CancellationTakesEffect == CancellationPending ~> ~CancellationPending

\* What the lifecycle has to do is done in the end: a grace period ends, and so does a
\* subscription that was canceled (processBillingLifecycle).
WhatIsDueHappens == PastDueEnds /\ CancellationTakesEffect
=============================================================================
