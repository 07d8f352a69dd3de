--------------------------- MODULE BackOfficeProofs ---------------------------
(***************************************************************************)
(* What the office of an organization relies on, two components that share *)
(* nothing.                                                                *)
(*                                                                         *)
(* Billing: the subscription's columns keep their type, and nobody is      *)
(* suspended before Grace days without a payment have passed, for any      *)
(* grace period and any number of events and periods, in any order.        *)
(*                                                                         *)
(* Authoring: what is published stays, is whole, and is what the next      *)
(* draft starts from; the order of what it holds is settled.  For any      *)
(* number of managers, versions, sections and tasks.                       *)
(***************************************************************************)
EXTENDS Billing, Authoring, FiniteSetTheorems, WellFoundedInduction, TLAPS

-----------------------------------------------------------------------------
(* Billing *)

Events == [type : EventTypes, period : 0..MaxPeriods]

\* How long a subscription has been past due is no more than how long it has
\* gone without a payment: what GraceIsGranted needs to know beforehand.
OverdueSincePaid == (provider = "mock" /\ status = "past_due") => pastDueFor <= sincePaid

Safe == BillingTypeOK /\ OverdueSincePaid

LEMMA InitSafe == BillingInit => Safe
<1> SUFFICES ASSUME BillingInit PROVE Safe
  OBVIOUS
<1> USE GraceAssumption, BillingBounds
<1>1. issued \in Seq([type : EventTypes, period : 0..MaxPeriods]) /\ Len(issued) <= MaxEvents
  BY DEF BillingInit
<1>2. currentPeriodEnd \in 0..MaxPeriods /\ over \in 0..MaxPeriods /\ sincePaid \in 0..Grace
  BY DEF BillingInit
<1>3. trialOver \in BOOLEAN /\ hasPaymentMethod \in BOOLEAN /\ cancelAtPeriodEnd \in BOOLEAN
  BY Zenon DEF BillingInit
<1>4. /\ provider \in {"mock", "manual"} /\ status = "none" /\ pastDueFor = Undated
      /\ recorded = {} /\ ended = {}
  BY Zenon DEF BillingInit
<1>5. inOrder \in BOOLEAN
  BY Zenon DEF BillingInit
<1> QED BY <1>1, <1>2, <1>3, <1>4, <1>5 DEF Safe, BillingTypeOK, OverdueSincePaid

\* Whether deliveries have been in order is a Boolean for the provers, too.
LEMMA InOrderBoolean ==
  ASSUME Safe, [BillingNext]_billingVars
  PROVE  inOrder' \in BOOLEAN
<1>1. inOrder \in BOOLEAN
  BY DEF Safe, BillingTypeOK
<1>2. CASE \E n \in 1..MaxEvents : ReceiveWebhook(n)
  <2> PICK n \in 1..MaxEvents : ReceiveWebhook(n)
    BY <1>2
  <2> QED BY Zenon DEF ReceiveWebhook
<1>3. CASE ~(\E n \in 1..MaxEvents : ReceiveWebhook(n))
  <2>1. inOrder' = inOrder
    BY <1>3 DEF BillingNext, billingVars, history, EnsureSubscription, RequestCancellation,
                WithdrawCancellation, StaffSetsStatus, TrialEnds, GraceExpires, PeriodEnds, ProviderIssues, DayPasses,
                TrialRunsOut, PeriodRunsOut
  <2> QED BY <1>1, <2>1
<1> QED BY <1>2, <1>3

\* What an event does to the subscription keeps the types.
LEMMA WebhookSafe ==
  ASSUME Safe, NEW n \in 1..MaxEvents, ReceiveWebhook(n)
  PROVE  Safe'
<1> USE GraceAssumption, BillingBounds DEF Undated, Statuses
<1>0. inOrder' \in BOOLEAN
  BY Zenon DEF ReceiveWebhook
<1>1. /\ issued' = issued /\ provider' = provider
      /\ trialOver' = trialOver /\ over' = over /\ ended' = ended
  BY DEF ReceiveWebhook, world
<1>a. issued[n].period \in 0..MaxPeriods
  <2>1. n \in 1..Len(issued) /\ issued \in Seq(Events)
    BY DEF ReceiveWebhook, Safe, BillingTypeOK, Events
  <2>2. issued[n] \in Events
    BY <2>1
  <2> QED BY <2>2 DEF Events
<1>2. recorded' \in SUBSET (1..MaxEvents)
  BY DEF ReceiveWebhook, Safe, BillingTypeOK
<1>3. CASE UNCHANGED <<subscription, sincePaid>>
  BY <1>0, <1>1, <1>2, <1>3 DEF subscription, Safe, BillingTypeOK, OverdueSincePaid
<1>4. CASE PaymentSucceeded(n)
  <2>1. cancelAtPeriodEnd' \in BOOLEAN /\ hasPaymentMethod' \in BOOLEAN /\ trialOver' \in BOOLEAN
    BY <1>1, <1>4, Zenon DEF PaymentSucceeded, Safe, BillingTypeOK
  <2>2. /\ status' = "active" /\ currentPeriodEnd' = issued[n].period
        /\ pastDueFor' = Undated /\ sincePaid' = 0
    BY <1>4 DEF PaymentSucceeded
  <2> QED BY <1>0, <1>1, <1>a, <1>2, <2>1, <2>2 DEF Safe, BillingTypeOK, OverdueSincePaid
<1>5. CASE PaymentFailed
  BY <1>0, <1>1, <1>2, <1>5 DEF PaymentFailed, Safe, BillingTypeOK, OverdueSincePaid
<1>6. CASE PaymentMethodAdded
  BY <1>0, <1>1, <1>2, <1>6 DEF PaymentMethodAdded, Safe, BillingTypeOK, OverdueSincePaid
<1> QED BY <1>3, <1>4, <1>5, <1>6 DEF ReceiveWebhook

LEMMA NextSafe == Safe /\ [BillingNext]_billingVars => Safe'
<1> SUFFICES ASSUME Safe, [BillingNext]_billingVars PROVE Safe'
  OBVIOUS
<1> USE GraceAssumption, BillingBounds DEF Undated, Statuses, history
<1>0. inOrder' \in BOOLEAN
  BY InOrderBoolean
<1>1. CASE EnsureSubscription
  BY <1>0, <1>1 DEF EnsureSubscription, billingEvents, world, Safe, BillingTypeOK, OverdueSincePaid
<1>2. CASE RequestCancellation
  BY <1>0, <1>2 DEF RequestCancellation, billingEvents, world, Safe, BillingTypeOK, OverdueSincePaid
<1>3. CASE WithdrawCancellation
  BY <1>0, <1>3 DEF WithdrawCancellation, billingEvents, world, Safe, BillingTypeOK, OverdueSincePaid
<1>4. CASE \E s \in Statuses \ {"trialing"} : StaffSetsStatus(s)
  <2> PICK s \in Statuses \ {"trialing"} : StaffSetsStatus(s)
    BY <1>4
  <2>1. cancelAtPeriodEnd' \in BOOLEAN
    BY Zenon DEF StaffSetsStatus, Safe, BillingTypeOK
  <2>2. /\ status' = s /\ provider = "manual"
        /\ s # "past_due" => pastDueFor' = Undated
        /\ s = "past_due" => pastDueFor' \in {0, pastDueFor} /\ pastDueFor' # Undated
    BY DEF StaffSetsStatus
  <2>3. UNCHANGED <<hasPaymentMethod, currentPeriodEnd, recorded, ended, provider, trialOver,
                    issued, over, sincePaid>>
    BY DEF StaffSetsStatus, billingEvents, world
  <2> QED BY <1>0, <2>1, <2>2, <2>3 DEF Safe, BillingTypeOK, OverdueSincePaid
<1>5. CASE \E n \in 1..MaxEvents : ReceiveWebhook(n)
  BY <1>5, WebhookSafe
<1>6. CASE TrialEnds
  BY <1>0, <1>6 DEF TrialEnds, billingEvents, world, Safe, BillingTypeOK, OverdueSincePaid
<1>7. CASE GraceExpires
  BY <1>0, <1>7 DEF GraceExpires, billingEvents, world, Safe, BillingTypeOK, OverdueSincePaid
<1>8. CASE PeriodEnds
  BY <1>0, <1>8 DEF PeriodEnds, PeriodOver, world, Safe, BillingTypeOK, OverdueSincePaid
<1>9. CASE ProviderIssues
  <2>1. /\ issued' \in Seq(Events) /\ Len(issued') <= MaxEvents
    BY <1>9 DEF ProviderIssues, Safe, BillingTypeOK, Events
  <2> QED
    BY <1>0, <1>9, <2>1 DEF ProviderIssues, subscription, billingEvents, Safe, BillingTypeOK, OverdueSincePaid, Events
<1>10. CASE DayPasses
  BY <1>0, <1>10 DEF DayPasses, billingEvents, world, Safe, BillingTypeOK, OverdueSincePaid
<1>11. CASE TrialRunsOut
  BY <1>0, <1>11 DEF TrialRunsOut, subscription, billingEvents, Safe, BillingTypeOK, OverdueSincePaid
<1>12. CASE PeriodRunsOut
  BY <1>0, <1>12 DEF PeriodRunsOut, subscription, billingEvents, Safe, BillingTypeOK, OverdueSincePaid
<1>13. CASE UNCHANGED billingVars
  BY <1>0, <1>13 DEF billingVars, subscription, billingEvents, world, Safe, BillingTypeOK, OverdueSincePaid
<1> QED BY <1>1, <1>2, <1>3, <1>4, <1>5, <1>6, <1>7, <1>8, <1>9, <1>10, <1>11, <1>12, <1>13 DEF BillingNext

\* Every column keeps its type, and a past-due subscription its date.
THEOREM BillingTypeCorrect == BillingSpec => []BillingTypeOK
<1>1. Safe => BillingTypeOK
  BY DEF Safe
<1> QED BY <1>1, InitSafe, NextSafe, PTL DEF BillingSpec

\* The only step of the lifecycle that suspends needs Grace days past due.
LEMMA SuspendedByGrace ==
  ASSUME Safe, [BillingNext]_billingVars, provider = "mock", status # "suspended", status' = "suspended"
  PROVE  sincePaid = Grace
<1> USE GraceAssumption DEF Undated
<1>1. CASE GraceExpires
  BY <1>1 DEF GraceExpires, GraceOver, Safe, BillingTypeOK, OverdueSincePaid
<1>2. CASE \E n \in 1..MaxEvents : ReceiveWebhook(n)
  BY <1>2 DEF ReceiveWebhook, PaymentSucceeded, PaymentFailed, PaymentMethodAdded, subscription
<1>3. CASE \E s \in Statuses \ {"trialing"} : StaffSetsStatus(s)
  BY <1>3 DEF StaffSetsStatus
<1>4. CASE EnsureSubscription \/ RequestCancellation \/ WithdrawCancellation \/ TrialEnds \/ PeriodEnds
  BY <1>4 DEF EnsureSubscription, RequestCancellation, WithdrawCancellation, TrialEnds, PeriodEnds
<1>5. CASE ProviderIssues \/ DayPasses \/ TrialRunsOut \/ PeriodRunsOut
  BY <1>5 DEF ProviderIssues, DayPasses, TrialRunsOut, PeriodRunsOut, subscription
<1>6. CASE UNCHANGED billingVars
  BY <1>6 DEF billingVars, subscription
<1> QED BY <1>1, <1>2, <1>3, <1>4, <1>5, <1>6 DEF BillingNext

\* No provider-managed subscription is suspended within Grace days of a payment,
\* in whatever order the provider's events arrive.
THEOREM GraceGranted == BillingSpec => GraceIsGranted
<1>1. Safe /\ [BillingNext]_billingVars =>
      [(provider = "mock" /\ status # "suspended" /\ status' = "suspended") => sincePaid = Grace]_billingVars
  BY SuspendedByGrace
<1> QED BY <1>1, InitSafe, NextSafe, PTL DEF BillingSpec, GraceIsGranted

-----------------------------------------------------------------------------
(* Delivery in order *)

\* What has been recorded is a prefix of what was issued, a trial has seen no
\* payment, and whoever is past due or suspended has not paid since it failed.
Prefix == recorded \subseteq 1..Len(issued) /\ \A r \in recorded : 1..r \subseteq recorded
UnpaidTrial == status \in {"none", "trialing"} => \A n \in recorded : ~IsPayment(n)
Told == inOrder => Prefix /\ (provider = "mock" => UnpaidTrial) /\ PastDueMeansUnpaid

\* What the provider issued earlier stays what it was.
LEMMA IssuedStays ==
  ASSUME Safe, [BillingNext]_billingVars, NEW n \in 1..Len(issued)
  PROVE  n \in 1..Len(issued') /\ issued'[n] = issued[n]
<1>1. issued \in Seq(Events)
  BY DEF Safe, BillingTypeOK, Events
<1>2. CASE ProviderIssues
  <2>1. PICK e \in Events : issued' = Append(issued, e)
    BY <1>2 DEF ProviderIssues, Events
  <2> QED BY <1>1, <2>1
<1>3. CASE UNCHANGED issued
  BY <1>3
<1>4. ProviderIssues \/ UNCHANGED issued
  BY DEF BillingNext, billingVars, world, EnsureSubscription, RequestCancellation, WithdrawCancellation,
         StaffSetsStatus, ReceiveWebhook, TrialEnds, GraceExpires, PeriodEnds, DayPasses,
         TrialRunsOut, PeriodRunsOut
<1> QED BY <1>2, <1>3, <1>4

\* A first delivery comes after everything recorded before it.
LEMMA WebhookTold ==
  ASSUME Safe, Told, NEW n \in 1..MaxEvents, ReceiveWebhook(n), inOrder'
  PROVE  Told'
<1>0. inOrder /\ 1..(n - 1) \subseteq recorded
  BY Zenon DEF ReceiveWebhook
<1>1. /\ issued' = issued /\ provider' = provider /\ provider = "mock"
      /\ n \in 1..Len(issued) /\ recorded' = recorded \union {n}
      /\ status # "none" /\ Len(issued) \in Nat
  BY DEF ReceiveWebhook, world, Safe, BillingTypeOK
<1>2. \A r \in recorded : r \in 1..Len(issued) /\ 1..r \subseteq recorded
  BY <1>0 DEF Told, Prefix
<1>3. Prefix'
  <2>1. 1..n \subseteq recorded'
    BY <1>0, <1>1
  <2> QED BY <1>1, <1>2, <2>1 DEF Prefix
<1>4. UnpaidTrial' /\ PastDueMeansUnpaid'
  <2>1. CASE n \in recorded
    <3>1. status' = status /\ recorded' = recorded
      BY <1>1, <2>1 DEF ReceiveWebhook, IsRecorded, subscription
    <3> QED BY <1>0, <1>1, <3>1 DEF Told, UnpaidTrial, PastDueMeansUnpaid, IsPayment
  <2>2. CASE n \notin recorded
    <3>1. \A r \in recorded : r < n
      <4>1. ASSUME NEW r \in recorded, ~(r < n) PROVE FALSE
        BY <1>0, <1>1, <1>2, <2>2, <4>1
      <4> QED BY <4>1
    <3>2. CASE PaymentSucceeded(n)
      BY <3>2 DEF PaymentSucceeded, UnpaidTrial, PastDueMeansUnpaid
    <3>3. CASE issued[n].type = "payment_failed" /\ PaymentFailed
      <4>1. ~IsPayment(n)
        BY <3>3 DEF IsPayment
      <4>2. status' \in {"none", "trialing"} => status' = status
        BY <3>3 DEF PaymentFailed
      <4>3. UnpaidTrial'
        BY <1>0, <1>1, <4>1, <4>2 DEF Told, UnpaidTrial, IsPayment
      <4>4. \A p \in recorded' : IsPayment(p) => p < n
        BY <1>1, <3>1, <4>1
      <4>5. PastDueMeansUnpaid'
        BY <1>1, <1>2, <3>3, <4>4 DEF PastDueMeansUnpaid, IsPayment
      <4> QED BY <4>3, <4>5
    <3>4. CASE issued[n].type = "payment_method_added" /\ PaymentMethodAdded
      <4>1. ~IsPayment(n) /\ status' = status
        BY <3>4 DEF IsPayment, PaymentMethodAdded
      <4> QED BY <1>0, <1>1, <4>1 DEF Told, UnpaidTrial, PastDueMeansUnpaid, IsPayment
    <3> QED BY <2>2, <3>2, <3>3, <3>4 DEF ReceiveWebhook, IsRecorded
  <2> QED BY <2>1, <2>2
<1> QED BY <1>1, <1>3, <1>4 DEF Told

LEMMA NextTold == Safe /\ Told /\ [BillingNext]_billingVars => Told'
<1> SUFFICES ASSUME Safe, Told, [BillingNext]_billingVars, inOrder' PROVE Told'
  BY DEF Told
<1>1. CASE \E n \in 1..MaxEvents : ReceiveWebhook(n)
  BY <1>1, WebhookTold
<1>2. CASE ~(\E n \in 1..MaxEvents : ReceiveWebhook(n))
  <2>1. recorded' = recorded /\ provider' = provider /\ inOrder' = inOrder
    BY <1>2 DEF BillingNext, billingVars, world, billingEvents, history, EnsureSubscription, RequestCancellation,
                WithdrawCancellation, StaffSetsStatus, TrialEnds, GraceExpires, PeriodEnds,
                ProviderIssues, DayPasses, TrialRunsOut, PeriodRunsOut
  <2>2. \A n \in recorded : n \in 1..Len(issued') /\ issued'[n] = issued[n]
    BY <2>1, IssuedStays DEF Told, Prefix
  <2>3. provider = "mock" => /\ status' \in {"none", "trialing"} => status \in {"none", "trialing"}
                             /\ status' \in {"past_due", "suspended"}
                                  => status \in {"trialing", "past_due", "suspended"}
    BY <1>2 DEF BillingNext, billingVars, subscription, EnsureSubscription, RequestCancellation,
                WithdrawCancellation, StaffSetsStatus, TrialEnds, GraceExpires, PeriodEnds,
                ProviderIssues, DayPasses, TrialRunsOut, PeriodRunsOut
  <2>4. Prefix'
    BY <2>1, <2>2 DEF Told, Prefix
  <2>5. provider' = "mock" => UnpaidTrial'
    BY <2>1, <2>2, <2>3 DEF Told, UnpaidTrial, IsPayment, Prefix
  <2>6. PastDueMeansUnpaid'
    BY <2>1, <2>2, <2>3 DEF Told, UnpaidTrial, PastDueMeansUnpaid, IsPayment, Prefix
  <2> QED BY <2>4, <2>5, <2>6 DEF Told
<1> QED BY <1>1, <1>2

\* While the provider delivers in order - replays allowed - nobody who has paid
\* is past due or suspended.
THEOREM PaidUp == BillingSpec => []PastDueMeansUnpaid
<1>1. BillingInit => Told
  BY DEF BillingInit, Told, Prefix, UnpaidTrial, PastDueMeansUnpaid
<1>2. Told => PastDueMeansUnpaid
  BY DEF Told, PastDueMeansUnpaid
<1> QED BY <1>1, <1>2, InitSafe, NextSafe, NextTold, PTL DEF BillingSpec

-----------------------------------------------------------------------------
(* Authoring *)

\* A set of naturals has a least one, and finitely many of them have a greatest.
LEMMA LeastNatural ==
  ASSUME NEW N \in SUBSET Nat, N # {}
  PROVE  \E n \in N : \A k \in N : n <= k
<1> DEFINE R == {ss \in Nat \X Nat : ss[1] < ss[2]}
<1>1. IsWellFoundedOn(R, Nat)
  BY NatLessThanWellFounded DEF OpToRel
<1>2. PICK n \in N : \A k \in N : <<k, n>> \notin R
  BY <1>1, WFMin
<1>3. ASSUME NEW k \in N PROVE n <= k
  <2>1. <<k, n>> \in Nat \X Nat /\ ~(k < n)
    BY <1>2
  <2> QED BY <2>1
<1> QED BY <1>3

LEMMA GreatestOf ==
  ASSUME NEW S, IsFiniteSet(S), S # {}, NEW at, \A x \in S : at[x] \in Nat
  PROVE  \E x \in S : \A y \in S : at[y] <= at[x]
<1> DEFINE Bad == {U \in SUBSET S : U # {} /\ ~ \E x \in U : \A y \in U : at[y] <= at[x]}
           N == {n \in Nat : \E U \in Bad : Cardinality(U) = n}
<1>1. SUFFICES ASSUME Bad # {}
               PROVE  FALSE
  BY <1>1
<1>2. \A U \in SUBSET S : IsFiniteSet(U) /\ Cardinality(U) \in Nat
  BY FS_Subset, FS_CardinalityType
<1>3. N # {}
  BY <1>1, <1>2
<1>4. PICK n \in N : \A k \in N : n <= k
  BY <1>3, LeastNatural
<1>5. PICK U \in Bad : Cardinality(U) = n
  BY <1>4
<1>6. PICK x \in U : TRUE
  BY <1>5
<1> DEFINE V == U \ {x}
<1>7. Cardinality(V) = n - 1 /\ V \in SUBSET S
  BY <1>2, <1>5, <1>6, FS_RemoveElement
<1>8. V \notin Bad
  <2>1. Cardinality(V) \in Nat
    BY <1>2, <1>7
  <2>2. ASSUME V \in Bad PROVE FALSE
    <3>1. Cardinality(V) \in N
      BY <2>1, <2>2
    <3>2. n <= n - 1 /\ n \in Nat
      BY <1>4, <1>7, <3>1
    <3> QED BY <3>2
  <2> QED BY <2>2
<1>9. CASE V = {}
  <2>1. U = {x} /\ at[x] \in Nat
    BY <1>5, <1>6, <1>9
  <2> QED BY <1>5, <2>1
<1>10. CASE V # {}
  <2>1. PICK y \in V : \A z \in V : at[z] <= at[y]
    BY <1>7, <1>8, <1>10
  <2>2. \A z \in U : at[z] \in Nat
    BY <1>5
  <2>3. CASE at[x] <= at[y]
    <3>1. y \in U /\ \A z \in U : at[z] <= at[y]
      BY <2>1, <2>3
    <3> QED BY <1>5, <3>1
  <2>4. CASE ~(at[x] <= at[y])
    <3>1. \A z \in U : at[z] <= at[x]
      BY <2>1, <2>2, <2>4, <1>6
    <3> QED BY <1>5, <1>6, <3>1
  <2> QED BY <2>3, <2>4
<1> QED BY <1>9, <1>10

\* What there is of a version is well-formed: each task has a section to be in, and where
\* orders are settled no two siblings have one position.
HomesIn(r) == IF kind = "course" THEN {None} ELSE Present(r.section)

Good(r) ==
  /\ r \in Version
  /\ \A t \in Present(r.task) : r.task[t].in \in HomesIn(r)
  /\ Locking =>
       /\ \A s, q \in Present(r.section) : s # q => r.section[s] # r.section[q]
       /\ \A t, u \in Present(r.task) :
            t # u /\ r.task[t].in = r.task[u].in => r.task[t].at # r.task[u].at

\* Only a draft of a document that is locked is discarded, a new draft starts from something
\* published, and what a transaction has read as published still is.
Grounded == \A m \in Managers : open[m] # None =>
  /\ open[m].op = "discard" => Locking
  /\ open[m].op = "draft" => open[m].published # 0
  /\ open[m].published # 0 => version[open[m].published].status = "published"

Written ==
  /\ isolation \in Isolations /\ kind \in Kinds
  /\ doc \in [archived : BOOLEAN, published : 0..LastVersion]
  /\ version \in [Versions -> Version] /\ \A v \in Versions : Good(version[v])
  /\ doc.published # 0 => version[doc.published].status = "published"
  /\ courseLive \in BOOLEAN
  /\ open \in [Managers -> Request \union {None}]
  /\ changes \in 0..MaxChanges
  /\ Grounded

LEMMA WrittenTyped ==
  ASSUME Written
  PROVE  TypeOK /\ OrderIsSettled
<1>1. ASSUME NEW v \in Versions
      PROVE  HomesIn(version[v]) = Places(v)
  BY <1>1 DEF HomesIn, Places
<1>2. TypeOK
  BY <1>1 DEF Written, Good, TypeOK
<1>3. OrderIsSettled
  <2>1. ASSUME NEW v \in Versions, NEW s, NEW t \in TasksIn(v, s), NEW u \in TasksIn(v, s), t # u, Locking
        PROVE  At(v)[t] # At(v)[u]
    BY <2>1 DEF Written, Good, TasksIn, At, Present
  <2> QED BY <2>1 DEF Written, Good, OrderIsSettled
<1> QED BY <1>2, <1>3

LEMMA EmptyGood ==
  /\ NoSections \in [Sections -> Nat \union {None}] /\ NoTasks \in [Tasks -> TaskRow \union {None}]
  /\ Present(NoTasks) = {} /\ Good(NoVersion)
<1>1. NoSections \in [Sections -> Nat \union {None}] /\ NoTasks \in [Tasks -> TaskRow \union {None}]
  BY DEF NoSections, NoTasks
<1>2. Present(NoTasks) = {}
  BY DEF Present, NoTasks
<1>3. Good(NoVersion)
  BY <1>1, <1>2 DEF Good, NoVersion, Version, NoSections, Present
<1> QED BY <1>1, <1>2, <1>3

LEMMA InitWritten == Init => Written
<1> SUFFICES ASSUME Init PROVE Written
  OBVIOUS
<1> USE NoneAssumption, BoundsAssumption
<1>1. NoSections \in [Sections -> Nat \union {None}] /\ NoTasks \in [Tasks -> TaskRow \union {None}]
  BY EmptyGood
<1>2. Present(NoTasks) = {} /\ Good(NoVersion)
  BY EmptyGood
<1>4. Good(FirstDraft)
  <2> DEFINE first == CHOOSE s \in Sections : TRUE
             one == [NoSections EXCEPT ![first] = 0]
  <2>1. one \in [Sections -> Nat \union {None}]
    BY <1>1
  <2>2. kind = "onboarding" => ~Locking
    BY DEF Locking
  <2>3. FirstDraft.task = NoTasks /\ FirstDraft.status = "draft"
        /\ FirstDraft.section = IF kind = "onboarding" THEN one ELSE NoSections
    BY DEF FirstDraft
  <2>4. FirstDraft \in Version
    BY <1>1, <2>1 DEF FirstDraft, Version
  <2>5. kind # "onboarding" => Present(FirstDraft.section) = {}
    BY <2>3 DEF Present, NoSections
  <2> QED BY <1>2, <2>2, <2>3, <2>4, <2>5 DEF Good
<1>5. \A v \in Versions : Good(version[v])
  BY <1>2, <1>4 DEF Init
<1>6. version \in [Versions -> Version]
  BY <1>2, <1>4 DEF Init, Good
<1>7. courseLive \in BOOLEAN /\ doc \in [archived : BOOLEAN, published : 0..LastVersion] /\ doc.published = 0
  BY DEF Init
<1>8. open \in [Managers -> Request \union {None}] /\ changes \in 0..MaxChanges /\ Grounded
  BY DEF Init, Grounded
<1> QED BY <1>5, <1>6, <1>7, <1>8 DEF Init, Written

\* A new position is after those of its siblings, where orders are settled.
LEMMA NextPositionFree ==
  ASSUME NEW all, IsFiniteSet(all), NEW siblings \in SUBSET all,
         NEW at, \A x \in siblings : at[x] \in Nat
  PROVE  /\ NextPosition(siblings, all, at) \in Nat
         /\ Locking => \A x \in siblings : at[x] < NextPosition(siblings, all, at)
<1>1. Cardinality(all) \in Nat
  BY FS_CardinalityType
<1>2. CASE siblings = {}
  BY <1>1, <1>2 DEF NextPosition, After
<1>3. CASE siblings # {}
  <2> DEFINE positions == {at[x] : x \in siblings}
             last == CHOOSE n \in positions : \A x \in siblings : at[x] <= n
  <2>1. IsFiniteSet(siblings)
    BY FS_Subset
  <2>2. \E n \in positions : \A x \in siblings : at[x] <= n
    BY <1>3, <2>1, GreatestOf
  <2>3. last \in positions /\ \A x \in siblings : at[x] <= last
    BY <2>2
  <2>4. last \in Nat
    BY <2>3
  <2>5. After(siblings, at) = 1 + last
    BY <1>3 DEF After
  <2> HIDE DEF last, positions
  <2>6. 1 + last \in Nat /\ \A x \in siblings : at[x] < 1 + last
    BY <2>3, <2>4
  <2> QED BY <1>1, <2>5, <2>6 DEF NextPosition
<1> QED BY <1>2, <1>3

\* An order gives every element a position of its own; so does one with two exchanged.
LEMMA OrdersAreOrders ==
  ASSUME NEW S, IsFiniteSet(S), NEW at, NEW f \in Orders(S, at)
  PROVE  f \in [S -> Nat] /\ \A x, y \in S : x # y => f[x] # f[y]
<1>1. Cardinality(S) \in Nat
  BY FS_CardinalityType
<1> QED BY <1>1 DEF Orders

LEMMA ExchangedAreOrders ==
  ASSUME NEW S, IsFiniteSet(S), NEW at, NEW a \in S, NEW b \in S, NEW f \in Exchanged(S, at, a, b)
  PROVE  f \in [S -> Nat] /\ \A x, y \in S : x # y => f[x] # f[y]
<1>1. PICK g \in Orders(S, at) : f = [g EXCEPT ![a] = g[b], ![b] = g[a]]
  BY DEF Exchanged
<1>2. g \in [S -> Nat] /\ \A x, y \in S : x # y => g[x] # g[y]
  BY OrdersAreOrders
<1>3. f \in [S -> Nat]
  BY <1>1, <1>2
<1>4. \A x \in S : f[x] = IF x = b THEN g[a] ELSE IF x = a THEN g[b] ELSE g[x]
  BY <1>1, <1>2
<1> QED BY <1>2, <1>3, <1>4

LEMMA RowsFinite ==
  ASSUME NEW r \in Version
  PROVE  /\ Present(r.section) \in SUBSET Sections /\ IsFiniteSet(Present(r.section))
         /\ Present(r.task) \in SUBSET Tasks /\ IsFiniteSet(Present(r.task))
         /\ \A s \in Present(r.section) : r.section[s] \in Nat
         /\ \A t \in Present(r.task) : r.task[t] \in TaskRow
         /\ r.section \in [Sections -> Nat \union {None}]
         /\ r.task \in [Tasks -> TaskRow \union {None}]
<1>1. r.section \in [Sections -> Nat \union {None}] /\ r.task \in [Tasks -> TaskRow \union {None}]
  BY DEF Version
<1>2. Present(r.section) \in SUBSET Sections /\ Present(r.task) \in SUBSET Tasks
  BY <1>1 DEF Present
<1>3. IsFiniteSet(Present(r.section)) /\ IsFiniteSet(Present(r.task))
  BY <1>2, FS_Subset, FinitenessAssumption
<1>4. /\ \A s \in Present(r.section) : r.section[s] \in Nat
      /\ \A t \in Present(r.task) : r.task[t] \in TaskRow
  BY <1>1 DEF Present
<1> QED BY <1>1, <1>2, <1>3, <1>4

\* What an operation on a draft makes of it: good again, and still a draft.
BecomesGood(v) ==
  \E r \in Version : /\ Good(r) /\ r.status = version[v].status
                     /\ version' = [version EXCEPT ![v] = r]

\* So it is enough to look at the tasks, or at the sections, it writes.
LEMMA GoodTasks ==
  ASSUME Written, NEW v \in Versions, NEW tasks \in [Tasks -> TaskRow \union {None}], SetTasks(v, tasks),
         \A t \in Present(tasks) : tasks[t].in \in Places(v),
         Locking => \A t, u \in Present(tasks) :
           t # u /\ tasks[t].in = tasks[u].in => tasks[t].at # tasks[u].at
  PROVE  BecomesGood(v)
<1> DEFINE r == [version[v] EXCEPT !.task = tasks]
<1>1. version[v] \in Version /\ Good(version[v]) /\ version \in [Versions -> Version]
  BY DEF Written
<1>2. /\ r \in Version /\ r.section = version[v].section
      /\ r.task = tasks /\ r.status = version[v].status
  BY <1>1 DEF Version
<1>3. Good(r)
  BY <1>1, <1>2 DEF Good, HomesIn, Places
<1>4. version' = [version EXCEPT ![v] = r]
  BY <1>1 DEF SetTasks
<1> QED BY <1>2, <1>3, <1>4 DEF BecomesGood

LEMMA GoodSections ==
  ASSUME Written, NEW v \in Versions, NEW sections \in [Sections -> Nat \union {None}],
         SetSections(v, sections),
         Present(version[v].section) \subseteq Present(sections),
         Locking => \A s, q \in Present(sections) : s # q => sections[s] # sections[q]
  PROVE  BecomesGood(v)
<1> DEFINE r == [version[v] EXCEPT !.section = sections]
<1>1. version[v] \in Version /\ Good(version[v]) /\ version \in [Versions -> Version]
  BY DEF Written
<1>2. /\ r \in Version /\ r.section = sections
      /\ r.task = version[v].task /\ r.status = version[v].status
  BY <1>1 DEF Version
<1>3. Good(r)
  BY <1>1, <1>2 DEF Good, HomesIn
<1>4. version' = [version EXCEPT ![v] = r]
  BY <1>1 DEF SetSections
<1> QED BY <1>2, <1>3, <1>4 DEF BecomesGood

\* The operations on a draft, one by one.
LEMMA AddTaskGood ==
  ASSUME Written, NEW m \in Managers, AddTask(m), open[m].v \in Versions
  PROVE  BecomesGood(open[m].v)
<1> DEFINE v == open[m].v
           there == Present(version[v].task)
<1>1. version[v] \in Version /\ Good(version[v]) /\ kind \in {"course", "operations", "onboarding"}
  BY KindsAssumption DEF Written
<1>2. PICK t \in Tasks \ there, s \in Places(v), form \in Forms \ {"complete"} :
        SetTasks(v, [version[v].task EXCEPT ![t] =
          [in |-> s, form |-> form, at |-> NextPosition(TasksIn(v, s), there, At(v))]])
  BY DEF AddTask
<1> DEFINE n == NextPosition(TasksIn(v, s), there, At(v))
           row == [in |-> s, form |-> form, at |-> n]
           tasks == [version[v].task EXCEPT ![t] = row]
<1>3. \A u \in there : At(v)[u] = version[v].task[u].at /\ version[v].task[u] \in TaskRow
  BY <1>1, RowsFinite DEF At
<1>4. TasksIn(v, s) \in SUBSET there /\ \A u \in TasksIn(v, s) : At(v)[u] \in Nat
  BY <1>3 DEF TasksIn, TaskRow
<1>5. n \in Nat /\ (Locking => \A u \in TasksIn(v, s) : At(v)[u] < n)
  BY <1>1, <1>4, RowsFinite, NextPositionFree
<1> HIDE DEF n
<1>6. s \in Sections \union {None}
  BY <1>1, RowsFinite DEF Places
<1>7. form \in {"incomplete", "complete", "plain", "verified", "linked", "unlinked"}
  BY <1>1, <1>2 DEF Forms
<1>8. row \in TaskRow
  BY <1>5, <1>6, <1>7 DEF TaskRow
<1>9. /\ tasks \in [Tasks -> TaskRow \union {None}]
      /\ tasks[t] = row /\ \A u \in Tasks \ {t} : tasks[u] = version[v].task[u]
  BY <1>1, <1>2, <1>8, RowsFinite
<1>10. Present(tasks) \subseteq there \union {t}
  BY <1>9, <1>1, RowsFinite DEF Present
<1>11. \A u \in Present(tasks) : tasks[u].in \in Places(v)
  BY <1>1, <1>2, <1>9, <1>10, RowsFinite DEF Good, HomesIn, Places
<1>12. /\ \A x \in there : version[v].task[x].in = s => version[v].task[x].at \in Nat
       /\ Locking => \A x \in there : version[v].task[x].in = s => version[v].task[x].at < n
  <2>1. ASSUME NEW x \in there, version[v].task[x].in = s
        PROVE  x \in TasksIn(v, s) /\ At(v)[x] = version[v].task[x].at
    BY <1>3, <2>1 DEF TasksIn
  <2> QED  BY <1>4, <1>5, <2>1
<1>13. /\ tasks[t].in = s /\ tasks[t].at = n
       /\ \A u \in Present(tasks) \ {t} : u \in there /\ tasks[u] = version[v].task[u]
  BY <1>1, <1>9, <1>10, RowsFinite
<1>14. Locking => \A u, w \in there :
         u # w /\ version[v].task[u].in = version[v].task[w].in
           => version[v].task[u].at # version[v].task[w].at
  BY <1>1 DEF Good
<1>15. v \in Versions /\ SetTasks(v, tasks)
  BY <1>2 DEF n
<1> HIDE DEF v, there, row, tasks
<1>16. ASSUME Locking, NEW u \in Present(tasks), NEW w \in Present(tasks), u # w, tasks[u].in = tasks[w].in
       PROVE  tasks[u].at # tasks[w].at
  <2>1. CASE u = t
    BY <1>5, <1>12, <1>13, <1>16, <2>1
  <2>2. CASE w = t
    BY <1>5, <1>12, <1>13, <1>16, <2>2
  <2>3. CASE u # t /\ w # t
    BY <1>13, <1>14, <1>16, <2>3
  <2> QED BY <2>1, <2>2, <2>3
<1>17. BecomesGood(v)
  BY <1>9, <1>11, <1>15, <1>16, GoodTasks
<1> QED BY <1>17 DEF v

LEMMA UpdateTaskGood ==
  ASSUME Written, NEW m \in Managers, UpdateTask(m), open[m].v \in Versions
  PROVE  BecomesGood(open[m].v)
<1> DEFINE v == open[m].v
           there == Present(version[v].task)
<1>1. version[v] \in Version /\ Good(version[v]) /\ kind \in {"course", "operations", "onboarding"}
  BY KindsAssumption DEF Written
<1>2. PICK t \in there, form \in Forms : SetTasks(v, [version[v].task EXCEPT ![t].form = form])
  BY DEF UpdateTask
<1> DEFINE tasks == [version[v].task EXCEPT ![t].form = form]
<1>3. form \in {"incomplete", "complete", "plain", "verified", "linked", "unlinked"}
  BY <1>1, <1>2 DEF Forms
<1>4. version[v].task[t] \in TaskRow /\ t \in Tasks
  BY <1>1, <1>2, RowsFinite
<1>5. /\ tasks \in [Tasks -> TaskRow \union {None}]
      /\ \A u \in Tasks \ {t} : tasks[u] = version[v].task[u]
      /\ tasks[t].in = version[v].task[t].in /\ tasks[t].at = version[v].task[t].at
  BY <1>1, <1>3, <1>4, RowsFinite, SMTT(40) DEF TaskRow
<1>6. Present(tasks) \subseteq there
  BY <1>1, <1>2, <1>5, RowsFinite, ZenonT(40) DEF Present
<1>7. \A u \in there : tasks[u].in = version[v].task[u].in /\ tasks[u].at = version[v].task[u].at
  BY <1>1, <1>5, RowsFinite, ZenonT(40)
<1> HIDE DEF tasks
<1>8. \A u \in Present(tasks) : tasks[u].in \in Places(v)
  BY <1>1, <1>6, <1>7 DEF Good, HomesIn, Places
<1>9. Locking => \A u, w \in Present(tasks) :
        u # w /\ tasks[u].in = tasks[w].in => tasks[u].at # tasks[w].at
  BY <1>1, <1>6, <1>7 DEF Good
<1>10. SetTasks(v, tasks)
  BY <1>2 DEF tasks
<1> QED BY <1>5, <1>8, <1>9, <1>10, GoodTasks

\* Numbering siblings anew, all of a section or all of a course, when some may be taken away.
PlacedWithout(v, order, gone) == [t \in Tasks |-> IF t \in gone THEN None ELSE Placed(v, order)[t]]

LEMMA PlacedGood ==
  ASSUME Written, NEW v \in Versions, NEW order, NEW S \in SUBSET Present(version[v].task),
         order \in [S -> Nat], \A t, u \in S : t # u => order[t] # order[u],
         NEW gone \in SUBSET Tasks,
         Locking => \A t \in S, u \in Present(version[v].task) \ (S \union gone) :
                      version[v].task[t].in # version[v].task[u].in,
         SetTasks(v, PlacedWithout(v, order, gone))
  PROVE  BecomesGood(v)
<1> DEFINE there == Present(version[v].task)
           tasks == PlacedWithout(v, order, gone)
<1>1. version[v] \in Version /\ Good(version[v])
  BY DEF Written
<1>2. \A t \in there : t \in Tasks /\ version[v].task[t] \in TaskRow
  BY <1>1, RowsFinite
<1>3. ASSUME NEW t \in Tasks \ gone
      PROVE  tasks[t] = IF t \in S THEN [version[v].task[t] EXCEPT !.at = order[t]]
                                   ELSE version[v].task[t]
  BY <1>3 DEF Placed, PlacedWithout
<1>4. ASSUME NEW t \in S \ gone
      PROVE  /\ tasks[t] \in TaskRow /\ tasks[t].in = version[v].task[t].in
             /\ tasks[t].at = order[t]
  <2>1. t \in Tasks \ gone /\ t \in S /\ version[v].task[t] \in TaskRow /\ order[t] \in Nat
    BY <1>2, <1>4
  <2>2. tasks[t] = [version[v].task[t] EXCEPT !.at = order[t]]
    BY <1>3, <2>1
  <2> QED BY <2>1, <2>2 DEF TaskRow
<1>5. tasks \in [Tasks -> TaskRow \union {None}]
  <2>1. ASSUME NEW t \in Tasks
        PROVE  tasks[t] \in TaskRow \union {None}
    BY <1>1, <1>3, <1>4, RowsFinite DEF PlacedWithout
  <2> HIDE DEF tasks
  <2>2. tasks = [t \in Tasks |-> tasks[t]]
    BY DEF tasks, PlacedWithout
  <2> QED BY <2>1, <2>2
<1> HIDE DEF tasks
<1>6. Present(tasks) \subseteq there \ gone
  <2>1. ASSUME NEW t \in Present(tasks)
        PROVE  t \in there \ gone
    <3>1. t \in Tasks /\ tasks[t] # None
      BY <1>5 DEF Present
    <3>2. t \notin gone
      BY <3>1 DEF tasks, PlacedWithout
    <3>3. version[v].task[t] # None
      BY <3>1, <3>2, <1>3 DEF Present
    <3> QED BY <1>1, <3>1, <3>2, <3>3, RowsFinite DEF Present
  <2> QED BY <2>1
<1>7. \A t \in Present(tasks) : tasks[t].in = version[v].task[t].in
  BY <1>2, <1>3, <1>4, <1>6
<1>8. \A t \in Present(tasks) : tasks[t].in \in Places(v)
  BY <1>1, <1>6, <1>7 DEF Good, HomesIn, Places
<1>9. ASSUME Locking, NEW t \in Present(tasks), NEW u \in Present(tasks), t # u, tasks[t].in = tasks[u].in
      PROVE  tasks[t].at # tasks[u].at
  <2>1. t \in there \ gone /\ u \in there \ gone /\ version[v].task[t].in = version[v].task[u].in
    BY <1>6, <1>7, <1>9
  <2>2. (t \in S) <=> (u \in S)
    BY <1>9, <2>1
  <2>3. CASE t \in S /\ u \in S
    <3>1. order[t] # order[u] /\ tasks[t].at = order[t] /\ tasks[u].at = order[u]
      BY <1>4, <1>9, <2>1, <2>3
    <3> QED BY <3>1
  <2>4. CASE t \notin S /\ u \notin S
    <3>1. tasks[t] = version[v].task[t] /\ tasks[u] = version[v].task[u]
      BY <1>2, <1>3, <2>1, <2>4
    <3> QED BY <1>1, <1>9, <2>1, <3>1 DEF Good
  <2> QED BY <2>2, <2>3, <2>4
<1>10. SetTasks(v, tasks)
  BY DEF tasks
<1> QED BY <1>5, <1>8, <1>9, <1>10, GoodTasks

LEMMA RemoveTaskGood ==
  ASSUME Written, NEW m \in Managers, RemoveTask(m), open[m].v \in Versions
  PROVE  BecomesGood(open[m].v)
<1> DEFINE v == open[m].v
           there == Present(version[v].task)
<1>1. version[v] \in Version /\ Good(version[v])
  BY DEF Written
<1>0. PICK t \in there : \E order \in IF kind = "course" THEN Orders(there \ {t}, At(v)) ELSE {<<>>} :
        SetTasks(v, [Placed(v, order) EXCEPT ![t] = None])
  BY DEF RemoveTask
<1>2. PICK order \in IF kind = "course" THEN Orders(there \ {t}, At(v)) ELSE {<<>>} :
        SetTasks(v, [Placed(v, order) EXCEPT ![t] = None])
  BY <1>0
<1> DEFINE S == IF kind = "course" THEN there \ {t} ELSE {}
           gone == {t}
<1>3. IsFiniteSet(there \ {t}) /\ there \in SUBSET Tasks
  BY <1>1, RowsFinite, FS_Subset
<1>4. order \in [S -> Nat] /\ \A x, y \in S : x # y => order[x] # order[y]
  <2>1. CASE kind = "course"
    BY <1>2, <1>3, <2>1, OrdersAreOrders
  <2>2. CASE kind # "course"
    BY <1>2, <2>2
  <2> QED BY <2>1, <2>2
<1>5. SetTasks(v, PlacedWithout(v, order, gone))
  BY <1>2, <1>3 DEF Placed, PlacedWithout
<1>6. S \in SUBSET there /\ gone \in SUBSET Tasks
  BY <1>2, <1>3
<1>7. Locking => \A x \in S, y \in there \ (S \union gone) : version[v].task[x].in # version[v].task[y].in
  OBVIOUS
<1> HIDE DEF S, gone
<1> QED BY <1>4, <1>5, <1>6, <1>7, PlacedGood

LEMMA MoveTaskGood ==
  ASSUME Written, NEW m \in Managers, MoveTask(m), open[m].v \in Versions
  PROVE  BecomesGood(open[m].v)
<1> DEFINE v == open[m].v
           there == Present(version[v].task)
<1>1. version[v] \in Version /\ Good(version[v])
  BY DEF Written
<1>2. PICK s \in Places(v) : \E t, u \in TasksIn(v, s) :
        \E order \in Exchanged(TasksIn(v, s), At(v), t, u) : SetTasks(v, Placed(v, order))
  BY Zenon DEF MoveTask
<1>3. PICK t \in TasksIn(v, s), u \in TasksIn(v, s) :
        \E order \in Exchanged(TasksIn(v, s), At(v), t, u) : SetTasks(v, Placed(v, order))
  BY <1>2
<1>4. PICK order \in Exchanged(TasksIn(v, s), At(v), t, u) : SetTasks(v, Placed(v, order))
  BY <1>3
<1> DEFINE S == TasksIn(v, s)
           gone == {}
<1>5. S \in SUBSET there /\ IsFiniteSet(S) /\ gone \in SUBSET Tasks
  BY <1>1, RowsFinite, FS_Subset DEF TasksIn
<1>6. order \in [S -> Nat] /\ \A x, y \in S : x # y => order[x] # order[y]
  BY <1>4, <1>5, ExchangedAreOrders
<1>7. SetTasks(v, PlacedWithout(v, order, gone))
  BY <1>4 DEF Placed, PlacedWithout
<1>8. Locking => \A x \in S, y \in there \ (S \union gone) : version[v].task[x].in # version[v].task[y].in
  BY DEF TasksIn
<1> HIDE DEF S, gone
<1> QED BY <1>5, <1>6, <1>7, <1>8, PlacedGood

LEMMA AddSectionGood ==
  ASSUME Written, NEW m \in Managers, AddSection(m), open[m].v \in Versions
  PROVE  BecomesGood(open[m].v)
<1> DEFINE v == open[m].v
           there == Present(version[v].section)
           n == NextPosition(there, there, version[v].section)
<1>1. version[v] \in Version /\ Good(version[v])
  BY DEF Written
<1>2. PICK s \in Sections \ there : SetSections(v, [version[v].section EXCEPT ![s] = n])
  BY DEF AddSection
<1> DEFINE sections == [version[v].section EXCEPT ![s] = n]
<1>3. n \in Nat /\ (Locking => \A q \in there : version[v].section[q] < n)
  BY <1>1, RowsFinite, NextPositionFree
<1>4. /\ sections \in [Sections -> Nat \union {None}]
      /\ sections[s] = n /\ \A q \in Sections \ {s} : sections[q] = version[v].section[q]
  BY <1>1, <1>2, <1>3, RowsFinite
<1> HIDE DEF n
<1>5. there \subseteq Present(sections) /\ Present(sections) \subseteq there \union {s}
  BY <1>1, <1>2, <1>3, <1>4, RowsFinite, NoneAssumption DEF Present
<1>6. ASSUME Locking, NEW q \in Present(sections), NEW r \in Present(sections), q # r
      PROVE  sections[q] # sections[r]
  <2>1. \A x \in there : x \in Sections \ {s} /\ version[v].section[x] \in Nat
    BY <1>1, <1>2, RowsFinite
  <2>2. \A x \in there : sections[x] < n /\ sections[x] = version[v].section[x] /\ sections[x] \in Nat
    BY <1>3, <1>4, <1>6, <2>1
  <2>3. CASE q = s \/ r = s
    BY <1>3, <1>4, <1>5, <1>6, <2>2, <2>3
  <2>4. CASE q # s /\ r # s
    BY <1>1, <1>5, <1>6, <2>2, <2>4 DEF Good
  <2> QED BY <2>3, <2>4
<1> HIDE DEF sections
<1>7. SetSections(v, sections)
  BY <1>2 DEF sections
<1> QED BY <1>4, <1>5, <1>6, <1>7, GoodSections

LEMMA MoveSectionGood ==
  ASSUME Written, NEW m \in Managers, MoveSection(m), open[m].v \in Versions
  PROVE  BecomesGood(open[m].v)
<1> DEFINE v == open[m].v
           there == Present(version[v].section)
<1>1. version[v] \in Version /\ Good(version[v])
  BY DEF Written
<1>2. PICK s \in there, r \in there : \E order \in Exchanged(there, version[v].section, s, r) :
        SetSections(v, [x \in Sections |-> IF x \in there THEN order[x] ELSE None])
  BY Zenon DEF MoveSection
<1>3. PICK order \in Exchanged(there, version[v].section, s, r) :
        SetSections(v, [x \in Sections |-> IF x \in there THEN order[x] ELSE None])
  BY <1>2
<1> DEFINE sections == [x \in Sections |-> IF x \in there THEN order[x] ELSE None]
<1>4. there \in SUBSET Sections /\ IsFiniteSet(there)
  BY <1>1, RowsFinite
<1>5. order \in [there -> Nat] /\ \A x, y \in there : x # y => order[x] # order[y]
  BY <1>3, <1>4, ExchangedAreOrders
<1>6. sections \in [Sections -> Nat \union {None}]
  BY <1>5
<1>7. Present(sections) = there
  <2>1. ASSUME NEW x \in Sections
        PROVE  (sections[x] # None) <=> x \in there
    <3>1. x \in there => order[x] \in Nat
      BY <1>5
    <3> QED BY <3>1, NoneAssumption
  <2> HIDE DEF there
  <2>2. Present(sections) = {x \in Sections : sections[x] # None}
    BY DEF Present
  <2> QED BY <1>4, <2>1, <2>2
<1>8. \A x \in there : sections[x] = order[x]
  BY <1>4
<1>9. Locking => \A x, y \in Present(sections) : x # y => sections[x] # sections[y]
  BY <1>5, <1>7, <1>8
<1>10. SetSections(v, sections)
  BY <1>3
<1> HIDE DEF sections
<1> QED BY <1>6, <1>7, <1>9, <1>10, GoodSections

LEMMA RemoveSectionGood ==
  ASSUME Written, NEW m \in Managers, RemoveSection(m), open[m].v \in Versions
  PROVE  BecomesGood(open[m].v)
<1> DEFINE v == open[m].v
<1>1. version[v] \in Version /\ Good(version[v]) /\ version \in [Versions -> Version]
  BY DEF Written
<1>2. PICK s \in Present(version[v].section) :
        version' = [version EXCEPT
          ![v].section[s] = None,
          ![v].task = [t \in Tasks |-> IF t \in TasksIn(v, s) THEN None ELSE @[t]]]
  BY DEF RemoveSection
<1> DEFINE sections == [version[v].section EXCEPT ![s] = None]
           tasks == [t \in Tasks |-> IF t \in TasksIn(v, s) THEN None ELSE version[v].task[t]]
           r == [version[v] EXCEPT !.section = sections, !.task = tasks]
<1>3. s \in Sections
  BY <1>1, RowsFinite
<1>4. /\ sections \in [Sections -> Nat \union {None}]
      /\ sections[s] = None /\ \A q \in Sections \ {s} : sections[q] = version[v].section[q]
  BY <1>1, <1>3, RowsFinite
<1>5. tasks \in [Tasks -> TaskRow \union {None}]
  BY <1>1, RowsFinite, SMTT(40)
<1>6. /\ r \in Version /\ r.section = sections
      /\ r.task = tasks /\ r.status = version[v].status
  BY <1>1, <1>4, <1>5, ZenonT(40) DEF Version
<1>7. Present(sections) = Present(version[v].section) \ {s}
  BY <1>1, <1>3, <1>4, RowsFinite DEF Present
<1>8. /\ Present(tasks) = Present(version[v].task) \ TasksIn(v, s)
      /\ \A t \in Present(tasks) : tasks[t] = version[v].task[t] /\ tasks[t].in # s
  BY <1>1, RowsFinite DEF Present, TasksIn
<1>9. version' = [version EXCEPT ![v] = r]
  BY <1>1, <1>2
<1> HIDE DEF sections, tasks, r
<1>10. \A x \in Present(r.task) : r.task[x].in \in HomesIn(r)
  BY <1>1, <1>6, <1>7, <1>8 DEF Good, HomesIn
<1>11. Locking =>
         /\ \A x, q \in Present(r.section) : x # q => r.section[x] # r.section[q]
         /\ \A t, u \in Present(r.task) :
              t # u /\ r.task[t].in = r.task[u].in => r.task[t].at # r.task[u].at
  BY <1>1, <1>4, <1>6, <1>7, <1>8, RowsFinite, SMTT(40) DEF Good
<1> QED BY <1>6, <1>9, <1>10, <1>11 DEF Good, BecomesGood

\* A draft is edited, by whoever has it open, or is written as published.
EditsDraft(m) ==
  \/ AddTask(m) \/ UpdateTask(m) \/ RemoveTask(m) \/ MoveTask(m)
  \/ AddSection(m) \/ RemoveSection(m) \/ MoveSection(m)

LEMMA EditsMakeGood ==
  ASSUME Written, NEW m \in Managers, EditsDraft(m)
  PROVE  /\ open[m] \in Request /\ open[m].v \in Versions
         /\ \E op \in EditOps : Edits(m, op)
         /\ BecomesGood(open[m].v)
<1>1. \E op \in EditOps : Edits(m, op)
  BY ZenonT(40) DEF EditsDraft, AddTask, UpdateTask, RemoveTask, MoveTask, AddSection, RemoveSection,
         MoveSection, EditOps
<1>2. open[m] \in Request /\ open[m].v \in Versions
  BY <1>1 DEF Edits, Commits, Written, Request
<1> QED BY <1>1, <1>2, AddTaskGood, UpdateTaskGood, RemoveTaskGood, MoveTaskGood, AddSectionGood,
           RemoveSectionGood, MoveSectionGood DEF EditsDraft

\* The number of a new draft is the first that is free.
LEMMA HighestIsThere ==
  ASSUME Written, NEW p \in Versions, version[p].status # "none"
  PROVE  Highest \in Versions /\ \A v \in Versions : version[v].status # "none" => v <= Highest
<1> DEFINE at == [v \in Exist |-> v]
<1>1. Exist \in SUBSET Versions /\ Exist \in SUBSET Nat /\ p \in Exist
  BY BoundsAssumption DEF Exist, Versions
<1>2. IsFiniteSet(Exist)
  <2>1. IsFiniteSet(Versions)
    BY FS_Interval, BoundsAssumption DEF Versions
  <2> QED BY <1>1, <2>1, FS_Subset
<1>3. \A v \in Exist : at[v] = v /\ at[v] \in Nat
  BY <1>1
<1> HIDE DEF at
<1>4. \E v \in Exist : \A w \in Exist : at[w] <= at[v]
  BY <1>1, <1>2, <1>3, GreatestOf
<1>5. \E v \in Exist : \A w \in Exist : w <= v
  BY <1>3, <1>4
<1>6. Highest \in Exist /\ \A w \in Exist : w <= Highest
  BY <1>5 DEF Highest
<1> QED BY <1>1, <1>6 DEF Exist

LEMMA NewDraftGood ==
  ASSUME Written, NEW m \in Managers, StartNewDraft(m)
  PROVE  /\ open[m] \in Request /\ open[m].published \in Versions
         /\ Highest + 1 \in Versions /\ version[Highest + 1].status = "none"
         /\ \A v \in Versions : version[v].status # "none" => v < Highest + 1
         /\ \E r \in Version : /\ r = [version[open[m].published] EXCEPT !.status = "draft"]
                               /\ Good(r) /\ r.status = "draft"
                               /\ version' = [version EXCEPT ![Highest + 1] = r]
<1> DEFINE p == open[m].published
           r == [version[p] EXCEPT !.status = "draft"]
<1>1. open[m] \in Request /\ open[m] # None /\ open[m].op = "draft"
  BY DEF StartNewDraft, Commits, Written
<1>2. p \in Versions /\ version[p].status = "published"
  BY <1>1, BoundsAssumption DEF Written, Grounded, Request, Versions
<1>3. Highest \in Versions /\ \A v \in Versions : version[v].status # "none" => v <= Highest
  BY <1>2, HighestIsThere
<1>4. Highest < LastVersion /\ version' = [version EXCEPT ![Highest + 1] = r]
  BY DEF StartNewDraft
<1> HIDE DEF r
<1>5. Highest + 1 \in Versions /\ \A v \in Versions : version[v].status # "none" => v < Highest + 1
  BY <1>3, <1>4, BoundsAssumption DEF Versions
<1>6. version[Highest + 1].status = "none"
  <2>1. ~(Highest + 1 < Highest + 1)
    BY <1>3, BoundsAssumption DEF Versions
  <2> QED BY <1>5, <2>1
<1>7. version[p] \in Version /\ Good(version[p])
  BY <1>2 DEF Written
<1>8. /\ r \in Version /\ r.status = "draft"
      /\ r.section = version[p].section /\ r.task = version[p].task
  BY <1>7 DEF r, Version
<1>9. Good(r)
  BY <1>7, <1>8 DEF Good, HomesIn
<1> QED BY <1>1, <1>2, <1>4, <1>5, <1>6, <1>8, <1>9 DEF r

\* Who commits closes a transaction.
LEMMA CommitCloses ==
  ASSUME Written, NEW m \in Managers, NEW op, Commits(m, op)
  PROVE  /\ open' \in [Managers -> Request \union {None}]
         /\ open'[m] = None /\ \A q \in Managers \ {m} : open'[q] = open[q]
         /\ changes' \in 0..MaxChanges /\ courseLive' \in BOOLEAN
         /\ isolation' = isolation /\ kind' = kind
         /\ open[m] \in Request /\ open[m] # None /\ open[m].op = op /\ open[m].v \in Versions
  BY BoundsAssumption DEF Written, Commits, Request

\* Good does not look at anything a step changes.
LEMMA GoodStays ==
  ASSUME kind' = kind, NEW r
  PROVE  Good(r) <=> Good(r)'
  BY DEF Good, HomesIn, Locking, Present, Version, TaskRow

LEMMA NextWritten == Written /\ [Next]_vars => Written'
<1> SUFFICES ASSUME Written, [Next]_vars PROVE Written'
  OBVIOUS
<1> USE BoundsAssumption
<1>1. ASSUME NEW m \in Managers, Begin(m)
      PROVE  Written'
  <2>1. PICK op \in DraftOps \union {"draft", "archive", "restore"}, v \in Versions :
          /\ MayBegin(op, v)
          /\ open' = [open EXCEPT ![m] = [op |-> op, v |-> v, published |-> doc.published,
                                          live |-> courseLive]]
    BY <1>1 DEF Begin
  <2> DEFINE request == [op |-> op, v |-> v, published |-> doc.published, live |-> courseLive]
  <2>2. request \in Request
    BY DEF Request, Written
  <2>3. UNCHANGED <<isolation, kind, doc, version, courseLive, changes>>
    BY <1>1 DEF Begin
  <2>4. open' \in [Managers -> Request \union {None}]
    BY <2>1, <2>2 DEF Written
  <2>5. (op = "discard" => Locking) /\ (op = "draft" => doc.published # 0)
    BY <2>1 DEF MayBegin, EditOps
  <2>6. Grounded'
    <3>1. ASSUME NEW q \in Managers, open'[q] # None
          PROVE  /\ open'[q].op = "discard" => Locking
                 /\ open'[q].op = "draft" => open'[q].published # 0
                 /\ open'[q].published # 0 => version[open'[q].published].status = "published"
      <4>1. CASE q = m
        <5>1. open'[q] = request
          BY <2>1, <4>1 DEF Written
        <5> QED BY <2>5, <5>1 DEF Written
      <4>2. CASE q # m
        <5>1. open'[q] = open[q]
          BY <2>1, <4>2 DEF Written
        <5> QED BY <3>1, <5>1 DEF Written, Grounded
      <4> QED BY <4>1, <4>2
    <3> QED BY <2>3, <3>1 DEF Grounded, Locking
  <2> QED BY <2>3, <2>4, <2>6, GoodStays DEF Written
<1>2. ASSUME NEW m \in Managers, Rollback(m)
      PROVE  Written'
  <2>1. /\ open' \in [Managers -> Request \union {None}]
        /\ open'[m] = None /\ \A q \in Managers \ {m} : open'[q] = open[q]
        /\ UNCHANGED <<isolation, kind, doc, version, courseLive, changes>>
    BY <1>2 DEF Rollback, Written
  <2>2. Grounded'
    BY <2>1 DEF Grounded, Written, Locking
  <2> QED BY <2>1, <2>2, GoodStays DEF Written
<1>3. ASSUME NEW m \in Managers, NEW op, Commits(m, op),
             NEW v \in Versions, NEW r \in Version, Good(r), version' = [version EXCEPT ![v] = r],
             version[v].status = "published" => r.status = "published",
             doc' \in [archived : BOOLEAN, published : 0..LastVersion],
             doc'.published # 0 => version'[doc'.published].status = "published"
      PROVE  Written'
  <2>1. /\ version' \in [Versions -> Version]
        /\ \A w \in Versions : version'[w] = IF w = v THEN r ELSE version[w]
    BY <1>3 DEF Written
  <2>2. \A w \in Versions : Good(version'[w])
    BY <1>3, <2>1 DEF Written
  <2>3. \A w \in Versions : Good(version[w])'
    BY <1>3, <2>2, CommitCloses, GoodStays
  <2>4. \A w \in Versions : version[w].status = "published" => version'[w].status = "published"
    BY <1>3, <2>1
  <2>5. Grounded'
    <3>1. ASSUME NEW q \in Managers, open'[q] # None
          PROVE  /\ open'[q].op = "discard" => Locking
                 /\ open'[q].op = "draft" => open'[q].published # 0
                 /\ open'[q].published # 0 => version'[open'[q].published].status = "published"
      <4>1. q # m /\ open'[q] = open[q] /\ open[q] \in Request
        BY <1>3, <3>1, CommitCloses DEF Written
      <4>2. open[q].published # 0 => open[q].published \in Versions
        BY <4>1 DEF Request, Versions
      <4> QED BY <2>4, <3>1, <4>1, <4>2 DEF Written, Grounded
    <3> QED BY <1>3, <3>1, CommitCloses DEF Grounded, Locking
  <2> QED BY <1>3, <2>1, <2>3, <2>5, CommitCloses DEF Written
<1>4. ASSUME NEW m \in Managers, EditsDraft(m)
      PROVE  Written'
  <2>1. PICK op \in EditOps : Edits(m, op)
    BY <1>4, EditsMakeGood
  <2>2. PICK r \in Version : /\ Good(r) /\ r.status = version[open[m].v].status
                             /\ version' = [version EXCEPT ![open[m].v] = r]
    BY <1>4, EditsMakeGood DEF BecomesGood
  <2>3. Commits(m, op) /\ doc' = doc /\ open[m].v \in Versions
    BY <1>4, <2>1, EditsMakeGood DEF Edits
  <2>4. doc'.published # 0 => version'[doc'.published].status = "published"
    BY <2>2, <2>3 DEF Written, Versions
  <2> QED BY <1>3, <2>2, <2>3, <2>4 DEF Written
<1>5. ASSUME NEW m \in Managers, Publishes(m)
      PROVE  Written'
  <2> DEFINE r == [version[open[m].v] EXCEPT !.status = "published"]
  <2>1. Commits(m, "publish") /\ open[m].v \in Versions
    BY <1>5, CommitCloses DEF Publishes
  <2>2. version[open[m].v] \in Version /\ Good(version[open[m].v])
    BY <2>1 DEF Written
  <2>3. /\ r \in Version /\ r.status = "published"
        /\ r.section = version[open[m].v].section /\ r.task = version[open[m].v].task
    BY <2>2 DEF Version
  <2>4. version' = [version EXCEPT ![open[m].v] = r] /\ doc' = [doc EXCEPT !.published = open[m].v]
    BY <1>5 DEF Publishes, Written
  <2> HIDE DEF r
  <2>5. Good(r)
    BY <2>2, <2>3 DEF Good, HomesIn
  <2>6. /\ doc' \in [archived : BOOLEAN, published : 0..LastVersion]
        /\ version'[doc'.published].status = "published"
    BY <2>1, <2>3, <2>4, SMTT(40) DEF Written, Versions
  <2> QED BY <1>3, <2>1, <2>3, <2>4, <2>5, <2>6
<1>6. ASSUME NEW m \in Managers, StartNewDraft(m)
      PROVE  Written'
  <2>1. PICK r \in Version : /\ Good(r) /\ r.status = "draft"
                             /\ version' = [version EXCEPT ![Highest + 1] = r]
    BY <1>6, NewDraftGood
  <2>2. Highest + 1 \in Versions /\ version[Highest + 1].status = "none"
    BY <1>6, NewDraftGood
  <2>3. Commits(m, "draft") /\ doc' = doc
    BY <1>6 DEF StartNewDraft
  <2>4. doc'.published # 0 => version'[doc'.published].status = "published"
    BY <2>1, <2>2, <2>3 DEF Written, Versions
  <2> HIDE DEF Highest
  <2> QED BY <1>3, <2>1, <2>2, <2>3, <2>4 DEF Written
<1>7. ASSUME NEW m \in Managers, DiscardDraft(m)
      PROVE  Written'
  <2>1. /\ Commits(m, "discard") /\ doc' = doc /\ ~Frozen(open[m].v)
        /\ version' = [version EXCEPT ![open[m].v] = NoVersion]
    BY <1>7 DEF DiscardDraft
  <2>2. version[open[m].v].status # "published" /\ open[m].v \in Versions
    BY <2>1, CommitCloses DEF Frozen, Written, Grounded
  <2>3. NoVersion \in Version /\ Good(NoVersion)
    BY EmptyGood DEF Good
  <2>4. doc'.published # 0 => version'[doc'.published].status = "published"
    BY <2>1, <2>2 DEF Written, Versions
  <2> QED BY <1>3, <2>1, <2>2, <2>3, <2>4 DEF Written
<1>8. ASSUME NEW m \in Managers, Archive(m) \/ Restore(m)
      PROVE  Written'
  <2>1. \E op \in {"archive", "restore"} : Commits(m, op)
    BY <1>8 DEF Archive, Restore
  <2>2. version' = [version EXCEPT ![1] = version[1]] /\ version' = version
    BY <1>8 DEF Archive, Restore, Written
  <2>3. doc' \in [archived : BOOLEAN, published : 0..LastVersion] /\ doc'.published = doc.published
    BY <1>8 DEF Archive, Restore, Written
  <2>4. 1 \in Versions
    BY DEF Versions
  <2> QED BY <1>3, <2>1, <2>2, <2>3, <2>4 DEF Written
<1>9. CASE CourseChanges
  <2>1. /\ UNCHANGED <<isolation, kind, doc, version, open>>
        /\ changes' \in 0..MaxChanges /\ courseLive' \in BOOLEAN
    BY <1>9 DEF CourseChanges, Written
  <2> QED BY <2>1, GoodStays DEF Written, Grounded, Locking
<1>10. CASE UNCHANGED vars
  BY <1>10, GoodStays DEF vars, Written, Grounded, Locking
<1> QED
  BY <1>1, <1>2, <1>4, <1>5, <1>6, <1>7, <1>8, <1>9, <1>10
     DEF Next, EditsDraft, PublishDraft, PublishVersion

\* Every variable stays in its type, what is published exists, and no task is without a section
\* (the foreign keys of the versions' tables).
THEOREM ContentTypeCorrect == Spec => []TypeOK
<1> QED BY InitWritten, NextWritten, WrittenTyped, PTL DEF Spec

\* No two siblings have one position, however many edit a draft at once (moveLesson, addTask).
THEOREM OrderSettled == Spec => []OrderIsSettled
<1> QED BY InitWritten, NextWritten, WrittenTyped, PTL DEF Spec

\* What a transaction has checked is still so: the draft it has open is one, and is whole if it is
\* to be published, and what its new draft starts from is what is published.
Checked(m) ==
  /\ \A v \in Versions : HoldsVersion(m, v) =>
       version[v].status = "draft" /\ (open[m].op = "publish" => Whole(v))
  /\ open[m] # None /\ open[m].op = "draft" => open[m].published = doc.published

\* No two have one draft, or the document, open.
Exclusive(m, q) == /\ \A v \in Versions : ~(HoldsVersion(m, v) /\ HoldsVersion(q, v))
                   /\ ~(HoldsDoc(m) /\ HoldsDoc(q))

Consistent ==
  /\ Written
  /\ Locking \/ Serial => \A m \in Managers : Checked(m)
  /\ Locking => \A m, q \in Managers : m # q => Exclusive(m, q)
  /\ Serial => \A m, q \in Managers : m # q => open[m] = None \/ open[q] = None

\* Whoever commits has the draft, or the publication, that its handler has checked.
LEMMA CommitsWhatWasChecked ==
  ASSUME Consistent, Locking \/ Serial, NEW m \in Managers, open[m] # None
  PROVE  /\ open[m].op \in DraftOps => version[open[m].v].status = "draft"
         /\ open[m].op = "publish" => Whole(open[m].v)
         /\ open[m].op = "draft" => open[m].published = doc.published
<1>1. Checked(m) /\ open[m].v \in Versions
  BY DEF Consistent, Written, Request
<1> QED BY <1>1 DEF Checked, HoldsVersion, DraftOps

\* Whole looks at one version.
LEMMA WholeStays ==
  ASSUME kind' = kind, NEW v, version'[v].section = version[v].section,
         version'[v].task = version[v].task
  PROVE  Whole(v)' <=> Whole(v)
<1>1. Places(v)' = Places(v) /\ \A s : TasksIn(v, s)' = TasksIn(v, s)
  BY DEF Places, TasksIn, Present
<1> QED BY <1>1 DEF Whole, Present, Finished

\* An operation changes one version: the draft it has open, or one that was not there yet.
LEMMA OneVersion ==
  ASSUME Consistent, Locking \/ Serial, NEW m \in Managers, NEW op, Commits(m, op),
         \/ EditsDraft(m) \/ Publishes(m) \/ StartNewDraft(m) \/ DiscardDraft(m)
         \/ Archive(m) \/ Restore(m)
  PROVE  \A v \in Versions :
           \/ version'[v] = version[v]
           \/ /\ op \in DraftOps /\ v = open[m].v /\ version[v].status = "draft"
              /\ version'[v].status = "published" => /\ op = "publish" /\ doc'.published = v
                                                     /\ version'[v].section = version[v].section
                                                     /\ version'[v].task = version[v].task
           \/ /\ op = "draft" /\ version[v].status = "none" /\ version'[v].status = "draft"
              /\ version'[v] = [version[doc.published] EXCEPT !.status = "draft"]
              /\ \A w \in Versions : version[w].status # "none" => w < v
<1>1. Written /\ open[m] \in Request /\ open[m] # None /\ open[m].op = op /\ open[m].v \in Versions
  BY CommitCloses DEF Consistent
<1>2. CASE EditsDraft(m)
  <2>1. op \in EditOps
    BY <1>1, <1>2, EditsMakeGood DEF Edits, Commits
  <2>2. PICK r \in Version : /\ r.status = version[open[m].v].status
                             /\ version' = [version EXCEPT ![open[m].v] = r]
    BY <1>1, <1>2, EditsMakeGood DEF BecomesGood
  <2>3. op \in DraftOps /\ version[open[m].v].status = "draft"
    BY <1>1, <2>1, CommitsWhatWasChecked DEF DraftOps
  <2>4. version \in [Versions -> Version]
    BY <1>1 DEF Written
  <2> QED BY <1>1, <2>2, <2>3, <2>4
<1>3. CASE Publishes(m)
  <2>1. /\ op = "publish" /\ version' = [version EXCEPT ![open[m].v].status = "published"]
        /\ doc' = [doc EXCEPT !.published = open[m].v]
    BY <1>1, <1>3 DEF Publishes, Commits
  <2>2. op \in DraftOps /\ version[open[m].v].status = "draft"
    BY <1>1, <2>1, CommitsWhatWasChecked DEF DraftOps
  <2>3. version \in [Versions -> Version] /\ doc \in [archived : BOOLEAN, published : 0..LastVersion]
    BY <1>1 DEF Written
  <2>4. /\ version'[open[m].v].section = version[open[m].v].section
        /\ version'[open[m].v].task = version[open[m].v].task
        /\ doc'.published = open[m].v
    BY <1>1, <2>1, <2>3 DEF Version
  <2>5. \A v \in Versions : v # open[m].v => version'[v] = version[v]
    BY <1>1, <2>1, <2>3
  <2> QED BY <1>1, <2>1, <2>2, <2>4, <2>5
<1>4. CASE StartNewDraft(m)
  <2>1. op = "draft"
    BY <1>1, <1>4 DEF StartNewDraft, Commits
  <2>2. open[m].published = doc.published
    BY <1>1, <2>1, CommitsWhatWasChecked
  <2>3. PICK r \in Version : /\ r = [version[open[m].published] EXCEPT !.status = "draft"]
                             /\ r.status = "draft" /\ version' = [version EXCEPT ![Highest + 1] = r]
    BY <1>1, <1>4, NewDraftGood
  <2>4. /\ Highest + 1 \in Versions /\ version[Highest + 1].status = "none"
        /\ \A v \in Versions : version[v].status # "none" => v < Highest + 1
    BY <1>1, <1>4, NewDraftGood
  <2>5. version \in [Versions -> Version]
    BY <1>1 DEF Written
  <2> DEFINE n == Highest + 1
  <2> HIDE DEF n
  <2>6. n \in Versions /\ version' = [version EXCEPT ![n] = r] /\ version[n].status = "none"
        /\ \A w \in Versions : version[w].status # "none" => w < n
    BY <2>3, <2>4 DEF n
  <2>7. \A v \in Versions : version'[v] = IF v = n THEN r ELSE version[v]
    BY <2>5, <2>6
  <2>8. version'[n] = [version[doc.published] EXCEPT !.status = "draft"] /\ version'[n].status = "draft"
    BY <2>2, <2>3, <2>6, <2>7
  <2> QED BY <2>1, <2>6, <2>7, <2>8
<1>5. CASE DiscardDraft(m)
  <2>1. op = "discard" /\ version' = [version EXCEPT ![open[m].v] = NoVersion]
    BY <1>1, <1>5 DEF DiscardDraft, Commits
  <2>2. op \in DraftOps /\ version[open[m].v].status = "draft"
    BY <1>1, <2>1, CommitsWhatWasChecked DEF DraftOps
  <2>3. version \in [Versions -> Version] /\ NoVersion.status = "none"
    BY <1>1 DEF Written, NoVersion
  <2> QED BY <1>1, <2>1, <2>2, <2>3
<1>6. CASE Archive(m) \/ Restore(m)
  BY <1>6 DEF Archive, Restore
<1> QED BY <1>2, <1>3, <1>4, <1>5, <1>6

LEMMA InitConsistent == Init => Consistent
<1> SUFFICES ASSUME Init PROVE Consistent
  OBVIOUS
<1>1. \A m \in Managers : open[m] = None
  BY DEF Init
<1> QED BY <1>1, InitWritten DEF Consistent, Checked, Exclusive, HoldsVersion, HoldsDoc

LEMMA BeginConsistent ==
  ASSUME Consistent, NEW m \in Managers, Begin(m), Written'
  PROVE  Consistent'
<1>1. PICK op \in DraftOps \union {"draft", "archive", "restore"}, v \in Versions :
        /\ Lockable(m, op, v) /\ MayBegin(op, v)
        /\ open' = [open EXCEPT ![m] = [op |-> op, v |-> v, published |-> doc.published,
                                        live |-> courseLive]]
  BY DEF Begin
<1>2. /\ open[m] = None /\ UNCHANGED <<isolation, kind, doc, version>>
      /\ Serial => \A q \in Managers : open[q] = None
  BY DEF Begin
<1>3. /\ open'[m].op = op /\ open'[m].v = v /\ open'[m].published = doc.published
      /\ \A q \in Managers \ {m} : open'[q] = open[q]
  BY <1>1 DEF Consistent, Written
<1>4. /\ op \in DraftOps => version[v].status = "draft"
      /\ op = "publish" => Whole(v)
  BY <1>1 DEF MayBegin, IsDraft, DraftOps, EditOps
<1>5. \A w \in Versions : Whole(w)' <=> Whole(w)
  BY <1>2, WholeStays
<1>6. (Locking' <=> Locking) /\ (Serial' <=> Serial) /\ DocOps' = DocOps
  BY <1>2 DEF Locking, Serial, DocOps
<1>7. ASSUME NEW q \in Managers \ {m}, NEW w
      PROVE  (HoldsVersion(q, w)' <=> HoldsVersion(q, w)) /\ (HoldsDoc(q)' <=> HoldsDoc(q))
  BY <1>3, <1>6 DEF HoldsVersion, HoldsDoc
<1>8. ASSUME Locking \/ Serial
      PROVE  (\A q \in Managers : Checked(q))'
  <2>1. Checked(m)'
    BY <1>2, <1>3, <1>4, <1>5 DEF Checked, HoldsVersion
  <2>2. ASSUME NEW q \in Managers \ {m}
        PROVE  Checked(q)'
    BY <1>2, <1>3, <1>5, <1>7, <1>8 DEF Checked, Consistent
  <2> QED BY <2>1, <2>2
<1>9. ASSUME Locking, NEW q \in Managers \ {m}
      PROVE  Exclusive(m, q)' /\ Exclusive(q, m)'
  <2>1. ASSUME NEW w \in Versions, HoldsVersion(m, w)', HoldsVersion(q, w)'
        PROVE  FALSE
    <3>1. op \in DraftOps /\ w = v /\ HoldsVersion(q, w)
      BY <1>3, <1>7, <2>1 DEF HoldsVersion
    <3> QED BY <1>1, <1>9, <3>1 DEF Lockable
  <2>2. ASSUME HoldsDoc(m)', HoldsDoc(q)'
        PROVE  FALSE
    <3>1. op \in DocOps /\ HoldsDoc(q)
      BY <1>3, <1>6, <1>7, <2>2 DEF HoldsDoc
    <3> QED BY <1>1, <1>9, <3>1 DEF Lockable
  <2> QED BY <2>1, <2>2 DEF Exclusive
<1>10. ASSUME Locking, NEW p \in Managers \ {m}, NEW q \in Managers \ {m}, p # q
       PROVE  Exclusive(p, q)'
  BY <1>7, <1>10 DEF Exclusive, Consistent
<1>11. Serial => \A p, q \in Managers : p # q => open'[p] = None \/ open'[q] = None
  BY <1>2, <1>3
<1>12. Locking => (\A p, q \in Managers : p # q => Exclusive(p, q))'
  BY <1>9, <1>10
<1> QED BY <1>6, <1>8, <1>11, <1>12 DEF Consistent

\* Who commits does not touch what somebody else has checked.
LEMMA CommitConsistent ==
  ASSUME Consistent, NEW m \in Managers, NEW op, Commits(m, op), Written',
         \/ EditsDraft(m) \/ Publishes(m) \/ StartNewDraft(m) \/ DiscardDraft(m)
         \/ Archive(m) \/ Restore(m)
  PROVE  Consistent'
<1>1. /\ open'[m] = None /\ \A q \in Managers \ {m} : open'[q] = open[q]
      /\ isolation' = isolation /\ kind' = kind
      /\ open[m] \in Request /\ open[m] # None /\ open[m].op = op /\ open[m].v \in Versions
  BY CommitCloses DEF Consistent
<1>2. (Locking' <=> Locking) /\ (Serial' <=> Serial) /\ DocOps' = DocOps
  BY <1>1 DEF Locking, Serial, DocOps
<1>3. ASSUME NEW p \in Managers
      PROVE  /\ open'[p] = None \/ (p # m /\ open'[p] = open[p])
             /\ HoldsDoc(p)' => HoldsDoc(p) /\ p # m
             /\ \A v \in Versions : HoldsVersion(p, v)' => HoldsVersion(p, v) /\ p # m
  BY <1>1, <1>2 DEF HoldsVersion, HoldsDoc
<1>4. ASSUME Locking, NEW q \in Managers \ {m}
      PROVE  Checked(q)'
  <2>1. Checked(q) /\ Exclusive(m, q)
    BY <1>4 DEF Consistent
  <2>2. ASSUME NEW v \in Versions, HoldsVersion(q, v)'
        PROVE  version'[v].status = "draft" /\ (open'[q].op = "publish" => Whole(v)')
    <3>1. HoldsVersion(q, v) /\ open'[q] = open[q]
      BY <1>3, <2>2 DEF HoldsVersion
    <3>2. version[v].status = "draft" /\ (open[q].op = "publish" => Whole(v))
      BY <2>1, <3>1 DEF Checked
    <3>3. ~(op \in DraftOps /\ v = open[m].v)
      BY <1>1, <2>1, <3>1 DEF Exclusive, HoldsVersion
    <3>4. version'[v] = version[v]
      BY <1>4, <3>2, <3>3, OneVersion
    <3> QED BY <1>1, <3>1, <3>2, <3>4, WholeStays
  <2>3. ASSUME open'[q] # None, open'[q].op = "draft"
        PROVE  open'[q].published = doc'.published
    <3>1. open[q].published = doc.published /\ open'[q] = open[q] /\ HoldsDoc(q)
      BY <1>1, <2>1, <2>3 DEF Checked, HoldsDoc, DocOps
    <3>2. ~Publishes(m)
      BY <1>4, <3>1 DEF Publishes, TouchesDoc
    <3>3. CASE EditsDraft(m)
      BY <3>1, <3>3, EditsMakeGood DEF Consistent, Edits
    <3>4. CASE StartNewDraft(m) \/ DiscardDraft(m)
      BY <3>1, <3>4 DEF StartNewDraft, DiscardDraft
    <3>5. CASE Archive(m) \/ Restore(m)
      BY <3>1, <3>5 DEF Archive, Restore, Consistent, Written
    <3> QED BY <3>2, <3>3, <3>4, <3>5
  <2> QED BY <2>2, <2>3 DEF Checked
<1>5. Checked(m)'
  BY <1>1, <1>3 DEF Checked
<1>6. Serial => \A q \in Managers : open'[q] = None
  BY <1>1 DEF Consistent
<1>7. ASSUME Serial, NEW q \in Managers
      PROVE  Checked(q)'
  BY <1>6, <1>7 DEF Checked, HoldsVersion
<1>8. Locking \/ Serial => (\A q \in Managers : Checked(q))'
  BY <1>4, <1>5, <1>7
<1>9. ASSUME Locking, NEW p \in Managers, NEW q \in Managers \ {p}
      PROVE  Exclusive(p, q)'
  BY <1>3, <1>9 DEF Exclusive, Consistent
<1>10. Locking => (\A p, q \in Managers : p # q => Exclusive(p, q))'
  BY <1>9
<1> QED BY <1>2, <1>6, <1>8, <1>10 DEF Consistent

LEMMA CommitIsOne ==
  ASSUME NEW m \in Managers,
         \/ EditsDraft(m) \/ Publishes(m) \/ StartNewDraft(m) \/ DiscardDraft(m)
         \/ Archive(m) \/ Restore(m)
  PROVE  \E op : Commits(m, op)
<1>1. CASE EditsDraft(m)
  BY <1>1, ZenonT(40) DEF EditsDraft, AddTask, UpdateTask, RemoveTask, MoveTask, AddSection, RemoveSection,
              MoveSection, Edits
<1>2. CASE ~EditsDraft(m)
  BY <1>2 DEF Publishes, StartNewDraft, DiscardDraft, Archive, Restore
<1> QED BY <1>1, <1>2, SMTT(40)

LEMMA NextConsistent == Consistent /\ [Next]_vars => Consistent'
<1> SUFFICES ASSUME Consistent, [Next]_vars PROVE Consistent'
  OBVIOUS
<1>1. Written'
  BY NextWritten DEF Consistent
<1>2. ASSUME NEW m \in Managers, Begin(m)
      PROVE  Consistent'
  BY <1>1, <1>2, BeginConsistent
<1>3. ASSUME NEW m \in Managers, Rollback(m)
      PROVE  Consistent'
  <2>1. /\ open'[m] = None /\ \A q \in Managers \ {m} : open'[q] = open[q]
        /\ UNCHANGED <<isolation, kind, doc, version>>
    BY <1>3 DEF Rollback, Consistent, Written
  <2>2. ASSUME NEW p \in Managers
        PROVE  /\ HoldsDoc(p)' => HoldsDoc(p) /\ p # m
               /\ \A v \in Versions : HoldsVersion(p, v)' => HoldsVersion(p, v) /\ p # m
               /\ Checked(p) => Checked(p)'
    <3>1. /\ HoldsDoc(p)' => HoldsDoc(p) /\ p # m
          /\ \A v \in Versions : HoldsVersion(p, v)' => HoldsVersion(p, v) /\ p # m
      BY <2>1 DEF HoldsVersion, HoldsDoc, DocOps
    <3>2. \A v \in Versions : Whole(v)' <=> Whole(v)
      BY <2>1, WholeStays
    <3> QED BY <2>1, <3>1, <3>2 DEF Checked
  <2>3. (Locking' <=> Locking) /\ (Serial' <=> Serial)
    BY <2>1 DEF Locking, Serial
  <2>4. ASSUME NEW p \in Managers, NEW q \in Managers, Exclusive(p, q)
        PROVE  Exclusive(p, q)'
    BY <2>2, <2>4 DEF Exclusive
  <2> QED BY <1>1, <2>1, <2>2, <2>3, <2>4 DEF Consistent
<1>4. ASSUME NEW m \in Managers,
             \/ EditsDraft(m) \/ Publishes(m) \/ StartNewDraft(m) \/ DiscardDraft(m)
             \/ Archive(m) \/ Restore(m)
      PROVE  Consistent'
  BY <1>1, <1>4, CommitIsOne, CommitConsistent
<1>5. CASE CourseChanges \/ UNCHANGED vars
  <2>1. UNCHANGED <<isolation, kind, doc, version, open>>
    BY <1>5 DEF CourseChanges, vars
  <2>2. \A v \in Versions : Whole(v)' <=> Whole(v)
    BY <2>1, WholeStays
  <2>3. /\ \A p \in Managers : HoldsDoc(p)' <=> HoldsDoc(p)
        /\ \A p \in Managers, v \in Versions : HoldsVersion(p, v)' <=> HoldsVersion(p, v)
        /\ (Locking' <=> Locking) /\ (Serial' <=> Serial)
    BY <2>1 DEF HoldsVersion, HoldsDoc, DocOps, Locking, Serial
  <2>4. \A p \in Managers : Checked(p)' <=> Checked(p)
    BY <2>1, <2>2, <2>3 DEF Checked
  <2>5. \A p, q \in Managers : Exclusive(p, q)' <=> Exclusive(p, q)
    BY <2>3, SMTT(40) DEF Exclusive
  <2> QED BY <1>1, <2>1, <2>3, <2>4, <2>5 DEF Consistent
<1> QED
  BY <1>2, <1>3, <1>4, <1>5 DEF Next, EditsDraft, PublishDraft, PublishVersion

LEMMA NextKeepsKind ==
  ASSUME [Next]_vars
  PROVE  isolation' = isolation /\ kind' = kind
  BY ZenonT(40) DEF Next, vars, Begin, Rollback, AddTask, UpdateTask, RemoveTask, MoveTask, AddSection,
         RemoveSection, MoveSection, PublishDraft, PublishVersion, Publishes, StartNewDraft,
         DiscardDraft, Archive, Restore, CourseChanges, Edits, Commits

\* A step changes the draft somebody has open, or makes one that continues what is published.
LEMMA StepsChangeOneVersion ==
  ASSUME Consistent, [Next]_vars, Locking \/ Serial, version' # version
  PROVE  \E m \in Managers : \E op : Commits(m, op) /\
           \A v \in Versions :
             \/ version'[v] = version[v]
             \/ /\ v = open[m].v /\ version[v].status = "draft"
                /\ version'[v].status = "published" => /\ op = "publish" /\ doc'.published = v
                                                       /\ version'[v].section = version[v].section
                                                       /\ version'[v].task = version[v].task
             \/ /\ version[v].status = "none" /\ version'[v].status = "draft"
                /\ version'[v] = [version[doc.published] EXCEPT !.status = "draft"]
                /\ \A w \in Versions : version[w].status # "none" => w < v
<1>1. PICK m \in Managers : \/ EditsDraft(m) \/ Publishes(m) \/ StartNewDraft(m) \/ DiscardDraft(m)
                            \/ Archive(m) \/ Restore(m)
  BY DEF Next, vars, EditsDraft, PublishDraft, PublishVersion, Begin, Rollback, CourseChanges
<1>2. PICK op : Commits(m, op)
  BY <1>1, CommitIsOne
<1> QED BY <1>1, <1>2, OneVersion

\* A published version is never touched again: of a course or a template however transactions
\* overlap, by the locks and the triggers; of a checklist one at a time, by the checks.
THEOREM PublishedStays == Spec => PublishedIsFrozen
<1> DEFINE Kept == \A v \in Versions : version[v].status = "published" /\ (Locking \/ Serial)
                      => version'[v] = version[v]
<1>1. Consistent /\ [Next]_vars => [Kept]_vars
  <2> SUFFICES ASSUME Consistent, [Next]_vars, NEW v \in Versions,
                      version[v].status = "published", Locking \/ Serial
               PROVE  version'[v] = version[v]
    OBVIOUS
  <2>1. CASE version' = version
    BY <2>1
  <2>2. CASE version' # version
    BY <2>2, StepsChangeOneVersion
  <2> QED BY <2>1, <2>2
<1> QED BY <1>1, InitConsistent, NextConsistent, PTL DEF Spec, PublishedIsFrozen

\* A new draft starts from what is published now and has a higher number (startNewDraft,
\* createDraftVersion): publications wait for the document it has locked.
THEOREM DraftsContinue == Spec => DraftContinuesPublished
<1> DEFINE Continued ==
      \A v \in Versions :
        version[v].status = "none" /\ version'[v].status = "draft" /\ (Locking \/ Serial)
          => /\ version'[v] = [version[doc.published] EXCEPT !.status = "draft"]
             /\ v > doc.published
<1>1. Consistent /\ [Next]_vars => [Continued]_vars
  <2> SUFFICES ASSUME Consistent, [Next]_vars, NEW v \in Versions,
                      version[v].status = "none", version'[v].status = "draft", Locking \/ Serial
               PROVE  /\ version'[v] = [version[doc.published] EXCEPT !.status = "draft"]
                      /\ v > doc.published
    OBVIOUS
  <2>1. /\ version'[v] = [version[doc.published] EXCEPT !.status = "draft"]
        /\ \A w \in Versions : version[w].status # "none" => w < v
    BY StepsChangeOneVersion
  <2>2. doc.published # 0 => doc.published \in Versions /\ version[doc.published].status = "published"
    BY BoundsAssumption DEF Consistent, Written, Versions
  <2>3. doc.published \in Nat /\ v \in Nat \ {0}
    BY BoundsAssumption DEF Consistent, Written, Versions
  <2> QED BY <2>1, <2>2, <2>3
<1> QED BY <1>1, InitConsistent, NextConsistent, PTL DEF Spec, DraftContinuesPublished

\* What is published is whole: what a publication has checked is held until it commits.
THEOREM PublishedWhole == Spec => []PublishedIsWhole
<1>1. Init => PublishedIsWhole
  BY DEF Init, PublishedIsWhole, FirstDraft, NoVersion
<1>2. Consistent /\ PublishedIsWhole /\ [Next]_vars => PublishedIsWhole'
  <2> SUFFICES ASSUME Consistent, PublishedIsWhole, [Next]_vars PROVE PublishedIsWhole'
    OBVIOUS
  <2>1. isolation' = isolation /\ kind' = kind
    BY NextKeepsKind
  <2> SUFFICES ASSUME Locking \/ Serial, NEW v \in Versions, version'[v].status = "published"
               PROVE  Whole(v)'
    BY <2>1 DEF PublishedIsWhole, Locking, Serial
  <2>2. CASE version'[v] = version[v]
    <3>1. Whole(v)
      BY <2>2 DEF PublishedIsWhole
    <3> QED BY <2>1, <2>2, <3>1, WholeStays
  <2>3. CASE version'[v] # version[v]
    <3>1. PICK m \in Managers : /\ Commits(m, "publish") /\ v = open[m].v
                                /\ version'[v].section = version[v].section
                                /\ version'[v].task = version[v].task
      BY <2>3, StepsChangeOneVersion
    <3>2. Whole(v)
      BY <3>1, CommitsWhatWasChecked DEF Commits
    <3> QED BY <2>1, <3>1, <3>2, WholeStays
  <2> QED BY <2>2, <2>3
<1> QED BY <1>1, <1>2, InitConsistent, NextConsistent, PTL DEF Spec
=============================================================================
