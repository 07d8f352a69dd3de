-------------------------- MODULE CommunicationProofs --------------------------
(***************************************************************************)
(* Announcements: however many managers revise one announcement, and       *)
(* however their transactions overlap, its current revision is its newest, *)
(* its columns are what they should be, a material revision asks everyone  *)
(* again and a reminder stamp means a notification.                        *)
(*                                                                         *)
(* The small services: rooms, conversations, support cases, what an actor  *)
(* may do, files that are read and written, and the rate limit, each with  *)
(* the invariant its promise needs.                                        *)
(***************************************************************************)
EXTENDS Announcements, MCServices, FiniteSetTheorems, WellFoundedInduction, TLAPS

-----------------------------------------------------------------------------
(* The revision number *)

\* What the unique revision number keeps, step by step.
Newest == revisions \in Nat \ {0} /\ CurrentIsNewest

LEMMA InitNewest == Init => Newest
  BY DEF Init, Newest, CurrentIsNewest

\* The number a revision inserts was computed from the highest number read; that
\* the constraint let it in means nobody has taken a number since.
LEMMA ReviseNewest ==
  ASSUME Newest, NEW m \in Managers, ReviseAnnouncement(m)
  PROVE  Newest'
<1>1. request[m].revisions = revisions
  BY DEF ReviseAnnouncement, NumberStillFree
<1>2. /\ current' = revisions + 1
      /\ revisions' = IF revisions + 1 > revisions THEN revisions + 1 ELSE revisions
  BY <1>1 DEF ReviseAnnouncement
<1> QED BY <1>2 DEF Newest, CurrentIsNewest

\* No other step touches the revisions or the pointer to the current one.
LEMMA OthersKeepRevisions ==
  ASSUME [Next]_vars, ~(\E m \in Managers : ReviseAnnouncement(m))
  PROVE  UNCHANGED <<revisions, current>>
<1>1. ASSUME NEW m \in Managers, ManagerStep(m), ~ReviseAnnouncement(m)
      PROVE  UNCHANGED <<revisions, current>>
  BY <1>1 DEF ManagerStep, BeginRequest, UpdateDraft, PublishAnnouncement, SyncRecipients,
              ScheduleAnnouncement, CancelSchedule, ArchiveAnnouncement, SendReminders, Rollback,
              ScopeChanges, UnchangedByWorld, contentVars
<1>2. ASSUME NEW p \in People, OpenAnnouncement(p) \/ BeginAcknowledge(p) \/ Acknowledge(p)
      PROVE  UNCHANGED <<revisions, current>>
  BY <1>2 DEF OpenAnnouncement, BeginAcknowledge, Acknowledge, UnchangedForPeople, contentVars
<1>3. ASSUME NEW w \in Workers, BackgroundStep(w)
      PROVE  UNCHANGED <<revisions, current>>
  BY <1>3 DEF BackgroundStep, PublishScheduled, MarkScheduleFailed, ExpireDue,
              ReadReminderCandidates, RemindAutomatically, GiveUp, contentVars
<1>4. ASSUME (\E purpose \in queued : Deliver(purpose)) \/ TimePasses \/ PeopleMove
      PROVE  UNCHANGED <<revisions, current>>
  BY <1>4 DEF Deliver, TimePasses, PeopleMove, UnchangedByWorld, contentVars
<1>5. ASSUME UNCHANGED vars PROVE UNCHANGED <<revisions, current>>
  BY <1>5 DEF vars, contentVars
<1> QED BY <1>1, <1>2, <1>3, <1>4, <1>5 DEF Next

\* The current revision is the newest one, for any number of managers, people
\* and workers, with or without overlapping transactions.
THEOREM NewestIsCurrent == Spec => []CurrentIsNewest
<1>1. Newest /\ [Next]_vars => Newest'
  <2> SUFFICES ASSUME Newest, [Next]_vars PROVE Newest'
    OBVIOUS
  <2>1. CASE \E m \in Managers : ReviseAnnouncement(m)
    BY <2>1, ReviseNewest
  <2>2. CASE ~(\E m \in Managers : ReviseAnnouncement(m))
    BY <2>2, OthersKeepRevisions DEF Newest, CurrentIsNewest
  <2> QED BY <2>1, <2>2
<1>2. Newest => CurrentIsNewest
  BY DEF Newest
<1> QED BY <1>1, <1>2, InitNewest, PTL DEF Spec

-----------------------------------------------------------------------------
(* Types, however transactions overlap *)

\* Only recipients see a page, press its button and have an answer stored.
Addressees ==
  \A p \in People :
    screen[p] # NoWording \/ reading[p] # NoWording \/ agreed[p] # NoWording => p \in recipient

\* The reminder counts a transaction has read have only grown since.
CountsRead ==
  /\ DOMAIN request = Managers
  /\ \A m \in Managers : \A p \in DOMAIN request[m].counts :
       request[m].counts[p] \in Nat /\ request[m].counts[p] <= reminded[p]

\* A worker about to remind has read a stage.
StagesRead == \A w \in Workers : job[w].at = "reminding" => job[w].stage \in Stages

Typed == /\ TypeOK /\ Newest /\ Addressees /\ CountsRead /\ StagesRead
         /\ material \subseteq 1..current

LEMMA WordingKnown ==
  ASSUME TypeOK
  PROVE  Wording \in Wordings /\ Wording # NoWording /\ Wording.revision = current
  BY BoundsAssumption DEF TypeOK, Wording, Wordings, NoWording

LEMMA NobodyAsked == NoWording \in Wordings
  BY BoundsAssumption DEF NoWording, Wordings

\* What enqueue does to the keys and the queue.
LEMMA Enqueued ==
  ASSUME TypeOK, NEW K \in SUBSET Keys, NEW purpose \in Purposes, Enqueue(K, purpose)
  PROVE  /\ keys' \in SUBSET Keys /\ keys \subseteq keys' /\ queued' \in SUBSET Purposes
         /\ keys' = keys \union K
  BY DEF TypeOK, Enqueue

LEMMA InitTyped == Init => Typed
<1> SUFFICES ASSUME Init PROVE Typed
  OBVIOUS
<1>1. /\ status \in Statuses /\ addressed \in BOOLEAN /\ audience \in SUBSET People
      /\ publishDue \in BOOLEAN /\ expiryPassed \in BOOLEAN /\ ackDue \in Stages \union {"later"}
      /\ scheduledBy \in Managers \union {Nobody} /\ scope \in [Managers -> SUBSET People]
  BY DEF Init, Statuses
<1>2. /\ edits \in 0..MaxEdits /\ revisions \in 1..MaxRevisions /\ current \in 1..MaxRevisions
      /\ material \in SUBSET (1..MaxRevisions)
  BY BoundsAssumption DEF Init
<1>3. /\ recipient \in SUBSET People /\ agreed \in [People -> Wordings]
      /\ answered \in [People -> 0..MaxRevisions]
      /\ reask \in SUBSET Acknowledged /\ stamped \in [Stages -> SUBSET recipient]
      /\ reminded \in [People -> 0..MaxReminders]
      /\ screen \in [People -> Wordings] /\ reading \in [People -> Wordings]
  BY BoundsAssumption, NobodyAsked DEF Init
<1>4. keys \in SUBSET Keys /\ queued \in SUBSET Purposes
  BY DEF Init
<1>5. /\ \A m \in Managers : /\ request[m].op \in Operations \union {"none"}
                             /\ request[m].scope \in SUBSET People
                             /\ DOMAIN request[m].counts = {}
      /\ DOMAIN request = Managers
  BY DEF Init, Idle
<1>6. job \in [Workers -> [at : {"idle", "refused", "reminding"},
                          revision : 0..MaxRevisions, stage : Stages \union {"none"}]]
  BY BoundsAssumption DEF Init, NoJob
<1>7. TypeOK
  BY <1>1, <1>2, <1>3, <1>4, <1>5, <1>6 DEF TypeOK
<1> QED BY <1>5, <1>7 DEF Init, Typed, Newest, CurrentIsNewest, Addressees, CountsRead, StagesRead, Idle, NoJob

\* What an action leaves alone of a request.
LEMMA RequestOpens ==
  ASSUME Typed, NEW m \in Managers, BeginRequest(m)
  PROVE  Typed'
<1>1. PICK op \in Operations :
        request' = [request EXCEPT ![m] =
            [op |-> op, revisions |-> IF op = "revise" THEN revisions ELSE 0,
             scope |-> IF op \in {"publish", "sync"} THEN scope[m] ELSE {},
             counts |-> [p \in IF op = "remind" THEN Outstanding \intersect scope[m] ELSE {}
                           |-> reminded[p]]]]
  BY DEF BeginRequest
<1> DEFINE P == IF op = "remind" THEN Outstanding \intersect scope[m] ELSE {}
<1>2. P \subseteq People
  BY DEF Typed, TypeOK
<1>3. /\ request'[m].op = op /\ request'[m].scope \in SUBSET People
      /\ request'[m].counts = [p \in P |-> reminded[p]]
      /\ \A n \in Managers \ {m} : request'[n] = request[n]
      /\ DOMAIN request' = Managers
  BY <1>1 DEF Typed, TypeOK, CountsRead
<1>4. TypeOK'
  BY <1>2, <1>3 DEF BeginRequest, Typed, TypeOK, audienceVars, deadlineVars, contentVars,
       receiptVars, queueVars, personVars, Acknowledged, Wordings, Keys, Key
<1>5. CountsRead'
  BY <1>2, <1>3 DEF BeginRequest, Typed, TypeOK, CountsRead, receiptVars
<1> QED BY <1>4, <1>5 DEF BeginRequest, Typed, Newest, CurrentIsNewest, Addressees, StagesRead, contentVars,
              receiptVars, personVars
\* What a manager's own action leaves: its request is over, others are as they were.
LEMMA RequestEnds ==
  ASSUME Typed, NEW m \in Managers, NEW op, Finish(m, op)
  PROVE  /\ scope' = scope /\ screen' = screen /\ reading' = reading /\ job' = job
         /\ DOMAIN request' = Managers
         /\ \A n \in Managers : /\ request'[n].op \in Operations \union {"none"}
                                /\ request'[n].scope \in SUBSET People
                                /\ DOMAIN request'[n].counts \in SUBSET People
                                /\ \A p \in DOMAIN request'[n].counts :
                                     /\ request'[n].counts[p] \in Nat
                                     /\ request'[n].counts[p] <= reminded[p]
  BY DEF Typed, TypeOK, CountsRead, Finish, Idle, personVars

LEMMA UpdateTyped ==
  ASSUME Typed, NEW m \in Managers, UpdateDraft(m)
  PROVE  Typed'
<1>1. edits' \in 0..MaxEdits
  BY BoundsAssumption DEF UpdateDraft, Typed, TypeOK
<1>2. audience' \in SUBSET People /\ addressed' \in BOOLEAN
  BY DEF UpdateDraft
<1>3. expiryPassed' \in BOOLEAN /\ ackDue' \in Stages \union {"later"}
  BY DEF UpdateDraft, Typed, TypeOK
<1>4. /\ UNCHANGED <<status, publishDue, scheduledBy, revisions, current, material, recipient,
                     receiptVars, queueVars>>
      /\ Finish(m, "update")
  BY DEF UpdateDraft
<1>5. TypeOK'
  BY <1>1, <1>2, <1>3, <1>4, RequestEnds DEF Typed, TypeOK, receiptVars, queueVars,
       Acknowledged, Wordings, Keys, Key
<1> QED BY <1>5, RequestEnds DEF UpdateDraft, Typed, Newest, CurrentIsNewest, Addressees,
              CountsRead, StagesRead, receiptVars

\* materializeRecipients adds recipients and notifies them once.
LEMMA Materialized ==
  ASSUME Typed, NEW S \in SUBSET People, Materialize(S), UNCHANGED receiptVars
  PROVE  /\ recipient \subseteq recipient' /\ recipient' \in SUBSET People
         /\ keys' \in SUBSET Keys /\ queued' \in SUBSET Purposes
         /\ reask' \in SUBSET Acknowledged'
         /\ stamped' \in [Stages -> SUBSET recipient']
<1>1. {Key(p, "initial", 0) : p \in S \ recipient} \in SUBSET Keys
  BY BoundsAssumption DEF Keys, Purposes
<1>2. /\ recipient \subseteq recipient' /\ recipient' \in SUBSET People
      /\ keys' \in SUBSET Keys /\ queued' \in SUBSET Purposes
  BY <1>1, Enqueued DEF Materialize, Purposes, Typed, TypeOK
<1> QED BY <1>2 DEF Typed, TypeOK, Acknowledged, receiptVars

LEMMA PublishTyped ==
  ASSUME Typed, NEW m \in Managers, PublishAnnouncement(m) \/ SyncRecipients(m)
  PROVE  Typed'
<1>1. /\ Materialize(audience \intersect request[m].scope) /\ UNCHANGED receiptVars
      /\ audience \intersect request[m].scope \in SUBSET People
  BY DEF PublishAnnouncement, SyncRecipients, Typed, TypeOK
<1>2. \E op : Finish(m, op)
  BY DEF PublishAnnouncement, SyncRecipients
<1>3. status' \in Statuses /\ publishDue' \in BOOLEAN
  BY DEF PublishAnnouncement, SyncRecipients, Typed, TypeOK, deadlineVars, Statuses
<1>4. UNCHANGED <<audienceVars, expiryPassed, ackDue, scheduledBy, contentVars, receiptVars>>
  BY DEF PublishAnnouncement, SyncRecipients, deadlineVars
<1>5. TypeOK'
  <2>1. /\ recipient' \in SUBSET People /\ keys' \in SUBSET Keys /\ queued' \in SUBSET Purposes
        /\ reask' \in SUBSET Acknowledged' /\ stamped' \in [Stages -> SUBSET recipient']
    BY <1>1, Materialized
  <2>2. /\ scope' = scope /\ screen' = screen /\ reading' = reading /\ job' = job
        /\ \A n \in Managers : /\ request'[n].op \in Operations \union {"none"}
                               /\ request'[n].scope \in SUBSET People
                               /\ DOMAIN request'[n].counts \in SUBSET People
    BY <1>2, RequestEnds
  <2> QED BY <1>3, <1>4, <2>1, <2>2
          DEF Typed, TypeOK, audienceVars, contentVars, receiptVars, Wordings, Keys, Key
<1> QED BY <1>1, <1>2, <1>4, <1>5, RequestEnds, Materialized
        DEF Typed, Newest, CurrentIsNewest, Addressees, CountsRead, StagesRead, contentVars, receiptVars

LEMMA ScheduleTyped ==
  ASSUME Typed, NEW m \in Managers,
         ScheduleAnnouncement(m) \/ CancelSchedule(m) \/ ArchiveAnnouncement(m) \/ Rollback(m)
  PROVE  Typed'
<1>1. \E op : Finish(m, op)
  BY DEF ScheduleAnnouncement, CancelSchedule, ArchiveAnnouncement, Rollback
<1>2. /\ status' \in Statuses /\ publishDue' \in BOOLEAN
      /\ scheduledBy' \in Managers \union {Nobody}
      /\ keys' = keys /\ queued' \in SUBSET Purposes
  BY DEF ScheduleAnnouncement, CancelSchedule, ArchiveAnnouncement, Rollback, Typed, TypeOK,
         deadlineVars, Statuses, queueVars
<1>3. UNCHANGED <<audienceVars, expiryPassed, ackDue, contentVars, recipient, receiptVars>>
  BY DEF ScheduleAnnouncement, CancelSchedule, ArchiveAnnouncement, Rollback, deadlineVars
<1>4. TypeOK'
  BY <1>1, <1>2, <1>3, RequestEnds
  DEF Typed, TypeOK, audienceVars, contentVars, receiptVars, Acknowledged, Wordings, Keys, Key
<1> QED BY <1>1, <1>3, <1>4, RequestEnds
        DEF Typed, Newest, CurrentIsNewest, Addressees, CountsRead, StagesRead, contentVars, receiptVars

LEMMA ReviseTyped ==
  ASSUME Typed, NEW m \in Managers, ReviseAnnouncement(m)
  PROVE  Typed'
<1>1. /\ current' = current + 1 /\ revisions' = current + 1
      /\ current + 1 \in 1..MaxRevisions
  BY BoundsAssumption
  DEF ReviseAnnouncement, NumberStillFree, Typed, TypeOK, Newest, CurrentIsNewest
<1>2. PICK isMaterial \in BOOLEAN :
        /\ material' = IF isMaterial THEN material \union {current + 1} ELSE material
        /\ reask' = reask \union Asked(isMaterial)
        /\ stamped' = [s \in Stages |-> stamped[s] \ Asked(isMaterial)]
  BY DEF ReviseAnnouncement, NumberStillFree, Typed, Newest, CurrentIsNewest
<1>3. material' \in SUBSET (1..MaxRevisions) /\ material' \subseteq 1..current'
  BY <1>1, <1>2, BoundsAssumption DEF Typed, TypeOK
<1>4. reask' \in SUBSET Acknowledged' /\ stamped' \in [Stages -> SUBSET recipient']
  BY <1>2 DEF ReviseAnnouncement, Asked, Acknowledged, Typed, TypeOK
<1>5. Finish(m, "revise")
  BY DEF ReviseAnnouncement
<1>6. UNCHANGED <<status, audienceVars, deadlineVars, scheduledBy, edits, recipient, agreed,
                  answered, reminded, queueVars>>
  BY DEF ReviseAnnouncement
<1>7. TypeOK'
  BY <1>1, <1>3, <1>4, <1>5, <1>6, RequestEnds
  DEF Typed, TypeOK, audienceVars, deadlineVars, queueVars, Wordings, Keys, Key
<1> QED BY <1>1, <1>3, <1>5, <1>6, <1>7, RequestEnds, BoundsAssumption
        DEF Typed, Newest, CurrentIsNewest, Addressees, CountsRead, StagesRead

\* A reminder is numbered by a count that was read, and the counts have a limit.
LEMMA SendTyped ==
  ASSUME Typed, NEW m \in Managers, SendReminders(m)
  PROVE  Typed'
<1> DEFINE counts == request[m].counts
           K == {Key(p, "reminder", counts[p] + 1) : p \in DOMAIN counts}
<1>1. Finish(m, "remind") /\ DOMAIN counts \in SUBSET People
  BY DEF SendReminders, Typed, TypeOK
<1>2. K \in SUBSET Keys
  <2>1. SUFFICES ASSUME NEW p \in DOMAIN counts
                 PROVE  Key(p, "reminder", counts[p] + 1) \in Keys
    OBVIOUS
  <2>2. /\ p \in People /\ counts[p] \in Nat /\ counts[p] <= reminded[p]
        /\ reminded[p] < MaxReminders /\ reminded[p] \in Nat
    BY <1>1 DEF SendReminders, Typed, TypeOK, CountsRead
  <2>3. counts[p] + 1 \in 0..(MaxRevisions + MaxReminders)
    BY <2>2, BoundsAssumption
  <2> QED BY <2>2, <2>3 DEF Keys, Purposes
<1>3. reminded' \in [People -> 0..MaxReminders] /\ \A p \in People : reminded[p] <= reminded'[p]
  BY <1>1, BoundsAssumption DEF SendReminders, Typed, TypeOK
<1>4. keys' \in SUBSET Keys /\ queued' \in SUBSET Purposes
  BY <1>2, Enqueued DEF SendReminders, Purposes, Typed
<1>5. UNCHANGED <<status, audienceVars, deadlineVars, scheduledBy, contentVars, recipient,
                  agreed, answered, reask, stamped>>
  BY DEF SendReminders
<1>6. TypeOK'
  BY <1>1, <1>3, <1>4, <1>5, RequestEnds
  DEF Typed, TypeOK, audienceVars, deadlineVars, contentVars, Acknowledged, Wordings, Keys, Key
<1>7. CountsRead'
  BY <1>1, <1>3, RequestEnds DEF Typed, TypeOK, CountsRead
<1> QED BY <1>1, <1>5, <1>6, <1>7, RequestEnds
        DEF Typed, Newest, CurrentIsNewest, Addressees, StagesRead, contentVars
LEMMA ManagerTyped ==
  ASSUME Typed, NEW m \in Managers, ManagerStep(m)
  PROVE  Typed'
<1>1. CASE ScopeChanges(m)
  <2>1. scope' \in [Managers -> SUBSET People]
    BY <1>1 DEF ScopeChanges, Typed, TypeOK
  <2>2. UnchangedByWorld /\ UNCHANGED <<audience, deadlineVars, queued>>
    BY <1>1 DEF ScopeChanges
  <2>3. TypeOK'
    BY <2>1, <2>2 DEF UnchangedByWorld, Typed, TypeOK, deadlineVars, contentVars, personVars,
         Acknowledged, Wordings, Keys, Key
  <2> QED BY <2>2, <2>3 DEF UnchangedByWorld, Typed, Newest, CurrentIsNewest, Addressees,
                CountsRead, StagesRead, contentVars, personVars
<1> QED BY <1>1, RequestOpens, UpdateTyped, PublishTyped, ScheduleTyped, ReviseTyped, SendTyped
        DEF ManagerStep

LEMMA PersonTyped ==
  ASSUME Typed, NEW p \in People, OpenAnnouncement(p) \/ BeginAcknowledge(p) \/ Acknowledge(p)
  PROVE  Typed'
<1>1. /\ screen' \in [People -> Wordings] /\ reading' \in [People -> Wordings]
      /\ agreed' \in [People -> Wordings] /\ answered' \in [People -> 0..MaxRevisions]
  BY WordingKnown, NobodyAsked
  DEF OpenAnnouncement, BeginAcknowledge, Acknowledge, UnchangedForPeople, Typed, TypeOK
<1>2. UnchangedForPeople
  BY DEF OpenAnnouncement, BeginAcknowledge, Acknowledge
<1>3. p \in recipient
  BY DEF OpenAnnouncement, BeginAcknowledge, Acknowledge, Typed, Addressees, Outstanding,
         Acknowledged, TypeOK
<1>4. reask' \in SUBSET Acknowledged'
  BY <1>2 DEF OpenAnnouncement, BeginAcknowledge, Acknowledge, UnchangedForPeople, Acknowledged,
              Typed, TypeOK
<1>5. TypeOK'
  BY <1>1, <1>2, <1>4 DEF UnchangedForPeople, Typed, TypeOK, audienceVars, deadlineVars,
       contentVars, queueVars, Wordings, Keys, Key
<1>6. Addressees'
  BY <1>2, <1>3 DEF OpenAnnouncement, BeginAcknowledge, Acknowledge, UnchangedForPeople, Typed,
       TypeOK, Addressees
<1> QED BY <1>2, <1>5, <1>6
        DEF UnchangedForPeople, Typed, Newest, CurrentIsNewest, CountsRead, StagesRead, contentVars

\* What no step of a worker changes.
WorkersLeave == UNCHANGED <<scope, request, personVars, audienceVars, scheduledBy, contentVars,
                            agreed, answered, reask, expiryPassed, ackDue>>

LEMMA WorkersLeaveIt ==
  ASSUME NEW w \in Workers, BackgroundStep(w)
  PROVE  WorkersLeave
  BY DEF BackgroundStep, PublishScheduled, MarkScheduleFailed, ExpireDue, ReadReminderCandidates,
         RemindAutomatically, GiveUp, WorkerStep, WorkersLeave, receiptVars, deadlineVars

LEMMA RemindTyped ==
  ASSUME Typed, NEW w \in Workers, RemindAutomatically(w)
  PROVE  /\ stamped' \in [Stages -> SUBSET recipient] /\ keys' \in SUBSET Keys
         /\ queued' \in SUBSET Purposes /\ reminded' \in [People -> 0..MaxReminders]
         /\ \A p \in People : reminded[p] <= reminded'[p]
<1> DEFINE stage == job[w].stage
           claimed == Outstanding \ stamped[stage]
           K == {Key(p, stage, job[w].revision) : p \in claimed}
<1>1. claimed \subseteq recipient /\ recipient \subseteq People
  BY DEF Outstanding, Acknowledged, Typed, TypeOK
<1>2. stage \in Stages /\ job[w].revision \in 0..MaxRevisions
  BY DEF RemindAutomatically, Typed, StagesRead, TypeOK
<1>3. stamped' \in [Stages -> SUBSET recipient]
  BY <1>1 DEF RemindAutomatically, Typed, TypeOK
<1>4. K \in SUBSET Keys
  BY <1>1, <1>2, BoundsAssumption DEF Keys, Purposes
<1>5. Enqueue(K, stage) /\ stage \in Purposes
  BY <1>2 DEF RemindAutomatically, Purposes
<1>6. keys' \in SUBSET Keys /\ queued' \in SUBSET Purposes
  BY <1>4, <1>5, Enqueued DEF Typed
<1>7. reminded' \in [People -> 0..MaxReminders] /\ \A p \in People : reminded[p] <= reminded'[p]
  BY <1>1, BoundsAssumption DEF RemindAutomatically, Typed, TypeOK
<1> QED BY <1>3, <1>6, <1>7

LEMMA JobTyped ==
  ASSUME Typed, NEW w \in Workers, BackgroundStep(w)
  PROVE  /\ job' \in [Workers -> [at : {"idle", "refused", "reminding"},
                                  revision : 0..MaxRevisions, stage : Stages \union {"none"}]]
         /\ StagesRead'
<1>1. PICK next : /\ job' = [job EXCEPT ![w] = next]
                  /\ \/ next = NoJob
                     \/ next = [NoJob EXCEPT !.at = "refused"]
                     \/ /\ next = [at |-> "reminding", revision |-> current, stage |-> ackDue]
                        /\ ackDue \in Stages
  BY DEF BackgroundStep, PublishScheduled, MarkScheduleFailed, ExpireDue, ReadReminderCandidates,
         RemindAutomatically, GiveUp, WorkerStep
<1>2. /\ next \in [at : {"idle", "refused", "reminding"}, revision : 0..MaxRevisions,
                   stage : Stages \union {"none"}]
      /\ next.at = "reminding" => next.stage \in Stages
  BY <1>1, BoundsAssumption DEF NoJob, Typed, TypeOK
<1> QED BY <1>1, <1>2 DEF Typed, TypeOK, StagesRead

LEMMA WorkerTyped ==
  ASSUME Typed, NEW w \in Workers, BackgroundStep(w)
  PROVE  Typed'
<1>1. WorkersLeave
  BY WorkersLeaveIt
<1>2. status' \in Statuses /\ publishDue' \in BOOLEAN
  BY DEF BackgroundStep, PublishScheduled, MarkScheduleFailed, ExpireDue, ReadReminderCandidates,
         RemindAutomatically, GiveUp, Typed, TypeOK, deadlineVars, Statuses
<1>3. /\ recipient \subseteq recipient' /\ recipient' \in SUBSET People
      /\ keys' \in SUBSET Keys /\ queued' \in SUBSET Purposes
      /\ reask' \in SUBSET Acknowledged' /\ stamped' \in [Stages -> SUBSET recipient']
      /\ reminded' \in [People -> 0..MaxReminders]
      /\ \A p \in People : reminded[p] <= reminded'[p]
  <2>1. CASE RemindAutomatically(w)
    BY <2>1, RemindTyped DEF RemindAutomatically, Typed, TypeOK, Acknowledged
  <2>2. CASE PublishScheduled(w) /\ Materialize(audience \intersect scope[scheduledBy])
    <3>1. audience \intersect scope[scheduledBy] \in SUBSET People /\ UNCHANGED receiptVars
      BY <2>2 DEF PublishScheduled, Typed, TypeOK
    <3> QED BY <2>2, <3>1, Materialized DEF receiptVars, Typed, TypeOK
  <2>3. CASE UNCHANGED <<recipient, receiptVars, keys>> /\ queued' \in {queued, {}}
    BY <2>3 DEF Typed, TypeOK, receiptVars, Acknowledged
  <2>4. CASE PublishScheduled(w)
    BY <2>2, <2>3, <2>4 DEF PublishScheduled, queueVars
  <2>5. CASE \/ MarkScheduleFailed(w) \/ ExpireDue(w) \/ ReadReminderCandidates(w) \/ GiveUp(w)
    BY <2>3, <2>5 DEF MarkScheduleFailed, ExpireDue, ReadReminderCandidates, GiveUp, queueVars
  <2> QED BY <2>1, <2>4, <2>5 DEF BackgroundStep
<1>4. TypeOK'
  BY <1>1, <1>2, <1>3, JobTyped DEF WorkersLeave, Typed, TypeOK, personVars, audienceVars,
       contentVars, Wordings, Keys, Key
<1>5. Addressees' /\ CountsRead'
  BY <1>1, <1>3 DEF WorkersLeave, Typed, TypeOK, Addressees, CountsRead, personVars
<1> QED BY <1>1, <1>4, <1>5, JobTyped DEF WorkersLeave, Typed, Newest, CurrentIsNewest, contentVars

LEMMA WorldTyped ==
  ASSUME Typed, (\E purpose \in queued : Deliver(purpose)) \/ TimePasses \/ PeopleMove
  PROVE  Typed'
<1>1. UnchangedByWorld
  BY DEF Deliver, TimePasses, PeopleMove
<1>2. /\ audience' \in SUBSET People /\ publishDue' \in BOOLEAN /\ expiryPassed' \in BOOLEAN
      /\ ackDue' \in Stages \union {"later"} /\ scope' = scope /\ queued' \in SUBSET Purposes
  BY DEF Deliver, TimePasses, PeopleMove, Typed, TypeOK, deadlineVars, Stages
<1>3. TypeOK'
  BY <1>1, <1>2 DEF UnchangedByWorld, Typed, TypeOK, contentVars, personVars, Acknowledged,
       Wordings, Keys, Key
<1> QED BY <1>1, <1>3 DEF UnchangedByWorld, Typed, Newest, CurrentIsNewest, Addressees,
              CountsRead, StagesRead, contentVars, personVars

LEMMA TypedKept ==
  ASSUME Typed, [Next]_vars
  PROVE  Typed'
<1>1. CASE UNCHANGED vars
  BY <1>1 DEF vars, audienceVars, deadlineVars, contentVars, receiptVars, queueVars, personVars,
       Typed, TypeOK, Newest, CurrentIsNewest, Addressees, CountsRead, StagesRead, Acknowledged,
       Wordings, Keys, Key
<1> QED BY <1>1, ManagerTyped, PersonTyped, WorkerTyped, WorldTyped DEF Next

\* Every column and everything a transaction carries keeps its type, and who was asked again or
\* reminded is a recipient, for any number of managers, people and workers, with or without
\* overlapping transactions.
THEOREM TypeCorrect == Spec => []TypeOK
<1>1. Typed => TypeOK
  BY DEF Typed
<1> QED BY <1>1, InitTyped, TypedKept, PTL DEF Spec
-----------------------------------------------------------------------------
(* Asking again and reminding, however transactions overlap *)

\* What a worker has read may be old, but it has been current.
ReadEarlier == \A w \in Workers : job[w].at = "reminding" => job[w].revision <= current

\* A key of an automatic reminder carries a revision there has been; while that
\* is the current one, its person stays stamped.
KeysStamped ==
  \A p \in People, s \in Stages, n \in Nat :
    Key(p, s, n) \in keys => n <= current /\ (n = current => p \in stamped[s])

Settled == Typed /\ ReadEarlier /\ KeysStamped /\ MaterialRevisionAsksAgain

LEMMA InitSettled == Init => Settled
  BY InitTyped DEF Init, Settled, ReadEarlier, KeysStamped, MaterialRevisionAsksAgain,
     Acknowledged, NoJob

\* A worker reads the current revision, and that only grows.
LEMMA ReadEarlierKept ==
  ASSUME Settled, [Next]_vars
  PROVE  ReadEarlier'
<1>1. current' \in Nat /\ current \in Nat /\ current <= current'
  <2>1. CASE \E m \in Managers : ReviseAnnouncement(m)
    BY <2>1 DEF ReviseAnnouncement, NumberStillFree, Settled, Typed, Newest, CurrentIsNewest
  <2>2. CASE ~(\E m \in Managers : ReviseAnnouncement(m))
    BY <2>2, OthersKeepRevisions DEF Settled, Typed, Newest, CurrentIsNewest
  <2> QED BY <2>1, <2>2
<1>2. \A w \in Workers :
        job'[w].at = "reminding" => job'[w] = job[w] \/ job'[w].revision = current
  <2>1. ASSUME NEW m \in Managers, ManagerStep(m) PROVE UNCHANGED job
    BY <2>1 DEF ManagerStep, BeginRequest, UpdateDraft, PublishAnnouncement, SyncRecipients,
         ScheduleAnnouncement, CancelSchedule, ReviseAnnouncement, ArchiveAnnouncement,
         SendReminders, Rollback, ScopeChanges, Finish, UnchangedByWorld
  <2>2. ASSUME NEW p \in People, OpenAnnouncement(p) \/ BeginAcknowledge(p) \/ Acknowledge(p)
        PROVE  UNCHANGED job
    BY <2>2 DEF OpenAnnouncement, BeginAcknowledge, Acknowledge, UnchangedForPeople
  <2>3. ASSUME NEW w \in Workers, BackgroundStep(w)
        PROVE  \A v \in Workers : \/ job'[v] = job[v]
                                  \/ job'[v].at # "reminding"
                                  \/ job'[v].revision = current
    BY <2>3 DEF BackgroundStep, PublishScheduled, MarkScheduleFailed, ExpireDue,
         ReadReminderCandidates, RemindAutomatically, GiveUp, WorkerStep, NoJob, Settled, Typed,
         TypeOK
  <2>4. ASSUME (\E purpose \in queued : Deliver(purpose)) \/ TimePasses \/ PeopleMove
        PROVE  UNCHANGED job
    BY <2>4 DEF Deliver, TimePasses, PeopleMove, UnchangedByWorld
  <2> QED BY <2>1, <2>2, <2>3, <2>4 DEF Next, vars
<1>3. \A w \in Workers : job[w].revision \in Nat
  BY BoundsAssumption DEF Settled, Typed, TypeOK
<1> QED BY <1>1, <1>2, <1>3 DEF Settled, ReadEarlier

\* What RemindAutomatically stamps and queues: under the revision it read.
LEMMA Reminding ==
  ASSUME Settled, NEW w \in Workers, RemindAutomatically(w)
  PROVE  LET stage    == job[w].stage
             revision == job[w].revision
             claimed  == Outstanding \ stamped[stage]
         IN  /\ stage \in Stages /\ claimed \subseteq People
             /\ revision \in Nat /\ revision <= current
             /\ keys' = keys \union {Key(p, stage, revision) : p \in claimed}
             /\ \A s \in Stages : /\ stamped[s] \subseteq stamped'[s]
                                  /\ stamped'[s] \subseteq stamped[s] \union claimed
             /\ claimed \subseteq stamped'[stage]
             /\ \A p \in People \ claimed : reminded'[p] = reminded[p]
             /\ UNCHANGED current
<1>1. job[w].stage \in Stages /\ job[w].revision \in Nat /\ job[w].revision <= current
  BY BoundsAssumption DEF RemindAutomatically, Settled, Typed, TypeOK, StagesRead, ReadEarlier
<1>2. Outstanding \ stamped[job[w].stage] \subseteq People
  BY <1>1 DEF Settled, Typed, TypeOK, Outstanding, Acknowledged
<1> QED BY <1>1, <1>2 DEF RemindAutomatically, Enqueue, contentVars, Settled, Typed, TypeOK

\* Keys of other purposes are not an automatic reminder's.
LEMMA OtherKeys ==
  ASSUME NEW p \in People, NEW s \in Stages, NEW n \in Nat, NEW q, NEW k
  PROVE  Key(p, s, n) # Key(q, "initial", k) /\ Key(p, s, n) # Key(q, "reminder", k)
  BY DEF Key, Stages

LEMMA KeysStampedKept ==
  ASSUME Settled, [Next]_vars
  PROVE  KeysStamped'
<1> DEFINE NoStageKey == \A p \in People, s \in Stages, n \in Nat :
                           Key(p, s, n) \in keys' => Key(p, s, n) \in keys
<1>1. ASSUME NEW m \in Managers, ReviseAnnouncement(m)
      PROVE  KeysStamped'
  BY <1>1 DEF ReviseAnnouncement, NumberStillFree, queueVars, Settled, Typed, TypeOK, Newest,
              CurrentIsNewest, KeysStamped
<1>2. ASSUME NEW w \in Workers, RemindAutomatically(w)
      PROVE  KeysStamped'
  BY <1>2, Reminding DEF Settled, Typed, TypeOK, KeysStamped, Key
<1>3. ASSUME NEW S, Materialize(S) PROVE NoStageKey
  BY <1>3, OtherKeys DEF Materialize, Enqueue
<1>4. ASSUME NEW m \in Managers, SendReminders(m) PROVE NoStageKey
  BY <1>4, OtherKeys DEF SendReminders, Enqueue
<1>5. CASE /\ ~\E m \in Managers : ReviseAnnouncement(m)
           /\ ~\E w \in Workers : RemindAutomatically(w)
  <2>1. UNCHANGED current
    BY <1>5, OthersKeepRevisions
  <2>2. NoStageKey /\ UNCHANGED stamped
    <3>1. ASSUME NEW m \in Managers, ManagerStep(m) PROVE NoStageKey /\ UNCHANGED stamped
      BY <1>3, <1>4, <1>5, <3>1 DEF ManagerStep, BeginRequest, UpdateDraft, PublishAnnouncement,
           SyncRecipients, ScheduleAnnouncement, CancelSchedule, ArchiveAnnouncement,
           SendReminders, Rollback, ScopeChanges, UnchangedByWorld, queueVars, receiptVars
    <3>2. ASSUME NEW p \in People, OpenAnnouncement(p) \/ BeginAcknowledge(p) \/ Acknowledge(p)
          PROVE  NoStageKey /\ UNCHANGED stamped
      BY <3>2 DEF OpenAnnouncement, BeginAcknowledge, Acknowledge, UnchangedForPeople, queueVars
    <3>3. ASSUME NEW w \in Workers, BackgroundStep(w) PROVE NoStageKey /\ UNCHANGED stamped
      BY <1>3, <1>5, <3>3 DEF BackgroundStep, PublishScheduled, MarkScheduleFailed, ExpireDue,
           ReadReminderCandidates, GiveUp, queueVars, receiptVars
    <3>4. ASSUME (\E purpose \in queued : Deliver(purpose)) \/ TimePasses \/ PeopleMove
          PROVE  NoStageKey /\ UNCHANGED stamped
      BY <3>4 DEF Deliver, TimePasses, PeopleMove, UnchangedByWorld
    <3> QED BY <3>1, <3>2, <3>3, <3>4 DEF Next, vars, queueVars, receiptVars
  <2> QED BY <2>1, <2>2 DEF Settled, KeysStamped
<1> QED BY <1>1, <1>2, <1>5

\* A material revision asks whoever has answered; an answer counts from what is current then; who
\* is new among the recipients has not answered.
LEMMA AskedAgainKept ==
  ASSUME Settled, [Next]_vars
  PROVE  MaterialRevisionAsksAgain'
<1>1. ASSUME NEW m \in Managers, ReviseAnnouncement(m)
      PROVE  MaterialRevisionAsksAgain'
  BY <1>1 DEF ReviseAnnouncement, Asked, Acknowledged, Settled, MaterialRevisionAsksAgain
<1>2. ASSUME NEW p \in People, Acknowledge(p)
      PROVE  MaterialRevisionAsksAgain'
  <2>1. \A r \in material : ~(r > current)
    BY DEF Settled, Typed, TypeOK
  <2>2. /\ agreed' = [agreed EXCEPT ![p] = reading[p]] /\ reask' = reask \ {p}
        /\ answered' = [answered EXCEPT ![p] = current]
        /\ UNCHANGED <<recipient, material>>
    BY <1>2 DEF Acknowledge, UnchangedForPeople, contentVars
  <2> QED BY <2>1, <2>2 DEF Settled, Typed, TypeOK, Acknowledged, MaterialRevisionAsksAgain
<1>3. CASE /\ ~\E m \in Managers : ReviseAnnouncement(m)
           /\ ~\E p \in People : Acknowledge(p)
  <2>1. UNCHANGED <<material, agreed, answered, reask>>
    <3>1. ASSUME NEW m \in Managers, ManagerStep(m) PROVE UNCHANGED <<material, agreed, answered, reask>>
      BY <1>3, <3>1 DEF ManagerStep, BeginRequest, UpdateDraft, PublishAnnouncement,
           SyncRecipients, ScheduleAnnouncement, CancelSchedule, ArchiveAnnouncement,
           SendReminders, Rollback, ScopeChanges, UnchangedByWorld, contentVars, receiptVars
    <3>2. ASSUME NEW p \in People, OpenAnnouncement(p) \/ BeginAcknowledge(p)
          PROVE  UNCHANGED <<material, agreed, answered, reask>>
      BY <3>2 DEF OpenAnnouncement, BeginAcknowledge, UnchangedForPeople, contentVars
    <3>3. ASSUME NEW w \in Workers, BackgroundStep(w) PROVE UNCHANGED <<material, agreed, answered, reask>>
      BY <3>3, WorkersLeaveIt DEF WorkersLeave, contentVars
    <3>4. ASSUME (\E purpose \in queued : Deliver(purpose)) \/ TimePasses \/ PeopleMove
          PROVE  UNCHANGED <<material, agreed, answered, reask>>
      BY <3>4 DEF Deliver, TimePasses, PeopleMove, UnchangedByWorld, contentVars
    <3> QED BY <1>3, <3>1, <3>2, <3>3, <3>4 DEF Next, vars, contentVars, receiptVars
  <2>2. \A p \in People : agreed[p] # NoWording => p \in recipient
    BY DEF Settled, Typed, Addressees
  <2>3. recipient' \subseteq People
    BY TypedKept DEF Settled, Typed, TypeOK
  <2> QED BY <2>1, <2>2, <2>3 DEF Settled, Acknowledged, MaterialRevisionAsksAgain
<1> QED BY <1>1, <1>2, <1>3

LEMMA SettledKept ==
  ASSUME Settled, [Next]_vars
  PROVE  Settled'
<1>1. Typed'
  BY TypedKept DEF Settled
<1> QED BY <1>1, ReadEarlierKept, KeysStampedKept, AskedAgainKept DEF Settled

\* A material revision asks everyone again who has confirmed by then (reviseAnnouncement,
\* acknowledge, materializeRecipients), for any number of managers, recipients, workers and
\* revisions and however their transactions overlap.
THEOREM AsksAgain == Spec => []MaterialRevisionAsksAgain
<1>1. Settled /\ [Next]_vars => Settled'
  BY SettledKept
<1>2. Settled => MaterialRevisionAsksAgain
  BY DEF Settled
<1> QED BY <1>1, <1>2, InitSettled, PTL DEF Spec

\* Whoever processAutomaticReminders stamps and counts gets a notification whose key was never
\* used, unless that worker's revision was overtaken since it read its candidates: for any number
\* of managers, recipients and workers, however their transactions overlap.
THEOREM StampsNotify == Spec => StampMeansNotified
<1> DEFINE Notified == \A s \in Stages, p \in People :
                         (p \in stamped'[s] \ stamped[s] /\ reminded'[p] > reminded[p])
                           => (\E k \in keys' \ keys : k[1] = p) \/ (\E w \in Workers : Overtaken(w))
<1>1. Settled /\ [Next]_vars => Settled'
  BY SettledKept
<1>2. Settled /\ [Next]_vars => [Notified]_vars
  <2> SUFFICES ASSUME Settled, Next, NEW s \in Stages, NEW p \in People,
                      p \in stamped'[s] \ stamped[s], reminded'[p] > reminded[p]
               PROVE  (\E k \in keys' \ keys : k[1] = p) \/ (\E w \in Workers : Overtaken(w))
    OBVIOUS
  <2>1. PICK w \in Workers : RemindAutomatically(w)
    <3>1. ASSUME NEW m \in Managers, ManagerStep(m) PROVE p \notin stamped'[s] \ stamped[s]
      BY <3>1 DEF ManagerStep, BeginRequest, UpdateDraft, PublishAnnouncement, SyncRecipients,
           ScheduleAnnouncement, CancelSchedule, ReviseAnnouncement, ArchiveAnnouncement,
           SendReminders, Rollback, ScopeChanges, UnchangedByWorld, receiptVars
    <3>2. ASSUME NEW q \in People, OpenAnnouncement(q) \/ BeginAcknowledge(q) \/ Acknowledge(q)
          PROVE  UNCHANGED stamped
      BY <3>2 DEF OpenAnnouncement, BeginAcknowledge, Acknowledge, UnchangedForPeople
    <3>3. ASSUME NEW w \in Workers, BackgroundStep(w), ~RemindAutomatically(w)
          PROVE  UNCHANGED stamped
      BY <3>3 DEF BackgroundStep, PublishScheduled, MarkScheduleFailed, ExpireDue,
           ReadReminderCandidates, GiveUp, receiptVars
    <3>4. ASSUME (\E purpose \in queued : Deliver(purpose)) \/ TimePasses \/ PeopleMove
          PROVE  UNCHANGED stamped
      BY <3>4 DEF Deliver, TimePasses, PeopleMove, UnchangedByWorld
    <3> QED BY <3>1, <3>2, <3>3, <3>4 DEF Next
  <2> DEFINE stage == job[w].stage
             key   == Key(p, stage, job[w].revision)
  <2>2. p \in Outstanding \ stamped[stage] /\ stage \in Stages /\ key \in keys'
    BY <2>1, Reminding
  <2>3. CASE job[w].revision = current
    <3>1. key \notin keys
      BY <2>2, <2>3 DEF Settled, Typed, TypeOK, KeysStamped
    <3>2. key[1] = p
      BY DEF Key
    <3> QED BY <2>2, <3>1, <3>2
  <2>4. CASE job[w].revision # current
    <3>1. job[w].at = "reminding" /\ job'[w] = NoJob
      BY <2>1 DEF RemindAutomatically, WorkerStep, Settled, Typed, TypeOK
    <3> QED BY <2>4, <3>1 DEF Overtaken
  <2> QED BY <2>3, <2>4
<1> QED BY <1>1, <1>2, InitSettled, PTL DEF Spec, StampMeansNotified
-----------------------------------------------------------------------------
(* Channels *)

LEMMA ChannelsCount == ASSUME NEW S PROVE Ch!Cardinality(S) = Cardinality(S)
BY DEF Ch!Cardinality, Cardinality

\* The requests that found room for a channel and have not created it.
Creating == {r \in Requests : txn[r] # None /\ txn[r].op = "create"}

\* Each of them may add one, whatever the others do; one at a time there is only one.
ChannelsInvariant ==
  /\ channel = [c \in Rooms |-> channel[c]]
  /\ txn = [r \in Requests |-> txn[r]]
  /\ IsFiniteSet(Ch!InUse)
  /\ Cardinality(Ch!InUse) + Cardinality(Creating) < MaxCustomChannels + Ch!AtOnce
  /\ Ch!Serial => \A q, r \in Requests : txn[q] # None /\ txn[r] # None => q = r

\* How many they are: no more than there are requests.
LEMMA FewCreate ==
  ASSUME NEW S \in SUBSET Requests, Ch!Serial => \A q, r \in S : q = r
  PROVE  IsFiniteSet(S) /\ Cardinality(S) \in Nat /\ Ch!AtOnce \in Nat /\ Cardinality(S) <= Ch!AtOnce
         /\ Ch!AtOnce >= 1
<1>1. IsFiniteSet(Requests) /\ Requests # {}
  BY RequestsAssumption
<1>2. IsFiniteSet(S) /\ Cardinality(S) <= Cardinality(Requests)
  BY <1>1, FS_Subset
<1>3. Cardinality(S) \in Nat /\ Cardinality(Requests) \in Nat /\ Cardinality(Requests) # 0
  BY <1>1, <1>2, FS_CardinalityType, FS_EmptySet
<1>4. ASSUME Ch!Serial PROVE Cardinality(S) <= 1
  <2>1. CASE S = {}
    BY <2>1, FS_EmptySet
  <2>2. CASE S # {}
    <3>1. PICK r \in S : S = {r}
      BY <1>4, <2>2
    <3> QED  BY <3>1, FS_Singleton
  <2> QED  BY <2>1, <2>2
<1> QED  BY <1>2, <1>3, <1>4, ChannelsCount DEF Ch!AtOnce

LEMMA ChannelsInit == Ch!Init => ChannelsInvariant
<1> SUFFICES ASSUME Ch!Init PROVE ChannelsInvariant  OBVIOUS
<1>1. Ch!InUse = {} /\ Creating = {}
  BY DEF Ch!Init, Ch!InUse, Ch!Exist, Creating
<1>2. IsFiniteSet({}) /\ Cardinality({}) = 0
  BY FS_EmptySet
<1>3. Ch!AtOnce \in Nat /\ Ch!AtOnce >= 1
  <2>1. {} \in SUBSET Requests /\ \A q, r \in {} : q = r
    OBVIOUS
  <2> QED  BY <2>1, FewCreate
<1>4. MaxCustomChannels \in Nat /\ 0 < MaxCustomChannels + Ch!AtOnce
  BY <1>3, ChannelsAssumption
<1> QED  BY <1>1, <1>2, <1>4 DEF Ch!Init, ChannelsInvariant

\* What a step must show: of the channels and the requests, and of how many there are.
LEMMA ChannelsKept ==
  ASSUME ChannelsInvariant, isolation' = isolation,
         channel' = [c \in Rooms |-> channel'[c]], txn' = [r \in Requests |-> txn'[r]],
         Ch!Serial => \A q, r \in Requests : txn'[q] # None /\ txn'[r] # None => q = r,
         IsFiniteSet(Ch!InUse'),
         Cardinality(Ch!InUse') + Cardinality(Creating') < MaxCustomChannels + Ch!AtOnce
  PROVE  ChannelsInvariant'
<1>1. Ch!AtOnce' = Ch!AtOnce /\ Ch!Serial' = Ch!Serial
  BY DEF Ch!AtOnce, Ch!Serial
<1> QED  BY <1>1 DEF ChannelsInvariant

LEMMA ChannelsStep ==
  ASSUME ChannelsInvariant, Ch!Next \/ UNCHANGED <<channelVars, requestVars>>
  PROVE  ChannelsInvariant'
<1> USE DEF ChannelsInvariant
<1>0. /\ MaxCustomChannels \in Nat /\ Ch!AtOnce \in Nat
      /\ IsFiniteSet(Creating) /\ Cardinality(Creating) \in Nat /\ Cardinality(Ch!InUse) \in Nat
  <2>1. Ch!Serial => \A q, r \in Creating : q = r
    BY DEF Creating
  <2>2. Creating \in SUBSET Requests
    BY DEF Creating
  <2>3. IsFiniteSet(Creating) /\ Cardinality(Creating) \in Nat /\ Ch!AtOnce \in Nat
    BY <2>1, <2>2, FewCreate
  <2>4. Cardinality(Ch!InUse) \in Nat
    BY FS_CardinalityType
  <2> QED  BY <2>3, <2>4, ChannelsAssumption
<1>a. ASSUME isolation' = isolation, channel' = [c \in Rooms |-> channel'[c]],
             txn' = [r \in Requests |-> txn'[r]],
             Ch!Serial => \A q, r \in Requests : txn'[q] # None /\ txn'[r] # None => q = r,
             Ch!InUse' \subseteq Ch!InUse, Creating' \subseteq Creating
      PROVE  ChannelsInvariant'
  <2>1. IsFiniteSet(Ch!InUse') /\ Cardinality(Ch!InUse') <= Cardinality(Ch!InUse)
    BY <1>a, FS_Subset
  <2>2. IsFiniteSet(Creating') /\ Cardinality(Creating') <= Cardinality(Creating)
    BY <1>0, <1>a, FS_Subset
  <2>3. Cardinality(Ch!InUse') \in Nat /\ Cardinality(Creating') \in Nat
    BY <2>1, <2>2, FS_CardinalityType
  <2>4. Cardinality(Ch!InUse') + Cardinality(Creating') < MaxCustomChannels + Ch!AtOnce
    BY <1>0, <2>1, <2>2, <2>3
  <2> QED  BY <1>a, <2>1, <2>4, ChannelsKept
<1>b. ASSUME NEW r \in Requests, txn' = [txn EXCEPT ![r] = None]
      PROVE  /\ txn' = [q \in Requests |-> txn'[q]]
             /\ \A q \in Requests : txn'[q] # None => q # r /\ txn'[q] = txn[q]
             /\ Creating' = Creating \ {r}
  BY <1>b DEF Creating
<1>c. ASSUME UNCHANGED channel PROVE Ch!InUse' = Ch!InUse
  BY <1>c DEF Ch!InUse, Ch!Exist
<1>1. CASE UNCHANGED <<channelVars, requestVars>>
  <2>1. Creating' = Creating /\ Ch!InUse' = Ch!InUse
    BY <1>1, <1>c DEF Creating, channelVars, requestVars
  <2> QED  BY <1>1, <1>a, <2>1 DEF channelVars, requestVars
<1>2. ASSUME NEW r \in Requests, Ch!BeginCreateChannel(r)
      PROVE  ChannelsInvariant'
  <2>1. /\ Cardinality(Ch!InUse) < MaxCustomChannels
        /\ \E req : req.op = "create" /\ txn' = [txn EXCEPT ![r] = req]
        /\ Ch!Serial => \A q \in Requests : txn[q] = None
        /\ UNCHANGED <<isolation, channel>>
    BY <1>2, ChannelsCount DEF Ch!BeginCreateChannel, Ch!Begin, Ch!HasRoom
  <2>2. /\ txn' = [q \in Requests |-> txn'[q]]
        /\ Ch!Serial => \A q, s \in Requests : txn'[q] # None /\ txn'[s] # None => q = s
    BY <2>1
  <2>3. Ch!Serial => \A q, s \in Creating' : q = s
    BY <2>2 DEF Creating
  <2>4. Cardinality(Creating') \in Nat /\ Cardinality(Creating') <= Ch!AtOnce
    BY <2>3, FewCreate DEF Creating
  <2>5. Cardinality(Ch!InUse') + Cardinality(Creating') < MaxCustomChannels + Ch!AtOnce
    BY <1>0, <1>c, <2>1, <2>4
  <2> QED  BY <1>c, <2>1, <2>2, <2>5, ChannelsKept
<1>3. ASSUME NEW r \in Requests, Ch!BeginPost(r)
      PROVE  ChannelsInvariant'
  <2>1. /\ txn[r] = None
        /\ \E req : req.op = "post" /\ txn' = [txn EXCEPT ![r] = req]
        /\ Ch!Serial => \A q \in Requests : txn[q] = None
        /\ UNCHANGED <<isolation, channel>>
    BY <1>3 DEF Ch!BeginPost, Ch!Begin
  <2>2. /\ txn' = [q \in Requests |-> txn'[q]]
        /\ Ch!Serial => \A q, s \in Requests : txn'[q] # None /\ txn'[s] # None => q = s
        /\ Creating' \subseteq Creating
    BY <2>1 DEF Creating
  <2> QED  BY <1>a, <1>c, <2>1, <2>2
<1>4. ASSUME NEW r \in Requests, Ch!CreateChannel(r)
      PROVE  ChannelsInvariant'
  <2>1. PICK c \in Rooms \ Ch!Exist :
          channel' = [channel EXCEPT ![c] = [name |-> txn[r].name, audience |-> txn[r].audience,
                                             archived |-> FALSE]]
    BY <1>4 DEF Ch!CreateChannel
  <2>2. Ch!InUse' \subseteq Ch!InUse \union {c}
    BY <2>1 DEF Ch!InUse, Ch!Exist
  <2>3. /\ IsFiniteSet(Ch!InUse \union {c})
        /\ Cardinality(Ch!InUse \union {c}) = Cardinality(Ch!InUse) + 1
    BY FS_AddElement, <2>1 DEF Ch!InUse
  <2>4. /\ IsFiniteSet(Ch!InUse')
        /\ Cardinality(Ch!InUse') <= Cardinality(Ch!InUse) + 1
    BY <2>2, <2>3, FS_Subset
  <2>5. /\ UNCHANGED isolation /\ txn' = [txn EXCEPT ![r] = None]
        /\ r \in Creating
    BY <1>4 DEF Ch!CreateChannel, Ch!Ends, Creating
  <2>6. Creating' = Creating \ {r} /\ Cardinality(Creating') = Cardinality(Creating) - 1
    BY <1>0, <1>b, <2>5, FS_RemoveElement
  <2>7. Cardinality(Ch!InUse') \in Nat
    BY <2>4, FS_CardinalityType
  <2>8. Cardinality(Ch!InUse') + Cardinality(Creating') < MaxCustomChannels + Ch!AtOnce
    BY <1>0, <2>4, <2>6, <2>7
  <2>9. /\ txn' = [q \in Requests |-> txn'[q]] /\ channel' = [d \in Rooms |-> channel'[d]]
        /\ Ch!Serial => \A q, s \in Requests : txn'[q] # None /\ txn'[s] # None => q = s
    BY <1>b, <2>1, <2>5
  <2> QED  BY <2>4, <2>5, <2>8, <2>9, ChannelsKept
<1>5. ASSUME NEW r \in Requests, Ch!PostToChannel(r) \/ Ch!Rollback(r)
      PROVE  ChannelsInvariant'
  <2>1. UNCHANGED <<isolation, channel>> /\ txn' = [txn EXCEPT ![r] = None]
    BY <1>5 DEF Ch!PostToChannel, Ch!Rollback, Ch!Ends
  <2> QED  BY <1>a, <1>b, <1>c, <2>1
<1>6. CASE Ch!ArchiveChannel
  <2>1. PICK c \in Ch!InUse : channel' = [channel EXCEPT ![c].archived = TRUE]
    BY <1>6 DEF Ch!ArchiveChannel
  <2>2. Ch!InUse' \subseteq Ch!InUse
    BY <2>1 DEF Ch!InUse, Ch!Exist
  <2>3. UNCHANGED <<isolation, txn>> /\ Creating' = Creating
    BY <1>6 DEF Ch!ArchiveChannel, Creating
  <2>4. channel' = [d \in Rooms |-> channel'[d]]
    BY <2>1
  <2> QED  BY <1>a, <2>2, <2>3, <2>4
<1> QED  BY <1>1, <1>2, <1>3, <1>4, <1>5, <1>6 DEF Ch!Next, channelVars

(* Direct messages *)

\* Whose page it is and what it has marked; what was marked before was shown.
DirectMessagesInvariant ==
  /\ Dm!TypeOK
  /\ \A r \in Requests : txn[r] # None /\ txn[r].op \in {"send", "page"} =>
       txn[r].thread \in Dm!Exist
  /\ \A r \in Requests : txn[r] # None /\ txn[r].op = "page" =>
       /\ Dm!Participates(txn[r].by, txn[r].thread)
       /\ \A m \in txn[r].marked :
            message[m] # None /\ message[m].thread = txn[r].thread /\ message[m].by # txn[r].by
  /\ Dm!ReadWasShown

LEMMA DirectMessagesInit == Dm!Init => DirectMessagesInvariant
BY DirectMessagesAssumption DEF Dm!Init, DirectMessagesInvariant, Dm!TypeOK, Dm!ReadWasShown, Dm!Stamps

\* A thread keeps its pair, a message its thread and author; what was shown stays shown.
DirectMessagesGrow ==
  /\ isolation' = isolation
  /\ thread' \in [Threads -> Dm!Thread \union {None}]
  /\ \A t \in Dm!Exist : thread'[t] # None /\ thread'[t].pair = thread[t].pair
  /\ message' \in [Messages -> Dm!Message \union {None}]
  /\ \A m \in Messages : message[m] # None =>
       message'[m] # None /\ message'[m].thread = message[m].thread /\ message'[m].by = message[m].by
  /\ shown' \in [Employments -> SUBSET Messages]
  /\ \A p \in Employments : shown[p] \subseteq shown'[p]
  /\ clock' \in Dm!Stamps

LEMMA DirectMessagesKept ==
  ASSUME DirectMessagesInvariant, DirectMessagesGrow,
         txn' \in [Requests -> Dm!Request \union {None}],
         \A m \in Messages : message'[m] # None => message'[m].thread \in Dm!Exist',
         \A r \in Requests : txn'[r] # None => txn'[r] = txn[r]
           \/ /\ txn'[r].op \in {"send", "page"} => txn'[r].thread \in Dm!Exist
              /\ txn'[r].op = "page" =>
                   /\ Dm!Participates(txn'[r].by, txn'[r].thread)
                   /\ \A m \in txn'[r].marked :
                        /\ message[m] # None /\ message[m].thread = txn'[r].thread
                        /\ message[m].by # txn'[r].by,
         \A m \in Messages : message'[m] # None /\ message'[m].read /\ ~(message[m] # None /\ message[m].read) =>
           \E p \in Employments \ {message'[m].by} :
             Dm!Participates(p, message'[m].thread) /\ m \in shown'[p]
  PROVE  DirectMessagesInvariant'
<1>1. Dm!TypeOK'
  BY DEF DirectMessagesInvariant, DirectMessagesGrow, Dm!TypeOK
<1>2. Dm!Exist \subseteq Dm!Exist'
  BY DEF DirectMessagesGrow, Dm!Exist
<1>3. \A t \in Dm!Exist : t \in Dm!Exist' /\ thread'[t].pair = thread[t].pair
  BY <1>2 DEF DirectMessagesGrow
<1>4. ASSUME NEW r \in Requests, txn'[r] # None
      PROVE  /\ txn'[r].op \in {"send", "page"} => txn'[r].thread \in Dm!Exist
             /\ txn'[r].op = "page" =>
                  /\ Dm!Participates(txn'[r].by, txn'[r].thread)
                  /\ \A m \in txn'[r].marked :
                       /\ message[m] # None /\ message[m].thread = txn'[r].thread
                       /\ message[m].by # txn'[r].by
  BY <1>4 DEF DirectMessagesInvariant
<1>5. ASSUME NEW r \in Requests, txn'[r] # None, txn'[r].op = "page"
      PROVE  txn'[r].marked \subseteq Messages
  BY <1>5 DEF Dm!Request
<1>6. ASSUME NEW r \in Requests, txn'[r] # None, txn'[r].op \in {"send", "page"}
      PROVE  txn'[r].thread \in Dm!Exist'
  BY <1>3, <1>4, <1>6
<1>7. ASSUME NEW r \in Requests, txn'[r] # None, txn'[r].op = "page"
      PROVE  txn'[r].by \in {thread'[txn'[r].thread].pair[1], thread'[txn'[r].thread].pair[2]}
  BY <1>3, <1>4, <1>7 DEF Dm!Participates
<1>8. ASSUME NEW r \in Requests, txn'[r] # None, txn'[r].op = "page", NEW m \in txn'[r].marked
      PROVE  /\ message'[m] # None /\ message'[m].thread = txn'[r].thread
             /\ message'[m].by # txn'[r].by
  <2>1. m \in Messages
    BY <1>5, <1>8
  <2>2. message[m] # None /\ message[m].thread = txn'[r].thread /\ message[m].by # txn'[r].by
    BY <1>4, <1>8
  <2> QED  BY <2>1, <2>2 DEF DirectMessagesGrow
<1>9. ASSUME NEW m \in Messages, message'[m] # None, message'[m].read
      PROVE  \E p \in Employments \ {message'[m].by} :
               /\ message'[m].thread \in Dm!Exist'
               /\ p \in {thread'[message'[m].thread].pair[1], thread'[message'[m].thread].pair[2]}
               /\ m \in shown'[p]
  <2>1. ASSUME NEW p \in Employments \ {message'[m].by}, Dm!Participates(p, message'[m].thread),
               m \in shown'[p]
        PROVE  /\ message'[m].thread \in Dm!Exist'
               /\ p \in {thread'[message'[m].thread].pair[1], thread'[message'[m].thread].pair[2]}
    BY <1>3, <2>1 DEF Dm!Participates
  <2>2. CASE ~(message[m] # None /\ message[m].read)
    BY <1>9, <2>1, <2>2
  <2>3. CASE message[m] # None /\ message[m].read
    <3>1. PICK p \in Employments \ {message[m].by} :
            Dm!Participates(p, message[m].thread) /\ m \in shown[p]
      BY <2>3 DEF DirectMessagesInvariant, Dm!ReadWasShown
    <3>2. message'[m].thread = message[m].thread /\ message'[m].by = message[m].by /\ m \in shown'[p]
      BY <2>3, <3>1 DEF DirectMessagesGrow
    <3> QED  BY <2>1, <3>1, <3>2
  <2> QED  BY <2>2, <2>3
<1>10. Dm!ReadWasShown'
  BY <1>9 DEF Dm!ReadWasShown, Dm!Participates
<1> QED  BY <1>1, <1>6, <1>7, <1>8, <1>10 DEF DirectMessagesInvariant, Dm!Participates

\* A request of each kind.
LEMMA DirectMessagesRequest ==
  ASSUME NEW q \in Dm!Request
  PROVE  /\ q.op = "open" => q.by \in Employments /\ q.other \in Employments
         /\ q.op = "send" => q.by \in Employments /\ q.thread \in Threads /\ q.now \in Dm!Stamps
         /\ q.op = "page" => /\ q.by \in Employments /\ q.thread \in Threads
                             /\ q.marked \in SUBSET Messages /\ q.there \in SUBSET Messages
BY DEF Dm!Request

LEMMA DirectMessagesStep ==
  ASSUME DirectMessagesInvariant,
         Dm!Next \/ UNCHANGED <<isolation, txn, clock, thread, message, shown>>
  PROVE  DirectMessagesInvariant'
<1> USE NullAssumption
<1>0. /\ thread \in [Threads -> Dm!Thread \union {None}]
      /\ message \in [Messages -> Dm!Message \union {None}]
      /\ shown \in [Employments -> SUBSET Messages]
      /\ clock \in Dm!Stamps
      /\ txn \in [Requests -> Dm!Request \union {None}]
      /\ \A m \in Messages : message[m] # None => message[m].thread \in Dm!Exist
  BY DEF DirectMessagesInvariant, Dm!TypeOK
<1>1. CASE UNCHANGED <<isolation, txn, clock, thread, message, shown>>
  BY <1>1 DEF DirectMessagesInvariant, Dm!TypeOK, Dm!ReadWasShown, Dm!Participates, Dm!Exist
<1>2. ASSUME UNCHANGED <<isolation, thread, message, shown>>, clock' \in Dm!Stamps
      PROVE  /\ DirectMessagesGrow
             /\ \A m \in Messages : message'[m] # None => message'[m].thread \in Dm!Exist'
             /\ \A m \in Messages : message'[m] # None /\ message'[m].read => message[m].read
  BY <1>0, <1>2 DEF DirectMessagesGrow, Dm!Exist
<1>3. ASSUME NEW r \in Requests, txn' = [txn EXCEPT ![r] = None]
      PROVE  /\ txn' \in [Requests -> Dm!Request \union {None}]
             /\ \A q \in Requests : txn'[q] # None => txn'[q] = txn[q]
  BY <1>0, <1>3
<1>4. ASSUME NEW r \in Requests, Dm!BeginOpenThread(r)
      PROVE  DirectMessagesInvariant'
  <2>1. PICK p \in Employments, q \in Employments :
          txn' = [txn EXCEPT ![r] = [op |-> "open", by |-> p, other |-> q]]
    BY <1>4 DEF Dm!BeginOpenThread, Dm!Begin
  <2>2. [op |-> "open", by |-> p, other |-> q] \in Dm!Request
    BY DEF Dm!Request
  <2>3. /\ txn' \in [Requests -> Dm!Request \union {None}]
        /\ \A x \in Requests : txn'[x] = txn[x] \/ txn'[x].op = "open"
    BY <1>0, <2>1, <2>2
  <2>4. UNCHANGED <<isolation, thread, message, shown>> /\ clock' \in Dm!Stamps
    BY <1>0, <1>4 DEF Dm!BeginOpenThread
  <2> QED  BY <1>2, <2>3, <2>4, DirectMessagesKept
<1>5. ASSUME NEW r \in Requests, Dm!BeginSend(r)
      PROVE  DirectMessagesInvariant'
  <2>1. PICK p \in Employments, t \in Dm!Exist :
          txn' = [txn EXCEPT ![r] = [op |-> "send", by |-> p, thread |-> t, now |-> clock']]
    BY <1>5 DEF Dm!BeginSend, Dm!Begin
  <2>2. UNCHANGED <<isolation, thread, message, shown>> /\ clock' \in Dm!Stamps
    BY <1>0, <1>5, DirectMessagesAssumption DEF Dm!BeginSend, Dm!Stamps
  <2> DEFINE sending == [op |-> "send", by |-> p, thread |-> t, now |-> clock']
  <2>3. sending \in Dm!Request
    BY <2>2 DEF Dm!Request, Dm!Exist
  <2>4. sending.op = "send" /\ sending.thread = t
    OBVIOUS
  <2>5. txn' = [txn EXCEPT ![r] = sending]
    BY <2>1
  <2> HIDE DEF sending
  <2>6. /\ txn' \in [Requests -> Dm!Request \union {None}]
        /\ \A x \in Requests : txn'[x] = txn[x] \/ txn'[x] = sending
    BY <1>0, <2>3, <2>5
  <2> QED  BY <1>2, <2>2, <2>4, <2>6, DirectMessagesKept
<1>6. ASSUME NEW r \in Requests, Dm!MarkThreadRead(r)
      PROVE  DirectMessagesInvariant'
  <2>1. PICK p \in Employments, t \in Dm!Exist :
          /\ Dm!Participates(p, t)
          /\ txn' = [txn EXCEPT ![r] = [op |-> "page", by |-> p, thread |-> t,
                                        marked |-> Dm!Unread(p, t), there |-> Dm!In(t)]]
    BY <1>6 DEF Dm!MarkThreadRead, Dm!Begin
  <2>2. UNCHANGED <<isolation, thread, message, shown>> /\ clock' \in Dm!Stamps
    BY <1>0, <1>6 DEF Dm!MarkThreadRead
  <2>3. Dm!Unread(p, t) \in SUBSET Messages /\ Dm!In(t) \in SUBSET Messages /\ t \in Threads
    BY DEF Dm!Unread, Dm!In, Dm!Exist
  <2> DEFINE page == [op |-> "page", by |-> p, thread |-> t,
                      marked |-> Dm!Unread(p, t), there |-> Dm!In(t)]
  <2>4. page \in Dm!Request
    BY <2>3 DEF Dm!Request
  <2>5. \A m \in page.marked : message[m] # None /\ message[m].thread = t /\ message[m].by # p
    BY DEF Dm!Unread, Dm!In
  <2>6. page.op = "page" /\ page.by = p /\ page.thread = t
    OBVIOUS
  <2> HIDE DEF page
  <2>7. /\ txn' \in [Requests -> Dm!Request \union {None}]
        /\ \A x \in Requests : txn'[x] = txn[x] \/ txn'[x] = page
    BY <1>0, <2>1, <2>4 DEF page
  <2> QED  BY <1>2, <2>1, <2>2, <2>5, <2>6, <2>7, DirectMessagesKept
<1>7. ASSUME NEW r \in Requests, Dm!Rollback(r)
      PROVE  DirectMessagesInvariant'
  <2>1. UNCHANGED <<isolation, thread, message, shown>> /\ clock' \in Dm!Stamps
    BY <1>0, <1>7 DEF Dm!Rollback
  <2> QED  BY <1>2, <1>3, <1>7, <2>1, DirectMessagesKept DEF Dm!Rollback
<1>8. ASSUME NEW r \in Requests, Dm!OpenThread(r)
      PROVE  DirectMessagesInvariant'
  <2> DEFINE pair == Dm!Pair(txn[r].by, txn[r].other)
  <2>1. pair \in Employments \X Employments
    BY <1>0, <1>8, DirectMessagesRequest DEF Dm!OpenThread, Dm!Ends, Dm!Pair
  <2>2. thread' \in [Threads -> Dm!Thread \union {None}] /\ \A t \in Dm!Exist : thread'[t] = thread[t]
    <3>1. CASE UNCHANGED thread
      BY <1>0, <3>1 DEF Dm!Exist
    <3>2. ASSUME NEW t \in Threads \ Dm!Exist, thread' = [thread EXCEPT ![t] = [pair |-> pair, last |-> 0]]
          PROVE  thread' \in [Threads -> Dm!Thread \union {None}] /\ \A u \in Dm!Exist : thread'[u] = thread[u]
      <4>1. [pair |-> pair, last |-> 0] \in Dm!Thread
        BY <2>1, DirectMessagesAssumption DEF Dm!Thread, Dm!Stamps
      <4> QED  BY <1>0, <3>2, <4>1 DEF Dm!Exist
    <3> QED  BY <1>8, <3>1, <3>2 DEF Dm!OpenThread
  <2>3. UNCHANGED <<isolation, message, shown, clock>> /\ txn' = [txn EXCEPT ![r] = None]
    BY <1>8 DEF Dm!OpenThread, Dm!Ends
  <2>4. /\ DirectMessagesGrow
        /\ \A m \in Messages : message'[m] # None => message'[m].thread \in Dm!Exist'
    BY <1>0, <2>2, <2>3 DEF DirectMessagesGrow, Dm!Exist
  <2> QED  BY <1>3, <2>3, <2>4, DirectMessagesKept
<1>9. ASSUME NEW r \in Requests, Dm!SendDirectMessage(r)
      PROVE  DirectMessagesInvariant'
  <2> DEFINE q == txn[r]
  <2>1. /\ q.by \in Employments /\ q.thread \in Dm!Exist /\ q.thread \in Threads /\ q.now \in Dm!Stamps
        /\ txn' = [txn EXCEPT ![r] = None]
    BY <1>0, <1>9, DirectMessagesRequest DEF DirectMessagesInvariant, Dm!SendDirectMessage, Dm!Ends
  <2>2. PICK m \in Messages :
          /\ message[m] = None
          /\ message' = [message EXCEPT ![m] = [thread |-> q.thread, by |-> q.by, at |-> q.now, read |-> FALSE]]
    BY <1>9 DEF Dm!SendDirectMessage
  <2>3. thread' = [thread EXCEPT ![q.thread].last = q.now] /\ UNCHANGED <<isolation, shown, clock>>
    BY <1>9 DEF Dm!SendDirectMessage
  <2> HIDE DEF q
  <2>4. [thread |-> q.thread, by |-> q.by, at |-> q.now, read |-> FALSE] \in Dm!Message
    BY <2>1 DEF Dm!Message
  <2>5. /\ message' \in [Messages -> Dm!Message \union {None}]
        /\ \A n \in Messages : message[n] # None => message'[n] = message[n]
        /\ \A n \in Messages : message'[n] # None => message'[n] = message[n] \/ n = m
        /\ message'[m].thread = q.thread /\ message'[m].read = FALSE
    BY <1>0, <2>2, <2>4
  <2>6. thread[q.thread] \in Dm!Thread
    BY <1>0, <2>1 DEF Dm!Exist
  <2>7. [thread[q.thread] EXCEPT !.last = q.now] \in Dm!Thread
        /\ [thread[q.thread] EXCEPT !.last = q.now].pair = thread[q.thread].pair
    BY <2>1, <2>6 DEF Dm!Thread
  <2>8. /\ thread' \in [Threads -> Dm!Thread \union {None}]
        /\ \A t \in Dm!Exist : thread'[t] # None /\ thread'[t].pair = thread[t].pair
    BY <1>0, <2>3, <2>7 DEF Dm!Exist
  <2>9. /\ DirectMessagesGrow
        /\ \A n \in Messages : message'[n] # None => message'[n].thread \in Dm!Exist'
    BY <1>0, <2>1, <2>3, <2>5, <2>8 DEF DirectMessagesGrow, Dm!Exist
  <2> QED  BY <1>3, <2>1, <2>5, <2>9, DirectMessagesKept
<1>10. ASSUME NEW r \in Requests, Dm!GetThread(r)
      PROVE  DirectMessagesInvariant'
  <2> DEFINE q == txn[r]
  <2>1. /\ q.by \in Employments /\ q.thread \in Dm!Exist /\ q.marked \subseteq Messages
        /\ Dm!Participates(q.by, q.thread)
        /\ \A m \in q.marked : message[m] # None /\ message[m].thread = q.thread /\ message[m].by # q.by
        /\ txn' = [txn EXCEPT ![r] = None]
    BY <1>0, <1>10, DirectMessagesRequest DEF DirectMessagesInvariant, Dm!GetThread, Dm!Ends
  <2>2. /\ message' = Dm!MarkedRead(q.marked)
        /\ shown' = [shown EXCEPT ![q.by] = @ \union Dm!In(q.thread)]
        /\ UNCHANGED <<isolation, thread, clock>>
    BY <1>10 DEF Dm!GetThread
  <2> HIDE DEF q
  <2>3. ASSUME NEW m \in q.marked
        PROVE  /\ message'[m] \in Dm!Message
               /\ message'[m].thread = message[m].thread /\ message'[m].by = message[m].by
    <3>1. message'[m] = [message[m] EXCEPT !.read = TRUE] /\ message[m] \in Dm!Message
      BY <1>0, <2>1, <2>2 DEF Dm!MarkedRead
    <3> QED  BY <3>1 DEF Dm!Message
  <2>4. \A m \in Messages \ q.marked : message'[m] = message[m]
    BY <2>2 DEF Dm!MarkedRead
  <2>5. message' \in [Messages -> Dm!Message \union {None}]
    <3>1. message' = [m \in Messages |-> message'[m]]
      BY <2>2 DEF Dm!MarkedRead
    <3>2. \A m \in Messages : message'[m] \in Dm!Message \union {None}
      BY <1>0, <2>3, <2>4
    <3> QED  BY <3>1, <3>2
  <2>6. \A m \in Messages : message[m] # None =>
          message'[m] # None /\ message'[m].thread = message[m].thread /\ message'[m].by = message[m].by
    BY <2>3, <2>4
  <2>7. Dm!In(q.thread) \subseteq Messages /\ q.marked \subseteq Dm!In(q.thread)
    BY <2>1 DEF Dm!In
  <2>8. /\ shown' \in [Employments -> SUBSET Messages]
        /\ \A p \in Employments : shown[p] \subseteq shown'[p]
        /\ Dm!In(q.thread) \subseteq shown'[q.by]
    BY <1>0, <2>1, <2>2, <2>7
  <2>9. DirectMessagesGrow
    BY <1>0, <2>2, <2>5, <2>6, <2>8 DEF DirectMessagesGrow, Dm!Exist
  <2>10. \A m \in Messages : message'[m] # None => message'[m].thread \in Dm!Exist'
    BY <1>0, <2>1, <2>2, <2>3, <2>4 DEF Dm!Exist
  <2>11. \A m \in Messages : message'[m] # None /\ message'[m].read /\ ~(message[m] # None /\ message[m].read) =>
           \E p \in Employments \ {message'[m].by} :
             Dm!Participates(p, message'[m].thread) /\ m \in shown'[p]
    <3>1. ASSUME NEW m \in q.marked
          PROVE  /\ q.by \in Employments \ {message'[m].by}
                 /\ Dm!Participates(q.by, message'[m].thread) /\ m \in shown'[q.by]
      BY <2>1, <2>3, <2>7, <2>8
    <3> QED  BY <2>4, <3>1
  <2> QED  BY <1>3, <2>1, <2>9, <2>10, <2>11, DirectMessagesKept
<1> QED  BY <1>1, <1>4, <1>5, <1>6, <1>7, <1>8, <1>9, <1>10 DEF Dm!Next

(* Access control *)

\* A grant for one location names it, and carries only what a location can have.
Located(held) ==
  held.scope = "location" => held.location \in Locations /\ held.capabilities \subseteq Scopable

AccessInvariant ==
  /\ Ac!TypeOK
  /\ \A r \in Sessions : actor[r] # None => \A held \in actor[r] : Located(held)

LEMMA ResolvedLocated ==
  ASSUME Ac!TypeOK
  PROVE  Ac!Resolved \in SUBSET Ac!Held /\ \A held \in Ac!Resolved : Located(held)
<1> SUFFICES ASSUME NEW g \in Ac!Granted
             PROVE  LET held == [scope |-> grant[g].scope, location |-> grant[g].location,
                                 capabilities |-> Ac!CapabilitiesFor(Ac!Carried(g))]
                    IN  held \in Ac!Held /\ Located(held)
  BY DEF Ac!Resolved
<1>1. grant[g] \in Ac!Grant
  BY DEF Ac!TypeOK, Ac!Granted
<1>2. /\ grant[g].scope \in Ac!Scopes /\ grant[g].role \in Roles
      /\ grant[g].location \in Locations \union {None}
      /\ grant[g].scope = "location" => grant[g].location \in Locations
  BY <1>1 DEF Ac!Grant, Ac!Scopes
<1>3. /\ Ac!Carried(g) \subseteq All
      /\ grant[g].scope = "location" => Ac!Carried(g) \subseteq Scopable
  BY <1>2, AccessControlAssumption DEF Ac!Carried
<1>4. Ac!CapabilitiesFor(Ac!Carried(g)) \subseteq Ac!Carried(g)
  BY DEF Ac!CapabilitiesFor
<1> QED  BY <1>2, <1>3, <1>4 DEF Ac!Held, Located

LEMMA AccessInit == Ac!Init => AccessInvariant
BY DEF Ac!Init, AccessInvariant, Ac!TypeOK

LEMMA AccessStep ==
  ASSUME AccessInvariant, Ac!Next \/ UNCHANGED accessVars
  PROVE  AccessInvariant'
<1> USE DEF AccessInvariant, Ac!TypeOK
<1>1. CASE UNCHANGED accessVars
  BY <1>1 DEF accessVars
<1>2. ASSUME NEW r \in Sessions, Ac!ResolveActor(r)
      PROVE  AccessInvariant'
  <2>1. Ac!Resolved \in SUBSET Ac!Held /\ \A held \in Ac!Resolved : Located(held)
    BY ResolvedLocated
  <2> QED  BY <1>2, <2>1 DEF Ac!ResolveActor
<1>3. ASSUME NEW r \in Sessions, Ac!RequestEnds(r)
      PROVE  AccessInvariant'
  BY <1>3 DEF Ac!RequestEnds
<1>4. CASE Ac!GrantRole
  <2>1. PICK g \in Grants \ Ac!Granted, role \in Roles, location \in Locations \union {None} :
          grant' = [grant EXCEPT ![g] =
            [role |-> role, scope |-> IF location = None THEN "org" ELSE "location",
             location |-> location, revoked |-> FALSE]]
    BY <1>4 DEF Ac!GrantRole
  <2>2. [role |-> role, scope |-> IF location = None THEN "org" ELSE "location",
         location |-> location, revoked |-> FALSE] \in Ac!Grant
    BY DEF Ac!Grant
  <2> QED  BY <1>4, <2>1, <2>2 DEF Ac!GrantRole
<1>5. ASSUME NEW g \in Ac!Granted
      PROVE  grant[g] \in Ac!Grant /\ [grant[g] EXCEPT !.revoked = TRUE] \in Ac!Grant
  <2>1. grant[g] \in Ac!Grant
    BY DEF Ac!Granted
  <2> QED  BY <2>1 DEF Ac!Grant
<1>6. CASE Ac!RevokeRoleGrant
  BY <1>5, <1>6 DEF Ac!RevokeRoleGrant, Ac!Granted
<1>7. CASE Ac!CompleteSeparation
  BY <1>5, <1>7 DEF Ac!CompleteSeparation
<1>8. CASE Ac!SetEmploymentStatus \/ Ac!SubscriptionChanges
  BY <1>8 DEF Ac!SetEmploymentStatus, Ac!SubscriptionChanges
<1> QED  BY <1>1, <1>2, <1>3, <1>4, <1>6, <1>7, <1>8 DEF Ac!Next

LEMMA AccessAnswers == AccessInvariant => Ac!AnswersAgree
<1> SUFFICES ASSUME AccessInvariant, NEW r \in Sessions, actor[r] # None, NEW c \in All
             PROVE  LET A == actor[r]
                        where == Ac!AccessibleLocationIds(A, c)
                    IN /\ where = None <=> Ac!Can(A, c, None)
                       /\ \A l \in Locations : Ac!Can(A, c, l) <=> (where = None \/ l \in where)
                       /\ Ac!CanAtAnyLocation(A, c) <=> (where = None \/ where # {})
                       /\ c \in Ac!HeldCapabilities(A) <=> Ac!CanAtAnyLocation(A, c)
  BY DEF Ac!AnswersAgree
<1> DEFINE A == actor[r]
           with == {held \in A : c \in held.capabilities}
           where == Ac!AccessibleLocationIds(A, c)
<1>1. A \subseteq Ac!Held /\ \A held \in A : Located(held)
  BY DEF AccessInvariant, Ac!TypeOK
<1>2. \A held \in A : held.scope \in {"org", "location"}
  BY <1>1 DEF Ac!Held, Ac!Scopes
<1>3. Ac!Can(A, c, None) <=> \E held \in with : held.scope = "org"
  BY DEF Ac!Can, Ac!Satisfies
<1>4. ASSUME NEW l \in Locations
      PROVE  Ac!Can(A, c, l) <=> \E held \in with : held.scope = "org" \/ held.location = l
  <2>1. l # None
    BY NoneAssumption
  <2>2. \A held \in with : held.scope = "org" \/ c \in Scopable
    BY <1>1, <1>2 DEF Located
  <2> QED  BY <2>1, <2>2 DEF Ac!Can, Ac!Satisfies
<1>5. Ac!CanAtAnyLocation(A, c) <=> with # {}
  BY DEF Ac!CanAtAnyLocation
<1>6. c \in Ac!HeldCapabilities(A) <=> Ac!CanAtAnyLocation(A, c)
  BY DEF Ac!CanAtAnyLocation, Ac!HeldCapabilities
<1>7. CASE \E held \in with : held.scope = "org"
  <2>1. where = None
    BY <1>7 DEF Ac!AccessibleLocationIds
  <2> QED  BY <1>3, <1>4, <1>5, <1>6, <1>7, <2>1
<1>8. CASE ~\E held \in with : held.scope = "org"
  <2>1. where = {held.location : held \in with}
    BY <1>8 DEF Ac!AccessibleLocationIds
  <2>2. where \in SUBSET Locations
    BY <1>1, <1>2, <1>8, <2>1 DEF Located
  <2>3. where # None
    BY <2>2, NullAssumption
  <2> QED  BY <1>3, <1>4, <1>5, <1>6, <1>8, <2>1, <2>3
<1> QED  BY <1>7, <1>8

-----------------------------------------------------------------------------
(* Support *)

LEMMA SupportCount == ASSUME NEW S PROVE Su!Cardinality(S) = Cardinality(S)
BY DEF Su!Cardinality, Cardinality

\* The latest of some places in a thread.
LEMMA LatestOf ==
  ASSUME NEW n \in Nat, NEW S \in SUBSET (1..n), S # {}
  PROVE  Su!Max(S) \in S /\ \A x \in S : x <= Su!Max(S)
<1> DEFINE Bounds == {k \in Nat : \A x \in S : x <= k}
           R == {ss \in Nat \X Nat : ss[1] < ss[2]}
<1>1. n \in Bounds
  OBVIOUS
<1>2. IsWellFoundedOn(R, Nat)
  BY NatLessThanWellFounded DEF OpToRel
<1>3. PICK k \in Bounds : \A b \in Bounds : <<b, k>> \notin R
  BY <1>1, <1>2, WFMin
<1>4. k \in Nat /\ k # 0 /\ k - 1 \in Nat
  <2>1. PICK x \in S : x \in 1..n
    OBVIOUS
  <2>2. k \in Nat /\ x <= k
    BY <1>3
  <2> QED  BY <2>1, <2>2
<1>5. k - 1 \notin Bounds
  <2>1. <<k - 1, k>> \in R
    BY <1>4
  <2> QED  BY <1>3, <2>1
<1>6. PICK x \in S : ~(x <= k - 1)
  BY <1>4, <1>5
<1>7. x = k
  <2>1. x \in Nat /\ x <= k
    BY <1>3
  <2> QED  BY <1>4, <1>6, <2>1
<1>8. k \in S /\ \A y \in S : k >= y
  BY <1>3, <1>6, <1>7
<1>9. Su!Max(S) = CHOOSE y \in S : \A z \in S : y >= z
  BY DEF Su!Max
<1>10. Su!Max(S) \in S /\ \A y \in S : Su!Max(S) >= y
  BY <1>8, <1>9
<1> QED  BY <1>10

\* What one more message does to the story a thread tells.
LEMMA OneMoreMessage ==
  ASSUME NEW s \in Seq(Su!Message), NEW m \in Su!Message
  PROVE  LET t == Append(s, m) IN
         /\ t \in Seq(Su!Message) /\ Len(t) = Len(s) + 1 /\ DOMAIN t = 1..Len(s) + 1
         /\ \A k \in 1..Len(s) : t[k] = s[k]
         /\ t[Len(s) + 1] = m
         /\ Su!Changes(s) \in SUBSET (1..Len(s))
         /\ Su!Changes(t) = Su!Changes(s) \union (IF m.to = None THEN {} ELSE {Len(s) + 1})
         /\ \A k \in 1..Len(s) + 1 : Su!LedTo(t, k) = Su!LedTo(s, k)
         /\ Su!LedTo(t, Len(s) + 2) = IF m.to = None THEN Su!LedTo(s, Len(s) + 1) ELSE m.to
<1> DEFINE t == Append(s, m)
           n == Len(s)
<1>1. /\ t \in Seq(Su!Message) /\ Len(t) = n + 1 /\ DOMAIN t = 1..n + 1
      /\ n \in Nat /\ DOMAIN s = 1..n
      /\ \A k \in 1..n : t[k] = s[k]
      /\ t[n + 1] = m
  OBVIOUS
<1> HIDE DEF t, n
<1>2. /\ Su!Changes(s) \in SUBSET (1..n) /\ Su!Changes(t) \in SUBSET (1..n + 1)
      /\ Su!Changes(t) = Su!Changes(s) \union (IF m.to = None THEN {} ELSE {n + 1})
  BY <1>1 DEF Su!Changes
<1>3. ASSUME NEW k \in 1..n + 1
      PROVE  Su!LedTo(t, k) = Su!LedTo(s, k)
  <2> DEFINE before == {j \in Su!Changes(s) : j < k}
  <2>1. {j \in Su!Changes(t) : j < k} = before
    BY <1>1, <1>2
  <2>2. before # {} => Su!Max(before) \in before
    <3>1. before \in SUBSET (1..n)
      BY <1>2
    <3> QED  BY <1>1, <3>1, LatestOf
  <2>3. before # {} => t[Su!Max(before)] = s[Su!Max(before)]
    BY <1>1, <1>2, <2>2
  <2> QED  BY <2>1, <2>3 DEF Su!LedTo
<1>4. Su!LedTo(t, n + 2) = IF m.to = None THEN Su!LedTo(s, n + 1) ELSE m.to
  <2> DEFINE before == {j \in Su!Changes(t) : j < n + 2}
  <2>1. before = Su!Changes(t) /\ {j \in Su!Changes(t) : j < n + 1} = Su!Changes(s)
    BY <1>1, <1>2
  <2>2. CASE m.to = None
    <3>1. before = {j \in Su!Changes(t) : j < n + 1}
      BY <1>2, <2>1, <2>2
    <3>2. Su!LedTo(t, n + 2) = Su!LedTo(t, n + 1)
      BY <3>1 DEF Su!LedTo
    <3>3. n + 1 \in 1..n + 1
      BY <1>1
    <3> QED  BY <1>3, <2>2, <3>2, <3>3
  <2>3. CASE m.to # None
    <3>1. n + 1 \in before /\ before \in SUBSET (1..n + 1)
      BY <1>1, <1>2, <2>1, <2>3
    <3> HIDE DEF before
    <3>2. n + 1 \in Nat /\ before # {}
      BY <1>1, <3>1
    <3>4. Su!Max(before) \in before /\ n + 1 <= Su!Max(before)
      BY <3>1, <3>2, LatestOf
    <3>5. Su!Max(before) \in 1..n + 1
      BY <3>1, <3>4
    <3>3. Su!Max(before) = n + 1
      BY <1>1, <3>4, <3>5
    <3> QED  BY <1>1, <2>3, <3>1, <3>3 DEF before, Su!LedTo
  <2> QED  BY <2>2, <2>3
<1> QED  BY <1>1, <1>2, <1>3, <1>4 DEF t, n

\* What a row and its thread say of one another.
Story(s, told) ==
  /\ Su!Tells(s, told.status)
  /\ told.reopened = Su!Cardinality({k \in Su!Changes(s) : s[k].from = "resolved"})
  /\ told.status = "resolved" => told.resolvedAt = s[Su!Max(Su!Changes(s))].at
  /\ s # <<>> /\ Su!Last(s).author = "customer" => told.status \in {"open", "in_progress"}

LEMMA StoryBegins ==
  ASSUME NEW told, told.status = "open", told.reopened = 0
  PROVE  Story(<<>>, told)
<1>1. Su!Changes(<<>>) = {}
  BY DEF Su!Changes
<1>2. Su!LedTo(<<>>, 1) = "open" /\ Len(<<>>) + 1 = 1
  BY <1>1 DEF Su!LedTo
<1>3. Su!Cardinality({k \in {} : <<>>[k].from = "resolved"}) = 0
  BY SupportCount, FS_EmptySet
<1> QED  BY <1>1, <1>2, <1>3 DEF Story, Su!Tells

\* One writer's message and the row it leaves continue the story the writer has read.
LEMMA StoryContinues ==
  ASSUME NEW s \in Seq(Su!Message), NEW told \in Su!Case, NEW next \in Su!Case, NEW m \in Su!Message,
         Story(s, told),
         m.from = IF next.status = told.status THEN None ELSE told.status,
         m.to = IF next.status = told.status THEN None ELSE next.status,
         next.reopened = told.reopened
           + IF told.status = "resolved" /\ next.status # "resolved" THEN 1 ELSE 0,
         next.status = "resolved" =>
           next.resolvedAt = IF told.status = "resolved" THEN told.resolvedAt ELSE m.at,
         m.author = "customer" => next.status \in {"open", "in_progress"}
  PROVE  Story(Append(s, m), next)
<1> DEFINE t == Append(s, m)
           n == Len(s)
<1>1. /\ t \in Seq(Su!Message) /\ Len(t) = n + 1 /\ DOMAIN t = 1..n + 1
      /\ \A k \in 1..n : t[k] = s[k]
      /\ t[n + 1] = m
      /\ Su!Changes(s) \in SUBSET (1..n)
      /\ Su!Changes(t) = Su!Changes(s) \union (IF m.to = None THEN {} ELSE {n + 1})
      /\ \A k \in 1..n + 1 : Su!LedTo(t, k) = Su!LedTo(s, k)
      /\ Su!LedTo(t, n + 2) = IF m.to = None THEN Su!LedTo(s, n + 1) ELSE m.to
  BY OneMoreMessage
<1>2. n \in Nat /\ n + 1 \in 1..n + 1 /\ n + 1 \notin 1..n /\ n + 1 + 1 = n + 2
  OBVIOUS
<1> HIDE DEF t, n
<1>3. told.status \in Su!Statuses /\ next.status \in Su!Statuses
  BY DEF Su!Case
<1>4. (m.to = None) <=> (next.status = told.status)
  BY <1>3, NullAssumption
<1>5. /\ \A k \in Su!Changes(s) : s[k].from = Su!LedTo(s, k)
      /\ told.status = Su!LedTo(s, n + 1)
  BY DEF Story, Su!Tells, n
<1>6. Su!Tells(t, next.status)
  <2>1. ASSUME NEW k \in Su!Changes(t)
        PROVE  t[k].from = Su!LedTo(t, k)
    <3>1. CASE k \in Su!Changes(s)
      <4>1. k \in 1..n /\ k \in 1..n + 1
        BY <1>1, <1>2, <3>1
      <4> QED  BY <1>1, <1>5, <3>1, <4>1
    <3>2. CASE k \notin Su!Changes(s)
      <4>1. k = n + 1 /\ m.to # None
        BY <1>1, <2>1, <3>2
      <4>2. t[k].from = told.status
        BY <1>1, <1>4, <4>1
      <4> QED  BY <1>1, <1>2, <1>5, <4>1, <4>2
    <3> QED  BY <3>1, <3>2
  <2>2. next.status = Su!LedTo(t, Len(t) + 1)
    BY <1>1, <1>2, <1>4, <1>5
  <2> QED  BY <2>1, <2>2 DEF Su!Tells
<1> DEFINE before == {k \in Su!Changes(s) : s[k].from = "resolved"}
           after == {k \in Su!Changes(t) : t[k].from = "resolved"}
<1>7. next.reopened = Su!Cardinality(after)
  <2>1. IsFiniteSet(before) /\ before \in SUBSET (1..n)
    <3>1. IsFiniteSet(1..n)
      BY <1>2, FS_Interval
    <3> QED  BY <1>1, <3>1, FS_Subset
  <2>2. \A k \in Su!Changes(s) : t[k] = s[k]
    BY <1>1
  <2>3. told.reopened = Cardinality(before)
    BY SupportCount DEF Story
  <2>4. CASE told.status = "resolved" /\ next.status # "resolved"
    <3>1. m.to # None /\ t[n + 1].from = "resolved"
      BY <1>1, <1>4, <2>4
    <3>2. after = before \union {n + 1} /\ n + 1 \notin before
      BY <1>1, <1>2, <2>1, <2>2, <3>1
    <3>3. Cardinality(after) = Cardinality(before) + 1
      BY ZenonT(60), <2>1, <3>2, FS_AddElement
    <3> QED  BY <2>3, <2>4, <3>3, SupportCount
  <2>5. CASE ~(told.status = "resolved" /\ next.status # "resolved")
    <3>1. m.to = None \/ m.from # "resolved"
      BY <1>4, <2>5
    <3>2. after = before
      BY <1>1, <1>2, <2>2, <3>1
    <3>3. told.reopened \in Nat
      BY DEF Su!Case
    <3>4. next.reopened = told.reopened
      BY <2>5, <3>3
    <3>5. Su!Cardinality(after) = Cardinality(before)
      BY <3>2, SupportCount
    <3> HIDE DEF before, after
    <3> QED  BY <2>3, <3>4, <3>5
  <2> QED  BY <2>4, <2>5
<1>8. ASSUME next.status = "resolved"
      PROVE  next.resolvedAt = t[Su!Max(Su!Changes(t))].at
  <2>1. CASE told.status = "resolved"
    <3>1. Su!Changes(t) = Su!Changes(s)
      BY <1>1, <1>4, <1>8, <2>1
    <3>2. Su!Changes(s) # {}
      BY <1>5, <2>1 DEF Su!LedTo
    <3>3. Su!Max(Su!Changes(s)) \in 1..n
      BY <1>1, <1>2, <3>2, LatestOf
    <3> QED  BY <1>1, <1>8, <2>1, <3>1, <3>3 DEF Story
  <2>2. CASE told.status # "resolved"
    <3>1. m.to # None
      BY <1>4, <1>8, <2>2
    <3>2. Su!Changes(t) \in SUBSET (1..n + 1) /\ n + 1 \in Su!Changes(t)
      BY <1>1, <1>2, <3>1
    <3>3. Su!Max(Su!Changes(t)) \in 1..n + 1 /\ n + 1 <= Su!Max(Su!Changes(t))
      <4>1. n + 1 \in Nat /\ Su!Changes(t) # {}
        BY <1>2, <3>2
      <4>2. Su!Max(Su!Changes(t)) \in Su!Changes(t) /\ n + 1 <= Su!Max(Su!Changes(t))
        BY <3>2, <4>1, LatestOf
      <4> QED  BY <3>2, <4>2
    <3>4. Su!Max(Su!Changes(t)) = n + 1
      BY <1>2, <3>3
    <3> QED  BY <1>1, <1>8, <2>2, <3>4
  <2> QED  BY <2>1, <2>2
<1>9. Su!Last(t) = m
  BY <1>1 DEF Su!Last
<1> QED  BY <1>6, <1>7, <1>8, <1>9 DEF Story, t

Writer(q) == q # None /\ q.op \in {"reply", "update"}

SupportTypes ==
  /\ case \in [Cases -> Su!Case \union {None}]
  /\ \A c \in Su!Exist : (case[c].status = "resolved") <=> (case[c].resolvedAt # None)
  /\ messages = [c \in Cases |-> messages[c]]
  /\ \A c \in Cases : messages[c] \in Seq(Su!Message)
  /\ \A c \in Cases \ Su!Exist : messages[c] = <<>>
  /\ clock \in Nat
  /\ txn \in [Requests -> Su!Request \union {None}]

\* Who has locked a case is alone with it, and has read it as it is.
Locked ==
  /\ \A r \in Requests : Writer(txn[r]) =>
       /\ txn[r].case \in Su!Exist
       /\ txn[r].row # None => txn[r].row = case[txn[r].case]
  /\ \A q, r \in Requests :
       /\ Writer(txn[q]) /\ txn[q].row # None
       /\ Writer(txn[r]) /\ txn[r].row # None
       /\ txn[q].case = txn[r].case
       => q = r

\* One request at a time, each writes later than all that was written.
InOrder ==
  Su!Serial =>
    /\ \A q, r \in Requests : txn[q] # None /\ txn[r] # None => q = r
    /\ \A r \in Requests : Writer(txn[r]) => txn[r].now <= clock
    /\ \A c \in Cases : \A k \in DOMAIN messages[c] :
         /\ messages[c][k].at <= clock
         /\ \A r \in Requests : Writer(txn[r]) => messages[c][k].at < txn[r].now
         /\ \A l \in DOMAIN messages[c] : k < l => messages[c][k].at < messages[c][l].at

SupportInvariant ==
  /\ SupportTypes /\ Locked /\ InOrder
  /\ \A c \in Su!Exist : Story(messages[c], case[c])

LEMMA SupportInit == Su!Init => SupportInvariant
BY DEF Su!Init, SupportInvariant, SupportTypes, Locked, InOrder, Writer, Su!Exist

LEMMA SupportFollows == SupportInvariant =>
  Su!ThreadTellsStatus /\ Su!RowAgreesWithThread /\ Su!CustomerIsHeard
<1> SUFFICES ASSUME SupportInvariant
             PROVE  Su!ThreadTellsStatus /\ Su!RowAgreesWithThread /\ Su!CustomerIsHeard
  OBVIOUS
<1>1. Su!ThreadTellsStatus
  BY DEF SupportInvariant, InOrder, Story, Su!ThreadTellsStatus, Su!Exist
<1>2. Su!RowAgreesWithThread
  BY DEF SupportInvariant, Story, Su!RowAgreesWithThread
<1>3. Su!CustomerIsHeard
  BY DEF SupportInvariant, Story, Su!CustomerIsHeard
<1> QED  BY <1>1, <1>2, <1>3

LEMMA StampsOfMessages ==
  ASSUME SupportTypes, NEW c \in Cases, NEW k \in DOMAIN messages[c]
  PROVE  messages[c][k].at \in Nat
<1>1. messages[c] \in Seq(Su!Message)
  BY DEF SupportTypes
<1>2. messages[c][k] \in Su!Message
  BY <1>1
<1> QED  BY <1>2 DEF Su!Message, Su!Stamps

\* What leaves cases and messages alone.
LEMMA SupportTxn ==
  ASSUME SupportInvariant, UNCHANGED <<isolation, case, messages>>,
         clock' \in Nat, clock <= clock',
         txn' \in [Requests -> Su!Request \union {None}],
         Locked', 
         Su!Serial =>
           /\ \A q, r \in Requests : txn'[q] # None /\ txn'[r] # None => q = r
           /\ \A r \in Requests : Writer(txn'[r]) =>
                /\ txn'[r].now <= clock'
                /\ \A c \in Cases : \A k \in DOMAIN messages[c] : messages[c][k].at < txn'[r].now
  PROVE  SupportInvariant'
<1>1. Su!Exist' = Su!Exist
  BY DEF Su!Exist
<1>2. SupportTypes'
  BY <1>1 DEF SupportInvariant, SupportTypes
<1>3. \A c \in Cases : \A k \in DOMAIN messages[c] : messages[c][k].at \in Nat
  BY StampsOfMessages DEF SupportInvariant
<1>4. clock \in Nat
  BY DEF SupportInvariant, SupportTypes
<1>5. InOrder'
  BY <1>3, <1>4 DEF SupportInvariant, InOrder, Su!Serial
<1> QED  BY <1>1, <1>2, <1>5 DEF SupportInvariant

\* A case is written to by who has locked it, or opened.
WritesCase(r, c, next, s) ==
  /\ isolation' = isolation /\ clock' = clock
  /\ txn' = [txn EXCEPT ![r] = None]
  /\ case' = [case EXCEPT ![c] = next]
  /\ messages' = [messages EXCEPT ![c] = s]
  /\ (next.status = "resolved") <=> (next.resolvedAt # None)
  /\ \A q \in Requests \ {r} : ~(Writer(txn[q]) /\ txn[q].row # None /\ txn[q].case = c)
  /\ Su!Serial =>
       /\ txn[r] # None
       /\ \A k \in DOMAIN s : s[k].at <= clock /\ \A l \in DOMAIN s : k < l => s[k].at < s[l].at
  /\ Story(s, next)

LEMMA SupportWrites ==
  ASSUME SupportInvariant, NEW r \in Requests, NEW c \in Cases,
         NEW next \in Su!Case, NEW s \in Seq(Su!Message), WritesCase(r, c, next, s)
  PROVE  SupportInvariant'
<1> USE DEF SupportInvariant, SupportTypes, WritesCase
<1>1. /\ next # None /\ next \in Su!Case \union {None}
  BY NullAssumption
<1>2. /\ case'[c] = next /\ \A d \in Cases \ {c} : case'[d] = case[d]
      /\ messages'[c] = s /\ \A d \in Cases \ {c} : messages'[d] = messages[d]
      /\ txn'[r] = None /\ \A q \in Requests \ {r} : txn'[q] = txn[q]
  <2>1. c \in DOMAIN messages
    OBVIOUS
  <2> QED  BY <2>1
<1>3. Su!Exist' = Su!Exist \union {c}
  BY <1>1, <1>2 DEF Su!Exist
<1>4. SupportTypes'
  <2>1. case' \in [Cases -> Su!Case \union {None}]
    BY <1>1
  <2>2. \A d \in Su!Exist' : (case'[d].status = "resolved") <=> (case'[d].resolvedAt # None)
    BY <1>2, <1>3
  <2>3. messages' = [d \in Cases |-> messages'[d]]
    OBVIOUS
  <2>4. \A d \in Cases : messages'[d] \in Seq(Su!Message)
    BY <1>2
  <2>5. \A d \in Cases \ Su!Exist' : messages'[d] = <<>>
    BY <1>2, <1>3
  <2>6. txn' \in [Requests -> Su!Request \union {None}] /\ clock' \in Nat
    OBVIOUS
  <2> QED  BY <2>1, <2>2, <2>3, <2>4, <2>5, <2>6
<1>5. Locked'
  <2>1. ASSUME NEW q \in Requests, Writer(txn'[q])
        PROVE  /\ txn'[q] = txn[q] /\ q # r /\ txn[q].case \in Su!Exist
               /\ txn[q].row # None => txn[q].case # c /\ txn[q].row = case[txn[q].case]
    BY <1>2, <2>1 DEF Writer, Locked
  <2>2. \A q \in Requests : Writer(txn'[q]) => txn'[q].case \in Su!Exist'
    BY <1>3, <2>1
  <2>3. \A q \in Requests : Writer(txn'[q]) /\ txn'[q].row # None =>
          txn'[q].row = case'[txn'[q].case]
    BY <1>2, <2>1 DEF Su!Exist
  <2>4. \A p, q \in Requests :
          /\ Writer(txn'[p]) /\ txn'[p].row # None
          /\ Writer(txn'[q]) /\ txn'[q].row # None
          /\ txn'[p].case = txn'[q].case
          => p = q
    BY <2>1 DEF Locked
  <2> QED  BY <2>2, <2>3, <2>4 DEF Locked, Writer
<1>6. InOrder'
  <2> SUFFICES ASSUME Su!Serial
               PROVE  /\ \A q \in Requests : txn'[q] = None
                      /\ \A d \in Cases : \A k \in DOMAIN messages'[d] :
                           /\ messages'[d][k].at <= clock
                           /\ \A l \in DOMAIN messages'[d] :
                                k < l => messages'[d][k].at < messages'[d][l].at
    BY DEF InOrder, Su!Serial, Writer
  <2>1. \A q \in Requests : txn'[q] = None
    BY <1>2 DEF InOrder
  <2>2. ASSUME NEW d \in Cases
        PROVE  \A k \in DOMAIN messages'[d] :
                 /\ messages'[d][k].at <= clock
                 /\ \A l \in DOMAIN messages'[d] : k < l => messages'[d][k].at < messages'[d][l].at
    <3>1. CASE d = c
      BY <1>2, <3>1
    <3>2. CASE d # c
      BY <1>2, <3>2 DEF InOrder
    <3> QED  BY <3>1, <3>2
  <2> QED  BY <2>1, <2>2
<1>7. \A d \in Su!Exist' : Story(messages'[d], case'[d])
  BY <1>2, <1>3 DEF Su!Exist
<1> QED  BY <1>4, <1>5, <1>6, <1>7

LEMMA SupportStep ==
  ASSUME SupportInvariant, Su!Next \/ UNCHANGED <<isolation, case, messages, txn, clock>>
  PROVE  SupportInvariant'
<1>0. SupportTypes /\ Locked /\ InOrder
  BY DEF SupportInvariant
<1>1. /\ clock \in Nat /\ clock <= clock
      /\ txn \in [Requests -> Su!Request \union {None}]
      /\ case \in [Cases -> Su!Case \union {None}]
  BY <1>0 DEF SupportTypes
<1>2. CASE UNCHANGED <<isolation, case, messages, txn, clock>>
  <2>1. Locked'
    BY <1>0, <1>2 DEF Locked, Su!Exist, Writer
  <2> QED  BY <1>0, <1>1, <1>2, <2>1, SupportTxn DEF InOrder
\* A request begins, and has locked nothing yet.
<1>3. ASSUME NEW r \in Requests, NEW q \in Su!Request, Su!Ask(r, q),
             \/ q.op = "create" /\ clock' = clock
             \/ /\ q.op # "create" /\ q.case \in Su!Exist /\ q.row = None /\ q.now = clock'
                /\ clock' = clock + 1
      PROVE  SupportInvariant'
  <2>1. /\ UNCHANGED <<isolation, case, messages>>
        /\ txn' = [txn EXCEPT ![r] = q]
        /\ Su!Serial => \A x \in Requests : txn[x] = None
    BY <1>3 DEF Su!Ask
  <2>2. /\ txn' \in [Requests -> Su!Request \union {None}]
        /\ txn'[r] = q /\ \A x \in Requests \ {r} : txn'[x] = txn[x]
    BY <1>1, <2>1
  <2>3. clock' \in Nat /\ clock <= clock'
    BY <1>1, <1>3
  <2>4. Locked'
    BY <1>0, <1>3, <2>1, <2>2 DEF Locked, Su!Exist, Writer
  <2>5. \A x, y \in Requests : Su!Serial /\ txn'[x] # None /\ txn'[y] # None => x = y
    BY <2>1, <2>2
  <2>6. ASSUME Su!Serial, NEW x \in Requests, Writer(txn'[x])
        PROVE  /\ txn'[x].now <= clock'
               /\ \A c \in Cases : \A k \in DOMAIN messages[c] : messages[c][k].at < txn'[x].now
    <3>1. x = r /\ txn'[x] = q
      BY <2>1, <2>2, <2>6 DEF Writer
    <3>2. q.now = clock' /\ clock' = clock + 1
      BY <1>3, <2>6, <3>1 DEF Writer
    <3>3. \A c \in Cases : \A k \in DOMAIN messages[c] :
            messages[c][k].at \in Nat /\ messages[c][k].at <= clock
      BY <1>0, <2>6, StampsOfMessages DEF InOrder
    <3> QED  BY <1>1, <2>3, <3>1, <3>2, <3>3
  <2> QED  BY <2>1, <2>2, <2>3, <2>4, <2>5, <2>6, SupportTxn
<1>4. ASSUME NEW r \in Requests, Su!AskCreate(r)
      PROVE  SupportInvariant'
  <2>1. PICK p \in Owners : Su!Ask(r, [op |-> "create", by |-> p])
    BY <1>4 DEF Su!AskCreate
  <2>2. [op |-> "create", by |-> p] \in Su!Request /\ [op |-> "create", by |-> p].op = "create"
    BY DEF Su!Request
  <2>3. clock' = clock
    BY <1>4 DEF Su!AskCreate
  <2> QED  BY <1>3, <2>1, <2>2, <2>3
<1>5. ASSUME Su!Now
      PROVE  clock' = clock + 1 /\ clock' \in Su!Stamps
  BY <1>1, <1>5, SupportAssumption DEF Su!Now, Su!Stamps
<1>6. ASSUME NEW r \in Requests, Su!AskReply(r)
      PROVE  SupportInvariant'
  <2>1. PICK c \in Su!Exist : Su!Ask(r, [op |-> "reply", case |-> c, now |-> clock', row |-> None])
    BY <1>6 DEF Su!AskReply
  <2>2. clock' = clock + 1 /\ clock' \in Su!Stamps
    BY <1>5, <1>6 DEF Su!AskReply
  <2> DEFINE q == [op |-> "reply", case |-> c, now |-> clock', row |-> None]
  <2>3. q \in Su!Request /\ q.op = "reply" /\ q.case = c /\ q.row = None /\ q.now = clock'
    BY <2>2 DEF Su!Request, Su!Exist
  <2>4. Su!Ask(r, q)
    BY <2>1
  <2> HIDE DEF q
  <2> QED  BY <1>3, <2>2, <2>3, <2>4
<1>7. ASSUME NEW r \in Requests, Su!AskUpdate(r)
      PROVE  SupportInvariant'
  <2>1. PICK c \in Su!Exist, reached \in Su!Statuses \union {None}, body \in BOOLEAN :
          Su!Ask(r, [op |-> "update", case |-> c, body |-> body, status |-> reached, now |-> clock',
                     row |-> None])
    BY <1>7 DEF Su!AskUpdate
  <2>2. clock' = clock + 1 /\ clock' \in Su!Stamps
    BY <1>5, <1>7 DEF Su!AskUpdate
  <2> DEFINE q == [op |-> "update", case |-> c, body |-> body, status |-> reached, now |-> clock',
                   row |-> None]
  <2>3. q \in Su!Request /\ q.op = "update" /\ q.case = c /\ q.row = None /\ q.now = clock'
    BY <2>2 DEF Su!Request, Su!Exist
  <2>4. Su!Ask(r, q)
    BY <2>1
  <2> HIDE DEF q
  <2> QED  BY <1>3, <2>2, <2>3, <2>4
<1>8. ASSUME NEW r \in Requests, Su!Rollback(r)
      PROVE  SupportInvariant'
  <2>1. /\ UNCHANGED <<isolation, case, messages, clock>>
        /\ txn' \in [Requests -> Su!Request \union {None}]
        /\ \A x \in Requests : txn'[x] # None => txn'[x] = txn[x]
    BY <1>1, <1>8 DEF Su!Rollback
  <2>2. Locked'
    BY <1>0, <2>1 DEF Locked, Su!Exist, Writer
  <2> QED  BY <1>0, <1>1, <2>1, <2>2, SupportTxn DEF InOrder, Writer
<1>9. CASE Su!HourPasses \/ Su!StaffCaseNote
  BY <1>2, <1>9 DEF Su!HourPasses, Su!StaffCaseNote
<1>10. ASSUME NEW r \in Requests, Su!Lock(r)
       PROVE  SupportInvariant'
  <2> DEFINE c == txn[r].case
             q == [txn[r] EXCEPT !.row = case[c]]
  <2>1. /\ Writer(txn[r]) /\ txn[r] \in Su!Request /\ c \in Su!Exist /\ case[c] \in Su!Case
        /\ UNCHANGED <<isolation, case, messages, clock>>
        /\ txn' = [txn EXCEPT ![r] = q]
        /\ Su!LockedBy(c) = {}
    BY <1>0, <1>1, <1>10 DEF Su!Lock, Locked, Writer, Su!Exist
  <2>2. q \in Su!Request /\ q.op = txn[r].op /\ q.case = c /\ q.now = txn[r].now /\ q.row = case[c]
    BY <2>1 DEF Su!Request, Writer
  <2> HIDE DEF c, q
  <2>3. /\ txn' \in [Requests -> Su!Request \union {None}]
        /\ txn'[r] = q /\ \A x \in Requests \ {r} : txn'[x] = txn[x]
    BY <1>1, <2>1, <2>2
  <2>4. \A x \in Requests : ~(Writer(txn[x]) /\ txn[x].row # None /\ txn[x].case = c)
    BY <2>1 DEF Su!LockedBy, Writer
  <2>5. Locked'
    BY <1>0, <2>1, <2>2, <2>3, <2>4 DEF Locked, Su!Exist, Writer
  <2>6. q # None /\ txn[r] # None
    BY <2>1, <2>2, NullAssumption DEF Writer
  <2>7. Su!Serial =>
          /\ \A x, y \in Requests : txn'[x] # None /\ txn'[y] # None => x = y
          /\ \A x \in Requests : Writer(txn'[x]) =>
               /\ txn'[x].now <= clock'
               /\ \A d \in Cases : \A k \in DOMAIN messages[d] : messages[d][k].at < txn'[x].now
    BY <1>0, <2>1, <2>2, <2>3, <2>6 DEF InOrder, Writer
  <2> QED  BY <1>1, <2>1, <2>3, <2>5, <2>7, SupportTxn
<1>11. ASSUME NEW r \in Requests, txn[r] # None
       PROVE  txn[r] \in Su!Request
  BY <1>1, <1>11
<1>12. ASSUME NEW r \in Requests, Su!CreateCase(r)
       PROVE  SupportInvariant'
  <2>1. PICK c \in Cases \ Su!Exist :
          case' = [case EXCEPT ![c] = [status |-> "open", by |-> txn[r].by, assigned |-> None,
                                       resolvedAt |-> None, reopened |-> 0]]
    BY <1>12 DEF Su!CreateCase
  <2> DEFINE new == [status |-> "open", by |-> txn[r].by, assigned |-> None,
                     resolvedAt |-> None, reopened |-> 0]
  <2>2. /\ UNCHANGED <<isolation, messages, clock>> /\ txn[r] # None
        /\ txn' = [txn EXCEPT ![r] = None] /\ txn[r].op = "create"
    BY <1>12 DEF Su!CreateCase, Su!Ends
  <2>3. txn[r].by \in Owners
    BY <1>11, <2>2 DEF Su!Request
  <2>4. /\ new \in Su!Case /\ new.status = "open" /\ new.reopened = 0
        /\ (new.status = "resolved") <=> (new.resolvedAt # None)
    BY <2>3 DEF Su!Case, Su!Statuses
  <2>5. case' = [case EXCEPT ![c] = new]
    BY <2>1
  <2> HIDE DEF new
  <2>6. messages[c] = <<>> /\ messages' = [messages EXCEPT ![c] = <<>>]
    BY <1>0, <2>2 DEF SupportTypes
  <2>7. \A q \in Requests : ~(Writer(txn[q]) /\ txn[q].row # None /\ txn[q].case = c)
    BY <1>0 DEF Locked
  <2>8. Story(<<>>, new)
    BY <2>4, StoryBegins
  <2>9. <<>> \in Seq(Su!Message) /\ DOMAIN <<>> = {}
    OBVIOUS
  <2>10. c \in Cases /\ isolation' = isolation /\ clock' = clock
    BY <2>2
  <2>11. WritesCase(r, c, new, <<>>)
    BY <2>2, <2>4, <2>5, <2>6, <2>7, <2>8, <2>9 DEF WritesCase
  <2> QED  BY <2>4, <2>9, <2>10, <2>11, SupportWrites
\* A writer holds the row it writes.
<1>13. ASSUME NEW r \in Requests, NEW op \in {"reply", "update"}, Su!Writes(r, op),
              NEW next \in Su!Case, NEW author \in {"customer", "evercalm"},
              case' = [case EXCEPT ![txn[r].case] = next],
              Su!Written(txn[r], author, next.status),
              UNCHANGED <<isolation, clock>>,
              (next.status = "resolved") <=> (next.resolvedAt # None),
              next.reopened = txn[r].row.reopened
                + IF txn[r].row.status = "resolved" /\ next.status # "resolved" THEN 1 ELSE 0,
              next.status = "resolved" =>
                next.resolvedAt = IF txn[r].row.status = "resolved" THEN txn[r].row.resolvedAt
                                  ELSE txn[r].now,
              author = "customer" => next.status \in {"open", "in_progress"}
       PROVE  SupportInvariant'
  <2> DEFINE q == txn[r]
             c == q.case
             m == [author |-> author, at |-> q.now,
                   from |-> IF next.status = q.row.status THEN None ELSE q.row.status,
                   to   |-> IF next.status = q.row.status THEN None ELSE next.status]
  <2>1. /\ Writer(q) /\ q \in Su!Request /\ q.row # None
        /\ txn' = [txn EXCEPT ![r] = None]
    BY <1>11, <1>13 DEF Su!Writes, Su!Ends, Writer
  <2>2. /\ c \in Cases /\ c \in Su!Exist /\ q.row = case[c] /\ q.row \in Su!Case /\ q.now \in Su!Stamps
    BY <1>0, <1>1, <2>1 DEF Locked, Su!Request, Writer, Su!Exist
  <2>3. messages' = [messages EXCEPT ![c] = Append(messages[c], m)]
    BY <1>13 DEF Su!Written
  <2>4. m \in Su!Message
    BY <1>13, <2>2 DEF Su!Message, Su!Case
  <2>5. /\ m.from = IF next.status = q.row.status THEN None ELSE q.row.status
        /\ m.to = IF next.status = q.row.status THEN None ELSE next.status
        /\ m.author = author /\ m.at = q.now
    OBVIOUS
  <2>6. case' = [case EXCEPT ![c] = next]
    BY <1>13
  <2> DEFINE s == Append(messages[c], m)
  <2>7. messages[c] \in Seq(Su!Message) /\ Story(messages[c], q.row)
    BY <1>0, <2>2 DEF SupportTypes, SupportInvariant
  <2> HIDE DEF m
  <2>8. Story(s, next)
    BY <1>13, <2>2, <2>4, <2>5, <2>7, StoryContinues
  <2>9. \A x \in Requests \ {r} : ~(Writer(txn[x]) /\ txn[x].row # None /\ txn[x].case = c)
    BY <1>0, <2>1 DEF Locked
  <2>10. /\ s \in Seq(Su!Message) /\ DOMAIN s = 1..Len(messages[c]) + 1
         /\ DOMAIN messages[c] = 1..Len(messages[c])
         /\ \A k \in 1..Len(messages[c]) : s[k] = messages[c][k]
         /\ s[Len(messages[c]) + 1] = m
    BY <2>4, <2>7
  <2>11. ASSUME Su!Serial, NEW k \in DOMAIN s
         PROVE  s[k].at <= clock /\ \A l \in DOMAIN s : k < l => s[k].at < s[l].at
    <3>1. /\ q.now <= clock
          /\ \A j \in DOMAIN messages[c] :
               /\ messages[c][j].at <= clock /\ messages[c][j].at < q.now
               /\ \A l \in DOMAIN messages[c] : j < l => messages[c][j].at < messages[c][l].at
      BY <1>0, <2>1, <2>2, <2>11 DEF InOrder
    <3> HIDE DEF s, q, c
    <3>2. CASE k = Len(messages[c]) + 1
      BY <2>5, <2>10, <3>1, <3>2
    <3>3. CASE k \in 1..Len(messages[c])
      BY SMTT(60), <2>5, <2>10, <3>1, <3>3
    <3> QED  BY <2>10, <3>2, <3>3
  <2>12. messages' = [messages EXCEPT ![c] = s] /\ txn[r] # None
    BY <2>1, <2>3 DEF Writer, m
  <2> HIDE DEF s, c
  <2>13. s \in Seq(Su!Message) /\ c \in Cases /\ UNCHANGED <<isolation, clock>>
    BY <1>13, <2>2, <2>10
  <2>14. WritesCase(r, c, next, s)
    BY <1>13, <2>1, <2>6, <2>8, <2>9, <2>11, <2>12 DEF WritesCase
  <2> QED  BY <2>13, <2>14, SupportWrites
<1>14. ASSUME NEW r \in Requests, NEW op \in {"reply", "update"}, Su!Writes(r, op)
       PROVE  /\ txn[r] # None /\ txn[r].op = op /\ txn[r] \in Su!Request
              /\ txn[r].row = case[txn[r].case] /\ txn[r].row \in Su!Case
              /\ txn[r].case \in Su!Exist /\ txn[r].now \in Su!Stamps
              /\ op = "update" => txn[r].status \in Su!Statuses \union {None}
              /\ (txn[r].row.status = "resolved") <=> (txn[r].row.resolvedAt # None)
  <2>1. txn[r] \in Su!Request /\ Writer(txn[r]) /\ txn[r].row # None /\ txn[r].op = op
    BY <1>11, <1>14 DEF Su!Writes, Su!Ends, Writer
  <2>2. txn[r].row = case[txn[r].case] /\ txn[r].case \in Su!Exist
    BY <1>0, <2>1 DEF Locked
  <2> QED  BY <1>0, <1>1, <2>1, <2>2 DEF SupportTypes, Su!Exist, Su!Request, Writer
<1>15. ASSUME NEW r \in Requests, Su!ReplyToCase(r)
       PROVE  SupportInvariant'
  <2> DEFINE q == txn[r]
             old == case[q.case]
             reached == Su!AfterReply(q.row.status)
             next == [old EXCEPT
               !.status = reached,
               !.resolvedAt = IF reached = "resolved" THEN q.row.resolvedAt ELSE None,
               !.reopened = q.row.reopened + IF q.row.status = "resolved" THEN 1 ELSE 0]
  <2>1. Su!Writes(r, "reply") /\ UNCHANGED <<isolation, clock>>
    BY <1>15 DEF Su!ReplyToCase
  <2>2. q.row = old /\ old \in Su!Case
    BY <1>14, <2>1
  <2>3. reached \in {"open", "in_progress"} /\ q.row.status \in Su!Statuses /\ q.row.reopened \in Nat
    BY <2>2 DEF Su!AfterReply, Su!Case, Su!Statuses
  <2>4. case' = [case EXCEPT ![q.case] = next] /\ Su!Written(q, "customer", reached)
    BY <1>15 DEF Su!ReplyToCase
  <2> HIDE DEF reached
  <2>6. /\ q.row.reopened + (IF q.row.status = "resolved" THEN 1 ELSE 0) \in Nat
        /\ (IF reached = "resolved" THEN q.row.resolvedAt ELSE None) = None
    BY <2>3
  <2>5. /\ next \in Su!Case /\ next.status = reached /\ next.resolvedAt = None
        /\ next.reopened = q.row.reopened + IF q.row.status = "resolved" THEN 1 ELSE 0
    <3> HIDE DEF old
    <3> QED  BY <2>2, <2>3, <2>6 DEF Su!Case, Su!Statuses
  <2> HIDE DEF next, q
  <2> QED  BY <1>13, <2>1, <2>3, <2>4, <2>5 DEF q
<1>16. ASSUME NEW r \in Requests, Su!StaffCaseUpdate(r)
       PROVE  SupportInvariant'
  <2> DEFINE q == txn[r]
             old == case[q.case]
             reached == IF q.status = None THEN q.row.status ELSE q.status
             next == [old EXCEPT
               !.status = reached,
               !.resolvedAt = Su!ResolvedAt(q.case, reached, q.now),
               !.reopened = @ + IF q.row.status = "resolved" /\ reached # "resolved" THEN 1 ELSE 0]
  <2>1. Su!Writes(r, "update") /\ UNCHANGED <<isolation, clock>>
    BY <1>16 DEF Su!StaffCaseUpdate
  <2>2. /\ q.row = old /\ old \in Su!Case /\ q.now \in Su!Stamps
        /\ q.status \in Su!Statuses \union {None}
        /\ (old.status = "resolved") <=> (old.resolvedAt # None)
    BY <1>14, <2>1
  <2>3. reached \in Su!Statuses /\ q.row.status \in Su!Statuses /\ q.row.reopened \in Nat
    BY <2>2 DEF Su!Case
  <2>4. case' = [case EXCEPT ![q.case] = next]
    BY <1>16 DEF Su!StaffCaseUpdate
  <2>8. Su!Written(q, "evercalm", reached)
    BY <1>16 DEF Su!StaffCaseUpdate
  <2>5. /\ Su!ResolvedAt(q.case, reached, q.now) \in Su!Stamps \union {None}
        /\ (reached = "resolved") <=> (Su!ResolvedAt(q.case, reached, q.now) # None)
        /\ reached = "resolved" => Su!ResolvedAt(q.case, reached, q.now)
                                    = IF old.status = "resolved" THEN old.resolvedAt ELSE q.now
    <3>1. q.now # None
      BY <2>2, NoneAssumption, SupportAssumption DEF Su!Stamps
    <3> QED  BY <2>2, <3>1 DEF Su!ResolvedAt, Su!Case
  <2> HIDE DEF reached
  <2>7. old.reopened + (IF q.row.status = "resolved" /\ reached # "resolved" THEN 1 ELSE 0) \in Nat
    BY <2>2, <2>3
  <2>6. /\ next \in Su!Case /\ next.status = reached
        /\ next.resolvedAt = Su!ResolvedAt(q.case, reached, q.now)
        /\ next.reopened = q.row.reopened
             + IF q.row.status = "resolved" /\ reached # "resolved" THEN 1 ELSE 0
    <3> HIDE DEF old
    <3> QED  BY <2>2, <2>3, <2>5, <2>7 DEF Su!Case
  <2> HIDE DEF next, q
  <2> QED  BY <1>13, <2>1, <2>2, <2>4, <2>5, <2>6, <2>8 DEF q
<1>17. CASE Su!StaffCaseAssign
  <2>1. PICK c \in Su!Exist, s \in Staff \union {None} :
          Su!LockedBy(c) = {} /\ case' = [case EXCEPT ![c].assigned = s]
    BY <1>17 DEF Su!StaffCaseAssign
  <2>2. UNCHANGED <<isolation, messages, txn, clock>>
    BY <1>17 DEF Su!StaffCaseAssign
  <2> DEFINE next == [case[c] EXCEPT !.assigned = s]
  <2>3. /\ next \in Su!Case /\ next.status = case[c].status
        /\ next.resolvedAt = case[c].resolvedAt /\ next.reopened = case[c].reopened
        /\ next # None
    <3>1. case[c] \in Su!Case
      BY <1>1 DEF Su!Exist
    <3>2. next \in Su!Case
      BY <3>1 DEF Su!Case
    <3> QED  BY <3>1, <3>2, NullAssumption DEF Su!Case
  <2>4. case' = [case EXCEPT ![c] = next]
    BY <2>1
  <2> HIDE DEF next
  <2>5. case'[c] = next /\ \A d \in Cases \ {c} : case'[d] = case[d]
    BY <1>1, <2>1, <2>4 DEF Su!Exist
  <2>6. Su!Exist' = Su!Exist
    BY <2>1, <2>3, <2>5 DEF Su!Exist
  <2>7. SupportTypes'
    <3>1. case' \in [Cases -> Su!Case \union {None}]
      BY <1>1, <2>3, <2>4
    <3>2. \A d \in Su!Exist : (case'[d].status = "resolved") <=> (case'[d].resolvedAt # None)
      BY <1>0, <2>1, <2>3, <2>5 DEF SupportTypes, Su!Exist
    <3> QED  BY <1>0, <2>2, <2>6, <3>1, <3>2 DEF SupportTypes
  <2>8. Locked'
    <3>1. \A q \in Requests : Writer(txn[q]) /\ txn[q].row # None => txn[q].case # c
      BY <2>1 DEF Su!LockedBy, Writer
    <3> QED  BY <1>0, <2>2, <2>5, <2>6, <3>1 DEF Locked, Writer, Su!Exist
  <2>9. InOrder'
    BY <1>0, <2>2 DEF InOrder, Su!Serial, Writer
  <2>10. \A d \in Su!Exist : Story(messages[d], case'[d])
    BY <2>3, <2>5 DEF SupportInvariant, Story, Su!Exist
  <2> QED  BY <2>2, <2>6, <2>7, <2>8, <2>9, <2>10 DEF SupportInvariant
<1> QED  BY <1>2, <1>4, <1>6, <1>7, <1>8, <1>9, <1>10, <1>12, <1>15, <1>16, <1>17 DEF Su!Next

-----------------------------------------------------------------------------
(* The rate limit *)

Least(m, n) == IF m <= n THEN m ELSE n

\* Where the current window's first call is among those let through.
FirstOfWindow == Len(allowed) + 1 - Least(limit.count, Allowance)

RateTypes ==
  /\ clock \in Nat
  /\ limit \in [started : Nat, count : Nat \ {0}] \union {None}
  /\ now = [c \in Calls |-> now[c]]
  /\ \A c \in Calls : now[c] # None => now[c] \in Nat /\ now[c] <= clock /\ clock <= now[c] + Wait
  /\ allowed \in Seq(Nat)

\* What was let through lands in order; the current window's first call landed soon after it
\* began, and what is as many calls before as a window allows, long before.
Spaced ==
  /\ \A j, k \in DOMAIN allowed : j <= k => allowed[j] <= allowed[k] /\ allowed[k] <= clock
  /\ limit # None =>
       /\ FirstOfWindow \in DOMAIN allowed
       /\ allowed[FirstOfWindow] <= limit.started + Wait
       /\ limit.started <= clock
       /\ \A k \in DOMAIN allowed :
            k + Allowance <= FirstOfWindow => allowed[k] + Window <= limit.started + Wait
  /\ limit = None =>
       \A k \in DOMAIN allowed : k + Allowance <= Len(allowed) + 1 => allowed[k] + Window <= clock
  /\ \A j, k \in DOMAIN allowed :
       j + 2 * Allowance <= k + 1 => allowed[j] + Window <= allowed[k] + Wait

RateInvariant == RateTypes /\ Spaced

LEMMA RateInit == Rl!Init => RateInvariant
BY DEF Rl!Init, RateInvariant, RateTypes, Spaced

\* One more call is let through now, the count-th of its window.
LEMMA OneMoreCall ==
  ASSUME RateInvariant, limit' # None, limit' \in [started : Nat, count : Nat \ {0}],
         clock' = clock, allowed' = Append(allowed, clock), limit'.count <= Allowance,
         limit'.started <= clock, clock <= limit'.started + Wait \/ limit'.count # 1,
         \/ limit'.count = 1 /\ \A k \in DOMAIN allowed : k + Allowance <= Len(allowed) + 1 =>
              allowed[k] + Window <= limit'.started + Wait
         \/ limit # None /\ limit'.started = limit.started /\ limit'.count = limit.count + 1
  PROVE  Spaced'
<1> DEFINE n == Len(allowed)
           f == n + 2 - limit'.count
<1>1. /\ n \in Nat /\ DOMAIN allowed = 1..n /\ allowed \in Seq(Nat)
      /\ DOMAIN allowed' = 1..n + 1 /\ Len(allowed') = n + 1
      /\ \A k \in 1..n : allowed'[k] = allowed[k] /\ allowed[k] \in Nat
      /\ allowed'[n + 1] = clock /\ clock \in Nat
  BY DEF RateInvariant, RateTypes
<1>2. {Allowance, Window, Wait} \subseteq Nat /\ Allowance # 0
  BY RateLimitsAssumption
<1>3. limit'.count \in Nat /\ limit'.count # 0 /\ limit'.started \in Nat
  OBVIOUS
<1>4. FirstOfWindow' = f
  BY <1>1, <1>2, <1>3 DEF FirstOfWindow, Least
<1>5. /\ f \in 1..n + 1 /\ allowed'[f] <= limit'.started + Wait
      /\ \A k \in 1..n : k + Allowance <= f => allowed[k] + Window <= limit'.started + Wait
  <2>1. CASE limit'.count = 1 /\ \A k \in DOMAIN allowed : k + Allowance <= Len(allowed) + 1 =>
              allowed[k] + Window <= limit'.started + Wait
    <3>1. f = n + 1 /\ clock <= limit'.started + Wait
      BY <1>1, <2>1
    <3> HIDE DEF f
    <3> QED  BY SMTT(60), <1>1, <2>1, <3>1
  <2>2. CASE limit # None /\ limit'.started = limit.started /\ limit'.count = limit.count + 1
    <3>1. limit.count \in Nat /\ limit.count # 0
      BY <2>2 DEF RateInvariant, RateTypes
    <3>2. FirstOfWindow = f
      BY <1>1, <1>2, <2>2, <3>1 DEF FirstOfWindow, Least
    <3>3. /\ f \in 1..n /\ allowed[f] <= limit.started + Wait
          /\ \A k \in 1..n : k + Allowance <= f => allowed[k] + Window <= limit.started + Wait
      BY <1>1, <2>2, <3>2 DEF RateInvariant, Spaced
    <3> HIDE DEF f, n
    <3> QED  BY <1>1, <2>2, <3>3
  <2> QED  BY <2>1, <2>2
<1>6. f + Allowance >= n + 2
  BY <1>1, <1>2, <1>3
<1> HIDE DEF n, f
<1>7. \A j, k \in 1..n + 1 : j <= k => allowed'[j] <= allowed'[k] /\ allowed'[k] <= clock
  <2>1. \A j, k \in 1..n : j <= k => allowed[j] <= allowed[k] /\ allowed[k] <= clock
    BY <1>1 DEF RateInvariant, Spaced
  <2> QED  BY <1>1, <2>1
<1>8. \A k \in 1..n + 1 : k + Allowance <= f => allowed'[k] + Window <= limit'.started + Wait
  BY <1>1, <1>2, <1>5
<1>9. ASSUME NEW j \in 1..n + 1, NEW k \in 1..n + 1, j + 2 * Allowance <= k + 1
      PROVE  allowed'[j] + Window <= allowed'[k] + Wait
  <2>1. j \in 1..n
    BY <1>1, <1>2, <1>9
  <2>2. CASE k = n + 1
    <3>1. j + Allowance <= f
      BY SMTT(60), <1>1, <1>2, <1>5, <1>6, <1>9, <2>2
    <3>2. allowed[j] + Window <= limit'.started + Wait
      BY <1>5, <2>1, <3>1
    <3> QED  BY SMTT(60), <1>1, <1>2, <1>3, <2>1, <2>2, <3>2
  <2>3. CASE k \in 1..n
    BY <1>1, <1>9, <2>1, <2>3 DEF RateInvariant, Spaced
  <2> QED  BY <1>1, <2>2, <2>3
<1> QED  BY <1>1, <1>4, <1>5, <1>7, <1>8, <1>9 DEF Spaced

LEMMA RateStep ==
  ASSUME RateInvariant, Rl!Next \/ UNCHANGED <<clock, limit, now, allowed>>
  PROVE  RateInvariant'
<1>0. {Allowance, Window, Day, Wait} \subseteq Nat /\ Allowance # 0 /\ Wait < Window /\ Window + Wait <= Day
  BY RateLimitsAssumption
<1>1. /\ clock \in Nat /\ limit \in [started : Nat, count : Nat \ {0}] \union {None}
      /\ allowed \in Seq(Nat) /\ DOMAIN allowed = 1..Len(allowed) /\ Len(allowed) \in Nat
      /\ \A k \in DOMAIN allowed : allowed[k] \in Nat
  BY DEF RateInvariant, RateTypes
<1>2. CASE UNCHANGED <<clock, limit, now, allowed>>
  BY <1>2 DEF RateInvariant, RateTypes, Spaced, FirstOfWindow
<1>3. CASE Rl!TimePasses
  <2>1. clock' = clock + 1 /\ UNCHANGED <<limit, now, allowed>>
        /\ \A c \in Calls : now[c] # None => clock' <= now[c] + Wait
    BY <1>3 DEF Rl!TimePasses, Rl!Under
  <2>2. RateTypes'
    <3>1. ASSUME NEW c \in Calls, now[c] # None
          PROVE  now[c] \in Nat /\ now[c] <= clock + 1 /\ clock + 1 <= now[c] + Wait
      <4>1. now[c] \in Nat /\ now[c] <= clock
        BY <3>1 DEF RateInvariant, RateTypes
      <4> QED  BY <1>1, <2>1, <3>1, <4>1
    <3> QED  BY <1>1, <2>1, <3>1 DEF RateInvariant, RateTypes
  <2>3. Spaced'
    <3>1. \A x \in Nat : x <= clock => x <= clock'
      BY <1>1, <2>1
    <3>2. FirstOfWindow' = FirstOfWindow
      BY <2>1 DEF FirstOfWindow
    <3>3. limit # None => limit.started \in Nat
      BY <1>1
    <3>4. \A k \in DOMAIN allowed : allowed[k] + Window \in Nat
      BY <1>0, <1>1
    <3> QED  BY <1>1, <2>1, <3>1, <3>2, <3>3, <3>4 DEF RateInvariant, Spaced
  <2> QED  BY <2>2, <2>3 DEF RateInvariant
<1>4. ASSUME UNCHANGED <<clock, limit, allowed>>
      PROVE  Spaced'
  BY <1>4 DEF RateInvariant, Spaced, FirstOfWindow
<1>5. ASSUME NEW c \in Calls, Rl!Call(c)
      PROVE  RateInvariant'
  <2>1. now' = [now EXCEPT ![c] = clock] /\ UNCHANGED <<clock, limit, allowed>>
    BY <1>5 DEF Rl!Call
  <2>2. RateTypes'
    <3>1. clock <= clock /\ clock <= clock + Wait
      BY <1>0, <1>1
    <3>2. now' = [d \in Calls |-> now'[d]]
      BY <2>1 DEF RateInvariant, RateTypes
    <3>3. \A d \in Calls : now'[d] # None =>
            now'[d] \in Nat /\ now'[d] <= clock /\ clock <= now'[d] + Wait
      BY <1>1, <2>1, <3>1 DEF RateInvariant, RateTypes
    <3> QED  BY <1>1, <2>1, <3>2, <3>3 DEF RateTypes
  <2> QED  BY <1>4, <2>1, <2>2 DEF RateInvariant
<1>6. ASSUME NEW c \in Calls, Rl!Lands(c), clock' = clock
      PROVE  /\ now' = [d \in Calls |-> now'[d]]
             /\ \A d \in Calls : now'[d] # None =>
                  now'[d] \in Nat /\ now'[d] <= clock' /\ clock' <= now'[d] + Wait
  BY <1>6 DEF RateInvariant, RateTypes, Rl!Lands
<1>7. ASSUME NEW c \in Calls, Rl!FailsOpen(c)
      PROVE  RateInvariant'
  <2>1. UNCHANGED <<clock, limit, allowed>> /\ Rl!Lands(c)
    BY <1>7 DEF Rl!FailsOpen
  <2> QED  BY <1>1, <1>4, <1>6, <2>1 DEF RateInvariant, RateTypes
<1>8. CASE Rl!PruneRateLimits
  <2>1. /\ limit # None /\ limit.started + Day < clock /\ limit' = None
        /\ UNCHANGED <<clock, now, allowed>>
    BY <1>8 DEF Rl!PruneRateLimits, Rl!IsOld
  <2>2. RateTypes'
    BY <2>1 DEF RateInvariant, RateTypes
  <2>3. ASSUME NEW k \in DOMAIN allowed, k + Allowance <= Len(allowed) + 1
        PROVE  allowed[k] + Window <= clock
    <3> DEFINE f == FirstOfWindow
    <3>1. limit.count \in Nat /\ limit.started \in Nat
      BY <1>1, <2>1
    <3>2. k <= f /\ f \in DOMAIN allowed /\ allowed[f] <= limit.started + Wait
      <4>1. f \in DOMAIN allowed /\ allowed[f] <= limit.started + Wait
        BY <2>1 DEF RateInvariant, Spaced
      <4>2. k <= f
        <5>1. Least(limit.count, Allowance) \in Nat /\ Least(limit.count, Allowance) <= Allowance
          BY <1>0, <3>1 DEF Least
        <5>2. k \in Nat
          BY <1>1
        <5> QED  BY <1>0, <1>1, <2>3, <5>1, <5>2 DEF FirstOfWindow
      <4> QED  BY <4>1, <4>2
    <3> HIDE DEF f
    <3>3. allowed[k] <= allowed[f]
      BY <3>2 DEF RateInvariant, Spaced
    <3>4. allowed[k] \in Nat /\ allowed[f] \in Nat
      BY <1>1, <3>2
    <3>5. allowed[k] + Window <= limit.started + Day
      BY <1>0, <3>1, <3>2, <3>3, <3>4
    <3> QED  BY <1>0, <1>1, <2>1, <3>1, <3>4, <3>5
  <2> QED  BY <2>1, <2>2, <2>3 DEF RateInvariant, Spaced
<1>9. ASSUME NEW c \in Calls, Rl!ConsumeRateLimit(c)
      PROVE  RateInvariant'
  <2>1. /\ Rl!Lands(c) /\ clock' = clock
        /\ limit' = IF Rl!IsOver(now[c]) THEN [started |-> now[c], count |-> 1] ELSE Rl!Incremented
        /\ allowed' = IF limit'.count <= Allowance THEN Append(allowed, clock) ELSE allowed
    BY <1>9 DEF Rl!ConsumeRateLimit
  <2>2. now[c] \in Nat /\ now[c] <= clock /\ clock <= now[c] + Wait
    BY <2>1 DEF Rl!Lands, RateInvariant, RateTypes
  <2>3. /\ limit' \in [started : Nat, count : Nat \ {0}] /\ limit'.started <= clock
        /\ ~Rl!IsOver(now[c]) => /\ limit # None /\ limit'.started = limit.started
                                 /\ limit'.count = limit.count + 1
        /\ Rl!IsOver(now[c]) => limit'.started = now[c] /\ limit'.count = 1
    <3>1. CASE Rl!IsOver(now[c])
      BY <2>1, <2>2, <3>1
    <3>2. CASE ~Rl!IsOver(now[c])
      <4>1. limit # None /\ limit \in [started : Nat, count : Nat \ {0}] /\ limit.started <= clock
        BY <1>1, <3>2 DEF Rl!IsOver, RateInvariant, Spaced
      <4>2. limit' = [started |-> limit.started, count |-> limit.count + 1]
        BY <2>1, <3>2 DEF Rl!Incremented
      <4>3. limit.count + 1 \in Nat \ {0}
        BY <4>1
      <4> QED  BY <3>2, <4>1, <4>2, <4>3
    <3> QED  BY <3>1, <3>2
  <2>4. limit' # None
    BY SMTT(60), <2>3, NullAssumption
  <2>5. allowed' \in Seq(Nat)
    <3>1. Append(allowed, clock) \in Seq(Nat)
      BY SMTT(60), <1>1
    <3> QED  BY <1>1, <2>1, <3>1
  <2>6. RateTypes'
    BY <1>1, <1>6, <2>1, <2>3, <2>5 DEF RateTypes
  <2>7. ASSUME Rl!IsOver(now[c]), NEW k \in DOMAIN allowed, k + Allowance <= Len(allowed) + 1
        PROVE  allowed[k] + Window <= limit'.started + Wait
    <3>1. CASE limit = None
      <4>1. allowed[k] + Window <= clock
        BY <2>7, <3>1 DEF RateInvariant, Spaced
      <4> QED  BY SMTT(60), <1>0, <1>1, <2>2, <2>3, <2>7, <4>1
    <3>2. CASE limit # None
      <4> DEFINE f == FirstOfWindow
      <4>1. limit.count \in Nat /\ limit.started \in Nat
        BY <1>1, <3>2
      <4>2. f \in DOMAIN allowed /\ allowed[f] <= limit.started + Wait
        BY <3>2 DEF RateInvariant, Spaced
      <4>3. k <= f
        BY SMTT(60), <1>0, <1>1, <2>7, <4>1 DEF FirstOfWindow, Least
      <4> HIDE DEF f
      <4>4. allowed[k] <= allowed[f]
        BY <4>2, <4>3 DEF RateInvariant, Spaced
      <4>5. limit.started + Window <= now[c]
        BY <2>7, <3>2 DEF Rl!IsOver
      <4>6. allowed[k] \in Nat /\ allowed[f] \in Nat /\ limit'.started = now[c]
        BY <1>1, <2>3, <2>7, <4>2
      <4> QED  BY <1>0, <2>2, <4>1, <4>2, <4>4, <4>5, <4>6
    <3> QED  BY <3>1, <3>2
  <2>8. CASE limit'.count <= Allowance
    <3>1. allowed' = Append(allowed, clock)
      BY <2>1, <2>8
    <3>2. \/ limit'.count = 1 /\ \A k \in DOMAIN allowed : k + Allowance <= Len(allowed) + 1 =>
               allowed[k] + Window <= limit'.started + Wait
          \/ limit # None /\ limit'.started = limit.started /\ limit'.count = limit.count + 1
      BY <2>3, <2>7
    <3>3. clock <= limit'.started + Wait \/ limit'.count # 1
      <4>1. CASE Rl!IsOver(now[c])
        BY <2>2, <2>3, <4>1
      <4>2. CASE ~Rl!IsOver(now[c])
        BY <1>1, <2>3, <4>2
      <4> QED  BY <4>1, <4>2
    <3> QED  BY <2>1, <2>3, <2>4, <2>6, <2>8, <3>1, <3>2, <3>3, OneMoreCall DEF RateInvariant
  <2>9. CASE ~(limit'.count <= Allowance)
    <3>1. allowed' = allowed /\ limit # None /\ limit'.started = limit.started
          /\ limit'.count = limit.count + 1
      BY <1>0, <2>1, <2>3, <2>9
    <3>2. limit.count \in Nat /\ Allowance <= limit.count
      BY <1>0, <1>1, <2>3, <2>9, <3>1
    <3>3. FirstOfWindow' = FirstOfWindow
      BY <1>0, <1>1, <3>1, <3>2 DEF FirstOfWindow, Least
    <3>4. Spaced'
      BY <2>1, <2>4, <3>1, <3>3 DEF RateInvariant, Spaced
    <3> QED  BY <2>6, <3>4 DEF RateInvariant
  <2> QED  BY <2>8, <2>9
<1> QED  BY <1>2, <1>3, <1>5, <1>7, <1>8, <1>9 DEF Rl!Next

LEMMA RateCount == ASSUME NEW S PROVE Rl!Cardinality(S) = Cardinality(S)
BY DEF Rl!Cardinality, Cardinality

LEMMA RateBounded == RateInvariant => Rl!BurstIsBounded
<1> SUFFICES ASSUME RateInvariant, NEW t \in Rl!Instants
             PROVE  Rl!Through(t..(t + Window - Wait - 1)) < 2 * Allowance
  BY DEF Rl!BurstIsBounded
<1> DEFINE S == {k \in DOMAIN allowed : allowed[k] \in t..(t + Window - Wait - 1)}
           R == {ss \in Nat \X Nat : ss[1] < ss[2]}
<1>0. {Allowance, Window, Wait} \subseteq Nat /\ Allowance # 0 /\ Wait < Window /\ t \in Nat
  BY RateLimitsAssumption DEF Rl!Instants
<1>1. Rl!Through(t..(t + Window - Wait - 1)) = Cardinality(S)
  BY RateCount DEF Rl!Through
<1>2. /\ DOMAIN allowed = 1..Len(allowed) /\ Len(allowed) \in Nat
      /\ \A k \in DOMAIN allowed : allowed[k] \in Nat
  BY DEF RateInvariant, RateTypes
<1>3. CASE S = {}
  <2>1. Cardinality(S) = 0
    BY <1>3, FS_EmptySet
  <2>2. 0 < 2 * Allowance
    BY <1>0
  <2> QED  BY <1>1, <2>1, <2>2
<1>4. CASE S # {}
  <2>1. S \in SUBSET Nat
    BY <1>2
  <2>2. IsWellFoundedOn(R, Nat)
    BY NatLessThanWellFounded DEF OpToRel
  <2>3. PICK a \in S : \A k \in S : <<k, a>> \notin R
    BY <1>4, <2>1, <2>2, WFMin
  <2> DEFINE last == a + 2 * Allowance - 1
  <2>4. a \in Nat /\ a \in 1..Len(allowed) /\ last \in Nat
    BY <1>0, <1>2, <2>3
  <2>5. ASSUME NEW k \in S
        PROVE  k \in a..last - 1
    <3>1. k \in Nat /\ a <= k /\ k \in 1..Len(allowed)
      <4>1. k \in Nat /\ k \in 1..Len(allowed) /\ <<k, a>> \notin R
        BY <1>2, <2>3, <2>5
      <4> QED  BY <2>4, <4>1
    <3>2. CASE last <= k
      <4>1. allowed[a] + Window <= allowed[last] + Wait /\ allowed[last] <= allowed[k]
        <5>1. last \in DOMAIN allowed /\ k \in DOMAIN allowed /\ a \in DOMAIN allowed
          BY SMTT(60), <1>0, <1>2, <2>4, <3>1, <3>2
        <5>2. a + 2 * Allowance <= last + 1
          <6> DEFINE two == 2 * Allowance
          <6>1. two \in Nat
            BY <1>0
          <6> HIDE DEF two
          <6>2. a + two <= a + two - 1 + 1
            BY <2>4, <6>1
          <6> QED  BY <6>2 DEF two
        <5> HIDE DEF last
        <5> QED  BY <3>2, <5>1, <5>2 DEF RateInvariant, Spaced
      <4>2. /\ t <= allowed[a] /\ allowed[k] <= t + Window - Wait - 1
            /\ allowed[a] \in Nat /\ allowed[k] \in Nat /\ allowed[last] \in Nat
        <5>1. allowed[a] \in t..(t + Window - Wait - 1) /\ allowed[k] \in t..(t + Window - Wait - 1)
          BY <2>3, <2>5
        <5>2. last \in DOMAIN allowed
          BY SMTT(60), <1>0, <1>2, <2>4, <3>1, <3>2
        <5> QED  BY <1>2, <2>3, <2>5, <5>1, <5>2
      <4> QED  BY <1>0, <4>1, <4>2
    <3>3. CASE ~(last <= k)
      BY <2>4, <3>1, <3>3
    <3> QED  BY <3>2, <3>3
  <2>6. /\ IsFiniteSet(a..last - 1)
        /\ Cardinality(a..last - 1) = 2 * Allowance - 1
    <3>1. a \in Int /\ last - 1 \in Int /\ a <= last - 1 /\ last - 1 - a + 1 = 2 * Allowance - 1
      <4> DEFINE two == 2 * Allowance
      <4>1. two \in Nat /\ two >= 2 /\ last = a + two - 1
        BY <1>0
      <4> HIDE DEF two, last
      <4>2. a \in Int /\ last - 1 \in Int /\ a <= last - 1 /\ last - 1 - a + 1 = two - 1
        BY <2>4, <4>1
      <4> QED  BY <4>2 DEF two
    <3> HIDE DEF last
    <3>2. IsFiniteSet(a..last - 1) /\ Cardinality(a..last - 1) = last - 1 - a + 1
      BY <3>1, FS_Interval
    <3> QED  BY <3>1, <3>2
  <2>7. Cardinality(S) <= 2 * Allowance - 1 /\ Cardinality(S) \in Nat
    <3>1. S \subseteq a..last - 1
      BY <2>5
    <3> HIDE DEF S, last
    <3> DEFINE I == a..last - 1
    <3>2. IsFiniteSet(I) /\ Cardinality(I) = 2 * Allowance - 1 /\ S \subseteq I
      BY <2>6, <3>1
    <3> HIDE DEF I
    <3>3. IsFiniteSet(S) /\ Cardinality(S) <= Cardinality(I)
      BY ZenonT(60), <3>2, FS_Subset
    <3>4. Cardinality(S) \in Nat
      BY ZenonT(60), <3>3, FS_CardinalityType
    <3> QED  BY <3>2, <3>3, <3>4
  <2> QED  BY <1>0, <1>1, <2>7
<1> QED  BY <1>3, <1>4

-----------------------------------------------------------------------------
(* Files: what the loop has collected is, at every character, what the rules say of the text     *)
(* before it; and of a text that was written, what was written of it so far.                     *)

LEMMA FileCount == ASSUME NEW S PROVE Cs!Cardinality(S) = Cardinality(S)
BY DEF Cs!Cardinality, Cardinality

Texts == Seq(Cs!Alphabet)

\* A set of places before n, and what one more place does to how many they are.
LEMMA PlacesBefore ==
  ASSUME NEW n \in Nat, NEW S \in SUBSET (1..n)
  PROVE  IsFiniteSet(S) /\ Cs!Cardinality(S) \in Nat
<1>1. IsFiniteSet(1..n)
  BY FS_Interval
<1> QED  BY <1>1, FS_Subset, FS_CardinalityType, FileCount

LEMMA OneMorePlace ==
  ASSUME NEW n \in Nat, NEW S \in SUBSET (1..n), NEW k, k \notin S
  PROVE  Cs!Cardinality(S \union {k}) = Cs!Cardinality(S) + 1
<1>1. IsFiniteSet(S)
  BY PlacesBefore
<1>2. Cardinality(S \union {k}) = Cardinality(S) + 1
  BY <1>1, FS_AddElement
<1> QED  BY <1>2, FileCount

LEMMA FewerPlaces ==
  ASSUME NEW n \in Nat, NEW S \in SUBSET (1..n), NEW R \in SUBSET S
  PROVE  Cs!Cardinality(R) <= Cs!Cardinality(S)
<1>1. IsFiniteSet(S)
  BY PlacesBefore
<1> QED  BY <1>1, FS_Subset, FileCount

\* Reading on from a place: whether it is inside quotes, and how many rows, cells and characters
\* there are before the next.
LEMMA InsideNext ==
  ASSUME NEW n \in Nat \ {0}
  PROVE  /\ Cs!QuotesBefore(n) \in Nat
         /\ Cs!Inside(n + 1) <=> (Cs!Inside(n) <=> text[n] # Cs!Quote)
<1> DEFINE S == {j \in 1..n - 1 : text[j] = Cs!Quote}
           R == {j \in 1..(n + 1) - 1 : text[j] = Cs!Quote}
<1>1. S \in SUBSET (1..n - 1) /\ n - 1 \in Nat /\ n \notin S
  OBVIOUS
<1>2. R = IF text[n] = Cs!Quote THEN S \union {n} ELSE S
  BY n - 1 + 1 = n, \A j \in Nat : j \in 1..(n + 1) - 1 <=> j \in 1..n - 1 \/ j = n
<1> HIDE DEF S, R
<1>3. Cs!Cardinality(S) \in Nat /\ Cs!Cardinality(R) =
         IF text[n] = Cs!Quote THEN Cs!Cardinality(S) + 1 ELSE Cs!Cardinality(S)
  BY <1>1, <1>2, PlacesBefore, OneMorePlace
<1>4. Cs!QuotesBefore(n) = Cs!Cardinality(S) /\ Cs!QuotesBefore(n + 1) = Cs!Cardinality(R)
  BY DEF Cs!QuotesBefore, S, R
<1> QED  BY <1>3, <1>4 DEF Cs!Inside

LEMMA EndsNext ==
  ASSUME NEW n \in Nat \ {0}, NEW separator
  PROVE  /\ Cs!Ends(separator, n) \in SUBSET (1..n - 1)
         /\ Cs!Ends(separator, n + 1) =
              IF text[n] = separator /\ ~Cs!Inside(n) THEN Cs!Ends(separator, n) \union {n} ELSE Cs!Ends(separator, n)
BY \A j \in Nat : j \in 1..(n + 1) - 1 <=> j \in 1..n - 1 \/ j = n DEF Cs!Ends

LEMMA RowNext ==
  ASSUME NEW n \in Nat \ {0}
  PROVE  /\ Cs!RowOf(n) \in Nat \ {0}
         /\ Cs!RowOf(n + 1) = IF text[n] = Cs!Lf /\ ~Cs!Inside(n) THEN Cs!RowOf(n) + 1 ELSE Cs!RowOf(n)
<1> DEFINE S == Cs!Ends(Cs!Lf, n)
           R == Cs!Ends(Cs!Lf, n + 1)
<1>1. n - 1 \in Nat /\ n \notin S /\ S \in SUBSET (1..n - 1)
  BY DEF Cs!Ends
<1>2. R = IF text[n] = Cs!Lf /\ ~Cs!Inside(n) THEN S \union {n} ELSE S
  BY EndsNext
<1>3. Cs!RowOf(n) = Cs!Cardinality(S) + 1 /\ Cs!RowOf(n + 1) = Cs!Cardinality(R) + 1
  BY DEF Cs!RowOf
<1> HIDE DEF S, R
<1>4. Cs!Cardinality(S) \in Nat
      /\ Cs!Cardinality(R) = IF text[n] = Cs!Lf /\ ~Cs!Inside(n) THEN Cs!Cardinality(S) + 1 ELSE Cs!Cardinality(S)
  BY <1>1, <1>2, PlacesBefore, OneMorePlace
<1> QED  BY <1>3, <1>4

LEMMA CellsNext ==
  ASSUME NEW n \in Nat \ {0}, NEW r
  PROVE  /\ Cs!CellsOf(r, n) \in Nat \ {0}
         /\ Cs!CellsOf(r, n + 1) =
              IF text[n] = Cs!Comma /\ ~Cs!Inside(n) /\ Cs!RowOf(n) = r THEN Cs!CellsOf(r, n) + 1
                 ELSE Cs!CellsOf(r, n)
<1> DEFINE S == {k \in Cs!Ends(Cs!Comma, n) : Cs!RowOf(k) = r}
           R == {k \in Cs!Ends(Cs!Comma, n + 1) : Cs!RowOf(k) = r}
<1>1. n - 1 \in Nat /\ n \notin S /\ S \in SUBSET (1..n - 1)
  BY EndsNext DEF Cs!Ends
<1>2. R = IF text[n] = Cs!Comma /\ ~Cs!Inside(n) /\ Cs!RowOf(n) = r THEN S \union {n} ELSE S
  <2>1. Cs!Ends(Cs!Comma, n + 1) =
          IF text[n] = Cs!Comma /\ ~Cs!Inside(n) THEN Cs!Ends(Cs!Comma, n) \union {n} ELSE Cs!Ends(Cs!Comma, n)
    BY EndsNext
  <2> QED  BY <2>1
<1> HIDE DEF S, R
<1>3. Cs!Cardinality(S) \in Nat
      /\ Cs!Cardinality(R) =
           IF text[n] = Cs!Comma /\ ~Cs!Inside(n) /\ Cs!RowOf(n) = r
           THEN Cs!Cardinality(S) + 1 ELSE Cs!Cardinality(S)
  BY <1>1, <1>2, PlacesBefore, OneMorePlace
<1>4. Cs!CellsOf(r, n) = Cs!Cardinality(S) + 1 /\ Cs!CellsOf(r, n + 1) = Cs!Cardinality(R) + 1
  BY DEF Cs!CellsOf, S, R
<1> QED  BY <1>3, <1>4

LEMMA ContentNext ==
  ASSUME NEW n \in Nat \ {0}, NEW r, NEW c
  PROVE  /\ Cs!Of(r, c, n) \in SUBSET (1..n - 1) /\ Cs!Cardinality(Cs!Of(r, c, n)) \in Nat
         /\ Cs!Cardinality(Cs!Of(r, c, n + 1)) =
              IF Cs!IsContent(n) /\ Cs!RowOf(n) = r /\ Cs!CellOf(n) = c
              THEN Cs!Cardinality(Cs!Of(r, c, n)) + 1 ELSE Cs!Cardinality(Cs!Of(r, c, n))
<1>1. n - 1 \in Nat /\ n \notin Cs!Of(r, c, n) /\ Cs!Of(r, c, n) \in SUBSET (1..n - 1)
  BY DEF Cs!Of
<1>2. Cs!Of(r, c, n + 1) =
        IF Cs!IsContent(n) /\ Cs!RowOf(n) = r /\ Cs!CellOf(n) = c
        THEN Cs!Of(r, c, n) \union {n} ELSE Cs!Of(r, c, n)
  BY \A j \in Nat : j \in 1..(n + 1) - 1 <=> j \in 1..n - 1 \/ j = n DEF Cs!Of
<1> QED  BY <1>1, <1>2, PlacesBefore, OneMorePlace

\* What comes earlier is in an earlier row, or in the same one and no later cell.
LEMMA RowsInOrder ==
  ASSUME NEW k \in Nat \ {0}, NEW n \in Nat \ {0}, k <= n, NEW r
  PROVE  /\ Cs!RowOf(k) <= Cs!RowOf(n) /\ Cs!CellsOf(r, k) <= Cs!CellsOf(r, n)
         /\ Cs!CellOf(k) \in 1..Cs!CellsOf(Cs!RowOf(k), n)
<1>1. n - 1 \in Nat /\ Cs!Ends(Cs!Lf, n) \in SUBSET (1..n - 1) /\ Cs!Ends(Cs!Lf, k) \in SUBSET Cs!Ends(Cs!Lf, n)
  BY DEF Cs!Ends
<1>2. Cs!RowOf(k) <= Cs!RowOf(n)
  <2>1. Cs!Cardinality(Cs!Ends(Cs!Lf, k)) <= Cs!Cardinality(Cs!Ends(Cs!Lf, n))
    BY <1>1, FewerPlaces
  <2>2. Cs!Cardinality(Cs!Ends(Cs!Lf, n)) \in Nat
    BY <1>1, PlacesBefore
  <2>3. Cs!Cardinality(Cs!Ends(Cs!Lf, k)) \in Nat
    BY <1>1, PlacesBefore
  <2> QED  BY <2>1, <2>2, <2>3 DEF Cs!RowOf
<1>3. ASSUME NEW q PROVE Cs!CellsOf(q, k) <= Cs!CellsOf(q, n)
  <2> DEFINE S == {j \in Cs!Ends(Cs!Comma, n) : Cs!RowOf(j) = q}
             R == {j \in Cs!Ends(Cs!Comma, k) : Cs!RowOf(j) = q}
  <2>1. S \in SUBSET (1..n - 1) /\ R \in SUBSET S
    BY DEF Cs!Ends
  <2>2. Cs!CellsOf(q, n) = Cs!Cardinality(S) + 1 /\ Cs!CellsOf(q, k) = Cs!Cardinality(R) + 1
    BY DEF Cs!CellsOf
  <2> HIDE DEF S, R
  <2>3. Cs!Cardinality(R) <= Cs!Cardinality(S) /\ Cs!Cardinality(S) \in Nat
    BY <1>1, <2>1, FewerPlaces, PlacesBefore
  <2>4. Cs!Cardinality(R) \in Nat
    BY <1>1, <2>1, PlacesBefore
  <2> QED  BY <2>2, <2>3, <2>4
<1>4. Cs!CellOf(k) = Cs!CellsOf(Cs!RowOf(k), k) /\ Cs!CellsOf(Cs!RowOf(k), k) \in Nat \ {0}
         /\ Cs!CellsOf(Cs!RowOf(k), n) \in Nat
  BY CellsNext DEF Cs!CellOf
<1> QED  BY <1>2, <1>3, <1>4

\* Nothing is yet beyond where the text has come to.
LEMMA NothingBeyond ==
  ASSUME NEW n \in Nat \ {0}, NEW r \in Nat \ {0}, NEW c \in Nat \ {0}
  PROVE  /\ r > Cs!RowOf(n) => Cs!CellsOf(r, n) = 1
         /\ r > Cs!RowOf(n) \/ (r = Cs!RowOf(n) /\ c > Cs!CellOf(n)) => Cs!Cardinality(Cs!Of(r, c, n)) = 0
<1>1. \A k \in 1..n - 1 : k \in Nat \ {0} /\ Cs!RowOf(k) <= Cs!RowOf(n) /\ Cs!RowOf(k) \in Nat
  <2>1. ASSUME NEW k \in 1..n - 1
        PROVE  k \in Nat \ {0} /\ Cs!RowOf(k) <= Cs!RowOf(n) /\ Cs!RowOf(k) \in Nat
    <3>1. k \in Nat \ {0} /\ k <= n
      OBVIOUS
    <3> QED  BY <3>1, RowsInOrder, RowNext
  <2> QED  BY <2>1
<1>2. Cs!RowOf(n) \in Nat
  BY RowNext
<1>3. ASSUME r > Cs!RowOf(n) PROVE Cs!CellsOf(r, n) = 1
  <2>1. {k \in Cs!Ends(Cs!Comma, n) : Cs!RowOf(k) = r} = {}
    BY <1>1, <1>2, <1>3 DEF Cs!Ends
  <2>2. Cs!Cardinality({}) = 0
    BY FS_EmptySet, FileCount
  <2> QED  BY <2>1, <2>2 DEF Cs!CellsOf
<1>4. ASSUME r > Cs!RowOf(n) \/ (r = Cs!RowOf(n) /\ c > Cs!CellOf(n))
      PROVE  Cs!Cardinality(Cs!Of(r, c, n)) = 0
  <2>1. \A k \in 1..n - 1 : Cs!CellOf(k) \in 1..Cs!CellsOf(Cs!RowOf(k), n)
    <3>1. \A k \in 1..n - 1 : k \in Nat \ {0} /\ k <= n
      OBVIOUS
    <3> QED  BY <3>1, RowsInOrder
  <2>2. Cs!CellOf(n) = Cs!CellsOf(Cs!RowOf(n), n) /\ Cs!CellsOf(Cs!RowOf(n), n) \in Nat
    BY CellsNext DEF Cs!CellOf
  <2>3. Cs!Of(r, c, n) = {}
    BY <1>1, <1>2, <1>4, <2>1, <2>2 DEF Cs!Of
  <2>4. Cs!Cardinality({}) = 0
    BY FS_EmptySet, FileCount
  <2> QED  BY <2>3, <2>4
<1> QED  BY <1>3, <1>4

\* A content character's place is among those of its cell.
LEMMA PlaceKnown ==
  ASSUME NEW n \in Nat \ {0}, NEW k \in 1..n - 1, Cs!IsContent(k)
  PROVE  /\ Cs!RowOf(k) \in 1..Cs!RowOf(n) /\ Cs!CellOf(k) \in 1..Cs!CellsOf(Cs!RowOf(k), n)
         /\ Cs!PlaceOf(k) \in 1..Cs!Cardinality(Cs!Of(Cs!RowOf(k), Cs!CellOf(k), n))
<1>1. Cs!RowOf(k) \in 1..Cs!RowOf(n) /\ Cs!CellOf(k) \in 1..Cs!CellsOf(Cs!RowOf(k), n)
  BY RowsInOrder, RowNext
<1> DEFINE S == Cs!Of(Cs!RowOf(k), Cs!CellOf(k), k)
           R == Cs!Of(Cs!RowOf(k), Cs!CellOf(k), n)
<1>2. /\ n - 1 \in Nat /\ k - 1 \in Nat /\ R \in SUBSET (1..n - 1) /\ S \in SUBSET (1..k - 1)
      /\ k \notin S /\ S \union {k} \in SUBSET R
  BY DEF Cs!Of
<1>3. Cs!PlaceOf(k) = Cs!Cardinality(S) + 1
  BY DEF Cs!PlaceOf
<1> HIDE DEF S, R
<1>4. Cs!Cardinality(S) \in Nat /\ Cs!Cardinality(R) \in Nat
  BY <1>2, PlacesBefore
<1>5. Cs!Cardinality(S \union {k}) = Cs!Cardinality(S) + 1 /\ Cs!Cardinality(S \union {k}) <= Cs!Cardinality(R)
  BY <1>2, OneMorePlace, FewerPlaces
<1> QED  BY <1>1, <1>3, <1>4, <1>5 DEF R

\* What has been read so far, t, has as many rows, cells and characters as the text before n says,
\* and each content character where it belongs.
Placed(t, n) ==
  /\ t \in Seq(Seq(Seq(Cs!Alphabet))) /\ Len(t) = Cs!RowOf(n)
  /\ \A r \in 1..Len(t) : Len(t[r]) = Cs!CellsOf(r, n)
  /\ \A r \in 1..Len(t) : \A c \in 1..Len(t[r]) :
       /\ Len(t[r][c]) = Cs!Cardinality(Cs!Of(r, c, n))
       /\ \A p \in 1..Len(t[r][c]) :
            \E k \in 1..n - 1 : Cs!IsContent(k) /\ Cs!RowOf(k) = r /\ Cs!CellOf(k) = c /\ Cs!PlaceOf(k) = p
  /\ \A k \in 1..n - 1 : Cs!IsContent(k) => t[Cs!RowOf(k)][Cs!CellOf(k)][Cs!PlaceOf(k)] = text[k]

LEMMA PlacedShape ==
  ASSUME NEW n \in Nat \ {0}, NEW t, Placed(t, n)
  PROVE  /\ Len(t) \in Nat \ {0}
         /\ \A r \in 1..Len(t) : /\ t[r] \in Seq(Seq(Cs!Alphabet)) /\ Len(t[r]) \in Nat \ {0}
                                 /\ \A c \in 1..Len(t[r]) : t[r][c] \in Seq(Cs!Alphabet) /\ Len(t[r][c]) \in Nat
         /\ Len(t[Len(t)]) = Cs!CellOf(n)
         /\ \A k \in 1..n - 1 : Cs!IsContent(k) =>
              /\ Cs!RowOf(k) \in 1..Len(t) /\ Cs!CellOf(k) \in 1..Len(t[Cs!RowOf(k)])
              /\ Cs!PlaceOf(k) \in 1..Len(t[Cs!RowOf(k)][Cs!CellOf(k)])
<1>1. t \in Seq(Seq(Seq(Cs!Alphabet))) /\ Len(t) = Cs!RowOf(n) /\ Cs!RowOf(n) \in Nat \ {0}
  BY RowNext DEF Placed
<1>2. ASSUME NEW r \in 1..Len(t)
      PROVE  /\ t[r] \in Seq(Seq(Cs!Alphabet)) /\ Len(t[r]) \in Nat \ {0}
             /\ \A c \in 1..Len(t[r]) : t[r][c] \in Seq(Cs!Alphabet) /\ Len(t[r][c]) \in Nat
  <2>1. t[r] \in Seq(Seq(Cs!Alphabet))
    BY <1>1
  <2>2. Len(t[r]) \in Nat \ {0}
    BY CellsNext DEF Placed
  <2> QED  BY <2>1, <2>2
<1>3. Len(t[Len(t)]) = Cs!CellOf(n)
  BY <1>1 DEF Placed, Cs!CellOf
<1>4. ASSUME NEW k \in 1..n - 1, Cs!IsContent(k)
      PROVE  /\ Cs!RowOf(k) \in 1..Len(t) /\ Cs!CellOf(k) \in 1..Len(t[Cs!RowOf(k)])
             /\ Cs!PlaceOf(k) \in 1..Len(t[Cs!RowOf(k)][Cs!CellOf(k)])
  <2>1. /\ Cs!RowOf(k) \in 1..Cs!RowOf(n) /\ Cs!CellOf(k) \in 1..Cs!CellsOf(Cs!RowOf(k), n)
        /\ Cs!PlaceOf(k) \in 1..Cs!Cardinality(Cs!Of(Cs!RowOf(k), Cs!CellOf(k), n))
    BY <1>4, PlaceKnown
  <2> QED  BY <1>1, <2>1 DEF Placed
<1> QED  BY <1>1, <1>2, <1>3, <1>4

\* A character that says nothing and ends nothing.
LEMMA PlacedPassed ==
  ASSUME NEW n \in Nat \ {0}, NEW t, Placed(t, n), ~Cs!IsContent(n),
         Cs!Inside(n) \/ text[n] \notin {Cs!Comma, Cs!Lf}
  PROVE  Placed(t, n + 1)
<1>1. Cs!RowOf(n + 1) = Cs!RowOf(n) /\ \A r : Cs!CellsOf(r, n + 1) = Cs!CellsOf(r, n)
  BY RowNext, CellsNext DEF Cs!Comma, Cs!Lf
<1>2. \A r, c : Cs!Cardinality(Cs!Of(r, c, n + 1)) = Cs!Cardinality(Cs!Of(r, c, n))
  BY ContentNext
<1>3. 1..n - 1 \subseteq 1..(n + 1) - 1 /\ \A k \in 1..(n + 1) - 1 : Cs!IsContent(k) => k \in 1..n - 1
  OBVIOUS
<1>4. /\ t \in Seq(Seq(Seq(Cs!Alphabet))) /\ Len(t) = Cs!RowOf(n + 1)
      /\ \A r \in 1..Len(t) : Len(t[r]) = Cs!CellsOf(r, n + 1)
  BY <1>1 DEF Placed
<1>5. ASSUME NEW r \in 1..Len(t), NEW c \in 1..Len(t[r])
      PROVE  /\ Len(t[r][c]) = Cs!Cardinality(Cs!Of(r, c, n + 1))
             /\ \A p \in 1..Len(t[r][c]) :
                  \E k \in 1..(n + 1) - 1 : Cs!IsContent(k) /\ Cs!RowOf(k) = r /\ Cs!CellOf(k) = c
                     /\ Cs!PlaceOf(k) = p
  <2>1. /\ Len(t[r][c]) = Cs!Cardinality(Cs!Of(r, c, n))
        /\ \A p \in 1..Len(t[r][c]) :
             \E k \in 1..n - 1 : Cs!IsContent(k) /\ Cs!RowOf(k) = r /\ Cs!CellOf(k) = c /\ Cs!PlaceOf(k) = p
    BY DEF Placed
  <2> QED  BY <1>2, <1>3, <2>1
<1>6. \A k \in 1..(n + 1) - 1 : Cs!IsContent(k) => t[Cs!RowOf(k)][Cs!CellOf(k)][Cs!PlaceOf(k)] = text[k]
  BY <1>3 DEF Placed
<1> QED  BY <1>4, <1>5, <1>6 DEF Placed

LEMMA PlacedContent ==
  ASSUME NEW n \in Nat \ {0}, NEW t, Placed(t, n), Cs!IsContent(n),
         NEW t2 \in Seq(Seq(Seq(Cs!Alphabet))), Len(t2) = Len(t),
         \A r \in 1..Len(t) - 1 : t2[r] = t[r],
         Len(t2[Len(t)]) = Len(t[Len(t)]),
         \A c \in 1..Len(t[Len(t)]) - 1 : t2[Len(t)][c] = t[Len(t)][c],
         text[n] \in Cs!Alphabet,
         t2[Len(t)][Len(t[Len(t)])] = Append(t[Len(t)][Len(t[Len(t)])], text[n])
  PROVE  Placed(t2, n + 1)
<1> DEFINE R == Len(t)
           C == Len(t[Len(t)])
           L == Len(t[Len(t)][C])
<1>1. /\ R = Cs!RowOf(n) /\ C = Cs!CellOf(n) /\ R \in Nat \ {0} /\ C \in Nat \ {0} /\ L \in Nat
      /\ t[R] \in Seq(Seq(Cs!Alphabet)) /\ t[R][C] \in Seq(Cs!Alphabet)
  <2>1. R = Cs!RowOf(n) /\ C = Cs!CellOf(n) /\ R \in Nat \ {0}
    BY PlacedShape DEF Placed
  <2>2. R \in 1..Len(t)
    BY <2>1
  <2>3. t[R] \in Seq(Seq(Cs!Alphabet)) /\ C \in Nat \ {0}
    BY <2>2, PlacedShape
  <2>4. C \in 1..Len(t[R])
    BY <2>3
  <2> QED  BY <2>1, <2>2, <2>3, <2>4, PlacedShape
<1>2. Cs!RowOf(n + 1) = Cs!RowOf(n) /\ \A r : Cs!CellsOf(r, n + 1) = Cs!CellsOf(r, n)
  BY RowNext, CellsNext DEF Cs!IsContent, Cs!Comma, Cs!Lf, Cs!Quote
<1>3. \A r, c : Cs!Cardinality(Cs!Of(r, c, n + 1)) =
                  IF r = R /\ c = C THEN Cs!Cardinality(Cs!Of(r, c, n)) + 1 ELSE Cs!Cardinality(Cs!Of(r, c, n))
  BY <1>1, ContentNext
<1>4. L = Cs!Cardinality(Cs!Of(R, C, n)) /\ Cs!PlaceOf(n) = L + 1
  <2>1. R \in 1..Len(t) /\ C \in 1..Len(t[R])
    BY <1>1
  <2>2. L = Cs!Cardinality(Cs!Of(R, C, n))
    BY <2>1 DEF Placed
  <2> QED  BY <1>1, <2>2 DEF Cs!PlaceOf
<1>5. \A k \in Nat : k \in 1..(n + 1) - 1 <=> k \in 1..n - 1 \/ k = n
  OBVIOUS
<1>6. t2[R][C] = Append(t[R][C], text[n])
  OBVIOUS
<1>7. /\ Len(t2[R][C]) = L + 1 /\ t2[R][C][L + 1] = text[n]
      /\ \A p \in 1..L : t2[R][C][p] = t[R][C][p]
  BY <1>1, <1>6
<1>8. \A r \in 1..Len(t) : Len(t2[r]) = Len(t[r])
  <2>1. \A r \in 1..R : r = R \/ r \in 1..R - 1
    BY <1>1
  <2> QED  BY <2>1
<1>9. ASSUME NEW r \in 1..Len(t), NEW c \in 1..Len(t[r]), ~(r = R /\ c = C)
      PROVE  t2[r][c] = t[r][c]
  <2>1. CASE r = R
    <3>1. c \in 1..C - 1
      BY <1>1, <1>9, <2>1
    <3> QED  BY <2>1, <3>1
  <2>2. CASE r # R
    <3>1. r \in 1..R - 1
      BY <1>1, <2>2
    <3> QED  BY <3>1
  <2> QED  BY <2>1, <2>2
<1> HIDE DEF R, C, L
<1>10. \A r \in 1..Len(t) : Len(t2[r]) = Cs!CellsOf(r, n + 1)
  BY <1>2, <1>8 DEF Placed
<1>11. ASSUME NEW r \in 1..Len(t2), NEW c \in 1..Len(t2[r])
       PROVE  /\ Len(t2[r][c]) = Cs!Cardinality(Cs!Of(r, c, n + 1))
              /\ \A p \in 1..Len(t2[r][c]) :
                   \E k \in 1..(n + 1) - 1 : Cs!IsContent(k) /\ Cs!RowOf(k) = r /\ Cs!CellOf(k) = c
                      /\ Cs!PlaceOf(k) = p
  <2>1. r \in 1..Len(t) /\ c \in 1..Len(t[r])
    BY <1>8
  <2>2. CASE r = R /\ c = C
    <3>1. Len(t2[r][c]) = Cs!Cardinality(Cs!Of(r, c, n + 1))
      BY <1>3, <1>4, <1>7, <2>2
    <3>2. ASSUME NEW p \in 1..Len(t2[r][c])
          PROVE  \E k \in 1..(n + 1) - 1 : Cs!IsContent(k) /\ Cs!RowOf(k) = r /\ Cs!CellOf(k) = c /\ Cs!PlaceOf(k) = p
      <4>1. p \in 1..L \/ p = L + 1
        BY <1>1, <1>7, <2>2
      <4>2. CASE p = L + 1
        BY <1>1, <1>4, <2>2, <4>2
      <4>3. CASE p \in 1..L
        <5>1. \E k \in 1..n - 1 : Cs!IsContent(k) /\ Cs!RowOf(k) = r /\ Cs!CellOf(k) = c /\ Cs!PlaceOf(k) = p
          <6>1. p \in 1..Len(t[r][c])
            BY <2>2, <4>3 DEF R, C, L
          <6>2. \A q \in 1..Len(t[r][c]) :
                  \E k \in 1..n - 1 : Cs!IsContent(k) /\ Cs!RowOf(k) = r /\ Cs!CellOf(k) = c /\ Cs!PlaceOf(k) = q
            BY <2>1 DEF Placed
          <6> QED  BY <6>1, <6>2
        <5> QED  BY <5>1, <1>5
      <4> QED  BY <4>1, <4>2, <4>3
    <3> QED  BY <3>1, <3>2
  <2>3. CASE ~(r = R /\ c = C)
    <3>1. t2[r][c] = t[r][c]
      BY <1>9, <2>1, <2>3
    <3>2. /\ Len(t[r][c]) = Cs!Cardinality(Cs!Of(r, c, n))
          /\ \A p \in 1..Len(t[r][c]) :
               \E k \in 1..n - 1 : Cs!IsContent(k) /\ Cs!RowOf(k) = r /\ Cs!CellOf(k) = c /\ Cs!PlaceOf(k) = p
      BY <2>1 DEF Placed
    <3>3. Cs!Cardinality(Cs!Of(r, c, n + 1)) = Cs!Cardinality(Cs!Of(r, c, n))
      BY <1>3, <2>3
    <3>4. 1..n - 1 \subseteq 1..(n + 1) - 1
      OBVIOUS
    <3> QED  BY <3>1, <3>2, <3>3, <3>4
  <2> QED  BY <2>2, <2>3
<1>12. ASSUME NEW k \in 1..(n + 1) - 1, Cs!IsContent(k)
       PROVE  t2[Cs!RowOf(k)][Cs!CellOf(k)][Cs!PlaceOf(k)] = text[k]
  <2>1. CASE k = n
    BY <1>1, <1>4, <1>7, <2>1
  <2>2. CASE k \in 1..n - 1
    <3>1. /\ Cs!RowOf(k) \in 1..Len(t) /\ Cs!CellOf(k) \in 1..Len(t[Cs!RowOf(k)])
          /\ Cs!PlaceOf(k) \in 1..Len(t[Cs!RowOf(k)][Cs!CellOf(k)])
          /\ t[Cs!RowOf(k)][Cs!CellOf(k)][Cs!PlaceOf(k)] = text[k]
      BY <1>12, <2>2, PlacedShape DEF Placed
    <3>2. CASE Cs!RowOf(k) = R /\ Cs!CellOf(k) = C
      <4>1. Cs!PlaceOf(k) \in 1..L
        BY <3>1, <3>2 DEF R, C, L
      <4>2. t2[R][C][Cs!PlaceOf(k)] = t[R][C][Cs!PlaceOf(k)]
        BY <1>7, <4>1
      <4> QED  BY <3>1, <3>2, <4>2
    <3>3. CASE ~(Cs!RowOf(k) = R /\ Cs!CellOf(k) = C)
      BY <1>9, <3>1, <3>3
    <3> QED  BY <3>2, <3>3
  <2> QED  BY <1>5, <2>1, <2>2
<1> QED  BY <1>1, <1>2, <1>10, <1>11, <1>12 DEF Placed, R

\* A comma outside quotes: one more cell in the row, with nothing in it yet.
LEMMA PlacedCell ==
  ASSUME NEW n \in Nat \ {0}, NEW t, Placed(t, n), text[n] = Cs!Comma, ~Cs!Inside(n),
         NEW t2 \in Seq(Seq(Seq(Cs!Alphabet))), Len(t2) = Len(t),
         \A r \in 1..Len(t) - 1 : t2[r] = t[r],
         t2[Len(t)] = Append(t[Len(t)], <<>>)
  PROVE  Placed(t2, n + 1)
<1> DEFINE R == Len(t)
           C == Len(t[Len(t)])
<1>1. /\ R = Cs!RowOf(n) /\ C = Cs!CellOf(n) /\ R \in Nat \ {0} /\ C \in Nat \ {0}
      /\ t[R] \in Seq(Seq(Cs!Alphabet))
  <2>1. R = Cs!RowOf(n) /\ C = Cs!CellOf(n) /\ R \in Nat \ {0}
    BY PlacedShape DEF Placed
  <2>2. R \in 1..Len(t)
    BY <2>1
  <2> QED  BY <2>1, <2>2, PlacedShape
<1>2. /\ Cs!RowOf(n + 1) = Cs!RowOf(n)
      /\ \A r : Cs!CellsOf(r, n + 1) = IF r = R THEN Cs!CellsOf(r, n) + 1 ELSE Cs!CellsOf(r, n)
  BY <1>1, RowNext, CellsNext DEF Cs!Comma, Cs!Lf
<1>3. ~Cs!IsContent(n)
  BY DEF Cs!IsContent, Cs!Comma, Cs!Quote
<1>4. \A r, c : Cs!Cardinality(Cs!Of(r, c, n + 1)) = Cs!Cardinality(Cs!Of(r, c, n))
  BY <1>3, ContentNext
<1>5. t2[R] = Append(t[R], <<>>) /\ C = Len(t[R])
  OBVIOUS
<1>6. /\ Len(t2[R]) = C + 1 /\ t2[R][C + 1] = <<>>
      /\ \A c \in 1..C : t2[R][c] = t[R][c]
  <2>1. <<>> \in Seq(Cs!Alphabet)
    OBVIOUS
  <2> HIDE DEF R, C
  <2>2. Len(Append(t[R], <<>>)) = C + 1 /\ Append(t[R], <<>>)[C + 1] = <<>>
    BY <1>1, <1>5, <2>1
  <2>3. \A c \in 1..C : Append(t[R], <<>>)[c] = t[R][c]
    BY <1>1, <1>5, <2>1
  <2> QED  BY <1>5, <2>2, <2>3
<1>7. Cs!Cardinality(Cs!Of(R, C + 1, n)) = 0
  <2>1. R \in Nat \ {0} /\ C + 1 \in Nat \ {0} /\ R = Cs!RowOf(n) /\ C + 1 > Cs!CellOf(n)
    BY <1>1
  <2> HIDE DEF R, C
  <2> QED  BY <2>1, NothingBeyond
<1>8. ASSUME NEW r \in 1..Len(t), NEW c \in 1..Len(t[r]) PROVE t2[r][c] = t[r][c]
  <2>1. CASE r = R
    <3>1. c \in 1..C
      BY <2>1
    <3> QED  BY <1>6, <2>1, <3>1
  <2>2. CASE r # R
    <3>1. r \in 1..R - 1
      BY <1>1, <2>2
    <3> QED  BY <3>1
  <2> QED  BY <2>1, <2>2
<1> HIDE DEF R, C
<1>9. \A r \in 1..Len(t) : Len(t2[r]) = Cs!CellsOf(r, n + 1)
  <2>1. ASSUME NEW r \in 1..Len(t) PROVE Len(t2[r]) = Cs!CellsOf(r, n + 1)
    <3>1. CASE r = R
      <4>1. Len(t[R]) = Cs!CellsOf(R, n) /\ C = Len(t[R])
        BY <3>1 DEF Placed, R, C
      <4> QED  BY <1>2, <1>6, <3>1, <4>1
    <3>2. CASE r # R
      <4>1. t2[r] = t[r]
        BY <1>1, <3>2 DEF R
      <4> QED  BY <1>2, <3>2, <4>1 DEF Placed
    <3> QED  BY <3>1, <3>2
  <2> QED  BY <2>1
<1>10. ASSUME NEW r \in 1..Len(t2), NEW c \in 1..Len(t2[r])
       PROVE  /\ Len(t2[r][c]) = Cs!Cardinality(Cs!Of(r, c, n + 1))
              /\ \A p \in 1..Len(t2[r][c]) :
                   \E k \in 1..(n + 1) - 1 : Cs!IsContent(k) /\ Cs!RowOf(k) = r /\ Cs!CellOf(k) = c
                      /\ Cs!PlaceOf(k) = p
  <2>1. CASE r = R /\ c = C + 1
    <3>1. t2[r][c] = <<>>
      BY <1>6, <2>1
    <3> QED  BY <1>4, <1>7, <2>1, <3>1
  <2>2. CASE ~(r = R /\ c = C + 1)
    <3>1. r \in 1..Len(t) /\ c \in 1..Len(t[r])
      <4>1. r \in 1..R
        BY DEF R
      <4>2. CASE r = R
        <5>1. c \in 1..C + 1
          BY <1>6, <4>2
        <5> QED  BY <1>1, <1>5, <2>2, <4>1, <4>2, <5>1 DEF R
      <4>3. CASE r # R
        <5>1. r \in 1..R - 1
          BY <1>1, <4>1, <4>3
        <5>2. t2[r] = t[r]
          BY <5>1 DEF R
        <5> QED  BY <4>1, <5>2 DEF R
      <4> QED  BY <4>2, <4>3
    <3>2. /\ Len(t[r][c]) = Cs!Cardinality(Cs!Of(r, c, n))
          /\ \A p \in 1..Len(t[r][c]) :
               \E k \in 1..n - 1 : Cs!IsContent(k) /\ Cs!RowOf(k) = r /\ Cs!CellOf(k) = c /\ Cs!PlaceOf(k) = p
      BY <3>1 DEF Placed
    <3>3. 1..n - 1 \subseteq 1..(n + 1) - 1
      OBVIOUS
    <3> QED  BY <1>4, <1>8, <3>1, <3>2, <3>3
  <2> QED  BY <2>1, <2>2
<1>11. ASSUME NEW k \in 1..(n + 1) - 1, Cs!IsContent(k)
       PROVE  t2[Cs!RowOf(k)][Cs!CellOf(k)][Cs!PlaceOf(k)] = text[k]
  <2>1. k \in 1..n - 1
    BY <1>3, <1>11
  <2>2. /\ Cs!RowOf(k) \in 1..Len(t) /\ Cs!CellOf(k) \in 1..Len(t[Cs!RowOf(k)])
        /\ t[Cs!RowOf(k)][Cs!CellOf(k)][Cs!PlaceOf(k)] = text[k]
    BY <1>11, <2>1, PlacedShape DEF Placed
  <2> QED  BY <1>8, <2>2
<1> QED  BY <1>1, <1>2, <1>9, <1>10, <1>11 DEF Placed, R

\* A line feed outside quotes: one more row, of one cell with nothing in it yet.
LEMMA PlacedRow ==
  ASSUME NEW n \in Nat \ {0}, NEW t, Placed(t, n), text[n] = Cs!Lf, ~Cs!Inside(n)
  PROVE  Placed(Append(t, << <<>> >>), n + 1)
<1> DEFINE R == Len(t)
           t2 == Append(t, << <<>> >>)
<1>1. R = Cs!RowOf(n) /\ R \in Nat \ {0} /\ t \in Seq(Seq(Seq(Cs!Alphabet)))
  BY PlacedShape DEF Placed
<1>2. /\ Cs!RowOf(n + 1) = R + 1
      /\ \A r : Cs!CellsOf(r, n + 1) = Cs!CellsOf(r, n)
  BY <1>1, RowNext, CellsNext DEF Cs!Comma, Cs!Lf
<1>3. ~Cs!IsContent(n)
  BY DEF Cs!IsContent, Cs!Lf, Cs!Quote
<1>4. \A r, c : Cs!Cardinality(Cs!Of(r, c, n + 1)) = Cs!Cardinality(Cs!Of(r, c, n))
  BY <1>3, ContentNext
<1>5. Cs!CellsOf(R + 1, n) = 1 /\ Cs!Cardinality(Cs!Of(R + 1, 1, n)) = 0
  <2>1. R + 1 \in Nat \ {0} /\ 1 \in Nat \ {0} /\ R + 1 > Cs!RowOf(n)
    BY <1>1
  <2> QED  BY <2>1, NothingBeyond
<1>6. << <<>> >> \in Seq(Seq(Cs!Alphabet))
  OBVIOUS
<1>7. /\ t2 \in Seq(Seq(Seq(Cs!Alphabet))) /\ Len(t2) = R + 1 /\ t2[R + 1] = << <<>> >>
      /\ \A r \in 1..R : t2[r] = t[r]
  BY <1>1, <1>6
<1> HIDE DEF R, t2
<1>8. \A r \in 1..Len(t2) : Len(t2[r]) = Cs!CellsOf(r, n + 1)
  <2>1. ASSUME NEW r \in 1..Len(t2) PROVE Len(t2[r]) = Cs!CellsOf(r, n + 1)
    <3>1. CASE r = R + 1
      BY <1>2, <1>5, <1>7, <3>1
    <3>2. CASE r \in 1..R
      BY <1>2, <1>7, <3>2 DEF Placed, R
    <3> QED  BY <1>1, <1>7, <3>1, <3>2
  <2> QED  BY <2>1
<1>9. ASSUME NEW r \in 1..Len(t2), NEW c \in 1..Len(t2[r])
      PROVE  /\ Len(t2[r][c]) = Cs!Cardinality(Cs!Of(r, c, n + 1))
             /\ \A p \in 1..Len(t2[r][c]) :
                  \E k \in 1..(n + 1) - 1 : Cs!IsContent(k) /\ Cs!RowOf(k) = r /\ Cs!CellOf(k) = c
                     /\ Cs!PlaceOf(k) = p
  <2>1. CASE r = R + 1
    <3>1. c = 1 /\ t2[r][c] = <<>>
      <4>1. t2[r] = << <<>> >>
        BY <1>7, <2>1
      <4> QED  BY <4>1
    <3> QED  BY <1>4, <1>5, <2>1, <3>1
  <2>2. CASE r \in 1..R
    <3>1. r \in 1..Len(t) /\ c \in 1..Len(t[r]) /\ t2[r] = t[r]
      BY <1>7, <2>2 DEF R
    <3>2. /\ Len(t[r][c]) = Cs!Cardinality(Cs!Of(r, c, n))
          /\ \A p \in 1..Len(t[r][c]) :
               \E k \in 1..n - 1 : Cs!IsContent(k) /\ Cs!RowOf(k) = r /\ Cs!CellOf(k) = c /\ Cs!PlaceOf(k) = p
      BY <3>1 DEF Placed
    <3>3. 1..n - 1 \subseteq 1..(n + 1) - 1
      OBVIOUS
    <3> QED  BY <1>4, <3>1, <3>2, <3>3
  <2> QED  BY <1>1, <1>7, <2>1, <2>2
<1>10. ASSUME NEW k \in 1..(n + 1) - 1, Cs!IsContent(k)
       PROVE  t2[Cs!RowOf(k)][Cs!CellOf(k)][Cs!PlaceOf(k)] = text[k]
  <2>1. k \in 1..n - 1
    BY <1>3, <1>10
  <2>2. Cs!RowOf(k) \in 1..R /\ t[Cs!RowOf(k)][Cs!CellOf(k)][Cs!PlaceOf(k)] = text[k]
    BY <1>10, <2>1, PlacedShape DEF Placed, R
  <2> QED  BY <1>7, <2>2
<1>11. Placed(t2, n + 1)
  BY <1>1, <1>2, <1>7, <1>8, <1>9, <1>10 DEF Placed
<1> QED  BY <1>11 DEF t2

\* What the rules say of a text is said of the text alone.
LEMMA SameText ==
  ASSUME text' = text
  PROVE  /\ \A k : Cs!Inside(k)' <=> Cs!Inside(k)
         /\ \A k : Cs!IsContent(k)' <=> Cs!IsContent(k)
         /\ \A n : Cs!RowOf(n)' = Cs!RowOf(n)
         /\ \A r, n : Cs!CellsOf(r, n)' = Cs!CellsOf(r, n)
         /\ \A n : Cs!CellOf(n)' = Cs!CellOf(n)
         /\ \A r, c, n : Cs!Of(r, c, n)' = Cs!Of(r, c, n)
         /\ \A k : Cs!PlaceOf(k)' = Cs!PlaceOf(k)
<1>1. \A k : Cs!Inside(k)' <=> Cs!Inside(k)
  <2>1. ASSUME NEW k PROVE Cs!QuotesBefore(k)' = Cs!QuotesBefore(k)
    BY DEF Cs!QuotesBefore
  <2> QED  BY <2>1 DEF Cs!Inside
<1>2. \A k : Cs!IsContent(k)' <=> Cs!IsContent(k)
  BY <1>1 DEF Cs!IsContent, Cs!At
<1>3. \A s, n : Cs!Ends(s, n)' = Cs!Ends(s, n)
  BY <1>1 DEF Cs!Ends
<1>4. \A n : Cs!RowOf(n)' = Cs!RowOf(n)
  BY <1>3 DEF Cs!RowOf
<1>5. ASSUME NEW r, NEW n PROVE Cs!CellsOf(r, n)' = Cs!CellsOf(r, n)
  <2>1. {k \in Cs!Ends(Cs!Comma, n)' : Cs!RowOf(k)' = r} = {k \in Cs!Ends(Cs!Comma, n) : Cs!RowOf(k) = r}
    BY <1>3, <1>4
  <2> QED  BY <2>1 DEF Cs!CellsOf
<1>6. \A n : Cs!CellOf(n)' = Cs!CellOf(n)
  BY <1>4, <1>5 DEF Cs!CellOf
<1>7. ASSUME NEW r, NEW c, NEW n PROVE Cs!Of(r, c, n)' = Cs!Of(r, c, n)
  BY <1>2, <1>4, <1>6 DEF Cs!Of
<1>8. \A k : Cs!PlaceOf(k)' = Cs!PlaceOf(k)
  BY <1>4, <1>6, <1>7 DEF Cs!PlaceOf
<1> QED  BY <1>1, <1>2, <1>4, <1>5, <1>6, <1>7, <1>8

\* What the loop has collected, the row and the cell it is in included.
Collected == Append(rows, Append(row, field))

FileTyped ==
  /\ text \in Texts /\ i \in 1..Len(text) + 1 /\ inQuotes \in BOOLEAN /\ parsed \in BOOLEAN
  /\ rows \in Seq(Seq(Seq(Cs!Alphabet))) /\ row \in Seq(Seq(Cs!Alphabet)) /\ field \in Seq(Cs!Alphabet)

Reading ==
  /\ FileTyped
  /\ inQuotes <=> Cs!Inside(i)
  /\ ~inQuotes /\ Cs!At(i - 1) = Cs!Quote => Cs!At(i) # Cs!Quote
  /\ Placed(Collected, i)

\* The last cell of the last row.
LEMMA CollectedShape ==
  ASSUME FileTyped
  PROVE  /\ Collected \in Seq(Seq(Seq(Cs!Alphabet))) /\ Len(Collected) = Len(rows) + 1
         /\ \A r \in 1..Len(rows) : Collected[r] = rows[r]
         /\ Collected[Len(Collected)] = Append(row, field)
         /\ Len(Collected[Len(Collected)]) = Len(row) + 1
         /\ \A c \in 1..Len(row) : Collected[Len(Collected)][c] = row[c]
         /\ Collected[Len(Collected)][Len(row) + 1] = field
<1>1. Append(row, field) \in Seq(Seq(Cs!Alphabet))
  BY DEF FileTyped
<1>2. /\ Collected \in Seq(Seq(Seq(Cs!Alphabet))) /\ Len(Collected) = Len(rows) + 1
      /\ \A r \in 1..Len(rows) : Collected[r] = rows[r]
      /\ Collected[Len(rows) + 1] = Append(row, field)
  BY <1>1 DEF FileTyped, Collected
<1> QED  BY <1>2 DEF FileTyped

LEMMA CollectedCell ==
  ASSUME FileTyped, NEW cell \in Seq(Cs!Alphabet), NEW t, t = Append(rows, Append(row, cell))
  PROVE  /\ t \in Seq(Seq(Seq(Cs!Alphabet))) /\ Len(t) = Len(Collected)
         /\ \A r \in 1..Len(Collected) - 1 : t[r] = Collected[r]
         /\ Len(t[Len(Collected)]) = Len(Collected[Len(Collected)])
         /\ \A c \in 1..Len(Collected[Len(Collected)]) - 1 : t[Len(Collected)][c] = Collected[Len(Collected)][c]
         /\ t[Len(Collected)][Len(Collected[Len(Collected)])] = cell
<1>1. Append(row, cell) \in Seq(Seq(Cs!Alphabet))
  BY DEF FileTyped
<1>2. /\ t \in Seq(Seq(Seq(Cs!Alphabet))) /\ Len(t) = Len(rows) + 1
      /\ \A r \in 1..Len(rows) : t[r] = rows[r]
      /\ t[Len(rows) + 1] = Append(row, cell)
  BY <1>1 DEF FileTyped
<1>3. /\ Len(Append(row, cell)) = Len(row) + 1 /\ Append(row, cell)[Len(row) + 1] = cell
      /\ \A c \in 1..Len(row) : Append(row, cell)[c] = row[c]
  BY DEF FileTyped
<1>4. Len(rows) \in Nat /\ Len(row) \in Nat
  BY DEF FileTyped
<1>5. /\ Len(Collected) = Len(rows) + 1 /\ Len(Collected[Len(Collected)]) = Len(row) + 1
      /\ \A r \in 1..Len(rows) : Collected[r] = rows[r]
      /\ \A c \in 1..Len(row) : Collected[Len(Collected)][c] = row[c]
  BY CollectedShape
<1>6. t[Len(Collected)] = Append(row, cell)
  BY <1>2, <1>5
<1>7. Len(Collected) - 1 = Len(rows) /\ Len(Collected[Len(Collected)]) - 1 = Len(row)
  BY <1>4, <1>5
<1> QED  BY <1>2, <1>3, <1>5, <1>6, <1>7

\* One more character in the cell.
LEMMA ReadContent ==
  ASSUME FileTyped, NEW n \in DOMAIN text, Placed(Collected, n), Cs!IsContent(n)
  PROVE  Placed(Append(rows, Append(row, Append(field, text[n]))), n + 1)
<1> DEFINE t == Append(rows, Append(row, Append(field, text[n])))
<1>1. n \in Nat \ {0} /\ text[n] \in Cs!Alphabet
  BY DEF FileTyped, Texts
<1>2. Append(field, text[n]) \in Seq(Cs!Alphabet)
  BY <1>1 DEF FileTyped
<1>3. Collected[Len(Collected)][Len(Collected[Len(Collected)])] = field
  BY CollectedShape DEF FileTyped
<1>4. /\ t \in Seq(Seq(Seq(Cs!Alphabet))) /\ Len(t) = Len(Collected)
      /\ \A r \in 1..Len(Collected) - 1 : t[r] = Collected[r]
      /\ Len(t[Len(Collected)]) = Len(Collected[Len(Collected)])
      /\ \A c \in 1..Len(Collected[Len(Collected)]) - 1 : t[Len(Collected)][c] = Collected[Len(Collected)][c]
      /\ t[Len(Collected)][Len(Collected[Len(Collected)])] = Append(field, text[n])
  BY <1>2, CollectedCell
<1> HIDE DEF t
<1>5. Placed(t, n + 1)
  BY <1>1, <1>3, <1>4, PlacedContent
<1> QED  BY <1>5 DEF t

LEMMA ReadComma ==
  ASSUME FileTyped, NEW n \in DOMAIN text, Placed(Collected, n), text[n] = Cs!Comma, ~Cs!Inside(n)
  PROVE  Placed(Append(rows, Append(Append(row, field), <<>>)), n + 1)
<1> DEFINE t == Append(rows, Append(Append(row, field), <<>>))
<1>1. n \in Nat \ {0}
  BY DEF FileTyped, Texts
<1>2. Append(row, field) \in Seq(Seq(Cs!Alphabet)) /\ Append(Append(row, field), <<>>) \in Seq(Seq(Cs!Alphabet))
  BY DEF FileTyped
<1>3. /\ t \in Seq(Seq(Seq(Cs!Alphabet))) /\ Len(t) = Len(rows) + 1
      /\ \A r \in 1..Len(rows) : t[r] = rows[r]
      /\ t[Len(rows) + 1] = Append(Append(row, field), <<>>)
  BY <1>2 DEF FileTyped
<1>4. Len(rows) \in Nat
  BY DEF FileTyped
<1> HIDE DEF t
<1>5. /\ Len(t) = Len(Collected) /\ \A r \in 1..Len(Collected) - 1 : t[r] = Collected[r]
      /\ t[Len(Collected)] = Append(Collected[Len(Collected)], <<>>)
  <2>1. /\ Len(Collected) = Len(rows) + 1 /\ Collected[Len(Collected)] = Append(row, field)
        /\ \A r \in 1..Len(rows) : Collected[r] = rows[r]
    BY CollectedShape
  <2>2. Len(Collected) - 1 = Len(rows)
    BY <1>4, <2>1
  <2> QED  BY <1>3, <2>1, <2>2
<1>6. Placed(t, n + 1)
  BY <1>1, <1>3, <1>5, PlacedCell
<1> QED  BY <1>6 DEF t

LEMMA ReadLineFeed ==
  ASSUME FileTyped, NEW n \in DOMAIN text, Placed(Collected, n), text[n] = Cs!Lf, ~Cs!Inside(n)
  PROVE  Placed(Append(Append(rows, Append(row, field)), Append(<<>>, <<>>)), n + 1)
<1>1. n \in Nat \ {0} /\ Append(<<>>, <<>>) = << <<>> >>
  BY DEF FileTyped, Texts
<1> QED  BY <1>1, PlacedRow DEF Collected

\* A step of the loop, in what it does to the text read so far.
LEMMA ReadingGoesOn ==
  ASSUME Reading, text' = text, parsed' \in BOOLEAN, inQuotes' \in BOOLEAN,
         i' \in 1..Len(text) + 1,
         rows' \in Seq(Seq(Seq(Cs!Alphabet))), row' \in Seq(Seq(Cs!Alphabet)), field' \in Seq(Cs!Alphabet),
         inQuotes' <=> Cs!Inside(i'), ~inQuotes' /\ Cs!At(i' - 1) = Cs!Quote => Cs!At(i') # Cs!Quote,
         Placed(Append(rows', Append(row', field')), i')
  PROVE  Reading'
<1>1. FileTyped'
  BY DEF Reading, FileTyped
<1>2. inQuotes' <=> Cs!Inside(i)'
  BY DEF Cs!Inside, Cs!QuotesBefore
<1>3. (~inQuotes /\ Cs!At(i - 1) = Cs!Quote => Cs!At(i) # Cs!Quote)'
  BY DEF Cs!At
<1>4. Placed(Collected, i)'
  <2> DEFINE t == Append(rows', Append(row', field'))
             n == i'
  <2>1. /\ t \in Seq(Seq(Seq(Cs!Alphabet))) /\ Len(t) = Cs!RowOf(n)
        /\ \A r \in 1..Len(t) : Len(t[r]) = Cs!CellsOf(r, n)
        /\ \A r \in 1..Len(t) : \A c \in 1..Len(t[r]) :
             /\ Len(t[r][c]) = Cs!Cardinality(Cs!Of(r, c, n))
             /\ \A p \in 1..Len(t[r][c]) :
                  \E k \in 1..n - 1 : Cs!IsContent(k) /\ Cs!RowOf(k) = r /\ Cs!CellOf(k) = c /\ Cs!PlaceOf(k) = p
        /\ \A k \in 1..n - 1 : Cs!IsContent(k) => t[Cs!RowOf(k)][Cs!CellOf(k)][Cs!PlaceOf(k)] = text[k]
    BY DEF Placed
  <2> HIDE DEF t
  <2>2. t = Collected' /\ Cs!RowOf(i)' = Cs!RowOf(n) /\ (\A r : Cs!CellsOf(r, i)' = Cs!CellsOf(r, n))
        /\ (\A r, c : Cs!Of(r, c, i)' = Cs!Of(r, c, n))
    <3>1. Cs!RowOf(i)' = Cs!RowOf(n)
      BY SameText DEF Cs!RowOf, Cs!Ends, Cs!Inside, Cs!QuotesBefore
    <3> QED  BY <3>1, SameText DEF t, Collected
  <2>3. \A k : /\ Cs!IsContent(k)' <=> Cs!IsContent(k)
               /\ Cs!RowOf(k)' = Cs!RowOf(k) /\ Cs!CellOf(k)' = Cs!CellOf(k) /\ Cs!PlaceOf(k)' = Cs!PlaceOf(k)
    BY SameText
  <2> HIDE DEF n
  <2>4. n = i'
    BY DEF n
  <2>5. (/\ Collected \in Seq(Seq(Seq(Cs!Alphabet))) /\ Len(Collected) = Cs!RowOf(i)
         /\ \A r \in 1..Len(Collected) : Len(Collected[r]) = Cs!CellsOf(r, i))'
    BY <2>1, <2>2
  <2>6. (\A k \in 1..i - 1 : Cs!IsContent(k) => Collected[Cs!RowOf(k)][Cs!CellOf(k)][Cs!PlaceOf(k)] = text[k])'
    BY <2>1, <2>2, <2>3, <2>4
  <2>7. ASSUME NEW r \in 1..Len(t), NEW c \in 1..Len(t[r])
        PROVE  (/\ Len(Collected[r][c]) = Cs!Cardinality(Cs!Of(r, c, i))
                /\ \A p \in 1..Len(Collected[r][c]) :
                     \E k \in 1..i - 1 : Cs!IsContent(k) /\ Cs!RowOf(k) = r /\ Cs!CellOf(k) = c /\ Cs!PlaceOf(k) = p)'
    <3>1. /\ Len(t[r][c]) = Cs!Cardinality(Cs!Of(r, c, n))
          /\ \A p \in 1..Len(t[r][c]) :
               \E k \in 1..n - 1 : Cs!IsContent(k) /\ Cs!RowOf(k) = r /\ Cs!CellOf(k) = c /\ Cs!PlaceOf(k) = p
      BY <2>1
    <3> QED  BY <2>2, <2>3, <2>4, <3>1
  <2>8. (\A r \in 1..Len(Collected) : \A c \in 1..Len(Collected[r]) :
           /\ Len(Collected[r][c]) = Cs!Cardinality(Cs!Of(r, c, i))
           /\ \A p \in 1..Len(Collected[r][c]) :
                \E k \in 1..i - 1 : Cs!IsContent(k) /\ Cs!RowOf(k) = r /\ Cs!CellOf(k) = c /\ Cs!PlaceOf(k) = p)'
    BY <2>2, <2>7
  <2> QED  BY <2>5, <2>6, <2>8 DEF Placed
<1> QED  BY <1>1, <1>2, <1>3, <1>4 DEF Reading

LEMMA ReadingStep ==
  ASSUME Reading, ~parsed, Cs!Next, ~Cs!EndOfText
  PROVE  Reading'
<1>1. /\ FileTyped /\ (inQuotes <=> Cs!Inside(i)) /\ (~inQuotes /\ Cs!At(i - 1) = Cs!Quote => Cs!At(i) # Cs!Quote)
      /\ Placed(Collected, i)
  BY DEF Reading
<1>2. i <= Len(text) /\ text' = text /\ parsed' = parsed
  BY DEF Cs!Next, Cs!QuotedCharacter, Cs!EscapedQuote, Cs!ClosingQuote, Cs!OpeningQuote, Cs!EndOfCell,
         Cs!CarriageReturn, Cs!EndOfRow,
         Cs!Character, Cs!Reads, Cs!Goes
<1>3. /\ i \in DOMAIN text /\ i \in Nat \ {0} /\ text[i] \in Cs!Alphabet /\ i + 1 \in 1..Len(text) + 1
      /\ Cs!At(i) = text[i] /\ i + 1 - 1 = i /\ i + 2 = i + 1 + 1
  BY <1>1, <1>2 DEF FileTyped, Texts, Cs!At
<1>4. \A k : Cs!At(k) = Cs!Quote => k \in DOMAIN text /\ text[k] = Cs!Quote
  BY FilesAssumption DEF Cs!At, Cs!Alphabet
<1>5. /\ Cs!Inside(i + 1) <=> (Cs!Inside(i) <=> text[i] # Cs!Quote)
      /\ Cs!Inside(i + 2) <=> (Cs!Inside(i + 1) <=> text[i + 1] # Cs!Quote)
  <2>1. i + 1 \in Nat \ {0}
    BY <1>3
  <2> QED  BY <1>3, <2>1, InsideNext
<1>6. CASE Cs!QuotedCharacter
  <2>1. Cs!IsContent(i) /\ text[i] # Cs!Quote
    BY <1>1, <1>6 DEF Cs!QuotedCharacter, Cs!Reads, Cs!IsContent
  <2>2. Placed(Append(rows, Append(row, Append(field, text[i]))), i + 1)
    BY <1>1, <1>3, <2>1, ReadContent
  <2> QED  BY <1>1, <1>2, <1>3, <1>5, <1>6, <2>1, <2>2, ReadingGoesOn DEF Cs!QuotedCharacter, Cs!Keeps,
         Cs!Goes, FileTyped
<1>7. CASE Cs!Character
  <2>1. Cs!IsContent(i) /\ text[i] # Cs!Quote
    BY <1>1, <1>7 DEF Cs!Character, Cs!Reads, Cs!IsContent
  <2>2. Placed(Append(rows, Append(row, Append(field, text[i]))), i + 1)
    BY <1>1, <1>3, <2>1, ReadContent
  <2> QED  BY <1>1, <1>2, <1>3, <1>5, <1>7, <2>1, <2>2, ReadingGoesOn DEF Cs!Character, Cs!Keeps, Cs!Goes,
         FileTyped
<1>8. CASE Cs!EscapedQuote
  <2>1. text[i] = Cs!Quote /\ Cs!Inside(i) /\ i + 1 \in DOMAIN text /\ text[i + 1] = Cs!Quote
    BY <1>1, <1>4, <1>8 DEF Cs!EscapedQuote, Cs!Reads, Cs!DoubledHere
  <2>2. ~Cs!IsContent(i) /\ text[i] \notin {Cs!Comma, Cs!Lf} /\ ~Cs!Inside(i + 1) /\ Cs!At(i + 1 - 1) = Cs!Quote
    BY <1>3, <1>5, <2>1 DEF Cs!IsContent, Cs!Comma, Cs!Lf, Cs!Quote
  <2>3. Placed(Collected, i + 1)
    BY <1>1, <1>3, <2>2, PlacedPassed
  <2>4. Cs!IsContent(i + 1) /\ Cs!Inside(i + 2)
    <3>1. \A k : text[k] = Cs!Quote /\ ~Cs!Inside(k) /\ Cs!At(k - 1) = Cs!Quote => Cs!IsContent(k)
      BY DEF Cs!IsContent
    <3>2. Cs!IsContent(i + 1)
      <4> DEFINE k == i + 1
      <4>1. k - 1 = i /\ Cs!At(i) = Cs!Quote
        BY <1>3, <2>1
      <4>2. text[k] = Cs!Quote /\ ~Cs!Inside(k)
        BY <2>1, <2>2
      <4> HIDE DEF k
      <4>3. Cs!IsContent(k)
        BY <3>1, <4>1, <4>2
      <4> QED  BY <4>3 DEF k
    <3> QED  BY <1>5, <2>1, <2>2, <3>2
  <2>5. Placed(Append(rows, Append(row, Append(field, Cs!Quote))), i + 2)
    BY <1>1, <1>3, <2>1, <2>3, <2>4, ReadContent
  <2>6. i + 2 \in 1..Len(text) + 1 /\ Cs!Quote \in Cs!Alphabet
    <3>1. Len(text) \in Nat /\ DOMAIN text = 1..Len(text)
      BY <1>1 DEF FileTyped, Texts
    <3>2. i + 2 \in 1..Len(text) + 1
      BY <1>3, <2>1, <3>1
    <3> QED  BY <3>2 DEF Cs!Alphabet
  <2> QED  BY <1>1, <1>2, <2>4, <2>5, <2>6, <1>8, ReadingGoesOn DEF Cs!EscapedQuote, Cs!Keeps, Cs!Goes,
         FileTyped
<1>9. CASE Cs!ClosingQuote
  <2>1. text[i] = Cs!Quote /\ Cs!Inside(i) /\ Cs!At(i + 1) # Cs!Quote
    BY <1>1, <1>9 DEF Cs!ClosingQuote, Cs!Reads, Cs!DoubledHere
  <2>2. ~Cs!IsContent(i) /\ text[i] \notin {Cs!Comma, Cs!Lf} /\ ~Cs!Inside(i + 1)
    BY <1>5, <2>1 DEF Cs!IsContent, Cs!Comma, Cs!Lf, Cs!Quote
  <2>3. Placed(Collected, i + 1)
    BY <1>1, <1>3, <2>2, PlacedPassed
  <2> QED  BY <1>1, <1>2, <1>3, <1>9, <2>1, <2>2, <2>3, ReadingGoesOn DEF Cs!ClosingQuote, Cs!Goes,
         FileTyped, Collected
<1>10. CASE Cs!OpeningQuote
  <2>1. text[i] = Cs!Quote /\ ~Cs!Inside(i) /\ Cs!At(i - 1) # Cs!Quote
    BY <1>1, <1>3, <1>10 DEF Cs!OpeningQuote, Cs!Reads
  <2>2. ~Cs!IsContent(i) /\ text[i] \notin {Cs!Comma, Cs!Lf} /\ Cs!Inside(i + 1)
    BY <1>5, <2>1 DEF Cs!IsContent, Cs!Comma, Cs!Lf, Cs!Quote
  <2>3. Placed(Collected, i + 1)
    BY <1>1, <1>3, <2>2, PlacedPassed
  <2> QED  BY <1>1, <1>2, <1>3, <1>10, <2>1, <2>2, <2>3, ReadingGoesOn DEF Cs!OpeningQuote, Cs!Goes,
         FileTyped, Collected
<1>11. CASE Cs!EndOfCell
  <2>1. text[i] = Cs!Comma /\ ~Cs!Inside(i) /\ text[i] # Cs!Quote
    BY <1>1, <1>11 DEF Cs!EndOfCell, Cs!Reads, Cs!Comma, Cs!Quote
  <2>2. Placed(Append(rows, Append(Append(row, field), <<>>)), i + 1)
    BY <1>1, <1>3, <2>1, ReadComma
  <2> QED  BY <1>1, <1>2, <1>3, <1>5, <1>11, <2>1, <2>2, ReadingGoesOn DEF Cs!EndOfCell, Cs!Goes, FileTyped
<1>12. CASE Cs!EndOfRow
  <2>1. text[i] = Cs!Lf /\ ~Cs!Inside(i) /\ text[i] # Cs!Quote
    BY <1>1, <1>12 DEF Cs!EndOfRow, Cs!Reads, Cs!Lf, Cs!Quote
  <2>2. Placed(Append(Append(rows, Append(row, field)), Append(<<>>, <<>>)), i + 1)
    BY <1>1, <1>3, <2>1, ReadLineFeed
  <2>3. Append(rows, Append(row, field)) \in Seq(Seq(Seq(Cs!Alphabet))) /\ <<>> \in Seq(Seq(Cs!Alphabet))
           /\ <<>> \in Seq(Cs!Alphabet)
    BY <1>1 DEF FileTyped
  <2> QED  BY <1>1, <1>2, <1>3, <1>5, <1>12, <2>1, <2>2, <2>3, ReadingGoesOn DEF Cs!EndOfRow, Cs!Goes,
         FileTyped
<1>13. CASE Cs!CarriageReturn
  <2>1. text[i] = Cs!Cr /\ ~Cs!Inside(i) /\ text[i] # Cs!Quote /\ ~Cs!IsContent(i) /\ text[i] \notin {Cs!Comma, Cs!Lf}
    BY <1>1, <1>13 DEF Cs!CarriageReturn, Cs!Reads, Cs!Cr, Cs!Quote, Cs!IsContent, Cs!Comma, Cs!Lf
  <2>2. Placed(Collected, i + 1)
    BY <1>1, <1>3, <2>1, PlacedPassed
  <2> QED  BY <1>1, <1>2, <1>3, <1>5, <1>13, <2>1, <2>2, ReadingGoesOn DEF Cs!CarriageReturn, Cs!Goes,
         FileTyped, Collected
<1> QED  BY <1>6, <1>7, <1>8, <1>9, <1>10, <1>11, <1>12, <1>13 DEF Cs!Next

LEMMA LeastPlace ==
  ASSUME NEW N \in SUBSET Nat, N # {}
  PROVE  \E n \in N : \A k \in N : n <= k
<1> DEFINE R == {ss \in Nat \X Nat : ss[1] < ss[2]}
<1>1. IsWellFoundedOn(R, Nat)
  BY NatLessThanWellFounded DEF OpToRel
<1>2. PICK n \in N : \A k \in N : <<k, n>> \notin R
  BY <1>1, WFMin
<1>3. ASSUME NEW k \in N PROVE n <= k
  <2>1. <<k, n>> \in Nat \X Nat /\ ~(k < n)
    BY <1>2
  <2> QED  BY <2>1
<1> QED  BY <1>3

\* Dropping the blank rows at the end keeps the others, up to the last that says something.
LEMMA KeptRows ==
  ASSUME NEW rs \in Seq(Seq(Seq(Cs!Alphabet)))
  PROVE  \E m \in 0..Len(rs) : /\ Cs!WithoutTrailingBlankRows(rs) = SubSeq(rs, 1, m)
                               /\ m > 0 => ~Cs!IsBlankRow(rs[m])
                               /\ \A j \in m + 1..Len(rs) : Cs!IsBlankRow(rs[j])
<1> DEFINE N == {m \in 0..Len(rs) : \A j \in m + 1..Len(rs) : Cs!IsBlankRow(rs[j])}
<1>1. Len(rs) \in Nat /\ DOMAIN rs = 1..Len(rs)
  OBVIOUS
<1>2. Len(rs) \in N /\ N \in SUBSET Nat
  BY <1>1
<1>3. PICK m \in N : \A k \in N : m <= k
  <2> HIDE DEF N
  <2> QED  BY <1>2, LeastPlace
<1>4. ASSUME m > 0 PROVE ~Cs!IsBlankRow(rs[m])
  <2>1. m - 1 \in 0..Len(rs) /\ ~(m <= m - 1)
    BY <1>1, <1>3, <1>4
  <2>2. m - 1 \notin N
    BY <1>3, <2>1
  <2>3. PICK j \in m - 1 + 1..Len(rs) : ~Cs!IsBlankRow(rs[j])
    BY <2>1, <2>2
  <2>4. j = m \/ j \in m + 1..Len(rs)
    BY <1>1, <1>3, <2>3
  <2> QED  BY <1>3, <2>3, <2>4
<1>5. {k \in DOMAIN rs : \E j \in k..Len(rs) : ~Cs!IsBlankRow(rs[j])} = 1..m
  <2>1. ASSUME NEW k \in 1..Len(rs), NEW j \in k..Len(rs), ~Cs!IsBlankRow(rs[j]) PROVE k \in 1..m
    <3>1. ~(j \in m + 1..Len(rs))
      BY <1>3, <2>1
    <3> QED  BY <1>1, <1>3, <3>1
  <2>2. ASSUME NEW k \in 1..m PROVE k \in 1..Len(rs) /\ \E j \in k..Len(rs) : ~Cs!IsBlankRow(rs[j])
    <3>1. m > 0 /\ m \in k..Len(rs) /\ k \in 1..Len(rs)
      BY <1>1, <1>3
    <3> QED  BY <1>4, <3>1
  <2> QED  BY <1>1, <2>1, <2>2
<1>6. Cs!Cardinality(1..m) = m
  <2>1. m \in Nat /\ 1 \in Int /\ m \in Int
    BY <1>1, <1>3
  <2>2. Cs!Cardinality(1..m) = IF 1 > m THEN 0 ELSE m - 1 + 1
    BY <2>1, FS_Interval, FileCount
  <2> QED  BY <2>1, <2>2
<1>7. Cs!WithoutTrailingBlankRows(rs) = SubSeq(rs, 1, m)
  BY <1>5, <1>6 DEF Cs!WithoutTrailingBlankRows
<1> QED  BY <1>3, <1>4, <1>7

\* A character in a row that says nothing says nothing, and one that says nothing is all there is
\* in one.
LEMMA BlankRowsSayNothing ==
  ASSUME NEW n \in Nat \ {0}, NEW t, Placed(t, n), NEW r \in 1..Len(t)
  PROVE  /\ Cs!IsBlankRow(t[r]) => \A k \in 1..n - 1 : Cs!RowOf(k) = r => ~Cs!Says(k)
         /\ ~Cs!IsBlankRow(t[r]) => \E k \in 1..n - 1 : Cs!Says(k) /\ Cs!RowOf(k) = r
<1>1. DOMAIN t[r] = 1..Len(t[r]) /\ \A c \in 1..Len(t[r]) : DOMAIN t[r][c] = 1..Len(t[r][c])
  <2>1. t[r] \in Seq(Seq(Cs!Alphabet)) /\ \A c \in 1..Len(t[r]) : t[r][c] \in Seq(Cs!Alphabet)
    BY PlacedShape
  <2> QED  BY <2>1
<1>2. Cs!IsBlankRow(t[r]) <=>
        \A c \in 1..Len(t[r]) : \A p \in 1..Len(t[r][c]) : t[r][c][p] \in Cs!Trimmed
  <2>1. \A c \in 1..Len(t[r]) :
          Cs!BlankCell(t[r][c]) <=> \A p \in 1..Len(t[r][c]) : t[r][c][p] \in Cs!Trimmed
    BY <1>1 DEF Cs!BlankCell, Cs!ToSet
  <2>2. Cs!IsBlankRow(t[r]) <=> \A c \in 1..Len(t[r]) : Cs!BlankCell(t[r][c])
    BY <1>1 DEF Cs!IsBlankRow, Cs!ToSet
  <2> QED  BY <2>1, <2>2
<1>3. ASSUME Cs!IsBlankRow(t[r]), NEW k \in 1..n - 1, Cs!RowOf(k) = r, Cs!Says(k) PROVE FALSE
  <2>1. Cs!IsContent(k) /\ text[k] \notin Cs!Trimmed
    BY <1>3 DEF Cs!Says
  <2>2. /\ Cs!CellOf(k) \in 1..Len(t[r]) /\ Cs!PlaceOf(k) \in 1..Len(t[r][Cs!CellOf(k)])
        /\ t[r][Cs!CellOf(k)][Cs!PlaceOf(k)] = text[k]
    BY <1>3, <2>1, PlacedShape DEF Placed
  <2> QED  BY <1>2, <1>3, <2>1, <2>2
<1>4. ASSUME ~Cs!IsBlankRow(t[r]) PROVE \E k \in 1..n - 1 : Cs!Says(k) /\ Cs!RowOf(k) = r
  <2>1. PICK c \in 1..Len(t[r]) : \E p \in 1..Len(t[r][c]) : t[r][c][p] \notin Cs!Trimmed
    BY <1>2, <1>4
  <2>2. PICK p \in 1..Len(t[r][c]) : t[r][c][p] \notin Cs!Trimmed
    BY <2>1
  <2>3. \A q \in 1..Len(t[r][c]) :
          \E k \in 1..n - 1 : Cs!IsContent(k) /\ Cs!RowOf(k) = r /\ Cs!CellOf(k) = c /\ Cs!PlaceOf(k) = q
    BY DEF Placed
  <2>4. PICK k \in 1..n - 1 : Cs!IsContent(k) /\ Cs!RowOf(k) = r /\ Cs!CellOf(k) = c /\ Cs!PlaceOf(k) = p
    BY <2>3
  <2>5. t[r][c][p] = text[k]
    BY <2>4 DEF Placed
  <2> QED  BY <2>2, <2>4, <2>5 DEF Cs!Says
<1> QED  BY <1>3, <1>4

\* What the loop leaves at the end of the text, without the blank rows at its end.
Kept(m) ==
  /\ m \in 0..Len(Collected)
  /\ m > 0 => ~Cs!IsBlankRow(Collected[m])
  /\ \A j \in m + 1..Len(Collected) : Cs!IsBlankRow(Collected[j])

LEMMA TextEnds ==
  ASSUME FileTyped, Cs!EndOfText
  PROVE  \E m \in Nat : Kept(m) /\ rows' = SubSeq(Collected, 1, m)
<1>1. /\ Collected \in Seq(Seq(Seq(Cs!Alphabet))) /\ Len(Collected) = Len(rows) + 1 /\ Len(rows) \in Nat
      /\ Collected[Len(Collected)] = Append(row, field) /\ \A r \in 1..Len(rows) : Collected[r] = rows[r]
      /\ rows \in Seq(Seq(Seq(Cs!Alphabet)))
  BY CollectedShape DEF FileTyped
<1>2. CASE field # <<>> \/ row # <<>>
  <2>1. rows' = Cs!WithoutTrailingBlankRows(Collected)
    BY <1>2 DEF Cs!EndOfText, Collected
  <2>2. PICK m \in 0..Len(Collected) : /\ Cs!WithoutTrailingBlankRows(Collected) = SubSeq(Collected, 1, m)
                                       /\ m > 0 => ~Cs!IsBlankRow(Collected[m])
                                       /\ \A j \in m + 1..Len(Collected) : Cs!IsBlankRow(Collected[j])
    BY <1>1, KeptRows
  <2> QED  BY <2>1, <2>2 DEF Kept
<1>3. CASE field = <<>> /\ row = <<>>
  <2>1. rows' = Cs!WithoutTrailingBlankRows(rows)
    BY <1>3 DEF Cs!EndOfText
  <2>2. PICK m \in 0..Len(rows) : /\ Cs!WithoutTrailingBlankRows(rows) = SubSeq(rows, 1, m)
                                  /\ m > 0 => ~Cs!IsBlankRow(rows[m])
                                  /\ \A j \in m + 1..Len(rows) : Cs!IsBlankRow(rows[j])
    BY <1>1, KeptRows
  <2>3. Cs!IsBlankRow(Append(row, field))
    <3>1. Append(row, field) = << <<>> >>
      BY <1>3
    <3> QED  BY <3>1 DEF Cs!IsBlankRow, Cs!BlankCell, Cs!ToSet
  <2>4. \A j \in m + 1..Len(Collected) : Cs!IsBlankRow(Collected[j])
    <3>1. ASSUME NEW j \in m + 1..Len(Collected) PROVE Cs!IsBlankRow(Collected[j])
      <4>1. j = Len(Collected) \/ (j \in m + 1..Len(rows) /\ j \in 1..Len(rows))
        BY <1>1
      <4> QED  BY <1>1, <2>2, <2>3, <4>1
    <3> QED  BY <3>1
  <2>5. m \in 0..Len(Collected) /\ (m > 0 => ~Cs!IsBlankRow(Collected[m]))
    <3>1. m > 0 => m \in 1..Len(rows)
      BY <1>1
    <3> QED  BY <1>1, <2>2, <3>1
  <2>6. SubSeq(rows, 1, m) = SubSeq(Collected, 1, m)
    <3>1. \A r \in 1..m : r \in 1..Len(rows) /\ rows[r] = Collected[r]
      BY SMTT(60), <1>1
    <3>2. SubSeq(rows, 1, m) = [r \in 1..m |-> rows[r]] /\ SubSeq(Collected, 1, m) = [r \in 1..m |-> Collected[r]]
      BY <1>1
    <3> QED  BY <3>1, <3>2
  <2>7. m \in Nat /\ Kept(m)
    BY <1>1, <2>4, <2>5 DEF Kept
  <2>8. rows' = SubSeq(Collected, 1, m)
    BY <2>1, <2>2, <2>6
  <2> QED  BY <2>7, <2>8
<1> QED  BY <1>2, <1>3

LEMMA FilesCount == ASSUME NEW S PROVE Cs!Cardinality(S) = Cardinality(S)
BY DEF Cs!Cardinality, Cardinality

\* So the rows that are left are what the rules say.
LEMMA ReadByTheRules ==
  ASSUME Reading, Cs!EndOfText
  PROVE  Cs!ParsesByTheRules' /\ Cs!NumberedAsInFile'
<1> DEFINE n == Len(text) + 1
<1>1. FileTyped /\ Placed(Collected, i) /\ i = n /\ n \in Nat \ {0} /\ DOMAIN text = 1..n - 1
  BY DEF Reading, FileTyped, Texts, Cs!EndOfText
<1>2. PICK m \in Nat : Kept(m) /\ rows' = SubSeq(Collected, 1, m)
  BY <1>1, TextEnds
<1>3. /\ Placed(Collected, n) /\ Collected \in Seq(Seq(Seq(Cs!Alphabet))) /\ Len(Collected) \in Nat
      /\ Len(Collected) = Cs!RowOf(n)
  <2>1. Placed(Collected, n)
    BY <1>1
  <2>2. Len(Collected) \in Nat
    BY <1>1, <2>1, PlacedShape
  <2> QED  BY <2>1, <2>2 DEF Placed
<1>4. /\ m <= Len(Collected) /\ Len(rows') = m /\ DOMAIN rows' = 1..m
      /\ \A r \in 1..m : r \in 1..Len(Collected) /\ rows'[r] = Collected[r]
  BY <1>2, <1>3 DEF Kept
<1>5. /\ m > 0 => ~Cs!IsBlankRow(Collected[m])
      /\ \A j \in 1..Len(Collected) : j \in 1..m \/ Cs!IsBlankRow(Collected[j])
  BY <1>2, <1>3, <1>4 DEF Kept
<1>6. text' = text
  BY DEF Cs!EndOfText
<1>7. (Cs!EndOf)' = n /\ DOMAIN text' = 1..n - 1
  BY <1>1, <1>6 DEF Cs!EndOf
<1>8. \A k : /\ Cs!IsContent(k)' <=> Cs!IsContent(k)
             /\ Cs!RowOf(k)' = Cs!RowOf(k) /\ Cs!CellOf(k)' = Cs!CellOf(k) /\ Cs!PlaceOf(k)' = Cs!PlaceOf(k)
             /\ (Cs!Says(k)' <=> Cs!Says(k)) /\ (\A r : Cs!CellsOf(r, k)' = Cs!CellsOf(r, k))
             /\ (\A r, c : Cs!Of(r, c, k)' = Cs!Of(r, c, k))
  BY <1>6, SameText DEF Cs!Says
<1> HIDE DEF n
<1>9. Cs!RowOf(Cs!EndOf)' = Cs!RowOf(n) /\ (\A r : Cs!CellsOf(r, Cs!EndOf)' = Cs!CellsOf(r, n))
      /\ \A r, c : Cs!Of(r, c, Cs!EndOf)' = Cs!Of(r, c, n)
  BY <1>6, <1>7, SameText DEF Cs!RowOf, Cs!CellsOf, Cs!Of, Cs!Ends, Cs!Inside, Cs!QuotesBefore
<1>10. ASSUME NEW r \in 1..m
       PROVE  /\ r <= Cs!RowOf(n) /\ Len(rows'[r]) = Cs!CellsOf(r, n) /\ DOMAIN rows'[r] = 1..Len(rows'[r])
              /\ \A c \in 1..Len(rows'[r]) : Len(rows'[r][c]) = Cs!Cardinality(Cs!Of(r, c, n))
  <2>1. r \in 1..Len(Collected) /\ rows'[r] = Collected[r] /\ Collected[r] \in Seq(Seq(Cs!Alphabet))
    <3>1. r \in 1..Len(Collected) /\ rows'[r] = Collected[r]
      BY <1>4
    <3>2. \A s \in 1..Len(Collected) : Collected[s] \in Seq(Seq(Cs!Alphabet))
      BY <1>3
    <3> QED  BY <3>1, <3>2
  <2>2. DOMAIN Collected[r] = 1..Len(Collected[r])
    BY <2>1
  <2>3. /\ Len(Collected[r]) = Cs!CellsOf(r, n)
        /\ \A c \in 1..Len(Collected[r]) : Len(Collected[r][c]) = Cs!Cardinality(Cs!Of(r, c, n))
    BY <1>3, <2>1 DEF Placed
  <2>4. r <= Cs!RowOf(n)
    BY <1>3, <2>1
  <2> QED  BY <2>1, <2>2, <2>3, <2>4
<1>11. ASSUME NEW k \in 1..n - 1, Cs!IsContent(k)
       PROVE  IF Cs!RowOf(k) \in 1..m THEN rows'[Cs!RowOf(k)][Cs!CellOf(k)][Cs!PlaceOf(k)] = text[k] ELSE ~Cs!Says(k)
  <2>1. Cs!RowOf(k) \in 1..Len(Collected) /\ Collected[Cs!RowOf(k)][Cs!CellOf(k)][Cs!PlaceOf(k)] = text[k]
    BY <1>1, <1>3, <1>11, PlacedShape DEF Placed
  <2>2. ASSUME Cs!RowOf(k) \notin 1..m PROVE ~Cs!Says(k)
    <3>1. Cs!IsBlankRow(Collected[Cs!RowOf(k)])
      BY <1>5, <2>1, <2>2
    <3> QED  BY <1>1, <1>3, <2>1, <3>1, BlankRowsSayNothing
  <2> QED  BY <1>4, <2>1, <2>2
<1>12. rows' # <<>> => ~Cs!IsBlankRow(rows'[Len(rows')])
  <2>1. rows' # <<>> => m > 0 /\ m \in 1..m
    BY <1>2, <1>3, <1>4
  <2> QED  BY <1>4, <1>5, <2>1
<1>13. Cs!ParsesByTheRules'
  <2>1. \A r \in DOMAIN rows' :
          /\ r <= Cs!RowOf(Cs!EndOf)' /\ Len(rows'[r]) = Cs!CellsOf(r, Cs!EndOf)'
          /\ \A c \in DOMAIN rows'[r] : Len(rows'[r][c]) = Cs!Cardinality(Cs!Of(r, c, Cs!EndOf)')
    BY <1>4, <1>9, <1>10
  <2>2. \A k \in DOMAIN text' : Cs!IsContent(k)' =>
          IF Cs!RowOf(k)' \in DOMAIN rows' THEN rows'[Cs!RowOf(k)'][Cs!CellOf(k)'][Cs!PlaceOf(k)'] = text'[k]
          ELSE ~Cs!Says(k)'
    BY <1>4, <1>6, <1>7, <1>8, <1>11
  <2>3. (rows # <<>> => ~Cs!IsBlankRow(rows[Len(rows)]))'
    BY <1>12 DEF Cs!IsBlankRow, Cs!BlankCell
  <2> QED  BY <2>1, <2>2, <2>3 DEF Cs!ParsesByTheRules
<1> DEFINE Below == {j \in 1..m : j > 1 /\ ~Cs!IsBlankRow(Collected[j])}
<1>14. /\ (Cs!Shaped)' = Below
       /\ (Cs!ShapeRows)' = IF Cs!Cardinality(Below) > MaxImportRows THEN {}
                            ELSE {[lineNumber |-> k, cells |-> Collected[k]] : k \in Below}
  <2>1. (Cs!Shaped)' = {j \in 1..m : j > 1 /\ ~Cs!IsBlankRow(rows'[j])}
    BY <1>4 DEF Cs!Shaped, Cs!IsBlankRow, Cs!BlankCell
  <2>2. (Cs!Shaped)' = Below
    BY <1>4, <2>1
  <2>3. \A j \in Below : rows'[j] = Collected[j]
    BY <1>4
  <2> QED  BY <2>2, <2>3 DEF Cs!ShapeRows
<1>15. ASSUME ~(Cs!Cardinality(Below) > MaxImportRows),
              NEW k \in 1..n - 1, Cs!Says(k), Cs!RowOf(k) > 1
       PROVE  \E shaped \in (Cs!ShapeRows)' : shaped.lineNumber = Cs!RowOf(k)
                                           /\ shaped.cells[Cs!CellOf(k)][Cs!PlaceOf(k)] = text[k]
  <2>1. Cs!IsContent(k) /\ Cs!RowOf(k) \in 1..m
    BY <1>11, <1>15 DEF Cs!Says
  <2>2. Cs!RowOf(k) \in 1..Len(Collected) /\ Collected[Cs!RowOf(k)][Cs!CellOf(k)][Cs!PlaceOf(k)] = text[k]
    BY <1>1, <1>3, <2>1, PlacedShape DEF Placed
  <2>3. ~Cs!IsBlankRow(Collected[Cs!RowOf(k)])
    BY <1>1, <1>3, <1>15, <2>2, BlankRowsSayNothing
  <2>4. [lineNumber |-> Cs!RowOf(k), cells |-> Collected[Cs!RowOf(k)]] \in (Cs!ShapeRows)'
    BY <1>14, <1>15, <2>1, <2>3
  <2> QED  BY <2>2, <2>4
<1>16. \A r \in Below : \E k \in 1..n - 1 : Cs!Says(k) /\ Cs!RowOf(k) = r
  BY <1>1, <1>3, <1>4, BlankRowsSayNothing
<1>17. (Cs!SayingLines)' = {Cs!RowOf(k) : k \in {j \in 1..n - 1 : Cs!Says(j) /\ Cs!RowOf(j) > 1}}
  BY <1>7, <1>8 DEF Cs!SayingLines
<1>18. ASSUME Cs!Cardinality(Below) > MaxImportRows
       PROVE  (Cs!ShapeRows)' = {} /\ Cs!Cardinality((Cs!SayingLines)') > MaxImportRows
  <2>1. Below \subseteq (Cs!SayingLines)'
    BY <1>16, <1>17
  <2>2. (Cs!SayingLines)' \subseteq 1..m
    BY <1>11, <1>17 DEF Cs!Says
  <2>3. IsFiniteSet((Cs!SayingLines)')
    <3>1. IsFiniteSet(1..m)
      BY <1>2, FS_Interval
    <3> QED  BY <2>2, <3>1, FS_Subset
  <2>4. Cardinality(Below) <= Cardinality((Cs!SayingLines)') /\ IsFiniteSet(Below)
    BY <2>1, <2>3, FS_Subset
  <2>5. Cardinality(Below) \in Nat /\ Cardinality((Cs!SayingLines)') \in Nat /\ MaxImportRows \in Nat
    BY <2>3, <2>4, FS_CardinalityType, FilesAssumption
  <2>6. Cardinality(Below) > MaxImportRows
    BY <1>18, FilesCount
  <2>7. Cardinality((Cs!SayingLines)') > MaxImportRows
    BY <2>4, <2>5, <2>6
  <2> QED  BY <1>14, <1>18, <2>7, FilesCount
<1>19. ASSUME NEW shaped \in (Cs!ShapeRows)'
       PROVE  \E k \in 1..n - 1 : Cs!Says(k) /\ Cs!RowOf(k) = shaped.lineNumber
  <2>1. PICK r \in Below : shaped = [lineNumber |-> r, cells |-> Collected[r]]
    BY <1>14, <1>19
  <2> QED  BY <1>16, <2>1
<1>20. Cs!NumberedAsInFile'
  <2>1. ASSUME ~(Cs!Cardinality(Below) > MaxImportRows)
        PROVE  \A k \in DOMAIN text' : Cs!Says(k)' /\ Cs!RowOf(k)' > 1 =>
                 \E shaped \in (Cs!ShapeRows)' : shaped.lineNumber = Cs!RowOf(k)'
                                             /\ shaped.cells[Cs!CellOf(k)'][Cs!PlaceOf(k)'] = text'[k]
    BY <1>6, <1>7, <1>8, <1>15, <2>1
  <2>2. \A shaped \in (Cs!ShapeRows)' : \E k \in DOMAIN text' : Cs!Says(k)' /\ Cs!RowOf(k)' = shaped.lineNumber
    BY <1>7, <1>8, <1>19
  <2> QED  BY <1>18, <2>1, <2>2 DEF Cs!NumberedAsInFile
<1> QED  BY <1>13, <1>20

\* What parts.join(between) makes of the parts from the n-th on.
Rest(parts, between, n) ==
  LET from[m \in 1..Len(parts) + 1] ==
        IF m > Len(parts) THEN <<>>
        ELSE IF m = Len(parts) THEN parts[m] ELSE parts[m] \o between \o from[m + 1]
  IN  from[n]

\* The joining comes to an end, and goes part by part.
LEMMA RestUnfolds ==
  ASSUME NEW parts \in Seq(Texts), NEW between \in Texts, NEW n \in 1..Len(parts) + 1
  PROVE  /\ Rest(parts, between, n) =
              IF n > Len(parts) THEN <<>>
              ELSE IF n = Len(parts) THEN parts[n]
              ELSE parts[n] \o between \o Rest(parts, between, n + 1)
         /\ Rest(parts, between, n) \in Texts
<1>1. Len(parts) \in Nat
  OBVIOUS
<1>2. \E g : g = [m \in 1..Len(parts) + 1 |->
                  IF m > Len(parts) THEN <<>>
                  ELSE IF m = Len(parts) THEN parts[m] ELSE parts[m] \o between \o g[m + 1]]
  <2> DEFINE N == Len(parts)
             Body(v, m) == IF m > N THEN <<>> ELSE IF m = N THEN parts[m] ELSE parts[m] \o between \o v
             Is(g, d) == g = [m \in N + 1 - d..N + 1 |-> Body(g[m + 1], m)]
             There(d) == \E g : Is(g, d)
             Missed == {d \in Nat : d <= N /\ ~There(d)}
  <2>0. N \in Nat
    BY <1>1
  <2> HIDE DEF N, There
  <2>1. CASE Missed = {}
    <3>1. N + 1 - N = 1
      BY <2>0
    <3>2. There(N)
      BY <2>0, <2>1
    <3> QED  BY <3>1, <3>2 DEF There, N
  <2>2. CASE Missed # {}
    <3>1. Missed \in SUBSET Nat
      OBVIOUS
    <3>2. PICK d \in Missed : \A k \in Missed : d <= k
      <4> HIDE DEF Missed
      <4> QED  BY <2>2, <3>1, LeastPlace
    <3>3. d \in 0..N /\ ~There(d)
      BY <2>0, <3>2
    <3>4. CASE d = 0
      <4> DEFINE g == [m \in N + 1 - d..N + 1 |-> <<>>]
      <4>1. \A m \in N + 1 - d..N + 1 : m > N
        BY <2>0, <3>4
      <4>2. Is(g, d)
        BY <4>1
      <4> QED  BY <3>3, <4>2 DEF There
    <3>5. CASE d # 0
      <4>1. d - 1 \in 0..N /\ d - 1 \notin Missed
        <5>1. d - 1 \in 0..N /\ ~(d <= d - 1)
          BY <2>0, <3>3, <3>5
        <5> HIDE DEF Missed
        <5> QED  BY <3>2, <5>1
      <4>2. PICK f : Is(f, d - 1)
        <5>1. There(d - 1)
          BY <2>0, <4>1
        <5> QED  BY <5>1 DEF There
      <4> DEFINE a == N + 1 - d
                 g == [m \in a..N + 1 |-> IF m = a THEN Body(f[a + 1], a) ELSE f[m]]
      <4>3. a \in 1..N /\ N + 1 - (d - 1) = a + 1
        BY <2>0, <3>3, <3>5
      <4>4. ASSUME NEW m \in a..N + 1 PROVE g[m] = Body(g[m + 1], m)
        <5>1. CASE m = a
          <6>1. a + 1 \in a..N + 1 /\ a + 1 # a
            BY <2>0, <4>3
          <6>2. g[m + 1] = f[a + 1]
            BY <5>1, <6>1
          <6> QED  BY <5>1, <6>2
        <5>2. CASE m # a
          <6>1. m \in a + 1..N + 1 /\ g[m] = f[m]
            BY <2>0, <4>3, <5>2
          <6>2. f[m] = Body(f[m + 1], m)
            BY <4>2, <4>3, <6>1
          <6>3. m <= N => g[m + 1] = f[m + 1]
            BY <2>0, <4>3, <6>1
          <6>4. m <= N \/ m > N
            BY <2>0, <4>3, <6>1
          <6> QED  BY <6>1, <6>2, <6>3, <6>4
        <5> QED  BY <5>1, <5>2
      <4>5. g = [m \in a..N + 1 |-> g[m]]
        OBVIOUS
      <4> HIDE DEF g
      <4>6. g = [m \in a..N + 1 |-> Body(g[m + 1], m)]
        BY ZenonT(60), <4>4, <4>5
      <4> QED  BY <3>3, <4>6 DEF There
    <3> QED  BY <2>0, <3>4, <3>5
  <2> QED  BY <2>1, <2>2
<1> DEFINE from[m \in 1..Len(parts) + 1] ==
             IF m > Len(parts) THEN <<>>
             ELSE IF m = Len(parts) THEN parts[m] ELSE parts[m] \o between \o from[m + 1]
<1>3. from = [m \in 1..Len(parts) + 1 |->
                IF m > Len(parts) THEN <<>>
                ELSE IF m = Len(parts) THEN parts[m] ELSE parts[m] \o between \o from[m + 1]]
  BY ZenonT(60), <1>2
<1>4. \A m : Rest(parts, between, m) = from[m]
  BY DEF Rest
<1> HIDE DEF from
<1> DEFINE N == Len(parts)
<1>5. ASSUME NEW m \in 1..N + 1
      PROVE  from[m] = IF m > N THEN <<>> ELSE IF m = N THEN parts[m] ELSE parts[m] \o between \o from[m + 1]
  BY <1>3
<1> HIDE DEF N
<1>6. \A m \in 1..N + 1 : from[m] \in Texts
  <2>0. N \in Nat
    BY <1>1 DEF N
  <2> DEFINE Bad == {d \in 0..N : from[N + 1 - d] \notin Texts}
  <2>1. CASE Bad = {}
    <3>1. ASSUME NEW m \in 1..N + 1 PROVE from[m] \in Texts
      <4>1. N + 1 - m \in 0..N /\ N + 1 - (N + 1 - m) = m
        BY <2>0
      <4> QED  BY <2>1, <4>1
    <3> QED  BY <3>1
  <2>2. CASE Bad # {}
    <3>1. Bad \in SUBSET Nat
      OBVIOUS
    <3>2. PICK d \in Bad : \A k \in Bad : d <= k
      <4> HIDE DEF Bad
      <4> QED  BY <2>2, <3>1, LeastPlace
    <3> DEFINE m == N + 1 - d
    <3>3. d \in 0..N /\ m \in 1..N + 1 /\ from[m] \notin Texts
      BY <2>0, <3>2
    <3>4. <<>> \in Texts /\ \A k \in 1..N : parts[k] \in Texts
      BY DEF Texts, N
    <3>5. m \in 1..N - 1
      BY <2>0, <1>5, <3>3, <3>4
    <3>6. d - 1 \in 0..N /\ N + 1 - (d - 1) = m + 1 /\ ~(d <= d - 1)
      BY <2>0, <3>3, <3>5
    <3>7. from[m + 1] \in Texts
      BY <3>2, <3>6
    <3>8. from[m] = parts[m] \o between \o from[m + 1] /\ parts[m] \in Texts
      <4>1. ~(m > N) /\ m # N /\ m \in 1..N
        BY <2>0, <3>5
      <4> HIDE DEF m
      <4> QED  BY <1>5, <3>3, <3>4, <4>1
    <3>9. from[m] \in Texts
      BY <3>7, <3>8 DEF Texts
    <3> QED  BY <3>3, <3>9
  <2> QED  BY <2>1, <2>2
<1> QED  BY <1>4, <1>5, <1>6 DEF N

\* What is left of the text from n on is w.
Left(n, w) ==
  /\ n \in 1..Len(text) + 1 /\ w \in Texts /\ Len(text) + 1 = n + Len(w)
  /\ \A p \in 1..Len(w) : text[n + p - 1] = w[p]

LEMMA LeftBegins ==
  ASSUME text \in Texts
  PROVE  Left(1, text)
<1>1. \A p \in 1..Len(text) : 1 + p - 1 = p
  BY DEF Texts
<1> QED  BY <1>1 DEF Left, Texts

LEMMA LeftGoesOn ==
  ASSUME text \in Texts, NEW n, NEW x \in Cs!Alphabet, NEW u \in Texts, Left(n, <<x>> \o u)
  PROVE  n \in DOMAIN text /\ text[n] = x /\ Cs!At(n) = x /\ Left(n + 1, u)
<1> DEFINE w == <<x>> \o u
<1>1. Len(w) = Len(u) + 1 /\ w[1] = x /\ Len(u) \in Nat /\ \A p \in 1..Len(u) : w[p + 1] = u[p]
  BY DEF Texts
<1>2. /\ n \in 1..Len(text) + 1 /\ Len(text) + 1 = n + Len(w) /\ Len(text) \in Nat /\ DOMAIN text = 1..Len(text)
      /\ \A p \in 1..Len(w) : text[n + p - 1] = w[p]
  BY DEF Left, Texts
<1> HIDE DEF w
<1>3. n \in DOMAIN text /\ n + 1 \in 1..Len(text) + 1 /\ Len(text) + 1 = n + 1 + Len(u)
  BY <1>1, <1>2
<1>4. text[n] = x
  <2>1. 1 \in 1..Len(w) /\ n + 1 - 1 = n
    BY <1>1, <1>2
  <2> QED  BY <1>1, <1>2, <2>1
<1>5. ASSUME NEW p \in 1..Len(u) PROVE text[n + 1 + p - 1] = u[p]
  <2>1. p + 1 \in 1..Len(w) /\ n + (p + 1) - 1 = n + 1 + p - 1
    BY <1>1, <1>2
  <2> QED  BY <1>1, <1>2, <2>1
<1> QED  BY <1>3, <1>4, <1>5 DEF Left, Cs!At

LEMMA LeftIsOver ==
  ASSUME text \in Texts, NEW n, Left(n, <<>>)
  PROVE  n = Len(text) + 1 /\ Cs!At(n) = None
<1>1. n = Len(text) + 1
  BY SMTT(60) DEF Left, Texts
<1> QED  BY <1>1 DEF Cs!At, Texts

\* Beginnings and ends of a text.
LEMMA TextInTwo ==
  ASSUME NEW w \in Texts, NEW k \in 0..Len(w) - 1, NEW u \in Texts
  PROVE  /\ w[k + 1] \in Cs!Alphabet /\ SubSeq(w, k + 1, Len(w)) \in Texts /\ SubSeq(w, k + 2, Len(w)) \in Texts
         /\ SubSeq(w, k + 1, Len(w)) \o u = <<w[k + 1]>> \o (SubSeq(w, k + 2, Len(w)) \o u)
         /\ Append(SubSeq(w, 1, k), w[k + 1]) = SubSeq(w, 1, k + 1)
<1>1. Len(w) \in Nat /\ k + 1 \in 1..Len(w) /\ w[k + 1] \in Cs!Alphabet /\ Len(u) \in Nat
  BY DEF Texts
<1> DEFINE v == SubSeq(w, k + 1, Len(w))
           z == SubSeq(w, k + 2, Len(w))
<1>2. v \in Texts /\ Len(v) = Len(w) - k /\ \A p \in 1..Len(w) - k : v[p] = w[k + p]
  BY <1>1 DEF Texts
<1>3. z \in Texts /\ Len(z) = Len(w) - k - 1 /\ \A p \in 1..Len(w) - k - 1 : z[p] = w[k + 1 + p]
  BY <1>1 DEF Texts
<1> HIDE DEF v, z
<1>4. v \o u = <<w[k + 1]>> \o (z \o u)
  <2> DEFINE a == v \o u
             b == <<w[k + 1]>> \o (z \o u)
  <2>0. \A s \in Texts : s \o u \in Texts /\ Len(s \o u) = Len(s) + Len(u)
                         /\ \A p \in 1..Len(s \o u) : (s \o u)[p] = IF p <= Len(s) THEN s[p] ELSE u[p - Len(s)]
    BY DEF Texts
  <2>1. /\ a \in Texts /\ Len(a) = Len(w) - k + Len(u)
        /\ \A p \in 1..Len(a) : a[p] = IF p <= Len(w) - k THEN v[p] ELSE u[p - (Len(w) - k)]
    BY <1>2, <2>0
  <2>2. /\ z \o u \in Texts /\ Len(z \o u) = Len(w) - k - 1 + Len(u)
        /\ \A p \in 1..Len(z \o u) : (z \o u)[p] = IF p <= Len(w) - k - 1 THEN z[p] ELSE u[p - (Len(w) - k - 1)]
    BY ZenonT(60), <1>3, <2>0
  <2>3. /\ b \in Texts /\ Len(b) = Len(w) - k + Len(u)
        /\ \A p \in 1..Len(b) : b[p] = IF p = 1 THEN w[k + 1] ELSE (z \o u)[p - 1]
    BY SMTT(60), <1>1, <2>2 DEF Texts
  <2>4. ASSUME NEW p \in 1..Len(a) PROVE a[p] = b[p]
    <3> HIDE DEF a, b
    <3>1. CASE p = 1
      BY <1>1, <1>2, <2>1, <2>3, <3>1
    <3>2. CASE p # 1
      <4>1. p - 1 \in 1..Len(z \o u) /\ p \in 1..Len(b)
        BY SMTT(60), <1>1, <2>1, <2>2, <2>3, <3>2
      <4>2. b[p] = (z \o u)[p - 1]
        BY <2>3, <3>2, <4>1
      <4>3. CASE p <= Len(w) - k
        <5>1. (z \o u)[p - 1] = z[p - 1] /\ p - 1 \in 1..Len(w) - k - 1
          BY <1>1, <2>1, <2>2, <4>1, <4>3
        <5>2. z[p - 1] = w[k + p] /\ v[p] = w[k + p]
          <6>1. k + 1 + (p - 1) = k + p /\ p \in 1..Len(w) - k
            BY <1>1, <2>1, <4>3
          <6> QED  BY <1>2, <1>3, <5>1, <6>1
        <5> QED  BY <2>1, <4>2, <4>3, <5>1, <5>2
      <4>4. CASE ~(p <= Len(w) - k)
        <5>1. (z \o u)[p - 1] = u[p - (Len(w) - k)]
          <6>1. p - 1 - (Len(w) - k - 1) = p - (Len(w) - k) /\ ~(p - 1 <= Len(w) - k - 1)
            BY <1>1, <4>4
          <6> QED  BY <2>2, <4>1, <6>1
        <5> QED  BY <2>1, <4>2, <4>4, <5>1
      <4> QED  BY <4>3, <4>4
    <3> QED  BY <3>1, <3>2
  <2> HIDE DEF a, b
  <2>5. a = b
    BY <2>1, <2>3, <2>4 DEF Texts
  <2> QED  BY <2>5 DEF a, b
<1>5. Append(SubSeq(w, 1, k), w[k + 1]) = SubSeq(w, 1, k + 1)
  <2> DEFINE a == SubSeq(w, 1, k)
             b == SubSeq(w, 1, k + 1)
  <2>1. a \in Texts /\ Len(a) = k /\ \A p \in 1..k : a[p] = w[p]
    BY <1>1 DEF Texts
  <2>2. b \in Texts /\ Len(b) = k + 1 /\ \A p \in 1..k + 1 : b[p] = w[p]
    BY <1>1 DEF Texts
  <2> HIDE DEF a, b
  <2>3. /\ Append(a, w[k + 1]) \in Texts /\ Len(Append(a, w[k + 1])) = k + 1
        /\ \A p \in 1..k + 1 : Append(a, w[k + 1])[p] = w[p]
    BY <1>1, <2>1 DEF Texts
  <2>4. Append(a, w[k + 1]) = b
    BY <2>2, <2>3 DEF Texts
  <2> QED  BY <2>4 DEF a, b
<1> QED  BY ZenonT(60), <1>1, <1>2, <1>3, <1>4, <1>5 DEF v, z

LEMMA TextsTogether ==
  /\ <<>> \in Texts /\ \A x \in Cs!Alphabet : <<x>> \in Texts
  /\ \A u, v \in Texts : u \o v \in Texts
  /\ \A u \in Texts : u \o <<>> = u /\ <<>> \o u = u
  /\ \A u, v, w \in Texts : (u \o v) \o w = u \o (v \o w)
BY DEF Texts

\* A table to write has a cell at least in every row.
Writable == {t \in Seq(Seq(Texts)) : \A r \in 1..Len(t) : t[r] # <<>>}

Raw(t, r, c) == Cs!Neutralised(t[r][c])
RawRow(t, r) == [c \in DOMAIN t[r] |-> Cs!Neutralised(t[r][c])]

\* A cell as it is doubled, a row's cells and the rows, as they are joined.
Pairs(cell)    == [k \in DOMAIN cell |-> IF cell[k] = Cs!Quote THEN <<Cs!Quote, Cs!Quote>> ELSE <<cell[k]>>]
RowParts(t, r) == [c \in DOMAIN t[r] |-> Cs!EscapeCsvCell(t[r][c])]
Lines(t)       == [r \in DOMAIN t |-> Cs!Joined([c \in DOMAIN t[r] |-> Cs!EscapeCsvCell(t[r][c])], <<Cs!Comma>>)]

\* What follows a row, begins at a cell, and follows a cell, in the text of the table.
AfterRow(t, r)     == IF r < Len(t) THEN <<Cs!Cr, Cs!Lf>> \o Rest(Lines(t), <<Cs!Cr, Cs!Lf>>, r + 1) ELSE <<>>
FromCell(t, r, c)  == Rest(RowParts(t, r), <<Cs!Comma>>, c) \o AfterRow(t, r)
AfterCell(t, r, c) == IF c < Len(t[r]) THEN <<Cs!Comma>> \o FromCell(t, r, c + 1) ELSE AfterRow(t, r)

Special(cell) == Cs!ToSet(cell) \intersect {Cs!Quote, Cs!Comma, Cs!Cr, Cs!Lf} # {}

LEMMA CharactersThere ==
  /\ {Cs!Quote, Cs!Comma, Cs!Cr, Cs!Lf, "'"} \subseteq Cs!Alphabet
  /\ <<Cs!Quote>> \in Texts /\ <<Cs!Comma>> \in Texts /\ <<Cs!Cr, Cs!Lf>> \in Texts
     /\ <<Cs!Quote, Cs!Quote>> \in Texts
  /\ <<"'">> \in Texts /\ <<Cs!Lf>> \in Texts
<1>1. {Cs!Quote, Cs!Comma, Cs!Cr, Cs!Lf, "'"} \subseteq Cs!Alphabet
  BY DEF Cs!Alphabet
<1> QED  BY <1>1 DEF Texts

\* A doubled cell, character by character.
LEMMA DoubledGoesOn ==
  ASSUME NEW cell \in Texts
  PROVE  /\ Cs!Doubled(cell) = Rest(Pairs(cell), <<>>, 1)
         /\ \A k \in 1..Len(cell) + 1 : Rest(Pairs(cell), <<>>, k) \in Texts
         /\ Rest(Pairs(cell), <<>>, Len(cell) + 1) = <<>>
         /\ \A k \in 1..Len(cell) :
              Rest(Pairs(cell), <<>>, k) =
                (IF cell[k] = Cs!Quote THEN <<Cs!Quote, Cs!Quote>> ELSE <<cell[k]>>) \o Rest(Pairs(cell), <<>>, k + 1)
<1>1. Cs!Doubled(cell) = Rest(Pairs(cell), <<>>, 1)
  BY DEF Cs!Doubled, Cs!Joined, Rest, Pairs
<1>2. Len(cell) \in Nat /\ DOMAIN cell = 1..Len(cell) /\ \A k \in 1..Len(cell) : cell[k] \in Cs!Alphabet
  BY DEF Texts
<1>3. /\ Pairs(cell) \in Seq(Texts) /\ Len(Pairs(cell)) = Len(cell)
      /\ \A k \in 1..Len(cell) : Pairs(cell)[k] = IF cell[k] = Cs!Quote THEN <<Cs!Quote, Cs!Quote>> ELSE <<cell[k]>>
  <2>1. \A k \in 1..Len(cell) : (IF cell[k] = Cs!Quote THEN <<Cs!Quote, Cs!Quote>> ELSE <<cell[k]>>) \in Texts
    BY <1>2, CharactersThere, TextsTogether
  <2> QED  BY <1>2, <2>1 DEF Pairs
<1>4. <<>> \in Texts
  BY TextsTogether
<1>5. ASSUME NEW k \in 1..Len(cell) + 1 PROVE Rest(Pairs(cell), <<>>, k) \in Texts
  BY <1>3, <1>4, RestUnfolds
<1>6. Rest(Pairs(cell), <<>>, Len(cell) + 1) = <<>>
  <2>1. Len(cell) + 1 \in 1..Len(Pairs(cell)) + 1 /\ Len(cell) + 1 > Len(Pairs(cell))
    BY <1>2, <1>3
  <2> QED  BY <1>3, <1>4, <2>1, RestUnfolds
<1>7. ASSUME NEW k \in 1..Len(cell)
      PROVE  Rest(Pairs(cell), <<>>, k) =
               (IF cell[k] = Cs!Quote THEN <<Cs!Quote, Cs!Quote>> ELSE <<cell[k]>>) \o Rest(Pairs(cell), <<>>, k + 1)
  <2>1. k \in 1..Len(Pairs(cell)) + 1 /\ ~(k > Len(Pairs(cell)))
    BY <1>2, <1>3
  <2>2. Rest(Pairs(cell), <<>>, k) =
          IF k = Len(Pairs(cell)) THEN Pairs(cell)[k] ELSE Pairs(cell)[k] \o <<>> \o Rest(Pairs(cell), <<>>, k + 1)
    BY <1>3, <1>4, <2>1, RestUnfolds
  <2>3. Pairs(cell)[k] \in Texts
    BY <1>3
  <2>4. Pairs(cell)[k] \o <<>> = Pairs(cell)[k]
    BY <2>3, TextsTogether
  <2>5. Rest(Pairs(cell), <<>>, k) = Pairs(cell)[k] \o Rest(Pairs(cell), <<>>, k + 1)
    BY <1>3, <1>6, <2>2, <2>4
  <2> QED  BY <1>3, <2>5
<1> QED  BY <1>1, <1>5, <1>6, <1>7

LEMMA CellWritten ==
  ASSUME NEW cell \in Texts
  PROVE  /\ Cs!Neutralised(cell) \in Texts /\ Cs!EscapeCsvCell(cell) \in Texts
         /\ ~Special(Cs!Neutralised(cell)) => Cs!EscapeCsvCell(cell) = Cs!Neutralised(cell)
         /\ Special(Cs!Neutralised(cell)) =>
              Cs!EscapeCsvCell(cell) = <<Cs!Quote>> \o Rest(Pairs(Cs!Neutralised(cell)), <<>>, 1) \o <<Cs!Quote>>
<1>1. Cs!Neutralised(cell) \in Texts
  BY CharactersThere, TextsTogether DEF Cs!Neutralised
<1>2. Cs!Doubled(Cs!Neutralised(cell)) = Rest(Pairs(Cs!Neutralised(cell)), <<>>, 1)
  BY <1>1, DoubledGoesOn
<1>3. Cs!Doubled(Cs!Neutralised(cell)) \in Texts
  <2>1. 1 \in 1..Len(Cs!Neutralised(cell)) + 1
    BY <1>1 DEF Texts
  <2> QED  BY <1>1, <1>2, <2>1, DoubledGoesOn
<1>4. Cs!EscapeCsvCell(cell) = IF Special(Cs!Neutralised(cell))
                               THEN <<Cs!Quote>> \o Cs!Doubled(Cs!Neutralised(cell)) \o <<Cs!Quote>>
                               ELSE Cs!Neutralised(cell)
  BY DEF Cs!EscapeCsvCell, Special
<1>5. <<Cs!Quote>> \o Cs!Doubled(Cs!Neutralised(cell)) \o <<Cs!Quote>> \in Texts
  BY <1>3, CharactersThere, TextsTogether
<1> QED  BY <1>1, <1>2, <1>4, <1>5

LEMMA PartsTyped ==
  ASSUME NEW t \in Writable, NEW r \in 1..Len(t)
  PROVE  /\ t[r] \in Seq(Texts) /\ Len(t[r]) \in Nat \ {0} /\ DOMAIN t[r] = 1..Len(t[r])
         /\ RowParts(t, r) \in Seq(Texts) /\ Len(RowParts(t, r)) = Len(t[r])
         /\ \A c \in 1..Len(t[r]) : RowParts(t, r)[c] = Cs!EscapeCsvCell(t[r][c]) /\ t[r][c] \in Texts
         /\ Lines(t) \in Seq(Texts) /\ Len(Lines(t)) = Len(t)
         /\ Lines(t)[r] = Rest(RowParts(t, r), <<Cs!Comma>>, 1)
<1>1. t \in Seq(Seq(Texts)) /\ Len(t) \in Nat /\ DOMAIN t = 1..Len(t)
  BY DEF Writable
<1>2. ASSUME NEW q \in 1..Len(t)
      PROVE  /\ t[q] \in Seq(Texts) /\ Len(t[q]) \in Nat \ {0} /\ DOMAIN t[q] = 1..Len(t[q])
             /\ \A c \in 1..Len(t[q]) : t[q][c] \in Texts
             /\ RowParts(t, q) \in Seq(Texts) /\ Len(RowParts(t, q)) = Len(t[q])
             /\ \A c \in 1..Len(t[q]) : RowParts(t, q)[c] = Cs!EscapeCsvCell(t[q][c])
             /\ Rest(RowParts(t, q), <<Cs!Comma>>, 1) \in Texts
  <2>1. t[q] \in Seq(Texts) /\ t[q] # <<>>
    BY SMTT(60), <1>1 DEF Writable
  <2>2. Len(t[q]) \in Nat \ {0} /\ DOMAIN t[q] = 1..Len(t[q]) /\ \A c \in 1..Len(t[q]) : t[q][c] \in Texts
    BY <2>1
  <2>3. \A c \in 1..Len(t[q]) : Cs!EscapeCsvCell(t[q][c]) \in Texts
    BY <2>2, CellWritten
  <2>4. /\ RowParts(t, q) \in Seq(Texts) /\ Len(RowParts(t, q)) = Len(t[q])
        /\ \A c \in 1..Len(t[q]) : RowParts(t, q)[c] = Cs!EscapeCsvCell(t[q][c])
    BY <2>2, <2>3 DEF RowParts
  <2>5. Rest(RowParts(t, q), <<Cs!Comma>>, 1) \in Texts
    <3>1. 1 \in 1..Len(RowParts(t, q)) + 1
      BY <2>2, <2>4
    <3> QED  BY <2>4, <3>1, CharactersThere, RestUnfolds
  <2> QED  BY <2>1, <2>2, <2>4, <2>5
<1>3. \A q : Cs!Joined([c \in DOMAIN t[q] |-> Cs!EscapeCsvCell(t[q][c])], <<Cs!Comma>>)
         = Rest(RowParts(t, q), <<Cs!Comma>>, 1)
  BY DEF Cs!Joined, Rest, RowParts
<1>4. Lines(t) = [q \in 1..Len(t) |-> Rest(RowParts(t, q), <<Cs!Comma>>, 1)]
  BY <1>1, <1>3 DEF Lines
<1>5. Lines(t) \in Seq(Texts) /\ Len(Lines(t)) = Len(t) /\ Lines(t)[r] = Rest(RowParts(t, r), <<Cs!Comma>>, 1)
  <2>1. \A q \in 1..Len(t) : Rest(RowParts(t, q), <<Cs!Comma>>, 1) \in Texts
    BY <1>2
  <2>2. Lines(t) \in [1..Len(t) -> Texts]
    BY <1>4, <2>1
  <2>3. Lines(t) \in Seq(Texts) /\ Len(Lines(t)) = Len(t)
    <3> DEFINE n == Len(t)
               f == Lines(t)
    <3>1. n \in Nat /\ f \in [1..n -> Texts]
      BY <1>1, <2>2
    <3> HIDE DEF n, f
    <3>2. f \in Seq(Texts) /\ Len(f) = n
      BY <3>1
    <3> QED  BY <3>2 DEF n, f
  <2> QED  BY <1>4, <2>3
<1> QED  BY <1>2, <1>5

\* The text of a table, row by row and cell by cell.
LEMMA RowsFollow ==
  ASSUME NEW t \in Writable, NEW r \in 1..Len(t)
  PROVE  /\ AfterRow(t, r) \in Texts /\ \A c \in 1..Len(t[r]) + 1 : FromCell(t, r, c) \in Texts
         /\ Rest(Lines(t), <<Cs!Cr, Cs!Lf>>, r) = FromCell(t, r, 1)
<1>1. Lines(t) \in Seq(Texts) /\ Len(Lines(t)) = Len(t) /\ Lines(t)[r] = Rest(RowParts(t, r), <<Cs!Comma>>, 1)
  BY PartsTyped
<1>2. Len(t) \in Nat /\ <<Cs!Cr, Cs!Lf>> \in Texts /\ <<Cs!Comma>> \in Texts
  BY CharactersThere DEF Writable
<1>3. r < Len(t) => Rest(Lines(t), <<Cs!Cr, Cs!Lf>>, r + 1) \in Texts
  <2>1. r < Len(t) => r + 1 \in 1..Len(Lines(t)) + 1
    BY <1>1, <1>2
  <2> QED  BY <1>1, <1>2, <2>1, RestUnfolds
<1>4. AfterRow(t, r) \in Texts
  BY <1>2, <1>3, TextsTogether DEF AfterRow
<1>5. \A c \in 1..Len(t[r]) + 1 : Rest(RowParts(t, r), <<Cs!Comma>>, c) \in Texts
  BY <1>2, PartsTyped, RestUnfolds
<1>6. \A c \in 1..Len(t[r]) + 1 : FromCell(t, r, c) \in Texts
  BY <1>4, <1>5, TextsTogether DEF FromCell
<1>7. Rest(Lines(t), <<Cs!Cr, Cs!Lf>>, r) = Lines(t)[r] \o AfterRow(t, r)
  <2>1. r \in 1..Len(Lines(t)) + 1 /\ ~(r > Len(Lines(t)))
    BY <1>1, <1>2
  <2>2. Rest(Lines(t), <<Cs!Cr, Cs!Lf>>, r) =
          IF r = Len(t) THEN Lines(t)[r]
             ELSE Lines(t)[r] \o <<Cs!Cr, Cs!Lf>> \o Rest(Lines(t), <<Cs!Cr, Cs!Lf>>, r + 1)
    BY ZenonT(60), <1>1, <1>2, <2>1, RestUnfolds
  <2>3. Lines(t)[r] \in Texts
    BY <1>1
  <2>4. CASE r = Len(t)
    <3>1. AfterRow(t, r) = <<>>
      BY <1>2, <2>4 DEF AfterRow
    <3>2. Lines(t)[r] \o <<>> = Lines(t)[r]
      BY <2>3, TextsTogether
    <3> QED  BY <2>2, <2>4, <3>1, <3>2
  <2>5. CASE r # Len(t)
    <3>1. r < Len(t)
      BY <1>2, <2>5
    <3> DEFINE rest == Rest(Lines(t), <<Cs!Cr, Cs!Lf>>, r + 1)
    <3>2. AfterRow(t, r) = <<Cs!Cr, Cs!Lf>> \o rest
      BY <3>1 DEF AfterRow
    <3>3. (Lines(t)[r] \o <<Cs!Cr, Cs!Lf>>) \o rest = Lines(t)[r] \o (<<Cs!Cr, Cs!Lf>> \o rest)
      BY <1>2, <1>3, <2>3, <3>1, TextsTogether
    <3> QED  BY <2>2, <2>5, <3>2, <3>3
  <2> QED  BY <2>4, <2>5
<1> QED  BY <1>1, <1>4, <1>6, <1>7 DEF FromCell

LEMMA CellsFollow ==
  ASSUME NEW t \in Writable, NEW r \in 1..Len(t), NEW c \in 1..Len(t[r])
  PROVE  /\ AfterCell(t, r, c) \in Texts
         /\ FromCell(t, r, c) = Cs!EscapeCsvCell(t[r][c]) \o AfterCell(t, r, c)
         /\ c = Len(t[r]) /\ r < Len(t) => AfterCell(t, r, c) = <<Cs!Cr>> \o (<<Cs!Lf>> \o FromCell(t, r + 1, 1))
         /\ c = Len(t[r]) /\ r = Len(t) => AfterCell(t, r, c) = <<>>
<1>1. /\ RowParts(t, r) \in Seq(Texts) /\ Len(RowParts(t, r)) = Len(t[r]) /\ Len(t[r]) \in Nat
      /\ RowParts(t, r)[c] = Cs!EscapeCsvCell(t[r][c]) /\ Cs!EscapeCsvCell(t[r][c]) \in Texts
  BY PartsTyped, CellWritten
<1>2. AfterRow(t, r) \in Texts /\ FromCell(t, r, c + 1) \in Texts /\ Len(t) \in Nat
  <2>1. c + 1 \in 1..Len(t[r]) + 1
    BY <1>1
  <2>2. Len(t) \in Nat
    BY DEF Writable
  <2> QED  BY <2>1, <2>2, RowsFollow
<1>3. AfterCell(t, r, c) \in Texts
  BY <1>2, CharactersThere, TextsTogether DEF AfterCell
<1> DEFINE w == Cs!EscapeCsvCell(t[r][c])
           rest == Rest(RowParts(t, r), <<Cs!Comma>>, c + 1)
<1>4. rest \in Texts
  <2>1. c + 1 \in 1..Len(RowParts(t, r)) + 1
    BY <1>1
  <2> QED  BY <1>1, <2>1, CharactersThere, RestUnfolds
<1>5. Rest(RowParts(t, r), <<Cs!Comma>>, c) = IF c = Len(t[r]) THEN w ELSE w \o <<Cs!Comma>> \o rest
  <2>1. c \in 1..Len(RowParts(t, r)) + 1 /\ ~(c > Len(RowParts(t, r)))
    BY <1>1
  <2>2. <<Cs!Comma>> \in Texts
    BY CharactersThere
  <2>3. Rest(RowParts(t, r), <<Cs!Comma>>, c) =
          IF c = Len(RowParts(t, r)) THEN RowParts(t, r)[c]
          ELSE RowParts(t, r)[c] \o <<Cs!Comma>> \o Rest(RowParts(t, r), <<Cs!Comma>>, c + 1)
    BY <1>1, <2>1, <2>2, RestUnfolds
  <2> QED  BY <1>1, <2>3
<1>6. FromCell(t, r, c) = w \o AfterCell(t, r, c)
  <2>1. CASE c = Len(t[r])
    <3>1. AfterCell(t, r, c) = AfterRow(t, r)
      BY <1>1, <2>1 DEF AfterCell
    <3> QED  BY <1>5, <2>1, <3>1 DEF FromCell
  <2>2. CASE c # Len(t[r])
    <3>1. c < Len(t[r])
      BY <1>1, <2>2
    <3>2. AfterCell(t, r, c) = <<Cs!Comma>> \o (rest \o AfterRow(t, r))
      BY <3>1 DEF AfterCell, FromCell
    <3>3. FromCell(t, r, c) = ((w \o <<Cs!Comma>>) \o rest) \o AfterRow(t, r)
      BY <1>5, <2>2 DEF FromCell
    <3> HIDE DEF w, rest
    <3>4. w \in Texts
      BY <1>1 DEF w
    <3> DEFINE mark == <<Cs!Comma>>
    <3>5. mark \in Texts
      BY CharactersThere
    <3> HIDE DEF mark
    <3>6. ((w \o mark) \o rest) \o AfterRow(t, r) = w \o (mark \o (rest \o AfterRow(t, r)))
      <4> DEFINE z == AfterRow(t, r)
      <4>1. z \in Texts /\ rest \in Texts
        BY <1>2, <1>4
      <4> HIDE DEF z
      <4>2. ((w \o mark) \o rest) \o z = w \o (mark \o (rest \o z))
        <5>1. w \o mark \in Texts /\ rest \o z \in Texts
          BY <3>4, <3>5, <4>1, TextsTogether
        <5>2. ((w \o mark) \o rest) \o z = (w \o mark) \o (rest \o z)
          BY <4>1, <5>1, TextsTogether
        <5>3. (w \o mark) \o (rest \o z) = w \o (mark \o (rest \o z))
          BY <3>4, <3>5, <5>1, TextsTogether
        <5> QED  BY <5>2, <5>3
      <4> QED  BY <4>2 DEF z
    <3> USE DEF mark
    <3> QED  BY <3>2, <3>3, <3>6
  <2> QED  BY <2>1, <2>2
<1>7. ASSUME c = Len(t[r]), r < Len(t)
      PROVE  AfterCell(t, r, c) = <<Cs!Cr>> \o (<<Cs!Lf>> \o FromCell(t, r + 1, 1))
  <2>1. r + 1 \in 1..Len(t)
    BY <1>2, <1>7
  <2>2. AfterCell(t, r, c) = <<Cs!Cr, Cs!Lf>> \o FromCell(t, r + 1, 1)
    <3>1. AfterCell(t, r, c) = <<Cs!Cr, Cs!Lf>> \o Rest(Lines(t), <<Cs!Cr, Cs!Lf>>, r + 1)
      BY <1>1, <1>7 DEF AfterCell, AfterRow
    <3>2. Rest(Lines(t), <<Cs!Cr, Cs!Lf>>, r + 1) = FromCell(t, r + 1, 1)
      BY <2>1, RowsFollow
    <3> QED  BY <3>1, <3>2
  <2>3. <<Cs!Cr, Cs!Lf>> = <<Cs!Cr>> \o <<Cs!Lf>> /\ <<Cs!Cr>> \in Texts /\ <<Cs!Lf>> \in Texts
    <3>1. <<Cs!Cr>> \in Texts /\ <<Cs!Lf>> \in Texts
      BY CharactersThere, TextsTogether
    <3> DEFINE u == <<Cs!Cr>> \o <<Cs!Lf>>
    <3>2. u \in Texts /\ Len(u) = 2 /\ u[1] = Cs!Cr /\ u[2] = Cs!Lf
      BY <3>1 DEF Texts
    <3> HIDE DEF u
    <3>3. u = <<Cs!Cr, Cs!Lf>>
      BY <3>2 DEF Texts
    <3> QED  BY <3>1, <3>3 DEF u
  <2>4. FromCell(t, r + 1, 1) \in Texts
    <3>1. 1 \in 1..Len(t[r + 1]) + 1
      BY <2>1, PartsTyped
    <3> QED  BY <2>1, <3>1, RowsFollow
  <2> QED  BY <2>2, <2>3, <2>4, TextsTogether
<1>8. c = Len(t[r]) /\ r = Len(t) => AfterCell(t, r, c) = <<>>
  BY <1>1, <1>2 DEF AfterCell, AfterRow
<1> QED  BY <1>3, <1>6, <1>7, <1>8

LEMMA TableWritten ==
  ASSUME NEW t \in Writable
  PROVE  /\ Cs!ToCsv(t) \in Texts
         /\ Len(t) = 0 => Cs!ToCsv(t) = <<>>
         /\ Len(t) # 0 => Cs!ToCsv(t) = FromCell(t, 1, 1)
<1>1. Cs!ToCsv(t) = Rest(Lines(t), <<Cs!Cr, Cs!Lf>>, 1)
  BY DEF Cs!ToCsv, Lines, Rest, Cs!Joined
<1>2. Len(t) \in Nat
  BY DEF Writable
<1>3. CASE Len(t) = 0
  <2>1. Lines(t) \in Seq(Texts) /\ Len(Lines(t)) = 0
    <3>1. DOMAIN t = 1..0
      BY <1>3 DEF Writable
    <3>2. Lines(t) = [r \in 1..0 |-> Cs!Joined([c \in DOMAIN t[r] |-> Cs!EscapeCsvCell(t[r][c])], <<Cs!Comma>>)]
      BY <3>1 DEF Lines
    <3> QED  BY <3>2
  <2>2. 1 \in 1..Len(Lines(t)) + 1 /\ 1 > Len(Lines(t))
    BY <2>1
  <2>3. <<Cs!Cr, Cs!Lf>> \in Texts /\ <<>> \in Texts
    BY CharactersThere, TextsTogether
  <2>4. Rest(Lines(t), <<Cs!Cr, Cs!Lf>>, 1) = <<>>
    BY <2>1, <2>2, <2>3, RestUnfolds
  <2> QED  BY <1>1, <1>3, <2>3, <2>4
<1>4. CASE Len(t) # 0
  <2>1. 1 \in 1..Len(t) /\ 1 \in 1..Len(t[1]) + 1
    BY <1>2, <1>4, PartsTyped
  <2> QED  BY <1>1, <1>4, <2>1, RowsFollow
<1> QED  BY <1>3, <1>4

\* The cells before the c-th of the r-th row have been read back, ...
UpTo(t, r, c, rw, rs) ==
  /\ r \in 1..Len(t) /\ c \in 1..Len(t[r])
  /\ rs = [q \in 1..r - 1 |-> RawRow(t, q)] /\ rw = [q \in 1..c - 1 |-> Raw(t, r, q)]

\* ... and this one wholly, ...
CellDone(t, r, c, n, f) == f = Raw(t, r, c) /\ Left(n, AfterCell(t, r, c))

\* ... or, without quotes, its first k characters, ...
CellPlain(t, r, c, n, f) ==
  /\ ~Special(Raw(t, r, c))
  /\ \E k \in 0..Len(Raw(t, r, c)) - 1 :
       /\ f = SubSeq(Raw(t, r, c), 1, k)
       /\ Left(n, SubSeq(Raw(t, r, c), k + 1, Len(Raw(t, r, c))) \o AfterCell(t, r, c))

\* ... or nothing of it, before its first quote, or the first k characters after that, ...
CellOpens(t, r, c, n, f) ==
  /\ Special(Raw(t, r, c)) /\ f = <<>>
  /\ Left(n, <<Cs!Quote>> \o (Rest(Pairs(Raw(t, r, c)), <<>>, 1) \o (<<Cs!Quote>> \o AfterCell(t, r, c))))

CellQuoted(t, r, c, n, f) ==
  /\ Special(Raw(t, r, c))
  /\ \E k \in 0..Len(Raw(t, r, c)) :
       /\ f = SubSeq(Raw(t, r, c), 1, k)
       /\ Left(n, Rest(Pairs(Raw(t, r, c)), <<>>, k + 1) \o (<<Cs!Quote>> \o AfterCell(t, r, c)))

\* ... or the parser is between the two characters that end its row.
RowEnds(t, r, c, n, f) ==
  /\ f = Raw(t, r, c) /\ c = Len(t[r]) /\ r < Len(t)
  /\ Left(n, <<Cs!Lf>> \o FromCell(t, r + 1, 1))

InCell(t, r, c, n, q, f) ==
  \/ q /\ CellQuoted(t, r, c, n, f)
  \/ ~q /\ (CellDone(t, r, c, n, f) \/ CellPlain(t, r, c, n, f) \/ CellOpens(t, r, c, n, f) \/ RowEnds(t, r, c, n, f))

ReadBack(t, n, q, f, rw, rs) ==
  IF Len(t) = 0 THEN text = <<>> /\ f = <<>> /\ rw = <<>> /\ rs = <<>>
  ELSE \E r, c : UpTo(t, r, c, rw, rs) /\ InCell(t, r, c, n, q, f)

LEMMA CellTyped ==
  ASSUME NEW t \in Writable, NEW r \in 1..Len(t), NEW c \in 1..Len(t[r])
  PROVE  /\ Raw(t, r, c) \in Texts /\ Len(Raw(t, r, c)) \in Nat
         /\ AfterCell(t, r, c) \in Texts /\ <<Cs!Quote>> \o AfterCell(t, r, c) \in Texts
<1>1. t[r][c] \in Texts
  BY PartsTyped
<1>2. Raw(t, r, c) \in Texts
  BY <1>1, CellWritten DEF Raw
<1>3. AfterCell(t, r, c) \in Texts /\ <<Cs!Quote>> \o AfterCell(t, r, c) \in Texts
  BY CellsFollow, CharactersThere, TextsTogether
<1> QED  BY <1>2, <1>3 DEF Texts

\* Where a cell begins.
LEMMA CellBegins ==
  ASSUME NEW t \in Writable, NEW r \in 1..Len(t), NEW c \in 1..Len(t[r]), NEW n, text \in Texts,
         Left(n, FromCell(t, r, c))
  PROVE  InCell(t, r, c, n, FALSE, <<>>)
<1> DEFINE raw == Raw(t, r, c)
           next == AfterCell(t, r, c)
<1>1. raw \in Texts /\ Len(raw) \in Nat /\ next \in Texts /\ <<Cs!Quote>> \o next \in Texts /\ t[r][c] \in Texts
  BY CellTyped, PartsTyped
<1>2. Left(n, Cs!EscapeCsvCell(t[r][c]) \o next)
  BY CellsFollow
<1>3. CASE ~Special(raw)
  <2>1. Left(n, raw \o next)
    BY <1>1, <1>2, <1>3, CellWritten DEF Raw
  <2>2. CASE Len(raw) = 0
    <3>1. raw = <<>>
      BY <1>1, <2>2 DEF Texts
    <3>2. raw \o next = next
      BY <1>1, <3>1, TextsTogether
    <3> QED  BY <2>1, <3>1, <3>2 DEF InCell, CellDone
  <2>3. CASE Len(raw) # 0
    <3>1. 0 \in 0..Len(raw) - 1 /\ SubSeq(raw, 1, 0) = <<>> /\ SubSeq(raw, 0 + 1, Len(raw)) = raw
      BY <1>1, <2>3 DEF Texts
    <3> QED  BY <1>3, <2>1, <3>1 DEF InCell, CellPlain
  <2> QED  BY <2>2, <2>3
<1>4. CASE Special(raw)
  <2> DEFINE doubled == Rest(Pairs(raw), <<>>, 1)
             mark == <<Cs!Quote>>
  <2>1. Cs!EscapeCsvCell(t[r][c]) = mark \o doubled \o mark
    BY <1>1, <1>4, CellWritten DEF Raw
  <2>2. doubled \in Texts /\ mark \in Texts /\ mark \o next \in Texts
    <3>1. 1 \in 1..Len(raw) + 1
      BY <1>1
    <3> QED  BY <1>1, <3>1, DoubledGoesOn, CharactersThere
  <2> HIDE DEF doubled, mark, next
  <2>3. mark \o doubled \in Texts
    BY <2>2, TextsTogether
  <2>4. ((mark \o doubled) \o mark) \o next = (mark \o doubled) \o (mark \o next)
    <3> DEFINE begun == mark \o doubled
    <3>1. begun \in Texts /\ next \in Texts
      BY <1>1, <2>3 DEF next
    <3> HIDE DEF begun
    <3>2. (begun \o mark) \o next = begun \o (mark \o next)
      BY ZenonT(60), <2>2, <3>1, TextsTogether
    <3> QED  BY <3>2 DEF begun
  <2>5. (mark \o doubled) \o (mark \o next) = mark \o (doubled \o (mark \o next))
    BY <2>2, TextsTogether
  <2>6. Left(n, mark \o (doubled \o (mark \o next)))
    BY <1>2, <2>1, <2>4, <2>5
  <2>7. Left(n, <<Cs!Quote>> \o (Rest(Pairs(Raw(t, r, c)), <<>>, 1) \o (<<Cs!Quote>> \o AfterCell(t, r, c))))
    BY <2>6 DEF doubled, mark, next
  <2> QED  BY <1>4, <2>7 DEF InCell, CellOpens
<1> QED  BY <1>3, <1>4

\* The character read and whether it is inside quotes say which step it is.
LEMMA OneAction ==
  ASSUME Cs!Next, ~Cs!EndOfText
  PROVE  /\ i <= Len(text) /\ UNCHANGED <<table, text, parsed>>
         /\ inQuotes /\ text[i] # Cs!Quote => Cs!QuotedCharacter
         /\ inQuotes /\ text[i] = Cs!Quote /\ Cs!At(i + 1) = Cs!Quote => Cs!EscapedQuote
         /\ inQuotes /\ text[i] = Cs!Quote /\ Cs!At(i + 1) # Cs!Quote => Cs!ClosingQuote
         /\ ~inQuotes /\ text[i] = Cs!Quote => Cs!OpeningQuote
         /\ ~inQuotes /\ text[i] = Cs!Comma => Cs!EndOfCell
         /\ ~inQuotes /\ text[i] = Cs!Cr => Cs!CarriageReturn
         /\ ~inQuotes /\ text[i] = Cs!Lf => Cs!EndOfRow
         /\ ~inQuotes /\ text[i] \notin {Cs!Quote, Cs!Comma, Cs!Cr, Cs!Lf} => Cs!Character
<1>1. /\ Cs!QuotedCharacter => inQuotes /\ text[i] # Cs!Quote
      /\ Cs!EscapedQuote => inQuotes /\ text[i] = Cs!Quote /\ Cs!At(i + 1) = Cs!Quote
      /\ Cs!ClosingQuote => inQuotes /\ text[i] = Cs!Quote /\ Cs!At(i + 1) # Cs!Quote
      /\ Cs!OpeningQuote => ~inQuotes /\ text[i] = Cs!Quote
      /\ Cs!EndOfCell => ~inQuotes /\ text[i] = Cs!Comma
      /\ Cs!CarriageReturn => ~inQuotes /\ text[i] = Cs!Cr
      /\ Cs!EndOfRow => ~inQuotes /\ text[i] = Cs!Lf
      /\ Cs!Character => ~inQuotes /\ text[i] \notin {Cs!Quote, Cs!Comma, Cs!Cr, Cs!Lf}
  BY DEF Cs!QuotedCharacter, Cs!EscapedQuote, Cs!ClosingQuote, Cs!OpeningQuote, Cs!EndOfCell,
         Cs!CarriageReturn, Cs!EndOfRow,
         Cs!Character, Cs!Reads, Cs!DoubledHere
<1>2. i <= Len(text) /\ UNCHANGED <<table, text, parsed>>
  BY DEF Cs!Next, Cs!QuotedCharacter, Cs!EscapedQuote, Cs!ClosingQuote, Cs!OpeningQuote, Cs!EndOfCell,
         Cs!CarriageReturn, Cs!EndOfRow,
         Cs!Character, Cs!Reads, Cs!Goes
<1>3. Cs!Quote # Cs!Comma /\ Cs!Quote # Cs!Cr /\ Cs!Quote # Cs!Lf /\ Cs!Comma # Cs!Cr /\ Cs!Comma # Cs!Lf
         /\ Cs!Cr # Cs!Lf
  BY DEF Cs!Quote, Cs!Comma, Cs!Cr, Cs!Lf
<1> QED  BY <1>1, <1>2, <1>3 DEF Cs!Next

\* What follows a cell is no quote.
LEMMA NoQuoteFollows ==
  ASSUME NEW t \in Writable, NEW r \in 1..Len(t), NEW c \in 1..Len(t[r]), NEW n, text \in Texts,
         Left(n, AfterCell(t, r, c))
  PROVE  Cs!At(n) # Cs!Quote
<1>1. Len(t[r]) \in Nat /\ Len(t) \in Nat
  BY PartsTyped DEF Writable
<1>2. CASE c < Len(t[r])
  <2>1. c + 1 \in 1..Len(t[r]) + 1
    BY <1>1
  <2>2. FromCell(t, r, c + 1) \in Texts /\ Cs!Comma \in Cs!Alphabet
    BY <2>1, RowsFollow, CharactersThere
  <2>3. Left(n, <<Cs!Comma>> \o FromCell(t, r, c + 1))
    BY <1>2 DEF AfterCell
  <2>4. Cs!At(n) = Cs!Comma
    BY <2>2, <2>3, LeftGoesOn
  <2> QED  BY <2>4 DEF Cs!Comma, Cs!Quote
<1>3. CASE c = Len(t[r]) /\ r < Len(t)
  <2>1. r + 1 \in 1..Len(t) /\ 1 \in 1..Len(t[r + 1]) + 1
    BY <1>1, <1>3, PartsTyped
  <2>2. <<Cs!Lf>> \o FromCell(t, r + 1, 1) \in Texts /\ Cs!Cr \in Cs!Alphabet
    BY <2>1, RowsFollow, CharactersThere, TextsTogether
  <2>3. Left(n, <<Cs!Cr>> \o (<<Cs!Lf>> \o FromCell(t, r + 1, 1)))
    BY <1>3, CellsFollow
  <2>4. Cs!At(n) = Cs!Cr
    BY <2>2, <2>3, LeftGoesOn
  <2> QED  BY <2>4 DEF Cs!Cr, Cs!Quote
<1>4. CASE c = Len(t[r]) /\ r = Len(t)
  <2>1. Left(n, <<>>)
    BY <1>4, CellsFollow
  <2>2. Cs!At(n) = None
    BY <2>1, LeftIsOver
  <2> QED  BY <2>2, FilesAssumption, CharactersThere
<1> QED  BY <1>1, <1>2, <1>3, <1>4

\* A step in a cell written without quotes, ...
LEMMA PlainGoesOn ==
  ASSUME NEW t \in Writable, NEW r, NEW c, text \in Texts, UpTo(t, r, c, row, rows), ~inQuotes,
         CellPlain(t, r, c, i, field), Cs!Next, ~Cs!EndOfText
  PROVE  UpTo(t, r, c, row', rows') /\ InCell(t, r, c, i', inQuotes', field')
<1> DEFINE raw == Raw(t, r, c)
           next == AfterCell(t, r, c)
<1>1. r \in 1..Len(t) /\ c \in 1..Len(t[r])
  BY DEF UpTo
<1>2. raw \in Texts /\ Len(raw) \in Nat /\ next \in Texts
  BY <1>1, CellTyped
<1>3. PICK k \in 0..Len(raw) - 1 : field = SubSeq(raw, 1, k) /\ Left(i, SubSeq(raw, k + 1, Len(raw)) \o next)
  BY DEF CellPlain
<1>4. ~Special(raw)
  BY DEF CellPlain
<1> HIDE DEF raw, next
<1>5. /\ raw[k + 1] \in Cs!Alphabet /\ SubSeq(raw, k + 2, Len(raw)) \o next \in Texts
      /\ SubSeq(raw, k + 1, Len(raw)) \o next = <<raw[k + 1]>> \o (SubSeq(raw, k + 2, Len(raw)) \o next)
      /\ Append(SubSeq(raw, 1, k), raw[k + 1]) = SubSeq(raw, 1, k + 1)
  BY <1>2, TextInTwo, TextsTogether
<1>6. text[i] = raw[k + 1] /\ Left(i + 1, SubSeq(raw, k + 2, Len(raw)) \o next)
  <2> DEFINE left == SubSeq(raw, k + 2, Len(raw)) \o next
  <2>1. left \in Texts /\ Left(i, <<raw[k + 1]>> \o left)
    BY <1>3, <1>5
  <2> HIDE DEF left
  <2>2. text[i] = raw[k + 1] /\ Left(i + 1, left)
    BY <1>5, <2>1, LeftGoesOn
  <2> QED  BY <2>2 DEF left
<1>7. raw[k + 1] \notin {Cs!Quote, Cs!Comma, Cs!Cr, Cs!Lf}
  <2>1. raw[k + 1] \in Cs!ToSet(raw)
    BY <1>2 DEF Texts, Cs!ToSet
  <2> QED  BY <1>4, <2>1 DEF Special
<1>8. /\ i' = i + 1 /\ inQuotes' = FALSE /\ UNCHANGED <<row, rows>>
      /\ field' = SubSeq(raw, 1, k + 1)
  <2>1. Cs!Character
    BY <1>6, <1>7, OneAction
  <2> QED  BY <1>3, <1>5, <1>6, <2>1 DEF Cs!Character, Cs!Keeps, Cs!Goes
<1>9. CASE k + 1 < Len(raw)
  <2>1. k + 1 \in 0..Len(raw) - 1 /\ k + 2 = k + 1 + 1
    BY <1>2, <1>9
  <2>2. CellPlain(t, r, c, i', field')
    BY <1>4, <1>6, <1>8, <2>1 DEF CellPlain, raw, next
  <2> QED  BY <1>8, <2>2 DEF InCell
<1>10. CASE k + 1 = Len(raw)
  <2>1. SubSeq(raw, 1, Len(raw)) = raw /\ SubSeq(raw, Len(raw) + 1, Len(raw)) = <<>> /\ k + 2 = Len(raw) + 1
    BY <1>2, <1>10 DEF Texts
  <2>2. <<>> \o next = next
    BY <1>2, TextsTogether
  <2>3. CellDone(t, r, c, i', field')
    BY <1>6, <1>8, <1>10, <2>1, <2>2 DEF CellDone, raw, next
  <2> QED  BY <1>8, <2>3 DEF InCell
<1> QED  BY <1>2, <1>9, <1>10

\* ... before the first quote of a cell, ...
LEMMA OpeningGoesOn ==
  ASSUME NEW t \in Writable, NEW r, NEW c, text \in Texts, UpTo(t, r, c, row, rows), ~inQuotes,
         CellOpens(t, r, c, i, field), Cs!Next, ~Cs!EndOfText
  PROVE  UpTo(t, r, c, row', rows') /\ InCell(t, r, c, i', inQuotes', field')
<1> DEFINE raw == Raw(t, r, c)
           left == Rest(Pairs(raw), <<>>, 1) \o (<<Cs!Quote>> \o AfterCell(t, r, c))
<1>1. r \in 1..Len(t) /\ c \in 1..Len(t[r])
  BY DEF UpTo
<1>2. raw \in Texts /\ Len(raw) \in Nat /\ <<Cs!Quote>> \o AfterCell(t, r, c) \in Texts
  BY <1>1, CellTyped
<1>3. left \in Texts
  <2>1. 1 \in 1..Len(raw) + 1
    BY <1>2
  <2> QED  BY <1>2, <2>1, DoubledGoesOn, TextsTogether
<1>4. Special(raw) /\ field = <<>> /\ Left(i, <<Cs!Quote>> \o left)
  BY DEF CellOpens
<1> HIDE DEF left
<1>5. text[i] = Cs!Quote /\ Left(i + 1, left)
  BY <1>3, <1>4, CharactersThere, LeftGoesOn
<1>6. i' = i + 1 /\ inQuotes' = TRUE /\ UNCHANGED <<field, row, rows>>
  BY <1>5, OneAction DEF Cs!OpeningQuote, Cs!Goes
<1>7. 0 \in 0..Len(raw) /\ SubSeq(raw, 1, 0) = <<>> /\ 0 + 1 = 1
  BY <1>2 DEF Texts
<1>8. CellQuoted(t, r, c, i', field')
  BY <1>4, <1>5, <1>6, <1>7 DEF CellQuoted, left
<1> QED  BY <1>6, <1>8 DEF InCell

\* ... and within quotes: an ordinary character, a quote written twice, and the closing quote.
LEMMA QuotedGoesOn ==
  ASSUME NEW t \in Writable, NEW r, NEW c, text \in Texts, UpTo(t, r, c, row, rows), inQuotes,
         CellQuoted(t, r, c, i, field), Cs!Next, ~Cs!EndOfText
  PROVE  UpTo(t, r, c, row', rows') /\ InCell(t, r, c, i', inQuotes', field')
<1> DEFINE raw == Raw(t, r, c)
           next == <<Cs!Quote>> \o AfterCell(t, r, c)
           rest(k) == Rest(Pairs(raw), <<>>, k)
<1>1. r \in 1..Len(t) /\ c \in 1..Len(t[r])
  BY DEF UpTo
<1>2. raw \in Texts /\ Len(raw) \in Nat /\ next \in Texts /\ AfterCell(t, r, c) \in Texts
  BY <1>1, CellTyped
<1>3. PICK k \in 0..Len(raw) : field = SubSeq(raw, 1, k) /\ Left(i, rest(k + 1) \o next)
  BY DEF CellQuoted
<1>4. Special(raw)
  BY DEF CellQuoted
<1>5. CASE k = Len(raw)
  <2>1. rest(k + 1) = <<>>
    BY <1>2, <1>5, DoubledGoesOn
  <2>2. Left(i, <<Cs!Quote>> \o AfterCell(t, r, c))
    BY <1>2, <1>3, <2>1, TextsTogether
  <2>3. text[i] = Cs!Quote /\ Left(i + 1, AfterCell(t, r, c))
    BY <1>2, <2>2, CharactersThere, LeftGoesOn
  <2>4. Cs!At(i + 1) # Cs!Quote
    BY <1>1, <2>3, NoQuoteFollows
  <2>5. i' = i + 1 /\ inQuotes' = FALSE /\ UNCHANGED <<field, row, rows>>
    BY <2>3, <2>4, OneAction DEF Cs!ClosingQuote, Cs!Goes
  <2>6. field = raw
    BY <1>2, <1>3, <1>5 DEF Texts
  <2> QED  BY <2>3, <2>5, <2>6 DEF InCell, CellDone
<1>6. CASE k # Len(raw)
  <2>1. /\ k \in 0..Len(raw) - 1 /\ k + 1 \in 1..Len(raw) /\ k + 1 + 1 \in 1..Len(raw) + 1
        /\ k + 1 \in 0..Len(raw)
    BY <1>2, <1>6
  <2>2. raw[k + 1] \in Cs!Alphabet /\ Append(SubSeq(raw, 1, k), raw[k + 1]) = SubSeq(raw, 1, k + 1)
    BY <1>2, <2>1, TextInTwo, TextsTogether
  <2>3. rest(k + 1) = (IF raw[k + 1] = Cs!Quote THEN <<Cs!Quote, Cs!Quote>> ELSE <<raw[k + 1]>>) \o rest(k + 1 + 1)
    BY <1>2, <2>1, DoubledGoesOn
  <2>4. rest(k + 1 + 1) \in Texts
    BY <1>2, <2>1, DoubledGoesOn
  <2> DEFINE left == rest(k + 1 + 1) \o next
  <2>5. left \in Texts
    BY <1>2, <2>4, TextsTogether
  <2>6. ASSUME Left(i', left), inQuotes', UNCHANGED <<row, rows>>, field' = SubSeq(raw, 1, k + 1)
        PROVE  UpTo(t, r, c, row', rows') /\ InCell(t, r, c, i', inQuotes', field')
    <3>1. CellQuoted(t, r, c, i', field')
      BY <1>4, <2>1, <2>6 DEF CellQuoted
    <3> QED  BY <2>6, <3>1 DEF InCell
  <2>7. CASE raw[k + 1] # Cs!Quote
    <3>1. rest(k + 1) \o next = <<raw[k + 1]>> \o left
      <4>1. <<raw[k + 1]>> \in Texts
        BY <2>2, TextsTogether
      <4> DEFINE mark == <<raw[k + 1]>>
                 after == rest(k + 1 + 1)
      <4>2. mark \in Texts /\ after \in Texts /\ next \in Texts /\ rest(k + 1) = mark \o after
        BY <1>2, <2>3, <2>4, <2>7, <4>1
      <4> HIDE DEF mark, after, next, rest
      <4>3. (mark \o after) \o next = mark \o (after \o next)
        BY <4>2, TextsTogether
      <4> QED  BY <4>2, <4>3 DEF mark, after
    <3>2. text[i] = raw[k + 1] /\ Left(i + 1, left)
      <4> HIDE DEF left
      <4> QED  BY <1>3, <2>2, <2>5, <3>1, LeftGoesOn
    <3>3. i' = i + 1 /\ inQuotes' /\ UNCHANGED <<row, rows>> /\ field' = SubSeq(raw, 1, k + 1)
      BY <1>3, <2>2, <2>7, <3>2, OneAction DEF Cs!QuotedCharacter, Cs!Keeps, Cs!Goes
    <3> QED  BY <2>6, <3>2, <3>3
  <2>8. CASE raw[k + 1] = Cs!Quote
    <3>1. <<Cs!Quote, Cs!Quote>> = <<Cs!Quote>> \o <<Cs!Quote>> /\ <<Cs!Quote>> \in Texts
             /\ <<Cs!Quote>> \o <<Cs!Quote>> \in Texts
      <4>1. <<Cs!Quote>> \in Texts
        BY CharactersThere
      <4> DEFINE u == <<Cs!Quote>> \o <<Cs!Quote>>
      <4>2. u \in Texts /\ Len(u) = 2 /\ u[1] = Cs!Quote /\ u[2] = Cs!Quote
        BY <4>1 DEF Texts
      <4> HIDE DEF u
      <4>3. u = <<Cs!Quote, Cs!Quote>>
        BY <4>2 DEF Texts
      <4> QED  BY <4>1, <4>2, <4>3 DEF u
    <3>2. <<Cs!Quote>> \o left \in Texts
      <4> HIDE DEF left
      <4> QED  BY <2>5, <3>1, TextsTogether
    <3>3. rest(k + 1) \o next = <<Cs!Quote>> \o (<<Cs!Quote>> \o left)
      <4> DEFINE mark == <<Cs!Quote>>
                 after == rest(k + 1 + 1)
      <4>1. mark \in Texts /\ after \in Texts /\ mark \o mark \in Texts
        BY <2>4, <3>1
      <4>2. rest(k + 1) = (mark \o mark) \o after
        BY <2>3, <2>8, <3>1
      <4> HIDE DEF mark, after, rest, next
      <4>3. ((mark \o mark) \o after) \o next = (mark \o mark) \o (after \o next)
        <5> DEFINE both == mark \o mark
        <5>1. both \in Texts /\ after \in Texts /\ next \in Texts
          BY <1>2, <4>1
        <5> HIDE DEF both
        <5>2. (both \o after) \o next = both \o (after \o next)
          BY <5>1, TextsTogether
        <5> QED  BY <5>2 DEF both
      <4>4. after \o next \in Texts
        BY <1>2, <4>1, TextsTogether
      <4>5. (mark \o mark) \o (after \o next) = mark \o (mark \o (after \o next))
        BY <4>1, <4>4, TextsTogether
      <4> QED  BY <4>2, <4>3, <4>5 DEF mark, after, rest
    <3> HIDE DEF left
    <3>4. text[i] = Cs!Quote /\ Left(i + 1, <<Cs!Quote>> \o left)
      BY <1>3, <3>2, <3>3, CharactersThere, LeftGoesOn
    <3>5. Cs!At(i + 1) = Cs!Quote /\ Left(i + 1 + 1, left)
      BY <2>5, <3>4, CharactersThere, LeftGoesOn
    <3>6. i + 2 = i + 1 + 1
      <4>1. i \in Nat
        BY <1>3 DEF Left, Texts
      <4> QED  BY <4>1
    <3>7. i' = i + 2 /\ inQuotes' /\ UNCHANGED <<row, rows>> /\ field' = SubSeq(raw, 1, k + 1)
      BY <1>3, <2>2, <2>8, <3>4, <3>5, OneAction DEF Cs!EscapedQuote, Cs!Keeps, Cs!Goes
    <3> QED  BY <2>6, <3>5, <3>6, <3>7
  <2> QED  BY <2>7, <2>8
<1> QED  BY <1>5, <1>6

\* One more cell in a row that is read back, the last of them the row.
LEMMA CellsRead ==
  ASSUME NEW t, NEW r, NEW c \in Nat \ {0}, NEW rw, rw = [q \in 1..c - 1 |-> Raw(t, r, q)]
  PROVE  Append(rw, Raw(t, r, c)) = [q \in 1..c |-> Raw(t, r, q)]
<1>1. c - 1 \in Nat /\ c - 1 + 1 = c
  OBVIOUS
<1>2. Len(rw) = c - 1
  BY <1>1
<1>3. Append(rw, Raw(t, r, c)) = [q \in 1..Len(rw) + 1 |-> IF q = Len(rw) + 1 THEN Raw(t, r, c) ELSE rw[q]]
  BY <1>1, <1>2
<1> QED  BY <1>1, <1>2, <1>3

LEMMA RowsRead ==
  ASSUME NEW t, NEW r \in Nat \ {0}, NEW rs, rs = [q \in 1..r - 1 |-> RawRow(t, q)]
  PROVE  Append(rs, RawRow(t, r)) = [q \in 1..r |-> RawRow(t, q)]
<1>1. r - 1 \in Nat /\ r - 1 + 1 = r
  OBVIOUS
<1>2. Len(rs) = r - 1
  BY <1>1
<1>3. Append(rs, RawRow(t, r)) = [q \in 1..Len(rs) + 1 |-> IF q = Len(rs) + 1 THEN RawRow(t, r) ELSE rs[q]]
  BY <1>1, <1>2
<1> QED  BY <1>1, <1>2, <1>3

LEMMA RowRead ==
  ASSUME NEW t \in Writable, NEW r \in 1..Len(t), NEW rw, rw = [q \in 1..Len(t[r]) - 1 |-> Raw(t, r, q)]
  PROVE  Append(rw, Raw(t, r, Len(t[r]))) = RawRow(t, r)
<1>1. Len(t[r]) \in Nat \ {0} /\ DOMAIN t[r] = 1..Len(t[r])
  BY PartsTyped
<1>2. Append(rw, Raw(t, r, Len(t[r]))) = [q \in 1..Len(t[r]) |-> Raw(t, r, q)]
  BY <1>1, CellsRead
<1> QED  BY <1>1, <1>2 DEF RawRow, Raw

\* After a cell comes the next, or the end of its row, and after that the next row.
LEMMA DoneGoesOn ==
  ASSUME NEW t \in Writable, NEW r, NEW c, text \in Texts, UpTo(t, r, c, row, rows), ~inQuotes,
         CellDone(t, r, c, i, field), Cs!Next, ~Cs!EndOfText
  PROVE  \E r2, c2 : UpTo(t, r2, c2, row', rows') /\ InCell(t, r2, c2, i', inQuotes', field')
<1>1. r \in 1..Len(t) /\ c \in 1..Len(t[r]) /\ Len(t[r]) \in Nat /\ Len(t) \in Nat
  BY PartsTyped DEF UpTo, Writable
<1>2. field = Raw(t, r, c) /\ Left(i, AfterCell(t, r, c))
  BY DEF CellDone
<1>3. CASE c < Len(t[r])
  <2>1. c + 1 \in 1..Len(t[r]) /\ c + 1 \in 1..Len(t[r]) + 1
    BY <1>1, <1>3
  <2>2. FromCell(t, r, c + 1) \in Texts /\ Cs!Comma \in Cs!Alphabet
    BY <1>1, <2>1, RowsFollow, CharactersThere
  <2>3. Left(i, <<Cs!Comma>> \o FromCell(t, r, c + 1))
    BY <1>2, <1>3 DEF AfterCell
  <2>4. text[i] = Cs!Comma /\ Left(i + 1, FromCell(t, r, c + 1))
    BY <2>2, <2>3, LeftGoesOn
  <2>5. i' = i + 1 /\ inQuotes' = FALSE /\ row' = Append(row, field) /\ field' = <<>> /\ rows' = rows
    BY <2>4, OneAction DEF Cs!EndOfCell, Cs!Goes
  <2>6. row' = [q \in 1..c + 1 - 1 |-> Raw(t, r, q)]
    <3>1. row = [q \in 1..c - 1 |-> Raw(t, r, q)]
      BY DEF UpTo
    <3>2. c + 1 - 1 = c
      BY <1>1
    <3> QED  BY <1>1, <1>2, <2>5, <3>1, <3>2, CellsRead
  <2>7. UpTo(t, r, c + 1, row', rows')
    BY <1>1, <2>1, <2>5, <2>6 DEF UpTo
  <2>8. InCell(t, r, c + 1, i', inQuotes', field')
    BY <1>1, <2>1, <2>4, <2>5, CellBegins
  <2> QED  BY <2>7, <2>8
<1>4. CASE c = Len(t[r]) /\ r < Len(t)
  <2>1. r + 1 \in 1..Len(t) /\ 1 \in 1..Len(t[r + 1]) + 1
    BY <1>1, <1>4, PartsTyped
  <2> DEFINE left == <<Cs!Lf>> \o FromCell(t, r + 1, 1)
  <2>2. left \in Texts /\ Cs!Cr \in Cs!Alphabet
    BY <2>1, RowsFollow, CharactersThere, TextsTogether
  <2>3. Left(i, <<Cs!Cr>> \o left)
    BY <1>1, <1>2, <1>4, CellsFollow
  <2> HIDE DEF left
  <2>4. text[i] = Cs!Cr /\ Left(i + 1, left)
    BY <2>2, <2>3, LeftGoesOn
  <2>5. i' = i + 1 /\ UNCHANGED <<inQuotes, field, row, rows>>
    BY <2>4, OneAction DEF Cs!CarriageReturn, Cs!Goes
  <2>6. RowEnds(t, r, c, i', field')
    BY <1>2, <1>4, <2>4, <2>5 DEF RowEnds, left
  <2> QED  BY <2>5, <2>6 DEF InCell
<1>5. CASE c = Len(t[r]) /\ r = Len(t)
  <2>1. Left(i, <<>>)
    BY <1>1, <1>2, <1>5, CellsFollow
  <2>2. i = Len(text) + 1 /\ Len(text) \in Nat
    BY <2>1, LeftIsOver DEF Texts
  <2> QED  BY <2>2, OneAction
<1> QED  BY <1>1, <1>3, <1>4, <1>5

LEMMA RowGoesOn ==
  ASSUME NEW t \in Writable, NEW r, NEW c, text \in Texts, UpTo(t, r, c, row, rows), ~inQuotes,
         RowEnds(t, r, c, i, field), Cs!Next, ~Cs!EndOfText
  PROVE  \E r2, c2 : UpTo(t, r2, c2, row', rows') /\ InCell(t, r2, c2, i', inQuotes', field')
<1>1. r \in 1..Len(t) /\ c \in 1..Len(t[r]) /\ Len(t[r]) \in Nat /\ Len(t) \in Nat /\ c = Len(t[r]) /\ r < Len(t)
  BY PartsTyped DEF UpTo, Writable, RowEnds
<1>2. field = Raw(t, r, c) /\ Left(i, <<Cs!Lf>> \o FromCell(t, r + 1, 1))
  BY DEF RowEnds
<1>3. r + 1 \in 1..Len(t) /\ 1 \in 1..Len(t[r + 1]) /\ 1 \in 1..Len(t[r + 1]) + 1
  BY <1>1, PartsTyped
<1>4. FromCell(t, r + 1, 1) \in Texts /\ Cs!Lf \in Cs!Alphabet
  BY <1>3, RowsFollow, CharactersThere
<1>5. text[i] = Cs!Lf /\ Left(i + 1, FromCell(t, r + 1, 1))
  BY <1>2, <1>4, LeftGoesOn
<1>6. i' = i + 1 /\ inQuotes' = FALSE /\ rows' = Append(rows, Append(row, field)) /\ field' = <<>> /\ row' = <<>>
  BY <1>5, OneAction DEF Cs!EndOfRow, Cs!Goes
<1>7. rows = [q \in 1..r - 1 |-> RawRow(t, q)] /\ row = [q \in 1..c - 1 |-> Raw(t, r, q)]
  BY DEF UpTo
<1>8. Append(row, field) = RawRow(t, r)
  BY <1>1, <1>2, <1>7, RowRead
<1>9. rows' = [q \in 1..r + 1 - 1 |-> RawRow(t, q)]
  <2>1. r \in Nat \ {0} /\ r + 1 - 1 = r
    BY <1>1
  <2>2. Append(rows, RawRow(t, r)) = [q \in 1..r |-> RawRow(t, q)]
    BY <1>7, <2>1, RowsRead
  <2>3. rows' = Append(rows, RawRow(t, r))
    BY <1>6, <1>8
  <2> QED  BY <2>1, <2>2, <2>3
<1>10. row' = [q \in 1..1 - 1 |-> Raw(t, r + 1, q)]
  <2>1. [q \in 1..1 - 1 |-> Raw(t, r + 1, q)] = <<>>
    OBVIOUS
  <2> QED  BY <1>6, <2>1
<1>11. UpTo(t, r + 1, 1, row', rows')
  BY <1>3, <1>9, <1>10 DEF UpTo
<1>12. InCell(t, r + 1, 1, i', inQuotes', field')
  BY <1>3, <1>5, <1>6, CellBegins
<1> QED  BY <1>11, <1>12

LEMMA SameCell ==
  ASSUME NEW CONSTANT t, NEW CONSTANT r, NEW CONSTANT c, text' = text, InCell(t, r, c, i', inQuotes', field')
  PROVE  InCell(t, r, c, i, inQuotes, field)'
<1>1. CASE inQuotes' /\ CellQuoted(t, r, c, i', field')
  BY <1>1 DEF InCell, CellQuoted, Left
<1>2. CASE ~inQuotes' /\ CellDone(t, r, c, i', field')
  BY <1>2 DEF InCell, CellDone, Left
<1>3. CASE ~inQuotes' /\ CellPlain(t, r, c, i', field')
  BY <1>3 DEF InCell, CellPlain, Left
<1>4. CASE ~inQuotes' /\ CellOpens(t, r, c, i', field')
  BY <1>4 DEF InCell, CellOpens, Left
<1>5. CASE ~inQuotes' /\ RowEnds(t, r, c, i', field')
  BY <1>5 DEF InCell, RowEnds, Left
<1> QED  BY <1>1, <1>2, <1>3, <1>4, <1>5 DEF InCell

\* The loop reads back what was written, wherever in it it is.
LEMMA ReadBackGoesOn ==
  ASSUME NEW t \in Writable, text \in Texts, ReadBack(t, i, inQuotes, field, row, rows), i \in 1..Len(text) + 1,
         Cs!Next, ~Cs!EndOfText
  PROVE  ReadBack(t, i, inQuotes, field, row, rows)'
<1>1. CASE Len(t) = 0
  <2>1. text = <<>>
    BY <1>1 DEF ReadBack
  <2>2. i <= Len(text) /\ i \in 1..Len(text) + 1
    BY OneAction
  <2> QED  BY <2>1, <2>2
<1>2. CASE Len(t) # 0
  <2>1. PICK r, c : UpTo(t, r, c, row, rows) /\ InCell(t, r, c, i, inQuotes, field)
    BY <1>2 DEF ReadBack
  <2>2. \E r2, c2 : UpTo(t, r2, c2, row', rows') /\ InCell(t, r2, c2, i', inQuotes', field')
    <3>1. CASE inQuotes /\ CellQuoted(t, r, c, i, field)
      BY <2>1, <3>1, QuotedGoesOn
    <3>2. CASE ~inQuotes /\ CellDone(t, r, c, i, field)
      BY <2>1, <3>2, DoneGoesOn
    <3>3. CASE ~inQuotes /\ CellPlain(t, r, c, i, field)
      BY <2>1, <3>3, PlainGoesOn
    <3>4. CASE ~inQuotes /\ CellOpens(t, r, c, i, field)
      BY <2>1, <3>4, OpeningGoesOn
    <3>5. CASE ~inQuotes /\ RowEnds(t, r, c, i, field)
      BY <2>1, <3>5, RowGoesOn
    <3> QED  BY <2>1, <3>1, <3>2, <3>3, <3>4, <3>5 DEF InCell
  <2>3. text' = text
    BY OneAction
  <2>4. \E r2, c2 : UpTo(t, r2, c2, row', rows') /\ InCell(t, r2, c2, i, inQuotes, field)'
    <3>1. PICK r2, c2 : UpTo(t, r2, c2, row', rows') /\ InCell(t, r2, c2, i', inQuotes', field')
      BY <2>2
    <3>2. InCell(t, r2, c2, i, inQuotes, field)'
      BY <2>3, <3>1, SameCell
    <3> QED  BY <3>1, <3>2
  <2> QED  BY <1>2, <2>4 DEF ReadBack, UpTo
<1> QED  BY <1>1, <1>2

\* At the end of the text nothing of it is left, ...
LEMMA NothingLeft ==
  ASSUME text \in Texts, NEW w \in Texts, NEW u \in Texts, Left(Len(text) + 1, w \o u)
  PROVE  Len(w) = 0 /\ Len(u) = 0
<1>1. Len(text) \in Nat /\ Len(w) \in Nat /\ Len(u) \in Nat /\ Len(w \o u) = Len(w) + Len(u)
  BY DEF Texts
<1>2. Len(text) + 1 = Len(text) + 1 + Len(w \o u)
  BY DEF Left
<1> QED  BY <1>1, <1>2

\* ... so the last cell of the last row has been read back.
LEMMA AllReadBack ==
  ASSUME NEW t \in Writable, FileTyped, Len(t) # 0, ReadBack(t, i, inQuotes, field, row, rows), i > Len(text)
  PROVE  Collected = [q \in 1..Len(t) |-> RawRow(t, q)]
<1>1. i = Len(text) + 1 /\ text \in Texts
  BY DEF FileTyped, Texts
<1>2. PICK r, c : UpTo(t, r, c, row, rows) /\ InCell(t, r, c, i, inQuotes, field)
  BY DEF ReadBack
<1>3. /\ r \in 1..Len(t) /\ c \in 1..Len(t[r]) /\ Len(t[r]) \in Nat /\ Len(t) \in Nat
      /\ Raw(t, r, c) \in Texts /\ Len(Raw(t, r, c)) \in Nat
      /\ AfterCell(t, r, c) \in Texts /\ <<Cs!Quote>> \o AfterCell(t, r, c) \in Texts
  <2>1. r \in 1..Len(t) /\ c \in 1..Len(t[r]) /\ Len(t) \in Nat
    BY <1>2 DEF UpTo, Writable
  <2> QED  BY <2>1, PartsTyped, CellTyped
<1>4. ASSUME NEW x \in Cs!Alphabet, NEW u \in Texts, Left(i, <<x>> \o u) PROVE FALSE
  <2>1. i \in DOMAIN text
    BY <1>1, <1>4, LeftGoesOn
  <2>2. DOMAIN text = 1..Len(text) /\ Len(text) \in Nat
    BY <1>1 DEF Texts
  <2> QED  BY <1>1, <2>1, <2>2
<1>5. ~CellQuoted(t, r, c, i, field)
  <2>1. ASSUME NEW k \in 0..Len(Raw(t, r, c)),
               Left(i, Rest(Pairs(Raw(t, r, c)), <<>>, k + 1) \o (<<Cs!Quote>> \o AfterCell(t, r, c)))
        PROVE  FALSE
    <3>1. k + 1 \in 1..Len(Raw(t, r, c)) + 1
      BY <1>3
    <3>2. Rest(Pairs(Raw(t, r, c)), <<>>, k + 1) \in Texts
      BY <1>3, <3>1, DoubledGoesOn
    <3>3. Len(<<Cs!Quote>> \o AfterCell(t, r, c)) = 0
      BY <1>1, <1>3, <2>1, <3>2, NothingLeft
    <3> QED  BY <1>3, <3>3 DEF Texts
  <2> QED  BY <2>1 DEF CellQuoted
<1>6. ~CellPlain(t, r, c, i, field)
  <2>1. ASSUME NEW k \in 0..Len(Raw(t, r, c)) - 1,
               Left(i, SubSeq(Raw(t, r, c), k + 1, Len(Raw(t, r, c))) \o AfterCell(t, r, c))
        PROVE  FALSE
    <3> DEFINE w == SubSeq(Raw(t, r, c), k + 1, Len(Raw(t, r, c)))
    <3>1. w \in Texts
      BY <1>3, TextInTwo
    <3>2. Len(w) = Len(Raw(t, r, c)) - k
      BY <1>3 DEF Texts
    <3> HIDE DEF w
    <3>3. Left(Len(text) + 1, w \o AfterCell(t, r, c))
      BY <1>1, <2>1 DEF w
    <3>4. Len(w) = 0
      BY <1>1, <1>3, <3>1, <3>3, NothingLeft
    <3> QED  BY <1>3, <3>2, <3>4
  <2> QED  BY <2>1 DEF CellPlain
<1>7. ~CellOpens(t, r, c, i, field)
  <2> DEFINE u == Rest(Pairs(Raw(t, r, c)), <<>>, 1) \o (<<Cs!Quote>> \o AfterCell(t, r, c))
  <2>1. u \in Texts
    <3>1. 1 \in 1..Len(Raw(t, r, c)) + 1
      BY <1>3
    <3> QED  BY <1>3, <3>1, DoubledGoesOn, TextsTogether
  <2> HIDE DEF u
  <2>2. ~Left(i, <<Cs!Quote>> \o u)
    BY <1>4, <2>1, CharactersThere
  <2> QED  BY <2>2 DEF CellOpens, u
<1>8. ~RowEnds(t, r, c, i, field)
  <2>1. ASSUME r < Len(t), Left(i, <<Cs!Lf>> \o FromCell(t, r + 1, 1)) PROVE FALSE
    <3>1. r + 1 \in 1..Len(t) /\ 1 \in 1..Len(t[r + 1]) + 1
      BY <1>3, <2>1, PartsTyped
    <3> QED  BY <1>4, <2>1, <3>1, RowsFollow, CharactersThere
  <2> QED  BY <2>1 DEF RowEnds
<1>9. field = Raw(t, r, c) /\ Left(i, AfterCell(t, r, c))
  BY <1>2, <1>5, <1>6, <1>7, <1>8 DEF InCell, CellDone
<1>10. c = Len(t[r])
  <2>1. ASSUME c < Len(t[r]) PROVE FALSE
    <3>1. c + 1 \in 1..Len(t[r]) + 1
      BY <1>3
    <3>2. FromCell(t, r, c + 1) \in Texts
      BY <1>3, <3>1, RowsFollow
    <3>3. Left(i, <<Cs!Comma>> \o FromCell(t, r, c + 1))
      BY <1>9, <2>1 DEF AfterCell
    <3> QED  BY <1>4, <3>2, <3>3, CharactersThere
  <2> QED  BY <1>3, <2>1
<1>11. r = Len(t)
  <2>1. ASSUME r < Len(t) PROVE FALSE
    <3>1. r + 1 \in 1..Len(t) /\ 1 \in 1..Len(t[r + 1]) + 1
      BY <1>3, <2>1, PartsTyped
    <3>2. <<Cs!Lf>> \o FromCell(t, r + 1, 1) \in Texts
      BY <3>1, RowsFollow, CharactersThere, TextsTogether
    <3>3. Left(i, <<Cs!Cr>> \o (<<Cs!Lf>> \o FromCell(t, r + 1, 1)))
      BY <1>3, <1>9, <1>10, <2>1, CellsFollow
    <3> QED  BY <1>4, <3>2, <3>3, CharactersThere
  <2> QED  BY <1>3, <2>1
<1>12. rows = [q \in 1..r - 1 |-> RawRow(t, q)] /\ row = [q \in 1..c - 1 |-> Raw(t, r, q)]
  BY <1>2 DEF UpTo
<1>13. Append(row, field) = RawRow(t, r)
  BY <1>3, <1>9, <1>10, <1>12, RowRead
<1>14. r \in Nat \ {0}
  BY <1>3
<1>15. Append(rows, RawRow(t, r)) = [q \in 1..r |-> RawRow(t, q)]
  BY <1>12, <1>14, RowsRead
<1>16. Collected = Append(rows, RawRow(t, r))
  BY <1>13 DEF Collected
<1> QED  BY <1>11, <1>15, <1>16

\* There is one way to keep rows.
LEMMA KeptOnce ==
  ASSUME FileTyped, Cs!EndOfText
  PROVE  rows' = Cs!WithoutTrailingBlankRows(Collected)
<1>1. Collected \in Seq(Seq(Seq(Cs!Alphabet))) /\ Len(Collected) \in Nat
  BY CollectedShape
<1>2. PICK m \in Nat : Kept(m) /\ rows' = SubSeq(Collected, 1, m)
  BY TextEnds
<1>3. PICK o \in 0..Len(Collected) : /\ Cs!WithoutTrailingBlankRows(Collected) = SubSeq(Collected, 1, o)
                                     /\ o > 0 => ~Cs!IsBlankRow(Collected[o])
                                     /\ \A j \in o + 1..Len(Collected) : Cs!IsBlankRow(Collected[j])
  BY <1>1, KeptRows
<1>4. /\ m \in 0..Len(Collected) /\ (m > 0 => ~Cs!IsBlankRow(Collected[m]))
      /\ \A j \in m + 1..Len(Collected) : Cs!IsBlankRow(Collected[j])
  BY <1>2 DEF Kept
<1>5. CASE m < o
  <2>1. o \in m + 1..Len(Collected) /\ o > 0
    BY <1>1, <1>3, <1>5
  <2> QED  BY <1>3, <1>4, <2>1
<1>6. CASE o < m
  <2>1. m \in o + 1..Len(Collected) /\ m > 0
    BY <1>1, <1>4, <1>6
  <2> QED  BY <1>3, <1>4, <2>1
<1>7. CASE m = o
  BY <1>2, <1>3, <1>7
<1> QED  BY <1>1, <1>4, <1>5, <1>6, <1>7

LEMMA WrittenEnds ==
  ASSUME NEW t \in Writable, t = table, FileTyped, ReadBack(t, i, inQuotes, field, row, rows), Cs!EndOfText
  PROVE  Cs!WrittenIsReadBack'
<1>1. table' = t /\ i > Len(text)
  BY DEF Cs!EndOfText
<1>2. Len(t) \in Nat /\ DOMAIN t = 1..Len(t)
  BY DEF Writable
<1>3. rows' = Cs!WithoutTrailingBlankRows([q \in 1..Len(t) |-> RawRow(t, q)])
  <2>1. CASE Len(t) = 0
    <3>1. field = <<>> /\ row = <<>> /\ rows = <<>>
      BY <2>1 DEF ReadBack
    <3>2. rows' = Cs!WithoutTrailingBlankRows(rows)
      BY <3>1 DEF Cs!EndOfText
    <3>3. [q \in 1..Len(t) |-> RawRow(t, q)] = <<>>
      BY <2>1
    <3> QED  BY <3>1, <3>2, <3>3
  <2>2. CASE Len(t) # 0
    BY <1>1, <2>2, AllReadBack, KeptOnce
  <2> QED  BY <2>1, <2>2
<1>4. rows' = Cs!WithoutTrailingBlankRows([r \in DOMAIN t |-> [c \in DOMAIN t[r] |-> Cs!Neutralised(t[r][c])]])
  BY <1>2, <1>3 DEF RawRow
<1> QED  BY <1>1, <1>4 DEF Cs!WrittenIsReadBack

\* What holds of the parser: it is reading by the rules, and reading back what was written, or both
\* are done.
FilesInvariant ==
  /\ table # None => table \in Writable
  /\ ~parsed => Reading /\ (table # None => ReadBack(table, i, inQuotes, field, row, rows))
  /\ parsed => Cs!ParsesByTheRules /\ Cs!NumberedAsInFile /\ Cs!WrittenIsReadBack

LEMMA NoTextYet ==
  ASSUME text \in Texts, i = 1, inQuotes = FALSE, field = <<>>, row = <<>>, rows = <<>>, parsed = FALSE
  PROVE  Reading
<1>1. FileTyped
  <2>1. 1 \in 1..Len(text) + 1
    BY DEF Texts
  <2>2. rows \in Seq(Seq(Seq(Cs!Alphabet))) /\ row \in Seq(Seq(Cs!Alphabet)) /\ field \in Seq(Cs!Alphabet)
    OBVIOUS
  <2> QED  BY <2>1, <2>2 DEF FileTyped
<1>2. Cs!QuotesBefore(1) = 0 /\ ~Cs!Inside(1)
  <2>1. {j \in 1..1 - 1 : text[j] = Cs!Quote} = {}
    OBVIOUS
  <2>2. Cs!QuotesBefore(1) = 0
    BY <2>1, FS_EmptySet, FileCount DEF Cs!QuotesBefore
  <2> QED  BY <2>2 DEF Cs!Inside
<1>3. \A s : Cs!Ends(s, 1) = {}
  BY DEF Cs!Ends
<1>4. Cs!RowOf(1) = 1
  BY <1>3, FS_EmptySet, FileCount DEF Cs!RowOf
<1>5. \A r : Cs!CellsOf(r, 1) = 1
  <2>1. ASSUME NEW r PROVE Cs!CellsOf(r, 1) = 1
    <3>1. {k \in Cs!Ends(Cs!Comma, 1) : Cs!RowOf(k) = r} = {}
      BY <1>3
    <3>2. Cs!Cardinality({k \in Cs!Ends(Cs!Comma, 1) : Cs!RowOf(k) = r}) = 0
      BY <3>1, FS_EmptySet, FileCount
    <3> QED  BY <3>2 DEF Cs!CellsOf
  <2> QED  BY <2>1
<1>6. \A r, c : Cs!Of(r, c, 1) = {} /\ Cs!Cardinality(Cs!Of(r, c, 1)) = 0
  <2>1. \A r, c : Cs!Of(r, c, 1) = {}
    BY DEF Cs!Of
  <2> QED  BY <2>1, FS_EmptySet, FileCount
<1>7. Collected = << << <<>> >> >>
  BY DEF Collected
<1>8. Placed(Collected, 1)
  <2>1. /\ Collected \in Seq(Seq(Seq(Cs!Alphabet))) /\ Len(Collected) = 1 /\ Len(Collected[1]) = 1
        /\ Len(Collected[1][1]) = 0
    BY <1>7
  <2>2. 1..1 = {1} /\ 1..0 = {} /\ 1..1 - 1 = {}
    OBVIOUS
  <2> QED  BY <1>4, <1>5, <1>6, <2>1, <2>2 DEF Placed
<1>9. Cs!At(i - 1) # Cs!Quote
  <2>1. Cs!At(0) = None
    BY DEF Cs!At, Texts
  <2> QED  BY <2>1, FilesAssumption, CharactersThere
<1> QED  BY <1>1, <1>2, <1>8, <1>9 DEF Reading

LEMMA FilesBegin ==
  ASSUME Cs!Init
  PROVE  FilesInvariant
<1>1. i = 1 /\ inQuotes = FALSE /\ field = <<>> /\ row = <<>> /\ rows = <<>> /\ parsed = FALSE
  BY DEF Cs!Init
<1>2. CASE table = None
  <2>1. CASE \E uploaded \in Cs!BoundedSeq(Characters, MaxLength) : text = Cs!WithoutMark(uploaded)
    <3>1. PICK uploaded \in Cs!BoundedSeq(Characters, MaxLength) : text = Cs!WithoutMark(uploaded)
      BY <2>1
    <3>2. PICK m \in Nat : uploaded \in [1..m -> Characters]
      BY FilesAssumption DEF Cs!BoundedSeq, Cs!SeqOf
    <3>3. uploaded \in Seq(Cs!Alphabet)
      BY <3>2, FilesAssumption
    <3>4. text \in Seq(Cs!Alphabet)
      BY <3>1, <3>3 DEF Cs!WithoutMark
    <3>5. text \in Texts
      BY <3>4 DEF Texts
    <3> QED  BY <1>1, <1>2, <3>5, NoTextYet DEF FilesInvariant
  <2>2. CASE table \in Tables /\ text = Cs!WithoutMark(Cs!ToCsv(table))
    <3>1. table \in Writable /\ text = Cs!ToCsv(table)
      BY <2>2, FilesAssumption DEF Writable, Texts
    <3>2. text \in Texts
      BY <3>1, TableWritten
    <3> QED  BY <1>1, <1>2, <3>2, NoTextYet DEF FilesInvariant
  <2> QED  BY <2>1, <2>2 DEF Cs!Init
<1>3. CASE table # None
  <2>1. table \in Tables /\ text = Cs!ToCsv(table)
    BY <1>3, FilesAssumption DEF Cs!Init
  <2>2. table \in Writable
    BY <2>1, FilesAssumption DEF Writable, Texts
  <2>3. text \in Texts
    BY <2>1, <2>2, TableWritten
  <2>4. ReadBack(table, i, inQuotes, field, row, rows)
    <3>1. CASE Len(table) = 0
      BY <1>1, <2>1, <2>2, <3>1, TableWritten DEF ReadBack
    <3>2. CASE Len(table) # 0
      <4>1. 1 \in 1..Len(table)
        BY <2>2, <3>2 DEF Writable
      <4>2. 1 \in 1..Len(table[1])
        BY <2>2, <4>1, PartsTyped
      <4>3. Left(i, FromCell(table, 1, 1))
        BY <1>1, <2>1, <2>2, <2>3, <3>2, LeftBegins, TableWritten
      <4>4. InCell(table, 1, 1, i, inQuotes, field)
        BY <1>1, <2>2, <2>3, <4>1, <4>2, <4>3, CellBegins
      <4>5. rows = [q \in 1..1 - 1 |-> RawRow(table, q)] /\ row = [q \in 1..1 - 1 |-> Raw(table, 1, q)]
        BY <1>1
      <4>6. UpTo(table, 1, 1, row, rows)
        BY <4>1, <4>2, <4>5 DEF UpTo
      <4> QED  BY <3>2, <4>4, <4>6 DEF ReadBack
    <3> QED  BY <3>1, <3>2
  <2> QED  BY <1>1, <2>2, <2>3, <2>4, NoTextYet DEF FilesInvariant
<1> QED  BY <1>2, <1>3

LEMMA FilesStep ==
  ASSUME FilesInvariant, Cs!Next
  PROVE  FilesInvariant'
<1>1. ~parsed
  BY DEF Cs!Next, Cs!QuotedCharacter, Cs!EscapedQuote, Cs!ClosingQuote, Cs!OpeningQuote, Cs!EndOfCell,
         Cs!CarriageReturn, Cs!EndOfRow,
         Cs!Character, Cs!Reads, Cs!EndOfText
<1>2. Reading /\ FileTyped /\ (table # None => table \in Writable /\ ReadBack(table, i, inQuotes, field, row, rows))
  BY <1>1 DEF FilesInvariant, Reading
<1>3. CASE Cs!EndOfText
  <2>1. parsed' = TRUE /\ table' = table
    BY <1>3 DEF Cs!EndOfText
  <2>2. Cs!WrittenIsReadBack'
    <3>1. CASE table = None
      BY <2>1, <3>1 DEF Cs!WrittenIsReadBack
    <3>2. CASE table # None
      BY <1>2, <1>3, <3>2, WrittenEnds
    <3> QED  BY <3>1, <3>2
  <2>3. (table # None)' => (table \in Writable)'
    BY <1>2, <2>1
  <2> QED  BY <1>2, <1>3, <2>1, <2>2, <2>3, ReadByTheRules DEF FilesInvariant
<1>4. CASE ~Cs!EndOfText
  <2>1. UNCHANGED <<table, text, parsed>>
    BY <1>4, OneAction
  <2>2. Reading'
    BY <1>1, <1>2, <1>4, ReadingStep
  <2>3. table # None => ReadBack(table, i, inQuotes, field, row, rows)'
    <3>1. ASSUME NEW t \in Writable, ReadBack(t, i, inQuotes, field, row, rows)
          PROVE  ReadBack(t, i, inQuotes, field, row, rows)'
      BY <1>2, <1>4, <3>1, ReadBackGoesOn DEF FileTyped
    <3> QED  BY <1>2, <2>1, <3>1
  <2> QED  BY <1>1, <1>2, <2>1, <2>2, <2>3 DEF FilesInvariant
<1> QED  BY <1>3, <1>4

LEMMA FilesStand ==
  ASSUME FilesInvariant, UNCHANGED Cs!vars
  PROVE  FilesInvariant'
<1>1. /\ table' = table /\ text' = text /\ i' = i /\ inQuotes' = inQuotes /\ field' = field /\ row' = row
      /\ rows' = rows /\ parsed' = parsed
  BY DEF Cs!vars
<1>2. (table # None => table \in Writable)'
  BY <1>1 DEF FilesInvariant
<1>3. ASSUME Reading PROVE Reading'
  <2>1. FileTyped /\ (inQuotes <=> Cs!Inside(i)) /\ (~inQuotes /\ Cs!At(i - 1) = Cs!Quote => Cs!At(i) # Cs!Quote)
        /\ Placed(Append(rows, Append(row, field)), i)
    BY <1>3 DEF Reading, Collected
  <2>2. Placed(Append(rows', Append(row', field')), i')
    BY <1>1, <2>1
  <2>3. (inQuotes' <=> Cs!Inside(i')) /\ (~inQuotes' /\ Cs!At(i' - 1) = Cs!Quote => Cs!At(i') # Cs!Quote)
    BY <1>1, <2>1
  <2>4. /\ parsed' \in BOOLEAN /\ inQuotes' \in BOOLEAN /\ i' \in 1..Len(text) + 1
        /\ rows' \in Seq(Seq(Seq(Cs!Alphabet))) /\ row' \in Seq(Seq(Cs!Alphabet)) /\ field' \in Seq(Cs!Alphabet)
    BY <1>1, <2>1 DEF FileTyped
  <2> QED  BY <1>1, <1>3, <2>2, <2>3, <2>4, ReadingGoesOn
<1>4. ASSUME table # None, ReadBack(table, i, inQuotes, field, row, rows)
      PROVE  ReadBack(table, i, inQuotes, field, row, rows)'
  <2>1. ASSUME NEW t, NEW r, NEW c, InCell(t, r, c, i, inQuotes, field)
        PROVE  InCell(t, r, c, i, inQuotes, field)'
    BY <1>1, <2>1, SameCell
  <2>2. ASSUME NEW t, ReadBack(t, i, inQuotes, field, row, rows) PROVE ReadBack(t, i, inQuotes, field, row, rows)'
    BY <1>1, <2>1, <2>2 DEF ReadBack, UpTo
  <2> QED  BY <1>1, <1>4, <2>2
<1>5. /\ Cs!EndOf' = Cs!EndOf /\ DOMAIN text' = DOMAIN text /\ DOMAIN rows' = DOMAIN rows
      /\ Cs!RowOf(Cs!EndOf)' = Cs!RowOf(Cs!EndOf) /\ (\A r : Cs!CellsOf(r, Cs!EndOf)' = Cs!CellsOf(r, Cs!EndOf))
      /\ \A r, c : Cs!Of(r, c, Cs!EndOf)' = Cs!Of(r, c, Cs!EndOf)
  <2>1. Cs!EndOf' = Cs!EndOf
    BY <1>1 DEF Cs!EndOf
  <2> QED  BY <1>1, <2>1, SameText DEF Cs!RowOf, Cs!CellsOf, Cs!Of, Cs!Ends, Cs!Inside, Cs!QuotesBefore
<1>6. \A k : /\ Cs!IsContent(k)' <=> Cs!IsContent(k)
             /\ Cs!RowOf(k)' = Cs!RowOf(k) /\ Cs!CellOf(k)' = Cs!CellOf(k) /\ Cs!PlaceOf(k)' = Cs!PlaceOf(k)
             /\ (Cs!Says(k)' <=> Cs!Says(k))
  BY <1>1, SameText DEF Cs!Says
<1>7. ASSUME Cs!ParsesByTheRules PROVE Cs!ParsesByTheRules'
  <2>1. CASE ~parsed
    BY <1>1, <2>1 DEF Cs!ParsesByTheRules
  <2>2. CASE parsed
    <3>1. \A r \in DOMAIN rows' :
            /\ r <= Cs!RowOf(Cs!EndOf)' /\ Len(rows'[r]) = Cs!CellsOf(r, Cs!EndOf)'
            /\ \A c \in DOMAIN rows'[r] : Len(rows'[r][c]) = Cs!Cardinality(Cs!Of(r, c, Cs!EndOf)')
      BY <1>1, <1>5, <1>7, <2>2 DEF Cs!ParsesByTheRules
    <3>2. \A k \in DOMAIN text' : Cs!IsContent(k)' =>
            IF Cs!RowOf(k)' \in DOMAIN rows' THEN rows'[Cs!RowOf(k)'][Cs!CellOf(k)'][Cs!PlaceOf(k)'] = text'[k]
            ELSE ~Cs!Says(k)'
      BY <1>1, <1>5, <1>6, <1>7, <2>2 DEF Cs!ParsesByTheRules
    <3>3. (rows # <<>> => ~Cs!IsBlankRow(rows[Len(rows)]))'
      BY <1>1, <1>7, <2>2 DEF Cs!ParsesByTheRules, Cs!IsBlankRow, Cs!BlankCell
    <3> QED  BY <3>1, <3>2, <3>3 DEF Cs!ParsesByTheRules
  <2> QED  BY <2>1, <2>2
<1>8. ASSUME Cs!NumberedAsInFile PROVE Cs!NumberedAsInFile'
  <2>1. CASE ~parsed
    BY <1>1, <2>1 DEF Cs!NumberedAsInFile
  <2>2. CASE parsed
    <3>1. (Cs!ShapeRows)' = Cs!ShapeRows
      BY <1>1 DEF Cs!ShapeRows, Cs!Shaped, Cs!IsBlankRow, Cs!BlankCell
    <3>2. (Cs!SayingLines)' = Cs!SayingLines
      BY <1>1, <1>6 DEF Cs!SayingLines
    <3>3. \/ Cs!ShapeRows = {} /\ Cs!Cardinality(Cs!SayingLines) > MaxImportRows
          \/ \A k \in DOMAIN text' : Cs!Says(k)' /\ Cs!RowOf(k)' > 1 =>
               \E shaped \in (Cs!ShapeRows)' : shaped.lineNumber = Cs!RowOf(k)'
                                            /\ shaped.cells[Cs!CellOf(k)'][Cs!PlaceOf(k)'] = text'[k]
      BY <1>1, <1>6, <1>8, <2>2, <3>1 DEF Cs!NumberedAsInFile
    <3>4. \A shaped \in (Cs!ShapeRows)' : \E k \in DOMAIN text' : Cs!Says(k)' /\ Cs!RowOf(k)' = shaped.lineNumber
      BY <1>1, <1>6, <1>8, <2>2, <3>1 DEF Cs!NumberedAsInFile
    <3> QED  BY <3>1, <3>2, <3>3, <3>4 DEF Cs!NumberedAsInFile
  <2> QED  BY <2>1, <2>2
<1>9. ASSUME Cs!WrittenIsReadBack PROVE Cs!WrittenIsReadBack'
  BY <1>1, <1>9 DEF Cs!WrittenIsReadBack
<1> QED  BY <1>1, <1>2, <1>3, <1>4, <1>7, <1>8, <1>9 DEF FilesInvariant

LEMMA FilesHold ==
  ASSUME FilesInvariant
  PROVE  Cs!ParsesByTheRules /\ Cs!NumberedAsInFile /\ Cs!WrittenIsReadBack
  BY DEF FilesInvariant, Cs!ParsesByTheRules, Cs!NumberedAsInFile, Cs!WrittenIsReadBack

-----------------------------------------------------------------------------
(* The services together *)

ServicesInvariant ==
  /\ part = "channels"        => ChannelsInvariant
  /\ part = "direct messages" => DirectMessagesInvariant
  /\ part = "support"         => SupportInvariant
  /\ part = "access control"  => AccessInvariant
  /\ part = "people csv"      => FilesInvariant
  /\ part = "rate limits"     => RateInvariant

LEMMA ServicesBegin == ServicesInit => ServicesInvariant
BY ChannelsInit, DirectMessagesInit, SupportInit, AccessInit, FilesBegin, RateInit
   DEF ServicesInit, ServicesInvariant

\* A step is a step of the service that runs.
LEMMA ServicesStep == ServicesInvariant /\ [ServicesNext]_servicesVars => ServicesInvariant'
<1> SUFFICES ASSUME ServicesInvariant, [ServicesNext]_servicesVars
             PROVE  ServicesInvariant'
  OBVIOUS
<1>1. part' = part
  BY DEF ServicesNext, servicesVars
<1>2. CASE part = "channels"
  <2>1. Ch!Next \/ UNCHANGED <<channelVars, requestVars>>
    BY <1>2 DEF ServicesNext, servicesVars, OfChannels, OfDirectMessages, OfSupport, OfAccessControl,
                OfPeopleCsv, OfRateLimits
  <2> QED  BY <1>1, <1>2, <2>1, ChannelsStep DEF ServicesInvariant
<1>3. CASE part = "direct messages"
  <2>1. Dm!Next \/ UNCHANGED <<isolation, txn, clock, thread, message, shown>>
    BY <1>3 DEF ServicesNext, servicesVars, requestVars, directVars, OfChannels, OfDirectMessages,
                OfSupport, OfAccessControl, OfPeopleCsv, OfRateLimits
  <2> QED  BY <1>1, <1>3, <2>1, DirectMessagesStep DEF ServicesInvariant
<1>4. CASE part = "support"
  <2>1. Su!Next \/ UNCHANGED <<isolation, case, messages, txn, clock>>
    BY <1>4 DEF ServicesNext, servicesVars, requestVars, supportVars, OfChannels, OfDirectMessages,
                OfSupport, OfAccessControl, OfPeopleCsv, OfRateLimits
  <2> QED  BY <1>1, <1>4, <2>1, SupportStep DEF ServicesInvariant
<1>5. CASE part = "access control"
  <2>1. Ac!Next \/ UNCHANGED accessVars
    BY <1>5 DEF ServicesNext, servicesVars, OfChannels, OfDirectMessages, OfSupport, OfAccessControl,
                OfPeopleCsv, OfRateLimits
  <2> QED  BY <1>1, <1>5, <2>1, AccessStep DEF ServicesInvariant
<1>6. CASE part = "rate limits"
  <2>1. Rl!Next \/ UNCHANGED <<clock, limit, now, allowed>>
    BY <1>6 DEF ServicesNext, servicesVars, limitVars, OfChannels, OfDirectMessages, OfSupport,
                OfAccessControl, OfPeopleCsv, OfRateLimits
  <2> QED  BY <1>1, <1>6, <2>1, RateStep DEF ServicesInvariant
<1>7. CASE part = "people csv"
  <2>1. Cs!Next \/ UNCHANGED Cs!vars
    BY <1>7 DEF ServicesNext, servicesVars, fileVars, Cs!vars, OfChannels, OfDirectMessages, OfSupport,
                OfAccessControl, OfPeopleCsv, OfRateLimits
  <2> QED  BY <1>1, <1>7, <2>1, FilesStep, FilesStand DEF ServicesInvariant
<1> QED  BY <1>1, <1>2, <1>3, <1>4, <1>5, <1>6, <1>7 DEF ServicesInvariant

LEMMA ServicesAlways == ServicesSpec => []ServicesInvariant
BY ServicesBegin, ServicesStep, PTL DEF ServicesSpec

\* However requests overlap, and however many rooms were archived, an organization never has more
\* of them in use than it may, and one more for every other request there may be at a time
\* (createChannel, archiveChannel).
THEOREM RoomsAreFew == ServicesSpec => []CeilingHolds
<1>1. ASSUME ChannelsInvariant PROVE Ch!CeilingHolds
  <2>1. Ch!Serial => \A q, r \in Creating : q = r
    BY <1>1 DEF ChannelsInvariant, Creating
  <2>2. Cardinality(Creating) \in Nat /\ Ch!AtOnce \in Nat
    BY <2>1, FewCreate DEF Creating
  <2>3. Cardinality(Ch!InUse) \in Nat /\ MaxCustomChannels \in Nat
    BY <1>1, FS_CardinalityType, ChannelsAssumption DEF ChannelsInvariant
  <2>4. Cardinality(Ch!InUse) < MaxCustomChannels + Ch!AtOnce
    BY <1>1, <2>2, <2>3 DEF ChannelsInvariant
  <2> QED  BY <2>4, ChannelsCount DEF Ch!CeilingHolds
<1>2. ServicesInvariant => CeilingHolds
  BY <1>1 DEF ServicesInvariant, CeilingHolds
<1> QED  BY <1>2, ServicesAlways, PTL

\* However messages arrive while a page is put together, what is marked as read has been shown to
\* whom it was for (markThreadRead, getThread).
THEOREM ReadMeansShown == ServicesSpec => []ReadWasShown
<1>1. ServicesInvariant => ReadWasShown
  BY DEF ServicesInvariant, DirectMessagesInvariant, ReadWasShown
<1> QED  BY <1>1, ServicesAlways, PTL

\* Whoever writes to a case at once, its thread tells how it got where it is, its row says the
\* same, and who wrote last is heard (replyToCase, evercalm_staff_case_update).
THEOREM CasesAreTold == ServicesSpec => []CaseFollowsThread
<1>1. ServicesInvariant => CaseFollowsThread
  BY SupportFollows DEF ServicesInvariant, CaseFollowsThread
<1> QED  BY <1>1, ServicesAlways, PTL

\* Whatever grants an actor was resolved from, the questions asked of it agree, for any roles and
\* any capabilities (can, canAtAnyLocation, accessibleLocationIds, heldCapabilities).
THEOREM ActorsAnswerOnce == ServicesSpec => []AnswersAgree
<1>1. ServicesInvariant => AnswersAgree
  BY AccessAnswers DEF ServicesInvariant, AnswersAgree
<1> QED  BY <1>1, ServicesAlways, PTL

\* Less than twice the limit passes in the time of a window, for any window, limit and wait
\* (consumeRateLimit, pruneRateLimits).
THEOREM BurstsAreBounded == ServicesSpec => []BurstIsBounded
<1>1. ServicesInvariant => BurstIsBounded
  BY RateBounded DEF ServicesInvariant, BurstIsBounded
<1> QED  BY <1>1, ServicesAlways, PTL

\* Whatever is uploaded, the parser does to it what the rules say of it as a whole, row by row, cell
\* by cell and character by character; whatever table is written it reads back; and rows keep the
\* numbers they have in the file (parseCsv, toCsv, shapeRows).
THEOREM FilesAreReadRight == ServicesSpec => []FilesAreRead
<1>1. ServicesInvariant => FilesAreRead
  BY FilesHold DEF ServicesInvariant, FilesAreRead
<1> QED  BY <1>1, ServicesAlways, PTL

================================================================================
