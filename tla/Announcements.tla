----------------------------- MODULE Announcements -----------------------------
(***************************************************************************)
(* The life of one announcement: managers author, schedule, publish,       *)
(* revise and retire it, recipients open and acknowledge it, and workers   *)
(* publish, expire and remind (comms/service.ts, inbox.ts, receipts.ts).   *)
(*                                                                         *)
(* TRANSACTIONS run under READ COMMITTED.  A handler first reads the       *)
(* announcement without a lock and checks it, then issues updates that     *)
(* (unless said otherwise) match on the id alone; the first update takes   *)
(* the row lock, so the rest of the transaction is one step.  A handler is *)
(* therefore two actions, BeginRequest and its own, and others may commit  *)
(* in between.  Overlap says whether they do: with Overlap = FALSE         *)
(* transactions run one at a time.                                         *)
(*                                                                         *)
(* The announcement requires acknowledgement.  Its deadlines (null counts  *)
(* as far away) are kept as what the clock makes of them, a person's scope *)
(* as the people at the locations where they may publish.                  *)
(***************************************************************************)
EXTENDS Naturals

CONSTANTS
  Managers, People, Workers,
  Overlap,       \* may transactions overlap
  MaxEdits,      \* bound: times revision 1 is rewritten
  MaxRevisions,  \* bound: revisions
  MaxReminders   \* bound: reminders per person

ASSUME OverlapAssumption == Overlap \in BOOLEAN
ASSUME BoundsAssumption ==
  MaxEdits \in Nat /\ MaxRevisions \in Nat \ {0} /\ MaxReminders \in Nat

VARIABLES
  status,        \* announcements.status
  addressed,     \* it has an include rule
  audience,      \* people the audience rules resolve to
  publishDue,    \* publish_at <= now
  expiryPassed,  \* expires_at <= now
  ackDue,        \* where now is before acknowledgement_due_at
  scheduledBy,   \* scheduled_by_employment_id
  scope,         \* whom each manager may publish to today
  edits,         \* how often revision 1 has been rewritten in place
  revisions,     \* the highest revision number
  current,       \* number of current_revision_id
  material,      \* revisions that asked everyone to acknowledge again
  recipient,     \* people with a recipient row
  agreed,        \* the wording each acknowledged (acknowledged_revision_id)
  answered,      \* history: what was current when that acknowledgement was committed
  reask,         \* people with reacknowledgement_requested_at set
  stamped,       \* automatic reminders stamped, per stage
  reminded,      \* reminder_count
  keys,          \* idempotency keys of notifications ever queued
  queued,        \* purposes with a notification still to be delivered
  request,       \* what each manager's open transaction has read
  screen,        \* the wording on each person's page, with its button
  reading,       \* the wording each open acknowledgement has read
  job            \* what each worker carries from one statement to the next

audienceVars == <<addressed, audience>>
deadlineVars == <<publishDue, expiryPassed, ackDue>>
contentVars  == <<edits, revisions, current, material>>
receiptVars  == <<agreed, answered, reask, stamped, reminded>>
queueVars    == <<keys, queued>>
personVars   == <<screen, reading>>
vars == <<status, audienceVars, deadlineVars, scheduledBy, scope, contentVars, recipient,
          receiptVars, queueVars, request, personVars, job>>

Nobody   == "nobody"
Statuses == {"draft", "scheduled", "published", "expired", "archived"}
Stages   == {"due-soon", "overdue"}
Purposes == Stages \union {"initial", "reminder"}

NoWording == [revision |-> 0, edit |-> 0]
Idle      == [op |-> "none", revisions |-> 0, scope |-> {}, counts |-> [p \in {} |-> 0]]
NoJob     == [at |-> "idle", revision |-> 0, stage |-> "none"]

\* The wording readers see: only revision 1 is ever rewritten.
Wording == [revision |-> current, edit |-> IF current = 1 THEN edits ELSE 0]

Acknowledged == {p \in recipient : agreed[p] # NoWording}

Outstanding == (recipient \ Acknowledged) \union reask

Init ==
  /\ status = "draft" /\ addressed = TRUE /\ audience = People
  /\ publishDue = FALSE /\ expiryPassed = FALSE /\ ackDue = "later"
  /\ scheduledBy = Nobody /\ scope = [m \in Managers |-> People]
  /\ edits = 0 /\ revisions = 1 /\ current = 1 /\ material = {}
  /\ recipient = {} /\ agreed = [p \in People |-> NoWording] /\ reask = {}
  /\ answered = [p \in People |-> 0]
  /\ stamped = [s \in Stages |-> {}] /\ reminded = [p \in People |-> 0]
  /\ keys = {} /\ queued = {}
  /\ request = [m \in Managers |-> Idle]
  /\ screen = [p \in People |-> NoWording] /\ reading = [p \in People |-> NoWording]
  /\ job = [w \in Workers |-> NoJob]

\* May a transaction start now?
MayStart == \/ Overlap
            \/ /\ \A m \in Managers : request[m] = Idle
               /\ \A p \in People : reading[p] = NoWording
               /\ \A w \in Workers : job[w] = NoJob

\* enqueue: a key that exists already is absorbed by the unique constraint.
Enqueue(K, purpose) ==
  /\ keys' = keys \union K
  /\ queued' = IF K \subseteq keys THEN queued ELSE queued \union {purpose}

\* Mutant: the key without the revision or reminder number.
KeyWithoutNumber(p, purpose, n) == <<p, purpose, 0>>

Key(p, purpose, n) == <<p, purpose, n>>

\* materializeRecipients: insert who is missing, notify who was inserted.
Materialize(S) ==
  /\ recipient' = recipient \union S
  /\ Enqueue({Key(p, "initial", 0) : p \in S \ recipient}, "initial")

-----------------------------------------------------------------------------
(* Managers *)

\* authorizeSomewhere and assertRulesWithinScope.
MayPublish(m) == scope[m] # {} /\ addressed /\ audience \subseteq scope[m]

IsDraft == status \in {"draft", "scheduled"}

\* The checks each handler makes on what it reads.
Checks(m, op) ==
  CASE op = "update"   -> IsDraft
    [] op = "publish"  -> MayPublish(m) /\ status \notin {"published", "archived"}
    [] op = "schedule" -> MayPublish(m) /\ IsDraft
    [] op = "sync"     -> scope[m] # {} /\ status = "published"
    [] op = "cancel"   -> scope[m] # {} /\ status = "scheduled"
    [] op = "revise"   -> scope[m] # {} /\ status # "draft"
    [] op = "archive"  -> TRUE
    [] op = "remind"   -> Outstanding \intersect scope[m] # {}

Operations == {"update", "publish", "schedule", "sync", "cancel", "revise", "archive", "remind"}

BeginRequest(m) ==
  /\ MayStart /\ request[m] = Idle
  /\ \E op \in Operations :
       /\ Checks(m, op)
       /\ request' = [request EXCEPT ![m] =
            [op |-> op, revisions |-> IF op = "revise" THEN revisions ELSE 0,
             scope |-> IF op \in {"publish", "sync"} THEN scope[m] ELSE {},
             counts |-> [p \in IF op = "remind" THEN Outstanding \intersect scope[m] ELSE {}
                           |-> reminded[p]]]]
  /\ UNCHANGED <<status, audienceVars, deadlineVars, scheduledBy, scope, contentVars,
                 recipient, receiptVars, queueVars, personVars, job>>

Finish(m, op) == /\ request[m].op = op
                 /\ request' = [request EXCEPT ![m] = Idle]
                 /\ UNCHANGED <<scope, personVars, job>>

\* updateDraft: revision 1 is rewritten in place, whichever revision is the
\* current one; the audience and the deadlines are replaced.
UpdateDraft(m) ==
  /\ Finish(m, "update") /\ edits < MaxEdits
  /\ edits' = edits + 1
  /\ addressed' \in BOOLEAN /\ audience' \in IF addressed' THEN SUBSET People ELSE {{}}
  /\ \/ UNCHANGED <<expiryPassed, ackDue>>
     \/ expiryPassed' = FALSE /\ ackDue' = "later"
  /\ UNCHANGED <<status, publishDue, scheduledBy, revisions, current, material, recipient,
                 receiptVars, queueVars>>

PublishAnnouncement(m) ==
  /\ Finish(m, "publish")
  /\ status' = "published" /\ publishDue' = FALSE
  /\ Materialize(audience \intersect request[m].scope)
  /\ UNCHANGED <<audienceVars, expiryPassed, ackDue, scheduledBy, contentVars, receiptVars>>

SyncRecipients(m) ==
  /\ Finish(m, "sync")
  /\ Materialize(audience \intersect request[m].scope)
  /\ UNCHANGED <<status, audienceVars, deadlineVars, scheduledBy, contentVars, receiptVars>>

\* scheduleAnnouncement: for a time that is still to come.
ScheduleAnnouncement(m) ==
  /\ Finish(m, "schedule")
  /\ status' = "scheduled" /\ publishDue' = FALSE /\ scheduledBy' = m
  /\ UNCHANGED <<audienceVars, expiryPassed, ackDue, contentVars, recipient, receiptVars, queueVars>>

CancelSchedule(m) ==
  /\ Finish(m, "cancel")
  /\ status' = "draft" /\ publishDue' = FALSE /\ scheduledBy' = Nobody
  /\ UNCHANGED <<audienceVars, expiryPassed, ackDue, contentVars, recipient, receiptVars, queueVars>>

\* Mutant: no unique constraint on the revision number.
NumberNotChecked(m) == TRUE

\* The new number is one more than the highest number READ; the unique
\* constraint refuses it if it has been taken since.
NumberStillFree(m) == request[m].revisions = revisions

\* Mutant: nobody is asked again once the announcement has been retired.
AskedWhilePublished(isMaterial) ==
  IF isMaterial /\ status = "published" THEN Acknowledged ELSE {}

\* A material revision asks whoever acknowledged again.
Asked(isMaterial) == IF isMaterial THEN Acknowledged ELSE {}

\* reviseAnnouncement.
ReviseAnnouncement(m) ==
  LET number == request[m].revisions + 1 IN
  /\ Finish(m, "revise") /\ number <= MaxRevisions /\ NumberStillFree(m)
  /\ current' = number /\ revisions' = IF number > revisions THEN number ELSE revisions
  /\ \E isMaterial \in BOOLEAN :
       /\ material' = IF isMaterial THEN material \union {number} ELSE material
       /\ reask' = reask \union Asked(isMaterial)
       /\ stamped' = [s \in Stages |-> stamped[s] \ Asked(isMaterial)]
  /\ UNCHANGED <<status, audienceVars, deadlineVars, scheduledBy, edits, recipient,
                 agreed, answered, reminded, queueVars>>

\* archiveAnnouncement, with cancelForSubject.
ArchiveAnnouncement(m) ==
  /\ Finish(m, "archive")
  /\ status' = "archived" /\ queued' = {}
  /\ UNCHANGED <<audienceVars, deadlineVars, scheduledBy, contentVars, recipient, receiptVars, keys>>

\* sendReminders: the number in the key comes from the count that was read, the
\* stored count is incremented where it stands.
SendReminders(m) ==
  LET counts == request[m].counts IN
  /\ Finish(m, "remind")
  /\ \A p \in DOMAIN counts : reminded[p] < MaxReminders
  /\ Enqueue({Key(p, "reminder", counts[p] + 1) : p \in DOMAIN counts}, "reminder")
  /\ reminded' = [p \in People |-> IF p \in DOMAIN counts THEN reminded[p] + 1 ELSE reminded[p]]
  /\ UNCHANGED <<status, audienceVars, deadlineVars, scheduledBy, contentVars, recipient,
                 agreed, answered, reask, stamped>>

\* The transaction is rolled back, by a constraint or because the process or the
\* database gave up on it.
Rollback(m) ==
  /\ request[m] # Idle /\ Finish(m, request[m].op)
  /\ UNCHANGED <<status, audienceVars, deadlineVars, scheduledBy, contentVars, recipient,
                 receiptVars, queueVars>>

-----------------------------------------------------------------------------
(* Recipients *)

UnchangedForPeople ==
  UNCHANGED <<status, audienceVars, deadlineVars, scheduledBy, scope, contentVars, recipient,
              stamped, reminded, queueVars, request, job>>

\* openAnnouncement renders the current revision, with the button if this person
\* still has to acknowledge it.
OpenAnnouncement(p) ==
  /\ p \in Outstanding /\ reading[p] = NoWording
  /\ screen' = [screen EXCEPT ![p] = Wording]
  /\ UnchangedForPeople /\ UNCHANGED <<agreed, answered, reask, reading>>

\* acknowledge gets the announcement's id from the page and reads its current
\* revision ...
BeginAcknowledge(p) ==
  /\ MayStart /\ screen[p] # NoWording /\ reading[p] = NoWording
  /\ reading' = [reading EXCEPT ![p] = Wording]
  /\ UnchangedForPeople /\ UNCHANGED <<agreed, answered, reask, screen>>

\* ... then writes the recipient's own row, which is not the announcement's lock.
Acknowledge(p) ==
  /\ reading[p] # NoWording
  /\ agreed' = [agreed EXCEPT ![p] = reading[p]]
  /\ answered' = [answered EXCEPT ![p] = current]
  /\ reask' = reask \ {p}
  /\ screen' = [screen EXCEPT ![p] = NoWording] /\ reading' = [reading EXCEPT ![p] = NoWording]
  /\ UnchangedForPeople

-----------------------------------------------------------------------------
(* Workers *)

WorkerStep(w, next) == /\ job' = [job EXCEPT ![w] = next]
                       /\ UNCHANGED <<scope, request, personVars>>

MayGoOut == scheduledBy \in Managers /\ MayPublish(scheduledBy)

\* publishScheduledAnnouncement: claimed with a conditional update; nothing is
\* sent after the expiry, or when the scheduler may not publish any more - then
\* the whole transaction is rolled back and markScheduleFailed is still to come.
PublishScheduled(w) ==
  /\ MayStart /\ job[w] = NoJob /\ status = "scheduled" /\ publishDue
  /\ \/ /\ expiryPassed
        /\ status' = "expired" /\ publishDue' = FALSE
        /\ WorkerStep(w, NoJob) /\ UNCHANGED <<recipient, queueVars>>
     \/ /\ ~expiryPassed /\ MayGoOut
        /\ status' = "published" /\ publishDue' = FALSE
        /\ Materialize(audience \intersect scope[scheduledBy]) /\ WorkerStep(w, NoJob)
     \/ /\ ~expiryPassed /\ ~MayGoOut
        /\ WorkerStep(w, [NoJob EXCEPT !.at = "refused"])
        /\ UNCHANGED <<status, publishDue, recipient, queueVars>>
  /\ UNCHANGED <<audienceVars, expiryPassed, ackDue, scheduledBy, contentVars, receiptVars>>

\* Mutant: the refusal is only logged.
MarkNothing(w) ==
  /\ job[w].at = "refused" /\ WorkerStep(w, NoJob)
  /\ UNCHANGED <<status, audienceVars, deadlineVars, scheduledBy, contentVars, recipient,
                 receiptVars, queueVars>>

\* markScheduleFailed, a transaction of its own.
MarkScheduleFailed(w) ==
  /\ job[w].at = "refused"
  /\ IF status = "scheduled" THEN status' = "draft" /\ publishDue' = FALSE
                             ELSE UNCHANGED <<status, publishDue>>
  /\ WorkerStep(w, NoJob)
  /\ UNCHANGED <<audienceVars, expiryPassed, ackDue, scheduledBy, contentVars, recipient,
                 receiptVars, queueVars>>

\* expireDue: conditional, and what is still queued is cancelled with it.
ExpireDue(w) ==
  /\ MayStart /\ job[w] = NoJob /\ status = "published" /\ expiryPassed
  /\ status' = "expired" /\ queued' = {}
  /\ WorkerStep(w, NoJob)
  /\ UNCHANGED <<audienceVars, deadlineVars, scheduledBy, contentVars, recipient, receiptVars, keys>>

\* processAutomaticReminders reads its candidates, with their current revision
\* and stage, before it locks any of them.
ReadReminderCandidates(w) ==
  /\ MayStart /\ job[w] = NoJob /\ status = "published" /\ ackDue \in Stages
  /\ WorkerStep(w, [at |-> "reminding", revision |-> current, stage |-> ackDue])
  /\ UNCHANGED <<status, audienceVars, deadlineVars, scheduledBy, contentVars, recipient,
                 receiptVars, queueVars>>

\* Claim by stamp, then queue under a key that carries the revision read.
RemindAutomatically(w) ==
  LET stage   == job[w].stage
      claimed == Outstanding \ stamped[stage] IN
  /\ job[w].at = "reminding" /\ \A p \in claimed : reminded[p] < MaxReminders
  /\ stamped' = [s \in Stages |-> IF s = stage \/ stage = "overdue"
                                  THEN stamped[s] \union claimed ELSE stamped[s]]
  /\ reminded' = [p \in People |-> IF p \in claimed THEN reminded[p] + 1 ELSE reminded[p]]
  /\ Enqueue({Key(p, stage, job[w].revision) : p \in claimed}, stage)
  /\ WorkerStep(w, NoJob)
  /\ UNCHANGED <<status, audienceVars, deadlineVars, scheduledBy, contentVars, recipient,
                 agreed, answered, reask>>

\* The process dies, or another worker holds the row (SKIP LOCKED).
GiveUp(w) ==
  /\ job[w] # NoJob /\ WorkerStep(w, NoJob)
  /\ UNCHANGED <<status, audienceVars, deadlineVars, scheduledBy, contentVars, recipient,
                 receiptVars, queueVars>>

-----------------------------------------------------------------------------
(* The world around it *)

UnchangedByWorld ==
  UNCHANGED <<status, addressed, scheduledBy, contentVars, recipient, agreed, answered, reask,
              stamped, reminded, keys, request, personVars, job>>

\* The queue (NotificationQueue.tla) delivers what was queued for a purpose.
Deliver(purpose) ==
  /\ purpose \in queued /\ queued' = queued \ {purpose}
  /\ UnchangedByWorld /\ UNCHANGED <<audience, deadlineVars, scope>>

\* An instant the announcement names is reached.
TimePasses ==
  /\ \/ status = "scheduled" /\ publishDue' = TRUE /\ UNCHANGED <<expiryPassed, ackDue>>
     \/ expiryPassed' = TRUE /\ UNCHANGED <<publishDue, ackDue>>
     \/ /\ ackDue' = IF ackDue = "later" THEN "due-soon" ELSE "overdue"
        /\ UNCHANGED <<publishDue, expiryPassed>>
  /\ UnchangedByWorld /\ UNCHANGED <<audience, scope, queued>>

\* People join, leave and move between the places the audience rules name.
PeopleMove ==
  /\ addressed /\ audience' \in SUBSET People
  /\ UnchangedByWorld /\ UNCHANGED <<deadlineVars, scope, queued>>

\* A manager's role or locations change.
ScopeChanges(m) ==
  /\ \E S \in SUBSET People : scope' = [scope EXCEPT ![m] = S]
  /\ UnchangedByWorld /\ UNCHANGED <<audience, deadlineVars, queued>>

ManagerStep(m) ==
  \/ BeginRequest(m) \/ UpdateDraft(m) \/ PublishAnnouncement(m) \/ SyncRecipients(m)
  \/ ScheduleAnnouncement(m) \/ CancelSchedule(m) \/ ReviseAnnouncement(m)
  \/ ArchiveAnnouncement(m) \/ SendReminders(m) \/ Rollback(m) \/ ScopeChanges(m)

BackgroundStep(w) ==
  \/ PublishScheduled(w) \/ MarkScheduleFailed(w) \/ ExpireDue(w)
  \/ ReadReminderCandidates(w) \/ RemindAutomatically(w) \/ GiveUp(w)

Next ==
  \/ \E m \in Managers : ManagerStep(m)
  \/ \E p \in People : OpenAnnouncement(p) \/ BeginAcknowledge(p) \/ Acknowledge(p)
  \/ \E w \in Workers : BackgroundStep(w)
  \/ \E purpose \in queued : Deliver(purpose)
  \/ TimePasses \/ PeopleMove

Spec == Init /\ [][Next]_vars

\* A worker keeps ticking, and every tick tries the due schedules, then the
\* expiries, then the reminders; it is not kept out for ever by transactions of
\* others, nor dies at the same statement for ever (SF).  A transaction that began
\* ends.  Otherwise people, deadlines and managers owe nothing.
Fairness ==
  \A w \in Workers :
    /\ SF_vars(PublishScheduled(w)) /\ SF_vars(MarkScheduleFailed(w)) /\ SF_vars(ExpireDue(w))
    /\ WF_vars(RemindAutomatically(w) \/ GiveUp(w))
  /\ \A m \in Managers : WF_vars(Rollback(m))
  /\ \A p \in People : WF_vars(Acknowledge(p))

FairSpec == Spec /\ Fairness

-----------------------------------------------------------------------------
(* Properties *)

\* The type of the columns (comms/schema.ts) and of what transactions carry.
Wordings == [revision : 0..MaxRevisions, edit : 0..MaxEdits]
Keys == {Key(p, s, n) : p \in People, s \in Purposes, n \in 0..(MaxRevisions + MaxReminders)}

TypeOK ==
  /\ status \in Statuses /\ addressed \in BOOLEAN /\ audience \in SUBSET People
  /\ publishDue \in BOOLEAN /\ expiryPassed \in BOOLEAN /\ ackDue \in Stages \union {"later"}
  /\ scheduledBy \in Managers \union {Nobody} /\ scope \in [Managers -> SUBSET People]
  /\ edits \in 0..MaxEdits /\ revisions \in 1..MaxRevisions /\ current \in 1..MaxRevisions
  /\ material \in SUBSET (1..MaxRevisions)
  /\ recipient \in SUBSET People /\ agreed \in [People -> Wordings]
  /\ answered \in [People -> 0..MaxRevisions] /\ reask \in SUBSET Acknowledged
  /\ stamped \in [Stages -> SUBSET recipient] /\ reminded \in [People -> 0..MaxReminders]
  /\ keys \in SUBSET Keys /\ queued \in SUBSET Purposes
  /\ \A m \in Managers : /\ request[m].op \in Operations \union {"none"}
                         /\ request[m].scope \in SUBSET People
                         /\ DOMAIN request[m].counts \in SUBSET People
  /\ screen \in [People -> Wordings] /\ reading \in [People -> Wordings]
  /\ job \in [Workers -> [at : {"idle", "refused", "reminding"},
                          revision : 0..MaxRevisions, stage : Stages \union {"none"}]]

\* A material revision asks everyone again who has confirmed by then, retired announcements too and
\* however transactions overlap.  The acknowledgement counts from its commit: a revision between
\* the page, or the acknowledgement's own read, and that commit asks nobody.
MaterialRevisionAsksAgain ==
  \A p \in Acknowledged : (\E r \in material : r > answered[p]) => p \in reask

\* What inbox.ts says of an acknowledgement: it "stamps the revision that was on screen".  The code
\* stamps the one it reads when the button is pressed.
AcknowledgedAsShown ==
  [][\A p \in People : agreed'[p] # agreed[p] => agreed'[p] = screen[p]]_vars

\* The worker went on with a revision that had been replaced since it read its candidates.
Overtaken(w) == job[w].at = "reminding" /\ job'[w] = NoJob /\ job[w].revision # current

\* A person stamped as automatically reminded has a new notification for it: the stamps a material
\* revision reset never meet an old key.  The exception, where transactions overlap, is a worker
\* whose revision was overtaken: its key may be an old one.
StampMeansNotified ==
  [][\A s \in Stages, p \in People :
       (p \in stamped'[s] \ stamped[s] /\ reminded'[p] > reminded[p])
         => (\E k \in keys' \ keys : k[1] = p) \/ (\E w \in Workers : Overtaken(w))]_vars

\* The current revision is the newest one, though the number is computed from an
\* unlocked read: two concurrent revisions cannot both go in.
CurrentIsNewest == current = revisions

\* A schedule whose time has come goes out, expires or returns to draft, unless a
\* manager deals with it first; it does not stay due for ever.
DueScheduleIsSettled == (status = "scheduled" /\ publishDue) ~> ~(status = "scheduled" /\ publishDue)

=============================================================================
