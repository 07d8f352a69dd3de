# Verifying EverCalm

EverCalm is a modular monolith (TypeScript, Next.js, PostgreSQL) for the people who run
restaurants and shops: schedules, announcements, checklists, training, billing. Every request
and every background step is a handler that runs one or a few transactions at READ COMMITTED
(`withTenant`, `src/src/server/db/index.ts`); what is hard in it is what happens *between* those
transactions. This directory holds TLA+ models of the parts where that matters, the TLC
configurations that check them, and proofs of the main properties for TLAPS.

Paths below are relative to the repository with `src/` in front, so the application's own
`src/modules/x` is `src/src/modules/x`.

Contents: 1 the system, 2 what is modelled, 3 the modules, 4 the runs, 5 fairness, 6 proofs,
7 disagreements between code and documentation, 8 observations without a run, 9 what is not
modelled, 10 plan, 11 running it.

## 1. The system

| component | state it keeps | operations | meets others through |
|---|---|---|---|
| notification queue (`modules/notifications`) | `notifications`: status, attempts, scheduled_for, lease, claim token | enqueue, claim, send, complete, cancel, retry | every module enqueues; the worker delivers; announcements cancel |
| quiet hours (same module) | delivery profile | decide `scheduled_for` | enqueue |
| background worker (`server/jobs`) | none of its own; one `now` per tick | a tick: per organization, publish, expire, remind, bill, deliver | calls all of them, cron endpoint or endless loop |
| announcements (`modules/comms`) | announcement, revisions, recipients, receipts, reminders | draft, schedule, publish, revise, archive, open, acknowledge, remind | queue, worker, roles and locations |
| billing (`modules/billing`) | one subscription row, billing events | owner, webhook, lifecycle, staff | worker, provider, workspace read-only guard |
| scheduling (`modules/scheduling`) | schedules, shifts (live and published copy), claims, swaps, time off | edit, publish, claim, swap, decide | notices through the queue; operations generate work for published shifts |
| slotted scheduling (`slotted.ts`) | named weeks, day reviews, callouts, the same shifts | fill, clear, autofill, callout | writes the shifts of scheduling |
| invitations (`modules/invitations`) | invitation status, token hash, expiry | create, resend, revoke, accept | people, e-mail, rate limits |
| people and separation (`modules/people`) | employment status, separation cases | request, approve, complete, cancel | ends assignments elsewhere |
| people import (`csv.ts`, `import-service.ts`) | nothing lasting | parse and write files, insert rows | people |
| operations (`modules/operations`) | runs, task items and their revisions | generate, start, complete, reopen, review | published shifts |
| handoffs | handoffs, acknowledgements | create, acknowledge, resolve | task items |
| training (`modules/training`) | assignments, attempts, sign-off | assign, progress, sign off | onboarding, notices |
| onboarding (`modules/onboarding`) | plans, steps, links to training | start, complete a step, relink | training |
| messaging (`modules/messaging`) | channels, threads between two people, read marks | create, archive, post; open, write, read | who is whose manager |
| support (`modules/support`, staff functions in `drizzle/0019`) | cases, their messages, internal notes | open, reply; update, annotate, assign | notices through the queue |
| documents, events, structure, org, reports, audit, status | records | insert, update, list | audit log |
| access control (`server/authz`) | role grants | resolve an actor, ask what they may do | every handler; employment, subscription |
| authentication, rate limits (`server/rate-limit.ts`) | sessions (library), a window and a count per key | sign in, count | every request |
| e-mail providers | external | send | queue |
| database guards, migration, seeding | schema | run once | - |
| user interface (`app/`) | what a page shows | forms | every handler |

Hard behaviours, and what makes each component correct:

- **Queue.** Several workers; leases that run out while mail is being sent; crashes between
  sending and recording; operators who retry and managers who withdraw meanwhile. *Correct when*
  rows are in one pair of hands, a late worker changes nothing, "sent" is true, attempts are
  bounded, and everything queued is settled.
- **Quiet hours.** Windows around midnight, a change of the clock. *Correct when* a row is due
  at the first instant its person can be reached.
- **Announcements.** Each handler reads without a lock and updates by id; workers publish and
  expire beside managers; people answer beside both. *Correct when* only published announcements
  have recipients, what people agreed to stays what it was, a material revision asks again, and
  due schedules and expiries do happen.
- **Billing.** Events late, repeated, out of order; three clocks (trial, grace, period).
  *Correct when* grace is granted in full and ends, a payment is not forgotten, and a
  cancellation takes effect.
- **Scheduling.** Two copies of each shift; five kinds of writers; approvals that decide on what
  was read before. *Correct when* a swap moves what was agreed, whoever a shift is shown to or
  taken from is told, and the board knows when it has something to publish.
- **Membership.** Links that are used, resent and revoked at once; a separation decided by two
  people whose transactions overlap. *Correct when* nobody joins twice, an employment ends by two
  people, and what has ended stays so.
- **Operations.** Work generated for published shifts while people do it; pages that show older
  revisions of a task. *Correct when* runs and open tasks follow the shift, finished work is
  nobody else's, a note is from whoever finished the task, and reminders reach the holder.
- **Training and onboarding.** A course and the step of a checklist that stands for it change in
  different transactions. *Correct when* the step follows the course and the run its steps, and
  completion is earned, recorded and kept.
- **Authoring.** Drafts several people change while one of them publishes. *Correct when* what is
  published is whole and frozen, a new draft continues it, and the order of its parts is settled.
- **Planner.** One rule of availability in two implementations; weeks generated twice; autofill
  that must remember its own picks. *Correct when* they agree, nothing is duplicated, and nobody
  is given a shift during approved time off.
- **Messaging.** Rows looked up and then inserted; pages put together while messages arrive.
  *Correct when* the limit of channels holds, two people have one conversation, and what is marked as
  read was shown.
- **Support.** Two sides who write to one case, each changing its status. *Correct when* thread and row
  tell the same story and a customer is not left with a case that is closed.
- **Access control.** One actor asked in five ways. *Correct when* the answers agree and follow the
  grants there are.
- **Files, counters.** *Correct when* what is written is read back, rows have their numbers, a burst is
  bounded, and nobody is refused without cause.
- **Worker.** Ticks that overlap, fail, die or meet their deadline. *Correct when* what is left
  undone can be explained - reported, or a delivery that was allowed no more - and is done by a later tick.

`PROJECT.json` lists the hazards line by line, with the properties that would catch each.

## 2. What is modelled

An action is a whole handler, or one transaction of it where others can come in between. Rows
are functions from model values to columns; texts, names, times of day and payloads are kept
only as far as a property tells them apart. Refusals that depend on data left out (permissions,
validation) are steps that are not taken. Where the code compares instants, the model keeps them
relative to the clock, so that a state space that runs for ever is finite. Every definition that
stands for code names its lines in `PROJECT.json` under `map`.

Most handlers read without a lock, check what they read, and then write by id. Nine modules say
so with a variable `isolation`, chosen once in `Init`:

- `"serial"`: a transaction begins only when no other is open, so it writes in the state it read;
- `"overlapping"`: anybody may commit in between. `Begin...` is then the reads and checks, and the
  action named after the handler writes by what was *read*, unless the code locks, checks again or
  makes its update conditional.

One run explores both. A property that holds only one transaction at a time has `Serial =>` in
it, which is part of what it says; section 8 lists what overlapping transactions do instead. In
Announcements and Scheduling, which are older, `Overlap` and `StaleWrites` play that part as
constants: TRUE in the passing run of Announcements, FALSE in that of Scheduling.

## 3. The modules

**NotificationQueue** (`modules/notifications/service.ts`, `server/jobs/worker.ts`). One row per
idempotency key. `Enqueue`, `Cancel`, `RetryFailed`, `RetryFailedNotifications` are the request
handlers; `StartTick`, `Claim`, `Send`, `Complete`, `EndTick`, `Crash` are a worker's tick.
Sending happens outside any transaction, so it is an action per row. The tick reads the clock
once (`age[w]` is how long ago) and the model computes every comparison and every lease with that
old `now`, as the code does. `due`, `lock` are `scheduled_for`, `locked_until` relative to the
clock; the claim token is represented by the worker holding it, which is sound because a process
has one batch in flight and never completes one it lost.

**DeliveryPromise** is the abstract specification: no workers, leases or clock, only that a queued
row is settled, how, and by whom it can be brought back. `NotificationQueue` implements it with
`state <- status, handed <- accepted`.

**QuietHours** (`isWithinQuietHours`, `nextDeliverableAt`, the `scheduled_for` of `enqueue`):
the algorithm as operators over minutes, against a reference that searches for the first
reachable minute; the wall clock may jump once. It has no state; the queue's run evaluates it.

**WorkerTick** (`server/jobs/worker.ts`, discovery in `drizzle/`). The tick around the other
components: `StartTick` discovers the organizations with due work and reads what is owed,
`NextOrganization`, then the steps in order (`Publish`/`MarkFailed`, `DoChore` for expiry,
reminders, operations reminders and billing, `Claim`/`Complete` batches of messages up to
`MaxBatches`), an error caught within its step (`StepFails`), the deadline (`DeadlinePasses` sets `late`; a late tick
claims no further batch and puts off the organizations left, `Defer`), `Crash`, and
`EndTick` with the report. The report has what `TickReport` has: the organizations put off and the steps
that failed, and nothing about a delivery that stopped at its limit (`AtItsLimit`). Several ticks may be under way. What a step does inside is abstracted
to rows that come due and are claimed one by one; NotificationQueue, Announcements and Billing
have the detail.

**Announcements** (`modules/comms/service.ts`, `inbox.ts`, `receipts.ts`). One announcement.
A manager's handler is `BeginRequest` (the unlocked read and its checks) and the handler's own
action (the updates). `Overlap = FALSE` would run transactions one at a time. Workers'
two-transaction sequences (publish and, on refusal, `markScheduleFailed`; read candidates, then
claim) are two actions too. `screen` is what a person's page shows while the button is pressed, `reading` what
`acknowledge` then reads, and `answered`, which the code does not keep, the revision that was
current when the acknowledgement was committed.

**Billing** (`modules/billing/policy.ts`, `service.ts`, `webhook.ts`, `drizzle/0020`). Each handler
locks the subscription row first and is one action. The provider issues numbered events; the
webhook brings any of them at any time, again and in any order. `sincePaid` and `inOrder` are
history variables for the properties.

**Scheduling** (`modules/scheduling/service.ts`, `requests.ts`, `slotted.ts`, `changes.ts`). One week.
`live[s]` are the columns managers edit, `told[s]` the `published_*` columns, `heard[s][p]` what
the notices say that p got. A manager's edit is `BeginEdit` (the read with its checks) and the
edit's own action, which writes by id; claims and swaps likewise read, then insert; publication
reads under the schedule lock (`BeginPublish`) and copies later (`PublishSchedule`), between
which approvals may commit, because they do not take that lock. Approvals and answers, whose
updates are conditional, are one action.

**Planner** (`slotted.ts`, `conflicts.ts`, `availability-state.ts`, `time.ts`, and the parts of
`service.ts`, `requests.ts`, `people.ts` that touch the same rows). Building the same week out of a
template: `BeginGenerate`/`EndGenerate`, `BeginAssign`/`EndAssign`, `ClearSlot`,
`BeginAutofill`/`EndAutofill`, day reviews and call-outs, beside the board's edits and what people
say of their time (weekly windows, exceptions, time off). The two implementations of availability
(`AvailabilityState` for the planner, `DetectConflicts` for warnings) are both there. Instants are
hours; `Gap` is an hour the clocks skip, in which no time exists. `Autofilled` is autofill's loop over
the empty slots, a recursive function of how many are done; `Load` counts a person's hours one by one,
so that an hour the clocks skip is not worked. Scheduling has the publication of what is planned here.

**Membership** (`modules/invitations`, `modules/people`, `authz/resolve.ts`). Employments, accounts,
role grants, invitations, separation cases. `Accept`, `SignUp` and `GiveUp` are a newcomer's steps:
the account is created in one transaction, the acceptance, which may fail, is another.
`open[m]` is a manager's transaction under way.

**Operations** (`modules/operations`). `PublishShift` is Scheduling's publication with the
synchronization it calls; `Sync` is that synchronization (`generation.ts`), also called by
`PublishDraft` and the archiving of templates. Every change of a task goes through `Transition`,
which demands the revision the page showed (`screen[p]`). What a handler reads before it writes is `Read`:
the rows as they are, one transaction at a time, or as they were when the page was shown. Handoff notes and reminders are
actions of their own.

**Training** (`modules/training`) and **Onboarding** (`modules/onboarding`). Training has one course,
its versions, and its assignments to one person: `txn[p]` is what p's transaction has locked and
read. Onboarding EXTENDS it and composes every handler with what it does to the checklist of the
same person: `Train(p)` is any locked handler of Training followed by `syncAfter`, in one
transaction as in the code; `Assign`, `Move`, `Author`, `StartOnboarding`, `CompleteStep`, `BlockStep`
are the others. Training has no run of its own for that reason.

**Authoring** (`training/authoring.ts`, `operations/templates.ts`, `onboarding/templates.ts`).
Three implementations of one idea - a draft that people edit, publish, discard and begin anew -
as one module, with `kind` saying which one and `Locking` what differs: courses and operations
templates lock rows and have triggers, checklists have neither, and count their sections before one
is deleted (`KeepsASection`).

**Channels** and **DirectMessages** (`modules/messaging`). Rooms with a limit and conversations of two,
each as reads (`BeginCreateChannel`, `BeginPost`, `BeginOpenThread`, `BeginSend`, and `MarkThreadRead`, the
page's first statement) and writes (the actions named after the handlers; `GetThread` ends the page).
`shown` is what pages have shown.

**Support** (`modules/support/service.ts`, `drizzle/0019_launch_readiness.sql`). A writer is three steps:
`Ask...` reads the clock, `Lock` the row, and the handler's action writes by what the row was then.
`recent` is the hour that `createCase` counts in.

**AccessControl** (`server/authz/resolve.ts`, `can.ts`, parts of `modules/people` and `modules/billing`).
`ResolveActor` turns grants, employment and subscription into the actor a request asks; `Can`,
`CanAtAnyLocation`, `AccessibleLocationIds` and `HeldCapabilities` are the questions. What changes the
answer may happen while a request has its actor.

**PeopleCsv** (`modules/people/csv.ts`). The parser's loop, an action per branch, over every short text,
and the writer; the reference says of the whole text which places are inside quotes, where rows and
cells end and what is content, and counts the rows, the cells and the characters before a place. A
byte-order mark is taken off before either reads the text (`WithoutMark`), and a file of more rows than
`MaxImportRows` gives none (`ShapeRows`).

**RateLimits** (`server/rate-limit.ts`, `server/db/rate-limit-store.ts`). One key: a call begins, which
fixes its `now()`, and lands when it gets the row (`ConsumeRateLimit`) or not at all (`FailsOpen`). `allowed` lists the instants at which calls were
let through; the code keeps no such list, the property is about it.

**MCServices** runs the six small components just described, which share nothing: a behaviour chooses
one of them (`part`), starts it, and only that one steps. It names their assumptions and gives each one
property.

The other **MC modules** give constants their values and, where a state space would be too large, an
action constraint that keeps the case of interest and says which it leaves out: **MCMembership** (a
budget of invitations and changes together), **MCOperations**, **MCOnboarding**, **MCPlanner** (`Narrow`),
**MCAuthoring**, **MCScheduling** (symmetry, `Narrow`), **MCAnnouncements** (`Narrow`: at most two transactions
overlap), **MCNotificationQueue** (channels, and QuietHours once per run). **MCQueueAndPlanner** and **MCWorker** each
run two that share no rows, the queue and the planner, the tick and billing, as MCServices does; in
MCWorker one organization has work from the start, and every step fails there.

**QueueAndPlannerProofs** (NotificationQueue and Planner), **CommunicationProofs** (Announcements and the
services of MCServices), **BackOfficeProofs** (Billing and Authoring), **SchedulingProofs**, **MembershipProofs**, **OperationsProofs**, **OnboardingProofs**, **WorkerTickProofs**: section 6.

Operators marked "Mutant" in the modules are not part of any specification. Each is a plausible
mistake in a definition, used to see that the property it belongs to would notice it.

## 4. The runs

| run | checks | instance | states |
|---|---|---|---|
| QueueAndPlanner | DisjointBatches, QuietHoursDelayNeverDrop, DeliveryPromised; AvailabilityRulesAgree, SlotsAreNotDuplicated, ApprovedTimeOffIsLocked, AutofillKeepsItsWord | *queue:* 2 rows (mail, in-app), 2 workers, 2 attempts, 1 crash, a tick shorter than a lease; every quiet window of a day of 12 minutes, clock back by 1; *planner:* 2 people, 2 patterns, 2 days of 6 hours and the eve, 2 copies, overtime above 7 hours, 3 changes | 182,757 |
| PlannerTimeOff | *violated:* TimeOffIsNeverAssignable | the planner, serial | |
| Announcements | MaterialRevisionAsksAgain, StampMeansNotified, DueScheduleIsSettled | 1 manager, 1 person, 1 worker, 1 edit, 2 revisions, 2 reminders; two transactions overlap | 415,444 |
| AnnouncementsScreen | *violated:* AcknowledgedAsShown | the same, serial | |
| Scheduling | ChangedFlagHonest, SwapAsAgreed, PublicationReachesHolder, LossIsAnnounced | 2 shifts, 2 people, 2 times, 1 manager; 6 versions of one shift, 4 of two | 1,448,625, with symmetry |
| Membership | JoinedOnce, SeparationHolds | 2 managers, 1 newcomer, 2 invitations, 1 separation, 1 place, a limit of 1 per hour | 573,267 |
| MembershipSeparationIsFinal | *violated:* SeparationIsFinal | the same, serial | |
| Operations | RunFollowsShift, ReminderReachedHolder, NoteByWhoDidIt, OpenTasksFollowShift, WorkIsTheDoers | 1 shift, 1 template, an employee and a manager, 2 hours, 3 revisions, 3 publications | 511,523 |
| Onboarding | StepFollowsCourse, RunFollowsSteps, CompletionIsEarned, NothingIsTakenBack | a learner who is also a manager, another manager, 2 assignments, 2 versions, 2 steps; courses of a reading, a practical, or a checklist and a quiz | 2,044,442 |
| Authoring | PublishedIsFrozen, PublishedIsWhole, DraftContinuesPublished, OrderIsSettled | each kind of document; 2 managers, 2 sections, 2 tasks, 3 versions, 7 changes | 1,784,476 |
| Worker | UndoneIsExplained, DueIsDone; PastDueMeansUnpaid, GraceIsGranted, WhatIsDueHappens | *tick:* 2 overlapping ticks, 2 organizations (one where every step fails), a schedule in each, 1 chore, at most 2 batches of 1, 1 misfortune; *billing:* 3 provider events, 2 periods, 2 days of grace | 230,681 |
| Services | CeilingHolds, ReadWasShown, CaseFollowsThread, AnswersAgree, FilesAreRead, BurstIsBounded | *channels:* 2 people, 3 channels, 3 names, a ceiling of 1; *conversations:* 3 people, 2 threads, 2 messages; *support:* a customer, 1 of EverCalm, 1 case, 3 requests to write; each with 2 requests at a time; *access:* 2 grants, 3 roles, 2 locations, 4 capabilities; *files:* texts of up to 4 characters of 7 kinds, tables, 1 row at most; *counters:* a window of 3 instants that allows 2 calls, a row pruned after 4, statements that wait for 1, 6 calls | 1,774,652 |

A property joined with `/\` out of parts is one question with several ways to fail: `SeparationHolds`
(`SeparationTookTwo`, `OnlyTheImportLinkRevives`), `WorkIsTheDoers` (`DoneByWhoseItIs`, `FinishedWorkIsKept`),
`NothingIsTakenBack` (`CompletedStepsStay`, `RecordKept`), `WhatIsDueHappens` (`PastDueEnds`,
`CancellationTakesEffect`), `CaseFollowsThread` (`ThreadTellsStatus`, `RowAgreesWithThread`, `CustomerIsHeard`)
and `FilesAreRead` (`ParsesByTheRules`, `WrittenIsReadBack`, `NumberedAsInFile`).

Why the bounds are enough for the cases to happen:

- *Queue.* Two workers and one or two rows are what a race needs. A third worker adds nothing: of
  two holders of a row only the younger one's token counts (and the theorems are for any number).
  `MaxAttempts = 2` lets a row be retried, exhausted and brought back; `BatchSize = 2` makes both
  a full batch (the tick goes on) and a partial one (it ends); the "text" channel of `MCChannel` is
  there for larger instances. `ClaimCap` cannot be reached in this run. Twelve minutes give windows
  on either side of midnight, empty ones and every distance between the change of the clock and a
  window's ends.
- *Announcements.* Two revisions give a material one on top of an agreed one, and the reset of the
  reminder stages; one edit distinguishes the wording agreed from a wording changed in place.
  Two transactions that overlap are an answer or a reminder and the revision it did not see, a schedule
  published and cancelled. `Narrow` lets them overlap while the first wording is
  untouched and everybody addressed; what a page shows meanwhile is the violated run's subject.
- *Billing.* Three events are failure, payment, and a late replay of either; `Grace = 2` tells
  "almost over" from "over"; two periods let a subscription be renewed and end.
- *Scheduling.* Two shifts make a two-sided swap and a double booking; two people a change of hands;
  two times a move; four versions are two created shifts and two changes to them. One shift has
  six, which is what it takes until a claim that outlived its shift is approved during a
  publication (section 8); `Narrow` stops at four once there is another. A claim's or swap's whole
  life needs no version until it is approved.
- *Planner.* The late pattern ends in the next day, so windows, time off and shifts meet across
  midnight; three late or day shifts exceed `Overtime` and two do not; headcount 2 and two copies make
  a duplicate visible. `MaxChanges = 3` lets a slot be generated, filled, and cleared or moved. The skipped hour is
  inside the late shift, and one of the two requests for time off ends in it.
- *Membership.* Two invitations to one address are resending, revoking and inviting again; two
  managers are the two people a separation needs. Several
  invitations or changes more repeat these.
- *Operations.* One shift that changes hands, roles and hours while one task is worked on is where
  synchronization and work meet: tasks of different works touch each other only through reminders and
  notes. Three revisions are done, reopened and done by somebody else.
- *Onboarding.* Two assignments are a withdrawn one and its successor; two versions let an assignment
  not started be moved to the newer; one step is the course's and one is confirmed by hand, so
  either may be the last. The three courses have every kind of lesson between them.
- *Authoring.* Two tasks and two sections are what an order needs; three versions what a draft begun
  from an old version needs; seven changes reach a published second version that was edited.
- *Services.* With a ceiling of one (the code's is two; the theorem holds for any), three channels are one
  in use, one that two overlapping requests add, and one archived: the bound of `CeilingHolds`, which grows by
  one for each request that overlaps, is reached. Three people are
  somebody who may write to anybody, and a manager with one report: two conversations. Two messages are
  one that arrives while the page of the other is put together. Three writers are a case resolved,
  reopened and resolved again, or a reply between two changes of status. Two grants are one for the
  organization and one for a location, or one for each. Four characters hold a quoted cell with an
  escaped quote, a mark and two rows, or one row too many.
  Six calls fill two windows and the beginning of a third; `BurstIsBounded` fails when the
  statement's wait is left out of it, so the waits do happen.
- *Worker.* Two organizations tell "one failing" from "all failing", a batch of one and two batches
  meet the limit and the remainder; the misfortune is an error, a death or the deadline.

`CHECK_DEADLOCK FALSE`: Scheduling, the planner, Operations, Onboarding and Authoring stop when `MaxChanges`
(or `MaxRevision`, the clock, the slots) is used up, so do the components of Services with what their
bounds count, or when the file is read, Membership also when every manager is suspended,
the tick when everything due is done and no misfortune is left.

Properties with `Serial =>` are of transactions one at a time: they show that
each handler does what it should to what others left behind in whatever order, which is where most of
the histories are. `OpenTasksFollowShift` and `RunFollowsShift` are such, so two publications that overlap
are judged by `WorkIsTheDoers` alone (section 8 says what they leave behind). Some properties exempt a
case in so many words, because the code has it: `StampMeansNotified` a reminder that a revision overtook,
`LossIsAnnounced` an approved claim, `WhatIsDueHappens` a cancellation whose key exists already,
`UndoneIsExplained` a delivery at its limit. `GraceIsGranted` counts from the last payment, so a trial that goes
straight to past due is not judged; `ReminderReachedHolder` asks about a change of hands, not of times. Type invariants are not listed as properties of runs: those of the queue, Billing,
Announcements, Scheduling, Planner, Membership, Operations, Onboarding and WorkerTick are proved; the proofs
of the small modules state the part of theirs that the properties need.

## 5. Fairness

- **Queue:** weak fairness of each step of a worker's tick, of `Send` for each row, and of time.
  The loop of `npm run worker` (or the cron schedule) starts ticks for ever and the sender
  has a timeout, so it returns. Crashes, operators and enqueues owe nothing; a crash is bounded
  by `MaxCrashes` (a process that dies at every step settles nothing, in the code either).
- **Announcements:** weak fairness of a worker's reminder step, which stays enabled until taken;
  strong fairness of publishing, of marking a refusal and of expiring, since a worker that is in
  the middle of another step disables them over and over, and each tick comes back to them. A
  transaction that began ends (weak fairness of `Rollback` for a manager's and of `Acknowledge`, the
  second half of a person's). No manager, person or deadline is obliged to anything.
- **Billing:** weak fairness of the lifecycle step and of days. At most one lifecycle event is due
  at a time, and the tick looks for it every time.
- **WorkerTick:** weak fairness of time, which starts ticks and lets leases run out, and, per worker,
  of `TickStep \/ StepFails`: the process runs, and each step ends, with or without an error. Not of `Crash`
  or `DeadlinePasses`; both are bounded by `MaxTrouble`, because a tick that always dies or always meets its
  deadline at the same place does nothing for whoever comes after (section 8).
- All others state no liveness: there, nothing happens unless somebody asks.

## 6. Proofs

All for any sets of rows, workers, people, shifts, templates, and any bounds, from the named
assumptions about constants: `NamesAssumption`, `TimesAssumption`, `BoundsAssumption` (NotificationQueue), `DayAssumption`,
`ChangeAssumption` (QuietHours),
`OverlapAssumption`, `BoundsAssumption` (Announcements), `GraceAssumption`, `BillingBounds` (Billing),
`FinitenessAssumption`, `NoneAssumption`, `KindsAssumption`, `BoundsAssumption` (Authoring),
`NoneAssumption`, `ActorsAssumption`, `BoundsAssumption`, `NullAssumption` (Scheduling), `PeopleAssumption`,
`PatternsAssumption`, `DeclaredAssumption`, `PlannerBounds`, `NoneAssumption` (Planner), `NoneAssumption`,
`PeopleAssumption`, `IsolationAssumption`, `BoundsAssumption` (Membership), `SetsAssumption`,
`NoneAssumption`, `IsolationAssumption`, `BoundsAssumption` (Operations), `SchedulesAssumption`,
`ChoresAssumption`, `BatchAssumption`, `BoundsAssumption`, `TicksAssumption` (WorkerTick),
`PeopleAssumption`, `LessonsAssumption`, `NoneAssumption`, `IsolationAssumption`, `BoundsAssumption`
(Training), `StepsAssumption`, `ReasonsAssumption` (Onboarding), and those of MCServices, one for each service,
`NoneAssumption` and `NullAssumption`. They say that model values are distinct,
sets are subsets of what they should be, and numbers are numbers.

**QueueAndPlannerProofs**, NotificationQueue
- `TypeCorrect`: `Spec => []TypeOK`.
- `HolderInvariant`, `StaleHolder` (ticks of any length). `StaleHolderIsPowerless` is not inductive;
  `HolderInv` adds that only a sending worker holds rows, that a row somebody holds is barred, by its
  lease or its schedule, to anybody whose tick began before the holder's, and that of two holders
  the one whose token the row carries began no earlier. A claim keeps the third because of the second.
- `Disjoint`, `Attempts` (assuming `TickSpan < Lease`, which the cron endpoint's 60 s and the 120 s
  lease justify). `CronInv`: a held row is leased until its claim began plus `Lease`, and a free row
  that is pending has an attempt left unless a crash took it.
- `SentAccepted` (ticks of any length), from `OutcomeIsTrue`: what a worker remembers of a send is true.
- `PromiseKept`: `Spec => Promise!Safety`, the refinement step by step; that rows are settled is left to TLC.
- `QuietHoursDelay`: `Spec => []QuietHoursDelayNeverDrop`, for days of any length, any window and any
  change of the clocks. `WallClockGoesOn` is the arithmetic: around the day, by at most one turn.

**QueueAndPlannerProofs**, Planner
- `RulesAgree`: `PlannerSpec => []AvailabilityRulesAgree`, for any windows, exceptions, requests and hours the
  clocks skip: conflicts.ts reads a shift's dates one by one, availability-state.ts all together.
- `PlannerTypeCorrect`: `[]PlannerTypeOK`, however transactions overlap. `PlannerTypes` adds that a shift has
  its pattern's hours, on its own day unless the board moved it, that time off is what was asked for,
  and what the decision of a transaction under way is made of (`PlanOK`).
- `SlotsAreMadeOnce`, `TimeOffIsLocked`, `AutofillKeeps`: the other three properties of the run, each of one
  transaction at a time. Their invariant is `PlannerInvariant`: `PlannerTypes`; `SlotsAreNotDuplicated`, itself
  inductive because what is missing is counted from more shifts (the moved ones too) than it speaks
  of; and `Decided`: what a transaction has decided is still right when it writes, since nobody acts
  between (`SerialAlone`).
- `Decided` says of autofill that its picks are `WellPicked`: each slot done went to somebody willing
  whose week stays within forty hours, or to nobody, because each who is willing works then or would
  work too long. Picking one more slot keeps it (`OnePick`): a week only grows (`LoadGrows`), so what
  spoke against somebody still does, and somebody of those who are free comes first (`BestIsFree`).
  `AutofillIsRight` takes it from the first slot to the last, and `FoldIsThere` says that the recursion
  has a value at all: both by the least number at which they would fail (`LeastNumber`). `TakenAfter`:
  what autofill remembered of a person's week is that week once the picks are written.
- `TimeOffIsLocked` speaks of requests whose two ends exist, and lets there be others: of those the
  property would be false (section 7).

**CommunicationProofs**, Announcements
- `NewestIsCurrent`: for any number of managers and overlapping transactions the current revision
  is the newest. The number is computed from an unlocked read; the unique index refuses the second.
  (Not a run: two managers with three overlapping revisions exceed the checked instances.)
- `TypeCorrect`, also overlapping. `Typed` adds to the types what a column's type does not say: who is
  addressed, and that a count or a stage somebody has read is one there was.
- `AsksAgain`, `StampsNotify`, however transactions overlap: `Spec => []MaterialRevisionAsksAgain`,
  `Spec => StampMeansNotified`. `Settled` is their invariant: a worker read a revision there has been
  (`ReadEarlier`), and the key of an automatic reminder belongs to one; while that is the current one its
  person stays stamped (`KeysStamped`), so a new stamp by the current revision finds its key free.

**CommunicationProofs**, the services of MCServices, each from an invariant of its own that only its own
steps touch (`ServicesStep`). All but the order of a thread's page are of requests that
overlap in any way.
- `RoomsAreFew`: `ServicesSpec => []CeilingHolds`, for any ceiling and any number of requests, one at a time
  or not. `ChannelsInvariant` counts the channels in use together with the requests that found room and
  have not created theirs yet (`Creating`): one that begins was told that there are fewer than the
  ceiling, and of those that create there are no more than there are requests (`FewCreate`).
- `ReadMeansShown`: `[]ReadWasShown`. `DirectMessagesInvariant` adds that what a page has marked belongs to its
  thread and is by the other one: what `GetThread` then shows is at least that.
- `CasesAreTold`: `[]CaseFollowsThread`. `Locked` says that whoever holds the lock of a case is alone with it
  and has read it as it is; `Story`, that thread and row tell the same, which one more message
  continues because it begins where the row is. `InOrder` is about serial requests alone.
- `ActorsAnswerOnce`: `[]AnswersAgree`. The answers agree for every actor whose location grants have a
  location (`Located`), which `resolveActor` makes.
- `FilesAreReadRight`: `[]FilesAreRead`, for every text and every table of rows with a cell at least (each
  caller of `toCsv` writes such rows). `FilesInvariant` is about the loop before it ends: it is inside quotes
  where the rules say so, and what it has collected is `Placed`, that is, has as many rows, cells and
  characters as the rules count in the text so far, every content character at its place. The counts change by one at
  most from a character to the next (`RowNext`, `CellsNext`, `ContentNext`), so no induction over the text
  is needed, the behaviour is one. For a text that was written, `ReadBack` says which cell the loop is in, that all
  before it came back, and what of the text is left: the rest of this cell, doubled and quoted where it
  has to be, and the cells and rows after it (`Left`). The writer's text is taken apart cell by cell by
  `RestUnfolds`, which shows that the recursion of `Joined` has a value, again by the least number at which
  it would not. At the end nothing is left, so every cell has come back (`AllReadBack`).
- `BurstsAreBounded`: `[]BurstIsBounded`. `Spaced` says when the current window's first call landed, and that
  any call and the one `2 * Allowance - 1` after it are nearly a window apart: between them a
  whole window was begun and used up. `RateLimitsAssumption` says that a statement waits for the row for
  less than a window (a minute or more for every limit in the code), and that a row is pruned no
  earlier than a window and a wait after it began (a day, in the code).

**BackOfficeProofs**, Billing
- `BillingTypeCorrect`; `GraceGranted`, from `OverdueSincePaid`: nobody has been past due for longer than they
  have not paid; `PaidUp`, from `Told`: while deliveries are in order what is recorded is a prefix
  of what was issued, and a trial has seen no payment.

**BackOfficeProofs**, Authoring
- `ContentTypeCorrect`, `OrderSettled`: `Spec => []TypeOK`, `Spec => []OrderIsSettled`, however transactions
  overlap. `Written` says of every version that it is `Good`: typed, its tasks in sections there are,
  and no two siblings at one position. A new position comes after the last of its siblings, of which
  there are finitely many (`GreatestOf`); a position is chosen when it is written, so overlap is harmless.
- `PublishedStays`, `PublishedWhole`, `DraftsContinue`: the three other properties of the run. Their
  invariant is `Consistent`: what an open transaction has `Checked` is still so, because no two hold
  one draft or the document (`Exclusive`), or because nobody else acts. `OneVersion` says what a commit
  can do then: change the draft it has open, or make one that continues what is published.

**SchedulingProofs**
- `KnownRows`: `Spec => []Inv`. `Inv` is `TypeOK`, that a created shift has its times, and that every
  row remembered by a transaction or by an active swap request is either older than the live row
  or agrees with it on the times (with `StaleWrites` the last part is waived). The action lemmas
  show that each step either is *calm* (rows only grow, nothing new is remembered) or remembers
  what it has just read.
- `TypeCorrect`, with or without stale writes.
- `FlagIsHonest`: `Spec => []ChangedFlagHonest`, with or without stale writes. Every handler that
  writes the plain columns alone calls `markChanged`; `reassignNow` writes both copies alike.
- `SwapAgreed`, assuming `~StaleWrites`: `Spec => SwapAsAgreed`. The version and assignee checked by
  `reassignNow` are enough for everything the colleagues saw, because a version says which times.
- `PublicationReaches`, `LossAnnounced`, assuming `~StaleWrites`: `Spec => PublicationReachesHolder`,
  `Spec => LossIsAnnounced`. `ReadsAccounted` is their invariant, `Inv` with `Shown`: nobody works an open
  shift in either copy (`Closed`); whoever offers a shift in a swap has it in both copies, or its
  version has moved on (`SwapsOwned`); and what a publication has read of a shift is how it is
  (`Untouched`), or an approval came in between, which has told its new holder (`Touched`,
  `ReadSame`). Edits wait for the publication, so there is no third case; with `StaleWrites` there
  is, and section 8 says what becomes of it.

**MembershipProofs**
- `TypeCorrect`, with what an open transaction may rely on (`OpenGrounded`): an employment stays, a
  separation stays filed, an approval is not taken back.
- `TwoPersonRule`: `Spec => []SeparationTookTwo`, however transactions overlap. Each step of a
  separation matches on the id alone, but who asked and who approved are never rewritten once
  somebody relies on them (`FilingsProper`).
- `JoinsOnce`: `Spec => []JoinedOnce`, also overlapping; from `Joined`: an invitation that has an
  employment as its target or outcome shares it with no other invitation.
- `ImportLinkRevives`: `Spec => []OnlyTheImportLinkRevives`; `SeparationIsHeld`: both, as the run asks them.

**OperationsProofs**
- `IInv` is `Safe` (types; the draft a publication read is still a version and no run disappears; what
  has no run is blank; a page shows an earlier revision of the task or the task as it is), that a
  note belongs to its task, and `VerifierIsAnother`. The third part of `Safe` is what makes the revision
  check worth having: whoever passes it saw the task as it is.
- However transactions overlap: `TypeCorrect`, `AnotherVerifies`, `DoneByItsHolder`, `FinishedIsKept`,
  `NoteIsTheirs`; `WorkStaysTheDoers` is the second and third together, as the run asks them.
- One at a time: `RunsFollow`, `HolderIsReminded`, `TasksFollow`. `Following` adds that nothing is read
  ahead of what is written, and that whoever has work that was reminded of, in force or not, has
  been told of the shift (`HolderTold`): a cancelled run may come back.

**OnboardingProofs**
- `TypeCorrect`, and all properties of the run, each as `Spec =>`, however transactions overlap:
  `CourseIsFollowed`, `RunIsFollowed`, `NothingUnearned`, `CompletionIsOneWay`, `RecordStays`; `NothingGoesBack`
  is the last two together, as the run asks them.
- Alone, `StepFollowsCourse` is not inductive: a handler writes a step it has read without a lock.
  `Inv` adds what every open transaction may rely on (`ReadOK`). The rows only go on from what it saw
  (`Later`); a step that was ended, that is completed or flagged since, still is; the course step is
  linked as it was, unless a new assignment has been made meanwhile (`Fills`), which needs the old one
  to be closed. And for the holder of a lock (`LockOK`): its row is as read, and the step linked to it
  stands as read or has been flagged.
- Every action is shown to be sound for rows and steps (`RowsSound`, `StepsSound`) and calm for the
  transactions of others (`CalmFor`); `ReadKept` says that calm is enough for `ReadOK`. The two action
  properties are conjuncts of `RowsSound` and `StepsSound`.

**WorkerTickProofs**
- `TypeCorrect`; `UndoneExplained`: `Spec => UndoneIsExplained`. The invariant says of every tick under way
  that it is `Honest`: what it owes exists (`Known`), the schedules left are still on its list or
  reported (`PublishOK`), the chores of the steps behind it are done or reported (`ChoresOK`), and
  nothing is left beside a batch that is not full, nor after the delivery, unless it is reported or the
  tick was at its limit (`DeliverOK`, `BatchesOK`). Another tick may queue what this one
  has to hear of, or die holding what this one wanted, so the invariant is about all ticks at once.

Only model-checked: all liveness (the last conjunct of `DeliveryPromised`, `DueScheduleIsSettled`,
`WhatIsDueHappens`, `DueIsDone`), which is out of the prover's reach. Every safety property of a passing run is
stated by a theorem.

## 7. Where code and documentation disagree

Each is a run whose counterexample TLC finds; the entries under `findings` have the quotations. No
transactions overlap in them. More, of which some need overlapping transactions, are in section 8.

1. *MembershipSeparationIsFinal.* Somebody imported from a file has a link that is still pending;
   their separation is filed, approved and completed. The link is then answered: `acceptInvitation`
   sets the employment active and grants the role. `separation-service.ts` calls completion "the only
   irreversible step".
2. *AnnouncementsScreen.* A page shows an announcement, a manager revises it, and the button on the page is
   pressed. `acknowledge` gets the announcement's id, reads its current revision and records that one, a
   wording the page never showed; the comment above it (`inbox.ts:433`) says that it stamps "the revision
   that was on screen".
3. *PlannerTimeOff.* Time off that ends in an hour the clocks skip is requested and approved. `timeOffPeriod` is
   null for it, both availability checks pass over it, and its person is given a shift within it, though
   `slotted.ts:39` says "Approved time off is never assignable" and that there should be no interface that does it.

## 8. Observations without a run

What the models show or the reading suggested beyond the runs. Many were found by taking `Serial`
out of a property, or an assumption away.

*Queue and quiet hours*
- Leases count from the instant the tick began (`notifications/service.ts:342`; the comment at :293
  promises disjoint batches); the endless loop does not bound a tick, so a late batch can be
  claimed under a lease that is over and sent twice. `DisjointBatches` needs `TickSpan < Lease`; that
  the late completion then writes nothing is proved without it (`StaleHolder`).
- A crash after a claim costs an attempt, so `MAX_DELIVERY_ATTEMPTS` may be exceeded by one per
  crash. That is why `AttemptsBounded` names the crashes.
- On the night the clocks change, `nextDeliverableAt` adds wall-clock minutes to an instant and is
  off by the change; a row may come due inside the window. Retries do not look at quiet hours.

*Announcements*
- A cancellation that read "scheduled" lands after the worker has published: a draft with
  recipients and queued notices.
- An acknowledgement of the old wording commits after a material revision has looked for whom to
  ask again (`inbox.ts:480` reads the revision without a lock), and nobody asks: `MaterialRevisionAsksAgain`
  counts from the revision current at the commit (`answered`).
- An automatic reminder whose worker read its candidates before a revision claims its stamp for the new
  revision, but its key is made of the old one (`receipts.ts:384`). The key may exist already: then the person
  is stamped and hears nothing (`Overtaken` in `StampMeansNotified`).
- An edit of a draft that commits after its publication rewrites the wording of revision 1 in
  place, under acknowledgements already given.
- Revising a scheduled announcement and then cancelling the schedule leaves a draft with two
  revisions (`comms/service.ts:1030`, `:342`).
- Two presses of the reminder button are two reminders: the key carries the count.

*Billing and the worker*
- A second payment for a period that has ended a subscription revives it, and a later
  cancellation does not end it for that period: the key is taken (`billing/service.ts:561`).
- An organization whose only due work is a changed quantity is never discovered; and the quantity
  event's key is the hour, so a count that goes back and forth within it is recorded once.
- `worker.ts:249` says one bad schedule cannot hold back the others; any error but
  `ScheduledPublishError` ends the publishing step of that organization for this tick. It is reported, and
  the next tick tries again (`UndoneIsExplained`, `DueIsDone`).
- `TickReport` (`worker.ts:92-112`) counts the organizations put off and lists the steps that failed. A
  delivery that reached `maxBatches`, or stopped after a batch because the deadline had passed, leaves
  notifications of that organization for the next tick, and the report does not say so.
- If the deadline struck at the same place at every tick, the organizations behind it would starve:
  discovery has no memory of who came last. Archived organizations are not discovered at all.

*Scheduling*
- The slotted planner leaves claims pending on a shift it fills. Once the week is published and the
  slot cleared, approving the old claim overwrites the published assignee, who hears nothing; no
  transactions overlap. `LossIsAnnounced` is what the code keeps otherwise.
- With `StaleWrites = TRUE`:
  - `assignToSlot` and `clearSlot` write the version they read plus one. If an edit committed in
    between, the version stays or goes back, and a swap agreed before can pass its check on a
    shift that has moved (`SwapAsAgreed` fails with two managers).
  - The first publication: `markChanged` leaves drafts alone, so an edit between the reading of the
    week and its copy is published and announced to nobody. (A shift cannot be created in
    between: its foreign key waits for the schedule's lock.)
  - `cancelShift` that read "never published" deletes a shift published meanwhile; its assignee is
    not told.
- A claim approved on a shift with an unpublished move: the claimant is told the new times, the
  published copy has the old ones; if the shift is moved back, nothing more is said.
- A swap approved while a publication runs can be followed by a notice to its former holder,
  composed from what was read before the swap. And a claim that outlived its shift, approved while
  a publication runs that takes the shift from the claimant, is followed by "removed" although the
  same publication shows it to them (`GivenBack` in `PublicationReachesHolder`); it takes six versions.
- A claim inserted after the shift it read was given away stays pending on a filled shift until
  somebody declines it. Filling a slot does not look at the shift's status.

*Planner*
- `generateWeek`, `applyTemplates` and the board's handlers do not take back a day's review, though
  "a day that changes stops counting as reviewed". `assignShift(null)` leaves the override row, which
  the week's review then shows against whoever is assigned next. The board records no override.
- Autofill does not count shifts that began before the week: an overnight one makes it run into the
  exclusion constraint and fail as a whole.
- Overlapping: two generations duplicate slots, autofill overwrites an assignment made meanwhile,
  and time off is approved while a slot is filled (write skew).
- `fillCallout` may replace somebody with themselves; an unavailable window with a time that does
  not exist is ignored; two template sets created at once can both be default, and archiving the
  default leaves none.

*Membership*
- The hourly limit and the one open invitation per address are counted before the insert and hold
  serially.
- An account is created before the invitation is accepted (`accept-action.ts:69`). If the link was
  revoked in between the account stays, without an organization.

*Operations*
- Publishing a template version for other targets cancels the runs of shifts under way
  (`generation.ts:253`), and so does the next synchronization after `archiveTemplate`, whose comment
  says shifts that have it keep it. `restoreTemplate` generates nothing until a shift is published.
- A task undone, returned or reopened keeps its due time and holder though the shift moved since.
- Overlapping: a reminder goes to the previous holder, a completion races with the cancellation of
  its run and succeeds, `generateForUpcoming` creates a run for whoever had the shift, and of two
  publications the one that wrote last may have read first: runs and tasks stay with the times and the
  person it read (`OpenTasksFollowShift`, `RunFollowsShift` without `Serial`).

*Training, onboarding and authoring*
- Two last steps completed by overlapping transactions each read the other as pending: the run
  stays open, and nothing looks at it again (`completion.ts` reads without a lock).
- `blockStep` does not look at the step's status and nothing unblocks one; a checklist without a
  required step that gates completion never completes.
- `decideSignoff` locks the progress row and then the assignment, `lessonContext` the other way
  round: a deadlock, which PostgreSQL turns into a `Rollback`.
- `requireDraftVersion` (`onboarding/templates.ts:407`) has neither lock nor trigger: overlapping, a
  published checklist changes, is published empty, has two drafts, or is begun from an old version. Two
  people who each delete a section leave none: each counted two (`onboarding/templates.ts`, `deleteSection`).
- `saveQuestion` and `updateQuiz` overwrite what was saved meanwhile; removing a step of a
  checklist and adding one can give two the same position. Operations templates refuse to publish
  while archived; a checklist's version is published and stays archived.

*Messaging and support*
- Two requests create a channel when there is one: both count one, and there are three, where
  `messaging/schema.ts:22` says "at most two custom channels per organization". `CeilingHolds` is what holds:
  each request that overlaps may add one to the ceiling, and one at a time they keep to it.
- Two requests open one conversation: the second insert meets the unique index, and nothing catches
  it. `messaging/schema.ts` says "opening a conversation is idempotent under a double tap".
- Overlapping: a post lands in a channel archived since it was looked up, and nobody can read it; the
  older of two messages overwrites `last_message_at`, and is shown above one that was there before it.
- Overlapping: the clock of a support message is read before the case is locked, so the page may show
  the thread in another order than it was written in, with changes of status that do not follow each
  other (`ThreadTellsStatus` without `Serial`). The limit of cases per hour is counted before the insert.
- The status a staff member chooses on the page is set whatever the customer wrote since the page was
  shown: an answer may be resolved unseen.

*Files and counters*
- A cell that begins like a formula, a phone number "+1 ..." for instance, comes back from a written file
  with the apostrophe before it. A row's number counts records: after a quoted cell with a line break
  it is not the line of the text file.
- A window is counted from its first call, so nearly twice the limit passes around its end. A call whose
  database statement fails is allowed and not counted.

## 9. What is not modelled

- User interface, rendering, what exports and reports contain: data, no control, and most of
  the repository's lines. Migrations and seeds run once.
- Documents, events, structure, organization, audit, status: records that are inserted,
  updated and listed; few other components depend on their state.
- Which handler asks which permission, apart from a manager's reach in Announcements, which changes while
  a schedule waits, and the role in Membership; AccessControl has how an answer comes about.
  Authentication and e-mail providers are libraries and services,
  represented by their outcomes where a component depends on them.
- Clock skew between processes. PostgreSQL's deadlock
  detection appears as a rollback.
- In Announcements: duplication, categories, priorities. In Billing: plans, contact data, quantities,
  and the simulated provider of the development build. In handoffs: acknowledgements. In training:
  quizzes' questions and scores, skills, paths of several courses. In onboarding: documents to sign.
  In people: the headers and single values of an import's file, profiles.

## 10. Plan

Done: the queue with DeliveryPromise and QuietHours, Announcements, Billing, Scheduling, Membership,
Operations, Training and Onboarding, Authoring, Planner, WorkerTick, and six small ones: Channels,
DirectMessages, Support, AccessControl, PeopleCsv, RateLimits; proofs for all.

What would come next, in this order:

1. Abstract specifications: for announcements, "published, revised, retired" with what each person is
   asked; for scheduling, one copy of the week and what each person knows; for onboarding, one list
   of things done. WorkerTick as the environment of the queue instead of beside it.

## 11. Running it

    tlc -workers 2 -config Scheduling.cfg MCScheduling.tla
    tlc -workers 2 -config Worker.cfg MCWorker.tla
    tlapm OperationsProofs.tla

`PROJECT.json` names module and configuration of every run. The longest, Services and Worker,
take under three minutes with two workers, the others two or less; each proof module
takes one to a few minutes.
