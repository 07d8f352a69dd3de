------------------------------- MODULE Operations -------------------------------
(***************************************************************************)
(* The work on published shifts: templates and their versions, the runs    *)
(* generated from them, the tasks people complete and managers verify, the *)
(* reminder before a shift and the handoff to the next one (generation.ts, *)
(* items.ts, work.ts, board.ts, templates.ts, reminders.ts, handoffs.ts).  *)
(*                                                                         *)
(* A task changes state only through transition, which demands the         *)
(* revision the person's page showed.  screen is that page, and what the   *)
(* handler reads of the run before it writes: one at a time ("serial") it  *)
(* reads the run as it is, "overlapping" as it was when the page was read. *)
(* The publication of a template and the reminders then also write by what *)
(* they read before others committed (publishing, reminding).              *)
(*                                                                         *)
(* Abstracted: one location, one task per template, due when the shift     *)
(* starts; a shift lasts one unit of time and keeps its business date;     *)
(* job roles stand for everything a template is targeted by; whoever asks  *)
(* for a shared task works at the location that day.                       *)
(***************************************************************************)
EXTENDS Naturals, FiniteSets

CONSTANTS
  Shifts, Templates, People,
  Managers,       \* hold checklist.verify, checklist.reopen and handoff.manage
  Natures,        \* what a template's task may be: verified, shared, a handoff note
  Roles, Handoffs,
  None,           \* null
  Isolations,     \* how transactions may run
  LastHour,       \* bound: the clock
  MaxRevision,    \* bound: changes of one task
  MaxChanges      \* bound: publications of shifts and templates, archivings and restorations

ASSUME SetsAssumption == /\ Managers \subseteq People
                         /\ Natures \subseteq SUBSET {"verified", "shared", "handoff"}
ASSUME NoneAssumption == /\ None \notin People \union Roles \union Handoffs
                         /\ \A S \in SUBSET Roles : S # None
ASSUME IsolationAssumption == Isolations \subseteq {"serial", "overlapping"}
ASSUME BoundsAssumption == LastHour \in Nat \ {0} /\ MaxRevision \in Nat /\ MaxChanges \in Nat

VARIABLES
  isolation,   \* whether transactions overlap
  now,         \* the clock
  shift,       \* the published copy of each shift
  template,    \* templates, with their published version and their draft
  run,         \* the run of each shift and template
  item,        \* its task
  handoff,     \* handoffs
  told,        \* reminders: whom, of which shift, starting when
  screen,      \* what each person's page last showed
  publishing,  \* what the publication of a template under way has read
  reminding,   \* what the reminders under way have read
  changes      \* publications, archivings and restorations so far

vars == <<isolation, now, shift, template, run, item, handoff, told, screen, publishing,
          reminding, changes>>

Hours    == 1..LastHour
Works    == Shifts \X Templates
Targets  == {{}} \union {{r} : r \in Roles}
OpenStatuses == {"pending", "blocked"}
Finished == {"awaiting", "done", "skipped"}

ShiftCopy == [status : {"unpublished", "active", "cancelled"}, who : People \union {None},
              start : Hours, role : Roles \union {None}]
Template  == [status : {"none", "active", "archived"}, nature : Natures \union {{}},
              published : Targets \union {None}, draft : Targets \union {None}]
Run       == [status : {"none", "active", "cancelled"}, who : People \union {None},
              reminded : BOOLEAN]
Item      == [status : OpenStatuses \union Finished, who : People \union {None}, due : Hours,
              revision : 0..MaxRevision, by : People \union {None},
              verifiedBy : People \union {None}, handoff : Handoffs \union {None}]
Handoff   == [status : {"none", "open", "resolved"}, author : People \union {None},
              of : Works \union {None}, resolvedBy : Managers \union {None}]

NoRun  == [status |-> "none", who |-> None, reminded |-> FALSE]
NoItem == [status |-> "pending", who |-> None, due |-> 1, revision |-> 0, by |-> None,
           verifiedBy |-> None, handoff |-> None]
NoHandoff == [status |-> "none", author |-> None, of |-> None, resolvedBy |-> None]

Init ==
  /\ isolation \in Isolations
  /\ now = 0
  /\ shift = [s \in Shifts |-> [status |-> "unpublished", who |-> None, start |-> 1, role |-> None]]
  /\ template = [t \in Templates |->
                   [status |-> "none", nature |-> {}, published |-> None, draft |-> None]]
  /\ run = [w \in Works |-> NoRun]
  /\ item = [w \in Works |-> NoItem]
  /\ handoff = [h \in Handoffs |-> NoHandoff]
  /\ told = {}
  /\ screen = [p \in People |-> None]
  /\ publishing = None
  /\ reminding = None
  /\ changes = 0

Serial == isolation = "serial"

Change == changes < MaxChanges /\ changes' = changes + 1

Over(row) == now >= row.start + 1

-----------------------------------------------------------------------------
(* syncOperationsForShifts, for one shift and template.  row is the shift,  *)
(* tmpl the template and seen the run as they were read.                    *)

TemplateApplies(targets, row) == targets = {} \/ row.role \in targets

Applies(tmpl, row) == /\ row.status = "active" /\ tmpl.status = "active" /\ tmpl.published # None
                      /\ TemplateApplies(tmpl.published, row)

Moving == OpenStatuses

\* Mutant: the runs of a cancelled shift stay.
CancelledByTemplate(w, row, tmpl, seen) ==
  seen.status = "active" /\ row.status = "active" /\ ~Applies(tmpl, row)

Cancelled(w, row, tmpl, seen) == seen.status = "active" /\ ~Applies(tmpl, row)
Created(w, row, tmpl, seen)   == seen.status = "none" /\ Applies(tmpl, row) /\ ~Over(row)
                                   /\ run[w].status = "none"
Kept(w, row, tmpl, seen)      == /\ Applies(tmpl, row) /\ seen.status # "none"
                                 /\ seen.status = "cancelled" => run[w].status = "cancelled"

\* The run the comparisons are made with: the one just reactivated, or the one that was read.
Compared(w, seen) == IF seen.status = "cancelled" THEN run[w] ELSE seen

Late(w, row) == item[w].status \in Moving /\ item[w].due # row.start

\* Mutant: a run that changes hands is not reminded of again.
StillReminded(w, row, seen) == run[w].reminded /\ ~Late(w, row)

\* Whether the run has been reminded of, once it is reconciled.
Reminded(w, row, seen) == run[w].reminded /\ ~Late(w, row) /\ Compared(w, seen).who = row.who

SyncedRun(w, row, tmpl, seen) ==
  CASE Cancelled(w, row, tmpl, seen) ->
         [run[w] EXCEPT !.status = IF @ = "active" THEN "cancelled" ELSE @]
    [] Created(w, row, tmpl, seen) -> [status |-> "active", who |-> row.who, reminded |-> FALSE]
    [] Kept(w, row, tmpl, seen) ->
         [status   |-> IF seen.status = "cancelled" THEN "active" ELSE run[w].status,
          who      |-> IF Compared(w, seen).who # row.who THEN row.who ELSE run[w].who,
          reminded |-> Reminded(w, row, seen)]
    [] OTHER -> run[w]

\* Mutant: only the run changes hands.
MovesNothing(w, row, seen) == FALSE

\* Open work moves with the shift, unless a manager gave it to somebody else.
Moves(w, row, seen) == /\ Compared(w, seen).who # row.who
                       /\ item[w].status \in Moving /\ item[w].who = Compared(w, seen).who

Times(w, row, seen) == (IF Moves(w, row, seen) THEN 1 ELSE 0) + (IF Late(w, row) THEN 1 ELSE 0)

SyncedItem(w, row, tmpl, seen) ==
  CASE Created(w, row, tmpl, seen) -> [NoItem EXCEPT !.who = row.who, !.due = row.start]
    [] Kept(w, row, tmpl, seen) ->
         [item[w] EXCEPT !.who = IF Moves(w, row, seen) THEN row.who ELSE @,
                         !.due = IF Late(w, row) THEN row.start ELSE @,
                         !.revision = @ + Times(w, row, seen)]
    [] OTHER -> item[w]

\* The shifts S are reconciled by rows, templates and runs as they were read.
Sync(S, rows, tmpls, runs) ==
  /\ run' = [w \in Works |-> IF w[1] \in S
       THEN SyncedRun(w, rows[w[1]], tmpls[w[2]], runs[w]) ELSE run[w]]
  /\ item' = [w \in Works |-> IF w[1] \in S
       THEN SyncedItem(w, rows[w[1]], tmpls[w[2]], runs[w]) ELSE item[w]]
  /\ \A w \in Works : item'[w].revision <= MaxRevision

\* publishSchedule and reassignNow: the published copy changes, and the work follows.
PublishShift(s) ==
  /\ \E status \in {"active", "cancelled"}, who \in People \union {None}, start \in Hours,
        role \in Roles \union {None} :
       shift' = [shift EXCEPT ![s] =
         [status |-> status, who |-> who, start |-> start, role |-> role]]
  /\ shift' # shift
  /\ Sync({s}, shift', template, run) /\ Change
  /\ UNCHANGED <<isolation, now, template, handoff, told, screen, publishing, reminding>>

-----------------------------------------------------------------------------
(* Templates *)

UnchangedByTemplates ==
  UNCHANGED <<isolation, now, shift, run, item, handoff, told, screen, reminding>>

CreateTemplate(t) ==
  /\ template[t].status = "none"
  /\ \E nature \in Natures, targets \in Targets :
       template' = [template EXCEPT ![t] =
         [status |-> "active", nature |-> nature, published |-> None, draft |-> targets]]
  /\ UnchangedByTemplates /\ UNCHANGED <<publishing, changes>>

\* requireDraft.
IsDraft(t) == template[t].status = "active" /\ template[t].draft # None

SetDraftTargets(t) ==
  /\ IsDraft(t)
  /\ \E targets \in Targets \ {template[t].draft} :
       template' = [template EXCEPT ![t].draft = targets]
  /\ UnchangedByTemplates /\ UNCHANGED <<publishing, changes>>

StartNewDraft(t) ==
  /\ template[t].status = "active" /\ template[t].draft = None
  /\ template' = [template EXCEPT ![t].draft = template[t].published]
  /\ UnchangedByTemplates /\ UNCHANGED <<publishing, changes>>

Discardable(t) == IsDraft(t) /\ template[t].published # None

DiscardDraft(t) ==
  /\ Discardable(t)
  /\ template' = [template EXCEPT ![t].draft = None]
  /\ UnchangedByTemplates /\ UNCHANGED <<publishing, changes>>

ArchiveTemplate(t) ==
  /\ template[t].status = "active"
  /\ template' = [template EXCEPT ![t].status = "archived"]
  /\ UnchangedByTemplates /\ UNCHANGED publishing /\ Change

RestoreTemplate(t) ==
  /\ template[t].status = "archived"
  /\ template' = [template EXCEPT ![t].status = "active"]
  /\ UnchangedByTemplates /\ UNCHANGED publishing /\ Change

Published(t) == [template EXCEPT ![t] = [@ EXCEPT !.published = template[t].draft, !.draft = None]]

\* generateForUpcomingShifts.
Upcoming(rows) == {s \in Shifts : rows[s].status = "active" /\ ~Over(rows[s])}

PublishDraft(t) ==
  /\ Serial /\ IsDraft(t)
  /\ template' = Published(t)
  /\ Sync(Upcoming(shift), shift, template', run) /\ Change
  /\ UNCHANGED <<isolation, now, shift, handoff, told, screen, publishing, reminding>>

BeginPublishDraft(t) ==
  /\ ~Serial /\ IsDraft(t) /\ publishing = None
  /\ publishing' = [of |-> t, shifts |-> shift, templates |-> Published(t), runs |-> run]
  /\ UnchangedByTemplates /\ UNCHANGED <<template, changes>>

\* The draft was locked when it was read.
EndPublishDraft ==
  /\ publishing # None
  /\ LET version == publishing.templates[publishing.of].published IN
     template' = [template EXCEPT ![publishing.of] = [@ EXCEPT !.published = version,
                                                               !.draft = None]]
  /\ Sync(Upcoming(publishing.shifts), publishing.shifts, publishing.templates, publishing.runs)
  /\ publishing' = None /\ Change
  /\ UNCHANGED <<isolation, now, shift, handoff, told, screen, reminding>>

-----------------------------------------------------------------------------
(* The work *)

Is(w, nature) == nature \in template[w[2]].nature

\* Whether the work is still wanted, and the shift still on.
Wanted(w) == run[w].status = "active"
Live(w)   == Wanted(w) /\ shift[w[1]].status = "active"

Page(w) == [work |-> w, item |-> item[w], wanted |-> Wanted(w), live |-> Live(w)]

Look(p) ==
  /\ \E w \in Works : run[w].status # "none" /\ screen' = [screen EXCEPT ![p] = Page(w)]
  /\ screen' # screen
  /\ UNCHANGED <<isolation, now, shift, template, run, item, handoff, told, publishing,
                 reminding, changes>>

\* Mutant: the revision of the page is not looked at.
OnAnyScreen(p, w) == screen[p] # None /\ screen[p].work = w

\* transition's expectedRevision.
OnScreen(p, w) == /\ screen[p] # None /\ screen[p].work = w
                  /\ screen[p].item.revision = item[w].revision

\* What a handler reads of the work before it writes.
Read(p, w) == IF Serial THEN Page(w) ELSE screen[p]

\* requireWorkerItem: from 12 hours before the start to 12 hours after the end.
MayWork(p, w) ==
  LET row == shift[w[1]] IN
  /\ OnScreen(p, w) /\ Read(p, w).live
  /\ Read(p, w).item.who = p \/ Is(w, "shared")
  /\ now + 1 >= row.start /\ now <= row.start + 2

\* transition: from one of the statuses `from`, with the columns in `to` set.
Transition(p, w, from, to) ==
  /\ item[w].status \in from /\ item[w].revision < MaxRevision
  /\ item' = [item EXCEPT ![w] = [to EXCEPT !.revision = item[w].revision + 1]]
  /\ screen' = [screen EXCEPT ![p] = None]

UnchangedByWork ==
  UNCHANGED <<isolation, now, shift, template, run, told, publishing, reminding, changes>>

CompletedStatus(w) == IF Is(w, "verified") THEN "awaiting" ELSE "done"

CompleteTask(p, w) ==
  /\ ~Is(w, "handoff") /\ MayWork(p, w)
  /\ Transition(p, w, OpenStatuses,
       [item[w] EXCEPT !.status = CompletedStatus(w), !.by = p, !.verifiedBy = None])
  /\ UnchangedByWork /\ UNCHANGED handoff

\* Mutant: with nothing to hand over, the column is left alone.
LeavesNote(w, h) == IF h = None THEN item[w].handoff ELSE h

Leaves(w, h) == h

\* A note for the next shift, or nothing to hand over; the note and the task are one transaction.
CompleteHandoffTask(p, w) ==
  /\ Is(w, "handoff") /\ MayWork(p, w)
  /\ \E h \in {g \in Handoffs : handoff[g].status = "none"} \union {None} :
       /\ Transition(p, w, OpenStatuses,
            [item[w] EXCEPT !.status = CompletedStatus(w), !.by = p, !.handoff = Leaves(w, h)])
       /\ handoff' = IF h = None THEN handoff ELSE
            [handoff EXCEPT ![h] = [status |-> "open", author |-> p, of |-> w, resolvedBy |-> None]]
  /\ UnchangedByWork

SkipTask(p, w) ==
  /\ MayWork(p, w)
  /\ Transition(p, w, OpenStatuses, [item[w] EXCEPT !.status = "skipped", !.by = p])
  /\ UnchangedByWork /\ UNCHANGED handoff

BlockTask(p, w) ==
  /\ MayWork(p, w) /\ Transition(p, w, {"pending"}, [item[w] EXCEPT !.status = "blocked"])
  /\ UnchangedByWork /\ UNCHANGED handoff

UnblockTask(p, w) ==
  /\ MayWork(p, w) /\ Transition(p, w, {"blocked"}, [item[w] EXCEPT !.status = "pending"])
  /\ UnchangedByWork /\ UNCHANGED handoff

\* CLEARED_COMPLETION.
Reopened(w) == [item[w] EXCEPT !.status = "pending", !.by = None, !.verifiedBy = None]

UndoTask(p, w) ==
  /\ MayWork(p, w)
  /\ Read(p, w).item.by = p /\ Read(p, w).item.verifiedBy = None
  /\ now <= shift[w[1]].start + 1
  /\ Transition(p, w, Finished, Reopened(w))
  /\ UnchangedByWork /\ UNCHANGED handoff

\* requireManagedItem, which asks the run only.
MayManage(p, w) == p \in Managers /\ OnScreen(p, w) /\ Read(p, w).wanted

SomeoneElses(p, w) == Read(p, w).item.by # p

VerifyTask(p, w) ==
  /\ MayManage(p, w) /\ SomeoneElses(p, w)
  /\ Transition(p, w, {"awaiting"}, [item[w] EXCEPT !.status = "done", !.verifiedBy = p])
  /\ UnchangedByWork /\ UNCHANGED handoff

ReturnTask(p, w) ==
  /\ MayManage(p, w) /\ Transition(p, w, {"awaiting", "done"}, Reopened(w))
  /\ UnchangedByWork /\ UNCHANGED handoff

ReopenTask(p, w) ==
  /\ MayManage(p, w) /\ Transition(p, w, {"done", "skipped"}, Reopened(w))
  /\ UnchangedByWork /\ UNCHANGED handoff

ReassignTask(p, w) ==
  /\ MayManage(p, w)
  /\ \E q \in People \ {Read(p, w).item.who} :
       Transition(p, w, OpenStatuses, [item[w] EXCEPT !.who = q])
  /\ UnchangedByWork /\ UNCHANGED handoff

-----------------------------------------------------------------------------
(* Handoffs *)

UnchangedByHandoffs ==
  UNCHANGED <<isolation, now, shift, template, run, item, told, screen, publishing, reminding,
              changes>>

\* From a shift by whoever is on it, or by a manager.
CreateHandoff(p) ==
  /\ p \in Managers \/ \E s \in Shifts : shift[s].status = "active" /\ shift[s].who = p
  /\ \E h \in Handoffs :
       /\ handoff[h].status = "none"
       /\ handoff' = [handoff EXCEPT ![h] =
            [status |-> "open", author |-> p, of |-> None, resolvedBy |-> None]]
  /\ UnchangedByHandoffs

ResolveHandoff(m, h) ==
  /\ handoff[h].status = "open"
  /\ handoff' = [handoff EXCEPT ![h] = [@ EXCEPT !.status = "resolved", !.resolvedBy = m]]
  /\ UnchangedByHandoffs

ReopenHandoff(m, h) ==
  /\ handoff[h].status = "resolved"
  /\ handoff' = [handoff EXCEPT ![h] = [@ EXCEPT !.status = "open", !.resolvedBy = None]]
  /\ UnchangedByHandoffs

-----------------------------------------------------------------------------
(* The pre-shift reminder, and time *)

\* Runs to be reminded of, with whom to tell.
DueReminders ==
  {[work |-> w, to |-> run[w].who, start |-> shift[w[1]].start] :
     w \in {v \in Works : /\ run[v].status = "active" /\ ~run[v].reminded /\ run[v].who # None
                          /\ shift[v[1]].status = "active" /\ shift[v[1]].start = now + 1
                          /\ item[v].status = "pending"}}

\* The conditional update claims what nobody has reminded of since.
Remind(due) ==
  LET claimed == {d \in due : ~run[d.work].reminded} IN
  /\ run' = [w \in Works |-> IF \E d \in claimed : d.work = w
                               THEN [run[w] EXCEPT !.reminded = TRUE] ELSE run[w]]
  /\ told' = told \union {[who |-> d.to, shift |-> d.work[1], start |-> d.start] : d \in claimed}
  /\ UNCHANGED <<isolation, now, shift, template, item, handoff, screen, publishing, changes>>

ProcessOperationsReminders ==
  /\ Serial /\ DueReminders # {} /\ Remind(DueReminders) /\ UNCHANGED reminding

ReadReminders ==
  /\ ~Serial /\ reminding = None /\ DueReminders # {} /\ reminding' = DueReminders
  /\ UNCHANGED <<isolation, now, shift, template, run, item, handoff, told, screen, publishing,
                 changes>>

ClaimReminders == reminding # None /\ Remind(reminding) /\ reminding' = None

\* Transactions are shorter than the unit of time.
HourPasses ==
  /\ now < LastHour /\ publishing = None /\ reminding = None
  /\ now' = now + 1
  /\ UNCHANGED <<isolation, shift, template, run, item, handoff, told, screen, publishing,
                 reminding, changes>>

WorkStep(p, w) ==
  \/ CompleteTask(p, w) \/ CompleteHandoffTask(p, w) \/ SkipTask(p, w) \/ BlockTask(p, w)
  \/ UnblockTask(p, w) \/ UndoTask(p, w) \/ VerifyTask(p, w) \/ ReturnTask(p, w)
  \/ ReopenTask(p, w) \/ ReassignTask(p, w)

Next ==
  \/ \E s \in Shifts : PublishShift(s)
  \/ \E t \in Templates :
       \/ CreateTemplate(t) \/ SetDraftTargets(t) \/ StartNewDraft(t) \/ DiscardDraft(t)
       \/ ArchiveTemplate(t) \/ RestoreTemplate(t) \/ PublishDraft(t) \/ BeginPublishDraft(t)
  \/ EndPublishDraft
  \/ \E p \in People : Look(p) \/ CreateHandoff(p) \/ \E w \in Works : WorkStep(p, w)
  \/ \E m \in Managers, h \in Handoffs : ResolveHandoff(m, h) \/ ReopenHandoff(m, h)
  \/ ProcessOperationsReminders \/ ReadReminders \/ ClaimReminders
  \/ HourPasses

Spec == Init /\ [][Next]_vars

-----------------------------------------------------------------------------
(* Properties *)

\* The types of the variables; a template has a version.
TypeOK ==
  /\ isolation \in Isolations /\ now \in 0..LastHour
  /\ shift \in [Shifts -> ShiftCopy]
  /\ template \in [Templates -> Template]
  /\ \A t \in Templates : template[t].status # "none" =>
       template[t].published # None \/ template[t].draft # None
  /\ run \in [Works -> Run]
  /\ item \in [Works -> Item]
  /\ handoff \in [Handoffs -> Handoff]
  /\ told \subseteq [who : People, shift : Shifts, start : Hours]
  /\ screen \in [People -> [work : Works, item : Item, wanted : BOOLEAN, live : BOOLEAN] \union {None}]
  /\ publishing # None =>
       /\ publishing.of \in Templates /\ publishing.shifts \in [Shifts -> ShiftCopy]
       /\ publishing.templates \in [Templates -> Template] /\ publishing.runs \in [Works -> Run]
  /\ reminding # None => reminding \subseteq [work : Works, to : People, start : Hours]
  /\ changes \in 0..MaxChanges

\* One at a time, work that counts belongs to a shift that is on, and to whoever the shift was
\* published to.
RunFollowsShift ==
  Serial => \A w \in Works : run[w].status = "active" =>
              shift[w[1]].status = "active" /\ run[w].who = shift[w[1]].who

\* One at a time, a shift that is published anew leaves no open task of an active run behind:
\* it is due when the shift now starts, and not with whom the shift was taken from.
OpenTasksFollowShift ==
  [][Serial => \A w \in Works :
       LET s == w[1] IN
       shift'[s] # shift[s] /\ run'[w].status = "active" /\ item'[w].status \in OpenStatuses =>
         /\ item'[w].due = shift'[s].start
         /\ item'[w].who = run[w].who => run[w].who \in {shift'[s].who, None}]_vars

\* However transactions overlap, nobody finishes a task that is another's, and a manager
\* verifies another's work: the revision makes both checks hold when the row is written.
DoneByWhoseItIs ==
  [][\A w \in Works, p \in People :
       item'[w].by = p /\ item[w].by # p => item[w].who = p \/ Is(w, "shared")]_vars

VerifierIsAnother ==
  \A w \in Works : item[w].verifiedBy # None => item[w].verifiedBy # item[w].by

\* However transactions overlap, finished work stays finished and with the person who did it
\* until somebody undoes, returns or reopens it: no publication, of a shift or of a template,
\* touches it ("finished work stays finished, and on record").
FinishedWorkIsKept ==
  [][\A w \in Works : item[w].status \in Finished /\ (shift' # shift \/ template' # template)
       => item'[w] = item[w]]_vars

\* One at a time, whoever has work that was reminded of is the one who was told of the shift,
\* however often it changed hands: "so the right person is reminded".
ReminderReachedHolder ==
  Serial => \A w \in Works : run[w].status = "active" /\ run[w].reminded =>
    \E n \in told : n.who = run[w].who /\ n.shift = w[1]

\* However transactions overlap, the note a finished handoff task points to is by whoever
\* finished it, and of that task.
NoteByWhoDidIt ==
  \A w \in Works : item[w].status \in {"awaiting", "done"} /\ item[w].handoff # None =>
    LET h == handoff[item[w].handoff] IN h.author = item[w].by /\ h.of = w

\* However transactions overlap, work is the doer's: only who has it finishes it, and no
\* publication takes it from them then (transition, syncOperationsForShifts).
WorkIsTheDoers == DoneByWhoseItIs /\ FinishedWorkIsKept

=============================================================================
