------------------------------- MODULE Authoring -------------------------------
(***************************************************************************)
(* What managers write and publish in numbered versions: a course with its *)
(* lessons, an operations template or an onboarding checklist with its     *)
(* sections and tasks (training/authoring.ts, operations/templates.ts,     *)
(* onboarding/templates.ts).  kind says which of the three this one is.    *)
(*                                                                         *)
(* A handler is two actions: Begin reads, checks and locks, the action of  *)
(* the handler's name writes.  One at a time ("serial") nobody else acts   *)
(* in between.  Courses and operations templates lock the version or the   *)
(* document, and triggers refuse what would change a published version; a  *)
(* checklist has neither.                                                  *)
(*                                                                         *)
(* Abstracted: a lesson, a task and a step are each a task, whose form is  *)
(* what publication looks at; a course is one section.  Titles, texts and  *)
(* change notes are left out, whom a version is for is in Operations.      *)
(***************************************************************************)
EXTENDS Naturals, FiniteSets

CONSTANTS
  Managers, Sections, Tasks,
  Kinds,        \* which documents there may be
  Isolations,   \* how transactions may run
  None,         \* null
  LastVersion,  \* bound: versions
  MaxChanges    \* bound: changes

ASSUME FinitenessAssumption == IsFiniteSet(Sections) /\ IsFiniteSet(Tasks)
ASSUME NoneAssumption == None \notin Nat \union Sections
ASSUME KindsAssumption == Kinds \subseteq {"course", "operations", "onboarding"}
ASSUME IsolationAssumption == Isolations \subseteq {"serial", "overlapping"}
ASSUME BoundsAssumption == LastVersion \in Nat \ {0} /\ MaxChanges \in Nat

VARIABLES
  isolation,   \* whether transactions overlap
  kind,        \* which document it is
  doc,         \* the course or template
  version,     \* its versions
  courseLive,  \* whether the course that steps may be linked to can be assigned
  open,        \* what each manager's transaction has read
  changes      \* changes so far

vars == <<isolation, kind, doc, version, courseLive, open, changes>>

Versions == 1..LastVersion
Serial   == isolation = "serial"
Locking  == kind # "onboarding"

Forms == CASE kind = "course"     -> {"incomplete", "complete"}
           [] kind = "operations" -> {"plain", "verified"}
           [] kind = "onboarding" -> {"plain", "linked", "unlinked"}

NoSections == [s \in Sections |-> None]
NoTasks    == [t \in Tasks |-> None]
NoVersion  == [status |-> "none", section |-> NoSections, task |-> NoTasks]

\* A checklist starts with a section, "First week".
FirstDraft == [status |-> "draft", task |-> NoTasks,
               section |-> IF kind = "onboarding"
                           THEN [NoSections EXCEPT ![CHOOSE s \in Sections : TRUE] = 0]
                           ELSE NoSections]

Init ==
  /\ isolation \in Isolations /\ kind \in Kinds
  /\ doc = [archived |-> FALSE, published |-> 0]
  /\ version = [v \in Versions |-> IF v = 1 THEN FirstDraft ELSE NoVersion]
  /\ courseLive = TRUE
  /\ open = [m \in Managers |-> None]
  /\ changes = 0

-----------------------------------------------------------------------------
(* Content *)

Present(rows) == {x \in DOMAIN rows : rows[x] # None}

\* The section of a task: None in a course.
Places(v) == IF kind = "course" THEN {None} ELSE Present(version[v].section)

TasksIn(v, s) == {t \in Present(version[v].task) : version[v].task[t].in = s}

\* The orders the positions of S leave open, numbered from 0.
Orders(S, at) ==
  {f \in [S -> 0..Cardinality(S)] :
     \A x \in S : /\ f[x] < Cardinality(S)
                  /\ \A y \in S \ {x} : f[x] # f[y] /\ (at[x] < at[y] => f[x] < f[y])}

\* An order with x and its neighbour y exchanged.
Exchanged(S, at, x, y) ==
  {[f EXCEPT ![x] = f[y], ![y] = f[x]] :
     f \in {g \in Orders(S, at) : g[y] = g[x] + 1 \/ g[x] = g[y] + 1}}

After(S, at) == IF S = {} THEN 0 ELSE 1 + CHOOSE n \in {at[x] : x \in S} : \A x \in S : at[x] <= n

\* Mutant: everybody counts.
NextCounted(siblings, all, at) == Cardinality(all)

\* Where something new goes: after the last of its siblings, or, in a checklist, at the number
\* of all there are.
NextPosition(siblings, all, at) ==
  IF Locking THEN After(siblings, at) ELSE Cardinality(all)

At(v)      == [t \in Present(version[v].task) |-> version[v].task[t].at]
Placed(v, order) == [t \in Tasks |-> IF t \in DOMAIN order
                       THEN [version[v].task[t] EXCEPT !.at = order[t]]
                       ELSE version[v].task[t]]

\* lessonProblems; a training step names a course.
Finished(row) == row.form \notin {"incomplete", "unlinked"}

\* versionProblems, draftProblems, and what publishVersion checks.
Whole(v) ==
  /\ Present(version[v].task) # {}
  /\ \A t \in Present(version[v].task) : Finished(version[v].task[t])
  /\ kind = "operations" => \A s \in Places(v) : TasksIn(v, s) # {}

LinksAreLive(v) == courseLive \/ \A t \in Present(version[v].task) : version[v].task[t].form # "linked"

-----------------------------------------------------------------------------
(* Transactions *)

EditOps  == {"addTask", "updateTask", "removeTask", "moveTask",
             "addSection", "removeSection", "moveSection"}
DraftOps == EditOps \union {"publish", "discard"}

\* Mutant: nothing is locked.
Unlocked(m, op, v) == TRUE

HoldsVersion(q, v) == open[q] # None /\ open[q].op \in DraftOps /\ open[q].v = v
DocOps == {"draft", "archive", "restore"} \union (IF kind = "course" THEN {"publish"} ELSE {})

\* Mutant: the document is never held.
HoldsNothing(q) == FALSE

HoldsDoc(q) == open[q] # None /\ open[q].op \in DocOps

\* SELECT ... FOR UPDATE waits for whoever holds the row: the version a draft's handlers lock,
\* the document that the others lock, and both where a course is published.
Lockable(m, op, v) ==
  Locking => \A q \in Managers \ {m} :
    /\ op \in DraftOps => ~HoldsVersion(q, v)
    /\ op \in DocOps => ~HoldsDoc(q)

\* Mutant: any version there is may be changed.
IsThere(v) == version[v].status # "none"

\* requireDraft, requireDraftVersion.
IsDraft(v) == version[v].status = "draft" /\ (Locking => ~doc.archived)

\* deleteSection of a checklist counts before it deletes.
KeepsASection(v) == Locking \/ Cardinality(Present(version[v].section)) > 1

\* What each handler checks on what it reads.
MayBegin(op, v) ==
  CASE op = "publish" -> IsDraft(v) /\ Whole(v) /\ LinksAreLive(v)
    [] op = "discard" -> Locking /\ IsDraft(v) /\ doc.published # 0
    [] op \in EditOps ->
         /\ IsDraft(v) /\ (kind = "course" => op \notin {"addSection", "removeSection", "moveSection"})
         /\ op = "removeSection" => KeepsASection(v)
    [] op = "draft"   -> doc.published # 0 /\ (Locking => ~doc.archived)
    [] op = "archive" -> ~doc.archived
    [] op = "restore" -> doc.archived

Begin(m) ==
  /\ open[m] = None /\ changes < MaxChanges
  /\ Serial => \A q \in Managers : open[q] = None
  /\ \E op \in DraftOps \union {"draft", "archive", "restore"}, v \in Versions :
       /\ op \in DraftOps \/ v = 1
       /\ Lockable(m, op, v) /\ MayBegin(op, v)
       /\ open' = [open EXCEPT ![m] = [op |-> op, v |-> v, published |-> doc.published,
                                       live |-> courseLive]]
  /\ UNCHANGED <<isolation, kind, doc, version, courseLive, changes>>

\* A refusal, a trigger, a constraint, a deadlock or a lost connection.
Rollback(m) ==
  /\ open[m] # None /\ open' = [open EXCEPT ![m] = None]
  /\ UNCHANGED <<isolation, kind, doc, version, courseLive, changes>>

\* m's transaction is this operation and commits.
Commits(m, op) ==
  /\ open[m] # None /\ open[m].op = op
  /\ changes < MaxChanges /\ changes' = changes + 1
  /\ open' = [open EXCEPT ![m] = None]
  /\ UNCHANGED <<isolation, kind, courseLive>>

\* The handlers of a draft write the document too: they wait for who holds it.
TouchesDoc(m) == Locking => \A q \in Managers \ {m} : ~HoldsDoc(q)

\* The triggers on published versions.
Frozen(v) == Locking /\ version[v].status = "published"

Edits(m, op) == /\ Commits(m, op) /\ TouchesDoc(m) /\ UNCHANGED doc
                /\ ~Frozen(open[m].v)

-----------------------------------------------------------------------------
(* Lessons, tasks and steps *)

SetTasks(v, tasks) == version' = [version EXCEPT ![v].task = tasks]

\* resolveCourseLink; a new lesson is empty.
MayBecome(m, form) == form = "linked" => open[m].live

AddTask(m) ==
  /\ Edits(m, "addTask")
  /\ LET v == open[m].v IN
     \E t \in Tasks \ Present(version[v].task), s \in Places(v), form \in Forms \ {"complete"} :
       /\ MayBecome(m, form)
       /\ SetTasks(v, [version[v].task EXCEPT ![t] =
            [in |-> s, form |-> form,
             at |-> NextPosition(TasksIn(v, s), Present(version[v].task), At(v))]])

UpdateTask(m) ==
  /\ Edits(m, "updateTask")
  /\ LET v == open[m].v IN
     \E t \in Present(version[v].task), form \in Forms :
       /\ MayBecome(m, form) /\ version[v].task[t].form # form
       /\ SetTasks(v, [version[v].task EXCEPT ![t].form = form])

\* removeLesson numbers what is left anew.
RemoveTask(m) ==
  /\ Edits(m, "removeTask")
  /\ LET v == open[m].v IN
     \E t \in Present(version[v].task) :
       LET rest == Present(version[v].task) \ {t} IN
       \E order \in IF kind = "course" THEN Orders(rest, At(v)) ELSE {<<>>} :
         SetTasks(v, [Placed(v, order) EXCEPT ![t] = None])

\* moveLesson, moveTask, reorder: up or down among its siblings, which are numbered anew.
MoveTask(m) ==
  /\ Edits(m, "moveTask")
  /\ LET v == open[m].v IN
     \E s \in Places(v) : \E t, u \in TasksIn(v, s) :
       \E order \in Exchanged(TasksIn(v, s), At(v), t, u) : t # u /\ SetTasks(v, Placed(v, order))

-----------------------------------------------------------------------------
(* Sections *)

SetSections(v, sections) == version' = [version EXCEPT ![v].section = sections]

AddSection(m) ==
  /\ Edits(m, "addSection")
  /\ LET v == open[m].v
         there == Present(version[v].section)
     IN \E s \in Sections \ there :
          SetSections(v, [version[v].section EXCEPT ![s] =
            NextPosition(there, there, version[v].section)])

\* Its tasks go with it.
RemoveSection(m) ==
  /\ Edits(m, "removeSection")
  /\ LET v == open[m].v IN
     \E s \in Present(version[v].section) :
       version' = [version EXCEPT
         ![v].section[s] = None,
         ![v].task = [t \in Tasks |-> IF t \in TasksIn(v, s) THEN None ELSE @[t]]]

MoveSection(m) ==
  /\ Edits(m, "moveSection")
  /\ LET v == open[m].v
         there == Present(version[v].section)
     IN \E s, r \in there : s # r /\
          \E order \in Exchanged(there, version[v].section, s, r) :
            SetSections(v, [x \in Sections |-> IF x \in there THEN order[x] ELSE None])

-----------------------------------------------------------------------------
(* Versions *)

Publishes(m) ==
  /\ Commits(m, "publish") /\ TouchesDoc(m)
  /\ version' = [version EXCEPT ![open[m].v].status = "published"]
  /\ doc' = [doc EXCEPT !.published = open[m].v]

PublishDraft(m) == Locking /\ Publishes(m) /\ ~Frozen(open[m].v)

\* A checklist is written by id, whatever it has become.
PublishVersion(m) == ~Locking /\ Publishes(m)

Exist    == {v \in Versions : version[v].status # "none"}
NoDraft  == \A v \in Versions : version[v].status # "draft"
Highest  == CHOOSE v \in Exist : \A w \in Exist : w <= v

\* startNewDraft, createDraftVersion: the document has been read before, the rest is read now.
StartNewDraft(m) ==
  /\ Commits(m, "draft") /\ UNCHANGED doc
  /\ NoDraft /\ Highest < LastVersion
  /\ version' = [version EXCEPT ![Highest + 1] =
                   [version[open[m].published] EXCEPT !.status = "draft"]]

DiscardDraft(m) ==
  /\ Commits(m, "discard") /\ UNCHANGED doc /\ ~Frozen(open[m].v)
  /\ version' = [version EXCEPT ![open[m].v] = NoVersion]

Archive(m) == Commits(m, "archive") /\ doc' = [doc EXCEPT !.archived = TRUE] /\ UNCHANGED version
Restore(m) == Commits(m, "restore") /\ doc' = [doc EXCEPT !.archived = FALSE] /\ UNCHANGED version

\* Training archives or restores the course that steps are linked to.
CourseChanges ==
  /\ kind = "onboarding" /\ changes < MaxChanges /\ changes' = changes + 1
  /\ Serial => \A m \in Managers : open[m] = None
  /\ courseLive' = ~courseLive
  /\ UNCHANGED <<isolation, kind, doc, version, open>>

Next ==
  \/ \E m \in Managers :
       \/ Begin(m) \/ Rollback(m)
       \/ AddTask(m) \/ UpdateTask(m) \/ RemoveTask(m) \/ MoveTask(m)
       \/ AddSection(m) \/ RemoveSection(m) \/ MoveSection(m)
       \/ PublishDraft(m) \/ PublishVersion(m) \/ StartNewDraft(m) \/ DiscardDraft(m)
       \/ Archive(m) \/ Restore(m)
  \/ CourseChanges

Spec == Init /\ [][Next]_vars

-----------------------------------------------------------------------------
(* Properties *)

TaskRow == [in : Sections \union {None}, at : Nat,
            form : {"incomplete", "complete", "plain", "verified", "linked", "unlinked"}]
Version == [status : {"none", "draft", "published"}, section : [Sections -> Nat \union {None}],
            task : [Tasks -> TaskRow \union {None}]]
Request == [op : DraftOps \union {"draft", "archive", "restore"}, v : Versions,
            published : 0..LastVersion, live : BOOLEAN]

\* Every variable stays in its type, what is published exists, and no task outlives its section.
TypeOK ==
  /\ isolation \in Isolations /\ kind \in Kinds
  /\ doc \in [archived : BOOLEAN, published : 0..LastVersion]
  /\ version \in [Versions -> Version]
  /\ \A v \in Versions : \A t \in Present(version[v].task) : version[v].task[t].in \in Places(v)
  /\ doc.published # 0 => version[doc.published].status = "published"
  /\ courseLive \in BOOLEAN
  /\ open \in [Managers -> Request \union {None}]
  /\ changes \in 0..MaxChanges

\* Once published, a version never changes: of a course or an operations template however
\* transactions overlap, of a checklist one at a time.
PublishedIsFrozen ==
  [][\A v \in Versions : version[v].status = "published" /\ (Locking \/ Serial)
       => version'[v] = version[v]]_vars

\* What is published is fit to be given to somebody: it has work in it, every lesson is
\* complete, every section of a template has a task, every training step names a course.
\* Whoever takes the last task away meanwhile waits for the lock (not so in a checklist).
PublishedIsWhole ==
  \A v \in Versions : version[v].status = "published" /\ (Locking \/ Serial) => Whole(v)

\* A new draft starts from what is published now, so that publishing it takes nothing back.
DraftContinuesPublished ==
  [][\A v \in Versions :
       version[v].status = "none" /\ version'[v].status = "draft" /\ (Locking \/ Serial)
         => /\ version'[v] = [version[doc.published] EXCEPT !.status = "draft"]
            /\ v > doc.published]_vars

\* The order of lessons and tasks is settled: no two siblings have one position.  (Steps of a
\* checklist may: one is removed, and the next is put at the number of those left.)
OrderIsSettled ==
  Locking => \A v \in Versions :
    /\ \A s, r \in Present(version[v].section) :
         s # r => version[v].section[s] # version[v].section[r]
    /\ \A s \in Places(v) : \A t, u \in TasksIn(v, s) : t # u => At(v)[t] # At(v)[u]

=============================================================================
