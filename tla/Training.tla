------------------------------- MODULE Training -------------------------------
(***************************************************************************)
(* One course, its versions, and the assignments of it to one person: from *)
(* the assignment through the lessons, the quiz and the practical somebody *)
(* else signs off, to the day it is completed or withdrawn (authoring.ts,  *)
(* assignments.ts, learner.ts, records.ts).                                *)
(*                                                                         *)
(* A handler locks the assignment it is about, reads, and writes what it   *)
(* worked out when it commits: txn is what each person's transaction has   *)
(* locked and read.  This module has the handlers as they change training; *)
(* Onboarding adds what they do to the onboarding of the same person.      *)
(*                                                                         *)
(* Abstracted: a course has at most one lesson of each kind, every version *)
(* the same; texts, dates, notes, scopes and notifications are left out.   *)
(***************************************************************************)
EXTENDS Naturals, FiniteSets

CONSTANTS
  People, Learner,
  Managers,       \* hold training.assign, skill.verify and onboarding.verify
  LessonSets,     \* the kinds of lesson a course may have
  MaxAttempts,    \* a quiz's limit
  None,           \* null
  Isolations,     \* how transactions may run
  Slots,          \* bound: assignments, 1..n in the order they are made
  LastVersion,    \* bound: versions
  MaxExtra,       \* bound: attempts allowed beyond the limit
  MaxChanges      \* bound: archivings, restorations and drafts discarded

Kinds == {"reading", "checklist", "quiz", "practical"}

ASSUME PeopleAssumption == Learner \in People /\ Managers \subseteq People
ASSUME LessonsAssumption == LessonSets \subseteq (SUBSET Kinds) \ {{}}
ASSUME NoneAssumption == None \notin People \union Nat
ASSUME IsolationAssumption == Isolations \subseteq {"serial", "overlapping"}
ASSUME BoundsAssumption == /\ Slots \subseteq Nat \ {0} /\ MaxAttempts \in Nat \ {0}
                           /\ LastVersion \in Nat \ {0} /\ MaxExtra \in Nat /\ MaxChanges \in Nat

VARIABLES
  isolation,   \* whether transactions overlap
  course,      \* the course
  assignment,  \* its assignments to the learner, with their lessons
  txn,         \* what each person's transaction has locked and read of them
  changes      \* archivings, restorations and drafts discarded so far

trainingVars == <<isolation, course, assignment, txn, changes>>

OpenStatuses   == {"assigned", "in_progress"}
LessonStatuses == {"not_started", "in_progress", "awaiting_signoff", "returned", "completed"}

Course == [status : {"active", "archived"}, published : 0..LastVersion, draft : 0..LastVersion,
           lessons : LessonSets]
Assignment == [status : {"none"} \union OpenStatuses \union {"completed", "cancelled"},
               version : 0..LastVersion, lesson : [Kinds -> LessonStatuses],
               used : 0..MaxAttempts + MaxExtra, extra : 0..MaxExtra,
               signedBy : Managers \union {None}]

NoAssignment == [status |-> "none", version |-> 0, lesson |-> [k \in Kinds |-> "not_started"],
                 used |-> 0, extra |-> 0, signedBy |-> None]

TrainingInit ==
  /\ isolation \in Isolations
  /\ course \in [status : {"active"}, published : {0}, draft : {1}, lessons : LessonSets]
  /\ assignment = [a \in Slots |-> NoAssignment]
  /\ txn = [p \in People |-> None]
  /\ changes = 0

Serial == isolation = "serial"

-----------------------------------------------------------------------------
(* Transactions.                                                           *)

Locks(p, a) == txn[p] # None /\ txn[p].lock = a

\* Mutant: the assignment is read, not locked.
ReadsOnly(p, a) == TRUE

\* SELECT ... FOR UPDATE waits for whoever holds the row.
Lockable(p, a) == \A q \in People : ~Locks(q, a)

\* What p's transaction sees of the assignments.
Seen(p) == txn[p].assignment
Row(p)  == Seen(p)[txn[p].lock]

TrainingBegin(p, a) ==
  /\ txn[p] = None
  /\ Serial => \A q \in People : txn[q] = None
  /\ a \in Slots => Lockable(p, a) /\ assignment[a].status # "none"
  /\ txn' = [txn EXCEPT ![p] = [lock |-> a, course |-> course, assignment |-> assignment]]
  /\ UNCHANGED <<isolation, course, assignment, changes>>

TrainingEnd(p) == /\ txn' = [txn EXCEPT ![p] = None]
                  /\ UNCHANGED <<isolation, course, changes>>

\* The handler refuses, or the database ends a deadlock.
TrainingRollback(p) == /\ txn[p] # None
                       /\ TrainingEnd(p)
                       /\ UNCHANGED assignment

-----------------------------------------------------------------------------
(* The course.  Every handler locks it, or the draft it is about.          *)

UnchangedByAuthoring == UNCHANGED <<isolation, assignment, txn>>

Live(c) == c.status = "active" /\ c.published # 0

PublishDraft ==
  /\ course.status = "active" /\ course.draft # 0
  /\ course' = [course EXCEPT !.published = course.draft, !.draft = 0]
  /\ UNCHANGED changes /\ UnchangedByAuthoring

StartNewDraft ==
  /\ Live(course) /\ course.draft = 0 /\ course.published < LastVersion
  /\ course' = [course EXCEPT !.draft = course.published + 1]
  /\ UNCHANGED changes /\ UnchangedByAuthoring

Change == changes < MaxChanges /\ changes' = changes + 1

DiscardDraft ==
  /\ Live(course) /\ course.draft # 0
  /\ course' = [course EXCEPT !.draft = 0]
  /\ Change /\ UnchangedByAuthoring

ArchiveCourse ==
  /\ course.status = "active"
  /\ course' = [course EXCEPT !.status = "archived"]
  /\ Change /\ UnchangedByAuthoring

RestoreCourse ==
  /\ course.status = "archived"
  /\ course' = [course EXCEPT !.status = "active"]
  /\ Change /\ UnchangedByAuthoring

-----------------------------------------------------------------------------
(* Rows of assignments.                                                    *)

IsOpen(row)      == row.status \in OpenStatuses
NoOpen(rows)     == \A a \in Slots : ~IsOpen(rows[a])
Finished(row)    == \A k \in course.lessons : row.lesson[k] = "completed"
Allowed(row)     == MaxAttempts + row.extra
OutOfAttempts(row) == row.used > 0 /\ row.lesson["quiz"] # "completed" /\ row.used >= Allowed(row)

\* settleAssignment
Settled(row) == IF IsOpen(row)
                THEN [row EXCEPT !.status = IF Finished(row) THEN "completed" ELSE "in_progress"]
                ELSE row

IsNew(rows, a) == rows[a].status = "none" /\ \A b \in Slots : b < a => rows[b].status # "none"
NewSlot(rows)  == CHOOSE a \in Slots : IsNew(rows, a)

\* The index on open assignments refuses a second one.
Insertable(rows) == NoOpen(rows) /\ \E a \in Slots : IsNew(rows, a)
Inserted(rows, version) == [rows EXCEPT ![NewSlot(rows)] =
                              [NoAssignment EXCEPT !.status = "assigned", !.version = version]]

-----------------------------------------------------------------------------
(* The handlers of one assignment, which is locked.                        *)

Writes(p, row) == assignment' = [assignment EXCEPT ![txn[p].lock] = row]

\* lessonContext: the learner's own, not withdrawn, a lesson of the version they were given.
InLesson(p, k) == /\ p = Learner /\ txn[p] # None /\ txn[p].lock # None
                  /\ Row(p).status # "cancelled"
                  /\ k \in course.lessons

Taken(p, k, status) == Settled([Row(p) EXCEPT !.lesson[k] = status])

CompleteReading(p) ==
  /\ InLesson(p, "reading") /\ Row(p).lesson["reading"] # "completed"
  /\ Writes(p, Taken(p, "reading", "completed"))

SaveChecklist(p) ==
  /\ InLesson(p, "checklist") /\ Row(p).lesson["checklist"] # "completed"
  /\ \E status \in {"in_progress", "completed"} : Writes(p, Taken(p, "checklist", status))

MayAttempt(row) == row.used < Allowed(row)

\* The attempts of a quiz are numbered, and the database refuses a number twice.
SubmitQuiz(p) ==
  /\ InLesson(p, "quiz") /\ Row(p).lesson["quiz"] # "completed"
  /\ MayAttempt(Row(p)) /\ assignment[txn[p].lock].used = Row(p).used
  /\ \E status \in {"in_progress", "completed"} :
       Writes(p, [Taken(p, "quiz", status) EXCEPT !.used = @ + 1])

RequestSignoff(p) ==
  /\ InLesson(p, "practical")
  /\ Row(p).lesson["practical"] \notin {"completed", "awaiting_signoff"}
  /\ Row(p).status # "completed"
  /\ Writes(p, Taken(p, "practical", "awaiting_signoff"))

\* A manager, about an open assignment.
Manages(p) == p \in Managers /\ txn[p] # None /\ txn[p].lock # None /\ IsOpen(Row(p))

WithdrawAssignment(p) == Manages(p) /\ Writes(p, [Row(p) EXCEPT !.status = "cancelled"])

AllowAnotherAttempt(p) ==
  /\ Manages(p) /\ OutOfAttempts(Row(p)) /\ Row(p).extra < MaxExtra
  /\ Writes(p, [Row(p) EXCEPT !.extra = @ + 1])

\* Mutant: managers sign off their own practical.
IsAnybody(p) == TRUE

IsAnother(p) == p # Learner

DecideSignoff(p) ==
  /\ Manages(p) /\ IsAnother(p) /\ Row(p).lesson["practical"] = "awaiting_signoff"
  /\ \/ Writes(p, Settled([Row(p) EXCEPT !.lesson["practical"] = "completed", !.signedBy = p]))
     \/ Writes(p, [Row(p) EXCEPT !.lesson["practical"] = "returned"])

HandlesLocked(p) ==
  \/ CompleteReading(p) \/ SaveChecklist(p) \/ SubmitQuiz(p) \/ RequestSignoff(p)
  \/ WithdrawAssignment(p) \/ AllowAnotherAttempt(p) \/ DecideSignoff(p)

-----------------------------------------------------------------------------
(* The handlers that lock no one assignment beforehand.                    *)

Unlocked(p)     == txn[p] # None /\ txn[p].lock = None
CourseSeen(p)   == txn[p].course

NotStarted(row) == row.status = "assigned" /\ row.version < course.published

MoveNotStartedToCurrent(p) ==
  /\ p \in Managers /\ Live(course)
  /\ \E a \in Slots : NotStarted(assignment[a]) /\ Lockable(p, a)
  /\ assignment' = [a \in Slots |-> IF NotStarted(assignment[a])
                                    THEN [assignment[a] EXCEPT !.version = course.published]
                                    ELSE assignment[a]]
  /\ UNCHANGED <<isolation, course, txn, changes>>

\* assignCourse, for one person: the assignment it makes, before it reads anything of onboarding.
AssignCourse(p) ==
  /\ p \in Managers /\ Unlocked(p) /\ Live(CourseSeen(p))
  /\ Insertable(Seen(p)) /\ Insertable(assignment) /\ NewSlot(Seen(p)) = NewSlot(assignment)
  /\ assignment' = Inserted(assignment, CourseSeen(p).published)

Authoring == PublishDraft \/ StartNewDraft \/ DiscardDraft \/ ArchiveCourse \/ RestoreCourse
================================================================================
