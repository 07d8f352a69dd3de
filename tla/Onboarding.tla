------------------------------ MODULE Onboarding ------------------------------
(***************************************************************************)
(* The onboarding of the person Training is about: the run copied from the *)
(* checklist, the steps people complete by hand, the step a course stands  *)
(* for, and the completion of the run (service.ts, training-link.ts,       *)
(* completion.ts), composed with every handler of Training.                *)
(*                                                                         *)
(* Steps and runs are read without a lock and written by id: read is what  *)
(* each person's transaction has read of them.  What does hold others up   *)
(* is the reference a linked step has to its assignment.                   *)
(*                                                                         *)
(* Abstracted: the checklist is fixed, its steps copied as they are, one   *)
(* step linked to the course; dates, notes and the audit are left out.     *)
(***************************************************************************)
EXTENDS Training

CONSTANTS
  Steps,
  CourseStep,     \* the training_assignment step that names the course
  VerifiedSteps,  \* a manager confirms them
  GatingSteps     \* required, and completion waits for them

ASSUME StepsAssumption == /\ CourseStep \in Steps
                          /\ VerifiedSteps \subseteq Steps /\ GatingSteps \subseteq Steps
ASSUME ReasonsAssumption == None \notin {"unlinked", "withdrawn", "attempts", "flagged"}

VARIABLES
  step,   \* the steps of the run
  run,    \* the run: not started, open or completed
  read    \* what each person's transaction has read of them

vars == <<isolation, course, assignment, txn, changes, step, run, read>>

Step == [status : {"none", "pending", "blocked", "completed"},
         reason : {None, "unlinked", "withdrawn", "attempts", "flagged"},
         link : Slots \union {None}, verifiedBy : Managers \union {None}]
RunStatuses == {"none", "open", "completed"}

NoStep == [status |-> "none", reason |-> None, link |-> None, verifiedBy |-> None]

Init ==
  /\ TrainingInit
  /\ step = [s \in Steps |-> NoStep]
  /\ run = "none"
  /\ read = [p \in People |-> None]

Begin(p, a) ==
  /\ TrainingBegin(p, a)
  /\ read' = [read EXCEPT ![p] = [step |-> step, run |-> run]]
  /\ UNCHANGED <<step, run>>

End(p) == TrainingEnd(p) /\ read' = [read EXCEPT ![p] = None]

Rollback(p) == /\ TrainingRollback(p)
               /\ read' = [read EXCEPT ![p] = None]
               /\ UNCHANGED <<step, run>>

-----------------------------------------------------------------------------
(* syncOnboardingForTraining and refreshOnboardingCompletion.              *)

\* The status and the reason of a step whose course stands like this.
StandingOf(row) == IF row.status = "completed" THEN <<"completed", None>>
                   ELSE IF row.status = "cancelled" THEN <<"blocked", "withdrawn">>
                   ELSE IF OutOfAttempts(row) THEN <<"blocked", "attempts">>
                   ELSE <<"pending", None>>

\* The step is to be written.
Follows(st, a, row) == /\ st.link = a /\ st.status # "completed"
                       /\ <<st.status, st.reason>> # StandingOf(row)

Standing(st, row) == [st EXCEPT !.status = StandingOf(row)[1], !.reason = StandingOf(row)[2]]

\* Mutant: any done step will do.
SomeDone(steps) == \E s \in GatingSteps : steps[s].status = "completed"

GatingDone(steps) == GatingSteps # {} /\ \A s \in GatingSteps : steps[s].status = "completed"

Refreshed(steps) == IF GatingDone(steps) THEN "completed" ELSE "open"

\* The course step is brought in line with row, its assignment.  steps are those the transaction
\* sees, newSteps and newRun what it has written before.
Sync(steps, newSteps, newRun, a, row) ==
  LET st == steps[CourseStep] IN
  IF Follows(st, a, row)
  THEN /\ step' = [newSteps EXCEPT ![CourseStep] = Standing(@, row)]
       /\ run' = Refreshed([steps EXCEPT ![CourseStep] = Standing(@, row)])
  ELSE step' = newSteps /\ run' = newRun

SyncAfter(p) == Sync(read[p].step, step, run, txn[p].lock, assignment'[txn[p].lock])

-----------------------------------------------------------------------------
(* The handlers of training, whole.                                        *)

Train(p) == HandlesLocked(p) /\ SyncAfter(p) /\ End(p)

\* relinkOnboardingSteps: the step lost its assignment, or never had one.
Relinks(st) == /\ st.status \notin {"none", "completed"}
               /\ st.link = None \/ assignment[st.link].status = "cancelled"

Assign(p) ==
  /\ AssignCourse(p)
  /\ LET a == NewSlot(assignment)
         Linked(steps) == [steps EXCEPT ![CourseStep].link = a]
     IN IF Relinks(read[p].step[CourseStep])
        THEN Sync(Linked(read[p].step), Linked(step), run, a, assignment'[a])
        ELSE UNCHANGED <<step, run>>
  /\ End(p)

Move(p) == MoveNotStartedToCurrent(p) /\ UNCHANGED <<step, run, read>>

Author == Authoring /\ UNCHANGED <<step, run, read>>

-----------------------------------------------------------------------------
(* assignOnboarding and linkTrainingOnStart.                               *)

FreshSteps == [s \in Steps |-> [NoStep EXCEPT !.status = "pending"]]

\* The assignment the step is linked to, of those the transaction sees: the open one, or else the
\* latest completed one.
Linkable(rows, a) ==
  \/ IsOpen(rows[a])
  \/ /\ NoOpen(rows) /\ rows[a].status = "completed"
     /\ \A b \in Slots : b > a => rows[b].status # "completed"

\* Mutant: a reference waits for nobody.
NoWait(p, a) == TRUE

\* Referring to a row waits for whoever has locked it.
CanRefer(p, a) == \A q \in People : ~Locks(q, a)

StartLinked(p, a) ==
  LET linked == [FreshSteps EXCEPT ![CourseStep].link = a]
  IN CanRefer(p, a) /\ Sync(linked, linked, "open", a, assignment'[a])

StartOnboarding(p) ==
  /\ p \in Managers /\ Unlocked(p)
  /\ read[p].run = "none" /\ run = "none"
  /\ \/ \E a \in Slots : Linkable(Seen(p), a) /\ UNCHANGED assignment /\ StartLinked(p, a)
     \/ /\ \A a \in Slots : ~Linkable(Seen(p), a)
        /\ Live(CourseSeen(p))
        /\ \/ /\ Insertable(assignment)
              /\ assignment' = Inserted(assignment, CourseSeen(p).published)
              /\ StartLinked(p, NewSlot(assignment))
           \/ \E a \in Slots : IsOpen(assignment[a]) /\ UNCHANGED assignment /\ StartLinked(p, a)
     \/ /\ \A a \in Slots : ~Linkable(Seen(p), a)
        /\ ~Live(CourseSeen(p))
        /\ step' = [FreshSteps EXCEPT ![CourseStep].status = "blocked",
                                      ![CourseStep].reason = "unlinked"]
        /\ run' = "open" /\ UNCHANGED assignment
  /\ End(p)

-----------------------------------------------------------------------------
(* Steps by hand.                                                          *)

MayComplete(p, s) == IF s \in VerifiedSteps THEN p \in Managers /\ p # Learner
                     ELSE p = Learner \/ p \in Managers

CompleteStep(p, s) ==
  /\ Unlocked(p) /\ MayComplete(p, s) /\ s # CourseStep
  /\ read[p].step[s].status = "pending"
  /\ LET Completed(st) == [st EXCEPT !.status = "completed",
                                     !.verifiedBy = IF s \in VerifiedSteps THEN p ELSE @]
     IN /\ step' = [step EXCEPT ![s] = Completed(@)]
        /\ run' = Refreshed([read[p].step EXCEPT ![s] = Completed(@)])
  /\ UNCHANGED assignment
  /\ End(p)

\* "I'm stuck": whatever the step is at.
BlockStep(p, s) ==
  /\ Unlocked(p) /\ (p = Learner \/ p \in Managers)
  /\ read[p].run # "none"
  /\ step' = [step EXCEPT ![s].status = "blocked", ![s].reason = "flagged"]
  /\ UNCHANGED <<run, assignment>>
  /\ End(p)

-----------------------------------------------------------------------------
Next ==
  \/ Author
  \/ \E p \in People :
       \/ \E a \in Slots \union {None} : Begin(p, a)
       \/ Train(p) \/ Assign(p) \/ Move(p) \/ StartOnboarding(p)
       \/ \E s \in Steps : CompleteStep(p, s) \/ BlockStep(p, s)
       \/ Rollback(p)

Spec == Init /\ [][Next]_vars

-----------------------------------------------------------------------------
(* Properties.                                                             *)

TypeOK ==
  /\ isolation \in Isolations
  /\ course \in Course
  /\ assignment \in [Slots -> Assignment]
  /\ step \in [Steps -> Step]
  /\ run \in RunStatuses
  /\ changes \in 0..MaxChanges

\* The course step of a run stands as its course does - pending, out of attempts, withdrawn or
\* completed - however the transactions overlap, unless somebody flagged it by hand
\* (linkTrainingOnStart, relinkOnboardingSteps, syncOnboardingForTraining).
StepFollowsCourse ==
  LET st == step[CourseStep] IN
  st.link # None /\ st.reason # "flagged" =>
    <<st.status, st.reason>> = StandingOf(assignment[st.link])

\* A completed run has no gating step left but those flagged by hand; and, one transaction at a
\* time, a run whose gating steps are all done is completed (refreshOnboardingCompletion).
RunFollowsSteps ==
  /\ run = "completed" => \A s \in GatingSteps : step[s].status = "completed"
                                               \/ step[s].reason = "flagged"
  /\ Serial /\ GatingDone(step) => run = "completed"

\* Whatever is completed was earned: a course by every lesson of it, its practical signed off by
\* somebody else, the course step by its course, a step to be verified by a manager who is not the
\* new hire (settleAssignment, decideSignoff, completeStep).
CompletionIsEarned ==
  /\ \A a \in Slots :
       /\ assignment[a].status = "completed" => Finished(assignment[a])
       /\ assignment[a].lesson["practical"] = "completed" =>
            assignment[a].signedBy \in Managers \ {Learner}
  /\ step[CourseStep].status = "completed" =>
       step[CourseStep].link # None /\ assignment[step[CourseStep].link].status = "completed"
  /\ \A s \in VerifiedSteps \ {CourseStep} :
       step[s].status = "completed" => step[s].verifiedBy \in Managers \ {Learner}

\* "Completion is one-way": only a flag by hand takes a completed step back, and it keeps the
\* assignment that completed it (syncOnboardingForTraining, relinkOnboardingSteps).
CompletedStepsStay ==
  [][\A s \in Steps : step[s].status = "completed" =>
       /\ step'[s].status = "completed" \/ step'[s].reason = "flagged"
       /\ step'[s].link = step[s].link]_vars

\* What was completed or withdrawn stays on the record as it was; what somebody started keeps its
\* version, its finished lessons and its attempts (lessonContext, withdrawAssignment,
\* moveNotStartedToCurrent).
RecordKept ==
  [][\A a \in Slots :
       LET row == assignment[a]
           new == assignment'[a]
       IN /\ row.status \in {"completed", "cancelled"} => new = row
          /\ row.status \notin {"none", "assigned"} => new.version = row.version
          /\ row.used <= new.used
          /\ \A k \in Kinds : row.lesson[k] = "completed" => new.lesson[k] = "completed"]_vars

\* However transactions overlap, nothing that was completed is taken back, neither in the
\* checklist nor in the training record (relinkOnboardingSteps, lessonContext).
NothingIsTakenBack == CompletedStepsStay /\ RecordKept

================================================================================
