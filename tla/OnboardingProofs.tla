---------------------------- MODULE OnboardingProofs ----------------------------
(***************************************************************************)
(* For any number of people, assignments, versions and steps, and however  *)
(* transactions overlap: what is completed was earned, stays, and is shown *)
(* alike by the course, the step that stands for it and the run.           *)
(***************************************************************************)
EXTENDS Onboarding, TLAPS

USE PeopleAssumption, LessonsAssumption, NoneAssumption, IsolationAssumption, BoundsAssumption,
    StepsAssumption, ReasonsAssumption

-----------------------------------------------------------------------------
(* The inductive invariant *)

Txn      == [lock : Slots \union {None}, course : Course, assignment : [Slots -> Assignment]]
Snapshot == [step : [Steps -> Step], run : RunStatuses]

Types ==
  /\ TypeOK
  /\ txn \in [People -> Txn \union {None}] /\ read \in [People -> Snapshot \union {None}]
  /\ \A p \in People : txn[p] # None => read[p] \in Snapshot

\* What a row says of completion is so.
Earned(row) ==
  /\ row.status = "completed" => Finished(row)
  /\ row.lesson["practical"] = "completed" => row.signedBy \in Managers \ {Learner}

\* Slots are filled in order and blank until then, and one assignment is open.
RowsOK ==
  /\ \A a \in Slots : Earned(assignment[a])
  /\ \A a \in Slots : assignment[a].status = "none" => assignment[a] = NoAssignment
  /\ \A a, b \in Slots : assignment[a].status # "none" /\ b < a => assignment[b].status # "none"
  /\ \A a, b \in Slots : IsOpen(assignment[a]) /\ IsOpen(assignment[b]) => a = b

\* The course step, st, stands as its assignment among rows does.
Stands(rows, st) ==
  /\ st.status = "none" => st.link = None
  /\ st.link = None => st.status \in {"none", "blocked"}
  /\ st.link # None => rows[st.link].status # "none"
  /\ st.reason = "flagged" => st.status = "blocked"
  /\ st.link # None /\ st.reason # "flagged" => <<st.status, st.reason>> = StandingOf(rows[st.link])

\* A step that is completed, or was until somebody flagged it.
Ended(rows, steps, s) ==
  \/ steps[s].status = "completed"
  \/ /\ steps[s].reason = "flagged"
     /\ s = CourseStep => /\ steps[s].link # None
                          /\ rows[steps[s].link].status = "completed"

StepsOK ==
  /\ Stands(assignment, step[CourseStep])
  /\ \A s \in VerifiedSteps \ {CourseStep} :
       step[s].status = "completed" => step[s].verifiedBy \in Managers \ {Learner}
  /\ run = "none" => \A s \in Steps : step[s] = NoStep
  /\ run = "completed" => \A s \in GatingSteps : Ended(assignment, step, s)
  /\ Serial /\ GatingDone(step) => run = "completed"

\* Of two states of the rows, the later: what was closed is as it was.
Later(old, new) ==
  \A a \in Slots : /\ old[a].status # "none" => new[a].status # "none"
                   /\ old[a].status \in {"completed", "cancelled"} => new[a] = old[a]

Fills(old, new) == \E a \in Slots : old[a].status = "none" /\ new[a].status # "none"

\* What whoever has locked the row a may rely on.
LockOK(p, a) ==
  LET st  == read[p].step[CourseStep]
      now == step[CourseStep]
  IN /\ assignment[a] = Seen(p)[a] /\ assignment[a].status # "none"
     /\ Fills(Seen(p), assignment) => ~IsOpen(assignment[a])
     /\ now.link = a => st.link = a
     /\ st.link = a => \/ Fills(Seen(p), assignment)
                       \/ now.status = st.status /\ now.reason = st.reason
                       \/ now.reason = "flagged"

\* What an open transaction has read is so, or what became of it is known.
ReadOK(p) ==
  /\ Stands(Seen(p), read[p].step[CourseStep])
  /\ \A s \in Steps : read[p].step[s].status # "none" => run # "none"
  /\ read[p].run # "none" => run # "none"
  /\ Later(Seen(p), assignment)
  /\ \A s \in Steps : Ended(Seen(p), read[p].step, s) => Ended(assignment, step, s)
  /\ read[p].step[CourseStep].status # "none" =>
       \/ step[CourseStep].link = read[p].step[CourseStep].link
       \/ Fills(Seen(p), assignment)
  /\ txn[p].lock \in Slots => LockOK(p, txn[p].lock)

OneHolder == \A p, q \in People, a \in Slots : Locks(p, a) /\ Locks(q, a) => p = q

OneReader ==
  Serial => \A p \in People : txn[p] # None =>
    /\ \A q \in People : txn[q] # None => q = p
    /\ read[p].step = step /\ read[p].run = run

Inv == /\ Types /\ RowsOK /\ StepsOK /\ OneHolder /\ OneReader
       /\ \A p \in People : txn[p] # None => ReadOK(p)

-----------------------------------------------------------------------------
(* What a step does to the transactions of others *)

CalmFor(p) ==
  LET now == step[CourseStep]
      new == step'[CourseStep]
  IN /\ Later(assignment, assignment')
     /\ Fills(assignment, assignment') => NoOpen(assignment)
     /\ \A s \in Steps : Ended(assignment, step, s) => Ended(assignment', step', s)
     /\ run # "none" => run' # "none"
     /\ new.link = now.link \/ run = "none" \/ Fills(assignment, assignment')
     /\ \A a \in Slots : Locks(p, a) =>
          /\ assignment'[a] = assignment[a]
          /\ new.link = a => now.link = a
          /\ now.link = a => \/ Fills(assignment, assignment')
                             \/ new.status = now.status /\ new.reason = now.reason
                             \/ new.reason = "flagged"

LEMMA ReadKept ==
  ASSUME Inv, NEW p \in People, txn[p] # None, txn'[p] = txn[p], read'[p] = read[p], CalmFor(p)
  PROVE  ReadOK(p)'
<1> DEFINE old == Seen(p)  st == read[p].step[CourseStep]
           now == step[CourseStep]  new == step'[CourseStep]
<1>1. ReadOK(p) /\ Seen(p)' = old
  BY DEF Inv, Seen
<1>2. Later(old, assignment) /\ Later(assignment, assignment')
  BY <1>1 DEF ReadOK, CalmFor
<1>3. Later(old, assignment')
  BY <1>2 DEF Later
<1>4. Fills(old, assignment) \/ Fills(assignment, assignment') => Fills(old, assignment')
  BY <1>2 DEF Later, Fills
<1>5. st.status # "none" => new.link = st.link \/ Fills(old, assignment')
  BY <1>1, <1>4 DEF ReadOK, CalmFor
<1>6. ASSUME NEW a \in Slots, a = txn[p].lock
      PROVE  LockOK(p, a)'
  <2>1. LockOK(p, a) /\ Locks(p, a)
    BY <1>1, <1>6 DEF ReadOK, Locks
  <2>2. assignment'[a] = assignment[a] /\ assignment[a] = old[a]
    BY <2>1 DEF LockOK, CalmFor
  <2>3. Fills(old, assignment') => Fills(old, assignment) \/ Fills(assignment, assignment')
    BY <1>2 DEF Later, Fills
  <2>4. Fills(old, assignment') => ~IsOpen(assignment[a])
    BY <2>1, <2>3 DEF LockOK, CalmFor, NoOpen
  <2>5. new.link = a => st.link = a
    BY <2>1 DEF LockOK, CalmFor
  <2>6. st.link = a => \/ Fills(old, assignment')
                       \/ new.status = st.status /\ new.reason = st.reason
                       \/ new.reason = "flagged"
    <3> SUFFICES ASSUME st.link = a, ~Fills(old, assignment')
                 PROVE  \/ new.status = st.status /\ new.reason = st.reason
                        \/ new.reason = "flagged"
      OBVIOUS
    <3>0. st.status # "none"
      BY <1>1 DEF ReadOK, Stands, Inv, Types
    <3>1. now.link = a
      BY <1>1, <1>4, <3>0 DEF ReadOK
    <3>2. \/ new.status = now.status /\ new.reason = now.reason
          \/ new.reason = "flagged"
      BY <1>4, <2>1, <3>1 DEF CalmFor
    <3>3. \/ now.status = st.status /\ now.reason = st.reason
          \/ now.reason = "flagged"
      BY <1>4, <2>1 DEF LockOK
    <3> QED BY <3>2, <3>3
  <2> QED BY <1>1, <2>1, <2>2, <2>4, <2>5, <2>6 DEF LockOK
<1>7. \A s \in Steps : Ended(old, read[p].step, s) => Ended(assignment', step', s)
  BY <1>1 DEF ReadOK, CalmFor
<1>8. /\ \A s \in Steps : read[p].step[s].status # "none" => run' # "none"
      /\ read[p].run # "none" => run' # "none"
  BY <1>1 DEF ReadOK, CalmFor
<1>9. Stands(old, st)
  BY <1>1 DEF ReadOK
<1> QED BY <1>1, <1>3, <1>5, <1>6, <1>7, <1>8, <1>9 DEF ReadOK

-----------------------------------------------------------------------------
(* What the handlers of a locked assignment write *)

\* What a handler makes of an open row.
Continues(row, new) ==
  /\ new \in Assignment /\ new.status # "none"
  /\ new.version = row.version /\ row.used <= new.used
  /\ \A k \in Kinds : row.lesson[k] = "completed" => new.lesson[k] = "completed"
  /\ Earned(new)

LEMMA Settling ==
  ASSUME NEW row \in Assignment, IsOpen(row)
  PROVE  /\ Settled(row) \in Assignment /\ Settled(row).status \in {"completed", "in_progress"}
         /\ Settled(row).version = row.version /\ Settled(row).used = row.used
         /\ Settled(row).lesson = row.lesson /\ Settled(row).signedBy = row.signedBy
         /\ Settled(row).extra = row.extra
         /\ Settled(row).status = "completed" => Finished(Settled(row))
<1>1. Settled(row) = [row EXCEPT !.status = IF Finished(row) THEN "completed" ELSE "in_progress"]
  BY DEF Settled
<1>2. CASE Finished(row)
  <2>1. Settled(row) = [row EXCEPT !.status = "completed"]
    BY <1>1, <1>2
  <2> QED BY <2>1, <1>2 DEF Assignment, Finished, OpenStatuses
<1>3. CASE ~Finished(row)
  <2>1. Settled(row) = [row EXCEPT !.status = "in_progress"]
    BY <1>1, <1>3
  <2> QED BY <2>1 DEF Assignment, OpenStatuses
<1> QED BY <1>2, <1>3

LEMMA SettingALesson ==
  ASSUME NEW row \in Assignment, NEW k \in Kinds, NEW status \in LessonStatuses
  PROVE  LET new == [row EXCEPT !.lesson[k] = status] IN
         /\ new \in Assignment /\ new.status = row.status /\ new.version = row.version
         /\ new.used = row.used /\ new.extra = row.extra /\ new.signedBy = row.signedBy
         /\ new.lesson = [row.lesson EXCEPT ![k] = status]
<1>1. [row.lesson EXCEPT ![k] = status] \in [Kinds -> LessonStatuses]
  BY DEF Assignment
<1> QED BY <1>1 DEF Assignment

\* A lesson that is not completed yet, and may have any status but the practical's completed.
LEMMA TakingALesson ==
  ASSUME NEW row \in Assignment, IsOpen(row), Earned(row), NEW k \in Kinds,
         NEW status \in LessonStatuses, row.lesson[k] # "completed",
         k = "practical" => status # "completed"
  PROVE  LET new == Settled([row EXCEPT !.lesson[k] = status]) IN
         Continues(row, new) /\ new.used = row.used /\ new.extra = row.extra
<1> DEFINE r == [row EXCEPT !.lesson[k] = status]  new == Settled(r)
<1>1. /\ r \in Assignment /\ r.status = row.status /\ r.version = row.version /\ r.used = row.used
      /\ r.extra = row.extra /\ r.signedBy = row.signedBy
      /\ r.lesson = [row.lesson EXCEPT ![k] = status]
  BY SettingALesson
<1> HIDE DEF r
<1>2. IsOpen(r)
  BY <1>1 DEF IsOpen
<1>3. /\ new \in Assignment /\ new.status \in {"completed", "in_progress"}
      /\ new.version = r.version /\ new.used = r.used /\ new.lesson = r.lesson
      /\ new.signedBy = r.signedBy /\ new.extra = r.extra
      /\ new.status = "completed" => Finished(new)
  BY <1>1, <1>2, Settling
<1> HIDE DEF new
<1>4. row.lesson \in [Kinds -> LessonStatuses] /\ row.used \in Nat /\ "practical" \in Kinds
  BY DEF Assignment, Kinds
<1>5. \A j \in Kinds : row.lesson[j] = "completed" => new.lesson[j] = "completed"
  BY <1>1, <1>3, <1>4
<1>6. new.lesson["practical"] = "completed" => row.lesson["practical"] = "completed"
  BY <1>1, <1>3, <1>4
<1> QED BY <1>1, <1>3, <1>4, <1>5, <1>6 DEF Continues, Earned, new, r

LEMMA LockedRow ==
  ASSUME Inv, NEW p \in People, txn[p] # None, txn[p].lock # None
  PROVE  /\ txn[p].lock \in Slots /\ Locks(p, txn[p].lock)
         /\ Row(p) = assignment[txn[p].lock] /\ Row(p) \in Assignment /\ Earned(Row(p))
         /\ course \in Course
         /\ Fills(Seen(p), assignment) => ~IsOpen(Row(p))
<1>1. txn[p] \in Txn /\ ReadOK(p) /\ TypeOK /\ RowsOK
  BY DEF Inv, Types
<1>2. txn[p].lock \in Slots
  BY <1>1 DEF Txn
<1>3. LockOK(p, txn[p].lock)
  BY <1>1, <1>2 DEF ReadOK
<1> QED BY <1>1, <1>2, <1>3 DEF LockOK, Locks, Row, TypeOK, RowsOK

\* A lesson is taken of what is open: all lessons of a completed assignment are completed.
LEMMA LessonsAreOpen ==
  ASSUME Inv, NEW p \in People, NEW k \in Kinds, InLesson(p, k), Row(p).lesson[k] # "completed"
  PROVE  IsOpen(Row(p))
<1>1. /\ Row(p) \in Assignment /\ Earned(Row(p)) /\ Row(p).status # "cancelled" /\ k \in course.lessons
      /\ Row(p) = assignment[txn[p].lock] /\ txn[p].lock \in Slots
  BY LockedRow DEF InLesson
<1>2. Row(p).status # "completed"
  BY <1>1 DEF Earned, Finished
<1>3. Row(p).status # "none"
  BY <1>1 DEF Inv, ReadOK, LockOK, InLesson
<1> QED BY <1>1, <1>2, <1>3 DEF IsOpen, Assignment, OpenStatuses

LEMMA TrainRow ==
  ASSUME Inv, NEW p \in People, HandlesLocked(p)
  PROVE  LET a == txn[p].lock IN
         /\ txn[p] # None /\ a \in Slots /\ Locks(p, a) /\ IsOpen(assignment[a])
         /\ ~Fills(Seen(p), assignment)
         /\ \E new \in Assignment : /\ Continues(assignment[a], new)
                                   /\ assignment' = [assignment EXCEPT ![a] = new]
<1> DEFINE a == txn[p].lock  row == assignment[a]
           Written == \E new \in Assignment : Continues(row, new) /\ Writes(p, new)
<1>1. txn[p] # None /\ a # None
  BY DEF HandlesLocked, CompleteReading, SaveChecklist, SubmitQuiz, RequestSignoff,
         WithdrawAssignment, AllowAnotherAttempt, DecideSignoff, InLesson, Manages
<1>2. /\ a \in Slots /\ Locks(p, a) /\ Row(p) = row /\ row \in Assignment /\ Earned(row)
      /\ course \in Course
      /\ Fills(Seen(p), assignment) => ~IsOpen(row)
  BY <1>1, LockedRow
<1>3. /\ row.used \in 0..MaxAttempts + MaxExtra /\ row.extra \in 0..MaxExtra
      /\ row.lesson \in [Kinds -> LessonStatuses]
      /\ "reading" \in Kinds /\ "checklist" \in Kinds /\ "quiz" \in Kinds /\ "practical" \in Kinds
  BY <1>2 DEF Assignment, Kinds
<1>4. ASSUME CompleteReading(p) PROVE IsOpen(row) /\ Written
  <2>1. IsOpen(row) /\ Writes(p, Taken(p, "reading", "completed")) /\ row.lesson["reading"] # "completed"
    BY <1>2, <1>3, <1>4, LessonsAreOpen DEF CompleteReading
  <2>2. Continues(row, Taken(p, "reading", "completed"))
    BY <2>1, <1>2, <1>3, TakingALesson DEF Taken, LessonStatuses
  <2> QED BY <2>1, <2>2 DEF Continues
<1>5. ASSUME SaveChecklist(p) PROVE IsOpen(row) /\ Written
  <2>1. PICK status \in {"in_progress", "completed"} : Writes(p, Taken(p, "checklist", status))
    BY <1>5 DEF SaveChecklist
  <2>2. IsOpen(row) /\ row.lesson["checklist"] # "completed"
    BY <1>2, <1>3, <1>5, LessonsAreOpen DEF SaveChecklist
  <2>3. Continues(row, Taken(p, "checklist", status))
    BY <2>2, <1>2, <1>3, TakingALesson DEF Taken, LessonStatuses
  <2> QED BY <2>1, <2>2, <2>3 DEF Continues
<1>6. ASSUME SubmitQuiz(p) PROVE IsOpen(row) /\ Written
  <2>1. PICK status \in {"in_progress", "completed"} :
          Writes(p, [Taken(p, "quiz", status) EXCEPT !.used = @ + 1])
    BY <1>6 DEF SubmitQuiz
  <2>2. IsOpen(row) /\ row.lesson["quiz"] # "completed" /\ row.used < MaxAttempts + row.extra
    BY <1>2, <1>3, <1>6, LessonsAreOpen DEF SubmitQuiz, MayAttempt, Allowed
  <2> DEFINE r == Taken(p, "quiz", status)  new == [r EXCEPT !.used = @ + 1]
  <2>3. Continues(row, r) /\ r.used = row.used /\ r.extra = row.extra
    <3>1. Continues(row, Settled([row EXCEPT !.lesson["quiz"] = status])) /\ r = Settled([row EXCEPT !.lesson["quiz"] = status])
      BY <2>2, <1>2, <1>3, TakingALesson DEF Taken, LessonStatuses
    <3>2. status \in LessonStatuses /\ "quiz" # "practical"
      BY DEF LessonStatuses
    <3> QED BY <2>2, <3>1, <3>2, <1>2, <1>3, TakingALesson
  <2> HIDE DEF r
  <2>4. r \in Assignment /\ r.used + 1 \in 0..MaxAttempts + MaxExtra
    BY <2>2, <2>3, <1>3 DEF Continues
  <2>5. /\ new \in Assignment /\ new.used = r.used + 1 /\ new.status = r.status
        /\ new.version = r.version /\ new.lesson = r.lesson /\ new.signedBy = r.signedBy
    BY <2>4 DEF Assignment
  <2> HIDE DEF new
  <2>6. Continues(row, new)
    BY <2>3, <2>5, <1>3 DEF Continues, Earned, Finished
  <2> QED BY <2>1, <2>2, <2>5, <2>6 DEF r, new
<1>7. ASSUME RequestSignoff(p) PROVE IsOpen(row) /\ Written
  <2>1. /\ IsOpen(row) /\ Writes(p, Taken(p, "practical", "awaiting_signoff"))
        /\ row.lesson["practical"] # "completed"
    BY <1>2, <1>3, <1>7, LessonsAreOpen DEF RequestSignoff
  <2>2. Continues(row, Taken(p, "practical", "awaiting_signoff"))
    BY <2>1, <1>2, <1>3, TakingALesson DEF Taken, LessonStatuses
  <2> QED BY <2>1, <2>2 DEF Continues
<1>8. ASSUME WithdrawAssignment(p) PROVE IsOpen(row) /\ Written
  <2> DEFINE new == [row EXCEPT !.status = "cancelled"]
  <2>1. IsOpen(row) /\ Writes(p, new)
    BY <1>2, <1>8 DEF WithdrawAssignment, Manages
  <2>2. /\ new \in Assignment /\ new.status = "cancelled" /\ new.version = row.version
        /\ new.used = row.used /\ new.lesson = row.lesson /\ new.signedBy = row.signedBy
    BY <1>2 DEF Assignment
  <2> HIDE DEF new
  <2>3. Continues(row, new)
    BY <2>2, <1>2, <1>3 DEF Continues, Earned
  <2> QED BY <2>1, <2>2, <2>3
<1>9. ASSUME AllowAnotherAttempt(p) PROVE IsOpen(row) /\ Written
  <2> DEFINE new == [row EXCEPT !.extra = @ + 1]
  <2>1. IsOpen(row) /\ Writes(p, new) /\ row.extra < MaxExtra
    BY <1>2, <1>9 DEF AllowAnotherAttempt, Manages
  <2>2. row.extra + 1 \in 0..MaxExtra
    BY <2>1, <1>3
  <2>3. /\ new \in Assignment /\ new.status = row.status /\ new.version = row.version
        /\ new.used = row.used /\ new.lesson = row.lesson /\ new.signedBy = row.signedBy
    BY <1>2, <2>2 DEF Assignment
  <2> HIDE DEF new
  <2>4. Continues(row, new)
    BY <2>1, <2>3, <1>2, <1>3 DEF Continues, Earned, Finished, IsOpen, OpenStatuses
  <2> QED BY <2>1, <2>3, <2>4
<1>10. ASSUME DecideSignoff(p) PROVE IsOpen(row) /\ Written
  <2>1. /\ IsOpen(row) /\ p \in Managers \ {Learner}
        /\ row.lesson["practical"] = "awaiting_signoff"
    BY <1>2, <1>10 DEF DecideSignoff, Manages, IsAnother
  <2>2. CASE Writes(p, [Row(p) EXCEPT !.lesson["practical"] = "returned"])
    <3> DEFINE new == [row EXCEPT !.lesson["practical"] = "returned"]
    <3>1. /\ new \in Assignment /\ new.status = row.status /\ new.version = row.version
          /\ new.used = row.used /\ new.signedBy = row.signedBy
          /\ new.lesson = [row.lesson EXCEPT !["practical"] = "returned"]
      <4>1. row \in Assignment /\ "practical" \in Kinds
        BY <1>2, <1>3
      <4>2. "returned" \in LessonStatuses /\ "completed" \in LessonStatuses
        BY DEF LessonStatuses
      <4> HIDE DEF row
      <4> QED BY <4>1, <4>2, SettingALesson
    <3> HIDE DEF new
    <3>2. Continues(row, new)
      BY <2>1, <3>1, <1>2, <1>3 DEF Continues, Earned, IsOpen, OpenStatuses
    <3> QED BY <2>1, <2>2, <3>1, <3>2, <1>2 DEF new
  <2>3. CASE Writes(p, Settled([Row(p) EXCEPT !.lesson["practical"] = "completed", !.signedBy = p]))
    <3> DEFINE r == [row EXCEPT !.lesson["practical"] = "completed"]
               q == [r EXCEPT !.signedBy = p]
               new == Settled(q)
    <3>1. /\ r \in Assignment /\ r.status = row.status /\ r.version = row.version
          /\ r.used = row.used /\ r.lesson = [row.lesson EXCEPT !["practical"] = "completed"]
      <4>1. row \in Assignment /\ "practical" \in Kinds
        BY <1>2, <1>3
      <4>2. "returned" \in LessonStatuses /\ "completed" \in LessonStatuses
        BY DEF LessonStatuses
      <4> HIDE DEF row
      <4> QED BY <4>1, <4>2, SettingALesson
    <3>2. q = [row EXCEPT !.lesson["practical"] = "completed", !.signedBy = p]
      BY <1>2 DEF Assignment
    <3> HIDE DEF r
    <3>3. /\ q \in Assignment /\ q.status = row.status /\ q.version = row.version
          /\ q.used = row.used /\ q.lesson = r.lesson /\ q.signedBy = p
      BY <2>1, <3>1 DEF Assignment
    <3> HIDE DEF q
    <3>4. IsOpen(q)
      BY <2>1, <3>3 DEF IsOpen
    <3>5. /\ new \in Assignment /\ new.status \in {"completed", "in_progress"}
          /\ new.version = q.version /\ new.used = q.used /\ new.lesson = q.lesson
          /\ new.signedBy = p
          /\ new.status = "completed" => Finished(new)
      BY <3>3, <3>4, Settling
    <3> HIDE DEF new
    <3>6. Continues(row, new)
      <4>1. new.lesson = [row.lesson EXCEPT !["practical"] = "completed"] /\ new.used = row.used
        BY <3>1, <3>3, <3>5
      <4>2. \A k \in Kinds : row.lesson[k] = "completed" => new.lesson[k] = "completed"
        BY <4>1, <1>3
      <4>3. Earned(new)
        BY <2>1, <3>5 DEF Earned
      <4>4. row.used <= new.used /\ new.version = row.version
        BY <4>1, <1>3, <3>3, <3>5
      <4> QED BY <4>2, <4>3, <4>4, <3>5 DEF Continues
    <3>7. Writes(p, new)
      BY <2>3, <3>2, <1>2 DEF new
    <3> QED BY <2>1, <3>5, <3>6, <3>7
  <2> QED BY <1>10, <2>2, <2>3 DEF DecideSignoff
<1>11. IsOpen(row) /\ Written
  BY <1>4, <1>5, <1>6, <1>7, <1>8, <1>9, <1>10 DEF HandlesLocked
<1>12. PICK new \in Assignment : Continues(row, new) /\ assignment' = [assignment EXCEPT ![a] = new]
  BY <1>11 DEF Writes
<1> QED BY <1>1, <1>2, <1>11, <1>12

-----------------------------------------------------------------------------
(* The rows of assignments *)

\* What RecordKept says of a step.
RowsStay ==
  \A a \in Slots :
    LET row == assignment[a]
        new == assignment'[a]
    IN /\ row.status \in {"completed", "cancelled"} => new = row
       /\ row.status \notin {"none", "assigned"} => new.version = row.version
       /\ row.used <= new.used
       /\ \A k \in Kinds : row.lesson[k] = "completed" => new.lesson[k] = "completed"

RowsSound ==
  /\ assignment' \in [Slots -> Assignment] /\ RowsOK' /\ Later(assignment, assignment') /\ RowsStay
  /\ Fills(assignment, assignment') => NoOpen(assignment)

LEMMA SlotsAreOrdered ==
  /\ Slots \subseteq Nat /\ None \notin Slots
  /\ \A a, b \in Slots : a < b \/ a = b \/ b < a
<1>1. Slots \subseteq Nat
  BY BoundsAssumption
<1>2. \A a, b \in Nat : a < b \/ a = b \/ b < a
  OBVIOUS
<1> QED BY <1>1, <1>2, NoneAssumption

LEMMA UsedIsNatural ==
  ASSUME TypeOK, NEW b \in Slots
  PROVE  assignment[b].used <= assignment[b].used
<1>1. assignment[b].used \in 0..MaxAttempts + MaxExtra
  BY DEF TypeOK, Assignment
<1> QED BY <1>1

LEMMA RowsUnchanged ==
  ASSUME Inv, UNCHANGED assignment, course'.lessons = course.lessons
  PROVE  RowsSound /\ ~Fills(assignment, assignment')
<1>1. TypeOK /\ RowsOK
  BY DEF Inv, Types
<1>2. RowsOK'
  BY <1>1 DEF RowsOK, Earned, Finished, IsOpen
<1>3. \A a \in Slots : assignment[a].used <= assignment[a].used
  BY <1>1 DEF TypeOK, Assignment
<1> QED BY <1>1, <1>2, <1>3 DEF RowsSound, RowsStay, Later, Fills, TypeOK

LEMMA RowsContinued ==
  ASSUME Inv, UNCHANGED course, NEW a \in Slots, NEW new \in Assignment, IsOpen(assignment[a]),
         Continues(assignment[a], new), assignment' = [assignment EXCEPT ![a] = new]
  PROVE  RowsSound /\ ~Fills(assignment, assignment')
<1>1. TypeOK /\ RowsOK
  BY DEF Inv, Types
<1>2. /\ assignment' \in [Slots -> Assignment] /\ assignment'[a] = new
      /\ \A b \in Slots : b # a => assignment'[b] = assignment[b]
  BY <1>1 DEF TypeOK
<1>3. new.status # "none" /\ assignment[a].status \in OpenStatuses
  BY DEF Continues, IsOpen
<1>4. \A b \in Slots : assignment[b].status = "none" <=> assignment'[b].status = "none"
  BY <1>2, <1>3 DEF OpenStatuses
<1>5. \A b \in Slots : IsOpen(assignment'[b]) => IsOpen(assignment[b])
  BY <1>2
<1>6. RowsOK'
  <2>1. \A b \in Slots : Earned(assignment[b])'
    BY <1>1, <1>2 DEF RowsOK, Earned, Finished, Continues
  <2>2. \A b \in Slots : assignment'[b].status = "none" => assignment'[b] = NoAssignment
    BY <1>1, <1>2, <1>4, <1>3 DEF RowsOK
  <2>3. \A b, c \in Slots : assignment'[b].status # "none" /\ c < b => assignment'[c].status # "none"
    BY <1>1, <1>4 DEF RowsOK
  <2>4. \A b, c \in Slots : IsOpen(assignment[b])' /\ IsOpen(assignment[c])' => b = c
    BY <1>1, <1>5 DEF RowsOK, IsOpen
  <2> QED BY <2>1, <2>2, <2>3, <2>4 DEF RowsOK, Earned, Finished, IsOpen
<1>7. Later(assignment, assignment')
  BY <1>2, <1>3, <1>4 DEF Later, OpenStatuses
<1>8. RowsStay
  <2>1. \A b \in Slots : assignment[b].used <= assignment[b].used
    BY <1>1, UsedIsNatural
  <2> QED BY <1>2, <1>3, <2>1 DEF RowsStay, Continues, OpenStatuses
<1> QED BY <1>2, <1>4, <1>6, <1>7, <1>8 DEF RowsSound, Fills

LEMMA NewSlotIs ==
  ASSUME NEW rows, Insertable(rows)
  PROVE  NewSlot(rows) \in Slots /\ IsNew(rows, NewSlot(rows))
BY DEF Insertable, NewSlot

LEMMA RowsInserted ==
  ASSUME Inv, UNCHANGED course, Insertable(assignment), NEW version \in 0..LastVersion,
         assignment' = Inserted(assignment, version)
  PROVE  LET n == NewSlot(assignment) IN
         /\ RowsSound /\ NoOpen(assignment) /\ Fills(assignment, assignment')
         /\ n \in Slots /\ assignment[n].status = "none"
         /\ assignment'[n] = [NoAssignment EXCEPT !.status = "assigned", !.version = version]
         /\ \A b \in Slots : b # n => assignment'[b] = assignment[b]
<1> DEFINE n == NewSlot(assignment)
           new == [NoAssignment EXCEPT !.status = "assigned", !.version = version]
<1>1. TypeOK /\ RowsOK /\ NoOpen(assignment)
  BY DEF Inv, Types, Insertable
<1>2. /\ n \in Slots /\ assignment[n].status = "none"
      /\ \A b \in Slots : b < n => assignment[b].status # "none"
  BY NewSlotIs DEF IsNew
<1>3. assignment' = [assignment EXCEPT ![n] = new]
  BY DEF Inserted
<1> HIDE DEF n
<1>4. /\ new \in Assignment /\ new.status = "assigned" /\ new.version = version
      /\ new.used = 0 /\ new.lesson["practical"] = "not_started"
  <2>1. [k \in Kinds |-> "not_started"] \in [Kinds -> LessonStatuses]
    BY DEF LessonStatuses
  <2>2. 0 \in 0..MaxAttempts + MaxExtra /\ 0 \in 0..MaxExtra /\ "practical" \in Kinds
    BY DEF Kinds
  <2> QED BY <2>1, <2>2 DEF NoAssignment, Assignment, OpenStatuses
<1> HIDE DEF new
<1>5. /\ assignment' \in [Slots -> Assignment] /\ assignment'[n] = new
      /\ \A b \in Slots : b # n => assignment'[b] = assignment[b]
  BY <1>1, <1>2, <1>3, <1>4 DEF TypeOK
<1>6. assignment[n] = NoAssignment
  BY <1>1, <1>2 DEF RowsOK
<1>7. RowsOK'
  <2>1. \A b \in Slots : Earned(assignment[b])'
    BY <1>1, <1>4, <1>5 DEF RowsOK, Earned, Finished
  <2>2. \A b \in Slots : assignment'[b].status = "none" => assignment'[b] = NoAssignment
    BY <1>1, <1>4, <1>5 DEF RowsOK
  <2>3. ASSUME NEW b \in Slots, NEW c \in Slots, assignment'[b].status # "none", c < b
        PROVE  assignment'[c].status # "none"
    <3>1. CASE b = n
      BY <1>2, <1>5, <2>3, <3>1
    <3>2. CASE b # n
      BY <1>1, <1>4, <1>5, <2>3, <3>2 DEF RowsOK
    <3> QED BY <3>1, <3>2
  <2>4. \A b, c \in Slots : IsOpen(assignment'[b]) /\ IsOpen(assignment'[c]) => b = c
    BY <1>1, <1>5 DEF NoOpen
  <2> QED BY <2>1, <2>2, <2>3, <2>4 DEF RowsOK, Earned, Finished, IsOpen
<1>8. Later(assignment, assignment') /\ Fills(assignment, assignment')
  BY <1>2, <1>4, <1>5 DEF Later, Fills
<1>9. RowsStay
  <2>1. \A b \in Slots : assignment[b].used <= assignment[b].used
    BY <1>1, UsedIsNatural
  <2>2. NoAssignment.used = 0 /\ \A k \in Kinds : NoAssignment.lesson[k] = "not_started"
    BY DEF NoAssignment
  <2>3. ASSUME NEW b \in Slots
        PROVE  LET row == assignment[b]
                   rnew == assignment'[b]
               IN /\ row.status \in {"completed", "cancelled"} => rnew = row
                  /\ row.status \notin {"none", "assigned"} => rnew.version = row.version
                  /\ row.used <= rnew.used
                  /\ \A k \in Kinds : row.lesson[k] = "completed" => rnew.lesson[k] = "completed"
    <3>1. CASE b = n
      BY <3>1, <1>2, <1>4, <1>5, <1>6, <2>2
    <3>2. CASE b # n
      BY <3>2, <1>5, <2>1
    <3> QED BY <3>1, <3>2
  <2> QED BY <2>3 DEF RowsStay
<1> QED BY <1>1, <1>2, <1>5, <1>7, <1>8, <1>9 DEF RowsSound, n, new

LEMMA RowsMoved ==
  ASSUME Inv, NEW p \in People, MoveNotStartedToCurrent(p)
  PROVE  /\ RowsSound /\ ~Fills(assignment, assignment')
         /\ \A q \in People, a \in Slots : Locks(q, a) => assignment'[a] = assignment[a]
         /\ \A a \in Slots : /\ StandingOf(assignment'[a]) = StandingOf(assignment[a])
                            /\ assignment'[a].status = assignment[a].status
<1>1. TypeOK /\ RowsOK /\ UNCHANGED course /\ course.published \in 0..LastVersion
  BY DEF Inv, Types, MoveNotStartedToCurrent, TypeOK, Course
<1>2. ASSUME NEW a \in Slots
      PROVE  /\ assignment'[a] \in Assignment
             /\ assignment'[a].status = assignment[a].status
             /\ assignment'[a].lesson = assignment[a].lesson
             /\ assignment'[a].used = assignment[a].used
             /\ assignment'[a].extra = assignment[a].extra
             /\ assignment'[a].signedBy = assignment[a].signedBy
             /\ ~NotStarted(assignment[a]) => assignment'[a] = assignment[a]
  BY ZenonT(60), <1>1 DEF MoveNotStartedToCurrent, TypeOK, Assignment
<1>3. assignment' \in [Slots -> Assignment]
  BY <1>2 DEF MoveNotStartedToCurrent
<1>4. \A a \in Slots : assignment[a].status # "assigned" => assignment'[a] = assignment[a]
  BY <1>2 DEF NotStarted
<1>5. RowsOK'
  <2>1. \A b \in Slots : Earned(assignment[b])'
    BY <1>1, <1>2 DEF RowsOK, Earned, Finished
  <2>2. \A b \in Slots : assignment'[b].status = "none" => assignment'[b] = NoAssignment
    BY <1>1, <1>2, <1>4 DEF RowsOK
  <2>3. \A b, c \in Slots : assignment'[b].status # "none" /\ c < b => assignment'[c].status # "none"
    BY <1>1, <1>2 DEF RowsOK
  <2>4. \A b, c \in Slots : IsOpen(assignment'[b]) /\ IsOpen(assignment'[c]) => b = c
    BY <1>1, <1>2 DEF RowsOK, IsOpen
  <2> QED BY <2>1, <2>2, <2>3, <2>4 DEF RowsOK, Earned, Finished, IsOpen
<1>6. Later(assignment, assignment') /\ ~Fills(assignment, assignment')
  BY <1>2, <1>4 DEF Later, Fills
<1>7. RowsStay
  <2>1. \A b \in Slots : assignment[b].used <= assignment[b].used
    BY <1>1, UsedIsNatural
  <2> QED BY <1>2, <1>4, <2>1 DEF RowsStay
<1>8. ASSUME NEW q \in People, NEW a \in Slots, Locks(q, a)
      PROVE  assignment'[a] = assignment[a]
  <2>1. PICK b \in Slots : NotStarted(assignment[b]) /\ Lockable(p, b)
    BY DEF MoveNotStartedToCurrent
  <2>2. a # b
    BY <1>8, <2>1 DEF Lockable
  <2>3. ~NotStarted(assignment[a])
    BY <1>1, <2>1, <2>2 DEF RowsOK, NotStarted, IsOpen, OpenStatuses
  <2> QED BY <1>2, <2>3
<1>9. \A a \in Slots : StandingOf(assignment'[a]) = StandingOf(assignment[a])
  BY <1>2 DEF StandingOf, OutOfAttempts, Allowed
<1> QED BY <1>2, <1>3, <1>5, <1>6, <1>7, <1>8, <1>9 DEF RowsSound

\* Nobody has filled a slot since p has read, if what was the next one still is.
LEMMA NothingFilled ==
  ASSUME Inv, NEW p \in People, txn[p] # None, Insertable(Seen(p)), Insertable(assignment),
         NewSlot(Seen(p)) = NewSlot(assignment)
  PROVE  ~Fills(Seen(p), assignment)
<1> DEFINE n == NewSlot(assignment)
<1>1. /\ n \in Slots /\ assignment[n].status = "none"
      /\ \A b \in Slots : b < n => Seen(p)[b].status # "none"
  BY NewSlotIs DEF IsNew
<1>2. RowsOK
  BY DEF Inv
<1> HIDE DEF n
<1>3. ASSUME NEW a \in Slots, Seen(p)[a].status = "none", assignment[a].status # "none"
      PROVE  FALSE
  <2>1. ~(a < n) /\ a # n
    BY <1>1, <1>3
  <2>2. n < a
    BY <1>1, <2>1, SlotsAreOrdered
  <2> QED BY <1>1, <1>2, <1>3, <2>2 DEF RowsOK
<1> QED BY <1>3 DEF Fills

-----------------------------------------------------------------------------
(* The steps of the run *)

\* What CompletedStepsStay says of a step.
StepsStay ==
  \A s \in Steps : step[s].status = "completed" =>
    /\ step'[s].status = "completed" \/ step'[s].reason = "flagged"
    /\ step'[s].link = step[s].link

StepsSound ==
  /\ step' \in [Steps -> Step] /\ run' \in RunStatuses /\ StepsOK' /\ StepsStay
  /\ run # "none" => run' # "none"

LEMMA StandingIs ==
  ASSUME NEW row \in Assignment
  PROVE  /\ StandingOf(row)[1] \in {"pending", "blocked", "completed"}
         /\ StandingOf(row)[2] \in {None, "withdrawn", "attempts"}
         /\ StandingOf(row) = <<StandingOf(row)[1], StandingOf(row)[2]>>
         /\ StandingOf(row)[1] = "completed" <=> row.status = "completed"
         /\ row.status = "cancelled" => StandingOf(row) = <<"blocked", "withdrawn">>
<1>1. \/ StandingOf(row) = <<"completed", None>> /\ row.status = "completed"
      \/ StandingOf(row) = <<"blocked", "withdrawn">> /\ row.status = "cancelled"
      \/ StandingOf(row) = <<"blocked", "attempts">> /\ row.status \notin {"completed", "cancelled"}
      \/ StandingOf(row) = <<"pending", None>> /\ row.status \notin {"completed", "cancelled"}
  <2>1. CASE row.status \in {"completed", "cancelled"}
    BY <2>1 DEF StandingOf
  <2>2. CASE row.status \notin {"completed", "cancelled"} /\ OutOfAttempts(row)
    BY <2>2 DEF StandingOf
  <2>3. CASE row.status \notin {"completed", "cancelled"} /\ ~OutOfAttempts(row)
    BY <2>3 DEF StandingOf
  <2> QED BY <2>1, <2>2, <2>3
<1> QED BY <1>1

\* A course step that is completed has its course completed, and so has one that was.
LEMMA EndedCourse ==
  ASSUME NEW rows \in [Slots -> Assignment], NEW steps \in [Steps -> Step],
         Stands(rows, steps[CourseStep]), Ended(rows, steps, CourseStep)
  PROVE  /\ steps[CourseStep].link \in Slots
         /\ rows[steps[CourseStep].link].status = "completed"
<1> DEFINE st == steps[CourseStep]
<1>1. st \in Step
  OBVIOUS
<1>2. CASE st.status = "completed"
  <2>1. st.link # None /\ st.reason # "flagged"
    BY <1>2 DEF Stands
  <2>2. st.link \in Slots
    BY <1>1, <2>1 DEF Step
  <2>3. StandingOf(rows[st.link]) = <<st.status, st.reason>>
    BY <2>1 DEF Stands
  <2> QED BY <1>2, <2>2, <2>3, StandingIs
<1>3. CASE st.status # "completed"
  BY <1>1, <1>3 DEF Ended, Step
<1> QED BY <1>2, <1>3

\* A course step that is written stands as row does.
LEMMA StandingStep ==
  ASSUME NEW st \in Step, NEW row \in Assignment
  PROVE  /\ Standing(st, row) \in Step /\ Standing(st, row).link = st.link
         /\ Standing(st, row).verifiedBy = st.verifiedBy
         /\ Standing(st, row).status = StandingOf(row)[1]
         /\ Standing(st, row).reason = StandingOf(row)[2]
         /\ Standing(st, row).reason # "flagged"
<1>1. /\ StandingOf(row)[1] \in {"pending", "blocked", "completed"}
      /\ StandingOf(row)[2] \in {None, "withdrawn", "attempts"}
  BY StandingIs
<1> QED BY <1>1 DEF Standing, Step

LEMMA RefreshedIs ==
  ASSUME NEW steps
  PROVE  /\ Refreshed(steps) \in {"open", "completed"}
         /\ Refreshed(steps) = "completed" <=> GatingDone(steps)
BY DEF Refreshed

\* Steps that stay as they are, with rows that continue what they stand for.
LEMMA StepsUnchanged ==
  ASSUME Inv, RowsSound, UNCHANGED <<isolation, step, run>>,
         step[CourseStep].link # None /\ step[CourseStep].reason # "flagged" =>
           StandingOf(assignment'[step[CourseStep].link]) = StandingOf(assignment[step[CourseStep].link])
  PROVE  /\ StepsSound
         /\ \A s \in Steps : Ended(assignment, step, s) => Ended(assignment', step', s)
<1>1. TypeOK /\ StepsOK /\ Later(assignment, assignment')
  BY DEF Inv, Types, RowsSound
<1>2. step[CourseStep] \in Step
  BY <1>1 DEF TypeOK
<1>3. Stands(assignment', step[CourseStep])
  BY <1>1, <1>2 DEF StepsOK, Stands, Later, Step
<1>4. ASSUME NEW s \in Steps, Ended(assignment, step, s)
      PROVE  Ended(assignment', step', s)
  <2>1. CASE s = CourseStep
    <3>1. step[s].link \in Slots /\ assignment[step[s].link].status = "completed"
      BY <1>1, <1>4, <2>1, EndedCourse DEF TypeOK, StepsOK
    <3>2. assignment'[step[s].link].status = "completed"
      BY <1>1, <3>1 DEF Later
    <3> QED BY <1>4, <3>2 DEF Ended
  <2>2. CASE s # CourseStep
    BY <1>4, <2>2 DEF Ended
  <2> QED BY <2>1, <2>2
<1>5. run = "completed" => \A s \in GatingSteps : Ended(assignment', step', s)
  BY <1>1, <1>4 DEF StepsOK
<1>6. StepsOK'
  BY <1>1, <1>3, <1>5 DEF StepsOK, Serial, GatingDone
<1> QED BY <1>1, <1>4, <1>6 DEF StepsSound, StepsStay, TypeOK

-----------------------------------------------------------------------------
(* The handlers of training *)

Others(p) == \A q \in People : q # p /\ txn[q] # None => CalmFor(q)

\* What is gated is completed when the last step is, for whoever reads nothing old.
LEMMA RunIsRefreshed ==
  ASSUME Inv, NEW p \in People, txn[p] # None, step' \in [Steps -> Step],
         NEW c \in Steps, NEW written \in [Steps -> Step], UNCHANGED isolation,
         \A s \in Steps : s # c => written[s] = read[p].step[s] /\ step'[s] = step[s],
         written[c].status = step'[c].status,
         \A s \in Steps : s # c /\ Ended(assignment, step, s) => Ended(assignment', step', s),
         run' = Refreshed(written)
  PROVE  /\ run' \in {"open", "completed"}
         /\ run' = "completed" => \A s \in GatingSteps : Ended(assignment', step', s)
         /\ Serial' /\ GatingDone(step') => run' = "completed"
<1>1. ReadOK(p) /\ OneReader
  BY DEF Inv
<1>2. run' \in {"open", "completed"} /\ (run' = "completed" <=> GatingDone(written))
  BY RefreshedIs
<1>3. ASSUME run' = "completed", NEW s \in GatingSteps
      PROVE  Ended(assignment', step', s)
  <2>1. written[s].status = "completed"
    BY <1>2, <1>3 DEF GatingDone
  <2>2. CASE s = c
    BY <2>1, <2>2 DEF Ended
  <2>3. CASE s # c
    <3>1. Ended(Seen(p), read[p].step, s)
      BY <2>1, <2>3 DEF Ended
    <3> QED BY <1>1, <2>3, <3>1 DEF ReadOK
  <2> QED BY <2>2, <2>3
<1>4. ASSUME Serial', GatingDone(step')
      PROVE  run' = "completed"
  <2>1. read[p].step = step
    BY <1>1, <1>4 DEF OneReader, Serial
  <2>2. \A s \in GatingSteps : written[s].status = step'[s].status
    BY <2>1
  <2> QED BY <1>2, <1>4, <2>2 DEF GatingDone
<1> QED BY <1>2, <1>3, <1>4

LEMMA TrainStep ==
  ASSUME Inv, NEW p \in People, Train(p)
  PROVE  RowsSound /\ StepsSound /\ Others(p)
<1> DEFINE a == txn[p].lock  st == read[p].step[CourseStep]  now == step[CourseStep]
<1>1. /\ txn[p] # None /\ a \in Slots /\ Locks(p, a) /\ IsOpen(assignment[a])
      /\ ~Fills(Seen(p), assignment)
  BY TrainRow DEF Train
<1>2. PICK new \in Assignment : /\ Continues(assignment[a], new)
                                /\ assignment' = [assignment EXCEPT ![a] = new]
  BY TrainRow DEF Train
<1>3. UNCHANGED <<isolation, course, changes>> /\ Sync(read[p].step, step, run, a, assignment'[a])
  BY DEF Train, SyncAfter, End, TrainingEnd
<1> HIDE DEF a
<1>4. /\ RowsSound /\ ~Fills(assignment, assignment')
      /\ assignment'[a] = new /\ \A b \in Slots : b # a => assignment'[b] = assignment[b]
  <2>1. assignment \in [Slots -> Assignment]
    BY DEF Inv, Types, TypeOK
  <2> QED BY <1>1, <1>2, <1>3, <2>1, RowsContinued
<1>5. /\ TypeOK /\ StepsOK /\ ReadOK(p) /\ LockOK(p, a) /\ OneHolder
      /\ now \in Step /\ st \in Step /\ read[p].step \in [Steps -> Step]
  <2>1. txn[p] \in Txn /\ read[p] \in Snapshot /\ ReadOK(p) /\ TypeOK
    BY <1>1 DEF Inv, Types
  <2> QED BY <2>1, <1>1 DEF Inv, ReadOK, Snapshot, TypeOK, a
<1>6. now.link = a <=> st.link = a
  <2>1. st.link = a => st.status # "none"
    BY <1>1, <1>5, SlotsAreOrdered DEF ReadOK, Stands
  <2> QED BY <1>1, <1>5, <2>1 DEF ReadOK, LockOK
<1>7. assignment[a].status # "completed" /\ Seen(p)[a] = assignment[a]
  BY <1>1, <1>5 DEF IsOpen, OpenStatuses, LockOK
<1>8. ~Ended(assignment, step, CourseStep) \/ now.link # a
  BY <1>5, <1>7, EndedCourse DEF StepsOK, TypeOK
<1>9. CASE ~Follows(st, a, new)
  <2>1. UNCHANGED <<step, run>>
    BY <1>3, <1>4, <1>9 DEF Sync
  <2>2. now.link # None /\ now.reason # "flagged" =>
          StandingOf(assignment'[now.link]) = StandingOf(assignment[now.link])
    <3> SUFFICES ASSUME now.link # None, now.reason # "flagged"
                 PROVE  StandingOf(assignment'[now.link]) = StandingOf(assignment[now.link])
      OBVIOUS
    <3>1. now.link \in Slots
      BY <1>5 DEF Step
    <3>2. CASE now.link # a
      BY <1>4, <3>1, <3>2
    <3>3. CASE now.link = a
      <4>1. st.link = a
        BY <1>6, <3>3
      <4>2. st.status # "completed"
        <5> SUFFICES ASSUME st.status = "completed" PROVE FALSE
          OBVIOUS
        <5>1. Ended(Seen(p), read[p].step, CourseStep)
          BY DEF Ended
        <5>2. Seen(p) \in [Slots -> Assignment]
          BY <1>1 DEF Inv, Types, Txn, Seen
        <5> QED BY <1>5, <1>7, <4>1, <5>1, <5>2, EndedCourse DEF ReadOK
      <4>3. <<st.status, st.reason>> = StandingOf(new)
        BY <1>9, <4>1, <4>2 DEF Follows
      <4>4. now.status = st.status /\ now.reason = st.reason
        BY <1>1, <1>5, <4>1 DEF LockOK
      <4>5. <<now.status, now.reason>> = StandingOf(assignment[a])
        BY <1>5, <3>3 DEF StepsOK, Stands
      <4> QED BY <1>4, <3>3, <4>3, <4>4, <4>5
    <3> QED BY <3>2, <3>3
  <2>3. /\ StepsSound
        /\ \A s \in Steps : Ended(assignment, step, s) => Ended(assignment', step', s)
    BY <1>3, <1>4, <2>1, <2>2, StepsUnchanged
  <2>4. ASSUME NEW q \in People, q # p, txn[q] # None
        PROVE  CalmFor(q)
    <3>1. \A b \in Slots : Locks(q, b) => b # a
      BY <1>1, <1>5, <2>4 DEF OneHolder
    <3> QED BY <1>4, <2>1, <2>3, <3>1 DEF CalmFor, RowsSound
  <2> QED BY <1>4, <2>3, <2>4 DEF Others
<1>10. CASE Follows(st, a, new)
  <2>1. /\ step' = [step EXCEPT ![CourseStep] = Standing(now, new)]
        /\ run' = Refreshed([read[p].step EXCEPT ![CourseStep] = Standing(st, new)])
    BY <1>3, <1>4, <1>10 DEF Sync
  <2>2. now.link = a /\ st.link = a
    BY <1>6, <1>10 DEF Follows
  <2>3. /\ step' \in [Steps -> Step] /\ step'[CourseStep] = Standing(now, new)
        /\ \A s \in Steps : s # CourseStep => step'[s] = step[s]
    BY <1>5, <2>1, StandingStep DEF TypeOK
  <2>4. /\ step'[CourseStep].link = a /\ step'[CourseStep].reason # "flagged"
        /\ <<step'[CourseStep].status, step'[CourseStep].reason>> = StandingOf(new)
        /\ step'[CourseStep].status \in {"pending", "blocked", "completed"}
    BY <1>5, <2>2, <2>3, StandingStep, StandingIs
  <2>5. Stands(assignment', step'[CourseStep])
    BY <1>2, <1>4, <2>4, SlotsAreOrdered, <1>1 DEF Stands, Continues
  <2>6. \A s \in Steps : Ended(assignment, step, s) => s # CourseStep /\ Ended(assignment', step', s)
    BY <1>8, <2>2, <2>3 DEF Ended
  <2> DEFINE written == [read[p].step EXCEPT ![CourseStep] = Standing(st, new)]
  <2>7. /\ written \in [Steps -> Step] /\ written[CourseStep].status = step'[CourseStep].status
        /\ \A s \in Steps : s # CourseStep => written[s] = read[p].step[s]
    BY <1>5, <2>3, StandingStep
  <2> HIDE DEF written
  <2>8. /\ run' \in {"open", "completed"}
        /\ run' = "completed" => \A s \in GatingSteps : Ended(assignment', step', s)
        /\ Serial' /\ GatingDone(step') => run' = "completed"
    <3>1. run' = Refreshed(written)
      BY <2>1 DEF written
    <3>2. UNCHANGED isolation /\ CourseStep \in Steps
      BY <1>3
    <3>3. \A s \in Steps : s # CourseStep => written[s] = read[p].step[s] /\ step'[s] = step[s]
      BY <2>3, <2>7
    <3>4. \A s \in Steps : s # CourseStep /\ Ended(assignment, step, s) => Ended(assignment', step', s)
      BY <2>6
    <3> HIDE DEF a, st, now
    <3> QED BY <1>1, <2>3, <2>7, <3>1, <3>2, <3>3, <3>4, RunIsRefreshed
  <2>9. StepsOK'
    BY <1>5, <2>3, <2>5, <2>8 DEF StepsOK, GatingDone, Serial
  <2>10. StepsStay
    BY <2>3, <2>6 DEF StepsStay, Ended
  <2>11. StepsSound
    BY <2>3, <2>8, <2>9, <2>10 DEF StepsSound, RunStatuses
  <2>12. ASSUME NEW q \in People, q # p, txn[q] # None
         PROVE  CalmFor(q)
    <3>1. \A b \in Slots : Locks(q, b) => b # a
      BY <1>1, <1>5, <2>12 DEF OneHolder
    <3> QED BY <1>4, <2>2, <2>4, <2>6, <2>8, <3>1 DEF CalmFor, RowsSound
  <2> QED BY <1>4, <2>11, <2>12 DEF Others
<1> QED BY <1>9, <1>10

\* The first assignment of a course, or one more, has not come far.
LEMMA NewStanding ==
  ASSUME NEW version \in 0..LastVersion
  PROVE  LET row == [NoAssignment EXCEPT !.status = "assigned", !.version = version] IN
         /\ row.status = "assigned" /\ StandingOf(row) = <<"pending", None>>
<1> DEFINE row == [NoAssignment EXCEPT !.status = "assigned", !.version = version]
<1>1. row.status = "assigned" /\ row.used = 0
  BY DEF NoAssignment
<1> HIDE DEF row
<1>2. ~OutOfAttempts(row)
  BY <1>1 DEF OutOfAttempts
<1>3. StandingOf(row) = <<"pending", None>>
  BY <1>1, <1>2 DEF StandingOf
<1> QED BY <1>1, <1>3 DEF row

LEMMA AssignStep ==
  ASSUME Inv, NEW p \in People, Assign(p)
  PROVE  RowsSound /\ StepsSound /\ Others(p)
<1> DEFINE n == NewSlot(assignment)  st == read[p].step[CourseStep]  now == step[CourseStep]
           version == CourseSeen(p).published
           new == [NoAssignment EXCEPT !.status = "assigned", !.version = version]
           Linked(steps) == [steps EXCEPT ![CourseStep].link = n]
<1>1. /\ txn[p] # None /\ Insertable(Seen(p)) /\ Insertable(assignment)
      /\ NewSlot(Seen(p)) = n /\ assignment' = Inserted(assignment, version)
      /\ UNCHANGED <<isolation, course, changes>>
  BY DEF Assign, AssignCourse, Unlocked, End, TrainingEnd
<1>2. /\ TypeOK /\ StepsOK /\ ReadOK(p) /\ now \in Step /\ st \in Step
      /\ read[p].step \in [Steps -> Step] /\ version \in 0..LastVersion
      /\ Seen(p) \in [Slots -> Assignment]
  <2>1. txn[p] \in Txn /\ read[p] \in Snapshot /\ ReadOK(p) /\ TypeOK
    BY <1>1 DEF Inv, Types
  <2> QED BY <2>1 DEF Inv, Snapshot, TypeOK, Txn, Course, CourseSeen, Seen
<1>3. ~Fills(Seen(p), assignment)
  BY <1>1, NothingFilled
<1> HIDE DEF version
<1>4. /\ RowsSound /\ NoOpen(assignment) /\ Fills(assignment, assignment')
      /\ n \in Slots /\ assignment[n].status = "none" /\ assignment'[n] = new
      /\ \A b \in Slots : b # n => assignment'[b] = assignment[b]
  BY <1>1, <1>2, RowsInserted
<1>5. new.status = "assigned" /\ StandingOf(new) = <<"pending", None>> /\ new \in Assignment
  <2>1. assignment'[n] \in Assignment
    BY <1>4 DEF RowsSound
  <2> QED BY <1>2, <1>4, <2>1, NewStanding
<1> HIDE DEF n, new
<1>6. now.link # n
  BY <1>2, <1>4, SlotsAreOrdered DEF StepsOK, Stands
\* Whoever has locked a row has not locked the new one.
<1>7. ASSUME NEW q \in People, txn[q] # None, NEW b \in Slots, Locks(q, b)
      PROVE  b # n
  <2>1. ReadOK(q) /\ txn[q].lock = b
    BY <1>7 DEF Inv, Locks
  <2> QED BY <1>4, <2>1 DEF ReadOK, LockOK
<1>8. CASE ~Relinks(st)
  <2>1. UNCHANGED <<step, run>>
    BY <1>8 DEF Assign
  <2>2. now.link # None => StandingOf(assignment'[now.link]) = StandingOf(assignment[now.link])
    BY <1>2, <1>4, <1>6 DEF Step
  <2>3. /\ StepsSound
        /\ \A s \in Steps : Ended(assignment, step, s) => Ended(assignment', step', s)
    BY <1>1, <1>4, <2>1, <2>2, StepsUnchanged
  <2>4. ASSUME NEW q \in People, q # p, txn[q] # None
        PROVE  CalmFor(q)
    BY <1>4, <1>7, <2>1, <2>3, <2>4 DEF CalmFor, RowsSound
  <2> QED BY <1>4, <2>3, <2>4 DEF Others
<1>9. CASE Relinks(st)
  <2>1. Sync(Linked(read[p].step), Linked(step), run, n, new)
    BY <1>4, <1>9 DEF Assign, n
  <2>2. /\ st.status \notin {"none", "completed"}
        /\ st.link = None \/ assignment[st.link].status = "cancelled"
        /\ now.link = st.link
    BY <1>2, <1>3, <1>9 DEF Relinks, ReadOK
  <2>3. st.status = "blocked"
    <3>1. CASE st.link = None
      BY <1>2, <2>2, <3>1 DEF ReadOK, Stands
    <3>2. CASE st.link # None
      <4> DEFINE old == Seen(p)[st.link]
      <4>1. st.link \in Slots /\ assignment[st.link].status = "cancelled" /\ old \in Assignment
        BY <1>2, <2>2, <3>2 DEF Step
      <4>2. old.status # "none" /\ ~IsOpen(old)
        BY <1>1, <1>2, <3>2, <4>1 DEF ReadOK, Stands, Insertable, NoOpen
      <4>3. old.status = "cancelled"
        BY <1>2, <4>1, <4>2 DEF ReadOK, Later, IsOpen, Assignment
      <4>4. st.reason # "flagged" => <<st.status, st.reason>> = StandingOf(old)
        BY <1>2, <3>2 DEF ReadOK, Stands
      <4>5. StandingOf(old) = <<"blocked", "withdrawn">>
        BY <4>1, <4>3, StandingIs
      <4>6. st.reason = "flagged" => st.status = "blocked"
        BY <1>2 DEF ReadOK, Stands
      <4> HIDE DEF old
      <4> QED BY <4>4, <4>5, <4>6
    <3> QED BY <3>1, <3>2
  <2> DEFINE before == [st EXCEPT !.link = n]  after == [now EXCEPT !.link = n]
             written == [Linked(read[p].step) EXCEPT ![CourseStep] = Standing(before, new)]
  <2>4. /\ before \in Step /\ before.link = n /\ before.status = "blocked"
        /\ after \in Step /\ after.link = n
        /\ Linked(read[p].step) \in [Steps -> Step] /\ Linked(step) \in [Steps -> Step]
        /\ Linked(read[p].step)[CourseStep] = before /\ Linked(step)[CourseStep] = after
        /\ \A s \in Steps : s # CourseStep => /\ Linked(read[p].step)[s] = read[p].step[s]
                                             /\ Linked(step)[s] = step[s]
    BY <1>2, <1>4, <2>3 DEF Step, TypeOK
  <2> HIDE DEF before, after, Linked
  <2>5. Follows(before, n, new)
    BY <1>5, <2>4 DEF Follows
  <2>6. /\ step' = [Linked(step) EXCEPT ![CourseStep] = Standing(after, new)]
        /\ run' = Refreshed(written)
    BY <2>1, <2>4, <2>5 DEF Sync
  <2>7. /\ step' \in [Steps -> Step] /\ step'[CourseStep] = Standing(after, new)
        /\ \A s \in Steps : s # CourseStep => step'[s] = step[s]
        /\ written \in [Steps -> Step] /\ written[CourseStep] = Standing(before, new)
        /\ \A s \in Steps : s # CourseStep => written[s] = read[p].step[s]
    BY <1>5, <2>4, <2>6, StandingStep
  <2> HIDE DEF written
  <2>8. /\ step'[CourseStep].link = n /\ step'[CourseStep].status = "pending"
        /\ step'[CourseStep].reason = None /\ written[CourseStep].status = "pending"
    BY <1>5, <2>4, <2>7, StandingStep
  <2>9. Stands(assignment', step'[CourseStep])
    BY <1>4, <1>5, <2>8, SlotsAreOrdered, ReasonsAssumption DEF Stands
  <2>10. ~Ended(assignment, step, CourseStep)
    <3> SUFFICES ASSUME Ended(assignment, step, CourseStep) PROVE FALSE
      OBVIOUS
    <3>1. now.link \in Slots /\ assignment[now.link].status = "completed"
      BY <1>2, EndedCourse DEF StepsOK, TypeOK
    <3> QED BY <2>2, <3>1, SlotsAreOrdered
  <2>11. \A s \in Steps : Ended(assignment, step, s) => s # CourseStep /\ Ended(assignment', step', s)
    BY <2>7, <2>10 DEF Ended
  <2>12. /\ run' \in {"open", "completed"}
         /\ run' = "completed" => \A s \in GatingSteps : Ended(assignment', step', s)
         /\ Serial' /\ GatingDone(step') => run' = "completed"
    <3>1. UNCHANGED isolation /\ CourseStep \in Steps
      BY <1>1
    <3>2. \A s \in Steps : s # CourseStep => written[s] = read[p].step[s] /\ step'[s] = step[s]
      BY <2>7
    <3>3. \A s \in Steps : s # CourseStep /\ Ended(assignment, step, s) => Ended(assignment', step', s)
      BY <2>11
    <3>4. written[CourseStep].status = step'[CourseStep].status
      BY <2>8
    <3>5. run' = Refreshed(written)
      BY <2>6
    <3>6. txn[p] # None
      BY <1>1
    <3>7. step' \in [Steps -> Step] /\ written \in [Steps -> Step]
      BY <2>7
    <3> HIDE DEF st, now
    <3> QED BY <3>1, <3>2, <3>3, <3>4, <3>5, <3>6, <3>7, RunIsRefreshed
  <2>13. StepsOK'
    BY <1>2, <2>7, <2>9, <2>12 DEF StepsOK, GatingDone, Serial
  <2>14. StepsStay
    BY <2>7, <2>11 DEF StepsStay, Ended
  <2>15. StepsSound
    BY <2>7, <2>12, <2>13, <2>14 DEF StepsSound, RunStatuses
  <2>16. ASSUME NEW q \in People, q # p, txn[q] # None
         PROVE  CalmFor(q)
    BY <1>4, <1>7, <2>8, <2>11, <2>12, <2>16 DEF CalmFor, RowsSound
  <2> QED BY <1>4, <2>15, <2>16 DEF Others
<1> QED BY <1>8, <1>9

-----------------------------------------------------------------------------
(* The handlers of onboarding *)

LEMMA CompleteStepStep ==
  ASSUME Inv, NEW p \in People, NEW c \in Steps, CompleteStep(p, c)
  PROVE  RowsSound /\ StepsSound /\ Others(p)
<1> DEFINE Completed(st) == [st EXCEPT !.status = "completed",
                                       !.verifiedBy = IF c \in VerifiedSteps THEN p ELSE @]
           written == [read[p].step EXCEPT ![c] = Completed(@)]
<1>1. /\ txn[p] # None /\ c # CourseStep /\ MayComplete(p, c) /\ read[p].step[c].status = "pending"
      /\ step' = [step EXCEPT ![c] = Completed(@)] /\ run' = Refreshed(written)
      /\ UNCHANGED <<assignment, isolation, course, changes>>
  BY DEF CompleteStep, Unlocked, End, TrainingEnd
<1>2. /\ TypeOK /\ StepsOK /\ ReadOK(p) /\ read[p].step \in [Steps -> Step] /\ step \in [Steps -> Step]
  <2>1. read[p] \in Snapshot /\ ReadOK(p) /\ TypeOK
    BY <1>1 DEF Inv, Types
  <2> QED BY <2>1 DEF Inv, Snapshot, TypeOK
<1>3. c \in VerifiedSteps => p \in Managers \ {Learner}
  BY <1>1 DEF MayComplete
<1>4. ASSUME NEW st \in Step
      PROVE  /\ Completed(st) \in Step /\ Completed(st).status = "completed"
             /\ Completed(st).link = st.link /\ Completed(st).reason = st.reason
             /\ c \in VerifiedSteps => Completed(st).verifiedBy = p
  BY <1>3 DEF Step
<1> HIDE DEF Completed
<1>5. /\ step' \in [Steps -> Step] /\ step'[c] = Completed(step[c])
      /\ \A s \in Steps : s # c => step'[s] = step[s]
      /\ written \in [Steps -> Step] /\ written[c] = Completed(read[p].step[c])
      /\ \A s \in Steps : s # c => written[s] = read[p].step[s]
  BY <1>1, <1>2, <1>4
<1> HIDE DEF written
<1>6. /\ step'[c].status = "completed" /\ written[c].status = "completed"
      /\ step'[c].link = step[c].link
      /\ c \in VerifiedSteps => step'[c].verifiedBy = p
  BY <1>2, <1>4, <1>5
<1>7. RowsSound /\ ~Fills(assignment, assignment')
  BY <1>1, RowsUnchanged
<1>8. step'[CourseStep] = step[CourseStep]
  BY <1>1, <1>5
<1>9. \A s \in Steps : Ended(assignment, step, s) => Ended(assignment', step', s)
  BY <1>1, <1>5, <1>6, <1>8 DEF Ended
<1>10. /\ run' \in {"open", "completed"}
       /\ run' = "completed" => \A s \in GatingSteps : Ended(assignment', step', s)
       /\ Serial' /\ GatingDone(step') => run' = "completed"
  <2>1. UNCHANGED isolation /\ txn[p] # None
    BY <1>1
  <2>2. run' = Refreshed(written)
    BY <1>1 DEF written
  <2>3. step' \in [Steps -> Step] /\ written \in [Steps -> Step]
    BY <1>5
  <2>4. \A s \in Steps : s # c => written[s] = read[p].step[s] /\ step'[s] = step[s]
    BY <1>5
  <2>5. \A s \in Steps : s # c /\ Ended(assignment, step, s) => Ended(assignment', step', s)
    BY <1>9
  <2>6. written[c].status = step'[c].status
    BY <1>6
  <2> QED BY <2>1, <2>2, <2>3, <2>4, <2>5, <2>6, RunIsRefreshed
<1>11. StepsOK'
  BY <1>1, <1>2, <1>3, <1>5, <1>6, <1>8, <1>10 DEF StepsOK, GatingDone, Serial
<1>12. StepsStay
  BY <1>5, <1>6 DEF StepsStay
<1>13. StepsSound
  BY <1>5, <1>10, <1>11, <1>12 DEF StepsSound, RunStatuses
<1>14. ASSUME NEW q \in People, q # p, txn[q] # None
       PROVE  CalmFor(q)
  BY <1>1, <1>7, <1>8, <1>9, <1>10 DEF CalmFor, RowsSound
<1> QED BY <1>7, <1>13, <1>14 DEF Others

LEMMA BlockStepStep ==
  ASSUME Inv, NEW p \in People, NEW c \in Steps, BlockStep(p, c)
  PROVE  RowsSound /\ StepsSound /\ Others(p)
<1>1. /\ txn[p] # None /\ read[p].run # "none"
      /\ step' = [step EXCEPT ![c].status = "blocked", ![c].reason = "flagged"]
      /\ UNCHANGED <<assignment, run, isolation, course, changes>>
  BY DEF BlockStep, Unlocked, End, TrainingEnd
<1>2. TypeOK /\ StepsOK /\ run # "none" /\ step \in [Steps -> Step]
  BY <1>1 DEF Inv, Types, ReadOK, TypeOK
<1>3. /\ step' \in [Steps -> Step] /\ step'[c].status = "blocked" /\ step'[c].reason = "flagged"
      /\ step'[c].link = step[c].link
      /\ \A s \in Steps : s # c => step'[s] = step[s]
  BY ZenonT(60), <1>1, <1>2 DEF Step
<1>4. RowsSound /\ ~Fills(assignment, assignment')
  BY <1>1, RowsUnchanged
<1>5. Stands(assignment', step'[CourseStep])
  BY <1>1, <1>2, <1>3 DEF StepsOK, Stands
<1>6. ASSUME NEW s \in Steps, Ended(assignment, step, s)
      PROVE  Ended(assignment', step', s)
  <2>1. CASE s # c
    BY <1>1, <1>3, <1>6, <2>1 DEF Ended
  <2>2. CASE s = c /\ c # CourseStep
    BY <1>3, <2>2 DEF Ended
  <2>3. CASE s = c /\ c = CourseStep
    <3>1. step[s].link \in Slots /\ assignment[step[s].link].status = "completed"
      BY <1>2, <1>6, <2>3, EndedCourse DEF StepsOK, TypeOK
    <3> QED BY <1>1, <1>3, <2>3, <3>1, SlotsAreOrdered DEF Ended
  <2> QED BY <2>1, <2>2, <2>3
<1>7. GatingDone(step') => GatingDone(step)
  BY <1>3 DEF GatingDone
<1>8. StepsOK'
  BY <1>1, <1>2, <1>3, <1>5, <1>6, <1>7 DEF StepsOK, Serial
<1>9. StepsSound
  BY <1>1, <1>2, <1>3, <1>8 DEF StepsSound, StepsStay, TypeOK
<1>10. ASSUME NEW q \in People, q # p, txn[q] # None
       PROVE  CalmFor(q)
  BY <1>1, <1>3, <1>4, <1>6 DEF CalmFor, RowsSound
<1> QED BY <1>4, <1>9, <1>10 DEF Others

\* A run that starts: its steps are pending, and the course step is blocked or stands as row does.
Starts(rows, steps, st) ==
  /\ steps \in [Steps -> Step] /\ steps[CourseStep] = st /\ Stands(rows, st) /\ st.status # "none"
  /\ \A s \in Steps : s # CourseStep => steps[s] = [NoStep EXCEPT !.status = "pending"]

LEMMA FreshStep ==
  LET st == [NoStep EXCEPT !.status = "pending"] IN
  /\ st \in Step /\ st.status = "pending" /\ st.reason = None /\ st.link = None
  /\ st.verifiedBy = None /\ FreshSteps \in [Steps -> Step]
  /\ \A s \in Steps : FreshSteps[s] = st
BY DEF NoStep, Step, FreshSteps

LEMMA StartLinkedStep ==
  ASSUME Inv, NEW p \in People, NEW a \in Slots, assignment' \in [Slots -> Assignment],
         assignment'[a].status # "none", StartLinked(p, a)
  PROVE  /\ Starts(assignment', step', step'[CourseStep]) /\ step'[CourseStep].link = a
         /\ run' \in {"open", "completed"} /\ (run' = "completed" <=> GatingDone(step'))
<1> DEFINE row == assignment'[a]
           linked == [FreshSteps EXCEPT ![CourseStep].link = a]
           st == linked[CourseStep]
<1>1. Sync(linked, linked, "open", a, row)
  BY DEF StartLinked
<1>2. /\ st \in Step /\ st.status = "pending" /\ st.reason = None /\ st.link = a
      /\ linked \in [Steps -> Step]
      /\ \A s \in Steps : s # CourseStep => linked[s] = [NoStep EXCEPT !.status = "pending"]
  BY FreshStep DEF Step
<1>3. row \in Assignment /\ row.status # "none"
  OBVIOUS
<1> HIDE DEF linked, row
<1>4. CASE Follows(st, a, row)
  <2> DEFINE new == Standing(st, row)
  <2>1. step' = [linked EXCEPT ![CourseStep] = new] /\ run' = Refreshed([linked EXCEPT ![CourseStep] = new])
    BY <1>1, <1>4 DEF Sync
  <2>2. /\ new \in Step /\ new.link = a /\ <<new.status, new.reason>> = StandingOf(row)
        /\ new.status \in {"pending", "blocked", "completed"} /\ new.reason # "flagged"
    BY <1>2, <1>3, StandingStep, StandingIs
  <2> HIDE DEF new
  <2>3. /\ step' \in [Steps -> Step] /\ step'[CourseStep] = new
        /\ \A s \in Steps : s # CourseStep => step'[s] = [NoStep EXCEPT !.status = "pending"]
    BY <1>2, <2>1, <2>2
  <2>4. Stands(assignment', new)
    BY <1>3, <2>2, SlotsAreOrdered DEF Stands, row
  <2>5. run' = Refreshed(step')
    BY <2>1
  <2> QED BY <2>2, <2>3, <2>4, <2>5, RefreshedIs DEF Starts
<1>5. CASE ~Follows(st, a, row)
  <2>1. step' = linked /\ run' = "open"
    BY <1>1, <1>5 DEF Sync
  <2>2. <<st.status, st.reason>> = StandingOf(row)
    BY <1>2, <1>5 DEF Follows
  <2>3. Stands(assignment', st)
    BY <1>2, <1>3, <2>2, SlotsAreOrdered, ReasonsAssumption DEF Stands, row
  <2>4. ~GatingDone(step')
    <3>1. \A s \in Steps : linked[s].status = "pending"
      BY <1>2, FreshStep
    <3> QED BY <2>1, <3>1 DEF GatingDone
  <2> QED BY <1>2, <2>1, <2>3, <2>4 DEF Starts
<1> QED BY <1>4, <1>5

LEMMA StartedIsSound ==
  ASSUME Inv, NEW p \in People, RowsSound, run = "none", UNCHANGED isolation,
         Starts(assignment', step', step'[CourseStep]),
         run' \in {"open", "completed"}, run' = "completed" <=> GatingDone(step'),
         \A q \in People, b \in Slots :
           q # p /\ Locks(q, b) => assignment'[b] = assignment[b] /\ step'[CourseStep].link # b
  PROVE  StepsSound /\ Others(p)
<1>1. TypeOK /\ StepsOK /\ \A s \in Steps : step[s] = NoStep
  BY DEF Inv, Types, StepsOK
<1>2. \A s \in Steps : ~Ended(assignment, step, s)
  BY <1>1, ReasonsAssumption DEF Ended, NoStep
<1>3. run' = "completed" => \A s \in GatingSteps : Ended(assignment', step', s)
  BY DEF GatingDone, Ended
<1>4. ASSUME NEW s \in VerifiedSteps \ {CourseStep}
      PROVE  step'[s].status = "pending"
  BY FreshStep DEF Starts
<1>5. StepsOK'
  BY <1>3, <1>4 DEF StepsOK, Starts, GatingDone, Serial
<1>6. StepsStay
  BY <1>2 DEF StepsStay, Ended
<1>7. StepsSound
  BY <1>5, <1>6 DEF StepsSound, Starts, RunStatuses
<1>8. step[CourseStep].link = None
  BY <1>1 DEF NoStep
<1>9. ASSUME NEW q \in People, q # p, txn[q] # None
      PROVE  CalmFor(q)
  BY <1>2, <1>8, <1>9, SlotsAreOrdered DEF CalmFor, RowsSound
<1> QED BY <1>7, <1>9 DEF Others

LEMMA StartStep ==
  ASSUME Inv, NEW p \in People, StartOnboarding(p)
  PROVE  RowsSound /\ StepsSound /\ Others(p)
<1> DEFINE version == CourseSeen(p).published
           n == NewSlot(assignment)
           Linked(a) == UNCHANGED assignment /\ StartLinked(p, a)
<1>1. /\ txn[p] # None /\ run = "none" /\ UNCHANGED <<isolation, course, changes>>
  BY DEF StartOnboarding, Unlocked, End, TrainingEnd
<1>2. TypeOK /\ ReadOK(p) /\ version \in 0..LastVersion /\ Seen(p) \in [Slots -> Assignment]
  <2>1. txn[p] \in Txn /\ ReadOK(p) /\ TypeOK
    BY <1>1 DEF Inv, Types
  <2> QED BY <2>1 DEF TypeOK, Txn, Course, CourseSeen, Seen
<1>3. assignment \in [Slots -> Assignment]
  BY <1>2 DEF TypeOK
\* An assignment that is there already.
<1>4. ASSUME NEW a \in Slots, assignment[a].status # "none", UNCHANGED assignment, StartLinked(p, a)
      PROVE  RowsSound /\ StepsSound /\ Others(p)
  <2>1. RowsSound
    BY <1>1, <1>4, RowsUnchanged
  <2>2. /\ Starts(assignment', step', step'[CourseStep]) /\ step'[CourseStep].link = a
        /\ run' \in {"open", "completed"} /\ (run' = "completed" <=> GatingDone(step'))
    BY <1>3, <1>4, StartLinkedStep
  <2>3. \A q \in People, b \in Slots :
          q # p /\ Locks(q, b) => assignment'[b] = assignment[b] /\ step'[CourseStep].link # b
    BY <1>4, <2>2 DEF StartLinked, CanRefer
  <2> QED BY <1>1, <2>1, <2>2, <2>3, StartedIsSound
\* A new one.
<1>5. ASSUME Insertable(assignment), assignment' = Inserted(assignment, version), StartLinked(p, n)
      PROVE  RowsSound /\ StepsSound /\ Others(p)
  <2> HIDE DEF version
  <2>1. /\ RowsSound /\ n \in Slots
        /\ assignment'[n] = [NoAssignment EXCEPT !.status = "assigned", !.version = version]
        /\ \A b \in Slots : b # n => assignment'[b] = assignment[b]
    BY <1>1, <1>2, <1>5, RowsInserted
  <2>2. assignment'[n].status # "none"
    BY <1>2, <2>1, NewStanding
  <2> HIDE DEF n
  <2>3. /\ Starts(assignment', step', step'[CourseStep]) /\ step'[CourseStep].link = n
        /\ run' \in {"open", "completed"} /\ (run' = "completed" <=> GatingDone(step'))
    BY <1>5, <2>1, <2>2, StartLinkedStep DEF RowsSound
  <2>4. \A q \in People, b \in Slots :
          q # p /\ Locks(q, b) => assignment'[b] = assignment[b] /\ step'[CourseStep].link # b
    BY <1>5, <2>1, <2>3 DEF StartLinked, CanRefer
  <2> QED BY <1>1, <2>1, <2>3, <2>4, StartedIsSound
\* None: the course is not published.
<1>6. ASSUME UNCHANGED assignment, run' = "open",
             step' = [FreshSteps EXCEPT ![CourseStep].status = "blocked",
                                        ![CourseStep].reason = "unlinked"]
      PROVE  RowsSound /\ StepsSound /\ Others(p)
  <2>1. RowsSound
    BY <1>1, <1>6, RowsUnchanged
  <2>2. /\ step' \in [Steps -> Step] /\ step'[CourseStep].status = "blocked"
        /\ step'[CourseStep].reason = "unlinked" /\ step'[CourseStep].link = None
        /\ \A s \in Steps : s # CourseStep => step'[s] = [NoStep EXCEPT !.status = "pending"]
    BY <1>6, FreshStep DEF Step
  <2>3. Starts(assignment', step', step'[CourseStep])
    BY <2>2 DEF Starts, Stands
  <2>4. ~GatingDone(step')
    <3>1. \A s \in Steps : step'[s].status # "completed"
      BY <2>2, FreshStep
    <3> QED BY <3>1 DEF GatingDone
  <2>5. \A q \in People, b \in Slots :
          q # p /\ Locks(q, b) => assignment'[b] = assignment[b] /\ step'[CourseStep].link # b
    BY <1>6, <2>2, SlotsAreOrdered
  <2> QED BY <1>1, <1>6, <2>1, <2>3, <2>4, <2>5, StartedIsSound
<1>7. ASSUME NEW a \in Slots, Linkable(Seen(p), a) \/ IsOpen(assignment[a])
      PROVE  assignment[a].status # "none"
  <2>1. Seen(p)[a].status # "none" \/ assignment[a].status # "none"
    BY <1>7 DEF Linkable, IsOpen, OpenStatuses
  <2> QED BY <1>2, <2>1 DEF ReadOK, Later
<1> QED BY <1>4, <1>5, <1>6, <1>7 DEF StartOnboarding

-----------------------------------------------------------------------------
(* Every step *)

LEMMA MoveStep ==
  ASSUME Inv, NEW p \in People, Move(p)
  PROVE  RowsSound /\ StepsSound /\ \A q \in People : txn[q] # None => CalmFor(q)
<1>1. /\ RowsSound /\ ~Fills(assignment, assignment')
      /\ \A q \in People, a \in Slots : Locks(q, a) => assignment'[a] = assignment[a]
      /\ \A a \in Slots : StandingOf(assignment'[a]) = StandingOf(assignment[a])
  BY RowsMoved DEF Move
<1>2. UNCHANGED <<isolation, step, run>>
  BY DEF Move, MoveNotStartedToCurrent
<1>3. step[CourseStep] \in Step
  BY DEF Inv, Types, TypeOK
<1>4. /\ StepsSound
      /\ \A s \in Steps : Ended(assignment, step, s) => Ended(assignment', step', s)
  BY <1>1, <1>2, <1>3, StepsUnchanged DEF Step
<1>5. ASSUME NEW q \in People, txn[q] # None
      PROVE  CalmFor(q)
  BY <1>1, <1>2, <1>4 DEF CalmFor, RowsSound
<1> QED BY <1>1, <1>4, <1>5

LEMMA NothingHappens ==
  ASSUME Inv, UNCHANGED <<isolation, assignment, step, run>>, course'.lessons = course.lessons
  PROVE  RowsSound /\ StepsSound /\ \A q \in People : CalmFor(q)
<1>1. RowsSound /\ ~Fills(assignment, assignment')
  BY RowsUnchanged
<1>2. /\ StepsSound
      /\ \A s \in Steps : Ended(assignment, step, s) => Ended(assignment', step', s)
  BY <1>1, StepsUnchanged
<1>3. ASSUME NEW q \in People
      PROVE  CalmFor(q)
  BY <1>1, <1>2 DEF CalmFor, RowsSound
<1> QED BY <1>1, <1>2, <1>3

LEMMA AuthorCourse ==
  ASSUME Inv, Author
  PROVE  /\ course' \in Course /\ course'.lessons = course.lessons /\ changes' \in 0..MaxChanges
         /\ UNCHANGED <<isolation, assignment, txn, step, run, read>>
<1>1. course \in Course /\ changes \in 0..MaxChanges
  BY DEF Inv, Types, TypeOK
<1>2. UNCHANGED <<isolation, assignment, txn, step, run, read>>
  BY DEF Author, Authoring, PublishDraft, StartNewDraft, DiscardDraft, ArchiveCourse,
         RestoreCourse, UnchangedByAuthoring
<1>3. ASSUME UNCHANGED changes \/ Change PROVE changes' \in 0..MaxChanges
  BY <1>1, <1>3 DEF Change
<1>4. CASE PublishDraft
  <2>1. course' = [course EXCEPT !.published = course.draft, !.draft = 0] /\ UNCHANGED changes
    BY <1>4 DEF PublishDraft
  <2>2. course.draft \in 0..LastVersion /\ 0 \in 0..LastVersion
    BY <1>1 DEF Course
  <2>3. course' \in Course /\ course'.lessons = course.lessons
    BY <1>1, <2>1, <2>2 DEF Course
  <2> QED BY <1>1, <1>2, <2>1, <2>3
<1>5. CASE StartNewDraft
  BY <1>1, <1>2, <1>3, <1>5 DEF StartNewDraft, Course
<1>6. CASE DiscardDraft
  BY <1>1, <1>2, <1>3, <1>6 DEF DiscardDraft, Course
<1>7. CASE ArchiveCourse
  BY <1>1, <1>2, <1>3, <1>7 DEF ArchiveCourse, Course
<1>8. CASE RestoreCourse
  BY <1>1, <1>2, <1>3, <1>8 DEF RestoreCourse, Course
<1> QED BY <1>4, <1>5, <1>6, <1>7, <1>8 DEF Author, Authoring

\* A transaction that commits, or is rolled back: what it did is sound, and calm for the others.
LEMMA Ends ==
  ASSUME Inv, NEW p \in People, txn[p] # None, txn' = [txn EXCEPT ![p] = None], read' = [read EXCEPT ![p] = None],
         UNCHANGED <<isolation, course, changes>>, RowsSound, StepsSound, Others(p)
  PROVE  Inv'
<1>1. Types
  BY DEF Inv
<1>2. /\ \A q \in People : q # p => txn'[q] = txn[q] /\ read'[q] = read[q]
      /\ txn'[p] = None
  BY <1>1 DEF Types
<1>3. Types'
  <2>1. TypeOK'
    BY <1>1 DEF Types, TypeOK, RowsSound, StepsSound
  <2>2. txn' \in [People -> Txn \union {None}] /\ read' \in [People -> Snapshot \union {None}]
    BY <1>1 DEF Types
  <2>3. \A q \in People : txn'[q] # None => read'[q] \in Snapshot
    BY <1>1, <1>2 DEF Types
  <2> QED BY <2>1, <2>2, <2>3 DEF Types, Txn, Snapshot
<1>4. OneHolder'
  BY <1>2 DEF Inv, OneHolder, Locks
<1>5. OneReader'
  <2>1. ASSUME Serial', NEW q \in People, txn'[q] # None
        PROVE  FALSE
    <3> USE DEF Inv, OneReader, Serial
    <3>1. q # p /\ txn[q] # None
      BY <1>2, <2>1
    <3> QED BY <1>2, <2>1, <3>1
  <2> QED BY <2>1 DEF OneReader
<1>6. ASSUME NEW q \in People, txn'[q] # None
      PROVE  ReadOK(q)'
  <2>1. q # p /\ txn[q] # None /\ txn'[q] = txn[q] /\ read'[q] = read[q]
    BY <1>2, <1>6
  <2>2. CalmFor(q)
    BY <2>1 DEF Others
  <2> QED BY <2>1, <2>2, ReadKept
<1> QED BY <1>3, <1>4, <1>5, <1>6 DEF Inv, RowsSound, StepsSound

LEMMA BeginIs ==
  ASSUME Inv, NEW p \in People, NEW a \in Slots \union {None}, Begin(p, a)
  PROVE  Inv'
<1> DEFINE tx == [lock |-> a, course |-> course, assignment |-> assignment]
           rd == [step |-> step, run |-> run]
<1>1. /\ txn[p] = None /\ txn' = [txn EXCEPT ![p] = tx] /\ read' = [read EXCEPT ![p] = rd]
      /\ Serial => \A q \in People : txn[q] = None
      /\ a \in Slots => Lockable(p, a) /\ assignment[a].status # "none"
      /\ UNCHANGED <<isolation, course, assignment, changes, step, run>>
  BY DEF Begin, TrainingBegin
<1>2. Types
  BY DEF Inv
<1>3. tx \in Txn /\ rd \in Snapshot
  BY <1>2 DEF Types, TypeOK, Txn, Snapshot
<1>4. tx.lock = a /\ tx.assignment = assignment /\ rd.step = step /\ rd.run = run
  OBVIOUS
<1> HIDE DEF tx, rd
<1>5. /\ txn'[p] = tx /\ read'[p] = rd
      /\ \A q \in People : q # p => txn'[q] = txn[q] /\ read'[q] = read[q]
  BY <1>1, <1>2 DEF Types
<1>6. Types'
  <2>1. TypeOK'
    BY <1>1, <1>2 DEF Types, TypeOK
  <2>2. txn' \in [People -> Txn \union {None}] /\ read' \in [People -> Snapshot \union {None}]
    BY <1>1, <1>2, <1>3 DEF Types
  <2>3. \A q \in People : txn'[q] # None => read'[q] \in Snapshot
    BY <1>2, <1>3, <1>5 DEF Types
  <2> QED BY <2>1, <2>2, <2>3 DEF Types, Txn, Snapshot
<1>7. RowsSound /\ StepsSound /\ \A q \in People : CalmFor(q)
  BY <1>1, NothingHappens
<1>8. OneHolder'
  BY <1>1, <1>4, <1>5, SlotsAreOrdered DEF Inv, OneHolder, Locks, Lockable
<1>9. OneReader'
  <2>1. ASSUME Serial', NEW q \in People, txn'[q] # None
        PROVE  q = p
    BY <1>1, <1>5, <2>1 DEF Serial
  <2> QED BY <1>1, <1>4, <1>5, <2>1 DEF OneReader
<1>10. ReadOK(p)'
  <2>1. Seen(p)' = assignment /\ read'[p].step = step /\ read'[p].run = run /\ txn'[p].lock = a
    BY <1>4, <1>5 DEF Seen
  <2>2. StepsOK /\ RowsOK
    BY DEF Inv
  <2>3. \A s \in Steps : step[s].status # "none" => run # "none"
    BY <2>2 DEF StepsOK, NoStep
  <2>4. Later(assignment, assignment) /\ ~Fills(assignment, assignment)
    BY DEF Later, Fills
  <2>5. a \in Slots => LockOK(p, a)'
    BY <1>1, <2>1, <2>4 DEF LockOK
  <2>6. Stands(assignment, step[CourseStep])
    BY <2>2 DEF StepsOK
  <2> QED BY <1>1, <2>1, <2>3, <2>4, <2>5, <2>6 DEF ReadOK
<1>11. ASSUME NEW q \in People, q # p, txn'[q] # None
       PROVE  ReadOK(q)'
  BY <1>5, <1>7, <1>11, ReadKept
<1> QED BY <1>6, <1>7, <1>8, <1>9, <1>10, <1>11 DEF Inv, RowsSound, StepsSound

\* Move and Author: no transaction of the model ends with them.
LEMMA Passes ==
  ASSUME Inv, UNCHANGED <<isolation, txn, read, step, run>>, TypeOK', RowsSound, StepsSound,
         \A q \in People : txn[q] # None => CalmFor(q)
  PROVE  Inv'
<1>1. Types'
  BY DEF Inv, Types, Txn, Snapshot, Course
<1>2. OneHolder' /\ OneReader'
  BY DEF Inv, OneHolder, OneReader, Locks, Serial
<1>3. ASSUME NEW q \in People, txn'[q] # None
      PROVE  ReadOK(q)'
  BY <1>3, ReadKept
<1> QED BY <1>1, <1>2, <1>3 DEF Inv, RowsSound, StepsSound

-----------------------------------------------------------------------------
(* Theorems *)

LEMMA InitIsSound == Init => Inv
<1> SUFFICES ASSUME Init PROVE Inv
  OBVIOUS
<1>1. /\ isolation \in Isolations /\ assignment = [a \in Slots |-> NoAssignment]
      /\ course \in [status : {"active"}, published : {0}, draft : {1}, lessons : LessonSets]
      /\ txn = [p \in People |-> None] /\ read = [p \in People |-> None] /\ changes = 0
      /\ step = [s \in Steps |-> NoStep] /\ run = "none"
  BY DEF Init, TrainingInit
<1>2. /\ NoAssignment \in Assignment /\ NoAssignment.status = "none"
      /\ NoAssignment.lesson["practical"] = "not_started"
  <2>1. [k \in Kinds |-> "not_started"] \in [Kinds -> LessonStatuses]
    BY DEF LessonStatuses
  <2>2. 0 \in 0..MaxAttempts + MaxExtra /\ 0 \in 0..MaxExtra /\ 0 \in 0..LastVersion
    OBVIOUS
  <2> QED BY <2>1, <2>2 DEF NoAssignment, Assignment, Kinds
<1>3. NoStep \in Step /\ NoStep.status = "none" /\ NoStep.link = None /\ NoStep.reason = None
  BY DEF NoStep, Step
<1>4. course \in Course
  BY <1>1 DEF Course
<1>5. Types
  BY <1>1, <1>2, <1>3, <1>4 DEF Types, TypeOK, RunStatuses
<1>6. RowsOK
  BY <1>1, <1>2 DEF RowsOK, Earned, IsOpen, OpenStatuses
<1>7. StepsOK
  BY <1>1, <1>3, ReasonsAssumption DEF StepsOK, Stands, GatingDone
<1>8. OneHolder /\ OneReader
  BY <1>1 DEF OneHolder, OneReader, Locks
<1> QED BY <1>1, <1>5, <1>6, <1>7, <1>8 DEF Inv

LEMMA StepIsSound == Inv /\ [Next]_vars => Inv' /\ RowsStay /\ StepsStay
<1> SUFFICES ASSUME Inv, [Next]_vars PROVE Inv' /\ RowsStay /\ StepsStay
  OBVIOUS
<1>1. CASE UNCHANGED vars
  <2>1. RowsSound /\ StepsSound /\ \A q \in People : CalmFor(q)
    BY <1>1, NothingHappens DEF vars
  <2>2. TypeOK'
    BY <1>1 DEF Inv, Types, TypeOK, vars
  <2>3. Inv'
    BY <1>1, <2>1, <2>2, Passes DEF vars
  <2> QED BY <2>1, <2>3 DEF RowsSound, StepsSound
<1>2. CASE Author
  <2>1. RowsSound /\ StepsSound /\ \A q \in People : CalmFor(q)
    BY <1>2, AuthorCourse, NothingHappens
  <2>2. TypeOK'
    BY <1>2, AuthorCourse DEF Inv, Types, TypeOK
  <2>3. Inv'
    BY <1>2, <2>1, <2>2, AuthorCourse, Passes
  <2> QED BY <2>1, <2>3 DEF RowsSound, StepsSound
<1>3. ASSUME NEW p \in People, txn[p] # None, End(p), RowsSound, StepsSound, Others(p)
      PROVE  Inv' /\ RowsStay /\ StepsStay
  <2>1. Inv'
    BY <1>3, Ends DEF End, TrainingEnd
  <2> QED BY <1>3, <2>1 DEF RowsSound, StepsSound
<1>4. ASSUME NEW p \in People, NEW a \in Slots \union {None}, Begin(p, a)
      PROVE  Inv' /\ RowsStay /\ StepsStay
  <2>1. UNCHANGED <<isolation, assignment, step, run, course>>
    BY <1>4 DEF Begin, TrainingBegin
  <2>2. RowsSound /\ StepsSound
    BY <2>1, NothingHappens
  <2> QED BY <1>4, <2>2, BeginIs DEF RowsSound, StepsSound
<1>5. ASSUME NEW p \in People, Train(p)
      PROVE  Inv' /\ RowsStay /\ StepsStay
  BY <1>3, <1>5, TrainRow, TrainStep DEF Train
<1>6. ASSUME NEW p \in People, Assign(p)
      PROVE  Inv' /\ RowsStay /\ StepsStay
  BY <1>3, <1>6, AssignStep DEF Assign, AssignCourse, Unlocked
<1>7. ASSUME NEW p \in People, Move(p)
      PROVE  Inv' /\ RowsStay /\ StepsStay
  <2>1. RowsSound /\ StepsSound /\ \A q \in People : txn[q] # None => CalmFor(q)
    BY <1>7, MoveStep
  <2>2. UNCHANGED <<isolation, course, txn, changes, step, run, read>>
    BY <1>7 DEF Move, MoveNotStartedToCurrent
  <2>3. TypeOK'
    BY <2>1, <2>2 DEF Inv, Types, TypeOK, RowsSound
  <2> QED BY <2>1, <2>2, <2>3, Passes DEF RowsSound, StepsSound
<1>8. ASSUME NEW p \in People, StartOnboarding(p)
      PROVE  Inv' /\ RowsStay /\ StepsStay
  BY <1>3, <1>8, StartStep DEF StartOnboarding, Unlocked
<1>9. ASSUME NEW p \in People, NEW s \in Steps, CompleteStep(p, s)
      PROVE  Inv' /\ RowsStay /\ StepsStay
  BY <1>3, <1>9, CompleteStepStep DEF CompleteStep, Unlocked
<1>10. ASSUME NEW p \in People, NEW s \in Steps, BlockStep(p, s)
       PROVE  Inv' /\ RowsStay /\ StepsStay
  BY <1>3, <1>10, BlockStepStep DEF BlockStep, Unlocked
<1>11. ASSUME NEW p \in People, Rollback(p)
       PROVE  Inv' /\ RowsStay /\ StepsStay
  <2>1. txn[p] # None /\ End(p) /\ UNCHANGED <<isolation, assignment, step, run, course>>
    BY <1>11 DEF Rollback, TrainingRollback, TrainingEnd, End
  <2>2. RowsSound /\ StepsSound /\ Others(p)
    BY <2>1, NothingHappens DEF Others
  <2> QED BY <1>3, <2>1, <2>2
<1> QED BY <1>1, <1>2, <1>4, <1>5, <1>6, <1>7, <1>8, <1>9, <1>10, <1>11 DEF Next

LEMMA AlwaysSound == Spec => []Inv
<1>1. Inv /\ [Next]_vars => Inv'
  BY StepIsSound
<1> QED BY <1>1, InitIsSound, PTL DEF Spec

\* Every variable keeps its type: no handler writes a status, a version or a count of attempts
\* outside those the tables allow.
THEOREM TypeCorrect == Spec => []TypeOK
<1>1. Inv => TypeOK
  BY DEF Inv, Types
<1> QED BY <1>1, AlwaysSound, PTL

\* The course step of a run stands as its course does, at either isolation: what a handler of
\* training writes, it writes under the lock of the assignment the step is linked to
\* (syncOnboardingForTraining, linkTrainingOnStart, relinkOnboardingSteps).
THEOREM CourseIsFollowed == Spec => []StepFollowsCourse
<1>1. Inv => StepFollowsCourse
  BY DEF Inv, StepsOK, Stands, StepFollowsCourse
<1> QED BY <1>1, AlwaysSound, PTL

\* A run is completed only when nothing gating is left but what somebody flagged, and, one
\* transaction at a time, as soon as nothing is (refreshOnboardingCompletion).
THEOREM RunIsFollowed == Spec => []RunFollowsSteps
<1>1. Inv => RunFollowsSteps
  BY DEF Inv, StepsOK, Ended, RunFollowsSteps
<1> QED BY <1>1, AlwaysSound, PTL

\* Nothing is completed that was not earned: not a course without its lessons, a practical without
\* the word of another manager, a course step without its course (settleAssignment, decideSignoff,
\* completeStep).
THEOREM NothingUnearned == Spec => []CompletionIsEarned
<1>1. ASSUME Inv PROVE CompletionIsEarned
  <2>1. /\ TypeOK /\ Stands(assignment, step[CourseStep])
        /\ \A a \in Slots : Earned(assignment[a])
        /\ \A s \in VerifiedSteps \ {CourseStep} :
             step[s].status = "completed" => step[s].verifiedBy \in Managers \ {Learner}
    BY <1>1 DEF Inv, Types, StepsOK, RowsOK
  <2>2. step[CourseStep].status = "completed" =>
          step[CourseStep].link # None /\ assignment[step[CourseStep].link].status = "completed"
    BY <2>1, EndedCourse, SlotsAreOrdered DEF Ended, TypeOK
  <2> QED BY <2>1, <2>2 DEF CompletionIsEarned, Earned
<1> QED BY <1>1, AlwaysSound, PTL

\* A completed step is taken back by nobody but who flags it, and stays linked to what completed it
\* (syncOnboardingForTraining, relinkOnboardingSteps).
THEOREM CompletionIsOneWay == Spec => CompletedStepsStay
<1>1. Inv /\ [Next]_vars => [StepsStay]_vars
  BY StepIsSound
<1> QED BY <1>1, AlwaysSound, PTL DEF Spec, CompletedStepsStay, StepsStay

\* What an assignment says was done stays said: a closed one as it was, an open one with its version,
\* its finished lessons and its attempts (lessonContext, withdrawAssignment,
\* moveNotStartedToCurrent).
THEOREM RecordStays == Spec => RecordKept
<1>1. Inv /\ [Next]_vars => [RowsStay]_vars
  BY StepIsSound
<1> QED BY <1>1, AlwaysSound, PTL DEF Spec, RecordKept, RowsStay

\* What was completed stays so, in the checklist and in the training record.
THEOREM NothingGoesBack == Spec => NothingIsTakenBack
  BY CompletionIsOneWay, RecordStays DEF NothingIsTakenBack

=================================================================================
