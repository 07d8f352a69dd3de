------------------------------ MODULE MCOnboarding ------------------------------
(* Onboarding for TLC.  Where transactions overlap, a course has one       *)
(* lesson, and is published once; archived and restored it may be.         *)
EXTENDS Onboarding

Narrow ==
  ~Serial => /\ Cardinality(course.lessons) = 1
             /\ course'.published # 0 => course'.draft = 0
=================================================================================
