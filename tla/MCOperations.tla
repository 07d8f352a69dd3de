------------------------------ MODULE MCOperations ------------------------------
(* Operations for TLC.  Job roles matter only where transactions do not    *)
(* overlap and the task is to be verified; handoffs only where the task is *)
(* a handoff note.  The more is published, the less is done on the task.   *)
EXTENDS Operations, FiniteSetsExt

Natured(nature) == \E t \in Templates : nature \in template'[t].nature

Plain == /\ \A s \in Shifts : shift'[s].role = None
         /\ \A t \in Templates : template'[t].draft \in {None, {}}

Effort == changes' + SumSet({item'[w].revision : w \in Works})

Narrow ==
  /\ ~Serial \/ Natured("handoff") => Plain
  /\ handoff' # handoff => Natured("handoff")
  /\ Natured("handoff") => changes' <= 2
  /\ Effort <= IF Serial /\ Natured("handoff") THEN 5 ELSE 4
  /\ publishing' = None \/ reminding' = None

=================================================================================
