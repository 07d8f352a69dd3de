--------------------------- MODULE MCQueueAndPlanner ---------------------------
(***************************************************************************)
(* The notification queue and the planner of a week, for TLC.  They share  *)
(* no rows here: a behaviour is one of the queue, while nothing is planned,*)
(* or one of the planner, while every worker is in a tick that finds       *)
(* nothing to do.                                                          *)
(***************************************************************************)
EXTENDS MCNotificationQueue, MCPlanner

VARIABLE part

eitherVars == <<part, vars, plannerVars>>

NothingQueued ==
  /\ status = [n \in Notifications |-> "absent"] /\ accepted = {} /\ crashes = 0
  /\ attempts = [n \in Notifications |-> 0] /\ due = attempts
  /\ lock = [n \in Notifications |-> LongAgo] /\ token = [n \in Notifications |-> NoWorker]
  /\ retryable = [n \in Notifications |-> FALSE]
  /\ stage = [w \in Workers |-> "open"] /\ age = [w \in Workers |-> 0]
  /\ batch = [w \in Workers |-> {}] /\ outcome = [w \in Workers |-> NoOutcome]

NothingPlanned == PlannerInit /\ Serial /\ Home /\ Quiet

EitherInit ==
  \/ part = "queue" /\ Init /\ NothingPlanned
  \/ part = "planner" /\ PlannerInit /\ NothingQueued

InQueue(A)   == part = "queue" /\ A /\ UNCHANGED <<part, plannerVars>>
InPlanner(A) == part = "planner" /\ A /\ UNCHANGED <<part, vars>>

EitherNext == InQueue(Next) \/ InPlanner(PlannerNext)

\* The fairness of NotificationQueue.
EitherFairness ==
  /\ \A w \in Workers :
       /\ WF_eitherVars(InQueue(StartTick(w))) /\ WF_eitherVars(InQueue(Claim(w)))
       /\ WF_eitherVars(InQueue(Complete(w))) /\ WF_eitherVars(InQueue(EndTick(w)))
       /\ \A n \in Notifications : WF_eitherVars(InQueue(Send(w, n)))
  /\ WF_eitherVars(InQueue(Elapse))

EitherSpec == EitherInit /\ [][EitherNext]_eitherVars /\ EitherFairness
=================================================================================
