-------------------------------- MODULE MCWorker --------------------------------
(***************************************************************************)
(* The tick of the worker, and billing, of which the tick's billing step   *)
(* is a part, for TLC.  They share no rows here, so a behaviour is one of  *)
(* the tick or one of a subscription, and nothing is due of the other.     *)
(*                                                                         *)
(* Of two organizations one has work due from the start, and every step    *)
(* fails there.                                                            *)
(***************************************************************************)
EXTENDS WorkerTick, Billing, TLC

CONSTANTS broken, sound, s1, s2

VARIABLE part

workerVars == <<part, vars, billingVars>>

MCOrgOf == s1 :> broken @@ s2 :> sound
MCChores == <<"reminders">>
MCChoreRows == {<<sound, "reminders">>}

NothingDue == Init /\ \A s \in Schedules : schedule[s] = "later"
                   /\ \A c \in ChoreRows : chore[c] = "idle"
NoTrial    == BillingInit /\ provider = "mock"

WorkerInit ==
  \/ /\ part = "tick" /\ NoTrial
     /\ Init /\ schedule[s1] = "due" /\ \A c \in ChoreRows : chore[c] = "idle"
  \/ part = "billing" /\ BillingInit /\ NothingDue

InTick(A)    == part = "tick" /\ A /\ UNCHANGED <<part, billingVars>>
InBilling(A) == part = "billing" /\ A /\ UNCHANGED <<part, vars>>

WorkerNext == InTick(Next) \/ InBilling(BillingNext)

\* The fairness of WorkerTick and of Billing.
WorkerFairness ==
  /\ WF_workerVars(InTick(TimePasses))
  /\ \A w \in Workers : WF_workerVars(InTick(TickStep(w) \/ StepFails(w)))
  /\ WF_workerVars(InBilling(Lifecycle)) /\ WF_workerVars(InBilling(DayPasses))

WorkerSpec == WorkerInit /\ [][WorkerNext]_workerVars /\ WorkerFairness
=================================================================================
