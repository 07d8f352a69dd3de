------------------------------- MODULE WorkerTick -------------------------------
(***************************************************************************)
(* One tick of the background worker and the ticks around it: discovery of *)
(* the organizations that have work due, their steps in order, the errors  *)
(* that stay within a step, the deadline, what is left for the next tick,  *)
(* and what the report of the tick says (worker.ts,                        *)
(* evercalm_organizations_with_due_work).                                  *)
(*                                                                         *)
(* Whatever a step does is claimed row by row, in transactions of its own, *)
(* so ticks may overlap.  A tick works as of the instant it began: on what *)
(* was due then, and on what it, or a tick that began before it, queues.   *)
(*                                                                         *)
(* Abstracted: the steps between publishing and delivering are chores that *)
(* come due; a notification is named after what it tells of, and its lease *)
(* (NotificationQueue) is whether a tick, or a dead one, has it; of the    *)
(* employees the billing step counts nothing is kept.                      *)
(***************************************************************************)
EXTENDS Naturals, FiniteSets, Sequences

CONSTANTS
  Workers,       \* ticks that may be under way at once
  Orgs,
  Schedules,     \* scheduled announcements
  OrgOf,         \* whose they are
  Doubtful,      \* those whose scheduler may not be allowed to publish any more
  Broken,        \* organizations where every step fails
  Chores,        \* the steps between publishing and delivering, in order
  ChoreRows,     \* those that may come due in each organization
  BatchSize, MaxBatches,
  None,
  MaxTrouble     \* bound: chores that come due, steps that fail elsewhere, ticks that die,
                 \* deadlines that pass, sends that must be tried again

ChoreNames == {Chores[i] : i \in DOMAIN Chores}

ASSUME SchedulesAssumption == /\ OrgOf \in [Schedules -> Orgs] /\ Doubtful \subseteq Schedules
                              /\ None \notin Schedules /\ Broken \subseteq Orgs
ASSUME ChoresAssumption == /\ Chores \in Seq({"expire", "reminders", "operations", "billing"})
                           /\ ChoreRows \subseteq Orgs \X ChoreNames
                           /\ Schedules \intersect ChoreRows = {}
ASSUME BatchAssumption == {BatchSize, MaxBatches} \subseteq Nat \ {0}
ASSUME BoundsAssumption == MaxTrouble \in Nat

VARIABLES
  schedule,   \* announcements.status of the scheduled ones
  chore,      \* whether an organization's chore is due
  message,    \* the notification a schedule or a chore queues
  tick,       \* the ticks under way
  trouble     \* counted against the bound

workVars == <<schedule, chore, message>>
vars == <<workVars, tick, trouble>>

Trouble == trouble < MaxTrouble /\ trouble' = trouble + 1

Rows       == Schedules \union ChoreRows
OwnerOf(r) == IF r \in Schedules THEN OrgOf[r] ELSE r[1]
Steps      == <<"publish">> \o Chores \o <<"deliver">>

Ticks ==
  [org : Orgs, rest : SUBSET Orgs, at : 1..Len(Steps) + 1,
   list : SUBSET Schedules, refused : Schedules \union {None},
   batch : 0..MaxBatches, held : SUBSET Rows,
   owed : [schedules : SUBSET Schedules, chores : SUBSET ChoreRows, messages : SUBSET Rows],
   news : SUBSET Rows, elders : SUBSET Workers,
   errors : SUBSET (Orgs \X ({"publish", "deliver"} \union ChoreNames)),
   fullBatches : Nat, late : BOOLEAN]   \* fullBatches: history

ASSUME TicksAssumption == None \notin Ticks

Init ==
  /\ schedule \in [Schedules -> {"later", "due"}]
  /\ chore \in [ChoreRows -> {"idle", "due"}]
  /\ message = [r \in Rows |-> "none"]
  /\ tick = [w \in Workers |-> None]
  /\ trouble = 0

-----------------------------------------------------------------------------
(* What is due                                                             *)

DueRows == [schedules |-> {s \in Schedules : schedule[s] = "due"},
            chores    |-> {c \in ChoreRows : chore[c] = "due"},
            messages  |-> {r \in Rows : message[r] = "due"}]

Of(o, rows) == {r \in rows : OwnerOf(r) = o}

\* Mutant: organizations that have only notifications due are not found.
DueWithoutMessages(o) == Of(o, DueRows.schedules \union DueRows.chores) # {}

\* evercalm_organizations_with_due_work
HasDueWork(o) == Of(o, DueRows.schedules \union DueRows.chores \union DueRows.messages) # {}

-----------------------------------------------------------------------------
(* The tick                                                                *)

Running(w) == tick[w] # None
Org(w)     == tick[w].org
At(w)      == Steps[tick[w].at]
InStep(w)  == Running(w) /\ tick[w].at \in DOMAIN Steps
AtStep(w, name) == InStep(w) /\ Org(w) \notin Broken /\ At(w) = name

Goes(w, t) == tick' = [tick EXCEPT ![w] = t]

\* Whatever comes due now is none of the ticks' that have begun.
Without(t, row) ==
  [t EXCEPT !.news = @ \ {row},
            !.owed = [schedules |-> @.schedules \ {row}, chores |-> @.chores \ {row},
                      messages |-> @.messages \ {row}]]

TooLate(row) == tick' = [w \in Workers |-> IF Running(w) THEN Without(tick[w], row) ELSE None]

\* The steps of an organization begin: its due schedules are read.
Begun(t) == [t EXCEPT !.at = 1, !.list = Of(t.org, DueRows.schedules \intersect t.owed.schedules)]

\* Discovery; nobody chose the order in which the organizations are returned.
StartTick(w) ==
  /\ ~Running(w)
  /\ \E o \in Orgs :
       /\ HasDueWork(o)
       /\ Goes(w, Begun([org |-> o, rest |-> {p \in Orgs \ {o} : HasDueWork(p)}, at |-> 1,
                         list |-> {}, refused |-> None, batch |-> 0, held |-> {},
                         owed |-> DueRows, news |-> {}, elders |-> {v \in Workers : Running(v)},
                         errors |-> {}, fullBatches |-> 0, late |-> FALSE]))
  /\ UNCHANGED <<workVars, trouble>>

Onward(t) == [t EXCEPT !.at = @ + 1, !.list = {}, !.refused = None, !.held = {}]

AllDone(w) == Running(w) /\ tick[w].at > Len(Steps)

\* Only what is owed to the organizations that are left is kept.
TurnTo(t, o) ==
  LET Rest(rows) == rows \ Of(t.org, Rows) IN
  Begun([t EXCEPT !.org = o, !.rest = @ \ {o}, !.batch = 0, !.errors = {}, !.fullBatches = 0,
                  !.owed = [schedules |-> Rest(@.schedules), chores |-> Rest(@.chores),
                            messages |-> Rest(@.messages)],
                  !.news = Rest(@)])

NextOrganization(w) ==
  /\ AllDone(w) /\ ~tick[w].late
  /\ \E o \in tick[w].rest : Goes(w, TurnTo(tick[w], o))
  /\ UNCHANGED <<workVars, trouble>>

Outlives(t, w) == [t EXCEPT !.elders = @ \ {w}]

Gone(w) == tick' = [v \in Workers |-> IF v = w \/ ~Running(v) THEN None ELSE Outlives(tick[v], w)]

EndTick(w) ==
  /\ AllDone(w) /\ tick[w].rest = {}
  /\ Gone(w)
  /\ UNCHANGED <<workVars, trouble>>

\* deadlineAt is over, for the rest of the tick.
DeadlinePasses(w) ==
  /\ Running(w) /\ ~tick[w].late /\ Trouble
  /\ Goes(w, [tick[w] EXCEPT !.late = TRUE])
  /\ UNCHANGED workVars

\* pastDeadline, between organizations: those that are left are put off, and counted.
Defer(w) ==
  /\ AllDone(w) /\ tick[w].rest # {} /\ tick[w].late
  /\ Gone(w)
  /\ UNCHANGED <<workVars, trouble>>

\* What a tick had claimed stays claimed until the lease is over.
Abandoned(w) == message' = [r \in Rows |-> IF r \in tick[w].held THEN "lapsing" ELSE message[r]]

\* The process dies.
Crash(w) ==
  /\ Running(w) /\ Trouble
  /\ Abandoned(w) /\ Gone(w)
  /\ UNCHANGED <<schedule, chore>>

\* Mutant: an error ends the tick.
Uncaught(w) == [Onward(tick[w]) EXCEPT !.at = Len(Steps) + 1, !.rest = {},
                                       !.errors = @ \union {<<Org(w), At(w)>>}]

\* An error ends the step and is reported, for the organization and the step; the tick goes on.
Caught(w) == [Onward(tick[w]) EXCEPT !.errors = @ \union {<<Org(w), At(w)>>}]

\* A transaction of the step is rolled back.
StepFails(w) ==
  /\ InStep(w)
  /\ \/ Org(w) \in Broken /\ UNCHANGED trouble
     \/ Org(w) \notin Broken /\ Trouble
  /\ Abandoned(w) /\ Goes(w, Caught(w))
  /\ UNCHANGED <<schedule, chore>>

-----------------------------------------------------------------------------
(* The steps                                                               *)

\* A notification is queued; it may have to wait for the end of quiet hours.
Owing(t, r) == [t EXCEPT !.owed = [schedules |-> @.schedules, chores |-> @.chores,
                                   messages |-> @.messages \union {r}]]
Hearing(t, r) == [t EXCEPT !.news = @ \union {r}]

Queues(w, r, t) ==
  \/ /\ message' = [message EXCEPT ![r] = "due"]
     /\ tick' = [v \in Workers |-> IF v = w THEN Owing(t, r)
                                   ELSE IF Running(v) /\ w \in tick[v].elders
                                        THEN Hearing(tick[v], r) ELSE tick[v]]
  \/ message' = [message EXCEPT ![r] = "later"] /\ Goes(w, t)

\* One transaction for each schedule of the list: published where it is still due, or found
\* expired, or refused.
Publish(w) ==
  /\ AtStep(w, "publish") /\ tick[w].refused = None
  /\ \E s \in tick[w].list :
       LET t == [tick[w] EXCEPT !.list = @ \ {s}] IN
       \/ schedule[s] # "due" /\ Goes(w, t) /\ UNCHANGED <<schedule, message>>
       \/ /\ schedule[s] = "due"
          /\ schedule' = [schedule EXCEPT ![s] = "published"] /\ Queues(w, s, t)
       \/ /\ schedule[s] = "due"
          /\ schedule' = [schedule EXCEPT ![s] = "expired"] /\ Goes(w, t) /\ UNCHANGED message
       \/ schedule[s] = "due" /\ s \in Doubtful
          /\ Goes(w, [t EXCEPT !.refused = s]) /\ UNCHANGED <<schedule, message>>
  /\ UNCHANGED <<chore, trouble>>

\* A refused one goes back to being a draft, in a transaction of its own.
MarkFailed(w) ==
  /\ AtStep(w, "publish") /\ tick[w].refused # None
  /\ schedule' = [schedule EXCEPT ![tick[w].refused] = IF @ = "due" THEN "draft" ELSE @]
  /\ Goes(w, [tick[w] EXCEPT !.refused = None])
  /\ UNCHANGED <<chore, message, trouble>>

EndPublish(w) ==
  /\ AtStep(w, "publish") /\ tick[w].refused = None /\ tick[w].list = {}
  /\ Goes(w, Onward(tick[w]))
  /\ UNCHANGED <<workVars, trouble>>

Tells == {"reminders", "operations"}

\* expireDue, processAutomaticReminders, processOperationsReminders or processBillingLifecycle,
\* each in one transaction.
DoChore(w) ==
  /\ \E name \in ChoreNames : AtStep(w, name)
  /\ LET row == <<Org(w), At(w)>> IN
     IF row \in DueRows.chores \intersect tick[w].owed.chores
     THEN /\ chore' = [chore EXCEPT ![row] = "idle"]
          /\ IF At(w) \in Tells /\ message[row] = "none" THEN Queues(w, row, Onward(tick[w]))
             ELSE UNCHANGED message /\ Goes(w, Onward(tick[w]))
     ELSE UNCHANGED <<chore, message>> /\ Goes(w, Onward(tick[w]))
  /\ UNCHANGED <<schedule, trouble>>

Claimable(w) == Of(Org(w), DueRows.messages \intersect (tick[w].owed.messages \union tick[w].news))

\* claimDueNotifications: a batch, leased before anything is sent.  Nothing to claim ends the step.
Claim(w) ==
  /\ AtStep(w, "deliver") /\ tick[w].held = {}
  /\ tick[w].batch < MaxBatches /\ (tick[w].batch = 0 \/ ~tick[w].late)
  /\ \E S \in SUBSET Claimable(w) :
       /\ Cardinality(S) = BatchSize \/ (S = Claimable(w) /\ Cardinality(S) < BatchSize)
       /\ message' = [r \in Rows |-> IF r \in S THEN "leased" ELSE message[r]]
       /\ Goes(w, IF S = {} THEN Onward(tick[w])
                  ELSE [tick[w] EXCEPT !.held = S, !.batch = @ + 1])
  /\ UNCHANGED <<schedule, chore, trouble>>

\* A batch that is not full is the last.
AfterBatch(t) ==
  IF Cardinality(t.held) < BatchSize THEN Onward(t)
  ELSE [t EXCEPT !.fullBatches = @ + 1, !.held = {}]

\* The outcomes of a batch are recorded together; what the provider could not take is tried again
\* later.
Complete(w) ==
  /\ AtStep(w, "deliver") /\ tick[w].held # {}
  /\ \E retried \in SUBSET tick[w].held :
       /\ message' = [r \in Rows |-> IF r \in retried THEN "later"
                                     ELSE IF r \in tick[w].held THEN "settled" ELSE message[r]]
       /\ IF retried = {} THEN UNCHANGED trouble ELSE Trouble
  /\ Goes(w, AfterBatch(tick[w]))
  /\ UNCHANGED <<schedule, chore>>

\* That was the last batch a tick may claim, or the deadline has passed.  Nothing is put down.
StopDelivering(w) ==
  /\ AtStep(w, "deliver") /\ tick[w].held = {} /\ tick[w].batch > 0
  /\ tick[w].batch = MaxBatches \/ tick[w].late
  /\ Goes(w, Onward(tick[w]))
  /\ UNCHANGED <<workVars, trouble>>

TickStep(w) ==
  \/ StartTick(w) \/ NextOrganization(w) \/ Defer(w) \/ EndTick(w)
  \/ Publish(w) \/ MarkFailed(w) \/ EndPublish(w)
  \/ DoChore(w) \/ Claim(w) \/ Complete(w) \/ StopDelivering(w)

-----------------------------------------------------------------------------
(* The world around it                                                     *)

\* A lease is over.
LeaseEnds(r) ==
  /\ message[r] = "lapsing" /\ message' = [message EXCEPT ![r] = "due"]
  /\ TooLate(r)
  /\ UNCHANGED <<schedule, chore, trouble>>

\* Quiet hours or a backoff end.
MessageComesDue(r) ==
  /\ message[r] = "later" /\ message' = [message EXCEPT ![r] = "due"]
  /\ TooLate(r)
  /\ UNCHANGED <<schedule, chore, trouble>>

ScheduleComesDue(s) ==
  /\ schedule[s] = "later" /\ schedule' = [schedule EXCEPT ![s] = "due"]
  /\ UNCHANGED <<chore, message, tick, trouble>>

ChoreComesDue(c) ==
  /\ chore[c] = "idle" /\ Trouble /\ chore' = [chore EXCEPT ![c] = "due"]
  /\ TooLate(c)
  /\ UNCHANGED <<schedule, message>>

TimePasses ==
  \/ \E r \in Rows : LeaseEnds(r) \/ MessageComesDue(r)
  \/ \E s \in Schedules : ScheduleComesDue(s)

Next ==
  \/ \E w \in Workers : TickStep(w) \/ StepFails(w) \/ DeadlinePasses(w) \/ Crash(w)
  \/ \E c \in ChoreRows : ChoreComesDue(c)
  \/ TimePasses

\* The loop and the scheduler start tick after tick, and a tick that is not killed goes on, if only
\* to the next step when one fails; time passes.  Nothing makes a process die or a deadline pass.
Fairness == WF_vars(TimePasses) /\ \A w \in Workers : WF_vars(TickStep(w) \/ StepFails(w))

Spec == Init /\ [][Next]_vars /\ Fairness

-----------------------------------------------------------------------------
(* Properties                                                              *)

\* The types of all variables.
TypeOK ==
  /\ schedule \in [Schedules -> {"later", "due", "published", "expired", "draft"}]
  /\ chore \in [ChoreRows -> {"idle", "due"}]
  /\ message \in [Rows -> {"none", "later", "due", "leased", "lapsing", "settled"}]
  /\ tick \in [Workers -> Ticks \union {None}]
  /\ trouble \in 0..MaxTrouble

\* All batches of the organization were full, and no more were allowed: by their number, or after
\* the deadline.
AtItsLimit(t) ==
  /\ t.batch > 0 /\ t.fullBatches = t.batch
  /\ t.batch = MaxBatches \/ t.late

\* A tick that has left an organization behind has done all that was due there when it began, and
\* delivered all it queued (worker.ts:38-39, what step 1 publishes is delivered in step 6 of the same
\* tick), with three exceptions.  Two are in its report: the organizations the deadline put off, and a
\* step that failed (:59-60, "is recorded in the tick report").  The third is not, for the report has
\* nothing that says so: notifications, where every batch the tick delivered there was full and it was
\* allowed no more (:74-80).
UndoneIsExplained ==
  [][\A w \in Workers : Running(w) /\ ~Crash(w) =>
       LET t    == tick[w]
           kept == IF tick'[w] = None THEN {} ELSE {tick'[w].org} \union tick'[w].rest
           Excused(o, step, left) == left = {} \/ <<o, step>> \in t.errors
       IN \A o \in ({t.org} \union t.rest) \ kept :
            \/ Defer(w) /\ o # t.org
            \/ /\ Excused(o, "publish", Of(o, DueRows.schedules \intersect t.owed.schedules))
               /\ \A name \in ChoreNames :
                    Excused(o, name, {<<o, name>>} \intersect DueRows.chores \intersect t.owed.chores)
               /\ \/ AtItsLimit(t)
                  \/ Excused(o, "deliver", Of(o, DueRows.messages \intersect t.owed.messages))]_vars

\* What is still to be done about a schedule or a chore: itself, or its notification.
Outstanding(r) ==
  \/ r \in DueRows.schedules \union DueRows.chores
  \/ message[r] \in {"later", "due", "leased", "lapsing"}

\* Whatever comes due in an organization whose steps do not fail for ever is done in the end, and
\* its notification gets where it can, though every step of another organization fails at every
\* tick, ticks overlap, and some die or meet their deadline (worker.ts:55, "the failed work is still
\* outstanding in the database for the next tick"): the next tick finds it.
DueIsDone ==
  \A r \in {q \in Rows : OwnerOf(q) \notin Broken} : Outstanding(r) ~> ~Outstanding(r)
=============================================================================
