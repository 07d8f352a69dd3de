---------------------------- MODULE WorkerTickProofs ----------------------------
(***************************************************************************)
(* That what a tick leaves undone is explained, for any number of          *)
(* organizations, workers, schedules and chores.                           *)
(***************************************************************************)
EXTENDS WorkerTick, FiniteSetTheorems, TLAPS

USE SchedulesAssumption, ChoresAssumption, BatchAssumption, BoundsAssumption, TicksAssumption

-----------------------------------------------------------------------------
(* The steps *)

StepNames == {"publish", "deliver"} \union ChoreNames

\* Publishing comes first, delivering last, and between them are the chores.
LEMMA StepsFacts ==
  /\ Len(Steps) \in Nat /\ Len(Steps) >= 2 /\ DOMAIN Steps = 1..Len(Steps)
  /\ Steps[1] = "publish" /\ Steps[Len(Steps)] = "deliver"
  /\ \A i \in 2..Len(Steps) - 1 : Steps[i] \in ChoreNames
  /\ \A name \in ChoreNames : \E i \in 2..Len(Steps) - 1 : Steps[i] = name
  /\ ChoreNames \subseteq {"expire", "reminders", "operations", "billing"}
<1> DEFINE C == {"expire", "reminders", "operations", "billing"}
<1>1. Chores \in Seq(C) /\ Len(Chores) \in Nat /\ DOMAIN Chores = 1..Len(Chores)
  OBVIOUS
<1>2. ChoreNames \subseteq C
  BY DEF ChoreNames
<1> DEFINE D == {"publish", "deliver"} \union C
<1>b. Chores \in Seq(D) /\ <<"publish">> \in Seq(D) /\ <<"deliver">> \in Seq(D)
  BY <1>1
<1>3. /\ Len(Steps) = Len(Chores) + 2 /\ DOMAIN Steps = 1..Len(Steps)
      /\ Steps[1] = "publish" /\ Steps[Len(Steps)] = "deliver"
      /\ \A i \in 2..Len(Chores) + 1 : Steps[i] = Chores[i - 1]
  BY <1>1, <1>b DEF Steps
<1>4. \A i \in 2..Len(Steps) - 1 : Steps[i] \in ChoreNames
  BY <1>1, <1>3 DEF ChoreNames
<1>5. \A name \in ChoreNames : \E i \in 2..Len(Steps) - 1 : Steps[i] = name
  <2> TAKE name \in ChoreNames
  <2>1. PICK j \in 1..Len(Chores) : Chores[j] = name
    BY <1>1 DEF ChoreNames
  <2>2. j + 1 \in 2..Len(Steps) - 1 /\ Steps[j + 1] = name
    BY <1>1, <1>3, <2>1
  <2> QED BY <2>2
<1> QED BY <1>1, <1>2, <1>3, <1>4, <1>5

-----------------------------------------------------------------------------
(* Ticks and what changes them *)

\* The fields of a tick.
LEMMA Fields ==
  ASSUME NEW t \in Ticks
  PROVE  /\ t.org \in Orgs /\ t.rest \subseteq Orgs /\ t.at \in 1..Len(Steps) + 1
         /\ t.list \subseteq Schedules /\ t.refused \in Schedules \union {None}
         /\ t.batch \in 0..MaxBatches /\ t.held \subseteq Rows
         /\ t.owed.schedules \subseteq Schedules /\ t.owed.chores \subseteq ChoreRows
         /\ t.owed.messages \subseteq Rows /\ t.news \subseteq Rows
         /\ t.errors \subseteq Orgs \X StepNames /\ t.fullBatches \in Nat /\ t.late \in BOOLEAN
BY DEF Ticks, StepNames

\* Two ticks that differ in what they know of, the second knowing no more.
Like(t, u) ==
  /\ u.org = t.org /\ u.at = t.at /\ u.list = t.list /\ u.refused = t.refused
  /\ u.held = t.held /\ u.errors = t.errors /\ u.rest = t.rest
  /\ u.batch = t.batch /\ u.fullBatches = t.fullBatches /\ (t.late => u.late)
  /\ u.owed.schedules \subseteq t.owed.schedules /\ u.owed.chores \subseteq t.owed.chores
  /\ u.owed.messages \subseteq t.owed.messages

\* Two ticks whose batches are the same, the second no less late.
Counted(t, u) ==
  u.batch = t.batch /\ u.fullBatches = t.fullBatches /\ (t.late => u.late)

LEMMA OnwardFacts ==
  ASSUME NEW t \in Ticks, t.at \in DOMAIN Steps
  PROVE  LET u == Onward(t) IN
         /\ u \in Ticks /\ u.at = t.at + 1 /\ u.org = t.org /\ u.rest = t.rest /\ u.owed = t.owed
         /\ u.errors = t.errors /\ u.held = {} /\ Counted(t, u)
<1>1. t.at + 1 \in 1..Len(Steps) + 1
  BY StepsFacts
<1> QED BY <1>1 DEF Onward, Ticks, Counted

LEMMA CaughtFacts ==
  ASSUME NEW w \in Workers, tick[w] \in Ticks, tick[w].at \in DOMAIN Steps
  PROVE  LET u == Caught(w)  t == tick[w] IN
         /\ u \in Ticks /\ u.at = t.at + 1 /\ u.org = t.org /\ u.rest = t.rest /\ u.owed = t.owed
         /\ u.errors = t.errors \union {<<t.org, Steps[t.at]>>} /\ u.held = {} /\ Counted(t, u)
<1> DEFINE t == tick[w]  u == Onward(t)
<1>1. /\ u \in Ticks /\ u.at = t.at + 1 /\ u.org = t.org /\ u.rest = t.rest /\ u.owed = t.owed
      /\ u.errors = t.errors /\ u.held = {} /\ Counted(t, u)
  BY OnwardFacts
<1>2. t.org \in Orgs
  BY Fields
<1>3. Steps[t.at] \in StepNames
  <2>1. t.at = 1 \/ t.at = Len(Steps) \/ t.at \in 2..Len(Steps) - 1
    BY StepsFacts
  <2> QED BY <2>1, StepsFacts DEF StepNames
<1> DEFINE e == t.errors \union {<<t.org, Steps[t.at]>>}
<1>4. Caught(w) = [u EXCEPT !.errors = e]
  BY <1>1 DEF Caught, Org, At
<1>5. e \in SUBSET (Orgs \X ({"publish", "deliver"} \union ChoreNames))
  <2>1. t.errors \subseteq Orgs \X StepNames
    BY Fields
  <2> QED BY <2>1, <1>2, <1>3 DEF StepNames
<1> HIDE DEF t, u, e
<1>6. [u EXCEPT !.errors = e] \in Ticks
  BY <1>1, <1>5 DEF Ticks
<1>7. LET c == [u EXCEPT !.errors = e] IN
      /\ c.at = u.at /\ c.org = u.org /\ c.rest = u.rest /\ c.owed = u.owed
      /\ c.errors = e /\ c.held = u.held /\ Counted(u, c)
  BY <1>1 DEF Ticks, Counted
<1> QED BY <1>1, <1>4, <1>6, <1>7 DEF t, e, Counted

\* What the other changes of a tick do to it.
LEMMA ChangesKeepTicks ==
  ASSUME NEW t \in Ticks
  PROVE  /\ \A row : LET u == Without(t, row) IN
              /\ u \in Ticks /\ Like(t, u) /\ row \notin u.owed.schedules
              /\ row \notin u.owed.chores /\ row \notin u.owed.messages
         /\ \A w : LET u == Outlives(t, w) IN
              u \in Ticks /\ Like(t, u) /\ u.owed = t.owed
         /\ \A r \in Rows : LET u == Hearing(t, r) IN
              u \in Ticks /\ Like(t, u) /\ u.owed = t.owed
         /\ \A r \in Rows : LET u == Owing(t, r) IN
              /\ u \in Ticks /\ u.org = t.org /\ u.at = t.at /\ u.list = t.list
              /\ u.refused = t.refused /\ u.held = t.held /\ u.errors = t.errors
              /\ u.rest = t.rest /\ Counted(t, u)
              /\ u.owed.schedules = t.owed.schedules /\ u.owed.chores = t.owed.chores
              /\ u.owed.messages = t.owed.messages \union {r}
<1>1. \A row : LET u == Without(t, row) IN
        /\ u \in Ticks /\ Like(t, u) /\ row \notin u.owed.schedules
        /\ row \notin u.owed.chores /\ row \notin u.owed.messages
  BY DEF Without, Like, Ticks
<1>2. \A w : LET u == Outlives(t, w) IN u \in Ticks /\ Like(t, u) /\ u.owed = t.owed
  BY DEF Outlives, Like, Ticks
<1>3. \A r \in Rows : LET u == Hearing(t, r) IN u \in Ticks /\ Like(t, u) /\ u.owed = t.owed
  BY DEF Hearing, Like, Ticks
<1>4. \A r \in Rows : LET u == Owing(t, r) IN
        /\ u \in Ticks /\ u.org = t.org /\ u.at = t.at /\ u.list = t.list
        /\ u.refused = t.refused /\ u.held = t.held /\ u.errors = t.errors
        /\ u.rest = t.rest /\ Counted(t, u)
        /\ u.owed.schedules = t.owed.schedules /\ u.owed.chores = t.owed.chores
        /\ u.owed.messages = t.owed.messages \union {r}
  BY DEF Owing, Ticks, Counted
<1> QED BY <1>1, <1>2, <1>3, <1>4

LEMMA UpdateFacts ==
  ASSUME NEW t \in Ticks
  PROVE  /\ [t EXCEPT !.refused = None] \in Ticks
         /\ [t EXCEPT !.held = {}] \in Ticks
         /\ [t EXCEPT !.fullBatches = @ + 1, !.held = {}] \in Ticks
         /\ [t EXCEPT !.late = TRUE] \in Ticks
         /\ \A S \in SUBSET Rows : t.batch < MaxBatches =>
              [t EXCEPT !.held = S, !.batch = @ + 1] \in Ticks
<1>1. [t EXCEPT !.refused = None] \in Ticks
  BY DEF Ticks
<1>2. [t EXCEPT !.held = {}] \in Ticks
  BY DEF Ticks
<1>3. [t EXCEPT !.fullBatches = @ + 1, !.held = {}] \in Ticks
  <2>1. t.fullBatches + 1 \in Nat
    BY Fields
  <2> QED BY <2>1 DEF Ticks
<1>5. [t EXCEPT !.late = TRUE] \in Ticks
  BY DEF Ticks
<1>4. ASSUME NEW S \in SUBSET Rows, t.batch < MaxBatches
      PROVE  [t EXCEPT !.held = S, !.batch = @ + 1] \in Ticks
  <2>1. t.batch + 1 \in 0..MaxBatches
    BY <1>4, Fields
  <2> QED BY <2>1, <1>4 DEF Ticks
<1> QED BY <1>1, <1>2, <1>3, <1>4, <1>5

\* An organization's steps begin with its due schedules, and with what is owed to it.
LEMMA BegunFacts ==
  ASSUME NEW t \in Ticks
  PROVE  LET u == Begun(t) IN
         /\ u \in Ticks /\ u.at = 1 /\ u.org = t.org /\ u.rest = t.rest /\ u.owed = t.owed
         /\ u.held = t.held /\ u.refused = t.refused /\ Counted(t, u)
         /\ u.list = Of(t.org, DueRows.schedules \intersect t.owed.schedules)
<1>1. Of(t.org, DueRows.schedules \intersect t.owed.schedules) \subseteq Schedules
  BY DEF Of, DueRows
<1>2. 1 \in 1..Len(Steps) + 1
  BY StepsFacts
<1> QED BY <1>1, <1>2 DEF Begun, Ticks, Counted

LEMMA TurnFacts ==
  ASSUME NEW t \in Ticks, NEW o \in t.rest
  PROVE  LET u == TurnTo(t, o) IN
         /\ u \in Ticks /\ u.at = 1 /\ u.org = o /\ u.rest = t.rest \ {o} /\ u.held = t.held
         /\ u.list = Of(o, DueRows.schedules \intersect u.owed.schedules)
         /\ u.owed.schedules \subseteq t.owed.schedules /\ u.owed.chores \subseteq t.owed.chores
         /\ u.owed.messages \subseteq t.owed.messages
<1> DEFINE Rest(rows) == rows \ Of(t.org, Rows)
           v == [t EXCEPT !.org = o, !.rest = @ \ {o}, !.batch = 0, !.errors = {}, !.fullBatches = 0,
                          !.owed = [schedules |-> Rest(@.schedules), chores |-> Rest(@.chores),
                                    messages |-> Rest(@.messages)],
                          !.news = Rest(@)]
<1>1. o \in Orgs /\ 0 \in 0..MaxBatches
  BY Fields
<1>2. /\ v \in Ticks /\ v.org = o /\ v.rest = t.rest \ {o} /\ v.held = t.held
      /\ v.batch = 0 /\ v.fullBatches = 0
      /\ v.owed.schedules \subseteq t.owed.schedules /\ v.owed.chores \subseteq t.owed.chores
      /\ v.owed.messages \subseteq t.owed.messages
  BY <1>1 DEF Ticks
<1>3. TurnTo(t, o) = Begun(v)
  BY DEF TurnTo
<1> HIDE DEF v
<1>4. LET u == Begun(v) IN
      /\ u \in Ticks /\ u.at = 1 /\ u.org = v.org /\ u.rest = v.rest /\ u.owed = v.owed
      /\ u.held = v.held /\ Counted(v, u)
      /\ u.list = Of(v.org, DueRows.schedules \intersect v.owed.schedules)
  BY <1>2, BegunFacts
<1> QED BY <1>2, <1>3, <1>4

\* And with no batch delivered yet.
LEMMA TurnCounts ==
  ASSUME NEW t \in Ticks, NEW o \in t.rest
  PROVE  TurnTo(t, o).batch = 0 /\ TurnTo(t, o).fullBatches = 0
BY Fields DEF TurnTo, Begun, Ticks

-----------------------------------------------------------------------------
(* Types *)

LEMMA TypeStep ==
  ASSUME TypeOK, [Next]_vars
  PROVE  TypeOK'
<1> USE DEF TypeOK, Running
<1> DEFINE Statuses == {"later", "due", "published", "expired", "draft"}
           States   == {"none", "later", "due", "leased", "lapsing", "settled"}
<1>t. ASSUME Trouble \/ UNCHANGED trouble
      PROVE  trouble' \in 0..MaxTrouble
  BY <1>t DEF Trouble
<1>q. ASSUME NEW w \in Workers, NEW r \in Rows, NEW t \in Ticks, Queues(w, r, t)
      PROVE  message' \in [Rows -> States] /\ tick' \in [Workers -> Ticks \union {None}]
  <2>1. \A v \in Workers : Running(v) => Hearing(tick[v], r) \in Ticks
    BY ChangesKeepTicks
  <2>2. Owing(t, r) \in Ticks
    BY ChangesKeepTicks
  <2> QED BY <1>q, <2>1, <2>2 DEF Queues, Goes
<1>l. ASSUME NEW row, TooLate(row)
      PROVE  tick' \in [Workers -> Ticks \union {None}]
  <2>1. \A v \in Workers : Running(v) => Without(tick[v], row) \in Ticks
    BY ChangesKeepTicks
  <2> QED BY <1>l, <2>1 DEF TooLate
<1>g. ASSUME NEW w \in Workers, Gone(w)
      PROVE  tick' \in [Workers -> Ticks \union {None}]
  <2>1. \A v \in Workers : Running(v) => Outlives(tick[v], w) \in Ticks
    BY ChangesKeepTicks
  <2> QED BY <1>g, <2>1 DEF Gone
<1>o. ASSUME NEW w \in Workers, InStep(w)
      PROVE  tick[w] \in Ticks /\ Onward(tick[w]) \in Ticks /\ Caught(w) \in Ticks
  <2>1. tick[w] \in Ticks /\ tick[w].at \in DOMAIN Steps
    BY <1>o DEF InStep
  <2> QED BY <2>1, OnwardFacts, CaughtFacts
<1>1. CASE \E w \in Workers : StartTick(w)
  <2> PICK w \in Workers : StartTick(w)
    BY <1>1
  <2> PICK o \in Orgs :
        Goes(w, Begun([org |-> o, rest |-> {p \in Orgs \ {o} : HasDueWork(p)}, at |-> 1,
                       list |-> {}, refused |-> None, batch |-> 0, held |-> {},
                       owed |-> DueRows, news |-> {}, elders |-> {v \in Workers : Running(v)},
                       errors |-> {}, fullBatches |-> 0, late |-> FALSE]))
    BY DEF StartTick
  <2> DEFINE t == [org |-> o, rest |-> {p \in Orgs \ {o} : HasDueWork(p)}, at |-> 1,
                   list |-> {}, refused |-> None, batch |-> 0, held |-> {},
                   owed |-> DueRows, news |-> {}, elders |-> {v \in Workers : Running(v)},
                   errors |-> {}, fullBatches |-> 0, late |-> FALSE]
  <2>1. t \in Ticks
    BY StepsFacts DEF Ticks, DueRows
  <2> HIDE DEF t
  <2>2. Begun(t) \in Ticks
    BY <2>1, BegunFacts
  <2>3. Goes(w, Begun(t))
    BY DEF t
  <2> QED BY <2>2, <2>3 DEF Goes, StartTick, workVars
<1>2. CASE \E w \in Workers : NextOrganization(w)
  <2> PICK w \in Workers : NextOrganization(w)
    BY <1>2
  <2> PICK o \in tick[w].rest : Goes(w, TurnTo(tick[w], o))
    BY DEF NextOrganization
  <2>0. tick[w] \in Ticks
    BY DEF NextOrganization, AllDone
  <2>1. TurnTo(tick[w], o) \in Ticks
    BY <2>0, TurnFacts
  <2> QED BY <2>1 DEF Goes, NextOrganization, workVars
<1>3. CASE \E w \in Workers : EndTick(w) \/ Defer(w)
  <2> PICK w \in Workers : EndTick(w) \/ Defer(w)
    BY <1>3
  <2> QED BY <1>g, <1>t DEF EndTick, Defer, workVars
<1>4. CASE \E w \in Workers : Crash(w)
  <2> PICK w \in Workers : Crash(w)
    BY <1>4
  <2> QED BY <1>g, <1>t DEF Crash, Abandoned
<1>5. CASE \E w \in Workers : StepFails(w)
  <2> PICK w \in Workers : StepFails(w)
    BY <1>5
  <2> QED BY <1>o, <1>t DEF StepFails, Abandoned, Goes
<1>6. CASE \E w \in Workers : Publish(w)
  <2> PICK w \in Workers : Publish(w)
    BY <1>6
  <2> PICK s \in tick[w].list :
        LET t == [tick[w] EXCEPT !.list = @ \ {s}] IN
        \/ schedule[s] # "due" /\ Goes(w, t) /\ UNCHANGED <<schedule, message>>
        \/ /\ schedule[s] = "due"
           /\ schedule' = [schedule EXCEPT ![s] = "published"] /\ Queues(w, s, t)
        \/ /\ schedule[s] = "due"
           /\ schedule' = [schedule EXCEPT ![s] = "expired"] /\ Goes(w, t) /\ UNCHANGED message
        \/ schedule[s] = "due" /\ s \in Doubtful
           /\ Goes(w, [t EXCEPT !.refused = s]) /\ UNCHANGED <<schedule, message>>
    BY DEF Publish
  <2> DEFINE t == [tick[w] EXCEPT !.list = @ \ {s}]
  <2>1. tick[w] \in Ticks
    BY DEF Publish, AtStep, InStep
  <2>2. s \in Schedules /\ s \in Rows
    BY <2>1, Fields DEF Rows
  <2>3. t \in Ticks /\ [t EXCEPT !.refused = s] \in Ticks
    BY <2>1, <2>2 DEF Ticks
  <2>4. UNCHANGED <<chore, trouble>>
    BY DEF Publish
  <2> HIDE DEF t
  <2>5. \/ Goes(w, t) /\ UNCHANGED message
        \/ Queues(w, s, t)
        \/ Goes(w, [t EXCEPT !.refused = s]) /\ UNCHANGED message
    BY DEF t
  <2>6. message' \in [Rows -> States] /\ tick' \in [Workers -> Ticks \union {None}]
    BY <2>2, <2>3, <2>5, <1>q DEF Goes
  <2>7. schedule' \in [Schedules -> Statuses]
    OBVIOUS
  <2> QED BY <2>4, <2>6, <2>7
<1>7. CASE \E w \in Workers : MarkFailed(w)
  <2> PICK w \in Workers : MarkFailed(w)
    BY <1>7
  <2>1. InStep(w)
    BY DEF MarkFailed, AtStep
  <2>2. [tick[w] EXCEPT !.refused = None] \in Ticks
    BY <2>1, <1>o, UpdateFacts
  <2>3. tick' \in [Workers -> Ticks \union {None}]
    BY <2>2 DEF MarkFailed, Goes
  <2>4. schedule' \in [Schedules -> Statuses]
    BY DEF MarkFailed
  <2> QED BY <2>3, <2>4 DEF MarkFailed
<1>16. CASE \E w \in Workers : EndPublish(w)
  <2> PICK w \in Workers : EndPublish(w)
    BY <1>16
  <2>1. InStep(w)
    BY DEF EndPublish, AtStep
  <2> QED BY <2>1, <1>o DEF EndPublish, Goes, workVars
<1>8. CASE \E w \in Workers : DoChore(w)
  <2> PICK w \in Workers : DoChore(w)
    BY <1>8
  <2> DEFINE row == <<Org(w), At(w)>>
  <2>1. InStep(w)
    BY DEF DoChore, AtStep
  <2>2. row \in tick[w].owed.chores => row \in ChoreRows
    BY <2>1, <1>o, Fields
  <2>3. /\ chore' \in [ChoreRows -> {"idle", "due"}] /\ UNCHANGED <<schedule, trouble>>
        /\ \/ UNCHANGED message /\ Goes(w, Onward(tick[w]))
           \/ row \in tick[w].owed.chores /\ Queues(w, row, Onward(tick[w]))
    BY DEF DoChore
  <2> HIDE DEF row
  <2>4. message' \in [Rows -> States] /\ tick' \in [Workers -> Ticks \union {None}]
    BY <2>1, <2>2, <2>3, <1>o, <1>q DEF Goes, Rows
  <2> QED BY <2>3, <2>4
<1>9. CASE \E w \in Workers : Claim(w)
  <2> PICK w \in Workers : Claim(w)
    BY <1>9
  <2> PICK S \in SUBSET Claimable(w) :
        /\ message' = [r \in Rows |-> IF r \in S THEN "leased" ELSE message[r]]
        /\ Goes(w, IF S = {} THEN Onward(tick[w])
                   ELSE [tick[w] EXCEPT !.held = S, !.batch = @ + 1])
    BY DEF Claim
  <2>1. InStep(w) /\ tick[w].batch < MaxBatches
    BY DEF Claim, AtStep
  <2>2. S \subseteq Rows
    BY DEF Claimable, Of, DueRows
  <2>4. [tick[w] EXCEPT !.held = S, !.batch = @ + 1] \in Ticks
    BY <2>1, <2>2, <1>o, UpdateFacts
  <2> QED BY <2>1, <2>4, <1>o DEF Claim, Goes
<1>10. CASE \E w \in Workers : Complete(w)
  <2> PICK w \in Workers : Complete(w)
    BY <1>10
  <2>1. InStep(w)
    BY DEF Complete, AtStep
  <2>2. [tick[w] EXCEPT !.fullBatches = @ + 1, !.held = {}] \in Ticks
    BY <2>1, <1>o, UpdateFacts
  <2>3. AfterBatch(tick[w]) \in Ticks
    BY <2>1, <2>2, <1>o DEF AfterBatch
  <2>4. message' \in [Rows -> States]
    BY DEF Complete
  <2>5. Trouble \/ UNCHANGED trouble
    BY DEF Complete
  <2> QED BY <2>3, <2>4, <2>5, <1>t DEF Complete, Goes
<1>11. CASE \E w \in Workers : StopDelivering(w)
  <2> PICK w \in Workers : StopDelivering(w)
    BY <1>11
  <2>1. InStep(w)
    BY DEF StopDelivering, AtStep
  <2> QED BY <2>1, <1>o DEF StopDelivering, Goes, workVars
<1>17. CASE \E w \in Workers : DeadlinePasses(w)
  <2> PICK w \in Workers : DeadlinePasses(w)
    BY <1>17
  <2>1. [tick[w] EXCEPT !.late = TRUE] \in Ticks
    BY UpdateFacts DEF DeadlinePasses
  <2> QED BY <2>1, <1>t DEF DeadlinePasses, Goes, workVars
<1>12. CASE \E c \in ChoreRows : ChoreComesDue(c)
  BY <1>12, <1>l, <1>t DEF ChoreComesDue
<1>13. CASE \E r \in Rows : LeaseEnds(r) \/ MessageComesDue(r)
  BY <1>13, <1>l DEF LeaseEnds, MessageComesDue
<1>14. CASE \E s \in Schedules : ScheduleComesDue(s)
  BY <1>14 DEF ScheduleComesDue
<1>15. CASE UNCHANGED vars
  BY <1>15 DEF vars, workVars
<1> QED
  BY <1>1, <1>2, <1>3, <1>4, <1>5, <1>6, <1>7, <1>8, <1>9, <1>10, <1>11, <1>12, <1>13, <1>14, <1>15, <1>16, <1>17
  DEF Next, TickStep, TimePasses

-----------------------------------------------------------------------------
(* What a tick may say of the organization it is at.  An invariant speaks  *)
(* of the states, and its proof of the states before and after a step:     *)
(* what is due is a parameter.                                             *)

\* What is still due of what is owed to an organization.
Left(o, state, owed) == {r \in owed : state[r] = "due" /\ OwnerOf(r) = o}

\* Nothing that was owed comes due anew.
Known(sch, mes, t) ==
  /\ \A s \in t.owed.schedules : sch[s] # "later"
  /\ \A r \in t.owed.messages \union t.held : mes[r] # "none"

\* The schedules that are left are on the list, or the one that was refused, or reported.
PublishOK(sch, t) ==
  LET left == Left(t.org, sch, t.owed.schedules) IN
  /\ t.at = 1 => left \subseteq t.list \union {t.refused}
  /\ t.at > 1 => left = {} \/ <<t.org, "publish">> \in t.errors

\* The chores of the steps that are over are done or reported.
ChoresOK(cho, t) ==
  \A i \in 2..Len(Steps) - 1 :
    i < t.at => \/ <<t.org, Steps[i]>> \notin Left(t.org, cho, t.owed.chores)
                \/ <<t.org, Steps[i]>> \in t.errors

\* Nothing is left beside a batch that is not full, nor after the delivery, unless it is reported or
\* the tick was at its limit.
DeliverOK(mes, t) ==
  LET left == Left(t.org, mes, t.owed.messages) IN
  /\ t.at = Len(Steps) /\ t.held # {} /\ Cardinality(t.held) < BatchSize => left = {}
  /\ t.at > Len(Steps) => AtItsLimit(t) \/ left = {} \/ <<t.org, "deliver">> \in t.errors

\* In a delivery that goes on, all batches that are over were full.
BatchesOK(t) ==
  /\ t.at # Len(Steps) => t.held = {}
  /\ t.at < Len(Steps) => t.batch = 0 /\ t.fullBatches = 0
  /\ t.at = Len(Steps) => t.batch = t.fullBatches + (IF t.held = {} THEN 0 ELSE 1)

Honest(sch, cho, mes, t) ==
  /\ Known(sch, mes, t) /\ PublishOK(sch, t) /\ ChoresOK(cho, t)
  /\ DeliverOK(mes, t) /\ BatchesOK(t)

\* What is not published has told nobody yet.
Waiting == \A s \in Schedules : schedule[s] \in {"later", "due"} => message[s] = "none"

Inv == /\ TypeOK /\ Waiting
       /\ \A w \in Workers : Running(w) => Honest(schedule, chore, message, tick[w])

LEMMA TypeInit == Init => TypeOK
BY DEF Init, TypeOK, Trouble

\* The types of all variables, whatever the ticks do.
THEOREM TypeCorrect == Spec => []TypeOK
<1>1. TypeOK /\ [Next]_vars => TypeOK'
  BY TypeStep
<1> QED BY TypeInit, <1>1, PTL DEF Spec

-----------------------------------------------------------------------------
(* What keeps a tick honest *)

LEMMA LeftFacts ==
  ASSUME NEW o, NEW state, NEW owed, NEW state2, NEW owed2, owed2 \subseteq owed,
         \A r \in owed2 : state2[r] = "due" => state[r] = "due"
  PROVE  Left(o, state2, owed2) \subseteq Left(o, state, owed)
BY DEF Left

\* Nothing that is owed to a tick comes due, and what was queued stays so.
Calm(sch, cho, mes, sch2, cho2, mes2, u) ==
  /\ \A s \in Schedules : sch[s] # "later" => /\ sch2[s] # "later"
                                              /\ sch2[s] = "due" => sch[s] = "due"
  /\ \A c \in u.owed.chores : cho2[c] = "due" => cho[c] = "due"
  /\ \A r \in Rows : mes[r] # "none" => mes2[r] # "none"
  /\ \A r \in u.owed.messages : mes[r] # "none" /\ mes2[r] = "due" => mes[r] = "due"

\* A tick that goes on in its step.
LEMMA CalmKeeps ==
  ASSUME NEW sch, NEW cho, NEW mes, NEW sch2, NEW cho2, NEW mes2,
         NEW t \in Ticks, NEW u \in Ticks, Like(t, u), Honest(sch, cho, mes, t),
         Calm(sch, cho, mes, sch2, cho2, mes2, u)
  PROVE  Honest(sch2, cho2, mes2, u)
<1>0. /\ u.owed.schedules \subseteq Schedules /\ u.owed.messages \union u.held \subseteq Rows
      /\ u.at \in 1..Len(Steps) + 1
  BY Fields
<1>1. Known(sch2, mes2, u)
  BY <1>0 DEF Like, Honest, Known, Calm
<1>2. Left(u.org, sch2, u.owed.schedules) \subseteq Left(t.org, sch, t.owed.schedules)
  <2>1. \A s \in u.owed.schedules : sch2[s] = "due" => sch[s] = "due"
    BY <1>0 DEF Like, Honest, Known, Calm
  <2> QED BY <2>1, LeftFacts DEF Like
<1>3. Left(u.org, cho2, u.owed.chores) \subseteq Left(t.org, cho, t.owed.chores)
  BY LeftFacts DEF Like, Calm
<1>4. Left(u.org, mes2, u.owed.messages) \subseteq Left(t.org, mes, t.owed.messages)
  <2>1. \A r \in u.owed.messages : mes2[r] = "due" => mes[r] = "due"
    BY DEF Like, Honest, Known, Calm
  <2> QED BY <2>1, LeftFacts DEF Like
<1>5. PublishOK(sch2, u)
  BY <1>2 DEF Like, Honest, PublishOK
<1>6. ChoresOK(cho2, u)
  BY <1>3 DEF Like, Honest, ChoresOK
<1>7. DeliverOK(mes2, u)
  BY <1>4 DEF Like, Honest, DeliverOK, AtItsLimit
<1>8. BatchesOK(u)
  BY DEF Like, Honest, BatchesOK
<1> QED BY <1>1, <1>5, <1>6, <1>7, <1>8 DEF Honest

\* A tick has gone on to its next step, knowing as much.
PassedOn(t, u) ==
  /\ t.at \in DOMAIN Steps /\ u.at = t.at + 1 /\ u.org = t.org /\ u.held = {}
  /\ u.owed.schedules = t.owed.schedules /\ u.owed.chores = t.owed.chores
  /\ t.errors \subseteq u.errors /\ Counted(t, u)

\* What the step that is over leaves undone is reported.
Over(sch, cho, mes, t, u) ==
  /\ t.at = 1 => Left(u.org, sch, u.owed.schedules) = {} \/ <<u.org, "publish">> \in u.errors
  /\ t.at \in 2..Len(Steps) - 1 => \/ <<u.org, Steps[t.at]>> \notin Left(u.org, cho, u.owed.chores)
                                   \/ <<u.org, Steps[t.at]>> \in u.errors
  /\ t.at = Len(Steps) => \/ AtItsLimit(u) \/ Left(u.org, mes, u.owed.messages) = {}
                          \/ <<u.org, "deliver">> \in u.errors
  /\ \A r \in u.owed.messages : mes[r] # "none"

LEMMA StepOver ==
  ASSUME NEW sch, NEW cho, NEW mes, NEW sch2, NEW cho2, NEW mes2,
         NEW t \in Ticks, NEW u \in Ticks, Honest(sch, cho, mes, t), PassedOn(t, u),
         \A s \in Schedules : sch[s] # "later" => /\ sch2[s] # "later"
                                                  /\ sch2[s] = "due" => sch[s] = "due",
         \A c \in u.owed.chores : cho2[c] = "due" => cho[c] = "due",
         Over(sch2, cho2, mes2, t, u)
  PROVE  Honest(sch2, cho2, mes2, u)
<1>0. u.owed.schedules \subseteq Schedules /\ t.at \in 1..Len(Steps)
  BY Fields, StepsFacts DEF PassedOn
<1>1. Known(sch2, mes2, u)
  BY <1>0 DEF Honest, Known, PassedOn, Over
<1>2. Left(u.org, sch2, u.owed.schedules) \subseteq Left(t.org, sch, t.owed.schedules)
  <2>1. \A s \in u.owed.schedules : sch2[s] = "due" => sch[s] = "due"
    BY <1>0 DEF Honest, Known, PassedOn
  <2> QED BY <2>1, LeftFacts DEF PassedOn
<1>3. Left(u.org, cho2, u.owed.chores) \subseteq Left(t.org, cho, t.owed.chores)
  BY LeftFacts DEF PassedOn
<1>5. PublishOK(sch2, u)
  <2>1. CASE t.at = 1
    BY <2>1 DEF PublishOK, PassedOn, Over
  <2>2. CASE t.at > 1
    BY <2>2, <1>0, <1>2 DEF Honest, PublishOK, PassedOn
  <2> QED BY <2>1, <2>2, <1>0
<1>6. ChoresOK(cho2, u)
  <2> SUFFICES ASSUME NEW i \in 2..Len(Steps) - 1, i < u.at
               PROVE  \/ <<u.org, Steps[i]>> \notin Left(u.org, cho2, u.owed.chores)
                      \/ <<u.org, Steps[i]>> \in u.errors
    BY DEF ChoresOK
  <2>1. CASE i < t.at
    BY <2>1, <1>3 DEF Honest, ChoresOK, PassedOn
  <2>2. CASE i = t.at
    BY <2>2 DEF Over
  <2> QED BY <2>1, <2>2, <1>0, StepsFacts DEF PassedOn
<1>7. DeliverOK(mes2, u)
  BY <1>0, StepsFacts DEF DeliverOK, PassedOn, Over
<1>8. BatchesOK(u)
  BY <1>0, StepsFacts DEF BatchesOK, PassedOn, Counted, Honest
<1> QED BY <1>1, <1>5, <1>6, <1>7, <1>8 DEF Honest

\* A tick that begins with an organization.
LEMMA BeginsHonest ==
  ASSUME NEW sch, NEW cho, NEW mes, NEW u \in Ticks, u.at = 1, Known(sch, mes, u),
         Left(u.org, sch, u.owed.schedules) \subseteq u.list,
         u.held = {}, u.batch = 0, u.fullBatches = 0
  PROVE  Honest(sch, cho, mes, u)
BY StepsFacts DEF Honest, PublishOK, ChoresOK, DeliverOK, BatchesOK

-----------------------------------------------------------------------------
(* The steps keep every tick honest *)

\* What is due never became so again, and what is queued stays queued.
Forward ==
  /\ \A s \in Schedules : schedule[s] # "later" => /\ schedule'[s] # "later"
                                                   /\ schedule'[s] = "due" => schedule[s] = "due"
  /\ \A r \in Rows : message[r] # "none" => message'[r] # "none"

\* Nothing comes due but what is queued.
NoNews ==
  /\ \A c \in ChoreRows : chore'[c] = "due" => chore[c] = "due"
  /\ \A r \in Rows : message[r] # "none" /\ message'[r] = "due" => message[r] = "due"

Step(w) == TickStep(w) \/ StepFails(w) \/ DeadlinePasses(w) \/ Crash(w)

\* Where a tick is: by the name of its step.
LEMMA AtFacts ==
  ASSUME TypeOK, NEW w \in Workers, NEW name, AtStep(w, name)
  PROVE  /\ tick[w] \in Ticks /\ tick[w].at \in DOMAIN Steps /\ Running(w)
         /\ Steps[tick[w].at] = name
         /\ name = "publish" <=> tick[w].at = 1
         /\ name = "deliver" <=> tick[w].at = Len(Steps)
         /\ name \in ChoreNames <=> tick[w].at \in 2..Len(Steps) - 1
<1>1. tick[w] \in Ticks /\ tick[w].at \in DOMAIN Steps /\ Running(w) /\ Steps[tick[w].at] = name
  BY DEF AtStep, InStep, TypeOK, Running, At
<1>2. tick[w].at = 1 \/ tick[w].at = Len(Steps) \/ tick[w].at \in 2..Len(Steps) - 1
  BY <1>1, StepsFacts
<1> QED BY <1>1, <1>2, StepsFacts

\* What a tick holds has been queued.
LEMMA HeldIsQueued ==
  ASSUME Inv, NEW w \in Workers, Running(w), NEW r \in tick[w].held
  PROVE  message[r] # "none"
BY DEF Inv, Honest, Known

LEMMA StepIsForward ==
  ASSUME Inv, NEW w \in Workers, Step(w)
  PROVE  Forward /\ NoNews /\ Waiting'
<1> USE DEF Forward, NoNews
<1>0. TypeOK /\ Waiting
  BY DEF Inv
<1> USE <1>0 DEF TypeOK, Waiting
<1>1. CASE UNCHANGED workVars
  BY <1>1 DEF workVars
<1>2. CASE StepFails(w) \/ Crash(w)
  <2>1. UNCHANGED <<schedule, chore>> /\ Abandoned(w) /\ Running(w)
    BY <1>2 DEF StepFails, Crash, InStep
  <2>2. \A r \in tick[w].held : message[r] # "none"
    BY <2>1, HeldIsQueued
  <2> QED BY <2>1, <2>2 DEF Abandoned, Rows
<1>3. CASE Publish(w)
  <2>1. AtStep(w, "publish")
    BY <1>3 DEF Publish
  <2>2. tick[w].list \subseteq Schedules
    BY <2>1, AtFacts, Fields
  <2> QED BY <1>3, <2>2 DEF Publish, Queues, Rows
<1>4. CASE MarkFailed(w)
  <2>1. UNCHANGED <<chore, message>> /\ tick[w].refused # None
        /\ schedule' = [schedule EXCEPT ![tick[w].refused] = IF @ = "due" THEN "draft" ELSE @]
    BY <1>4 DEF MarkFailed
  <2> QED BY <2>1
<1>5. CASE DoChore(w)
  <2> DEFINE row == <<Org(w), At(w)>>
  <2>1. /\ UNCHANGED schedule
        /\ UNCHANGED chore \/ chore' = [chore EXCEPT ![row] = "idle"]
        /\ \/ UNCHANGED message
           \/ /\ row \in ChoreRows /\ message[row] = "none"
              /\ Queues(w, row, Onward(tick[w]))
    BY <1>5 DEF DoChore, DueRows
  <2>2. row \in ChoreRows => row \in Rows /\ row \notin Schedules
    BY DEF Rows
  <2> HIDE DEF row
  <2>3. \/ UNCHANGED message
        \/ /\ row \in Rows \ Schedules /\ message[row] = "none"
           /\ \/ message' = [message EXCEPT ![row] = "due"]
              \/ message' = [message EXCEPT ![row] = "later"]
    BY <2>1, <2>2 DEF Queues
  <2> QED BY <2>1, <2>3 DEF Rows
<1>6. CASE Claim(w)
  <2> PICK S \in SUBSET Claimable(w) :
        message' = [r \in Rows |-> IF r \in S THEN "leased" ELSE message[r]]
    BY <1>6 DEF Claim
  <2>1. UNCHANGED <<schedule, chore>>
    BY <1>6 DEF Claim
  <2>2. \A r \in S : r \in Rows /\ message[r] = "due"
    BY DEF Claimable, Of, DueRows
  <2> QED BY <2>1, <2>2 DEF Rows
<1>7. CASE Complete(w)
  <2> PICK retried \in SUBSET tick[w].held :
        message' = [r \in Rows |-> IF r \in retried THEN "later"
                                   ELSE IF r \in tick[w].held THEN "settled" ELSE message[r]]
    BY <1>7 DEF Complete
  <2>1. UNCHANGED <<schedule, chore>> /\ Running(w)
    BY <1>7 DEF Complete, AtStep, InStep
  <2>2. \A r \in tick[w].held : message[r] # "none"
    BY <2>1, HeldIsQueued
  <2> QED BY <2>1, <2>2 DEF Rows
<1> QED
  BY <1>1, <1>2, <1>3, <1>4, <1>5, <1>6, <1>7
  DEF Step, TickStep, StartTick, NextOrganization, EndTick, EndPublish, StopDelivering, Defer, DeadlinePasses

\* What a step of one tick does to another.
LEMMA OthersGoOn ==
  ASSUME Inv, NEW w \in Workers, Step(w), NEW v \in Workers \ {w}
  PROVE  /\ Running(v) <=> Running(v)'
         /\ Running(v) => /\ tick[v] \in Ticks /\ tick'[v] \in Ticks /\ Like(tick[v], tick'[v])
                          /\ tick'[v].owed = tick[v].owed
<1>0. TypeOK
  BY DEF Inv
<1>t. Running(v) => tick[v] \in Ticks /\ Like(tick[v], tick[v])
  BY <1>0 DEF TypeOK, Running, Like
<1>1. CASE \E t : Goes(w, t)
  <2>1. tick'[v] = tick[v]
    BY <1>1, <1>0 DEF Goes, TypeOK
  <2> QED BY <2>1, <1>t DEF Running
<1>2. CASE Gone(w)
  <2>1. tick'[v] = IF ~Running(v) THEN None ELSE Outlives(tick[v], w)
    BY <1>2 DEF Gone
  <2>2. Running(v) => LET u == Outlives(tick[v], w) IN
          u \in Ticks /\ Like(tick[v], u) /\ u.owed = tick[v].owed
    BY <1>t, ChangesKeepTicks
  <2>3. Running(v) => Outlives(tick[v], w) # None
    BY <2>2
  <2> QED BY <2>1, <2>2, <2>3, <1>t DEF Running
<1>3. CASE \E r \in Rows : \E t : Queues(w, r, t)
  <2> PICK r \in Rows : \E t : Queues(w, r, t)
    BY <1>3
  <2> PICK t : Queues(w, r, t)
    OBVIOUS
  <2>1. CASE Goes(w, t)
    BY <2>1, <1>1
  <2>2. CASE tick' = [x \in Workers |-> IF x = w THEN Owing(t, r)
                                        ELSE IF Running(x) /\ w \in tick[x].elders
                                             THEN Hearing(tick[x], r) ELSE tick[x]]
    <3>1. tick'[v] = IF Running(v) /\ w \in tick[v].elders THEN Hearing(tick[v], r) ELSE tick[v]
      BY <2>2
    <3>2. Running(v) => LET u == Hearing(tick[v], r) IN
            u \in Ticks /\ Like(tick[v], u) /\ u.owed = tick[v].owed
      BY <1>t, ChangesKeepTicks
    <3>3. Running(v) => Hearing(tick[v], r) # None
      BY <3>2
    <3> QED BY <3>1, <3>2, <3>3, <1>t DEF Running
  <2> QED BY <2>1, <2>2 DEF Queues
<1>4. CASE Publish(w)
  <2>1. tick[w].list \subseteq Rows
    BY <1>0, <1>4, AtFacts, Fields DEF Publish, Rows
  <2> QED BY <1>4, <2>1, <1>1, <1>3 DEF Publish
<1>5. CASE DoChore(w)
  <2>1. Goes(w, Onward(tick[w])) \/ \E r \in Rows : Queues(w, r, Onward(tick[w]))
    BY <1>5 DEF DoChore, DueRows, Rows
  <2> QED BY <2>1, <1>1, <1>3
<1>6. \/ \E t : Goes(w, t) \/ Gone(w) \/ Publish(w) \/ DoChore(w)
  BY DEF Step, TickStep, StartTick, NextOrganization, EndTick, MarkFailed, EndPublish, Claim,
         Complete, StopDelivering, StepFails, Defer, DeadlinePasses, Crash
<1> QED BY <1>1, <1>2, <1>4, <1>5, <1>6

\* The facts about a tick in a step that the following proofs share.
LEMMA OwnFacts ==
  ASSUME Inv, NEW w \in Workers, Step(w)
  PROVE  /\ TypeOK /\ Forward /\ NoNews
         /\ Running(w) => tick[w] \in Ticks /\ Honest(schedule, chore, message, tick[w])
         /\ \A t : Goes(w, t) => tick'[w] = t
BY StepIsForward DEF Inv, TypeOK, Running, Goes

\* The tick after its step.
LEMMA OwnStepOver ==
  ASSUME Inv, NEW w \in Workers, Step(w), Running(w), NEW u \in Ticks, tick'[w] = u,
         PassedOn(tick[w], u), Over(schedule', chore', message', tick[w], u)
  PROVE  Honest(schedule', chore', message', tick'[w])
<1>1. tick[w] \in Ticks /\ Honest(schedule, chore, message, tick[w]) /\ Forward /\ NoNews
  BY OwnFacts
<1>2. \A c \in u.owed.chores : chore'[c] = "due" => chore[c] = "due"
  BY <1>1, Fields DEF NoNews
<1>3. Honest(schedule', chore', message', u)
  BY <1>1, <1>2, StepOver DEF Forward
<1> QED BY <1>3

\* The tick that stays in its step.
LEMMA OwnCalm ==
  ASSUME Inv, NEW w \in Workers, Step(w), Running(w), NEW u \in Ticks, tick'[w] = u,
         Like(tick[w], u)
  PROVE  Honest(schedule', chore', message', tick'[w])
<1>1. tick[w] \in Ticks /\ Honest(schedule, chore, message, tick[w]) /\ Forward /\ NoNews
  BY OwnFacts
<1>2. u.owed.chores \subseteq ChoreRows /\ u.owed.messages \subseteq Rows
  BY Fields
<1>3. Calm(schedule, chore, message, schedule', chore', message', u)
  BY <1>1, <1>2 DEF Forward, NoNews, Calm
<1>4. Honest(schedule', chore', message', u)
  BY <1>1, <1>3, CalmKeeps
<1> QED BY <1>4

LEMMA OwnStart ==
  ASSUME Inv, NEW w \in Workers, StartTick(w)
  PROVE  Honest(schedule', chore', message', tick'[w])
<1> PICK o \in Orgs :
      Goes(w, Begun([org |-> o, rest |-> {p \in Orgs \ {o} : HasDueWork(p)}, at |-> 1,
                     list |-> {}, refused |-> None, batch |-> 0, held |-> {},
                     owed |-> DueRows, news |-> {}, elders |-> {v \in Workers : Running(v)},
                     errors |-> {}, fullBatches |-> 0, late |-> FALSE]))
  BY DEF StartTick
<1> DEFINE t == [org |-> o, rest |-> {p \in Orgs \ {o} : HasDueWork(p)}, at |-> 1,
                 list |-> {}, refused |-> None, batch |-> 0, held |-> {},
                 owed |-> DueRows, news |-> {}, elders |-> {v \in Workers : Running(v)},
                 errors |-> {}, fullBatches |-> 0, late |-> FALSE]
           u == Begun(t)
<1>1. t \in Ticks
  BY StepsFacts DEF Ticks, DueRows
<1>2. t.org = o /\ t.owed = DueRows /\ t.held = {} /\ t.batch = 0 /\ t.fullBatches = 0
  OBVIOUS
<1>3. tick'[w] = Begun(t)
  BY OwnFacts DEF Step, TickStep
<1> HIDE DEF t
<1>4. /\ u \in Ticks /\ u.at = 1 /\ u.org = o /\ u.owed = DueRows /\ u.held = {}
      /\ u.list = Of(o, DueRows.schedules \intersect DueRows.schedules)
      /\ u.batch = 0 /\ u.fullBatches = 0
  BY <1>1, <1>2, BegunFacts DEF Counted
<1> HIDE DEF u
<1>5. Left(o, schedule, DueRows.schedules) \subseteq u.list
  BY <1>4 DEF Left, Of, DueRows
<1>6. Known(schedule, message, u)
  BY <1>4 DEF Known, DueRows
<1>7. Honest(schedule, chore, message, u)
  BY <1>4, <1>5, <1>6, BeginsHonest
<1> QED BY <1>3, <1>7 DEF u, StartTick, workVars

LEMMA OwnTurn ==
  ASSUME Inv, NEW w \in Workers, NextOrganization(w)
  PROVE  Honest(schedule', chore', message', tick'[w])
<1> PICK o \in tick[w].rest : Goes(w, TurnTo(tick[w], o))
  BY DEF NextOrganization
<1> DEFINE t == tick[w]  u == TurnTo(t, o)
<1>1. t \in Ticks /\ Honest(schedule, chore, message, t) /\ t.at > Len(Steps)
  BY OwnFacts DEF Step, TickStep, NextOrganization, AllDone
<1>h. t.held = {}
  BY <1>1, Fields, StepsFacts DEF Honest, BatchesOK
<1>2. tick'[w] = u
  BY OwnFacts DEF Step, TickStep
<1>r. o \in t.rest
  OBVIOUS
<1>3. /\ u \in Ticks /\ u.at = 1 /\ u.org = o /\ u.held = t.held
      /\ u.list = Of(o, DueRows.schedules \intersect u.owed.schedules)
      /\ u.owed.schedules \subseteq t.owed.schedules /\ u.owed.messages \subseteq t.owed.messages
  <2>1. t \in Ticks /\ o \in t.rest
    BY <1>1, <1>r
  <2> HIDE DEF t
  <2> QED BY <2>1, TurnFacts
<1>b. u.batch = 0 /\ u.fullBatches = 0
  <2>1. t \in Ticks /\ o \in t.rest
    BY <1>1, <1>r
  <2> HIDE DEF t
  <2> QED BY <2>1, TurnCounts
<1>4. u.owed.schedules \subseteq Schedules
  BY <1>3, Fields
<1> HIDE DEF u
<1>5. Left(o, schedule, u.owed.schedules) \subseteq u.list
  BY <1>3, <1>4 DEF Left, Of, DueRows
<1>6. Known(schedule, message, u)
  BY <1>1, <1>3 DEF Honest, Known
<1>7. Honest(schedule, chore, message, u)
  BY <1>3, <1>5, <1>6, <1>b, <1>h, BeginsHonest
<1> QED BY <1>2, <1>7 DEF NextOrganization, workVars

LEMMA OwnFails ==
  ASSUME Inv, NEW w \in Workers, StepFails(w)
  PROVE  Honest(schedule', chore', message', tick'[w])
<1> DEFINE t == tick[w]  u == Caught(w)
<1>1. Step(w) /\ InStep(w) /\ Running(w)
  BY DEF Step, StepFails, InStep
<1>2. t \in Ticks /\ t.at \in DOMAIN Steps /\ Honest(schedule, chore, message, t) /\ Forward
      /\ tick'[w] = u
  BY <1>1, OwnFacts DEF InStep, StepFails
<1>3. /\ u \in Ticks /\ u.at = t.at + 1 /\ u.org = t.org /\ u.owed = t.owed
      /\ u.errors = t.errors \union {<<t.org, Steps[t.at]>>} /\ u.held = {} /\ Counted(t, u)
  BY <1>2, CaughtFacts
<1>4. \A r \in u.owed.messages : message'[r] # "none"
  BY <1>2, <1>3, Fields DEF Honest, Known, Forward
<1> HIDE DEF u
<1>5. Over(schedule', chore', message', t, u)
  BY <1>2, <1>3, <1>4, StepsFacts DEF Over
<1>6. PassedOn(t, u)
  BY <1>2, <1>3 DEF PassedOn
<1> QED BY <1>1, <1>2, <1>3, <1>5, <1>6, OwnStepOver

LEMMA OwnPublish ==
  ASSUME Inv, NEW w \in Workers, Publish(w)
  PROVE  Honest(schedule', chore', message', tick'[w])
<1> PICK s \in tick[w].list :
      LET t == [tick[w] EXCEPT !.list = @ \ {s}] IN
      \/ schedule[s] # "due" /\ Goes(w, t) /\ UNCHANGED <<schedule, message>>
      \/ /\ schedule[s] = "due"
         /\ schedule' = [schedule EXCEPT ![s] = "published"] /\ Queues(w, s, t)
      \/ /\ schedule[s] = "due"
         /\ schedule' = [schedule EXCEPT ![s] = "expired"] /\ Goes(w, t) /\ UNCHANGED message
      \/ schedule[s] = "due" /\ s \in Doubtful
         /\ Goes(w, [t EXCEPT !.refused = s]) /\ UNCHANGED <<schedule, message>>
  BY DEF Publish
<1> DEFINE t == tick[w]  x == [tick[w] EXCEPT !.list = @ \ {s}]  y == [x EXCEPT !.refused = s]
           u == tick'[w]
<1>1. Step(w) /\ AtStep(w, "publish") /\ UNCHANGED chore /\ t.refused = None
  BY DEF Step, TickStep, Publish
<1>2. t \in Ticks /\ t.at = 1 /\ Honest(schedule, chore, message, t) /\ Forward /\ NoNews /\ TypeOK
  BY <1>1, OwnFacts, AtFacts
<1>3. s \in Schedules /\ s \in Rows
  BY <1>2, Fields DEF Rows
<1>4. /\ x \in Ticks /\ x.at = 1 /\ x.org = t.org /\ x.owed = t.owed /\ x.held = t.held
      /\ x.batch = t.batch /\ x.fullBatches = t.fullBatches
      /\ x.list = t.list \ {s} /\ x.refused = None
  BY <1>1, <1>2 DEF Ticks
<1>5. /\ y \in Ticks /\ y.at = 1 /\ y.org = t.org /\ y.owed = t.owed /\ y.held = t.held
      /\ y.batch = t.batch /\ y.fullBatches = t.fullBatches
      /\ y.list = t.list \ {s} /\ y.refused = s
  BY <1>1, <1>2, <1>3 DEF Ticks
<1> HIDE DEF x
<1>6. LET z == Owing(x, s) IN
      /\ z \in Ticks /\ z.at = 1 /\ z.org = t.org /\ z.held = t.held
      /\ z.batch = t.batch /\ z.fullBatches = t.fullBatches
      /\ z.owed.schedules = t.owed.schedules /\ z.owed.messages = t.owed.messages \union {s}
      /\ z.list = t.list \ {s} /\ z.refused = None
  BY <1>3, <1>4, ChangesKeepTicks DEF Counted
<1>7. \/ /\ Goes(w, x) /\ UNCHANGED message
         /\ \/ schedule[s] # "due" /\ UNCHANGED schedule
            \/ schedule' = [schedule EXCEPT ![s] = "expired"]
      \/ Queues(w, s, x) /\ schedule' = [schedule EXCEPT ![s] = "published"]
      \/ Goes(w, y) /\ UNCHANGED <<schedule, message>>
  BY DEF x
<1> HIDE DEF y
<1>8. Queues(w, s, x) => /\ u \in {x, Owing(x, s)}
                         /\ message'[s] # "none"
  BY <1>1, <1>2, <1>3, OwnFacts DEF Queues, TypeOK
<1>9. Goes(w, x) => u = x
  BY <1>1, OwnFacts
<1>10. Goes(w, y) => u = y
  BY <1>1, OwnFacts
<1>11. /\ u \in Ticks /\ u.at = 1 /\ u.org = t.org /\ u.held = t.held
       /\ u.batch = t.batch /\ u.fullBatches = t.fullBatches
       /\ u.owed.schedules = t.owed.schedules
       /\ \A r \in u.owed.messages : r \in t.owed.messages \/ message'[r] # "none"
       /\ u.list = t.list \ {s}
       /\ schedule'[s] = "due" => u.refused = s
  BY <1>2, <1>3, <1>4, <1>5, <1>6, <1>7, <1>8, <1>9, <1>10 DEF TypeOK
<1>12. Known(schedule', message', u)
  <2>1. t.owed.schedules \subseteq Schedules /\ t.owed.messages \union t.held \subseteq Rows
    BY <1>2, Fields
  <2>2. \A r \in t.owed.messages \union t.held : message'[r] # "none"
    BY <2>1, <1>2 DEF Honest, Known, Forward
  <2>3. \A q \in t.owed.schedules : schedule'[q] # "later"
    BY <2>1, <1>2 DEF Honest, Known, Forward
  <2> QED BY <2>2, <2>3, <1>11 DEF Known
<1>13. \A q \in Left(u.org, schedule', u.owed.schedules) : q \in Left(t.org, schedule, t.owed.schedules)
  BY <1>2, <1>11, Fields DEF Left, Honest, Known, Forward
<1>14. Left(u.org, schedule', u.owed.schedules) \subseteq u.list \union {u.refused}
  <2> SUFFICES ASSUME NEW q \in Left(u.org, schedule', u.owed.schedules)
               PROVE  q \in u.list \union {u.refused}
    OBVIOUS
  <2>1. q \in t.list \union {t.refused} /\ schedule'[q] = "due" /\ q \in Schedules
    BY <1>2, <1>11, <1>13, Fields DEF Honest, PublishOK, Left
  <2> QED BY <2>1, <1>1, <1>11
<1> QED BY <1>2, <1>11, <1>12, <1>14, StepsFacts DEF Honest, PublishOK, ChoresOK, DeliverOK, BatchesOK

LEMMA OwnMarkFailed ==
  ASSUME Inv, NEW w \in Workers, MarkFailed(w)
  PROVE  Honest(schedule', chore', message', tick'[w])
<1> DEFINE t == tick[w]  u == [t EXCEPT !.refused = None]
<1>1. /\ Step(w) /\ AtStep(w, "publish") /\ UNCHANGED <<chore, message>> /\ t.refused # None
      /\ schedule' = [schedule EXCEPT ![t.refused] = IF @ = "due" THEN "draft" ELSE @]
  BY DEF Step, TickStep, MarkFailed
<1>2. /\ t \in Ticks /\ t.at = 1 /\ Honest(schedule, chore, message, t) /\ Forward /\ TypeOK
      /\ tick'[w] = u
  BY <1>1, OwnFacts, AtFacts DEF MarkFailed
<1>3. /\ u \in Ticks /\ u.at = 1 /\ u.org = t.org /\ u.owed = t.owed /\ u.held = t.held
      /\ u.batch = t.batch /\ u.fullBatches = t.fullBatches
      /\ u.list = t.list /\ u.refused = None
  BY ZenonT(60), <1>2, UpdateFacts DEF Ticks
<1> HIDE DEF u
<1>4. /\ t.owed.schedules \subseteq Schedules /\ t.owed.messages \union t.held \subseteq Rows
      /\ t.refused \in Schedules
  BY <1>1, <1>2, Fields
<1>5. Known(schedule', message', u)
  BY <1>2, <1>3, <1>4 DEF Honest, Known, Forward
<1>6. Left(u.org, schedule', u.owed.schedules) \subseteq u.list \union {u.refused}
  <2> SUFFICES ASSUME NEW q \in Left(u.org, schedule', u.owed.schedules)
               PROVE  q \in t.list
    BY <1>3
  <2>1. q \in t.owed.schedules /\ q \in Schedules /\ schedule'[q] = "due" /\ OwnerOf(q) = t.org
    BY <1>3, <1>4 DEF Left
  <2>2. schedule[q] = "due" /\ q # t.refused
    BY <1>1, <1>2, <1>4, <2>1 DEF TypeOK
  <2> QED BY <1>2, <2>1, <2>2 DEF Honest, PublishOK, Left
<1> QED BY <1>2, <1>3, <1>5, <1>6, StepsFacts DEF Honest, PublishOK, ChoresOK, DeliverOK, BatchesOK

LEMMA OwnEndPublish ==
  ASSUME Inv, NEW w \in Workers, EndPublish(w)
  PROVE  Honest(schedule', chore', message', tick'[w])
<1> DEFINE t == tick[w]  u == Onward(t)
<1>1. /\ Step(w) /\ AtStep(w, "publish") /\ UNCHANGED workVars /\ t.refused = None /\ t.list = {}
      /\ Goes(w, u)
  BY DEF Step, TickStep, EndPublish
<1>2. /\ t \in Ticks /\ t.at = 1 /\ Honest(schedule, chore, message, t) /\ tick'[w] = u
      /\ Running(w) /\ t.at \in DOMAIN Steps
  BY <1>1, OwnFacts, AtFacts
<1>3. /\ u \in Ticks /\ u.at = t.at + 1 /\ u.org = t.org /\ u.owed = t.owed
      /\ u.errors = t.errors /\ u.held = {} /\ Counted(t, u)
  BY <1>2, OnwardFacts
<1> HIDE DEF u
<1>4. Left(u.org, schedule, u.owed.schedules) = {}
  <2>1. Left(t.org, schedule, t.owed.schedules) \subseteq {None}
    BY <1>1, <1>2 DEF Honest, PublishOK
  <2>2. t.owed.schedules \subseteq Schedules
    BY <1>2, Fields
  <2> QED BY <1>3, <2>1, <2>2 DEF Left
<1>5. \A r \in u.owed.messages : message[r] # "none"
  BY <1>2, <1>3 DEF Honest, Known
<1>6. Over(schedule', chore', message', t, u)
  BY <1>1, <1>2, <1>4, <1>5, StepsFacts DEF Over, workVars
<1>7. PassedOn(t, u)
  BY <1>2, <1>3 DEF PassedOn
<1> QED BY <1>1, <1>2, <1>3, <1>6, <1>7, OwnStepOver

LEMMA OwnDoChore ==
  ASSUME Inv, NEW w \in Workers, DoChore(w)
  PROVE  Honest(schedule', chore', message', tick'[w])
<1> DEFINE t == tick[w]  o == Onward(t)  u == tick'[w]  row == <<Org(w), At(w)>>
<1>1. PICK name \in ChoreNames : AtStep(w, name)
  BY DEF DoChore
<1>2. /\ t \in Ticks /\ t.at \in 2..Len(Steps) - 1 /\ t.at \in DOMAIN Steps /\ Running(w)
      /\ row = <<t.org, Steps[t.at]>>
  BY <1>1, AtFacts DEF Inv, Org, At
<1>3. Step(w) /\ TypeOK /\ Honest(schedule, chore, message, t) /\ Forward
  BY <1>2, OwnFacts DEF Step, TickStep
<1>4. /\ o \in Ticks /\ o.at = t.at + 1 /\ o.org = t.org /\ o.owed = t.owed
      /\ o.errors = t.errors /\ o.held = {} /\ Counted(t, o)
  BY <1>2, OnwardFacts
<1>5. \/ /\ row \in t.owed.chores /\ chore[row] = "due" /\ chore' = [chore EXCEPT ![row] = "idle"]
         /\ Goes(w, o) \/ Queues(w, row, o)
      \/ /\ ~(row \in ChoreRows /\ chore[row] = "due" /\ row \in t.owed.chores)
         /\ UNCHANGED chore /\ Goes(w, o)
  BY DEF DoChore, DueRows
<1>6. t.owed.chores \subseteq ChoreRows /\ t.owed.messages \subseteq Rows
  BY <1>2, Fields
<1> HIDE DEF o, row
<1>7. row \in Rows => LET z == Owing(o, row) IN
        /\ z \in Ticks /\ z.at = o.at /\ z.org = o.org /\ z.held = o.held /\ z.errors = o.errors
        /\ z.owed.schedules = o.owed.schedules /\ z.owed.chores = o.owed.chores
        /\ z.owed.messages = o.owed.messages \union {row} /\ Counted(o, z)
  BY <1>4, ChangesKeepTicks
<1>8. Goes(w, o) => u = o
  BY <1>3, OwnFacts
<1>9. row \in Rows /\ Queues(w, row, o) => u \in {o, Owing(o, row)} /\ message'[row] # "none"
  BY <1>3, <1>8 DEF Queues, TypeOK
<1>10. /\ u \in Ticks /\ u.at = t.at + 1 /\ u.org = t.org /\ u.held = {} /\ u.errors = t.errors
       /\ u.owed.schedules = t.owed.schedules /\ u.owed.chores = t.owed.chores
       /\ \A r \in u.owed.messages : r \in t.owed.messages \/ message'[r] # "none"
       /\ Counted(t, u)
  <2>1. CASE Goes(w, o)
    BY <2>1, <1>4, <1>8
  <2>2. CASE row \in t.owed.chores /\ Queues(w, row, o)
    <3>1. row \in Rows
      BY <2>2, <1>6 DEF Rows
    <3> QED BY <2>2, <3>1, <1>4, <1>7, <1>9 DEF Counted
  <2> QED BY <2>1, <2>2, <1>5
<1>11. \A r \in u.owed.messages : message'[r] # "none"
  BY <1>3, <1>6, <1>10 DEF Honest, Known, Forward
<1>12. row \notin Left(u.org, chore', u.owed.chores)
  BY <1>3, <1>5, <1>6, <1>10 DEF Left, TypeOK
<1> HIDE DEF u
<1>13. Over(schedule', chore', message', t, u)
  BY <1>2, <1>10, <1>11, <1>12, StepsFacts DEF Over
<1>14. PassedOn(t, u)
  BY <1>2, <1>10 DEF PassedOn
<1> QED BY <1>2, <1>3, <1>10, <1>13, <1>14, OwnStepOver DEF u

\* The delivery is over: nothing is left, or it is reported.
LEMMA OwnDelivered ==
  ASSUME Inv, NEW w \in Workers, Step(w), AtStep(w, "deliver"),
         NEW u \in Ticks, tick'[w] = u, PassedOn(tick[w], u),
         AtItsLimit(u) \/ Left(u.org, message', u.owed.messages) = {},
         u.owed.messages = tick[w].owed.messages
  PROVE  Honest(schedule', chore', message', tick'[w])
<1>1. /\ tick[w] \in Ticks /\ tick[w].at = Len(Steps) /\ Running(w)
      /\ Honest(schedule, chore, message, tick[w]) /\ Forward
  BY OwnFacts, AtFacts
<1>2. \A r \in u.owed.messages : message'[r] # "none"
  BY <1>1, Fields DEF Honest, Known, Forward
<1>3. Over(schedule', chore', message', tick[w], u)
  BY <1>1, <1>2, StepsFacts DEF Over
<1> QED BY <1>1, <1>3, OwnStepOver

LEMMA OwnClaim ==
  ASSUME Inv, NEW w \in Workers, Claim(w)
  PROVE  Honest(schedule', chore', message', tick'[w])
<1> DEFINE t == tick[w]
<1>1. PICK S \in SUBSET Claimable(w) :
        /\ Cardinality(S) = BatchSize \/ (S = Claimable(w) /\ Cardinality(S) < BatchSize)
        /\ message' = [r \in Rows |-> IF r \in S THEN "leased" ELSE message[r]]
        /\ Goes(w, IF S = {} THEN Onward(t) ELSE [t EXCEPT !.held = S, !.batch = @ + 1])
  BY DEF Claim
<1>2. Step(w) /\ AtStep(w, "deliver") /\ t.batch < MaxBatches /\ UNCHANGED <<schedule, chore>>
      /\ t.held = {}
  BY DEF Step, TickStep, Claim
<1>3. /\ t \in Ticks /\ t.at = Len(Steps) /\ t.at \in DOMAIN Steps /\ Running(w) /\ TypeOK
      /\ Honest(schedule, chore, message, t) /\ Forward
  BY <1>2, OwnFacts, AtFacts
<1>4. t.owed.messages \subseteq Rows /\ S \subseteq Rows
  BY <1>3, Fields DEF Claimable, Of, DueRows
<1>5. S = Claimable(w) => Left(t.org, message', t.owed.messages) = {}
  <2> SUFFICES ASSUME S = Claimable(w), NEW r \in Left(t.org, message', t.owed.messages)
               PROVE  FALSE
    OBVIOUS
  <2>1. r \in Rows /\ r \in t.owed.messages /\ message'[r] = "due" /\ OwnerOf(r) = t.org
    BY <1>4 DEF Left
  <2>2. r \notin S /\ message[r] = "due"
    BY <1>1, <2>1
  <2> QED BY <2>1, <2>2 DEF Claimable, Of, DueRows, Org
<1>6. CASE S = {}
  <2> DEFINE u == Onward(t)
  <2>1. Cardinality(S) # BatchSize
    BY <1>6, FS_EmptySet
  <2>2. Left(t.org, message', t.owed.messages) = {}
    BY <1>1, <1>5, <2>1
  <2>3. /\ u \in Ticks /\ u.at = t.at + 1 /\ u.org = t.org /\ u.owed = t.owed
        /\ u.errors = t.errors /\ u.held = {} /\ Counted(t, u)
    BY <1>3, OnwardFacts
  <2>4. tick'[w] = u
    BY <1>1, <1>2, <1>6, OwnFacts
  <2> HIDE DEF u
  <2>5. PassedOn(t, u)
    BY <1>3, <2>3 DEF PassedOn
  <2> QED BY <1>2, <2>2, <2>3, <2>4, <2>5, OwnDelivered
<1>7. CASE S # {}
  <2> DEFINE u == [t EXCEPT !.held = S, !.batch = @ + 1]
  <2>1. u \in Ticks
    BY <1>2, <1>3, <1>4, UpdateFacts
  <2>2. /\ u.at = t.at /\ u.org = t.org /\ u.owed = t.owed /\ u.errors = t.errors /\ u.held = S
        /\ u.list = t.list /\ u.refused = t.refused
        /\ u.batch = t.batch + 1 /\ u.fullBatches = t.fullBatches
    BY <1>3 DEF Ticks
  <2>3. tick'[w] = u
    BY <1>1, <1>2, <1>7, OwnFacts
  <2> HIDE DEF u
  <2>4. Known(schedule', message', u)
    <3>1. \A r \in t.owed.messages : message'[r] # "none"
      BY <1>3, <1>4 DEF Honest, Known, Forward
    <3>2. \A r \in S : message'[r] # "none"
      BY <1>1, <1>4
    <3> QED BY <1>2, <1>3, <2>2, <3>1, <3>2 DEF Honest, Known
  <2>5. PublishOK(schedule', u) /\ ChoresOK(chore', u)
    BY <1>2, <1>3, <2>2 DEF Honest, PublishOK, ChoresOK
  <2>6. DeliverOK(message', u)
    <3>1. Cardinality(S) < BatchSize => S = Claimable(w)
      BY <1>1
    <3> QED BY <1>3, <1>5, <2>2, <3>1, StepsFacts DEF DeliverOK
  <2>7. BatchesOK(u)
    BY <1>2, <1>3, <1>7, <2>2, Fields, StepsFacts DEF Honest, BatchesOK
  <2> QED BY <2>3, <2>4, <2>5, <2>6, <2>7 DEF Honest
<1> QED BY <1>6, <1>7

LEMMA OwnComplete ==
  ASSUME Inv, NEW w \in Workers, Complete(w)
  PROVE  Honest(schedule', chore', message', tick'[w])
<1> DEFINE t == tick[w]
<1>1. /\ Step(w) /\ AtStep(w, "deliver") /\ t.held # {} /\ UNCHANGED <<schedule, chore>>
      /\ Goes(w, AfterBatch(t))
  BY DEF Step, TickStep, Complete
<1>2. /\ t \in Ticks /\ t.at = Len(Steps) /\ t.at \in DOMAIN Steps /\ Running(w)
      /\ Honest(schedule, chore, message, t) /\ Forward /\ NoNews /\ tick'[w] = AfterBatch(t)
  BY <1>1, OwnFacts, AtFacts
<1>3. \A r \in t.owed.messages : message'[r] = "due" => message[r] = "due"
  BY <1>2, Fields DEF NoNews, Honest, Known
<1>4. CASE Cardinality(t.held) < BatchSize
  <2> DEFINE u == Onward(t)
  <2>1. Left(t.org, message, t.owed.messages) = {}
    BY <1>1, <1>2, <1>4 DEF Honest, DeliverOK
  <2>2. Left(t.org, message', t.owed.messages) = {}
    BY <1>3, <2>1 DEF Left
  <2>3. /\ u \in Ticks /\ u.at = t.at + 1 /\ u.org = t.org /\ u.owed = t.owed
        /\ u.errors = t.errors /\ u.held = {} /\ Counted(t, u)
    BY <1>2, OnwardFacts
  <2>4. tick'[w] = u
    BY <1>2, <1>4 DEF AfterBatch
  <2> HIDE DEF u
  <2>5. PassedOn(t, u)
    BY <1>2, <2>3 DEF PassedOn
  <2> QED BY <1>1, <2>2, <2>3, <2>4, <2>5, OwnDelivered
<1>5. CASE ~(Cardinality(t.held) < BatchSize)
  <2> DEFINE u == [t EXCEPT !.fullBatches = @ + 1, !.held = {}]
  <2>1. u \in Ticks
    BY <1>2, UpdateFacts
  <2>2. /\ u.at = t.at /\ u.org = t.org /\ u.owed = t.owed /\ u.errors = t.errors /\ u.held = {}
        /\ u.list = t.list /\ u.refused = t.refused
        /\ u.batch = t.batch /\ u.fullBatches = t.fullBatches + 1
    BY <1>2 DEF Ticks
  <2>3. tick'[w] = u
    BY <1>2, <1>5 DEF AfterBatch
  <2> HIDE DEF u
  <2>4. Known(schedule', message', u)
    <3>1. \A r \in t.owed.messages : message'[r] # "none"
      BY <1>2, Fields DEF Honest, Known, Forward
    <3> QED BY <1>1, <1>2, <2>2, <3>1 DEF Honest, Known
  <2>5. PublishOK(schedule', u) /\ ChoresOK(chore', u)
    BY <1>1, <1>2, <2>2 DEF Honest, PublishOK, ChoresOK
  <2>6. DeliverOK(message', u)
    BY <1>2, <2>2, StepsFacts DEF DeliverOK
  <2>7. BatchesOK(u)
    BY <1>1, <1>2, <2>2, Fields, StepsFacts DEF Honest, BatchesOK
  <2> QED BY <2>3, <2>4, <2>5, <2>6, <2>7 DEF Honest
<1> QED BY <1>4, <1>5

LEMMA OwnStopDelivering ==
  ASSUME Inv, NEW w \in Workers, StopDelivering(w)
  PROVE  Honest(schedule', chore', message', tick'[w])
<1> DEFINE t == tick[w]  u == Onward(t)
<1>1. /\ Step(w) /\ AtStep(w, "deliver") /\ UNCHANGED workVars /\ Goes(w, u)
      /\ t.held = {} /\ t.batch > 0 /\ (t.batch = MaxBatches \/ t.late)
  BY DEF Step, TickStep, StopDelivering
<1>2. /\ t \in Ticks /\ t.at \in DOMAIN Steps /\ t.at = Len(Steps) /\ tick'[w] = u
      /\ Honest(schedule, chore, message, t)
  BY <1>1, OwnFacts, AtFacts
<1>3. /\ u \in Ticks /\ u.at = t.at + 1 /\ u.org = t.org /\ u.owed = t.owed
      /\ u.errors = t.errors /\ u.held = {} /\ Counted(t, u)
  BY <1>2, OnwardFacts
<1> HIDE DEF u
<1>4. AtItsLimit(u)
  <2>1. t.fullBatches = t.batch
    BY <1>1, <1>2, Fields DEF Honest, BatchesOK
  <2> QED BY <1>1, <1>3, <2>1 DEF AtItsLimit, Counted
<1>5. PassedOn(t, u)
  BY <1>2, <1>3 DEF PassedOn
<1> QED BY <1>1, <1>2, <1>3, <1>4, <1>5, OwnDelivered

LEMMA OwnDeadlinePasses ==
  ASSUME Inv, NEW w \in Workers, DeadlinePasses(w)
  PROVE  /\ Running(w) /\ tick[w] \in Ticks /\ tick'[w] \in Ticks /\ Like(tick[w], tick'[w])
         /\ Honest(schedule', chore', message', tick'[w])
<1> DEFINE t == tick[w]  u == [t EXCEPT !.late = TRUE]
<1>1. Step(w) /\ Running(w) /\ Goes(w, u)
  BY DEF Step, DeadlinePasses
<1>2. t \in Ticks /\ tick'[w] = u
  BY <1>1, OwnFacts
<1>3. u \in Ticks
  BY <1>2, UpdateFacts
<1>4. Like(t, u)
  BY <1>2 DEF Like, Ticks
<1> HIDE DEF u
<1> QED BY <1>1, <1>2, <1>3, <1>4, OwnCalm

\* Between two organizations, and when it starts, a tick moves; in a step it stays.
LEMMA OwnGoesOn ==
  ASSUME Inv, NEW w \in Workers,
         \/ Publish(w) \/ MarkFailed(w) \/ EndPublish(w) \/ DoChore(w)
         \/ Claim(w) \/ Complete(w) \/ StopDelivering(w) \/ StepFails(w)
  PROVE  /\ Running(w) /\ tick'[w] \in Ticks
         /\ tick'[w].org = tick[w].org /\ tick'[w].rest = tick[w].rest
<1> DEFINE t == tick[w]  o == Onward(t)
           Same(u) == u \in Ticks /\ u.org = t.org /\ u.rest = t.rest
<1>1. Step(w) /\ InStep(w) /\ Running(w)
  BY DEF Step, TickStep, InStep, AtStep, Publish, MarkFailed, EndPublish, DoChore, Claim, Complete,
         StopDelivering, StepFails
<1>2. t \in Ticks /\ t.at \in DOMAIN Steps /\ TypeOK
  BY <1>1, OwnFacts DEF InStep
<1>3. Same(t) /\ Same(o)
  BY <1>2, OnwardFacts
<1>4. \A u : Goes(w, u) => tick'[w] = u
  BY <1>1, OwnFacts
<1> SUFFICES Same(tick'[w])
  BY <1>1
<1>5. ASSUME NEW r \in Rows, NEW u, Same(u), Queues(w, r, u)
      PROVE  Same(tick'[w])
  <2>1. Same(Owing(u, r))
    BY <1>5, ChangesKeepTicks
  <2>2. tick'[w] \in {u, Owing(u, r)}
    BY <1>5, <1>4 DEF Queues
  <2> QED BY <1>5, <2>1, <2>2
<1>6. CASE Publish(w)
  <2> PICK s \in tick[w].list :
        LET x == [tick[w] EXCEPT !.list = @ \ {s}] IN
        \/ Goes(w, x) \/ Queues(w, s, x) \/ Goes(w, [x EXCEPT !.refused = s])
    BY <1>6 DEF Publish
  <2> DEFINE x == [t EXCEPT !.list = @ \ {s}]  y == [x EXCEPT !.refused = s]
  <2>1. s \in Schedules /\ s \in Rows
    BY <1>2, Fields DEF Rows
  <2>2. Same(x)
    BY <1>2 DEF Ticks
  <2>3. Same(y)
    BY <1>2, <2>1 DEF Ticks
  <2>4. Goes(w, x) \/ Queues(w, s, x) \/ Goes(w, y)
    OBVIOUS
  <2> HIDE DEF x, y, Same
  <2> QED BY <2>1, <2>2, <2>3, <2>4, <1>4, <1>5
<1>7. CASE MarkFailed(w)
  <2>1. Same([t EXCEPT !.refused = None])
    BY ZenonT(60), <1>2, UpdateFacts DEF Ticks
  <2> QED BY <1>7, <1>4, <2>1 DEF MarkFailed
<1>8. CASE EndPublish(w)
  BY <1>8, <1>3, <1>4 DEF EndPublish
<1>9. CASE DoChore(w)
  <2>1. Goes(w, o) \/ \E r \in Rows : Queues(w, r, o)
    BY <1>9 DEF DoChore, DueRows, Rows
  <2> HIDE DEF o, Same
  <2> QED BY <2>1, <1>3, <1>4, <1>5
<1>10. CASE Claim(w)
  <2> PICK S \in SUBSET Claimable(w) :
        Goes(w, IF S = {} THEN o ELSE [t EXCEPT !.held = S, !.batch = @ + 1])
    BY <1>10 DEF Claim
  <2>1. S \subseteq Rows /\ t.batch < MaxBatches
    BY <1>10 DEF Claim, Claimable, Of, DueRows
  <2>2. Same([t EXCEPT !.held = S, !.batch = @ + 1])
    BY ZenonT(60), <1>2, <2>1, UpdateFacts DEF Ticks
  <2> QED BY <1>3, <1>4, <2>2
<1>11. CASE Complete(w)
  <2>1. Same([t EXCEPT !.fullBatches = @ + 1, !.held = {}])
    BY ZenonT(60), <1>2, UpdateFacts DEF Ticks
  <2>2. Same(AfterBatch(t))
    BY <1>3, <2>1 DEF AfterBatch
  <2> QED BY <1>11, <1>4, <2>2 DEF Complete
<1>12. CASE StopDelivering(w)
  BY <1>12, <1>3, <1>4 DEF StopDelivering
<1>13. CASE StepFails(w)
  <2>1. Same(Caught(w))
    BY <1>2, CaughtFacts
  <2> QED BY <1>13, <1>4, <2>1 DEF StepFails
<1> QED BY SMTT(60), <1>6, <1>7, <1>8, <1>9, <1>10, <1>11, <1>12, <1>13

\* What comes due now is owed by nobody yet.
World == \/ \E c \in ChoreRows : ChoreComesDue(c)
         \/ TimePasses

LEMMA WorldIsCalm ==
  ASSUME Inv, World
  PROVE  /\ Waiting'
         /\ \A v \in Workers : /\ Running(v) <=> Running(v)'
                               /\ Running(v) => /\ tick[v] \in Ticks /\ tick'[v] \in Ticks
                                                /\ Like(tick[v], tick'[v])
                                                /\ Calm(schedule, chore, message,
                                                        schedule', chore', message', tick'[v])
<1>0. TypeOK /\ Waiting
  BY DEF Inv
<1>t. \A v \in Workers : Running(v) => tick[v] \in Ticks /\ Like(tick[v], tick[v])
  BY <1>0 DEF TypeOK, Running, Like
<1>l. ASSUME NEW row, TooLate(row), NEW v \in Workers
      PROVE  /\ Running(v) <=> Running(v)'
             /\ Running(v) => /\ tick'[v] \in Ticks /\ Like(tick[v], tick'[v])
                              /\ row \notin tick'[v].owed.chores
                              /\ row \notin tick'[v].owed.messages
  <2>1. tick'[v] = IF Running(v) THEN Without(tick[v], row) ELSE None
    BY <1>l DEF TooLate
  <2>2. Running(v) => LET u == Without(tick[v], row) IN
          /\ u \in Ticks /\ Like(tick[v], u)
          /\ row \notin u.owed.chores /\ row \notin u.owed.messages
    BY <1>t, ChangesKeepTicks
  <2>3. Running(v) => Without(tick[v], row) # None
    BY <2>2
  <2> QED BY <2>1, <2>2, <2>3 DEF Running
<1>c. \A v \in Workers : Running(v)' /\ tick'[v] \in Ticks =>
        tick'[v].owed.chores \subseteq ChoreRows /\ tick'[v].owed.messages \subseteq Rows
  BY Fields
<1>1. CASE \E c \in ChoreRows : ChoreComesDue(c)
  <2> PICK c \in ChoreRows : ChoreComesDue(c)
    BY <1>1
  <2>1. UNCHANGED <<schedule, message>> /\ TooLate(c) /\ chore' = [chore EXCEPT ![c] = "due"]
    BY DEF ChoreComesDue
  <2>2. Waiting'
    BY <1>0, <2>1 DEF Waiting
  <2>3. \A d \in ChoreRows \ {c} : chore'[d] = chore[d]
    BY <1>0, <2>1 DEF TypeOK
  <2> QED BY <1>t, <1>l, <1>c, <2>1, <2>2, <2>3 DEF Calm
<1>2. CASE \E r \in Rows : LeaseEnds(r) \/ MessageComesDue(r)
  <2> PICK r \in Rows : LeaseEnds(r) \/ MessageComesDue(r)
    BY <1>2
  <2>1. /\ UNCHANGED <<schedule, chore>> /\ TooLate(r) /\ message[r] # "none"
        /\ message' = [message EXCEPT ![r] = "due"]
    BY DEF LeaseEnds, MessageComesDue
  <2>2. Waiting'
    BY <1>0, <2>1 DEF Waiting, TypeOK, Rows
  <2>3. message'[r] = "due" /\ \A q \in Rows \ {r} : message'[q] = message[q]
    BY <1>0, <2>1 DEF TypeOK
  <2> QED BY <1>t, <1>l, <1>c, <2>1, <2>2, <2>3 DEF Calm
<1>3. CASE \E s \in Schedules : ScheduleComesDue(s)
  <2> PICK s \in Schedules : ScheduleComesDue(s)
    BY <1>3
  <2>1. /\ UNCHANGED <<chore, message, tick>> /\ schedule[s] = "later"
        /\ schedule' = [schedule EXCEPT ![s] = "due"]
    BY DEF ScheduleComesDue
  <2>2. Waiting'
    BY <1>0, <2>1 DEF Waiting, TypeOK
  <2>3. \A q \in Schedules : schedule[q] # "later" => schedule'[q] = schedule[q]
    BY <1>0, <2>1 DEF TypeOK
  <2> QED BY <1>t, <2>1, <2>2, <2>3 DEF Calm, Running
<1> QED BY <1>1, <1>2, <1>3 DEF World, TimePasses

-----------------------------------------------------------------------------
(* The invariant, and what it is for *)

LEMMA InvInit == Init => Inv
<1> SUFFICES ASSUME Init PROVE Inv
  OBVIOUS
<1>1. TypeOK
  BY TypeInit
<1> QED BY <1>1 DEF Init, Inv, Waiting, Running, Rows

LEMMA InvStep ==
  ASSUME Inv, [Next]_vars
  PROVE  Inv'
<1>1. TypeOK'
  BY TypeStep DEF Inv
<1>2. ASSUME NEW w \in Workers, Step(w)
      PROVE  Inv'
  <2>1. Forward /\ NoNews /\ Waiting'
    BY <1>2, StepIsForward
  <2>2. ASSUME NEW v \in Workers \ {w}, Running(v)'
        PROVE  Honest(schedule', chore', message', tick'[v])
    <3>1. /\ tick[v] \in Ticks /\ tick'[v] \in Ticks /\ Like(tick[v], tick'[v])
          /\ Honest(schedule, chore, message, tick[v])
      BY <1>2, <2>2, OthersGoOn DEF Inv
    <3>2. tick'[v].owed.chores \subseteq ChoreRows /\ tick'[v].owed.messages \subseteq Rows
      BY <3>1, Fields
    <3>3. Calm(schedule, chore, message, schedule', chore', message', tick'[v])
      BY <2>1, <3>2 DEF Forward, NoNews, Calm
    <3> QED BY <3>1, <3>3, CalmKeeps
  <2>3. ASSUME Running(w)'
        PROVE  Honest(schedule', chore', message', tick'[w])
    <3>1. ~Gone(w)
      BY <2>3 DEF Gone, Running
    <3> QED
      BY <1>2, <3>1, OwnStart, OwnTurn, OwnFails, OwnPublish, OwnMarkFailed, OwnEndPublish,
         OwnDoChore, OwnClaim, OwnComplete, OwnStopDelivering, OwnDeadlinePasses
      DEF Step, TickStep, EndTick, Defer, Crash
  <2> QED BY <1>1, <2>1, <2>2, <2>3 DEF Inv
<1>3. CASE World
  <2>1. Waiting'
    BY <1>3, WorldIsCalm
  <2>2. ASSUME NEW v \in Workers, Running(v)'
        PROVE  Honest(schedule', chore', message', tick'[v])
    <3>1. /\ tick[v] \in Ticks /\ tick'[v] \in Ticks /\ Like(tick[v], tick'[v])
          /\ Honest(schedule, chore, message, tick[v])
          /\ Calm(schedule, chore, message, schedule', chore', message', tick'[v])
      BY <1>3, <2>2, WorldIsCalm DEF Inv
    <3> QED BY <3>1, CalmKeeps
  <2> QED BY <1>1, <2>1, <2>2 DEF Inv
<1>4. CASE UNCHANGED vars
  BY <1>1, <1>4 DEF vars, workVars, Inv, Waiting, Running
<1> QED BY <1>2, <1>3, <1>4 DEF Next, Step, World

\* The organization that a tick is done with.
LEMMA LeftBehind ==
  ASSUME Inv, NEW w \in Workers, AllDone(w)
  PROVE  LET t == tick[w]
             Excused(o, step, left) == left = {} \/ <<o, step>> \in t.errors
         IN  /\ Excused(t.org, "publish", Of(t.org, DueRows.schedules \intersect t.owed.schedules))
             /\ \A name \in ChoreNames :
                  Excused(t.org, name,
                          {<<t.org, name>>} \intersect DueRows.chores \intersect t.owed.chores)
             /\ \/ AtItsLimit(t)
                \/ Excused(t.org, "deliver", Of(t.org, DueRows.messages \intersect t.owed.messages))
<1> DEFINE t == tick[w]
<1>1. t \in Ticks /\ t.at > Len(Steps) /\ Honest(schedule, chore, message, t)
  BY DEF AllDone, Running, Inv, TypeOK
<1>2. /\ t.owed.schedules \subseteq Schedules /\ t.owed.chores \subseteq ChoreRows
      /\ t.owed.messages \subseteq Rows /\ t.at \in 1..Len(Steps) + 1
  BY <1>1, Fields
<1>3. /\ Of(t.org, DueRows.schedules \intersect t.owed.schedules)
           = Left(t.org, schedule, t.owed.schedules)
      /\ Of(t.org, DueRows.messages \intersect t.owed.messages)
           = Left(t.org, message, t.owed.messages)
  BY <1>2 DEF Of, DueRows, Left
<1>4. \/ Left(t.org, schedule, t.owed.schedules) = {} \/ <<t.org, "publish">> \in t.errors
  BY <1>1, <1>2, StepsFacts DEF Honest, PublishOK
<1>5. \A name \in ChoreNames : \/ <<t.org, name>> \notin Left(t.org, chore, t.owed.chores)
                               \/ <<t.org, name>> \in t.errors
  <2> TAKE name \in ChoreNames
  <2>1. PICK i \in 2..Len(Steps) - 1 : Steps[i] = name
    BY StepsFacts
  <2>2. i < t.at
    BY <1>1, <1>2, StepsFacts
  <2> QED BY <1>1, <2>1, <2>2 DEF Honest, ChoresOK
<1>6. \A name \in ChoreNames :
        <<t.org, name>> \in DueRows.chores \intersect t.owed.chores =>
          <<t.org, name>> \in Left(t.org, chore, t.owed.chores)
  BY <1>2 DEF DueRows, Left, OwnerOf
<1>7. AtItsLimit(t) \/ Left(t.org, message, t.owed.messages) = {} \/ <<t.org, "deliver">> \in t.errors
  BY <1>1 DEF Honest, DeliverOK
<1> QED BY <1>3, <1>4, <1>5, <1>6, <1>7

\* What a tick leaves undone in an organization it is done with is in its report, or could not be
\* delivered in the batches it was allowed, for any number of organizations, workers, schedules and
\* chores, and whatever dies, fails or meets its deadline.
THEOREM UndoneExplained == Spec => UndoneIsExplained
<1> DEFINE Kept(w) == IF tick'[w] = None THEN {} ELSE {tick'[w].org} \union tick'[w].rest
           Reported(w) ==
             LET t == tick[w]
                 Excused(o, step, left) == left = {} \/ <<o, step>> \in t.errors
             IN \A o \in ({t.org} \union t.rest) \ Kept(w) :
                  \/ Defer(w) /\ o # t.org
                  \/ /\ Excused(o, "publish", Of(o, DueRows.schedules \intersect t.owed.schedules))
                     /\ \A name \in ChoreNames :
                          Excused(o, name, {<<o, name>>} \intersect DueRows.chores
                                                        \intersect t.owed.chores)
                     /\ \/ AtItsLimit(t)
                        \/ Excused(o, "deliver", Of(o, DueRows.messages \intersect t.owed.messages))
<1>1. ASSUME NEW w \in Workers, tick'[w] # None, tick'[w].org = tick[w].org,
             tick'[w].rest = tick[w].rest
      PROVE  Reported(w)
  BY <1>1
<1>2. Inv /\ [Next]_vars =>
      [\A w \in Workers : Running(w) /\ ~Crash(w) =>
         LET t    == tick[w]
             kept == IF tick'[w] = None THEN {} ELSE {tick'[w].org} \union tick'[w].rest
             Excused(o, step, left) == left = {} \/ <<o, step>> \in t.errors
         IN \A o \in ({t.org} \union t.rest) \ kept :
              \/ Defer(w) /\ o # t.org
              \/ /\ Excused(o, "publish", Of(o, DueRows.schedules \intersect t.owed.schedules))
                 /\ \A name \in ChoreNames :
                      Excused(o, name, {<<o, name>>} \intersect DueRows.chores \intersect t.owed.chores)
                 /\ \/ AtItsLimit(t)
                    \/ Excused(o, "deliver", Of(o, DueRows.messages \intersect t.owed.messages))]_vars
  <2> SUFFICES ASSUME Inv, Next, NEW w \in Workers, Running(w), ~Crash(w)
               PROVE  Reported(w)
    OBVIOUS
  <2>1. CASE \E v \in Workers \ {w} : Step(v)
    <3> HIDE DEF Reported
    <3> QED BY <2>1, <1>1, OthersGoOn DEF Like, Running
  <2>2. CASE World
    <3> HIDE DEF Reported
    <3> QED BY <2>2, <1>1, WorldIsCalm DEF Like, Running
  <2>3. CASE \/ Publish(w) \/ MarkFailed(w) \/ EndPublish(w) \/ DoChore(w)
             \/ Claim(w) \/ Complete(w) \/ StopDelivering(w) \/ StepFails(w)
    <3> HIDE DEF Reported
    <3>1. tick'[w] # None
      BY <2>3, OwnGoesOn, TicksAssumption
    <3> QED BY <2>3, <3>1, <1>1, OwnGoesOn
  <2>4. CASE NextOrganization(w)
    <3> PICK o \in tick[w].rest : Goes(w, TurnTo(tick[w], o))
      BY <2>4 DEF NextOrganization
    <3>1. tick[w] \in Ticks
      BY DEF Inv, TypeOK, Running
    <3>2. tick'[w] = TurnTo(tick[w], o)
      BY DEF Goes, Inv, TypeOK
    <3>3. TurnTo(tick[w], o) \in Ticks /\ TurnTo(tick[w], o).org = o
          /\ TurnTo(tick[w], o).rest = tick[w].rest \ {o}
      BY <3>1, TurnFacts
    <3>4. tick[w].rest \subseteq Kept(w)
      BY <3>2, <3>3
    <3> HIDE DEF Kept
    <3> QED BY <2>4, <3>4, LeftBehind DEF NextOrganization
  <2>5. CASE EndTick(w)
    <3> HIDE DEF Kept
    <3> QED BY <2>5, LeftBehind DEF EndTick
  <2>6. CASE Defer(w)
    <3> HIDE DEF Kept
    <3> QED BY <2>6, LeftBehind DEF Defer
  <2>7. ~StartTick(w)
    BY DEF StartTick
  <2>8. CASE DeadlinePasses(w)
    <3> HIDE DEF Reported
    <3>1. tick'[w] # None
      BY <2>8, OwnDeadlinePasses, TicksAssumption
    <3> QED BY <2>8, <3>1, <1>1, OwnDeadlinePasses DEF Like
  <2> QED BY <2>1, <2>2, <2>3, <2>4, <2>5, <2>6, <2>7, <2>8 DEF Next, Step, TickStep, World
<1>3. Inv /\ [Next]_vars => Inv'
  BY InvStep
<1> QED BY InvInit, <1>2, <1>3, PTL DEF Spec, UndoneIsExplained

=============================================================================
