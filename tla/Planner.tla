--------------------------------- MODULE Planner ---------------------------------
(***************************************************************************)
(* Building one week at one location: the slots a template asks for, who   *)
(* may be put in them, autofill, the review of each day and call-outs      *)
(* (slotted.ts), with what the board does to the same shifts (service.ts), *)
(* what people say of their time (requests.ts) and the rules that read it  *)
(* (conflicts.ts, availability-state.ts, time.ts, people.ts).              *)
(*                                                                         *)
(* Filling a slot, autofill and generating the week decide on what they    *)
(* read and write afterwards: planning is the decision of the one under    *)
(* way.  One at a time ("serial") nothing happens in between.              *)
(*                                                                         *)
(* Time is wall-clock hours, DayHours to a day; day 0 is the eve of the    *)
(* week.  An hour the clocks skip (Gap) is nobody's hour: a time in it     *)
(* does not exist and it adds nothing to a shift.                          *)
(*                                                                         *)
(* Abstracted: one template; everybody is active at the location; a person *)
(* has one request for time off at a time.  Publication, claims and swaps  *)
(* are in Scheduling; here they are assignments the board makes.           *)
(***************************************************************************)
EXTENDS Naturals, FiniteSets, Sequences, SequencesExt

CONSTANTS
  People,       \* numbered as their names sort
  Patterns, Shape,  \* the patterns of the template: their hours, days and headcount
  Holders,      \* who holds the job role of a pattern
  DayHours, LastDay, Gap,
  Weeklies,     \* weekly availability people may declare: sets of windows
  Exceptions,   \* windows they may declare for one date
  Offs,         \* time off they may ask for
  Elsewhere,    \* shifts they may have at other locations, or from the week before
  Overtime,     \* OVERTIME_MINUTES, in hours
  None,         \* null
  Isolations,   \* how transactions may run
  Copies,       \* bound: shifts of one pattern and day
  MaxChanges    \* bound: changes of shifts and of what people say

Days   == 1..LastDay
Slots  == Patterns \X Days \X (1..Copies)
Hours  == 0..DayHours * (LastDay + 2)
Period == {s \in [start : Hours, end : Hours] : s.start < s.end}
Window == [day : 0..LastDay + 1, from : 0..DayHours, to : 0..DayHours,
           preference : {"preferred", "available", "unavailable"}]

ASSUME PeopleAssumption == People \subseteq Nat
ASSUME PatternsAssumption ==
  /\ IsFiniteSet(Patterns)
  /\ Shape \in [Patterns -> [start : 0..DayHours - 1, end : 1..2 * DayHours, headcount : Nat,
                             days : SUBSET Days]]
  /\ \A k \in Patterns : Shape[k].end \in Shape[k].start + 1..Shape[k].start + DayHours - 1
  /\ Holders \in [Patterns -> SUBSET People]
ASSUME DeclaredAssumption ==
  /\ Weeklies \subseteq SUBSET Window /\ Exceptions \subseteq Window
  /\ \A week \in Weeklies : \A v, w \in week : v.day = w.day => v = w \/ v.to <= w.from \/ w.to <= v.from
  /\ Offs \subseteq Period /\ Elsewhere \subseteq Period
ASSUME PlannerBounds ==
  /\ {DayHours, LastDay, Overtime, Copies, MaxChanges} \subseteq Nat /\ Gap \subseteq Hours
  /\ Isolations \subseteq {"serial", "overlapping"}
ASSUME NoneAssumption == None \notin People

VARIABLES
  isolation,   \* whether transactions overlap
  template,    \* the named week
  shift,       \* the shifts of the week
  elsewhere,   \* people's other shifts
  rules,       \* their weekly availability
  exceptions,  \* what replaces it on a date
  request,     \* their time off
  override,    \* who was put on a shift against what they said
  review,      \* the review of each day
  callout,     \* who called out of a shift, and who covers it
  planning,    \* what the transaction under way has decided
  changes      \* changes so far

plannerVars == <<isolation, template, shift, elsewhere, rules, exceptions, request, override, review,
          callout, planning, changes>>

\* moved is history: the board moved it.
Shift == [status : {"none", "active", "cancelled"}, start : Hours, end : Hours,
          who : People \union {None}, moved : BOOLEAN]
NoShift == [status |-> "none", start |-> 0, end |-> 0, who |-> None, moved |-> FALSE]
Request == [status : {"none", "pending", "approved", "closed"}, start : Hours, end : Hours]
NoRequest == [status |-> "none", start |-> 0, end |-> 0]

PlannerInit ==
  /\ isolation \in Isolations
  /\ template = "absent"
  /\ shift = [r \in Slots |-> NoShift]
  /\ elsewhere \in [People -> {{}} \union {{e} : e \in Elsewhere}]
  /\ rules \in [People -> Weeklies]
  /\ exceptions = [p \in People |-> {}]
  /\ request = [p \in People |-> NoRequest]
  /\ override = [r \in Slots |-> None]
  /\ review = [d \in Days |-> "pending"]
  /\ callout = [r \in Slots |-> None]
  /\ planning = None
  /\ changes = 0

Serial == isolation = "serial"

\* Nothing happens while another transaction is under way.
Between == ~Serial \/ planning = None

Change == changes < MaxChanges /\ changes' = changes + 1

Active(r) == shift[r].status = "active"

-----------------------------------------------------------------------------
(* time.ts *)

LocalTime(day, hour) == day * DayHours + hour
DateOf(time) == time \div DayHours
Exists(time) == time \notin Gap
Overlaps(s, t) == s.start < t.end /\ t.start < s.end
Worked(s) == (s.start..s.end - 1) \ Gap
Paid(s) == Cardinality(Worked(s))
Dates(s) == DateOf(s.start)..DateOf(s.end - 1)

ShiftTimes(k, d) == [start |-> LocalTime(d, Shape[k].start), end |-> LocalTime(d, Shape[k].end)]
Times(r) == [start |-> shift[r].start, end |-> shift[r].end]
Possible(s) == Exists(s.start) /\ Exists(s.end)

WeekBounds == [start |-> LocalTime(1, 0), end |-> LocalTime(LastDay + 1, 0)]
InWeek(s)  == WeekBounds.start <= s.start /\ s.start < WeekBounds.end

-----------------------------------------------------------------------------
(* conflicts.ts and availability-state.ts *)

\* The instants a request covers: none when one of its times does not exist.
TimeOff(p, status, s) ==
  request[p].status = status /\ Possible(request[p]) /\ Overlaps(s, request[p])

Touches(w, s) ==
  LET t == [start |-> LocalTime(w.day, w.from), end |-> LocalTime(w.day, w.to)]
  IN  Possible(t) /\ Overlaps(s, t)

\* A dated exception replaces the weekly pattern for its date.
On(windows, day) == {w \in windows : w.day = day}
WindowsOn(p, day) ==
  IF On(exceptions[p], day) # {} THEN On(exceptions[p], day) ELSE On(rules[p], day)

\* Mutant: an overnight shift is looked up on the day it starts.
WindowsAtStart(p, s) == WindowsOn(p, DateOf(s.start))

WindowsDuring(p, s) == UNION {WindowsOn(p, d) : d \in Dates(s)}

AvailabilityState(p, s) ==
  LET said(preference) == \E w \in WindowsDuring(p, s) : w.preference = preference /\ Touches(w, s)
  IN  CASE TimeOff(p, "approved", s) -> "time_off"
        [] ~TimeOff(p, "approved", s) /\ said("unavailable") -> "unavailable"
        [] OTHER -> IF said("preferred") THEN "available"
                    ELSE IF said("available") \/ WindowsDuring(p, s) # {} THEN "not_preferred"
                    ELSE "available"

\* The rule of conflicts.ts, which is written apart from the one above.
IsUnavailable(p, s) ==
  \E d \in Dates(s) :
    \E w \in IF On(exceptions[p], d) # {}
             THEN {w \in On(exceptions[p], d) : w.preference = "unavailable"}
             ELSE {w \in On(rules[p], d) : w.preference = "unavailable"} : Touches(w, s)

HeldBy(p, table) == {r \in Slots : table[r].status = "active" /\ table[r].who = p}
Others(p, r) == {Times(q) : q \in HeldBy(p, shift) \ {r}} \union elsewhere[p]

DetectConflicts(p, r, s) ==
  {kind \in {"overlap", "time_off_approved", "time_off_pending", "unavailable"} :
     CASE kind = "overlap"           -> \E t \in Others(p, r) : Overlaps(s, t)
       [] kind = "time_off_approved" -> TimeOff(p, "approved", s)
       [] kind = "time_off_pending"  -> TimeOff(p, "pending", s)
       [] kind = "unavailable"       -> IsUnavailable(p, s)}

\* Mutant: approved time off is a warning too.
BlockedByShift(p, r, s) == "overlap" \in DetectConflicts(p, r, s)

Blocked(p, r, s) == DetectConflicts(p, r, s) \intersect {"overlap", "time_off_approved"} # {}

\* shifts_no_double_booking: no two active shifts of one person overlap.
DoubleBooked(table) ==
  \E p \in People : \E r \in HeldBy(p, table) :
    LET s == [start |-> table[r].start, end |-> table[r].end] IN
    \/ \E t \in elsewhere[p] : Overlaps(s, t)
    \/ \E q \in HeldBy(p, table) \ {r} : table[q].start < s.end /\ s.start < table[q].end

-----------------------------------------------------------------------------
(* What people say of their time (requests.ts) *)

UnchangedByPeople ==
  UNCHANGED <<isolation, template, shift, elsewhere, override, review, callout, planning>>

ReplaceWeeklyAvailability(p) ==
  /\ Between /\ Change
  /\ \E week \in Weeklies \ {rules[p]} : rules' = [rules EXCEPT ![p] = week]
  /\ UnchangedByPeople /\ UNCHANGED <<exceptions, request>>

AddAvailabilityException(p) ==
  /\ Between /\ Change
  /\ \E w \in Exceptions \ exceptions[p] : exceptions' = [exceptions EXCEPT ![p] = @ \union {w}]
  /\ UnchangedByPeople /\ UNCHANGED <<rules, request>>

RemoveAvailabilityException(p) ==
  /\ Between /\ Change
  /\ \E w \in exceptions[p] : exceptions' = [exceptions EXCEPT ![p] = @ \ {w}]
  /\ UnchangedByPeople /\ UNCHANGED <<rules, request>>

RequestTimeOff(p) ==
  /\ Between /\ Change
  /\ request[p].status \notin {"pending", "approved"}
  /\ \E s \in Offs :
       request' = [request EXCEPT ![p] = [status |-> "pending", start |-> s.start, end |-> s.end]]
  /\ UnchangedByPeople /\ UNCHANGED <<rules, exceptions>>

DecideTimeOff(p) ==
  /\ Between /\ request[p].status = "pending"
  /\ \E decision \in {"approved", "closed"} : request' = [request EXCEPT ![p].status = decision]
  /\ UnchangedByPeople /\ UNCHANGED <<rules, exceptions, changes>>

CancelTimeOff(p) ==
  /\ Between /\ request[p].status \in {"pending", "approved"}
  /\ request' = [request EXCEPT ![p].status = "closed"]
  /\ UnchangedByPeople /\ UNCHANGED <<rules, exceptions, changes>>

-----------------------------------------------------------------------------
(* The board (service.ts): it knows neither overrides nor reviews. *)

UnchangedByBoard ==
  UNCHANGED <<isolation, template, elsewhere, rules, exceptions, request, review, planning>>

\* updateShift, to a day of the same week
UpdateShift(r, d) ==
  LET s == ShiftTimes(r[1], d) IN
  /\ Between /\ Change /\ Active(r) /\ s # Times(r) /\ Possible(s)
  /\ shift[r].who # None => ~Blocked(shift[r].who, r, s)
  /\ shift' = [shift EXCEPT ![r].start = s.start, ![r].end = s.end, ![r].moved = TRUE]
  /\ UnchangedByBoard /\ UNCHANGED <<override, callout>>

\* assignShift, an approved claim or an approved swap
AssignShift(r, p) ==
  /\ Between /\ Change /\ Active(r) /\ shift[r].who # p
  /\ p # None => ~Blocked(p, r, Times(r))
  /\ shift' = [shift EXCEPT ![r].who = p]
  /\ UnchangedByBoard /\ UNCHANGED <<override, callout>>

\* A shift that was never published is deleted, with what refers to it; others stay on record.
CancelShift(r) ==
  /\ Between /\ Change /\ Active(r)
  /\ \/ /\ shift' = [shift EXCEPT ![r] = NoShift]
        /\ override' = [override EXCEPT ![r] = None]
        /\ callout' = [callout EXCEPT ![r] = None]
     \/ /\ shift' = [shift EXCEPT ![r].status = "cancelled"]
        /\ UNCHANGED <<override, callout>>
  /\ UnchangedByBoard

-----------------------------------------------------------------------------
(* The named week, and the slots it asks for *)

UnchangedByPlanner == UNCHANGED <<isolation, elsewhere, rules, exceptions, request>>

CreateTemplateSet ==
  /\ Between /\ template = "absent" /\ template' = "active"
  /\ UnchangedByPlanner /\ UNCHANGED <<shift, override, review, callout, planning, changes>>

ArchiveTemplateSet ==
  /\ Between /\ Change /\ template = "active" /\ template' = "archived"
  /\ UnchangedByPlanner /\ UNCHANGED <<shift, override, review, callout, planning>>

\* Mutant: a slot that is filled is not counted.
AlreadyEmpty(k, d) ==
  Cardinality({r \in Slots : r[1] = k /\ Active(r) /\ DateOf(shift[r].start) = d
                             /\ shift[r].who = None})

Already(k, d) ==
  Cardinality({r \in Slots : r[1] = k /\ Active(r) /\ DateOf(shift[r].start) = d})

Missing(k, d) ==
  IF d \in Shape[k].days /\ Possible(ShiftTimes(k, d)) /\ Already(k, d) < Shape[k].headcount
  THEN Shape[k].headcount - Already(k, d) ELSE 0

\* generateWeek, and applyTemplates of the board: both top up to the headcount.
BeginGenerate ==
  /\ planning = None /\ Change /\ template = "active"
  /\ planning' = [op |-> "generate", missing |-> [w \in Patterns \X Days |-> Missing(w[1], w[2])]]
  /\ UnchangedByPlanner /\ UNCHANGED <<template, shift, override, review, callout>>

Unused(k, d) == {n \in 1..Copies : shift[<<k, d, n>>].status = "none"}

\* The rows that are inserted: the first of the unused ones.
Inserted == {r \in Slots : LET free == Unused(r[1], r[2]) IN
               r[3] \in free
               /\ Cardinality({n \in free : n <= r[3]}) <= planning.missing[<<r[1], r[2]>>]}

EndGenerate ==
  /\ planning # None /\ planning.op = "generate"
  /\ \A w \in Patterns \X Days : Cardinality(Unused(w[1], w[2])) >= planning.missing[w]
  /\ shift' = [r \in Slots |->
                 IF r \in Inserted
                 THEN [NoShift EXCEPT !.status = "active", !.start = ShiftTimes(r[1], r[2]).start,
                                      !.end = ShiftTimes(r[1], r[2]).end]
                 ELSE shift[r]]
  /\ planning' = None
  /\ UnchangedByPlanner /\ UNCHANGED <<template, override, review, callout, changes>>

-----------------------------------------------------------------------------
(* Filling a slot *)

\* assignToSlot reads, and refuses; fill is TRUE when it covers a call-out.
BeginAssign(r, p) ==
  LET state == AvailabilityState(p, Times(r)) IN
  /\ planning = None /\ Change /\ shift[r].status # "none" /\ Possible(WeekBounds)
  /\ state # "time_off" /\ ~Blocked(p, r, Times(r))
  /\ \E overrideUnavailable, fill \in BOOLEAN :
       /\ state = "unavailable" => overrideUnavailable
       /\ planning' = [op |-> "assign", row |-> r, who |-> p, against |-> state = "unavailable",
                       day |-> DateOf(shift[r].start), fill |-> fill]
  /\ UnchangedByPlanner /\ UNCHANGED <<template, shift, override, review, callout>>

OverrideOf(plan) == IF plan.against THEN plan.who ELSE None

Assigned == IF shift[planning.row].status = "none" THEN shift
            ELSE [shift EXCEPT ![planning.row].who = planning.who]

EndAssign ==
  /\ planning # None /\ planning.op = "assign" /\ ~DoubleBooked(Assigned)
  /\ planning.against => shift[planning.row].status # "none"
  /\ shift' = Assigned
  /\ override' = [override EXCEPT ![planning.row] = OverrideOf(planning)]
  /\ review' = [review EXCEPT ![planning.day] = "pending"]
  /\ callout' = IF planning.fill /\ callout[planning.row] # None
                THEN [callout EXCEPT ![planning.row].replacement = planning.who] ELSE callout
  /\ planning' = None
  /\ UnchangedByPlanner /\ UNCHANGED <<template, changes>>

ClearSlot(r) ==
  /\ Between /\ Change /\ shift[r].status # "none"
  /\ shift' = [shift EXCEPT ![r].who = None]
  /\ override' = [override EXCEPT ![r] = None]
  /\ review' = [review EXCEPT ![DateOf(shift[r].start)] = "pending"]
  /\ UnchangedByPlanner /\ UNCHANGED <<template, callout, planning>>

-----------------------------------------------------------------------------
(* Autofill: the week in order, each empty slot to the best of those who are free.  It keeps *)
(* in memory what it has given out (taken).                                                  *)

\* The hours of all of them, one by one.
Load(periods) == Cardinality(UNION {{s} \X Worked(s) : s \in periods})

Taken == [p \in People |-> {s \in {Times(r) : r \in HeldBy(p, shift)} \union elsewhere[p] : InWeek(s)}]

Free(taken, r) ==
  {p \in Holders[r[1]] :
     /\ AvailabilityState(p, Times(r)) \notin {"time_off", "unavailable"}
     /\ \A s \in taken[p] : ~Overlaps(s, Times(r))
     /\ Load(taken[p]) + Paid(Times(r)) <= Overtime}

Rank(p, r) == IF AvailabilityState(p, Times(r)) = "available" THEN 0 ELSE 1

Ahead(taken, r, p, q) ==
  \/ Rank(p, r) < Rank(q, r)
  \/ Rank(p, r) = Rank(q, r) /\ Load(taken[p]) < Load(taken[q])
  \/ Rank(p, r) = Rank(q, r) /\ Load(taken[p]) = Load(taken[q]) /\ p < q

Best(taken, r) == CHOOSE p \in Free(taken, r) :
                    \A q \in Free(taken, r) \ {p} : Ahead(taken, r, p, q)

\* Mutant: what was just given out is not remembered.
NotRemembered(taken, r, p) == taken

Remembered(taken, r, p) == [taken EXCEPT ![p] = @ \union {Times(r)}]

Pick(done, r) ==
  IF Free(done.taken, r) = {} THEN done
  ELSE LET p == Best(done.taken, r) IN
       [picks |-> [done.picks EXCEPT ![r] = p], taken |-> Remembered(done.taken, r, p)]

Empty == {r \in Slots : Active(r) /\ shift[r].who = None}

\* Slots that start together come in any order.
InOrder == {order \in SetToSeqs(Empty) :
              \A i, j \in DOMAIN order : i < j => shift[order[i]].start <= shift[order[j]].start}

Nobody == [r \in Slots |-> None]

\* What autofill gives out when the slots come in that order.
Autofilled(order) ==
  LET done[n \in 0..Len(order)] ==
        IF n = 0 THEN [picks |-> Nobody, taken |-> Taken] ELSE Pick(done[n - 1], order[n])
  IN  done[Len(order)].picks

BeginAutofill ==
  /\ planning = None /\ Change /\ Possible(WeekBounds)
  /\ \E order \in InOrder : planning' = [op |-> "autofill", picks |-> Autofilled(order)]
  /\ UnchangedByPlanner /\ UNCHANGED <<template, shift, override, review, callout>>

Picked(r) == planning.picks[r] # None /\ shift[r].status # "none"

Filled == [r \in Slots |-> IF Picked(r)
                           THEN [shift[r] EXCEPT !.who = planning.picks[r]]
                           ELSE shift[r]]

EndAutofill ==
  /\ planning # None /\ planning.op = "autofill" /\ ~DoubleBooked(Filled)
  /\ shift' = Filled
  /\ review' = IF \E r \in Slots : planning.picks[r] # None
               THEN [d \in Days |-> "pending"] ELSE review
  /\ planning' = None
  /\ UnchangedByPlanner /\ UNCHANGED <<template, override, callout, changes>>

\* The database refuses a double booking, or an override of a shift that is gone.
Rollback ==
  /\ planning # None
  /\ \/ planning.op = "assign" /\ DoubleBooked(Assigned)
     \/ planning.op = "assign" /\ planning.against /\ shift[planning.row].status = "none"
     \/ planning.op = "autofill" /\ DoubleBooked(Filled)
  /\ planning' = None
  /\ UnchangedByPlanner /\ UNCHANGED <<template, shift, override, review, callout, changes>>

-----------------------------------------------------------------------------
(* The review of a day, and call-outs *)

SetDayReview(d) ==
  /\ Between /\ Change
  /\ \E state \in {"approved", "flagged"} : review' = [review EXCEPT ![d] = state]
  /\ UnchangedByPlanner /\ UNCHANGED <<template, shift, override, callout, planning>>

ReportCallout(r) ==
  /\ Between /\ Change /\ shift[r].who # None
  /\ callout' = [callout EXCEPT ![r] = [who |-> shift[r].who, replacement |-> None]]
  /\ UnchangedByPlanner /\ UNCHANGED <<template, shift, override, review, planning>>

PlannerNext ==
  \/ \E p \in People :
       \/ ReplaceWeeklyAvailability(p) \/ AddAvailabilityException(p)
       \/ RemoveAvailabilityException(p)
       \/ RequestTimeOff(p) \/ DecideTimeOff(p) \/ CancelTimeOff(p)
  \/ \E r \in Slots :
       \/ \E d \in Days : UpdateShift(r, d)
       \/ \E p \in People \union {None} : AssignShift(r, p)
       \/ CancelShift(r) \/ ClearSlot(r) \/ ReportCallout(r)
       \/ \E p \in People : BeginAssign(r, p)
  \/ CreateTemplateSet \/ ArchiveTemplateSet \/ BeginGenerate \/ EndGenerate
  \/ EndAssign \/ BeginAutofill \/ EndAutofill \/ Rollback
  \/ \E d \in Days : SetDayReview(d)

PlannerSpec == PlannerInit /\ [][PlannerNext]_plannerVars

-----------------------------------------------------------------------------
(* Properties *)

\* Every variable keeps its type.
PlannerTypeOK ==
  /\ isolation \in Isolations /\ template \in {"absent", "active", "archived"}
  /\ shift \in [Slots -> Shift]
  /\ elsewhere \in [People -> SUBSET Elsewhere] /\ rules \in [People -> Weeklies]
  /\ exceptions \in [People -> SUBSET Exceptions] /\ request \in [People -> Request]
  /\ override \in [Slots -> People \union {None}]
  /\ review \in [Days -> {"pending", "approved", "flagged"}]
  /\ callout \in [Slots -> {None} \union [who : People, replacement : People \union {None}]]
  /\ planning # None => planning.op \in {"generate", "assign", "autofill"}
  /\ changes \in 0..MaxChanges

\* The two copies of the availability rules agree on every shift there may be: what the picker
\* and autofill call "unavailable" or "time off" is what detectConflicts warns of or blocks
\* ("so there is no second copy of the rule to drift", availability-state.ts).
AvailabilityRulesAgree ==
  \A p \in People, k \in Patterns, d \in Days :
    LET s == ShiftTimes(k, d)
        conflicts == DetectConflicts(p, <<k, d, 1>>, s)
        state == AvailabilityState(p, s) IN
    /\ state = "time_off" <=> "time_off_approved" \in conflicts
    /\ state = "unavailable" <=> "unavailable" \in conflicts /\ state # "time_off"

\* One at a time, generating again never gives a pattern more shifts on a day than its headcount,
\* whatever was assigned, cancelled or moved meanwhile, not counting what the board moved there:
\* "Running it twice does not duplicate anything" (generateWeek).
SlotsAreNotDuplicated ==
  Serial => \A k \in Patterns, d \in Days :
    Cardinality({r \in Slots : r[1] = k /\ Active(r) /\ ~shift[r].moved
                               /\ DateOf(shift[r].start) = d}) <= Shape[k].headcount

\* The person is given the shift, or theirs is moved.
NewlyHeld(r, p) ==
  /\ shift'[r].status = "active" /\ shift'[r].who = p
  /\ <<shift'[r].who, shift'[r].start>> # <<shift[r].who, shift[r].start>>

DuringTimeOff(r, p) ==
  /\ request[p].status = "approved"
  /\ shift'[r].start < request[p].end /\ request[p].start < shift'[r].end

\* What slotted.ts says of approved time off: nothing gives anybody a shift during it, "there is no
\* interface anywhere that should be able to produce it".  Not so of time off that begins or ends in
\* an hour the clocks skip: timeOffPeriod has no instants for it, and every interface lets it by.
TimeOffIsNeverAssignable ==
  [][\A r \in Slots, p \in People : NewlyHeld(r, p) => ~DuringTimeOff(r, p)]_plannerVars

\* One at a time, time off whose two ends are hours that exist does lock its person, in the board,
\* the slots, call-outs and autofill, whichever way a shift comes to them or is moved into it, and
\* whatever else they have asked for or said.
ApprovedTimeOffIsLocked ==
  [][Serial => \A r \in Slots, p \in People :
       NewlyHeld(r, p) /\ Possible(request[p]) => ~DuringTimeOff(r, p)]_plannerVars

LoadAfter(p) ==
  Load({s \in {[start |-> shift'[r].start, end |-> shift'[r].end] : r \in HeldBy(p, shift')}
               \union elsewhere[p] : InWeek(s)})

\* The person is given the slot only if willing and within forty hours; it stays empty only if they
\* are not, or work then.
GivenForGoodReason(r, p) ==
  LET willing == p \in Holders[r[1]]
                 /\ AvailabilityState(p, Times(r)) \in {"available", "not_preferred"} IN
  /\ shift'[r].who = p => willing /\ LoadAfter(p) <= Overtime
  /\ shift'[r].who = None /\ willing =>
       \/ LoadAfter(p) + Paid(Times(r)) > Overtime
       \/ \E q \in HeldBy(p, shift') : Overlaps(Times(q), Times(r))
       \/ \E s \in elsewhere[p] : Overlaps(s, Times(r))

\* One at a time, autofill takes nobody's shift, gives none to people who are off, said no or
\* lack the role, takes nobody over forty hours, leaves a slot empty only if that holds of
\* everybody else or they are working then, and has every day reviewed again (autofillWeek).
AutofillKeepsItsWord ==
  [][Serial /\ planning # None /\ planning' = None /\ planning.op = "autofill"
     /\ (shift' # shift \/ \A r \in Slots : planning.picks[r] = None) =>
       /\ \A r \in Slots : shift[r].who # None => shift'[r] = shift[r]
       /\ \A r \in Empty, p \in People : GivenForGoodReason(r, p)
       /\ shift' # shift => review' = [d \in Days |-> "pending"]]_plannerVars

=============================================================================
