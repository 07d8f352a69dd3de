------------------------------- MODULE Scheduling -------------------------------
(***************************************************************************)
(* One location's week: managers edit its shifts, publication copies them  *)
(* over what employees were told, employees claim open shifts and swap     *)
(* their own (scheduling/service.ts, requests.ts, slotted.ts, changes.ts). *)
(*                                                                         *)
(* A shift has two copies: live, what managers edit, and told, the         *)
(* published_* columns.  heard is what the notices a person got say.       *)
(*                                                                         *)
(* TRANSACTIONS run under READ COMMITTED.  Where a handler writes what it  *)
(* decided on a row read before, without a condition on that row, it is    *)
(* two actions: Begin... reads, the action itself writes.  Handlers whose  *)
(* every write is conditional (approvals, answers) are one.  StaleWrites   *)
(* says whether an edit may land on a row that changed since it was read.  *)
(*                                                                         *)
(* Abstracted: at stands for all an employee sees of a shift besides who   *)
(* works it (times, break, role, station, notes), and two shifts overlap   *)
(* when it is equal; refusals for time off, employment status or a shift   *)
(* that has started are steps not taken; terminal statuses of claims and   *)
(* swaps are one, gone.                                                    *)
(***************************************************************************)
EXTENDS Naturals, Functions

CONSTANTS
  Shifts, People, Times,
  Managers,      \* managers who may be editing the week at once
  None,          \* null
  StaleWrites,   \* may an edit land on a row that changed since it was read
  MaxChanges     \* bound: the sum of the versions of the shifts

ASSUME NoneAssumption == None \notin People \union Times \union Shifts
ASSUME ActorsAssumption == Managers \cap People = {}
ASSUME BoundsAssumption == StaleWrites \in BOOLEAN /\ MaxChanges \in Nat

VARIABLES
  live,         \* the plain columns of each shift
  told,         \* its published_* columns, None until published
  week,         \* schedules.status = 'published' and has_unpublished_changes
  pending,      \* people with a pending claim on each shift
  swap,         \* the active swap request for each shift
  transaction,  \* what each manager's or employee's open transaction has read
  publication,  \* the rows read by the publication holding the schedule lock
  heard         \* the times each person was last told they work a shift

Actors == Managers \union People

vars == <<live, told, week, pending, swap, transaction, publication, heard>>

Statuses == {"new", "active", "cancelled", "deleted"}
Rows  == [status : Statuses, at : Times \union {None}, who : People \union {None},
          open : BOOLEAN, version : Nat]
Views == [status : {"active", "cancelled"}, at : Times, who : People \union {None},
          open : BOOLEAN]

\* null is no copy of a row.
ASSUME NullAssumption == None \notin Views

Exists(s) == live[s].status \in {"active", "cancelled"}
View(row) == [status |-> row.status, at |-> row.at, who |-> row.who, open |-> row.open]

Init ==
  /\ live = [s \in Shifts |-> [status |-> "new", at |-> None, who |-> None,
                               open |-> FALSE, version |-> 0]]
  /\ told = [s \in Shifts |-> None]
  /\ week = [published |-> FALSE, changed |-> FALSE]
  /\ pending = [s \in Shifts |-> {}]
  /\ swap = [s \in Shifts |-> None]
  /\ transaction = [a \in Actors |-> None]
  /\ publication = None
  /\ heard = [s \in Shifts |-> [p \in People |-> None]]

-----------------------------------------------------------------------------
(* What several handlers share *)

MayChange == SumFunction([s \in Shifts |-> live[s].version]) < MaxChanges

\* The exclusion constraint shifts_no_double_booking and the check shifts_open_check.
ConstraintsHold(rows) ==
  /\ \A s, r \in Shifts :
       s # r /\ rows[s].status = "active" /\ rows[r].status = "active"
             /\ rows[s].who # None /\ rows[s].who = rows[r].who
         => rows[s].at # rows[r].at
  /\ \A s \in Shifts : rows[s].open => rows[s].who = None

\* detectConflicts: is p free to work at these times, but for the shifts given away?
Free(p, at, away) ==
  \A s \in Shifts \ away : ~(live[s].status = "active" /\ live[s].who = p /\ live[s].at = at)

\* markChanged waits for a publication of a published week; it leaves a draft alone.
MarkChanged ==
  /\ week.published => publication = None
  /\ week' = IF week.published THEN [week EXCEPT !.changed = TRUE] ELSE week

\* cancelActiveSwaps: no active request names any of S, on either side.
SwapsWithout(S) ==
  [s \in Shifts |-> IF swap[s] # None /\ ({s, swap[s].theirs} \cap S # {})
                      THEN None ELSE swap[s]]

Tell(h, s, p, at) == [h EXCEPT ![s][p] = at]

Read(op, s, at, to, theirs) ==
  [op |-> op, shift |-> s, row |-> live[s], published |-> told[s] # None, at |-> at, to |-> to,
   theirs |-> theirs, theirRow |-> IF theirs = None THEN None ELSE live[theirs]]

Begin(a, request) ==
  /\ transaction[a] = None
  /\ transaction' = [transaction EXCEPT ![a] = request]
  /\ UNCHANGED <<live, told, week, pending, swap, publication, heard>>

End(a) == transaction' = [transaction EXCEPT ![a] = None]

\* A refusal, a constraint, a deadlock or a lost connection.
Rollback(a) ==
  /\ transaction[a] # None
  /\ End(a)
  /\ UNCHANGED <<live, told, week, pending, swap, publication, heard>>

-----------------------------------------------------------------------------
(* Managers edit the board *)

\* A row's foreign key waits for the lock on its schedule.
CreateShift ==
  \E s \in Shifts, at \in Times, who \in People \union {None} :
    /\ live[s].status = "new" /\ publication = None
    /\ live' = [live EXCEPT ![s] = [status |-> "active", at |-> at, who |-> who,
                                    open |-> FALSE, version |-> 1]]
    /\ ConstraintsHold(live')
    /\ MarkChanged
    /\ UNCHANGED <<told, pending, swap, transaction, publication, heard>>

\* What a manager may ask of the shift, by the checks each handler makes on the row it read.
BeginEdit(m) ==
  \E s \in Shifts :
    /\ Exists(s) /\ MayChange
    /\ LET row == live[s] IN
         \/ \E at \in Times :
              /\ row.status = "active" /\ (row.who = None \/ Free(row.who, at, {s}))
              /\ Begin(m, Read("update", s, at, None, None))
         \/ \E who \in (People \union {None}) \ {row.who} :
              /\ row.status = "active" /\ (who = None \/ Free(who, row.at, {s}))
              /\ Begin(m, Read("assign", s, row.at, who, None))
         \/ /\ row.status = "active" /\ row.who = None
            /\ Begin(m, Read(IF row.open THEN "close" ELSE "open", s, row.at, None, None))
         \/ /\ row.status = "active" \/ told[s] = None
            /\ Begin(m, Read("cancel", s, row.at, None, None))
         \/ \E who \in People :
              /\ Free(who, row.at, {s})
              /\ Begin(m, Read("fill", s, row.at, who, None))
         \/ Begin(m, Read("clear", s, row.at, None, None))

\* The transaction is this edit of s and may write now.
Editing(m, op, s) ==
  /\ transaction[m] # None /\ transaction[m].op = op /\ transaction[m].shift = s
  /\ StaleWrites \/ /\ live[s] = transaction[m].row
                    /\ (told[s] # None) = transaction[m].published
                    /\ publication = None
  /\ End(m)
  /\ UNCHANGED <<publication, heard>>

\* The update matches on the id alone: a deleted row is simply not there.
Write(s, row) ==
  /\ live' = [live EXCEPT ![s] = IF live[s].status = "deleted" THEN @ ELSE row]
  /\ ConstraintsHold(live')

UpdateShift(m) == \E s \in Shifts :
  /\ Editing(m, "update", s)
  /\ Write(s, [live[s] EXCEPT !.at = transaction[m].at, !.version = @ + 1])
  /\ MarkChanged
  /\ UNCHANGED <<told, pending, swap>>

\* Assigning someone declines the pending claims; any assignment ends the swaps.
AssignShift(m) == \E s \in Shifts :
  /\ Editing(m, "assign", s)
  /\ LET who == transaction[m].to IN
       /\ Write(s, [live[s] EXCEPT !.who = who, !.open = FALSE, !.version = @ + 1])
       /\ pending' = IF who = None THEN pending ELSE [pending EXCEPT ![s] = {}]
  /\ swap' = SwapsWithout({s})
  /\ MarkChanged
  /\ UNCHANGED told

SetShiftOpen(m) == \E s \in Shifts, open \in BOOLEAN :
  /\ Editing(m, IF open THEN "open" ELSE "close", s)
  /\ Write(s, [live[s] EXCEPT !.open = open, !.version = @ + 1])
  /\ pending' = IF open THEN pending ELSE [pending EXCEPT ![s] = {}]
  /\ MarkChanged
  /\ UNCHANGED <<told, swap>>

\* Never published: deleted outright, with the requests that refer to it.  Published:
\* cancelled, so that the next publication tells its assignee.
CancelShift(m) == \E s \in Shifts :
  /\ Editing(m, "cancel", s)
  /\ pending' = [pending EXCEPT ![s] = {}]
  /\ swap' = SwapsWithout({s})
  /\ IF transaction[m].published
       THEN /\ Write(s, [live[s] EXCEPT !.status = "cancelled", !.open = FALSE,
                                        !.version = @ + 1])
            /\ MarkChanged
            /\ UNCHANGED told
       ELSE /\ Write(s, [live[s] EXCEPT !.status = "deleted", !.who = None, !.open = FALSE])
            /\ told' = [told EXCEPT ![s] = None]
            /\ UNCHANGED week

-----------------------------------------------------------------------------
(* The slotted planner: the version is computed from the row that was read, *)
(* and claims and swaps are left as they are                               *)

AssignToSlot(m) == \E s \in Shifts :
  /\ Editing(m, "fill", s)
  /\ Write(s, [live[s] EXCEPT !.who = transaction[m].to, !.open = FALSE,
                              !.version = transaction[m].row.version + 1])
  /\ MarkChanged
  /\ UNCHANGED <<told, pending, swap>>

ClearSlot(m) == \E s \in Shifts :
  /\ Editing(m, "clear", s)
  /\ Write(s, [live[s] EXCEPT !.who = None, !.version = transaction[m].row.version + 1])
  /\ MarkChanged
  /\ UNCHANGED <<told, pending, swap>>

-----------------------------------------------------------------------------
(* Publication *)

Visible(view) == view # None /\ view.status = "active"
Holder(view)  == IF Visible(view) THEN view.who ELSE None

HasUnpublishedChange(row, copy) ==
  LET now == row.status = "active" IN now # Visible(copy) \/ (now /\ View(row) # copy)

\* Mutant: a shift that goes from one person to another is announced to the second only.
DiffWithoutRemoved(row, copy, h, p) == IF Holder(View(row)) = p THEN row.at ELSE h

\* Mutant: only a change of hands is announced.
DiffWithoutChanged(row, copy, h, p) ==
  IF Holder(View(row)) = Holder(copy) THEN h
  ELSE IF Holder(View(row)) = p THEN row.at ELSE IF Holder(copy) = p THEN None ELSE h

\* diffPublication: what p, who believed h, hears about the shift: added, changed, removed.
Diff(row, copy, h, p) ==
  CASE Holder(View(row)) = p /\ (Holder(copy) # p \/ row.at # copy.at) -> row.at
    [] Holder(View(row)) # p /\ Holder(copy) = p -> None
    [] OTHER -> h

\* The lock on the schedule row, and what publicationState reads under it.
BeginPublish ==
  /\ publication = None
  /\ IF week.published THEN \E s \in Shifts : Exists(s) /\ HasUnpublishedChange(live[s], told[s])
                       ELSE \E s \in Shifts : live[s].status = "active"
  /\ publication' = [rows |-> live, copies |-> told]
  /\ UNCHANGED <<live, told, week, pending, swap, transaction, heard>>

\* The copy takes the rows as they are now, the notices as they were read.
PublishSchedule ==
  /\ publication # None
  /\ told' = [s \in Shifts |-> IF Exists(s) THEN View(live[s]) ELSE told[s]]
  /\ heard' = [s \in Shifts |-> [p \in People |->
                 Diff(publication.rows[s], publication.copies[s], heard[s][p], p)]]
  /\ week' = [published |-> TRUE, changed |-> FALSE]
  /\ publication' = None
  /\ UNCHANGED <<live, pending, swap, transaction>>

AbandonPublish ==
  /\ publication # None
  /\ publication' = None
  /\ UNCHANGED <<live, told, week, pending, swap, transaction, heard>>

-----------------------------------------------------------------------------
(* Open shifts *)

\* requirePublishedOpenShift, and the claimant is free.
BeginClaim(p) == \E s \in Shifts :
  /\ Visible(told[s]) /\ told[s].open
  /\ live[s].status = "active" /\ live[s].open /\ live[s].who = None
  /\ Free(p, live[s].at, {})
  /\ Begin(p, Read("claim", s, live[s].at, p, None))

\* open_shift_claims_pending_unique, and the shift it refers to.
ClaimOpenShift(p) ==
  /\ transaction[p] # None /\ transaction[p].op = "claim"
  /\ LET s == transaction[p].shift IN
       /\ Exists(s) /\ p \notin pending[s]
       /\ pending' = [pending EXCEPT ![s] = @ \union {p}]
  /\ End(p)
  /\ UNCHANGED <<live, told, week, swap, publication, heard>>

\* withdrawClaim by p, or decideClaim with 'declined'.
CloseClaim == \E s \in Shifts : \E p \in pending[s] :
  /\ pending' = [pending EXCEPT ![s] = @ \ {p}]
  /\ UNCHANGED <<live, told, week, swap, transaction, publication, heard>>

\* Mutant: the published copy waits for the next publication.
ReassignedLive(copy, to) == copy

\* reassignNow: what becomes of the published copy, and of the row.
ReassignedCopy(copy, to) == IF copy = None THEN copy ELSE [copy EXCEPT !.who = to, !.open = FALSE]
Reassigned(row, to) == [row EXCEPT !.who = to, !.open = FALSE, !.version = @ + 1]

\* decideClaim with 'approved': only an active shift nobody is on; the other
\* claimants are declined and the claimant told the shift as it is now.
ApproveClaim == \E s \in Shifts : \E p \in pending[s] :
  /\ live[s].status = "active" /\ live[s].who = None /\ MayChange
  /\ live' = [live EXCEPT ![s] = Reassigned(live[s], p)]
  /\ ConstraintsHold(live')
  /\ told' = [told EXCEPT ![s] = ReassignedCopy(told[s], p)]
  /\ pending' = [pending EXCEPT ![s] = {}]
  /\ heard' = Tell(heard, s, p, live[s].at)
  /\ UNCHANGED <<week, swap, transaction, publication>>

-----------------------------------------------------------------------------
(* Swaps *)

\* requireOwnPublishedShift
OwnPublished(s, p) ==
  /\ Visible(told[s]) /\ live[s].status = "active"
  /\ told[s].who = p /\ live[s].who = p

\* p offers s to q: as a gift (theirs is None) or for q's shift theirs.
BeginSwap(p) == \E s \in Shifts, q \in People \ {p}, theirs \in Shifts \union {None} :
  /\ OwnPublished(s, p) /\ Free(q, live[s].at, {s, theirs})
  /\ theirs # None => OwnPublished(theirs, q) /\ Free(p, live[theirs].at, {s, theirs})
  /\ Begin(p, Read("swap", s, live[s].at, q, theirs))

\* The two unique indexes on active requests, and the shifts they refer to.
RequestSwap(p) ==
  /\ transaction[p] # None /\ transaction[p].op = "swap"
  /\ LET s == transaction[p].shift
         theirs == transaction[p].theirs
     IN /\ Exists(s) /\ swap[s] = None
        /\ theirs # None => Exists(theirs) /\ \A r \in Shifts : swap[r] # None => swap[r].theirs # theirs
        /\ swap' = [swap EXCEPT ![s] =
             [by |-> p, to |-> transaction[p].to, row |-> transaction[p].row,
              theirs |-> theirs, theirRow |-> transaction[p].theirRow, accepted |-> FALSE]]
  /\ End(p)
  /\ UNCHANGED <<live, told, week, pending, publication, heard>>

\* respondToSwap: the colleague agrees.
AcceptSwap == \E s \in Shifts :
  /\ swap[s] # None /\ ~swap[s].accepted
  /\ swap' = [swap EXCEPT ![s].accepted = TRUE]
  /\ UNCHANGED <<live, told, week, pending, transaction, publication, heard>>

\* respondToSwap with a no, cancelSwap, decideSwap with 'denied', and decideSwap once
\* the shift has started or is no longer what the colleagues agreed to.
CloseSwap == \E s \in Shifts :
  /\ swap[s] # None
  /\ swap' = [swap EXCEPT ![s] = None]
  /\ UNCHANGED <<live, told, week, pending, transaction, publication, heard>>

\* Mutant: a shift moves if it is still with whoever gave it away.
SameAssignee(s, row, who) == live[s].status = "active" /\ live[s].who = who

\* The condition of reassignNow: version and assignee are still what was agreed.
StillAsAgreed(s, row, who) ==
  /\ live[s].status = "active" /\ live[s].version = row.version /\ live[s].who = who

\* decideSwap with 'approved': both shifts move, the constraint is checked at the end,
\* and every other active request about them is closed.
ApproveSwap == \E s \in Shifts :
  /\ swap[s] # None /\ swap[s].accepted
  /\ LET w == swap[s]
         r == w.theirs
         given == {s, r} \ {None}
         next(x) == IF x = s THEN w.to ELSE w.by
     IN /\ StillAsAgreed(s, w.row, w.by)
        /\ r # None => StillAsAgreed(r, w.theirRow, w.to)
        /\ MayChange
        /\ live' = [x \in Shifts |-> IF x \in given THEN Reassigned(live[x], next(x)) ELSE live[x]]
        /\ ConstraintsHold(live')
        /\ told' = [x \in Shifts |-> IF x \in given THEN ReassignedCopy(told[x], next(x))
                                                    ELSE told[x]]
        /\ heard' = [x \in Shifts |-> IF x \notin given THEN heard[x]
             ELSE [heard[x] EXCEPT ![w.to] = IF x = s THEN live[x].at ELSE None,
                                   ![w.by] = IF x = s THEN None ELSE live[x].at]]
        /\ swap' = SwapsWithout(given)
  /\ UNCHANGED <<week, pending, transaction, publication>>

Next ==
  \/ CreateShift
  \/ BeginPublish \/ PublishSchedule \/ AbandonPublish
  \/ CloseClaim \/ ApproveClaim
  \/ AcceptSwap \/ CloseSwap \/ ApproveSwap
  \/ \E m \in Managers :
       \/ BeginEdit(m) \/ UpdateShift(m) \/ AssignShift(m) \/ SetShiftOpen(m) \/ CancelShift(m)
       \/ AssignToSlot(m) \/ ClearSlot(m)
  \/ \E p \in People :
       \/ BeginClaim(p) \/ ClaimOpenShift(p) \/ BeginSwap(p) \/ RequestSwap(p)
  \/ \E a \in Actors : Rollback(a)

Spec == Init /\ [][Next]_vars

-----------------------------------------------------------------------------
(* Properties *)

Requests ==
  [op : {"update", "assign", "open", "close", "cancel", "fill", "clear", "claim", "swap"},
   shift : Shifts, row : Rows, published : BOOLEAN, at : Times,
   to : People \union {None}, theirs : Shifts \union {None}, theirRow : Rows \union {None}]
Swaps ==
  [by : People, to : People, row : Rows, theirs : Shifts \union {None},
   theirRow : Rows \union {None}, accepted : BOOLEAN]

\* Every column holds a value of its type, and a shift that exists has its times.
TypeOK ==
  /\ live \in [Shifts -> Rows] /\ \A s \in Shifts : Exists(s) => live[s].at # None
  /\ told \in [Shifts -> Views \union {None}]
  /\ week \in [published : BOOLEAN, changed : BOOLEAN]
  /\ pending \in [Shifts -> SUBSET People]
  /\ swap \in [Shifts -> Swaps \union {None}]
  /\ transaction \in [Actors -> Requests \union {None}]
  /\ publication \in [rows : [Shifts -> Rows], copies : [Shifts -> Views \union {None}]]
                       \union {None}
  /\ heard \in [Shifts -> [People -> Times \union {None}]]

\* What the colleagues of the swap for s saw is still so.
AsAgreed(s) ==
  LET w == swap[s] IN
    /\ live[s].at = w.row.at /\ live[s].who = w.by
    /\ w.theirs # None => live[w.theirs].at = w.theirRow.at /\ live[w.theirs].who = w.to

\* A swap moves only the shifts the colleagues agreed about, as they were when it was
\* requested: same times, same people (the version check of decideSwap).
SwapAsAgreed ==
  [][\A s \in Shifts :
       swap' # swap /\ told'[s] \notin {told[s], None}
         => \E r \in Shifts :
              /\ swap[r] # None /\ swap'[r] = None /\ swap[r].accepted
              /\ s \in {r, swap[r].theirs} /\ AsAgreed(r)]_vars

\* A published week that is not marked as changed shows employees what managers see
\* (has_unpublished_changes; the board offers to publish only then).
ChangedFlagHonest ==
  week.published /\ ~week.changed
    => \A s \in Shifts : Exists(s) => ~HasUnpublishedChange(live[s], told[s])

\* The publication takes the shift from p, whom a claim approved since it was read gives it
\* back to.
GivenBack(s, p) == publication.rows[s].who = None /\ Holder(publication.copies[s]) = p

\* Whoever gets to see a shift, for the first time or with other times, has been told: by a
\* publication exactly what is shown (diffPublication finds every change of what people see),
\* by an approval the times the shift has then.
PublicationReachesHolder ==
  [][\A s \in Shifts, p \in People :
       told'[s] # told[s] /\ Holder(told'[s]) = p
         => IF publication # None /\ publication' = None
              THEN heard'[s][p] = told'[s].at \/ GivenBack(s, p)
              ELSE heard'[s][p] = live'[s].at]_vars

\* Nobody a shift was published to loses it without being told, be it by a publication or a
\* swap.  An approved claim is left out: a claim that outlived assignToSlot takes the shift from
\* whoever was put there.
LossIsAnnounced ==
  [][\A s \in Shifts, p \in People :
       Holder(told[s]) = p /\ Holder(told'[s]) # p
         => heard'[s][p] = None \/ live'[s].who \in pending[s]]_vars
=============================================================================
