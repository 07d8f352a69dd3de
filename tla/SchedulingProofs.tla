---------------------------- MODULE SchedulingProofs ----------------------------
(***************************************************************************)
(* The types of Scheduling, and that its changed flag is honest; then, as  *)
(* long as no edit lands on a row that changed since it was read: a swap   *)
(* moves only what was agreed, whoever is shown a shift has been told, and *)
(* nobody loses one unheard.                                               *)
(***************************************************************************)
EXTENDS Scheduling, TLAPS

OptionalShift  == Shifts \union {None}
OptionalPerson == People \union {None}

Ops == {"update", "assign", "open", "close", "cancel", "fill", "clear", "claim", "swap"}

-----------------------------------------------------------------------------
(* What the handlers write into a row, column by column *)

\* r is a row with this status, these times and this version.
Like(r, status, at, version) ==
  r \in Rows /\ r.status = status /\ r.at = at /\ r.version = version

LEMMA SetColumn ==
  ASSUME NEW row \in Rows
  PROVE  /\ \A x \in Statuses : Like([row EXCEPT !.status = x], x, row.at, row.version)
         /\ \A x \in Times : Like([row EXCEPT !.at = x], row.status, x, row.version)
         /\ \A x \in OptionalPerson :
              Like([row EXCEPT !.who = x], row.status, row.at, row.version)
         /\ \A x \in BOOLEAN : Like([row EXCEPT !.open = x], row.status, row.at, row.version)
         /\ \A x \in Nat : Like([row EXCEPT !.version = x], row.status, row.at, x)
         /\ Like([row EXCEPT !.version = @ + 1], row.status, row.at, row.version + 1)
  BY DEF Rows, Like, OptionalPerson

\* updateShift
LEMMA MovedRow ==
  ASSUME NEW row \in Rows, NEW at \in Times
  PROVE  Like([row EXCEPT !.at = at, !.version = @ + 1], row.status, at, row.version + 1)
<1> DEFINE r == [row EXCEPT !.at = at]
<1>1. Like(r, row.status, at, row.version)
  BY SetColumn
<1>2. Like([r EXCEPT !.version = @ + 1], row.status, at, row.version + 1)
  <2> HIDE DEF r
  <2> QED BY <1>1, SetColumn DEF Like
<1> QED BY <1>2

\* assignShift, reassignNow and assignToSlot, the last with a version of its own.
LEMMA GivenRow ==
  ASSUME NEW row \in Rows, NEW who \in OptionalPerson
  PROVE  /\ Like([row EXCEPT !.who = who, !.open = FALSE, !.version = @ + 1],
                 row.status, row.at, row.version + 1)
         /\ \A v \in Nat : Like([row EXCEPT !.who = who, !.open = FALSE, !.version = v],
                                row.status, row.at, v)
<1> DEFINE r == [row EXCEPT !.who = who]
           q == [r EXCEPT !.open = FALSE]
<1>1. Like(r, row.status, row.at, row.version)
  BY SetColumn
<1>2. Like(q, row.status, row.at, row.version)
  <2> HIDE DEF r
  <2> QED BY <1>1, SetColumn DEF Like
<1>3. /\ Like([q EXCEPT !.version = @ + 1], row.status, row.at, row.version + 1)
      /\ \A v \in Nat : Like([q EXCEPT !.version = v], row.status, row.at, v)
  <2> HIDE DEF q
  <2> QED BY <1>2, SetColumn DEF Like
<1> QED BY <1>3

\* setShiftOpen
LEMMA OpenedRow ==
  ASSUME NEW row \in Rows, NEW open \in BOOLEAN
  PROVE  Like([row EXCEPT !.open = open, !.version = @ + 1],
              row.status, row.at, row.version + 1)
<1> DEFINE r == [row EXCEPT !.open = open]
<1>1. Like(r, row.status, row.at, row.version)
  BY SetColumn
<1>2. Like([r EXCEPT !.version = @ + 1], row.status, row.at, row.version + 1)
  <2> HIDE DEF r
  <2> QED BY <1>1, SetColumn DEF Like
<1> QED BY <1>2

\* clearSlot
LEMMA ClearedRow ==
  ASSUME NEW row \in Rows, NEW v \in Nat
  PROVE  Like([row EXCEPT !.who = None, !.version = v], row.status, row.at, v)
<1> DEFINE r == [row EXCEPT !.who = None]
<1>1. Like(r, row.status, row.at, row.version)
  BY SetColumn DEF OptionalPerson
<1>2. Like([r EXCEPT !.version = v], row.status, row.at, v)
  <2> HIDE DEF r
  <2> QED BY <1>1, SetColumn DEF Like
<1> QED BY <1>2

\* cancelShift, of a shift that was published.
LEMMA CancelledRow ==
  ASSUME NEW row \in Rows
  PROVE  Like([row EXCEPT !.status = "cancelled", !.open = FALSE, !.version = @ + 1],
              "cancelled", row.at, row.version + 1)
<1> DEFINE r == [row EXCEPT !.status = "cancelled"]
           q == [r EXCEPT !.open = FALSE]
<1>1. Like(r, "cancelled", row.at, row.version)
  BY SetColumn DEF Statuses
<1>2. Like(q, "cancelled", row.at, row.version)
  <2> HIDE DEF r
  <2> QED BY <1>1, SetColumn DEF Like
<1>3. Like([q EXCEPT !.version = @ + 1], "cancelled", row.at, row.version + 1)
  <2> HIDE DEF q
  <2> QED BY <1>2, SetColumn DEF Like
<1> QED BY <1>3

\* cancelShift, of a shift nobody was shown.
LEMMA DeletedRow ==
  ASSUME NEW row \in Rows
  PROVE  Like([row EXCEPT !.status = "deleted", !.who = None, !.open = FALSE],
              "deleted", row.at, row.version)
<1> DEFINE r == [row EXCEPT !.status = "deleted"]
           q == [r EXCEPT !.who = None]
<1>1. Like(r, "deleted", row.at, row.version)
  BY SetColumn DEF Statuses
<1>2. Like(q, "deleted", row.at, row.version)
  <2> HIDE DEF r
  <2> QED BY <1>1, SetColumn DEF Like, OptionalPerson
<1>3. Like([q EXCEPT !.open = FALSE], "deleted", row.at, row.version)
  <2> HIDE DEF q
  <2> QED BY <1>2, SetColumn DEF Like
<1> QED BY <1>3

-----------------------------------------------------------------------------
(* The invariant: what a transaction or a swap request read of a shift is   *)
(* what the shift still is, or the shift's version has moved on.            *)

Known(row, now) ==
  /\ now.status # "new"
  /\ \/ StaleWrites
     \/ row.version < now.version
     \/ row.version = now.version /\ row.at = now.at

BothKnown(request, s, rows) ==
  /\ Known(request.row, rows[s])
  /\ request.theirs # None
       => request.theirRow \in Rows /\ Known(request.theirRow, rows[request.theirs])

Typed == TypeOK /\ \A s \in Shifts : live[s].status # "new" => live[s].at # None

TransactionsKnown ==
  \A a \in Actors : transaction[a] # None =>
    /\ BothKnown(transaction[a], transaction[a].shift, live)
    /\ transaction[a].op = "swap" => transaction[a].to \in People
SwapsKnown == \A s \in Shifts : swap[s] # None => BothKnown(swap[s], s, live)

Inv == Typed /\ TransactionsKnown /\ SwapsKnown

\* What a step may make of a row: created for good, and its version tells of new times.
Grown(old, new) ==
  /\ old.status # "new" => new.status # "new"
  /\ \/ old.status = "new" \/ StaleWrites
     \/ old.version < new.version
     \/ old.version = new.version /\ old.at = new.at

\* A step that forgets requests, or keeps them, and adds none.
Calm ==
  /\ Typed'
  /\ \A s \in Shifts : Grown(live[s], live'[s])
  /\ \A a \in Actors : transaction'[a] \in {transaction[a], None}
  /\ \A s \in Shifts : swap'[s] \in {swap[s], None}

\* What is known of a row stays known as the row grows.
LEMMA StillKnown ==
  ASSUME NEW row \in Rows, NEW old \in Rows, NEW new \in Rows,
         Grown(old, new), Known(row, old)
  PROVE  Known(row, new)
<1>1. old.version \in Nat /\ new.version \in Nat /\ row.version \in Nat
  BY DEF Rows
<1> QED BY <1>1 DEF Grown, Known

LEMMA BothStillKnown ==
  ASSUME NEW old \in [Shifts -> Rows], NEW new \in [Shifts -> Rows],
         \A x \in Shifts : Grown(old[x], new[x]),
         NEW s \in Shifts, NEW q, q.row \in Rows, q.theirs \in OptionalShift,
         BothKnown(q, s, old)
  PROVE  BothKnown(q, s, new)
<1>1. Known(q.row, new[s])
  BY StillKnown DEF BothKnown
<1>2. ASSUME q.theirs # None PROVE q.theirRow \in Rows /\ Known(q.theirRow, new[q.theirs])
  BY <1>2, StillKnown DEF BothKnown, OptionalShift
<1> QED BY <1>1, <1>2 DEF BothKnown

LEMMA CalmStep == ASSUME Inv, Calm PROVE Inv'
<1>0. live \in [Shifts -> Rows] /\ live' \in [Shifts -> Rows]
  BY DEF Inv, Calm, Typed, TypeOK
<1>1. ASSUME NEW a \in Actors, transaction'[a] # None
      PROVE  /\ BothKnown(transaction'[a], transaction'[a].shift, live')
             /\ transaction'[a].op = "swap" => transaction'[a].to \in People
  <2>1. transaction'[a] = transaction[a]
    BY <1>1 DEF Calm
  <2>2. /\ transaction[a].shift \in Shifts /\ transaction[a].row \in Rows
        /\ transaction[a].theirs \in OptionalShift
        /\ BothKnown(transaction[a], transaction[a].shift, live)
        /\ transaction[a].op = "swap" => transaction[a].to \in People
    BY <1>1, <2>1
       DEF Inv, Typed, TypeOK, TransactionsKnown, Requests, OptionalShift
  <2> QED BY <1>0, <2>1, <2>2, BothStillKnown DEF Calm
<1>2. ASSUME NEW s \in Shifts, swap'[s] # None PROVE BothKnown(swap'[s], s, live')
  <2>1. swap'[s] = swap[s]
    BY <1>2 DEF Calm
  <2>2. /\ swap[s].row \in Rows /\ swap[s].theirs \in OptionalShift
        /\ BothKnown(swap[s], s, live)
    BY <1>2, <2>1 DEF Inv, Typed, TypeOK, SwapsKnown, Swaps, OptionalShift
  <2> QED BY <1>0, <2>1, <2>2, BothStillKnown DEF Calm
<1> QED BY <1>1, <1>2 DEF Inv, Calm, TransactionsKnown, SwapsKnown

-----------------------------------------------------------------------------
(* The steps that are calm *)

LEMMA InitInv == Init => Inv
<1> SUFFICES ASSUME Init PROVE Inv
  OBVIOUS
<1>1. TypeOK
  BY DEF Init, TypeOK, Rows, Statuses, Exists
<1> QED BY <1>1 DEF Init, Inv, Typed, TransactionsKnown, SwapsKnown

LEMMA MarkType ==
  ASSUME TypeOK, MarkChanged
  PROVE  week' \in [published : BOOLEAN, changed : BOOLEAN]
  BY DEF MarkChanged, TypeOK

LEMMA SwapsType ==
  ASSUME TypeOK, NEW S \in SUBSET Shifts, swap' = SwapsWithout(S)
  PROVE  /\ swap' \in [Shifts -> Swaps \union {None}]
         /\ \A s \in Shifts : swap'[s] \in {swap[s], None}
  BY DEF SwapsWithout, TypeOK

LEMMA EndType ==
  ASSUME TypeOK, NEW a \in Actors, End(a)
  PROVE  /\ transaction' \in [Actors -> Requests \union {None}]
         /\ \A b \in Actors : transaction'[b] \in {transaction[b], None}
  BY DEF End, TypeOK

\* Rows that did not change have grown.
LEMMA SameRows ==
  ASSUME Inv, live' = live
  PROVE  /\ live' \in [Shifts -> Rows]
         /\ \A s \in Shifts : (Exists(s)' \/ live'[s].status # "new") => live'[s].at # None
         /\ \A s \in Shifts : Grown(live[s], live'[s])
  BY DEF Inv, Typed, TypeOK, Grown, Exists

\* One row written, and fit to be: what Write leaves behind.
LEMMA OneRow ==
  ASSUME Inv, NEW s \in Shifts, NEW row \in Rows, Grown(live[s], row),
         row.status # "new" => row.at # None,
         \/ live' = [live EXCEPT ![s] = row]
         \/ Write(s, row)
  PROVE  /\ live' \in [Shifts -> Rows]
         /\ \A x \in Shifts : (Exists(x)' \/ live'[x].status # "new") => live'[x].at # None
         /\ \A x \in Shifts : Grown(live[x], live'[x])
<1>1. live \in [Shifts -> Rows] /\ \A x \in Shifts : live[x].status # "new" => live[x].at # None
  BY DEF Inv, Typed, TypeOK
<1>2. /\ live' \in [Shifts -> Rows]
      /\ live'[s] \in {live[s], row} /\ \A x \in Shifts \ {s} : live'[x] = live[x]
  BY <1>1 DEF Write
<1>3. \A x \in Shifts : Grown(live[x], live[x])
  BY DEF Grown
<1> QED BY <1>1, <1>2, <1>3 DEF Exists

LEMMA CreateCalm == ASSUME Inv, CreateShift PROVE Calm
<1> PICK s \in Shifts, at \in Times, who \in OptionalPerson :
      /\ live[s].status = "new"
      /\ live' = [live EXCEPT ![s] = [status |-> "active", at |-> at, who |-> who,
                                    open |-> FALSE, version |-> 1]]
  BY DEF CreateShift, OptionalPerson
<1> DEFINE row == [status |-> "active", at |-> at, who |-> who, open |-> FALSE, version |-> 1]
<1>1. row \in Rows /\ row.at # None /\ Grown(live[s], row)
  BY NoneAssumption DEF Rows, Statuses, Grown, OptionalPerson
<1>2. /\ live' \in [Shifts -> Rows]
      /\ \A x \in Shifts : (Exists(x)' \/ live'[x].status # "new") => live'[x].at # None
      /\ \A x \in Shifts : Grown(live[x], live'[x])
  <2> HIDE DEF row
  <2> QED BY <1>1, OneRow DEF row
<1>3. week' \in [published : BOOLEAN, changed : BOOLEAN]
  BY MarkType DEF CreateShift, Inv, Typed
<1> QED BY <1>2, <1>3 DEF CreateShift, Calm, Inv, Typed, TypeOK

\* The row an edit writes to, and what it read of it.
LEMMA EditedRow ==
  ASSUME Inv, NEW m \in Managers, NEW s \in Shifts, NEW op, Editing(m, op, s)
  PROVE  /\ transaction[m] \in Requests /\ live[s] \in Rows
         /\ live[s].status # "new" /\ live[s].at \in Times
         /\ StaleWrites \/ live[s] = transaction[m].row
<1>1. m \in Actors /\ transaction[m] # None /\ transaction[m].shift = s
  BY DEF Editing, Actors
<1>2. transaction[m] \in Requests /\ live[s] \in Rows
  BY <1>1 DEF Inv, Typed, TypeOK
<1>3. live[s].status # "new"
  BY <1>1 DEF Inv, TransactionsKnown, BothKnown, Known
<1>4. live[s].at \in Times
  BY <1>2, <1>3 DEF Inv, Typed, Rows
<1> QED BY <1>2, <1>3, <1>4 DEF Editing

\* An edit that writes a grown row is calm, whatever else of the right type it writes.
LEMMA EditCalm ==
  ASSUME Inv, NEW m \in Managers, NEW s \in Shifts, NEW op, Editing(m, op, s),
         NEW row \in Rows, Grown(live[s], row), row.at # None, Write(s, row),
         told' \in [Shifts -> Views \union {None}],
         week' \in [published : BOOLEAN, changed : BOOLEAN],
         pending' \in [Shifts -> SUBSET People],
         swap' = swap \/ swap' = SwapsWithout({s})
  PROVE  Calm
<1>1. /\ live' \in [Shifts -> Rows]
      /\ \A x \in Shifts : (Exists(x)' \/ live'[x].status # "new") => live'[x].at # None
      /\ \A x \in Shifts : Grown(live[x], live'[x])
  BY OneRow
<1>2. /\ swap' \in [Shifts -> Swaps \union {None}]
      /\ \A x \in Shifts : swap'[x] \in {swap[x], None}
  BY SwapsType DEF Inv, Typed, TypeOK
<1>3. /\ transaction' \in [Actors -> Requests \union {None}]
      /\ \A b \in Actors : transaction'[b] \in {transaction[b], None}
  BY EndType DEF Editing, Actors, Inv, Typed
<1>4. publication' = publication /\ heard' = heard
  BY DEF Editing
<1> QED BY <1>1, <1>2, <1>3, <1>4 DEF Calm, Inv, Typed, TypeOK

\* A row like the one that was there, a version further, has grown.
LEMMA NextVersion ==
  ASSUME NEW old \in Rows, old.status # "new", NEW new, NEW at \in Times,
         NEW status \in {old.status, "cancelled"}, Like(new, status, at, old.version + 1)
  PROVE  new \in Rows /\ new.at # None /\ Grown(old, new)
<1>1. old.version \in Nat /\ at # None
  BY NoneAssumption DEF Rows
<1> QED BY <1>1 DEF Like, Grown

LEMMA UpdateCalm == ASSUME Inv, NEW m \in Managers, UpdateShift(m) PROVE Calm
<1> PICK s \in Shifts :
      /\ Editing(m, "update", s)
      /\ Write(s, [live[s] EXCEPT !.at = transaction[m].at, !.version = @ + 1])
  BY DEF UpdateShift
<1> DEFINE row == [live[s] EXCEPT !.at = transaction[m].at, !.version = @ + 1]
<1>1. /\ transaction[m] \in Requests /\ live[s] \in Rows
      /\ live[s].status # "new" /\ live[s].at \in Times
  BY EditedRow
<1>2. transaction[m].at \in Times
  BY <1>1 DEF Requests
<1>3. Like(row, live[s].status, transaction[m].at, live[s].version + 1)
  BY <1>1, <1>2, MovedRow
<1>4. row \in Rows /\ row.at # None /\ Grown(live[s], row)
  <2> HIDE DEF row
  <2> QED BY <1>1, <1>2, <1>3, NextVersion
<1>5. /\ told' = told /\ pending' = pending /\ swap' = swap
      /\ week' \in [published : BOOLEAN, changed : BOOLEAN]
  BY MarkType DEF UpdateShift, Inv, Typed
<1> HIDE DEF row
<1> QED BY <1>4, <1>5, EditCalm DEF row, Inv, Typed, TypeOK

LEMMA AssignCalm == ASSUME Inv, NEW m \in Managers, AssignShift(m) PROVE Calm
<1> PICK s \in Shifts :
      /\ Editing(m, "assign", s)
      /\ Write(s, [live[s] EXCEPT !.who = transaction[m].to, !.open = FALSE, !.version = @ + 1])
      /\ pending' = IF transaction[m].to = None THEN pending ELSE [pending EXCEPT ![s] = {}]
      /\ swap' = SwapsWithout({s})
  BY DEF AssignShift
<1> DEFINE row == [live[s] EXCEPT !.who = transaction[m].to, !.open = FALSE, !.version = @ + 1]
<1>1. /\ transaction[m] \in Requests /\ live[s] \in Rows
      /\ live[s].status # "new" /\ live[s].at \in Times
  BY EditedRow
<1>2. transaction[m].to \in OptionalPerson
  BY <1>1 DEF Requests, OptionalPerson
<1>3. Like(row, live[s].status, live[s].at, live[s].version + 1)
  BY <1>1, <1>2, GivenRow
<1>4. row \in Rows /\ row.at # None /\ Grown(live[s], row)
  <2> HIDE DEF row
  <2> QED BY <1>1, <1>3, NextVersion
<1>5. /\ told' = told /\ pending' \in [Shifts -> SUBSET People]
      /\ week' \in [published : BOOLEAN, changed : BOOLEAN]
  BY MarkType DEF AssignShift, Inv, Typed, TypeOK
<1> HIDE DEF row
<1> QED BY <1>4, <1>5, EditCalm DEF row, Inv, Typed, TypeOK

LEMMA OpenCalm == ASSUME Inv, NEW m \in Managers, SetShiftOpen(m) PROVE Calm
<1> PICK s \in Shifts, open \in BOOLEAN :
      /\ Editing(m, IF open THEN "open" ELSE "close", s)
      /\ Write(s, [live[s] EXCEPT !.open = open, !.version = @ + 1])
      /\ pending' = IF open THEN pending ELSE [pending EXCEPT ![s] = {}]
  BY DEF SetShiftOpen
<1> DEFINE row == [live[s] EXCEPT !.open = open, !.version = @ + 1]
<1>1. /\ live[s] \in Rows
      /\ live[s].status # "new" /\ live[s].at \in Times
  BY EditedRow
<1>3. Like(row, live[s].status, live[s].at, live[s].version + 1)
  BY <1>1, OpenedRow
<1>4. row \in Rows /\ row.at # None /\ Grown(live[s], row)
  <2> HIDE DEF row
  <2> QED BY <1>1, <1>3, NextVersion
<1>5. /\ told' = told /\ swap' = swap /\ pending' \in [Shifts -> SUBSET People]
      /\ week' \in [published : BOOLEAN, changed : BOOLEAN]
  BY MarkType DEF SetShiftOpen, Inv, Typed, TypeOK
<1> HIDE DEF row
<1> QED BY <1>4, <1>5, EditCalm DEF row, Inv, Typed, TypeOK

LEMMA CancelCalm == ASSUME Inv, NEW m \in Managers, CancelShift(m) PROVE Calm
<1> PICK s \in Shifts :
      /\ Editing(m, "cancel", s)
      /\ pending' = [pending EXCEPT ![s] = {}]
      /\ swap' = SwapsWithout({s})
      /\ IF transaction[m].published
           THEN /\ Write(s, [live[s] EXCEPT !.status = "cancelled", !.open = FALSE,
                                            !.version = @ + 1])
                /\ MarkChanged
                /\ UNCHANGED told
           ELSE /\ Write(s, [live[s] EXCEPT !.status = "deleted", !.who = None, !.open = FALSE])
                /\ told' = [told EXCEPT ![s] = None]
                /\ UNCHANGED week
  BY DEF CancelShift
<1>1. /\ live[s] \in Rows
      /\ live[s].status # "new" /\ live[s].at \in Times
  BY EditedRow
<1>2. pending' \in [Shifts -> SUBSET People]
  BY DEF Inv, Typed, TypeOK
<1>3. CASE transaction[m].published
  <2> DEFINE row == [live[s] EXCEPT !.status = "cancelled", !.open = FALSE, !.version = @ + 1]
  <2>1. Like(row, "cancelled", live[s].at, live[s].version + 1)
    BY <1>1, CancelledRow
  <2>2. row \in Rows /\ row.at # None /\ Grown(live[s], row)
    <3> HIDE DEF row
    <3> QED BY <1>1, <2>1, NextVersion
  <2>3. told' = told /\ week' \in [published : BOOLEAN, changed : BOOLEAN]
    BY <1>3, MarkType DEF Inv, Typed
  <2> HIDE DEF row
  <2> QED BY <1>2, <1>3, <2>2, <2>3, EditCalm DEF row, Inv, Typed, TypeOK
<1>4. CASE ~transaction[m].published
  <2> DEFINE row == [live[s] EXCEPT !.status = "deleted", !.who = None, !.open = FALSE]
  <2>1. Like(row, "deleted", live[s].at, live[s].version)
    BY <1>1, DeletedRow
  <2>2. row \in Rows /\ row.at # None /\ Grown(live[s], row)
    <3> HIDE DEF row
    <3> QED BY <1>1, <2>1, NoneAssumption DEF Like, Grown
  <2>3. told' \in [Shifts -> Views \union {None}] /\ week' = week
    BY <1>4 DEF Inv, Typed, TypeOK
  <2> HIDE DEF row
  <2> QED BY <1>2, <1>4, <2>2, <2>3, EditCalm DEF row, Inv, Typed, TypeOK
<1> QED BY <1>3, <1>4

\* The planner's writes: a version computed from the row that was read.
LEMMA SlottedVersion ==
  ASSUME NEW old \in Rows, old.status # "new", old.at \in Times, NEW read \in Rows,
         StaleWrites \/ old = read, NEW new,
         Like(new, old.status, old.at, read.version + 1)
  PROVE  new \in Rows /\ new.at # None /\ Grown(old, new)
<1>1. old.version \in Nat /\ old.at # None
  BY NoneAssumption DEF Rows
<1> QED BY <1>1 DEF Like, Grown

LEMMA FillCalm == ASSUME Inv, NEW m \in Managers, AssignToSlot(m) PROVE Calm
<1> PICK s \in Shifts :
      /\ Editing(m, "fill", s)
      /\ Write(s, [live[s] EXCEPT !.who = transaction[m].to, !.open = FALSE,
                                  !.version = transaction[m].row.version + 1])
  BY DEF AssignToSlot
<1> DEFINE row == [live[s] EXCEPT !.who = transaction[m].to, !.open = FALSE,
                                  !.version = transaction[m].row.version + 1]
<1>1. /\ transaction[m] \in Requests /\ live[s] \in Rows
      /\ live[s].status # "new" /\ live[s].at \in Times
      /\ StaleWrites \/ live[s] = transaction[m].row
  BY EditedRow
<1>2. /\ transaction[m].to \in OptionalPerson /\ transaction[m].row \in Rows
      /\ transaction[m].row.version + 1 \in Nat
  BY <1>1 DEF Requests, Rows, OptionalPerson
<1>3. Like(row, live[s].status, live[s].at, transaction[m].row.version + 1)
  BY <1>1, <1>2, GivenRow
<1>4. row \in Rows /\ row.at # None /\ Grown(live[s], row)
  <2> HIDE DEF row
  <2> QED BY <1>1, <1>2, <1>3, SlottedVersion
<1>5. /\ told' = told /\ swap' = swap /\ pending' = pending
      /\ week' \in [published : BOOLEAN, changed : BOOLEAN]
  BY MarkType DEF AssignToSlot, Inv, Typed
<1> HIDE DEF row
<1> QED BY <1>4, <1>5, EditCalm DEF row, Inv, Typed, TypeOK

LEMMA ClearCalm == ASSUME Inv, NEW m \in Managers, ClearSlot(m) PROVE Calm
<1> PICK s \in Shifts :
      /\ Editing(m, "clear", s)
      /\ Write(s, [live[s] EXCEPT !.who = None, !.version = transaction[m].row.version + 1])
  BY DEF ClearSlot
<1> DEFINE row == [live[s] EXCEPT !.who = None, !.version = transaction[m].row.version + 1]
<1>1. /\ transaction[m] \in Requests /\ live[s] \in Rows
      /\ live[s].status # "new" /\ live[s].at \in Times
      /\ StaleWrites \/ live[s] = transaction[m].row
  BY EditedRow
<1>2. transaction[m].row \in Rows /\ transaction[m].row.version + 1 \in Nat
  BY <1>1 DEF Requests, Rows
<1>3. Like(row, live[s].status, live[s].at, transaction[m].row.version + 1)
  BY <1>1, <1>2, ClearedRow
<1>4. row \in Rows /\ row.at # None /\ Grown(live[s], row)
  <2> HIDE DEF row
  <2> QED BY <1>1, <1>2, <1>3, SlottedVersion
<1>5. /\ told' = told /\ swap' = swap /\ pending' = pending
      /\ week' \in [published : BOOLEAN, changed : BOOLEAN]
  BY MarkType DEF ClearSlot, Inv, Typed
<1> HIDE DEF row
<1> QED BY <1>4, <1>5, EditCalm DEF row, Inv, Typed, TypeOK

LEMMA BeginPublishCalm == ASSUME Inv, BeginPublish PROVE Calm
<1>1. publication' \in [rows : [Shifts -> Rows], copies : [Shifts -> Views \union {None}]]
  BY DEF BeginPublish, Inv, Typed, TypeOK
<1> QED BY <1>1, SameRows DEF BeginPublish, Calm, Inv, Typed, TypeOK

LEMMA PublishCalm == ASSUME Inv, PublishSchedule PROVE Calm
<1>1. ASSUME NEW s \in Shifts, Exists(s) PROVE View(live[s]) \in Views
  <2>1. /\ live[s] \in Rows /\ live[s].at # None
        /\ live[s].status \in {"active", "cancelled"}
    BY <1>1 DEF Inv, Typed, TypeOK, Exists
  <2> QED BY <2>1 DEF View, Views, Rows
<1>2. told' \in [Shifts -> Views \union {None}]
  BY <1>1 DEF PublishSchedule, Inv, Typed, TypeOK
<1>3. ASSUME NEW s \in Shifts, NEW p \in People
      PROVE  Diff(publication.rows[s], publication.copies[s], heard[s][p], p)
               \in Times \union {None}
  <2>1. /\ publication.rows[s] \in Rows /\ heard[s][p] \in Times \union {None}
        /\ p # None
    BY NoneAssumption DEF PublishSchedule, Inv, Typed, TypeOK
  <2> QED BY <2>1 DEF Diff, Rows
<1>4. heard' \in [Shifts -> [People -> Times \union {None}]]
  BY <1>3 DEF PublishSchedule
<1>5. week' \in [published : BOOLEAN, changed : BOOLEAN]
  BY DEF PublishSchedule
<1> QED BY <1>2, <1>4, <1>5, SameRows DEF PublishSchedule, Calm, Inv, Typed, TypeOK

LEMMA AbandonCalm == ASSUME Inv, AbandonPublish PROVE Calm
  BY SameRows DEF AbandonPublish, Calm, Inv, Typed, TypeOK

LEMMA RollbackCalm == ASSUME Inv, NEW a \in Actors, Rollback(a) PROVE Calm
<1>1. /\ transaction' \in [Actors -> Requests \union {None}]
      /\ \A b \in Actors : transaction'[b] \in {transaction[b], None}
  BY EndType DEF Rollback, Inv, Typed
<1> QED BY <1>1, SameRows DEF Rollback, Calm, Inv, Typed, TypeOK

LEMMA ClaimCalm == ASSUME Inv, NEW p \in People, ClaimOpenShift(p) PROVE Calm
<1>1. /\ transaction' \in [Actors -> Requests \union {None}]
      /\ \A b \in Actors : transaction'[b] \in {transaction[b], None}
  BY EndType DEF ClaimOpenShift, Inv, Typed, Actors
<1>2. pending' \in [Shifts -> SUBSET People]
  BY DEF ClaimOpenShift, Inv, Typed, TypeOK
<1> QED BY <1>1, <1>2, SameRows DEF ClaimOpenShift, Calm, Inv, Typed, TypeOK

LEMMA CloseClaimCalm == ASSUME Inv, CloseClaim PROVE Calm
<1>2. pending' \in [Shifts -> SUBSET People]
  BY DEF CloseClaim, Inv, Typed, TypeOK
<1> QED BY <1>2, SameRows DEF CloseClaim, Calm, Inv, Typed, TypeOK

\* reassignNow keeps the types of the row and of its published copy.
LEMMA ReassignType ==
  ASSUME NEW row \in Rows, NEW copy \in Views \union {None}, NEW to \in People
  PROVE  /\ Like(Reassigned(row, to), row.status, row.at, row.version + 1)
         /\ ReassignedCopy(copy, to) \in Views \union {None}
<1>1. Like(Reassigned(row, to), row.status, row.at, row.version + 1)
  BY GivenRow DEF Reassigned, OptionalPerson
<1>2. CASE copy = None
  BY <1>1, <1>2 DEF ReassignedCopy
<1>3. CASE copy # None
  <2> DEFINE c == [copy EXCEPT !.who = to]
  <2>1. c \in Views
    BY <1>3 DEF Views
  <2>2. [c EXCEPT !.open = FALSE] \in Views
    <3> HIDE DEF c
    <3> QED BY <2>1 DEF Views
  <2> QED BY <1>1, <1>3, <2>2 DEF ReassignedCopy
<1> QED BY <1>2, <1>3

LEMMA ApproveClaimCalm == ASSUME Inv, ApproveClaim PROVE Calm
<1> PICK s \in Shifts, p \in People :
      /\ live[s].status = "active"
      /\ live' = [live EXCEPT ![s] = Reassigned(live[s], p)]
      /\ told' = [told EXCEPT ![s] = ReassignedCopy(told[s], p)]
      /\ pending' = [pending EXCEPT ![s] = {}]
      /\ heard' = Tell(heard, s, p, live[s].at)
  BY DEF ApproveClaim, Inv, Typed, TypeOK
<1>1. /\ live[s] \in Rows /\ p \in People /\ told[s] \in Views \union {None}
      /\ live[s].status # "new" /\ live[s].at \in Times
  BY DEF Inv, Typed, TypeOK, Rows
<1> DEFINE row == Reassigned(live[s], p)
<1>2. Like(row, live[s].status, live[s].at, live[s].version + 1)
  BY <1>1, ReassignType
<1>3. row \in Rows /\ row.at # None /\ Grown(live[s], row)
  <2> HIDE DEF row
  <2> QED BY <1>1, <1>2, NextVersion
<1>4. /\ live' \in [Shifts -> Rows]
      /\ \A x \in Shifts : (Exists(x)' \/ live'[x].status # "new") => live'[x].at # None
      /\ \A x \in Shifts : Grown(live[x], live'[x])
  <2> HIDE DEF row
  <2> QED BY <1>3, OneRow DEF row
<1>5. ReassignedCopy(told[s], p) \in Views \union {None}
  BY <1>1, ReassignType
<1>6. /\ told' \in [Shifts -> Views \union {None}]
      /\ pending' \in [Shifts -> SUBSET People]
  BY <1>5 DEF Inv, Typed, TypeOK
<1>7. heard' \in [Shifts -> [People -> Times \union {None}]]
  BY <1>1 DEF Tell, Inv, Typed, TypeOK
<1> QED BY <1>4, <1>6, <1>7 DEF ApproveClaim, Calm, Inv, Typed, TypeOK

LEMMA CloseSwapCalm == ASSUME Inv, CloseSwap PROVE Calm
<1>1. /\ swap' \in [Shifts -> Swaps \union {None}]
      /\ \A s \in Shifts : swap'[s] \in {swap[s], None}
  BY DEF CloseSwap, Inv, Typed, TypeOK
<1> QED BY <1>1, SameRows DEF CloseSwap, Calm, Inv, Typed, TypeOK

\* What decideSwap does to the shifts of the approved request for s.
LEMMA ApprovedSwap ==
  ASSUME Inv, NEW s \in Shifts, swap[s] # None,
         NEW given, given = {s, swap[s].theirs} \ {None}
  PROVE  /\ given \subseteq Shifts
         /\ swap[s].to \in People /\ swap[s].by \in People
         /\ swap[s].row \in Rows /\ swap[s].theirs \in OptionalShift
         /\ BothKnown(swap[s], s, live)
         /\ \A x \in given : live[x] \in Rows /\ live[x].status # "new" /\ live[x].at \in Times
<1>1. swap[s] \in Swaps /\ BothKnown(swap[s], s, live)
  BY DEF Inv, Typed, TypeOK, SwapsKnown
<1>2. /\ given \subseteq Shifts
      /\ swap[s].to \in People /\ swap[s].by \in People
      /\ swap[s].row \in Rows /\ swap[s].theirs \in OptionalShift
  BY <1>1 DEF Swaps, OptionalShift
<1>3. ASSUME NEW x \in given
      PROVE  live[x] \in Rows /\ live[x].status # "new" /\ live[x].at \in Times
  <2>1. live[x].status # "new"
    BY <1>1 DEF BothKnown, Known
  <2> QED BY <1>2, <2>1 DEF Inv, Typed, TypeOK, Rows
<1> QED BY <1>1, <1>2, <1>3

LEMMA ApproveSwapCalm == ASSUME Inv, ApproveSwap PROVE Calm
<1> PICK s \in Shifts :
      /\ swap[s] # None /\ swap[s].accepted
      /\ LET w == swap[s]
             r == w.theirs
             given == {s, r} \ {None}
             next(x) == IF x = s THEN w.to ELSE w.by
         IN /\ live' = [x \in Shifts |-> IF x \in given THEN Reassigned(live[x], next(x))
                                                        ELSE live[x]]
            /\ told' = [x \in Shifts |-> IF x \in given THEN ReassignedCopy(told[x], next(x))
                                                        ELSE told[x]]
            /\ heard' = [x \in Shifts |-> IF x \notin given THEN heard[x]
                 ELSE [heard[x] EXCEPT ![w.to] = IF x = s THEN live[x].at ELSE None,
                                       ![w.by] = IF x = s THEN None ELSE live[x].at]]
            /\ swap' = SwapsWithout(given)
  BY DEF ApproveSwap
<1> DEFINE w == swap[s]
           given == {s, w.theirs} \ {None}
           next(x) == IF x = s THEN w.to ELSE w.by
<1>1. /\ given \subseteq Shifts
      /\ w.to \in People /\ w.by \in People
      /\ \A x \in given : live[x] \in Rows /\ live[x].status # "new" /\ live[x].at \in Times
  BY ApprovedSwap
<1>2. \A x \in given : next(x) \in People
  BY <1>1
<1>3. ASSUME NEW x \in given
      PROVE  /\ Reassigned(live[x], next(x)) \in Rows
             /\ Reassigned(live[x], next(x)).at # None
             /\ Grown(live[x], Reassigned(live[x], next(x)))
  <2>1. Like(Reassigned(live[x], next(x)), live[x].status, live[x].at, live[x].version + 1)
    BY <1>1, <1>2, ReassignType
  <2> DEFINE row == Reassigned(live[x], next(x))
  <2> HIDE DEF row
  <2> QED BY <1>1, <2>1, NextVersion DEF row
<1>4. ASSUME NEW x \in given
      PROVE  ReassignedCopy(told[x], next(x)) \in Views \union {None}
  <2>1. live[x] \in Rows /\ told[x] \in Views \union {None} /\ next(x) \in People
    BY <1>1, <1>2 DEF Inv, Typed, TypeOK
  <2> QED BY <2>1, ReassignType
<1>5. \A x \in Shifts : live'[x] = IF x \in given THEN Reassigned(live[x], next(x)) ELSE live[x]
  OBVIOUS
<1>6. /\ live' \in [Shifts -> Rows]
      /\ \A x \in Shifts : (Exists(x)' \/ live'[x].status # "new") => live'[x].at # None
      /\ \A x \in Shifts : Grown(live[x], live'[x])
  <2>1. \A x \in Shifts : Grown(live[x], live[x])
    BY DEF Grown
  <2>2. live' \in [Shifts -> Rows]
    BY <1>3 DEF Inv, Typed, TypeOK
  <2>3. ASSUME NEW x \in Shifts, x \in given
        PROVE  live'[x].at # None /\ Grown(live[x], live'[x])
    BY <1>3, <1>5, <2>3
  <2>4. ASSUME NEW x \in Shifts, x \notin given PROVE live'[x] = live[x]
    BY <1>5, <2>4
  <2> HIDE DEF given
  <2> QED BY <2>1, <2>2, <2>3, <2>4 DEF Inv, Typed, Exists
<1>7. told' \in [Shifts -> Views \union {None}]
  BY <1>4 DEF Inv, Typed, TypeOK
<1>8. heard' \in [Shifts -> [People -> Times \union {None}]]
  <2>1. ASSUME NEW x \in given, NEW a \in Times \union {None}, NEW b \in Times \union {None}
        PROVE  [heard[x] EXCEPT ![w.to] = a, ![w.by] = b] \in [People -> Times \union {None}]
    BY <1>1 DEF Inv, Typed, TypeOK
  <2> QED BY <1>1, <2>1 DEF Inv, Typed, TypeOK
<1>9. /\ swap' \in [Shifts -> Swaps \union {None}]
      /\ \A x \in Shifts : swap'[x] \in {swap[x], None}
  BY <1>1, SwapsType DEF Inv, Typed
<1>10. UNCHANGED <<week, pending, transaction, publication>>
  BY DEF ApproveSwap
<1> HIDE DEF w, given, next
<1> QED BY <1>6, <1>7, <1>8, <1>9, <1>10 DEF Calm, Inv, Typed, TypeOK

-----------------------------------------------------------------------------
(* The steps that read, request or answer *)

\* A transaction that has just read shifts that exist knows them.
LEMMA ReadInv ==
  ASSUME Inv, NEW a \in Actors, NEW op \in Ops, NEW s \in Shifts, NEW at \in Times,
         NEW to \in OptionalPerson, NEW theirs \in OptionalShift,
         live[s].status # "new", theirs # None => live[theirs].status # "new",
         op = "swap" => to \in People,
         Begin(a, Read(op, s, at, to, theirs))
  PROVE  Inv'
<1> DEFINE request == Read(op, s, at, to, theirs)
<1>1. /\ live[s] \in Rows /\ live[s].version \in Nat
      /\ theirs # None => live[theirs] \in Rows /\ live[theirs].version \in Nat
  BY DEF Inv, Typed, TypeOK, Rows, OptionalShift
<1>2. request \in Requests
  BY <1>1 DEF Read, Requests, Ops, OptionalShift, OptionalPerson
<1>3. /\ request.shift = s /\ BothKnown(request, s, live)
      /\ request.op = "swap" => request.to \in People
  BY <1>1 DEF Read, BothKnown, Known
<1>4. /\ transaction' = [transaction EXCEPT ![a] = request]
      /\ UNCHANGED <<live, told, week, pending, swap, publication, heard>>
  BY DEF Begin
<1>5. Typed'
  <2> HIDE DEF request
  <2> QED BY <1>2, <1>4 DEF Inv, Typed, TypeOK, Exists
<1>6. TransactionsKnown'
  <2> HIDE DEF request
  <2>1. ASSUME NEW b \in Actors
        PROVE  transaction'[b] = IF b = a THEN request ELSE transaction[b]
    BY <1>4 DEF Inv, Typed, TypeOK
  <2> QED BY <1>3, <1>4, <2>1 DEF Inv, TransactionsKnown
<1>7. SwapsKnown'
  BY <1>4 DEF Inv, SwapsKnown
<1> QED BY <1>5, <1>6, <1>7 DEF Inv

LEMMA BeginEditInv == ASSUME Inv, NEW m \in Managers, BeginEdit(m) PROVE Inv'
<1>1. \A s \in Shifts : Exists(s) => live[s].at \in Times /\ live[s].status # "new"
  BY DEF Inv, Typed, TypeOK, Rows, Exists
<1>2. PICK op \in Ops \ {"swap"}, s \in Shifts, at \in Times, to \in OptionalPerson :
        Exists(s) /\ Begin(m, Read(op, s, at, to, None))
  BY <1>1 DEF BeginEdit, Ops, OptionalPerson
<1> QED BY <1>1, <1>2, ReadInv DEF OptionalShift, Actors

LEMMA BeginClaimInv == ASSUME Inv, NEW p \in People, BeginClaim(p) PROVE Inv'
<1>1. PICK s \in Shifts :
        live[s].status = "active" /\ Begin(p, Read("claim", s, live[s].at, p, None))
  BY DEF BeginClaim
<1>2. live[s].at \in Times /\ live[s].status # "new"
  BY <1>1 DEF Inv, Typed, TypeOK, Rows
<1>3. "claim" \in Ops /\ p \in OptionalPerson /\ None \in OptionalShift /\ p \in Actors
  BY DEF Ops, OptionalPerson, OptionalShift, Actors
<1> QED BY <1>1, <1>2, <1>3, ReadInv

LEMMA BeginSwapInv == ASSUME Inv, NEW p \in People, BeginSwap(p) PROVE Inv'
<1>1. PICK s \in Shifts, q \in People, theirs \in OptionalShift :
        /\ live[s].status = "active" /\ (theirs # None => live[theirs].status = "active")
        /\ Begin(p, Read("swap", s, live[s].at, q, theirs))
  BY DEF BeginSwap, OwnPublished, OptionalShift
<1>2. live[s].at \in Times /\ live[s].status # "new"
  BY <1>1 DEF Inv, Typed, TypeOK, Rows
<1>3. "swap" \in Ops /\ q \in OptionalPerson /\ p \in Actors
  BY DEF Ops, OptionalPerson, Actors
<1> QED BY <1>1, <1>2, <1>3, ReadInv

\* A request knows what its transaction knew.
LEMMA RequestSwapInv == ASSUME Inv, NEW p \in People, RequestSwap(p) PROVE Inv'
<1> DEFINE t == transaction[p]
           request == [by |-> p, to |-> t.to, row |-> t.row, theirs |-> t.theirs,
                       theirRow |-> t.theirRow, accepted |-> FALSE]
<1>1. /\ t # None /\ t.op = "swap" /\ swap' = [swap EXCEPT ![t.shift] = request]
      /\ End(p) /\ UNCHANGED <<live, told, week, pending, publication, heard>>
  BY DEF RequestSwap
<1>2. t \in Requests /\ BothKnown(t, t.shift, live) /\ t.to \in People
  BY <1>1 DEF Inv, Typed, TypeOK, TransactionsKnown, Actors
<1>3. /\ transaction' \in [Actors -> Requests \union {None}]
      /\ \A b \in Actors : transaction'[b] \in {transaction[b], None}
  BY <1>1, EndType DEF Inv, Typed, Actors
<1>4. BothKnown(request, t.shift, live)
  BY <1>2 DEF BothKnown
<1>5. request \in Swaps
  BY <1>2 DEF Requests, Swaps
<1>6. t.shift \in Shifts
  BY <1>2 DEF Requests
<1> HIDE DEF t, request
<1>7. Typed'
  BY <1>1, <1>3, <1>5 DEF Inv, Typed, TypeOK, Exists
<1>8. TransactionsKnown'
  BY <1>1, <1>3 DEF Inv, TransactionsKnown
<1>9. SwapsKnown'
  <2>1. \A s \in Shifts : swap'[s] = IF s = t.shift THEN request ELSE swap[s]
    BY <1>1, <1>6 DEF Inv, Typed, TypeOK
  <2> QED BY <1>1, <1>4, <2>1 DEF Inv, SwapsKnown
<1> QED BY <1>7, <1>8, <1>9 DEF Inv

LEMMA AcceptSwapInv == ASSUME Inv, AcceptSwap PROVE Inv'
<1> PICK s \in Shifts : swap[s] # None /\ swap' = [swap EXCEPT ![s].accepted = TRUE]
  BY DEF AcceptSwap
<1> DEFINE request == [swap[s] EXCEPT !.accepted = TRUE]
<1>1. swap[s] \in Swaps /\ BothKnown(swap[s], s, live)
  BY DEF Inv, Typed, TypeOK, SwapsKnown
<1>2. request \in Swaps /\ BothKnown(request, s, live)
  BY <1>1 DEF Swaps, BothKnown
<1>3. swap' = [swap EXCEPT ![s] = request]
  OBVIOUS
<1>4. UNCHANGED <<live, told, week, pending, transaction, publication, heard>>
  BY DEF AcceptSwap
<1> HIDE DEF request
<1>5. Typed'
  BY <1>2, <1>3, <1>4 DEF Inv, Typed, TypeOK, Exists
<1>6. TransactionsKnown'
  BY <1>4 DEF Inv, TransactionsKnown
<1>7. SwapsKnown'
  <2>1. \A x \in Shifts : swap'[x] = IF x = s THEN request ELSE swap[x]
    BY <1>3 DEF Inv, Typed, TypeOK
  <2> QED BY <1>2, <1>4, <2>1 DEF Inv, SwapsKnown
<1> QED BY <1>5, <1>6, <1>7 DEF Inv

-----------------------------------------------------------------------------
(* The theorems *)

LEMMA StutterInv == ASSUME Inv, UNCHANGED vars PROVE Inv'
  BY DEF vars, Inv, Typed, TypeOK, TransactionsKnown, SwapsKnown, Exists

LEMMA NextInv == ASSUME Inv, Next PROVE Inv'
<1>1. CASE CreateShift
  BY <1>1, CreateCalm, CalmStep
<1>2. CASE BeginPublish \/ PublishSchedule \/ AbandonPublish
  BY <1>2, BeginPublishCalm, PublishCalm, AbandonCalm, CalmStep
<1>3. CASE CloseClaim \/ ApproveClaim
  BY <1>3, CloseClaimCalm, ApproveClaimCalm, CalmStep
<1>4. CASE AcceptSwap
  BY <1>4, AcceptSwapInv
<1>5. CASE CloseSwap \/ ApproveSwap
  BY <1>5, CloseSwapCalm, ApproveSwapCalm, CalmStep
<1>6. ASSUME NEW m \in Managers,
             \/ UpdateShift(m) \/ AssignShift(m) \/ SetShiftOpen(m) \/ CancelShift(m)
             \/ AssignToSlot(m) \/ ClearSlot(m)
      PROVE  Inv'
  BY <1>6, UpdateCalm, AssignCalm, OpenCalm, CancelCalm, FillCalm, ClearCalm, CalmStep
<1>7. ASSUME NEW m \in Managers, BeginEdit(m) PROVE Inv'
  BY <1>7, BeginEditInv
<1>8. ASSUME NEW p \in People,
             BeginClaim(p) \/ ClaimOpenShift(p) \/ BeginSwap(p) \/ RequestSwap(p)
      PROVE  Inv'
  BY <1>8, BeginClaimInv, ClaimCalm, BeginSwapInv, RequestSwapInv, CalmStep
<1>9. ASSUME NEW a \in Actors, Rollback(a) PROVE Inv'
  BY <1>9, RollbackCalm, CalmStep
<1> QED BY <1>1, <1>2, <1>3, <1>4, <1>5, <1>6, <1>7, <1>8, <1>9 DEF Next

\* What every transaction and every active swap request read of a shift is still so, or
\* the shift has a later version; without the condition on stale edits, types only.
THEOREM KnownRows == Spec => []Inv
<1>1. Init => Inv
  BY InitInv
<1>2. Inv /\ [Next]_vars => Inv'
  BY NextInv, StutterInv
<1> QED BY <1>1, <1>2, PTL DEF Spec

\* Every column holds a value of its type, whoever interleaves with whom.
THEOREM TypeCorrect == Spec => []TypeOK
<1>1. Inv => TypeOK
  BY DEF Inv, Typed
<1> QED BY <1>1, KnownRows, PTL

\* A step changes both the swap requests and a published copy only by cancelling a shift
\* that was never published, or by approving a swap.
LEMMA OnlyApproval ==
  ASSUME Inv, Next, swap' # swap, NEW s \in Shifts, told'[s] \notin {told[s], None}
  PROVE  ApproveSwap
<1>1. told' # told
  OBVIOUS
<1>2. ASSUME NEW m \in Managers, CancelShift(m) PROVE FALSE
  BY <1>2 DEF CancelShift, Inv, Typed, TypeOK
<1>3. ~(PublishSchedule \/ AbandonPublish \/ ApproveClaim \/ CloseClaim)
  BY DEF PublishSchedule, AbandonPublish, ApproveClaim, CloseClaim
<1>4. ~(CreateShift \/ BeginPublish \/ AcceptSwap \/ CloseSwap)
  BY <1>1 DEF CreateShift, BeginPublish, AcceptSwap, CloseSwap
<1>5. ASSUME NEW m \in Managers
      PROVE  ~(\/ BeginEdit(m) \/ UpdateShift(m) \/ AssignShift(m) \/ SetShiftOpen(m)
               \/ AssignToSlot(m) \/ ClearSlot(m))
  <2>1. ~BeginEdit(m)
    BY <1>1 DEF BeginEdit, Begin
  <2> QED BY <1>1, <2>1 DEF UpdateShift, AssignShift, SetShiftOpen, AssignToSlot, ClearSlot
<1>6. ASSUME NEW p \in People
      PROVE  ~(BeginClaim(p) \/ ClaimOpenShift(p) \/ BeginSwap(p) \/ RequestSwap(p))
  BY <1>1 DEF BeginClaim, ClaimOpenShift, BeginSwap, RequestSwap, Begin
<1>7. ASSUME NEW a \in Actors PROVE ~Rollback(a)
  BY <1>1 DEF Rollback
<1> QED BY <1>2, <1>3, <1>4, <1>5, <1>6, <1>7 DEF Next

\* The version condition of reassignNow is enough for the colleagues' agreement about s.
LEMMA ApprovedAsAgreed ==
  ASSUME Inv, ~StaleWrites, NEW s \in Shifts, swap[s] # None,
         StillAsAgreed(s, swap[s].row, swap[s].by),
         swap[s].theirs # None
           => StillAsAgreed(swap[s].theirs, swap[s].theirRow, swap[s].to)
  PROVE  AsAgreed(s)
<1>1. BothKnown(swap[s], s, live) /\ live[s].version \in Nat
  BY DEF Inv, Typed, TypeOK, SwapsKnown, Rows
<1>2. swap[s].theirs # None => live[swap[s].theirs].version \in Nat
  BY ApprovedSwap DEF Inv, Typed, TypeOK, Rows, OptionalShift
<1> QED BY <1>1, <1>2 DEF BothKnown, Known, StillAsAgreed, AsAgreed

\* As long as no edit lands on a row that changed since it was read, approving a swap moves
\* only the shifts the colleagues agreed about, with the times and people they saw:
\* decideSwap need look at nothing but the version and the assignee.
THEOREM SwapAgreed == ASSUME ~StaleWrites PROVE Spec => SwapAsAgreed
<1>1. ASSUME Inv, Next, NEW s \in Shifts, swap' # swap, told'[s] \notin {told[s], None}
      PROVE  \E r \in Shifts :
               /\ swap[r] # None /\ swap'[r] = None /\ swap[r].accepted
               /\ s \in {r, swap[r].theirs} /\ AsAgreed(r)
  <2>1. ApproveSwap
    BY <1>1, OnlyApproval
  <2>2. PICK r \in Shifts :
          /\ swap[r] # None /\ swap[r].accepted
          /\ StillAsAgreed(r, swap[r].row, swap[r].by)
          /\ swap[r].theirs # None
               => StillAsAgreed(swap[r].theirs, swap[r].theirRow, swap[r].to)
          /\ told' = [x \in Shifts |-> IF x \in {r, swap[r].theirs} \ {None}
                       THEN ReassignedCopy(told[x], IF x = r THEN swap[r].to ELSE swap[r].by)
                       ELSE told[x]]
          /\ swap' = SwapsWithout({r, swap[r].theirs} \ {None})
    BY <2>1 DEF ApproveSwap
  <2>3. s \in {r, swap[r].theirs}
    BY <1>1, <2>2
  <2>4. swap'[r] = None
    BY <2>2, NoneAssumption DEF SwapsWithout
  <2>5. AsAgreed(r)
    BY <1>1, <2>2, ApprovedAsAgreed
  <2> QED BY <2>2, <2>3, <2>4, <2>5
<1>2. Inv /\ [Next]_vars
        => [\A s \in Shifts :
              swap' # swap /\ told'[s] \notin {told[s], None}
                => \E r \in Shifts :
                     /\ swap[r] # None /\ swap'[r] = None /\ swap[r].accepted
                     /\ s \in {r, swap[r].theirs} /\ AsAgreed(r)]_vars
  BY <1>1
<1> QED BY <1>2, KnownRows, PTL DEF Spec, SwapAsAgreed

-----------------------------------------------------------------------------
(* The changed flag                                                         *)

\* What reassignNow makes of a row, and of its published copy.
LEMMA HandedRow ==
  ASSUME NEW row \in Rows, NEW to \in People
  PROVE  /\ Like(Reassigned(row, to), row.status, row.at, row.version + 1)
         /\ Reassigned(row, to).who = to /\ Reassigned(row, to).open = FALSE
<1>1. Like(Reassigned(row, to), row.status, row.at, row.version + 1)
  BY GivenRow DEF Reassigned, OptionalPerson
<1>2. Reassigned(row, to).who = to /\ Reassigned(row, to).open = FALSE
  BY DEF Reassigned, Rows
<1> QED BY <1>1, <1>2

LEMMA HandedCopy ==
  ASSUME NEW copy \in Views, NEW to \in People
  PROVE  ReassignedCopy(copy, to)
           = [status |-> copy.status, at |-> copy.at, who |-> to, open |-> FALSE]
  BY NullAssumption DEF ReassignedCopy, Views

\* An active shift and its published copy go to the same person.
Handed(x, to) ==
  /\ live[x].status = "active"
  /\ live'[x] = Reassigned(live[x], to)
  /\ told'[x] = ReassignedCopy(told[x], to)

\* Nobody's view of the shift, nor the shift itself, changes.
Same(x) == live'[x] = live[x] /\ told'[x] = told[x] /\ heard'[x] = heard[x]

\* decideClaim hands over one shift and tells its new holder.
LEMMA ClaimHands ==
  ASSUME Inv, ApproveClaim
  PROVE  \E s \in Shifts, p \in People :
           /\ Handed(s, p) /\ live[s].who = None /\ p \in pending[s]
           /\ heard'[s][p] = live[s].at
           /\ \A x \in Shifts \ {s} : Same(x)
<1> PICK s \in Shifts, p \in People :
      /\ live[s].status = "active" /\ live[s].who = None /\ p \in pending[s]
      /\ live' = [live EXCEPT ![s] = Reassigned(live[s], p)]
      /\ told' = [told EXCEPT ![s] = ReassignedCopy(told[s], p)]
      /\ heard' = Tell(heard, s, p, live[s].at)
  BY DEF ApproveClaim, Inv, Typed, TypeOK
<1>1. Handed(s, p)
  BY DEF Handed, Inv, Typed, TypeOK
<1>2. heard'[s][p] = live[s].at
  BY DEF Tell, Inv, Typed, TypeOK
<1>3. \A x \in Shifts \ {s} : Same(x)
  BY DEF Same, Tell, Inv, Typed, TypeOK
<1> QED BY <1>1, <1>2, <1>3

\* decideSwap hands over the shifts of an accepted request and leaves the others alone.
LEMMA SwapHands ==
  ASSUME Inv, ApproveSwap
  PROVE  \A x \in Shifts : Same(x) \/ \E to \in People : Handed(x, to)
<1> PICK s \in Shifts :
      /\ swap[s] # None
      /\ LET w == swap[s]
             r == w.theirs
             given == {s, r} \ {None}
             next(x) == IF x = s THEN w.to ELSE w.by
         IN /\ StillAsAgreed(s, w.row, w.by)
            /\ r # None => StillAsAgreed(r, w.theirRow, w.to)
            /\ live' = [x \in Shifts |-> IF x \in given THEN Reassigned(live[x], next(x))
                                                        ELSE live[x]]
            /\ told' = [x \in Shifts |-> IF x \in given THEN ReassignedCopy(told[x], next(x))
                                                        ELSE told[x]]
            /\ heard' = [x \in Shifts |-> IF x \notin given THEN heard[x]
                 ELSE [heard[x] EXCEPT ![w.to] = IF x = s THEN live[x].at ELSE None,
                                       ![w.by] = IF x = s THEN None ELSE live[x].at]]
  BY DEF ApproveSwap
<1> DEFINE w == swap[s]
           given == {s, w.theirs} \ {None}
           next(x) == IF x = s THEN w.to ELSE w.by
<1>1. given \subseteq Shifts /\ w.to \in People /\ w.by \in People
  BY ApprovedSwap
<1>2. ASSUME NEW x \in Shifts, x \in given PROVE next(x) \in People /\ Handed(x, next(x))
  BY <1>1, <1>2 DEF Handed, StillAsAgreed
<1>3. ASSUME NEW x \in Shifts, x \notin given PROVE Same(x)
  BY <1>3 DEF Same
<1> QED BY <1>2, <1>3

\* What managers see and employees do not, as the board counts it.
FlagHonestFor(s) == Exists(s) => ~HasUnpublishedChange(live[s], told[s])

LEMMA ViewOfRow ==
  ASSUME NEW row \in Rows, row.status \in {"active", "cancelled"}, row.at # None
  PROVE  View(row) \in Views /\ View(row) # None
<1>1. View(row) \in Views
  BY DEF View, Views, Rows
<1> QED BY <1>1, NullAssumption

\* A shift handed over in both copies shows employees what managers see, if it did before.
LEMMA HandedHonest ==
  ASSUME Inv, NEW s \in Shifts, NEW to \in People, Handed(s, to), FlagHonestFor(s)
  PROVE  FlagHonestFor(s)'
<1>1. live[s] \in Rows /\ live[s].status = "active" /\ told[s] \in Views \union {None}
  BY DEF Inv, Typed, TypeOK, Handed
<1>2. told[s] \in Views /\ told[s] = View(live[s]) /\ told[s].status = "active"
  BY <1>1 DEF FlagHonestFor, Exists, HasUnpublishedChange, Visible
<1>3. /\ live'[s].status = live[s].status /\ live'[s].at = live[s].at
      /\ live'[s].who = to /\ live'[s].open = FALSE
  <2> DEFINE row == Reassigned(live[s], to)
  <2>1. /\ Like(row, live[s].status, live[s].at, live[s].version + 1)
        /\ row.who = to /\ row.open = FALSE
    BY <1>1, HandedRow
  <2>2. live'[s] = row
    BY DEF Handed
  <2> HIDE DEF row
  <2> QED BY <2>1, <2>2 DEF Like
<1>4. told'[s] = [status |-> told[s].status, at |-> told[s].at, who |-> to, open |-> FALSE]
  BY <1>2, HandedCopy DEF Handed
<1>5. told[s].at = live[s].at
  BY <1>2 DEF View
<1>6. View(live'[s]) = told'[s]
  BY <1>1, <1>2, <1>3, <1>4, <1>5 DEF View
<1>7. told'[s] # None
  <2>1. told'[s] \in Views
    BY <1>2, <1>4 DEF Views
  <2> QED BY <2>1, NullAssumption
<1>8. told'[s].status = "active" /\ live'[s].status = "active"
  BY <1>1, <1>2, <1>3, <1>4
<1> QED BY <1>6, <1>7, <1>8 DEF FlagHonestFor, HasUnpublishedChange, Visible

LEMMA SameHonest ==
  ASSUME NEW s \in Shifts, live'[s] = live[s], told'[s] = told[s], FlagHonestFor(s)
  PROVE  FlagHonestFor(s)'
  BY DEF FlagHonestFor, Exists

\* markChanged leaves nothing to be shown for.
LEMMA MarkedHonest ==
  ASSUME Inv, MarkChanged
  PROVE  ChangedFlagHonest'
  BY DEF MarkChanged, ChangedFlagHonest, Inv, Typed, TypeOK

LEMMA PublishedHonest ==
  ASSUME Inv, PublishSchedule
  PROVE  ChangedFlagHonest'
<1>1. ASSUME NEW s \in Shifts, Exists(s) PROVE ~HasUnpublishedChange(live'[s], told'[s])
  <2>1. live'[s] = live[s] /\ told'[s] = View(live[s])
    BY <1>1 DEF PublishSchedule
  <2>2. View(live[s]) # None
    BY <1>1, ViewOfRow DEF Inv, Typed, TypeOK, Exists
  <2>3. View(live[s]).status = live[s].status
    BY DEF View
  <2> QED BY <2>1, <2>2, <2>3 DEF HasUnpublishedChange, Visible
<1> QED BY <1>1 DEF ChangedFlagHonest, PublishSchedule, Exists

LEMMA CancelHonest ==
  ASSUME Inv, ChangedFlagHonest, NEW m \in Managers, CancelShift(m)
  PROVE  ChangedFlagHonest'
<1>1. CASE transaction[m].published
  BY <1>1, MarkedHonest DEF CancelShift
<1>2. CASE ~transaction[m].published
  <2> PICK s \in Shifts :
        /\ Editing(m, "cancel", s)
        /\ Write(s, [live[s] EXCEPT !.status = "deleted", !.who = None, !.open = FALSE])
        /\ told' = [told EXCEPT ![s] = None]
        /\ week' = week
    BY <1>2 DEF CancelShift
  <2>1. live \in [Shifts -> Rows] /\ told \in [Shifts -> Views \union {None}]
    BY DEF Inv, Typed, TypeOK
  <2>2. live'[s].status = "deleted"
    <3>1. live[s] \in Rows
      BY <2>1
    <3>2. [live[s] EXCEPT !.status = "deleted", !.who = None, !.open = FALSE].status = "deleted"
      BY <3>1, DeletedRow DEF Like
    <3> QED BY <2>1, <3>2 DEF Write
  <2>3. \A x \in Shifts \ {s} : live'[x] = live[x] /\ told'[x] = told[x]
    BY <2>1 DEF Write
  <2> QED BY <2>2, <2>3 DEF ChangedFlagHonest, Exists
<1> QED BY <1>1, <1>2

\* Steps that write none of what the flag is about.
LEMMA QuietHonest ==
  ASSUME ChangedFlagHonest, UNCHANGED <<live, told, week>>
  PROVE  ChangedFlagHonest'
  BY DEF ChangedFlagHonest, Exists

LEMMA FlagStep == ASSUME Inv, ChangedFlagHonest, [Next]_vars PROVE ChangedFlagHonest'
<1>1. CASE UNCHANGED vars
  BY <1>1, QuietHonest DEF vars
<1>2. CASE CreateShift
  BY <1>2, MarkedHonest DEF CreateShift
<1>3. CASE PublishSchedule
  BY <1>3, PublishedHonest
<1>4. CASE ApproveClaim \/ ApproveSwap
  <2>1. week' = week
    BY <1>4 DEF ApproveClaim, ApproveSwap
  <2>2. \A x \in Shifts : Same(x) \/ \E to \in People : Handed(x, to)
    BY <1>4, ClaimHands, SwapHands
  <2>3. ASSUME NEW x \in Shifts, FlagHonestFor(x) PROVE FlagHonestFor(x)'
    BY <2>2, <2>3, HandedHonest, SameHonest DEF Same
  <2> QED BY <2>1, <2>3 DEF ChangedFlagHonest, FlagHonestFor
<1>5. CASE BeginPublish \/ AbandonPublish \/ CloseClaim \/ AcceptSwap \/ CloseSwap
  BY <1>5, QuietHonest DEF BeginPublish, AbandonPublish, CloseClaim, AcceptSwap, CloseSwap
<1>6. ASSUME NEW m \in Managers,
             \/ UpdateShift(m) \/ AssignShift(m) \/ SetShiftOpen(m)
             \/ AssignToSlot(m) \/ ClearSlot(m)
      PROVE  ChangedFlagHonest'
  BY <1>6, MarkedHonest DEF UpdateShift, AssignShift, SetShiftOpen, AssignToSlot, ClearSlot
<1>7. ASSUME NEW m \in Managers, CancelShift(m) \/ BeginEdit(m) PROVE ChangedFlagHonest'
  BY <1>7, CancelHonest, QuietHonest DEF BeginEdit, Begin
<1>8. ASSUME NEW p \in People,
             BeginClaim(p) \/ ClaimOpenShift(p) \/ BeginSwap(p) \/ RequestSwap(p)
      PROVE  ChangedFlagHonest'
  BY <1>8, QuietHonest DEF BeginClaim, ClaimOpenShift, BeginSwap, RequestSwap, Begin
<1>9. ASSUME NEW a \in Actors, Rollback(a) PROVE ChangedFlagHonest'
  BY <1>9, QuietHonest DEF Rollback
<1> QED BY <1>1, <1>2, <1>3, <1>4, <1>5, <1>6, <1>7, <1>8, <1>9 DEF Next

\* A published week that is not marked as changed shows employees what managers see, whoever
\* interleaves with whom and whether or not edits land on rows that changed: every handler
\* that writes the plain columns alone calls markChanged, and reassignNow writes both copies.
THEOREM FlagIsHonest == Spec => []ChangedFlagHonest
<1>1. Init => ChangedFlagHonest
  BY DEF Init, ChangedFlagHonest
<1> QED BY <1>1, FlagStep, KnownRows, PTL DEF Spec

-----------------------------------------------------------------------------
(* What a publication read, and what a swap request read, against what is  *)
(* so now, as long as no edit lands on a row that changed since it was     *)
(* read.  Edits then wait for the publication, so only approvals come in   *)
(* between, and an approval leaves a trace that Touched describes.         *)

\* Somebody works an open shift in neither copy.
Closed ==
  \A s \in Shifts :
    /\ live[s].who # None => ~live[s].open
    /\ told[s] # None /\ told[s].who # None => ~told[s].open

\* p has the shift in both copies.
Held(row, copy, p) ==
  row.status = "active" /\ row.who = p /\ Visible(copy) /\ copy.who = p

\* p still has the shift that was read, or its version has moved on.
OwnedAs(read, p, row, copy) == read.version < row.version \/ Held(row, copy, p)

Owned(q, s, p, rows, copies) ==
  /\ q.to \in People \ {p}
  /\ OwnedAs(q.row, p, rows[s], copies[s])
  /\ q.theirs # None => OwnedAs(q.theirRow, q.to, rows[q.theirs], copies[q.theirs])

SwapsOwned ==
  /\ \A s \in Shifts : swap[s] # None => Owned(swap[s], s, swap[s].by, live, told)
  /\ \A a \in Actors : transaction[a] # None /\ transaction[a].op = "swap"
       => a \in People /\ Owned(transaction[a], transaction[a].shift, a, live, told)

\* The publication read the shift as it is, as far as people see it.
Untouched(s) ==
  publication.rows[s].who = live[s].who /\ publication.copies[s] = told[s]

\* An approval gave the shift to someone and told them its times.  Before, nobody had it, or
\* whoever had it had it in both copies.
Touched(s) ==
  /\ live[s].status = "active" /\ live[s].who \in People
  /\ heard[s][live[s].who] = live[s].at
  /\ told[s] # None => told[s].who = live[s].who
  /\ publication.rows[s].who # None
       => Holder(publication.copies[s]) = publication.rows[s].who

ReadFor(s) ==
  /\ publication.rows[s].status = live[s].status /\ publication.rows[s].at = live[s].at
  /\ Untouched(s) \/ Touched(s)

ReadSame == publication # None => \A s \in Shifts : ReadFor(s)

Shown == Closed /\ SwapsOwned /\ ReadSame

LEMMA InitShown == Init => Shown
  BY DEF Init, Shown, Closed, SwapsOwned, ReadSame

-----------------------------------------------------------------------------
(* What a step may do to a shift *)

\* A new shift, a later version, or the same holder as before.
Carried(x) ==
  \/ live[x].status = "new"
  \/ live[x].version < live'[x].version
  \/ /\ live'[x].version = live[x].version
     /\ \A p \in People : Held(live[x], told[x], p) => Held(live'[x], told'[x], p)

\* An edit: no publication is under way, one shift changes, and what people see of it does
\* not, unless it is deleted, which only a shift they do not see may be.
Edited(s) ==
  /\ publication = None /\ UNCHANGED <<publication, heard>>
  /\ \A x \in Shifts \ {s} : live'[x] = live[x] /\ told'[x] = told[x]
  /\ \/ told'[s] = told[s]
     \/ told[s] = None /\ told'[s] = None
  /\ Carried(s) /\ (live'[s].who # None => ~live'[s].open)

LEMMA CarriedOwned ==
  ASSUME ~StaleWrites, NEW x \in Shifts, NEW read \in Rows, NEW p \in People, Carried(x),
         live[x] \in Rows, live'[x] \in Rows, Known(read, live[x]),
         OwnedAs(read, p, live[x], told[x])
  PROVE  OwnedAs(read, p, live'[x], told'[x])
<1>1. /\ live[x].version \in Nat /\ live'[x].version \in Nat /\ read.version \in Nat
      /\ live[x].status # "new"
  BY DEF Rows, Known
<1>2. read.version <= live[x].version
  BY <1>1 DEF Known
<1> QED BY <1>1, <1>2 DEF OwnedAs, Carried

LEMMA BothOwned ==
  ASSUME ~StaleWrites, Typed, Typed', \A x \in Shifts : Carried(x),
         NEW s \in Shifts, NEW p \in People, NEW q, q.row \in Rows, q.theirs \in OptionalShift,
         BothKnown(q, s, live), Owned(q, s, p, live, told)
  PROVE  Owned(q, s, p, live', told')
<1>1. \A x \in Shifts : live[x] \in Rows /\ live'[x] \in Rows
  BY DEF Typed, TypeOK
<1>2. OwnedAs(q.row, p, live'[s], told'[s])
  BY <1>1, CarriedOwned DEF Owned, BothKnown
<1>3. ASSUME q.theirs # None
      PROVE  OwnedAs(q.theirRow, q.to, live'[q.theirs], told'[q.theirs])
  BY <1>1, <1>3, CarriedOwned DEF Owned, BothKnown, OptionalShift
<1> QED BY <1>2, <1>3 DEF Owned

\* What a known request read.
LEMMA SwapRows ==
  ASSUME Inv, NEW s \in Shifts, swap[s] # None
  PROVE  /\ swap[s].row \in Rows /\ swap[s].theirs \in OptionalShift
         /\ BothKnown(swap[s], s, live)
         /\ swap[s].by \in People
  BY DEF Inv, Typed, TypeOK, SwapsKnown, Swaps, OptionalShift

LEMMA TransactionRows ==
  ASSUME Inv, NEW a \in Actors, transaction[a] # None
  PROVE  /\ transaction[a].row \in Rows /\ transaction[a].theirs \in OptionalShift
         /\ BothKnown(transaction[a], transaction[a].shift, live)
         /\ transaction[a].shift \in Shifts
  BY DEF Inv, Typed, TypeOK, TransactionsKnown, Requests, OptionalShift

\* Requests survive a step that adds none and carries every shift.
LEMMA CarriedSwaps ==
  ASSUME ~StaleWrites, Inv, SwapsOwned, Calm, \A x \in Shifts : Carried(x)
  PROVE  SwapsOwned'
<1>1. Typed /\ Typed'
  BY DEF Inv, Calm
<1>2. ASSUME NEW s \in Shifts, swap'[s] # None
      PROVE  Owned(swap'[s], s, swap'[s].by, live', told')
  <2>1. swap'[s] = swap[s]
    BY <1>2 DEF Calm
  <2>2. Owned(swap[s], s, swap[s].by, live, told)
    BY <1>2, <2>1 DEF SwapsOwned
  <2> QED BY <1>1, <1>2, <2>1, <2>2, SwapRows, BothOwned
<1>3. ASSUME NEW a \in Actors, transaction'[a] # None, transaction'[a].op = "swap"
      PROVE  a \in People /\ Owned(transaction'[a], transaction'[a].shift, a, live', told')
  <2>1. transaction'[a] = transaction[a]
    BY <1>3 DEF Calm
  <2>2. a \in People /\ Owned(transaction[a], transaction[a].shift, a, live, told)
    BY <1>3, <2>1 DEF SwapsOwned
  <2> QED BY <1>1, <1>3, <2>1, <2>2, TransactionRows, BothOwned
<1> QED BY <1>2, <1>3 DEF SwapsOwned

\* A step that leaves the shifts alone.
LEMMA SameCarried ==
  ASSUME NEW x \in Shifts, live'[x] = live[x], told'[x] = told[x]
  PROVE  Carried(x)
  BY DEF Carried, Held

-----------------------------------------------------------------------------
(* The edits                                                                *)

LEMMA EditedFor ==
  ASSUME Inv, ~StaleWrites, NEW m \in Managers, NEW s \in Shifts, NEW op, Editing(m, op, s),
         NEW row \in Rows, row.version = live[s].version + 1, Write(s, row), told' = told
  PROVE  Edited(s)
<1>1. live \in [Shifts -> Rows] /\ live[s].version \in Nat
  BY DEF Inv, Typed, TypeOK, Rows
<1>2. live'[s] \in {live[s], row} /\ \A x \in Shifts \ {s} : live'[x] = live[x]
  BY <1>1 DEF Write
<1>3. live'[s].who # None => ~live'[s].open
  BY DEF Write, ConstraintsHold
<1>4. Carried(s)
  BY <1>1, <1>2 DEF Carried, Held
<1> QED BY <1>2, <1>3, <1>4 DEF Edited, Editing

LEMMA CreateEdited == ASSUME Inv, ~StaleWrites, CreateShift PROVE \E s \in Shifts : Edited(s)
<1> PICK s \in Shifts, at \in Times, who \in OptionalPerson :
      /\ live[s].status = "new" /\ publication = None
      /\ live' = [live EXCEPT ![s] = [status |-> "active", at |-> at, who |-> who,
                                    open |-> FALSE, version |-> 1]]
  BY DEF CreateShift, OptionalPerson
<1>1. \A x \in Shifts \ {s} : live'[x] = live[x]
  BY DEF Inv, Typed, TypeOK
<1>2. ~live'[s].open
  BY DEF Inv, Typed, TypeOK
<1> QED BY <1>1, <1>2 DEF CreateShift, Edited, Carried

LEMMA UpdateEdited ==
  ASSUME Inv, ~StaleWrites, NEW m \in Managers, UpdateShift(m) PROVE \E s \in Shifts : Edited(s)
<1> PICK s \in Shifts :
      /\ Editing(m, "update", s)
      /\ Write(s, [live[s] EXCEPT !.at = transaction[m].at, !.version = @ + 1])
  BY DEF UpdateShift
<1> DEFINE row == [live[s] EXCEPT !.at = transaction[m].at, !.version = @ + 1]
<1>1. live[s] \in Rows /\ transaction[m].at \in Times
  BY EditedRow DEF Requests
<1>2. row \in Rows /\ row.version = live[s].version + 1
  BY <1>1, MovedRow DEF Like
<1>3. told' = told
  BY DEF UpdateShift
<1> HIDE DEF row
<1> QED BY <1>2, <1>3, EditedFor DEF row

LEMMA AssignEdited ==
  ASSUME Inv, ~StaleWrites, NEW m \in Managers, AssignShift(m) PROVE \E s \in Shifts : Edited(s)
<1> PICK s \in Shifts :
      /\ Editing(m, "assign", s)
      /\ Write(s, [live[s] EXCEPT !.who = transaction[m].to, !.open = FALSE, !.version = @ + 1])
  BY DEF AssignShift
<1> DEFINE row == [live[s] EXCEPT !.who = transaction[m].to, !.open = FALSE, !.version = @ + 1]
<1>1. live[s] \in Rows /\ transaction[m].to \in OptionalPerson
  BY EditedRow DEF Requests, OptionalPerson
<1>2. row \in Rows /\ row.version = live[s].version + 1
  BY <1>1, GivenRow DEF Like
<1>3. told' = told
  BY DEF AssignShift
<1> HIDE DEF row
<1> QED BY <1>2, <1>3, EditedFor DEF row

LEMMA OpenEdited ==
  ASSUME Inv, ~StaleWrites, NEW m \in Managers, SetShiftOpen(m) PROVE \E s \in Shifts : Edited(s)
<1> PICK s \in Shifts, open \in BOOLEAN :
      /\ Editing(m, IF open THEN "open" ELSE "close", s)
      /\ Write(s, [live[s] EXCEPT !.open = open, !.version = @ + 1])
  BY DEF SetShiftOpen
<1> DEFINE row == [live[s] EXCEPT !.open = open, !.version = @ + 1]
<1>1. live[s] \in Rows
  BY EditedRow
<1>2. row \in Rows /\ row.version = live[s].version + 1
  BY <1>1, OpenedRow DEF Like
<1>3. told' = told
  BY DEF SetShiftOpen
<1> HIDE DEF row
<1> QED BY <1>2, <1>3, EditedFor DEF row

LEMMA CancelEdited ==
  ASSUME Inv, ~StaleWrites, NEW m \in Managers, CancelShift(m) PROVE \E s \in Shifts : Edited(s)
<1> PICK s \in Shifts :
      /\ Editing(m, "cancel", s)
      /\ IF transaction[m].published
           THEN /\ Write(s, [live[s] EXCEPT !.status = "cancelled", !.open = FALSE,
                                            !.version = @ + 1])
                /\ told' = told
           ELSE /\ Write(s, [live[s] EXCEPT !.status = "deleted", !.who = None, !.open = FALSE])
                /\ told' = [told EXCEPT ![s] = None]
  BY DEF CancelShift
<1>1. live \in [Shifts -> Rows] /\ live[s] \in Rows
  BY DEF Inv, Typed, TypeOK
<1>2. CASE transaction[m].published
  <2> DEFINE row == [live[s] EXCEPT !.status = "cancelled", !.open = FALSE, !.version = @ + 1]
  <2>1. row \in Rows /\ row.version = live[s].version + 1
    BY <1>1, CancelledRow DEF Like
  <2> HIDE DEF row
  <2> QED BY <1>2, <2>1, EditedFor DEF row
<1>3. CASE ~transaction[m].published
  <2> DEFINE row == [live[s] EXCEPT !.status = "deleted", !.who = None, !.open = FALSE]
  <2>1. row \in Rows /\ row.version = live[s].version
    BY <1>1, DeletedRow DEF Like
  <2> HIDE DEF row
  <2>2. Write(s, row) /\ told' = [told EXCEPT ![s] = None]
    BY <1>3 DEF row
  <2>3. live'[s] \in {live[s], row} /\ \A x \in Shifts \ {s} : live'[x] = live[x]
    BY <1>1, <2>2 DEF Write
  <2>4. /\ told[s] = None /\ told'[s] = None
        /\ \A x \in Shifts \ {s} : told'[x] = told[x]
    BY <1>3, <2>2 DEF Editing, Inv, Typed, TypeOK
  <2>5. live'[s].who # None => ~live'[s].open
    BY <2>2 DEF Write, ConstraintsHold
  <2>6. Carried(s)
    BY <2>1, <2>3, <2>4 DEF Carried, Held, Visible
  <2> QED BY <2>3, <2>4, <2>5, <2>6 DEF Edited, Editing
<1> QED BY <1>2, <1>3

LEMMA FillEdited ==
  ASSUME Inv, ~StaleWrites, NEW m \in Managers, AssignToSlot(m) PROVE \E s \in Shifts : Edited(s)
<1> PICK s \in Shifts :
      /\ Editing(m, "fill", s)
      /\ Write(s, [live[s] EXCEPT !.who = transaction[m].to, !.open = FALSE,
                                  !.version = transaction[m].row.version + 1])
  BY DEF AssignToSlot
<1> DEFINE row == [live[s] EXCEPT !.who = transaction[m].to, !.open = FALSE,
                                  !.version = transaction[m].row.version + 1]
<1>1. /\ live[s] \in Rows /\ transaction[m].to \in OptionalPerson
      /\ transaction[m].row = live[s] /\ transaction[m].row.version + 1 \in Nat
  BY EditedRow DEF Requests, OptionalPerson, Rows
<1>2. row \in Rows /\ row.version = live[s].version + 1
  <2>1. Like(row, live[s].status, live[s].at, transaction[m].row.version + 1)
    BY <1>1, GivenRow
  <2> QED BY <1>1, <2>1 DEF Like
<1>3. told' = told
  BY DEF AssignToSlot
<1> HIDE DEF row
<1> QED BY <1>2, <1>3, EditedFor DEF row

LEMMA ClearEdited ==
  ASSUME Inv, ~StaleWrites, NEW m \in Managers, ClearSlot(m) PROVE \E s \in Shifts : Edited(s)
<1> PICK s \in Shifts :
      /\ Editing(m, "clear", s)
      /\ Write(s, [live[s] EXCEPT !.who = None, !.version = transaction[m].row.version + 1])
  BY DEF ClearSlot
<1> DEFINE row == [live[s] EXCEPT !.who = None, !.version = transaction[m].row.version + 1]
<1>1. live[s] \in Rows /\ transaction[m].row = live[s] /\ live[s].version + 1 \in Nat
  BY EditedRow DEF Rows
<1>2. row \in Rows /\ row.version = live[s].version + 1
  BY <1>1, ClearedRow DEF Like
<1>3. told' = told
  BY DEF ClearSlot
<1> HIDE DEF row
<1> QED BY <1>2, <1>3, EditedFor DEF row

\* CreateShift, or an edit a manager had read for.
Edit ==
  \/ CreateShift
  \/ \E m \in Managers :
       \/ UpdateShift(m) \/ AssignShift(m) \/ SetShiftOpen(m) \/ CancelShift(m)
       \/ AssignToSlot(m) \/ ClearSlot(m)

LEMMA AnyEdit ==
  ASSUME Inv, ~StaleWrites, Edit PROVE Calm /\ \E s \in Shifts : Edited(s)
<1>1. CASE CreateShift
  BY <1>1, CreateCalm, CreateEdited
<1>2. ASSUME NEW m \in Managers,
             \/ UpdateShift(m) \/ AssignShift(m) \/ SetShiftOpen(m) \/ CancelShift(m)
             \/ AssignToSlot(m) \/ ClearSlot(m)
      PROVE  Calm /\ \E s \in Shifts : Edited(s)
  BY <1>2, UpdateCalm, AssignCalm, OpenCalm, CancelCalm, FillCalm, ClearCalm,
     UpdateEdited, AssignEdited, OpenEdited, CancelEdited, FillEdited, ClearEdited
<1> QED BY <1>1, <1>2 DEF Edit

\* An edit keeps everything.
LEMMA EditShown == ASSUME Inv, Shown, ~StaleWrites, Edit PROVE Shown'
<1> PICK s \in Shifts : Calm /\ Edited(s)
  BY AnyEdit
<1>1. Closed'
  BY DEF Edited, Shown, Closed
<1>2. \A x \in Shifts : Carried(x)
  BY SameCarried DEF Edited
<1>3. SwapsOwned'
  BY <1>2, CarriedSwaps DEF Shown
<1>4. ReadSame'
  BY DEF Edited, ReadSame
<1> QED BY <1>1, <1>3, <1>4 DEF Shown

-----------------------------------------------------------------------------
(* The approvals and the publication                                        *)

\* What decideSwap finds and does: whoever had a shift in both copies no longer has it,
\* and they and its new holder are told.
Given(x, from, to) ==
  /\ from # to /\ Held(live[x], told[x], from) /\ Handed(x, to)
  /\ heard'[x][to] = live[x].at /\ heard'[x][from] = None

LEMMA SwapGives ==
  ASSUME Inv, SwapsOwned, ApproveSwap
  PROVE  \A x \in Shifts : Same(x) \/ \E from, to \in People : Given(x, from, to)
<1> PICK s \in Shifts :
      /\ swap[s] # None
      /\ LET w == swap[s]
             r == w.theirs
             given == {s, r} \ {None}
             next(x) == IF x = s THEN w.to ELSE w.by
         IN /\ StillAsAgreed(s, w.row, w.by)
            /\ r # None => StillAsAgreed(r, w.theirRow, w.to)
            /\ live' = [x \in Shifts |-> IF x \in given THEN Reassigned(live[x], next(x))
                                                        ELSE live[x]]
            /\ told' = [x \in Shifts |-> IF x \in given THEN ReassignedCopy(told[x], next(x))
                                                        ELSE told[x]]
            /\ heard' = [x \in Shifts |-> IF x \notin given THEN heard[x]
                 ELSE [heard[x] EXCEPT ![w.to] = IF x = s THEN live[x].at ELSE None,
                                       ![w.by] = IF x = s THEN None ELSE live[x].at]]
  BY DEF ApproveSwap
<1> DEFINE w == swap[s]
           r == w.theirs
           given == {s, r} \ {None}
           next(x) == IF x = s THEN w.to ELSE w.by
<1>1. given \subseteq Shifts /\ w.to \in People /\ w.by \in People /\ s # None
  BY ApprovedSwap, NoneAssumption
<1>2. Owned(w, s, w.by, live, told)
  BY DEF SwapsOwned
<1>3. \A x \in Shifts : live[x].version \in Nat
  BY DEF Inv, Typed, TypeOK, Rows
<1>4. \A x \in Shifts : heard[x] \in [People -> Times \union {None}]
  BY DEF Inv, Typed, TypeOK
<1>5. w.by # w.to /\ Held(live[s], told[s], w.by)
  BY <1>2, <1>3 DEF Owned, OwnedAs, StillAsAgreed
<1>6. Given(s, w.by, w.to)
  <2>1. Handed(s, w.to)
    BY <1>1 DEF Handed, StillAsAgreed
  <2>2. heard'[s] = [heard[s] EXCEPT ![w.to] = live[s].at, ![w.by] = None]
    BY <1>1
  <2>3. heard'[s][w.to] = live[s].at /\ heard'[s][w.by] = None
    BY <1>1, <1>4, <1>5, <2>2
  <2> QED BY <1>5, <2>1, <2>3 DEF Given
<1>7. ASSUME r # None, r # s PROVE Given(r, w.to, w.by)
  <2>0. r \in Shifts
    BY <1>1, <1>7
  <2>1. Held(live[r], told[r], w.to)
    BY <1>2, <1>3, <1>7, <2>0 DEF Owned, OwnedAs, StillAsAgreed
  <2>2. Handed(r, w.by)
    BY <1>1, <1>7, <2>0 DEF Handed, StillAsAgreed
  <2>3. heard'[r] = [heard[r] EXCEPT ![w.to] = None, ![w.by] = live[r].at]
    BY <1>1, <1>7, <2>0
  <2>4. heard'[r][w.by] = live[r].at /\ heard'[r][w.to] = None
    BY <1>1, <1>4, <1>5, <2>0, <2>3
  <2> QED BY <1>5, <2>1, <2>2, <2>4 DEF Given
<1>8. ASSUME NEW x \in Shifts, x \notin given PROVE Same(x)
  BY <1>8 DEF Same
<1> QED BY <1>1, <1>6, <1>7, <1>8

\* A shift handed over is closed in both copies, and known to be with its new holder.
LEMMA HandedFields ==
  ASSUME Inv, NEW x \in Shifts, NEW to \in People, Handed(x, to)
  PROVE  /\ live'[x].status = "active" /\ live'[x].at = live[x].at
         /\ live'[x].who = to /\ ~live'[x].open
         /\ live'[x].version = live[x].version + 1
         /\ told[x] = None => told'[x] = None
         /\ told[x] # None => /\ told'[x] # None /\ told'[x].who = to /\ ~told'[x].open
                              /\ told'[x].status = told[x].status
<1>1. live[x] \in Rows /\ told[x] \in Views \union {None} /\ live[x].status = "active"
  BY DEF Inv, Typed, TypeOK, Handed
<1>2. /\ live'[x].status = "active" /\ live'[x].at = live[x].at
      /\ live'[x].who = to /\ ~live'[x].open
      /\ live'[x].version = live[x].version + 1
  <2> DEFINE row == Reassigned(live[x], to)
  <2>1. /\ Like(row, live[x].status, live[x].at, live[x].version + 1)
        /\ row.who = to /\ row.open = FALSE
    BY <1>1, HandedRow
  <2>2. live'[x] = row
    BY DEF Handed
  <2> HIDE DEF row
  <2> QED BY <1>1, <2>1, <2>2 DEF Like
<1>3. told[x] = None => told'[x] = None
  BY DEF Handed, ReassignedCopy
<1>4. ASSUME told[x] # None
      PROVE  /\ told'[x] # None /\ told'[x].who = to /\ ~told'[x].open
             /\ told'[x].status = told[x].status
  <2>1. told[x] \in Views
    BY <1>1, <1>4
  <2> DEFINE copy == [status |-> told[x].status, at |-> told[x].at, who |-> to, open |-> FALSE]
  <2>2. copy \in Views /\ told'[x] = copy
    BY <2>1, HandedCopy DEF Handed, Views
  <2>3. told'[x] # None
    BY <2>2, NullAssumption
  <2> QED BY <2>2, <2>3
<1> QED BY <1>2, <1>3, <1>4

LEMMA HandedCarried ==
  ASSUME Inv, NEW x \in Shifts, NEW to \in People, Handed(x, to)
  PROVE  Carried(x)
<1>1. live[x].version \in Nat
  BY DEF Inv, Typed, TypeOK, Rows
<1> QED BY <1>1, HandedFields DEF Carried

\* What a step leaves of what the publication read of a shift.
ReadForNext(x) ==
  /\ publication.rows[x].status = live'[x].status /\ publication.rows[x].at = live'[x].at
  /\ \/ publication.rows[x].who = live'[x].who /\ publication.copies[x] = told'[x]
     \/ /\ live'[x].status = "active" /\ live'[x].who \in People
        /\ heard'[x][live'[x].who] = live'[x].at
        /\ told'[x] # None => told'[x].who = live'[x].who
        /\ publication.rows[x].who # None
             => Holder(publication.copies[x]) = publication.rows[x].who

LEMMA SameRead ==
  ASSUME NEW x \in Shifts, Same(x), ReadFor(x) PROVE ReadForNext(x)
  BY DEF Same, ReadFor, ReadForNext, Untouched, Touched

\* A shift that had no holder, or one who had it in both copies, was touched by an approval.
LEMMA HandedRead ==
  ASSUME Inv, NEW x \in Shifts, NEW to \in People, Handed(x, to), ReadFor(x),
         heard'[x][to] = live[x].at,
         live[x].who # None => Holder(told[x]) = live[x].who
  PROVE  ReadForNext(x)
<1>1. publication.rows[x].who # None => Holder(publication.copies[x]) = publication.rows[x].who
  BY DEF ReadFor, Untouched, Touched
<1>2. live[x].status = "active"
  BY DEF Handed
<1> QED BY <1>1, <1>2, HandedFields DEF ReadFor, ReadForNext

LEMMA ReadNext ==
  ASSUME publication' = publication, publication # None => \A x \in Shifts : ReadForNext(x)
  PROVE  ReadSame'
  BY DEF ReadSame, ReadFor, ReadForNext, Untouched, Touched

LEMMA HandedClosed ==
  ASSUME Inv, Closed,
         \A x \in Shifts : Same(x) \/ \E to \in People : Handed(x, to)
  PROVE  Closed'
<1>1. ASSUME NEW x \in Shifts
      PROVE  /\ live'[x].who # None => ~live'[x].open
             /\ told'[x] # None /\ told'[x].who # None => ~told'[x].open
  <2>1. CASE Same(x)
    BY <2>1 DEF Same, Closed
  <2>2. ASSUME NEW to \in People, Handed(x, to)
        PROVE  /\ live'[x].who # None => ~live'[x].open
               /\ told'[x] # None /\ told'[x].who # None => ~told'[x].open
    BY <2>2, HandedFields
  <2> QED BY <2>1, <2>2
<1> QED BY <1>1 DEF Closed

LEMMA ClaimShown == ASSUME Inv, Shown, ~StaleWrites, ApproveClaim PROVE Shown'
<1> PICK s \in Shifts, p \in People :
      /\ Handed(s, p) /\ live[s].who = None
      /\ heard'[s][p] = live[s].at
      /\ \A x \in Shifts \ {s} : Same(x)
  BY ClaimHands
<1>1. Closed'
  BY HandedClosed DEF Shown
<1>2. \A x \in Shifts : Carried(x)
  BY HandedCarried, SameCarried DEF Same
<1>3. SwapsOwned'
  BY <1>2, ApproveClaimCalm, CarriedSwaps DEF Shown
<1>4. publication' = publication
  BY DEF ApproveClaim
<1>5. ASSUME publication # None, NEW x \in Shifts PROVE ReadForNext(x)
  <2>1. ReadFor(x)
    BY <1>5 DEF Shown, ReadSame
  <2> QED BY <2>1, SameRead, HandedRead
<1>6. ReadSame'
  BY <1>4, <1>5, ReadNext
<1> QED BY <1>1, <1>3, <1>6 DEF Shown

LEMMA SwapShown == ASSUME Inv, Shown, ~StaleWrites, ApproveSwap PROVE Shown'
<1>0. \A x \in Shifts : Same(x) \/ \E from, to \in People : Given(x, from, to)
  BY SwapGives DEF Shown
<1>1. Closed'
  BY <1>0, HandedClosed DEF Shown, Given
<1>2. \A x \in Shifts : Carried(x)
  BY <1>0, HandedCarried, SameCarried DEF Same, Given
<1>3. SwapsOwned'
  BY <1>2, ApproveSwapCalm, CarriedSwaps DEF Shown
<1>4. publication' = publication
  BY DEF ApproveSwap
<1>5. ASSUME publication # None, NEW x \in Shifts PROVE ReadForNext(x)
  <2>1. ReadFor(x)
    BY <1>5 DEF Shown, ReadSame
  <2>2. CASE Same(x)
    BY <2>1, <2>2, SameRead
  <2>3. ASSUME NEW from \in People, NEW to \in People, Given(x, from, to)
        PROVE  ReadForNext(x)
    <3>1. Handed(x, to) /\ heard'[x][to] = live[x].at /\ Holder(told[x]) = live[x].who
      BY <2>3 DEF Given, Held, Holder
    <3> QED BY <2>1, <3>1, HandedRead
  <2> QED BY <1>0, <2>2, <2>3
<1>6. ReadSame'
  BY <1>4, <1>5, ReadNext
<1> QED BY <1>1, <1>3, <1>6 DEF Shown

LEMMA PublishShown == ASSUME Inv, Shown, ~StaleWrites, PublishSchedule PROVE Shown'
<1>1. /\ publication' = None /\ live' = live
      /\ \A s \in Shifts : told'[s] = IF Exists(s) THEN View(live[s]) ELSE told[s]
  BY DEF PublishSchedule
<1>2. \A s \in Shifts : live[s] \in Rows /\ (Exists(s) => live[s].at # None)
  BY DEF Inv, Typed, TypeOK
<1>3. ASSUME NEW s \in Shifts, Exists(s)
      PROVE  /\ told'[s] # None /\ told'[s].who = live[s].who
             /\ told'[s].status = live[s].status /\ (~live[s].open => ~told'[s].open)
  <2>1. View(live[s]) # None
    BY <1>2, <1>3, ViewOfRow DEF Exists
  <2>2. told'[s] = [status |-> live[s].status, at |-> live[s].at, who |-> live[s].who,
                    open |-> live[s].open]
    BY <1>1, <1>3 DEF View
  <2>3. told'[s] # None
    BY <1>1, <1>3, <2>1
  <2> QED BY <2>2, <2>3
<1>4. Closed'
  BY <1>1, <1>3 DEF Closed, Shown
<1>5. ASSUME NEW s \in Shifts, NEW p \in People, Held(live[s], told[s], p)
      PROVE  Held(live'[s], told'[s], p)
  <2>1. Exists(s)
    BY <1>5 DEF Held, Exists
  <2> QED BY <1>1, <1>3, <1>5, <2>1 DEF Held, Visible
<1>6. \A s \in Shifts : Carried(s)
  BY <1>1, <1>5 DEF Carried
<1>7. SwapsOwned'
  BY <1>6, PublishCalm, CarriedSwaps DEF Shown
<1>8. ReadSame'
  BY <1>1 DEF ReadSame
<1> QED BY <1>4, <1>7, <1>8 DEF Shown

-----------------------------------------------------------------------------
(* The steps that read, request or answer leave what people see alone       *)

LEMMA ShownAlone ==
  ASSUME Closed, ReadSame, UNCHANGED <<live, told, heard>>,
         \/ publication' \in {publication, None}
         \/ publication' = [rows |-> live, copies |-> told]
  PROVE  Closed' /\ ReadSame'
<1>1. Closed'
  BY DEF Closed
<1>2. CASE publication' = publication
  BY <1>1, <1>2 DEF ReadSame, ReadFor, Untouched, Touched
<1>3. CASE publication' = None
  BY <1>1, <1>3 DEF ReadSame
<1>4. CASE publication' = [rows |-> live, copies |-> told]
  BY <1>1, <1>4 DEF ReadSame, ReadFor, Untouched
<1> QED BY <1>1, <1>2, <1>3, <1>4

LEMMA CalmAlone ==
  ASSUME Inv, SwapsOwned, ~StaleWrites, Calm, live' = live, told' = told
  PROVE  SwapsOwned'
<1>1. \A x \in Shifts : Carried(x)
  BY SameCarried
<1> QED BY <1>1, CarriedSwaps

\* A transaction that has just begun owns what it gives away, if it is to be a swap.
LEMMA BeginOwned ==
  ASSUME Inv, SwapsOwned, NEW a \in Actors, NEW request, Begin(a, request),
         request.op = "swap" => a \in People /\ Owned(request, request.shift, a, live, told)
  PROVE  SwapsOwned'
<1>1. \A b \in Actors : transaction'[b] = IF b = a THEN request ELSE transaction[b]
  BY DEF Begin, Inv, Typed, TypeOK
<1>2. live' = live /\ told' = told /\ swap' = swap
  BY DEF Begin
<1> QED BY <1>1, <1>2 DEF SwapsOwned

LEMMA BeginEditOwned ==
  ASSUME Inv, SwapsOwned, NEW m \in Managers, BeginEdit(m) PROVE SwapsOwned'
<1>1. \A s \in Shifts : Exists(s) => live[s].at \in Times
  BY DEF Inv, Typed, TypeOK, Rows, Exists
<1>2. PICK op \in Ops \ {"swap"}, s \in Shifts, at \in Times, to \in OptionalPerson :
        Begin(m, Read(op, s, at, to, None))
  BY <1>1 DEF BeginEdit, Ops, OptionalPerson
<1>3. Read(op, s, at, to, None).op # "swap"
  BY DEF Read
<1> QED BY <1>2, <1>3, BeginOwned DEF Actors

LEMMA BeginClaimOwned ==
  ASSUME Inv, SwapsOwned, NEW p \in People, BeginClaim(p) PROVE SwapsOwned'
<1>1. PICK request : Begin(p, request) /\ request.op # "swap"
  BY DEF BeginClaim, Read
<1> QED BY <1>1, BeginOwned DEF Actors

LEMMA BeginSwapOwned ==
  ASSUME Inv, SwapsOwned, NEW p \in People, BeginSwap(p) PROVE SwapsOwned'
<1> PICK s \in Shifts, q \in People \ {p}, theirs \in OptionalShift :
      /\ OwnPublished(s, p) /\ (theirs # None => OwnPublished(theirs, q))
      /\ Begin(p, Read("swap", s, live[s].at, q, theirs))
  BY DEF BeginSwap, OptionalShift
<1> DEFINE request == Read("swap", s, live[s].at, q, theirs)
<1>1. /\ request.shift = s /\ request.to = q /\ request.theirs = theirs
      /\ request.row = live[s] /\ (theirs # None => request.theirRow = live[theirs])
  BY DEF Read
<1>2. Held(live[s], told[s], p)
  BY DEF OwnPublished, Held
<1>3. theirs # None => Held(live[theirs], told[theirs], q)
  BY DEF OwnPublished, Held
<1> HIDE DEF request
<1>4. Owned(request, request.shift, p, live, told)
  BY <1>1, <1>2, <1>3 DEF Owned, OwnedAs
<1> QED BY <1>4, BeginOwned DEF request, Actors

LEMMA RequestSwapOwned ==
  ASSUME Inv, SwapsOwned, NEW p \in People, RequestSwap(p) PROVE SwapsOwned'
<1> DEFINE t == transaction[p]
           request == [by |-> p, to |-> t.to, row |-> t.row, theirs |-> t.theirs,
                       theirRow |-> t.theirRow, accepted |-> FALSE]
<1>1. /\ t # None /\ t.op = "swap" /\ swap' = [swap EXCEPT ![t.shift] = request]
      /\ End(p) /\ live' = live /\ told' = told
  BY DEF RequestSwap
<1>2. Owned(t, t.shift, p, live, told) /\ t.shift \in Shifts
  BY <1>1, TransactionRows DEF SwapsOwned, Actors
<1>3. \A b \in Actors : transaction'[b] \in {transaction[b], None}
  BY <1>1, EndType DEF Inv, Typed, Actors
<1>4. Owned(request, t.shift, p, live, told) /\ request.by = p
  BY <1>2 DEF Owned
<1> HIDE DEF t, request
<1>5. \A s \in Shifts : swap'[s] = IF s = t.shift THEN request ELSE swap[s]
  BY <1>1, <1>2 DEF Inv, Typed, TypeOK
<1> QED BY <1>1, <1>3, <1>4, <1>5 DEF SwapsOwned

LEMMA AcceptSwapOwned == ASSUME Inv, SwapsOwned, AcceptSwap PROVE SwapsOwned'
<1> PICK s \in Shifts : swap[s] # None /\ swap' = [swap EXCEPT ![s].accepted = TRUE]
  BY DEF AcceptSwap
<1> DEFINE request == [swap[s] EXCEPT !.accepted = TRUE]
<1>1. swap[s] \in Swaps /\ Owned(swap[s], s, swap[s].by, live, told)
  BY DEF Inv, Typed, TypeOK, SwapsOwned
<1>2. Owned(request, s, request.by, live, told)
  BY <1>1 DEF Swaps, Owned
<1>3. UNCHANGED <<live, told, transaction>> /\ swap' = [swap EXCEPT ![s] = request]
  BY DEF AcceptSwap
<1> HIDE DEF request
<1>4. \A x \in Shifts : swap'[x] = IF x = s THEN request ELSE swap[x]
  BY <1>3 DEF Inv, Typed, TypeOK
<1> QED BY <1>2, <1>3, <1>4 DEF SwapsOwned

-----------------------------------------------------------------------------
(* Nobody gains or loses a published shift unheard                          *)

LEMMA ShownStep ==
  ASSUME Inv, Shown, ~StaleWrites, [Next]_vars PROVE Shown'
<1>0. Closed /\ SwapsOwned /\ ReadSame
  BY DEF Shown
<1>1. CASE UNCHANGED vars
  <2>1. SwapsOwned'
    BY <1>0, <1>1 DEF SwapsOwned, vars
  <2> QED BY <1>0, <1>1, <2>1, ShownAlone DEF Shown, vars
<1>2. CASE Edit
  BY <1>2, EditShown
<1>3. CASE PublishSchedule \/ ApproveClaim \/ ApproveSwap
  BY <1>3, PublishShown, ClaimShown, SwapShown
<1>4. CASE BeginPublish \/ AbandonPublish \/ CloseClaim \/ CloseSwap
  <2>1. Calm /\ UNCHANGED <<live, told, heard>>
    BY <1>4, BeginPublishCalm, AbandonCalm, CloseClaimCalm, CloseSwapCalm
       DEF BeginPublish, AbandonPublish, CloseClaim, CloseSwap
  <2>2. \/ publication' \in {publication, None}
        \/ publication' = [rows |-> live, copies |-> told]
    BY <1>4 DEF BeginPublish, AbandonPublish, CloseClaim, CloseSwap
  <2> QED BY <1>0, <2>1, <2>2, CalmAlone, ShownAlone DEF Shown
<1>5. CASE AcceptSwap
  <2>1. UNCHANGED <<live, told, heard, publication>>
    BY <1>5 DEF AcceptSwap
  <2> QED BY <1>0, <1>5, <2>1, AcceptSwapOwned, ShownAlone DEF Shown
<1>6. ASSUME NEW m \in Managers, BeginEdit(m) PROVE Shown'
  <2>1. UNCHANGED <<live, told, heard, publication>>
    BY <1>6 DEF BeginEdit, Begin
  <2> QED BY <1>0, <1>6, <2>1, BeginEditOwned, ShownAlone DEF Shown
<1>7. ASSUME NEW p \in People, BeginClaim(p) \/ BeginSwap(p) \/ RequestSwap(p) PROVE Shown'
  <2>1. UNCHANGED <<live, told, heard, publication>>
    BY <1>7 DEF BeginClaim, BeginSwap, RequestSwap, Begin
  <2> QED BY <1>0, <1>7, <2>1, BeginClaimOwned, BeginSwapOwned, RequestSwapOwned, ShownAlone
          DEF Shown
<1>8. ASSUME NEW p \in People, ClaimOpenShift(p) PROVE Shown'
  <2>1. UNCHANGED <<live, told, heard, publication>>
    BY <1>8 DEF ClaimOpenShift
  <2> QED BY <1>0, <1>8, <2>1, ClaimCalm, CalmAlone, ShownAlone DEF Shown
<1>9. ASSUME NEW a \in Actors, Rollback(a) PROVE Shown'
  <2>1. UNCHANGED <<live, told, heard, publication>>
    BY <1>9 DEF Rollback
  <2> QED BY <1>0, <1>9, <2>1, RollbackCalm, CalmAlone, ShownAlone DEF Shown
<1> QED BY <1>1, <1>2, <1>3, <1>4, <1>5, <1>6, <1>7, <1>8, <1>9 DEF Next, Edit

\* What a publication and the swap requests read of a shift is still so, or an approval came in
\* between and told whoever it gave the shift to.
THEOREM ReadsAccounted == ASSUME ~StaleWrites PROVE Spec => [](Inv /\ Shown)
<1>1. Inv /\ Shown /\ [Next]_vars => Shown'
  BY ShownStep
<1> QED BY <1>1, InitShown, KnownRows, PTL DEF Spec

\* Only a publication or an approval changes what people are shown.
LEMMA ToldMoves ==
  ASSUME Inv, ~StaleWrites, Next, NEW s \in Shifts, told'[s] # told[s]
  PROVE  PublishSchedule \/ ApproveClaim \/ ApproveSwap
<1>1. ~Edit
  BY AnyEdit DEF Edited
<1>2. ~(BeginPublish \/ AbandonPublish \/ CloseClaim \/ AcceptSwap \/ CloseSwap)
  BY DEF BeginPublish, AbandonPublish, CloseClaim, AcceptSwap, CloseSwap
<1>3. ASSUME NEW m \in Managers PROVE ~BeginEdit(m)
  BY DEF BeginEdit, Begin
<1>4. ASSUME NEW p \in People
      PROVE  ~(BeginClaim(p) \/ ClaimOpenShift(p) \/ BeginSwap(p) \/ RequestSwap(p))
  BY DEF BeginClaim, ClaimOpenShift, BeginSwap, RequestSwap, Begin
<1>5. ASSUME NEW a \in Actors PROVE ~Rollback(a)
  BY DEF Rollback
<1> QED BY <1>1, <1>2, <1>3, <1>4, <1>5 DEF Next, Edit

LEMMA HolderOfRow ==
  ASSUME NEW row \in Rows, row.status = "active" => row.at # None
  PROVE  Holder(View(row)) = IF row.status = "active" THEN row.who ELSE None
<1>1. View(row).status = row.status /\ View(row).who = row.who
  BY DEF View
<1>2. row.status = "active" => View(row) # None
  BY ViewOfRow
<1> QED BY <1>1, <1>2 DEF Holder, Visible

\* What publishSchedule writes, against the row it read.
LEMMA PublishedRow ==
  ASSUME Inv, Shown, PublishSchedule, NEW s \in Shifts
  PROVE  /\ ReadFor(s) /\ publication.rows[s] \in Rows /\ live[s] \in Rows
         /\ live[s].status = "active" => live[s].at # None
         /\ Holder(View(live[s])) = IF live[s].status = "active" THEN live[s].who ELSE None
         /\ Holder(View(publication.rows[s]))
              = IF live[s].status = "active" THEN publication.rows[s].who ELSE None
         /\ told'[s] = IF Exists(s) THEN View(live[s]) ELSE told[s]
         /\ \A p \in People :
              heard'[s][p] = Diff(publication.rows[s], publication.copies[s], heard[s][p], p)
<1>1. /\ publication # None
      /\ told'[s] = IF Exists(s) THEN View(live[s]) ELSE told[s]
      /\ \A p \in People :
           heard'[s][p] = Diff(publication.rows[s], publication.copies[s], heard[s][p], p)
  BY DEF PublishSchedule
<1>2. ReadFor(s)
  BY <1>1 DEF Shown, ReadSame
<1>3. /\ publication.rows[s] \in Rows /\ live[s] \in Rows
      /\ live[s].status = "active" => live[s].at # None
  BY <1>1 DEF Inv, Typed, TypeOK, Exists
<1>4. publication.rows[s].status = live[s].status /\ publication.rows[s].at = live[s].at
  BY <1>2 DEF ReadFor
<1>5. Holder(View(live[s])) = IF live[s].status = "active" THEN live[s].who ELSE None
  BY <1>3, HolderOfRow
<1>6. Holder(View(publication.rows[s]))
        = IF live[s].status = "active" THEN publication.rows[s].who ELSE None
  BY <1>3, <1>4, HolderOfRow
<1> QED BY <1>1, <1>2, <1>3, <1>5, <1>6

\* The publication tells p what it shows p, unless it takes from p what a claim gave back.
LEMMA PublishReaches ==
  ASSUME Inv, Shown, PublishSchedule, NEW s \in Shifts, NEW p \in People,
         told'[s] # told[s], Holder(told'[s]) = p
  PROVE  heard'[s][p] = told'[s].at \/ GivenBack(s, p)
<1> DEFINE row == publication.rows[s]
           copy == publication.copies[s]
<1>1. Exists(s) /\ told'[s] = View(live[s])
  BY PublishedRow
<1>2. p # None
  BY NoneAssumption
<1>3. live[s].status = "active" /\ live[s].who = p
  BY <1>1, <1>2, PublishedRow
<1>4. told'[s].at = live[s].at /\ row.at = live[s].at /\ Holder(View(row)) = row.who
  BY <1>1, <1>3, PublishedRow DEF View, ReadFor
<1>5. heard'[s][p] = Diff(row, copy, heard[s][p], p)
  BY PublishedRow
<1>6. CASE Untouched(s)
  <2>1. row.who = p /\ copy = told[s]
    BY <1>3, <1>6 DEF Untouched
  <2>2. CASE Holder(copy) # p \/ row.at # copy.at
    BY <1>4, <1>5, <2>1, <2>2 DEF Diff
  <2>3. CASE Holder(copy) = p /\ row.at = copy.at
    <3>1. /\ told[s] # None /\ told[s] \in Views /\ told[s].status = "active"
          /\ told[s].who = p /\ told[s].at = live[s].at
      BY <1>2, <1>4, <2>1, <2>3 DEF Holder, Visible, Inv, Typed, TypeOK
    <3>2. ~told[s].open /\ ~live[s].open
      BY <1>2, <1>3, <3>1 DEF Shown, Closed
    <3>3. live[s].open = FALSE /\ told[s].open = FALSE
      BY <3>1, <3>2, PublishedRow DEF Views, Rows
    <3>4. told[s] = [status |-> "active", at |-> live[s].at, who |-> p, open |-> FALSE]
      BY <3>1, <3>3 DEF Views
    <3>5. View(live[s]) = [status |-> "active", at |-> live[s].at, who |-> p, open |-> FALSE]
      BY <1>3, <3>3 DEF View
    <3> QED BY <1>1, <3>4, <3>5
  <2> QED BY <2>2, <2>3
<1>7. CASE Touched(s)
  <2>1. heard[s][p] = live[s].at /\ (row.who # None => Holder(copy) = row.who)
    BY <1>3, <1>7 DEF Touched
  <2>2. CASE row.who # p /\ Holder(copy) = p
    BY <2>1, <2>2 DEF GivenBack
  <2>3. CASE ~(row.who # p /\ Holder(copy) = p)
    BY <1>4, <1>5, <2>1, <2>3 DEF Diff
  <2> QED BY <2>2, <2>3
<1> QED BY <1>6, <1>7, PublishedRow DEF ReadFor

\* An approval tells whoever it gives a shift to the times it has.
LEMMA ApprovalReaches ==
  ASSUME Inv, Shown, ApproveClaim \/ ApproveSwap, NEW s \in Shifts, NEW p \in People,
         told'[s] # told[s], Holder(told'[s]) = p
  PROVE  heard'[s][p] = live'[s].at
<1>1. PICK to \in People : Handed(s, to) /\ heard'[s][to] = live[s].at
  BY ClaimHands, SwapGives DEF Same, Given, Shown
<1>2. p # None
  BY NoneAssumption
<1>3. told'[s] # None /\ told'[s].who = p
  BY <1>2 DEF Holder, Visible
<1>4. to = p
  BY <1>1, <1>3, HandedFields
<1> QED BY <1>1, <1>4, HandedFields

\* As long as no edit lands on a row that changed since it was read, whoever gets to see a
\* shift, for the first time or with other times, has been told: diffPublication finds every
\* change of what people see, and an approval that comes between a publication's reading and
\* its writing has told its new holder already.
THEOREM PublicationReaches == ASSUME ~StaleWrites PROVE Spec => PublicationReachesHolder
<1>1. ASSUME Inv, Shown, Next, NEW s \in Shifts, NEW p \in People,
             told'[s] # told[s], Holder(told'[s]) = p
      PROVE  IF publication # None /\ publication' = None
               THEN heard'[s][p] = told'[s].at \/ GivenBack(s, p)
               ELSE heard'[s][p] = live'[s].at
  <2>1. CASE PublishSchedule
    BY <1>1, <2>1, PublishReaches DEF PublishSchedule
  <2>2. CASE ApproveClaim \/ ApproveSwap
    <3>1. publication' = publication
      BY <2>2 DEF ApproveClaim, ApproveSwap
    <3> QED BY <1>1, <2>2, <3>1, ApprovalReaches
  <2> QED BY <1>1, <2>1, <2>2, ToldMoves
<1>2. Inv /\ Shown /\ [Next]_vars
        => [\A s \in Shifts, p \in People :
              told'[s] # told[s] /\ Holder(told'[s]) = p
                => IF publication # None /\ publication' = None
                     THEN heard'[s][p] = told'[s].at \/ GivenBack(s, p)
                     ELSE heard'[s][p] = live'[s].at]_vars
  BY <1>1
<1> QED BY <1>2, ReadsAccounted, PTL DEF Spec, PublicationReachesHolder

\* The publication tells p, whom it was published to, that p does not have the shift any more.
LEMMA PublishLoss ==
  ASSUME Inv, Shown, PublishSchedule, NEW s \in Shifts, NEW p \in People,
         Holder(told[s]) = p, Holder(told'[s]) # p
  PROVE  heard'[s][p] = None
<1> DEFINE row == publication.rows[s]
           copy == publication.copies[s]
<1>1. Exists(s) /\ told'[s] = View(live[s])
  BY PublishedRow
<1>2. p # None
  BY NoneAssumption
<1>3. heard'[s][p] = Diff(row, copy, heard[s][p], p)
  BY PublishedRow
<1>4. Untouched(s)
  <2>1. ASSUME Touched(s) PROVE FALSE
    <3>1. told[s] # None /\ told[s].who = p
      BY <1>2 DEF Holder, Visible
    <3>2. live[s].status = "active" /\ live[s].who = p
      BY <2>1, <3>1 DEF Touched
    <3> QED BY <1>1, <3>2, PublishedRow
  <2> QED BY <2>1, PublishedRow DEF ReadFor
<1>5. Holder(View(row)) = Holder(View(live[s])) /\ Holder(copy) = p
  BY <1>4, PublishedRow DEF Untouched
<1> QED BY <1>1, <1>3, <1>5 DEF Diff

\* As long as no edit lands on a row that changed since it was read, nobody a shift was
\* published to loses it without being told, but to an approved claim.
THEOREM LossAnnounced == ASSUME ~StaleWrites PROVE Spec => LossIsAnnounced
<1>1. ASSUME Inv, Shown, Next, NEW s \in Shifts, NEW p \in People,
             Holder(told[s]) = p, Holder(told'[s]) # p
      PROVE  heard'[s][p] = None \/ live'[s].who \in pending[s]
  <2>1. told'[s] # told[s]
    BY <1>1
  <2>2. CASE PublishSchedule
    BY <1>1, <2>2, PublishLoss
  <2>3. CASE ApproveClaim
    <3>1. PICK q \in People : Handed(s, q) /\ q \in pending[s]
      BY <1>1, <2>1, <2>3, ClaimHands DEF Same
    <3> QED BY <1>1, <3>1, HandedFields
  <2>4. CASE ApproveSwap
    <3>1. PICK from \in People, to \in People : Given(s, from, to)
      BY <1>1, <2>1, <2>4, SwapGives DEF Same, Shown
    <3>2. Holder(told[s]) = from
      BY <3>1 DEF Given, Held, Holder
    <3> QED BY <1>1, <3>1, <3>2 DEF Given
  <2> QED BY <1>1, <2>1, <2>2, <2>3, <2>4, ToldMoves
<1>2. Inv /\ Shown /\ [Next]_vars
        => [\A s \in Shifts, p \in People :
              Holder(told[s]) = p /\ Holder(told'[s]) # p
                => heard'[s][p] = None \/ live'[s].who \in pending[s]]_vars
  <2>1. ASSUME UNCHANGED vars, NEW s \in Shifts PROVE Holder(told'[s]) = Holder(told[s])
    BY <2>1 DEF vars
  <2> QED BY <1>1, <2>1
<1> QED BY <1>2, ReadsAccounted, PTL DEF Spec, LossIsAnnounced
=============================================================================
