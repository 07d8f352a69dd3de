---------------------------- MODULE OperationsProofs ----------------------------
(***************************************************************************)
(* For any number of shifts, templates and people: the types, and what the *)
(* runs check of the work on published shifts.                             *)
(***************************************************************************)
EXTENDS Operations, TLAPS

USE SetsAssumption, NoneAssumption, IsolationAssumption, BoundsAssumption

-----------------------------------------------------------------------------
(* The inductive invariant *)

\* The draft a publication under way read is still a version, and no run disappears.
PublishingOK ==
  publishing # None =>
    /\ publishing.templates[publishing.of].published # None
    /\ \A w \in Works : publishing.runs[w].status # "none" => run[w].status # "none"

\* A work without a run is blank; what is open is not verified.
ItemsOK ==
  \A w \in Works : /\ run[w].status = "none" => item[w] = NoItem
                   /\ item[w].status \in OpenStatuses => item[w].verifiedBy = None

\* A page shows an earlier revision of the task, or the task as it is.
Shows(p, w) ==
  /\ run[w].status # "none"
  /\ screen[p].item.revision <= item[w].revision
  /\ screen[p].item.revision = item[w].revision => screen[p].item = item[w]

ScreensOK == \A p \in People : screen[p] # None => Shows(p, screen[p].work)

\* A task points to a handoff that was made, and only where the template asks for one.
NotesOK ==
  /\ \A t \in Templates : template[t].status = "none" => template[t].nature = {}
  /\ \A w \in Works : item[w].handoff # None =>
       Is(w, "handoff") /\ handoff[item[w].handoff].status # "none"

Safe == TypeOK /\ PublishingOK /\ ItemsOK /\ ScreensOK

-----------------------------------------------------------------------------
(* What reconciliation writes *)

\* An item whose revision has not been compared with the bound.
Unbounded == [status : OpenStatuses \union Finished, who : People \union {None}, due : Hours,
              revision : Nat, by : People \union {None},
              verifiedBy : People \union {None}, handoff : Handoffs \union {None}]

LEMMA UnboundedRow ==
  ASSUME NEW row \in Unbounded, row.revision <= MaxRevision
  PROVE  row \in Item
BY DEF Unbounded, Item

\* The columns reconciliation may change.
Written(row, q, h, n) == [row EXCEPT !.who = q, !.due = h, !.revision = n]

Blank(q, h) == [NoItem EXCEPT !.who = q, !.due = h]

LEMMA WrittenItem ==
  ASSUME NEW row \in Item, NEW q \in People \union {None}, NEW h \in Hours, NEW n \in Nat
  PROVE  LET new == Written(row, q, h, n) IN
         /\ new \in Unbounded /\ new.who = q /\ new.due = h /\ new.revision = n
         /\ new.status = row.status /\ new.by = row.by /\ new.verifiedBy = row.verifiedBy
         /\ new.handoff = row.handoff
         /\ q = row.who /\ h = row.due /\ n = row.revision => new = row
<1>1. PICK St, P, H, D, N : /\ St = OpenStatuses \union Finished /\ P = People \union {None}
                            /\ H = Handoffs \union {None} /\ D = Hours /\ N = 0..MaxRevision
  OBVIOUS
<1> DEFINE new == Written(row, q, h, n)
<1> USE DEF Written
<1>2. row \in [status : St, who : P, due : D, revision : N, by : P, verifiedBy : P, handoff : H]
  BY <1>1 DEF Item
<1>3. q \in P /\ h \in D
  BY <1>1
<1>4. new \in [status : St, who : P, due : D, revision : Nat, by : P, verifiedBy : P, handoff : H]
  BY <1>2, <1>3
<1>5. new \in Unbounded
  BY <1>1, <1>4 DEF Unbounded
<1>6. /\ new.who = q /\ new.due = h /\ new.revision = n
      /\ new.status = row.status /\ new.by = row.by /\ new.verifiedBy = row.verifiedBy
      /\ new.handoff = row.handoff
  BY <1>2
<1>7. ASSUME q = row.who, h = row.due, n = row.revision PROVE new = row
  BY <1>2, <1>7
<1> QED BY <1>5, <1>6, <1>7

LEMMA BlankItem ==
  /\ NoItem \in Item
  /\ NoItem.status = "pending" /\ NoItem.by = None /\ NoItem.verifiedBy = None
  /\ NoItem.handoff = None /\ NoItem.revision = 0
BY DEF NoItem, Item, OpenStatuses, Finished, Hours

LEMMA CreatedItem ==
  ASSUME NEW q \in People \union {None}, NEW h \in Hours
  PROVE  LET new == Blank(q, h) IN
         /\ new \in Item /\ new.who = q /\ new.due = h /\ new.status = "pending"
         /\ new.by = None /\ new.verifiedBy = None /\ new.handoff = None
<1>1. PICK St, P, H, D, N : /\ St = OpenStatuses \union Finished /\ P = People \union {None}
                            /\ H = Handoffs \union {None} /\ D = Hours /\ N = 0..MaxRevision
  OBVIOUS
<1> DEFINE new == Blank(q, h)
<1>2. PICK blank \in [status : St, who : P, due : D, revision : N, by : P, verifiedBy : P,
                     handoff : H] : blank = NoItem
  BY <1>1, BlankItem DEF Item
<1>3. q \in P /\ h \in D /\ new = [blank EXCEPT !.who = q, !.due = h]
  BY <1>1, <1>2 DEF Blank
<1> HIDE DEF new
<1>4. new \in [status : St, who : P, due : D, revision : N, by : P, verifiedBy : P, handoff : H]
  BY <1>3
<1>5. /\ new.who = q /\ new.due = h /\ new.status = blank.status /\ new.by = blank.by
      /\ new.verifiedBy = blank.verifiedBy /\ new.handoff = blank.handoff
  BY <1>3
<1> QED BY <1>1, <1>2, <1>4, <1>5, BlankItem DEF Item, new

LEMMA SyncedRunRow ==
  ASSUME NEW w \in Works, run[w] \in Run, NEW row \in ShiftCopy, NEW tmpl, NEW seen \in Run
  PROVE  /\ SyncedRun(w, row, tmpl, seen) \in Run
         /\ run[w].status # "none" => SyncedRun(w, row, tmpl, seen).status # "none"
<1> DEFINE new == SyncedRun(w, row, tmpl, seen)
<1>1. CASE Cancelled(w, row, tmpl, seen)
  <2>1. new = [run[w] EXCEPT !.status = IF @ = "active" THEN "cancelled" ELSE @]
    BY <1>1 DEF SyncedRun, Cancelled, Created, Kept
  <2> QED BY <2>1 DEF Run
<1>2. CASE ~Cancelled(w, row, tmpl, seen) /\ Created(w, row, tmpl, seen)
  <2>1. new = [status |-> "active", who |-> row.who, reminded |-> FALSE]
    BY <1>2 DEF SyncedRun, Cancelled, Created, Kept
  <2> QED BY <2>1 DEF Run, ShiftCopy
<1>3. CASE /\ ~Cancelled(w, row, tmpl, seen) /\ ~Created(w, row, tmpl, seen)
           /\ Kept(w, row, tmpl, seen)
  <2>1. new = [status   |-> IF seen.status = "cancelled" THEN "active" ELSE run[w].status,
               who      |-> IF Compared(w, seen).who # row.who THEN row.who ELSE run[w].who,
               reminded |-> Reminded(w, row, seen)]
    BY <1>3 DEF SyncedRun
  <2>2. Reminded(w, row, seen) \in BOOLEAN
    BY DEF Reminded, Run
  <2> QED BY <2>1, <2>2 DEF Run, ShiftCopy
<1>4. CASE /\ ~Cancelled(w, row, tmpl, seen) /\ ~Created(w, row, tmpl, seen)
           /\ ~Kept(w, row, tmpl, seen)
  <2>1. new = run[w]
    BY <1>4 DEF SyncedRun
  <2> QED BY <2>1
<1> QED BY <1>1, <1>2, <1>3, <1>4

\* Of a task: left alone, created, or moved while it is open.
Fresh(w, new) == run[w].status = "none" /\ new.verifiedBy = None /\ new.by = None
                      /\ new.handoff = None /\ new.status = "pending"
Moved(w, new) == /\ item[w].status \in OpenStatuses /\ new.revision > item[w].revision
                 /\ new.status = item[w].status /\ new.by = item[w].by
                 /\ new.verifiedBy = item[w].verifiedBy /\ new.handoff = item[w].handoff

LEMMA SyncedItemRow ==
  ASSUME NEW w \in Works, item[w] \in Item, run[w] \in Run, NEW row \in ShiftCopy, NEW tmpl,
         NEW seen \in Run
  PROVE  LET new == SyncedItem(w, row, tmpl, seen) IN
         /\ new \in Unbounded
         /\ new = item[w] \/ Fresh(w, new) \/ Moved(w, new)
<1> DEFINE new == SyncedItem(w, row, tmpl, seen)
<1>0. row.who \in People \union {None} /\ row.start \in Hours
  BY DEF ShiftCopy
<1>1. CASE Created(w, row, tmpl, seen)
  <2>1. new = [NoItem EXCEPT !.who = row.who, !.due = row.start]
    BY <1>1 DEF SyncedItem, Created, Kept
  <2>2. run[w].status = "none"
    BY <1>1 DEF Created
  <2>3. PICK q \in People \union {None} : q = row.who
    BY <1>0
  <2>4. PICK h \in Hours : h = row.start
    BY <1>0
  <2>5. new = Blank(q, h)
    BY <2>1, <2>3, <2>4 DEF Blank
  <2> HIDE DEF new
  <2>6. /\ new \in Item /\ new.status = "pending" /\ new.by = None /\ new.verifiedBy = None
        /\ new.handoff = None
    BY <2>5, CreatedItem
  <2>7. new \in Unbounded
    BY <2>6 DEF Item, Unbounded
  <2>8. Fresh(w, new)
    BY <2>2, <2>6 DEF Fresh
  <2> QED BY <2>7, <2>8 DEF new
<1>2. CASE ~Created(w, row, tmpl, seen) /\ Kept(w, row, tmpl, seen)
  <2> DEFINE q == IF Moves(w, row, seen) THEN row.who ELSE item[w].who
             h == IF Late(w, row) THEN row.start ELSE item[w].due
             k == Times(w, row, seen)
  <2>1. PICK old \in Item : old = item[w]
    OBVIOUS
  <2>2. PICK qq \in People \union {None}, hh \in Hours, n \in Nat :
          qq = q /\ hh = h /\ n = old.revision + k
    BY <1>0, <2>1 DEF Item, Times
  <2>3. new = Written(old, qq, hh, n)
    BY <1>2, <2>1, <2>2 DEF SyncedItem, Written
  <2>4. CASE Moves(w, row, seen) \/ Late(w, row)
    <3>1. n > old.revision /\ item[w].status \in OpenStatuses
      BY <2>1, <2>2, <2>4 DEF Times, Moves, Late, Moving, Item
    <3> HIDE DEF new
    <3>2. new \in Unbounded /\ Moved(w, new)
      BY <2>1, <2>3, <3>1, WrittenItem DEF Moved
    <3> QED BY <3>2 DEF new
  <2>5. CASE ~Moves(w, row, seen) /\ ~Late(w, row)
    <3>1. n = old.revision /\ qq = old.who /\ hh = old.due
      BY <2>1, <2>2, <2>5 DEF Times, Item
    <3> HIDE DEF new
    <3>2. new = item[w] /\ new \in Unbounded
      BY <2>1, <2>3, <3>1, WrittenItem
    <3> QED BY <3>2 DEF new
  <2> QED BY <2>4, <2>5
<1>3. CASE ~Created(w, row, tmpl, seen) /\ ~Kept(w, row, tmpl, seen)
  <2>1. new = item[w]
    BY <1>3 DEF SyncedItem
  <2> QED BY <2>1 DEF Item, Unbounded
<1> QED BY <1>1, <1>2, <1>3

\* What reconciliation by old reads keeps: the types, and what it does to each task.
LEMMA Synced ==
  ASSUME TypeOK, ItemsOK, NEW S \in SUBSET Shifts, NEW rows \in [Shifts -> ShiftCopy],
         NEW tmpls, NEW runs \in [Works -> Run], Sync(S, rows, tmpls, runs),
         \A w \in Works : runs[w].status # "none" => run[w].status # "none"
  PROVE  /\ run' \in [Works -> Run] /\ item' \in [Works -> Item]
         /\ \A w \in Works :
              /\ run[w].status # "none" => run'[w].status # "none"
              /\ item'[w] = item[w] \/ Fresh(w, item'[w]) \/ Moved(w, item'[w])
              /\ run'[w].status = "none" => item'[w] = item[w]
<1>1. ASSUME NEW w \in Works
      PROVE  /\ run'[w] \in Run /\ (run[w].status # "none" => run'[w].status # "none")
             /\ item'[w] \in Item
             /\ item'[w] = item[w] \/ Fresh(w, item'[w]) \/ Moved(w, item'[w])
             /\ run'[w].status = "none" => item'[w] = item[w]
  <2>1. CASE w[1] \notin S
    BY <1>1, <2>1 DEF Sync, TypeOK
  <2>2. CASE w[1] \in S
    <3> DEFINE row == rows[w[1]]
               tmpl == tmpls[w[2]]
               seen == runs[w]
    <3>0. row \in ShiftCopy /\ seen \in Run /\ run[w] \in Run /\ item[w] \in Item
      BY <1>1 DEF Works, TypeOK
    <3>1. /\ run'[w] = SyncedRun(w, row, tmpl, seen)
          /\ item'[w] = SyncedItem(w, row, tmpl, seen)
          /\ item'[w].revision <= MaxRevision
      BY <1>1, <2>2 DEF Sync
    <3>2. ASSUME run'[w].status = "none" PROVE item'[w] = item[w]
      <4>1. run[w].status = "none"
        BY <3>0, <3>1, <3>2, SyncedRunRow
      <4>2. seen.status = "none"
        BY <1>1, <4>1
      <4>3. ~Kept(w, row, tmpl, seen)
        BY <4>2 DEF Kept
      <4>4. ~Created(w, row, tmpl, seen)
        BY <3>1, <3>2, <4>2 DEF SyncedRun, Created, Cancelled, Kept
      <4> QED BY <3>1, <4>3, <4>4 DEF SyncedItem
    <3> HIDE DEF row, tmpl, seen
    <3>8. PICK row0 \in ShiftCopy, seen0 \in Run : row0 = row /\ seen0 = seen
      BY <3>0
    <3>9. PICK tmpl0 : tmpl0 = tmpl
      OBVIOUS
    <3>3. row0 = row /\ tmpl0 = tmpl /\ seen0 = seen
      BY <3>8, <3>9
    <3>4. /\ run'[w] = SyncedRun(w, row0, tmpl0, seen0)
          /\ item'[w] = SyncedItem(w, row0, tmpl0, seen0)
      BY <3>1, <3>3
    <3>5. run'[w] \in Run /\ (run[w].status # "none" => run'[w].status # "none")
      BY <1>1, <3>0, <3>4, SyncedRunRow
    <3>6. /\ item'[w] \in Unbounded
          /\ item'[w] = item[w] \/ Fresh(w, item'[w]) \/ Moved(w, item'[w])
      BY <1>1, <3>0, <3>4, SyncedItemRow
    <3>7. item'[w] \in Item
      BY <3>1, <3>6 DEF Unbounded, Item
    <3> QED BY <3>2, <3>5, <3>6, <3>7
  <2> QED BY <2>1, <2>2
<1>2. /\ run' = [w \in Works |-> run'[w]] /\ item' = [w \in Works |-> item'[w]]
  BY DEF Sync
<1>3. /\ \A w \in Works : run'[w] \in Run
      /\ \A w \in Works : item'[w] \in Item
  BY <1>1
<1>4. run' \in [Works -> Run] /\ item' \in [Works -> Item]
  BY <1>2, <1>3
<1> QED BY <1>1, <1>4

LEMMA SyncSafe ==
  ASSUME Safe, NEW S \in SUBSET Shifts, NEW rows \in [Shifts -> ShiftCopy],
         NEW tmpls, NEW runs \in [Works -> Run], Sync(S, rows, tmpls, runs),
         \A w \in Works : runs[w].status # "none" => run[w].status # "none",
         UNCHANGED <<screen, handoff>>
  PROVE  /\ run' \in [Works -> Run] /\ item' \in [Works -> Item]
         /\ ItemsOK' /\ ScreensOK'
         /\ \A w \in Works : run[w].status # "none" => run'[w].status # "none"
<1>1. /\ run' \in [Works -> Run] /\ item' \in [Works -> Item]
      /\ \A w \in Works :
           /\ run[w].status # "none" => run'[w].status # "none"
           /\ item'[w] = item[w] \/ Fresh(w, item'[w]) \/ Moved(w, item'[w])
           /\ run'[w].status = "none" => item'[w] = item[w]
  BY Synced DEF Safe
<1>2. ItemsOK'
  BY <1>1 DEF ItemsOK, Fresh, Moved, Safe
<1>3. ScreensOK'
  <2> SUFFICES ASSUME NEW p \in People, screen[p] # None
               PROVE  Shows(p, screen[p].work)'
    BY DEF ScreensOK
  <2>1. PICK w \in Works : w = screen[p].work
    BY DEF Safe, TypeOK
  <2>2. Shows(p, w) /\ screen[p].item \in Item /\ item[w] \in Item /\ item'[w] \in Item
    BY <1>1, <2>1 DEF Safe, TypeOK, ScreensOK
  <2>3. run'[w].status # "none" /\ (item'[w] = item[w] \/ Moved(w, item'[w]))
    BY <1>1, <2>2 DEF Shows, Fresh
  <2>4. Shows(p, w)'
    BY <2>2, <2>3 DEF Shows, Moved, Item
  <2> QED BY <2>1, <2>4
<1> QED BY <1>1, <1>2, <1>3

-----------------------------------------------------------------------------
(* The work *)

\* The ways a task's row is written, each with what it sets.
Completed(row, s, p, q)   == [row EXCEPT !.status = s, !.by = p, !.verifiedBy = q]
Noted(row, s, p, h)       == [row EXCEPT !.status = s, !.by = p, !.handoff = h]
Skipped(row, s, p)        == [row EXCEPT !.status = s, !.by = p]
VerifiedAs(row, s, q)     == [row EXCEPT !.status = s, !.verifiedBy = q]

LEMMA CompletedRow ==
  ASSUME NEW row \in Item, NEW s \in OpenStatuses \union Finished, NEW p \in People \union {None},
         NEW q \in People \union {None}
  PROVE  LET new == Completed(row, s, p, q) IN
         /\ new \in Item /\ new.status = s /\ new.by = p
         /\ new.verifiedBy = q /\ new.handoff = row.handoff
<1>1. PICK St, P, H, D, N : /\ St = OpenStatuses \union Finished /\ P = People \union {None}
                            /\ H = Handoffs \union {None} /\ D = Hours /\ N = 0..MaxRevision
  OBVIOUS
<1>2. Item = [status : St, who : P, due : D, revision : N, by : P, verifiedBy : P, handoff : H]
  BY <1>1 DEF Item
<1> QED BY <1>1, <1>2 DEF Completed

LEMMA NotedRow ==
  ASSUME NEW row \in Item, NEW s \in OpenStatuses \union Finished, NEW p \in People \union {None},
         NEW h \in Handoffs \union {None}
  PROVE  LET new == Noted(row, s, p, h) IN
         /\ new \in Item /\ new.status = s /\ new.by = p
         /\ new.verifiedBy = row.verifiedBy /\ new.handoff = h
<1>1. PICK St, P, H, D, N : /\ St = OpenStatuses \union Finished /\ P = People \union {None}
                            /\ H = Handoffs \union {None} /\ D = Hours /\ N = 0..MaxRevision
  OBVIOUS
<1>2. Item = [status : St, who : P, due : D, revision : N, by : P, verifiedBy : P, handoff : H]
  BY <1>1 DEF Item
<1> QED BY <1>1, <1>2 DEF Noted

LEMMA SkippedRow ==
  ASSUME NEW row \in Item, NEW s \in OpenStatuses \union Finished, NEW p \in People \union {None}
  PROVE  LET new == Skipped(row, s, p) IN
         /\ new \in Item /\ new.status = s /\ new.by = p
         /\ new.verifiedBy = row.verifiedBy /\ new.handoff = row.handoff
<1>1. PICK St, P, H, D, N : /\ St = OpenStatuses \union Finished /\ P = People \union {None}
                            /\ H = Handoffs \union {None} /\ D = Hours /\ N = 0..MaxRevision
  OBVIOUS
<1>2. Item = [status : St, who : P, due : D, revision : N, by : P, verifiedBy : P, handoff : H]
  BY <1>1 DEF Item
<1> QED BY <1>1, <1>2 DEF Skipped

LEMMA StatusRow ==
  ASSUME NEW row \in Item, NEW s \in OpenStatuses \union Finished
  PROVE  LET new == [row EXCEPT !.status = s] IN
         /\ new \in Item /\ new.status = s /\ new.by = row.by
         /\ new.verifiedBy = row.verifiedBy /\ new.handoff = row.handoff
<1>1. PICK St, P, H, D, N : /\ St = OpenStatuses \union Finished /\ P = People \union {None}
                            /\ H = Handoffs \union {None} /\ D = Hours /\ N = 0..MaxRevision
  OBVIOUS
<1>2. Item = [status : St, who : P, due : D, revision : N, by : P, verifiedBy : P, handoff : H]
  BY <1>1 DEF Item
<1> QED BY <1>1, <1>2

LEMMA VerifiedRow ==
  ASSUME NEW row \in Item, NEW s \in OpenStatuses \union Finished, NEW q \in People \union {None}
  PROVE  LET new == VerifiedAs(row, s, q) IN
         /\ new \in Item /\ new.status = s /\ new.by = row.by
         /\ new.verifiedBy = q /\ new.handoff = row.handoff
<1>1. PICK St, P, H, D, N : /\ St = OpenStatuses \union Finished /\ P = People \union {None}
                            /\ H = Handoffs \union {None} /\ D = Hours /\ N = 0..MaxRevision
  OBVIOUS
<1>2. Item = [status : St, who : P, due : D, revision : N, by : P, verifiedBy : P, handoff : H]
  BY <1>1 DEF Item
<1> QED BY <1>1, <1>2 DEF VerifiedAs

LEMMA ReassignedRow ==
  ASSUME NEW row \in Item, NEW q \in People \union {None}
  PROVE  LET new == [row EXCEPT !.who = q] IN
         /\ new \in Item /\ new.status = row.status /\ new.by = row.by
         /\ new.verifiedBy = row.verifiedBy /\ new.handoff = row.handoff
<1>1. PICK St, P, H, D, N : /\ St = OpenStatuses \union Finished /\ P = People \union {None}
                            /\ H = Handoffs \union {None} /\ D = Hours /\ N = 0..MaxRevision
  OBVIOUS
<1>2. Item = [status : St, who : P, due : D, revision : N, by : P, verifiedBy : P, handoff : H]
  BY <1>1 DEF Item
<1> QED BY <1>1, <1>2

LEMMA RevisedRow ==
  ASSUME NEW row \in Item, NEW n \in 0..MaxRevision
  PROVE  LET new == [row EXCEPT !.revision = n] IN
         /\ new \in Item /\ new.revision = n /\ new.status = row.status /\ new.by = row.by
         /\ new.verifiedBy = row.verifiedBy /\ new.handoff = row.handoff
BY DEF Item

\* The page is up to date wherever a revision passes: what a handler read is what it changes.
LEMMA ReadIsTrue ==
  ASSUME Safe, NEW p \in People, NEW w \in Works, OnScreen(p, w)
  PROVE  Read(p, w).item = item[w] /\ run[w].status # "none"
BY DEF Safe, ScreensOK, Shows, OnScreen, Read, Page

\* Everything a transition leaves behind but the note.
LEMMA TransitionSafe ==
  ASSUME Safe, NEW p \in People, NEW w \in Works, OnScreen(p, w), NEW from, NEW to \in Item,
         Transition(p, w, from, to), to.status \in OpenStatuses => to.verifiedBy = None,
         handoff' \in [Handoffs -> Handoff], UnchangedByWork
  PROVE  /\ Safe'
         /\ \A v \in Works : v # w => item'[v] = item[v]
         /\ item'[w].status = to.status /\ item'[w].by = to.by
         /\ item'[w].verifiedBy = to.verifiedBy /\ item'[w].handoff = to.handoff
         /\ item[w].status \in from
<1>0. item \in [Works -> Item] /\ item[w] \in Item
  BY DEF Safe, TypeOK
<1>1. PICK n \in 0..MaxRevision : n = item[w].revision + 1 /\ n > item[w].revision
  BY <1>0 DEF Transition, Item
<1>11. LET new == [to EXCEPT !.revision = n] IN
      /\ new \in Item /\ new.revision = n /\ new.status = to.status /\ new.by = to.by
      /\ new.verifiedBy = to.verifiedBy /\ new.handoff = to.handoff
  BY RevisedRow
<1>2. PICK new \in Item : /\ new = [to EXCEPT !.revision = n]
                          /\ new.revision = n /\ new.status = to.status /\ new.by = to.by
                          /\ new.verifiedBy = to.verifiedBy /\ new.handoff = to.handoff
  BY <1>11
<1>3. item' = [item EXCEPT ![w] = new] /\ item[w].status \in from
  BY <1>1, <1>2 DEF Transition
<1>4. item' \in [Works -> Item] /\ item'[w] = new /\ \A v \in Works : v # w => item'[v] = item[v]
  BY <1>0, <1>3
<1>5. screen' = [screen EXCEPT ![p] = None]
  BY DEF Transition
<1>6. run' = run /\ publishing' = publishing
  BY DEF UnchangedByWork
<1>7. TypeOK'
  BY <1>4, <1>5 DEF Safe, TypeOK, UnchangedByWork
<1>8. PublishingOK'
  BY <1>6 DEF Safe, PublishingOK
<1>9. ItemsOK'
  <2> SUFFICES ASSUME NEW v \in Works
               PROVE  /\ run[v].status = "none" => item'[v] = NoItem
                      /\ item'[v].status \in OpenStatuses => item'[v].verifiedBy = None
    BY <1>6 DEF ItemsOK
  <2>1. CASE v = w
    BY <1>2, <1>4, <2>1, ReadIsTrue
  <2>2. CASE v # w
    BY <1>4, <2>2 DEF Safe, ItemsOK
  <2> QED BY <2>1, <2>2
<1>10. ScreensOK'
  <2> SUFFICES ASSUME NEW q \in People, screen'[q] # None
               PROVE  Shows(q, screen[q].work)' /\ screen'[q] = screen[q]
    BY DEF ScreensOK
  <2>1. screen'[q] = screen[q] /\ screen[q] # None
    BY <1>5 DEF Safe, TypeOK
  <2>2. PICK v \in Works : v = screen[q].work
    BY <2>1 DEF Safe, TypeOK
  <2>3. Shows(q, v) /\ screen[q].item \in Item
    BY <2>1, <2>2 DEF Safe, ScreensOK, TypeOK
  <2>4. Shows(q, v)'
    BY <1>0, <1>1, <1>2, <1>4, <1>6, <2>1, <2>3 DEF Shows, Item
  <2> QED BY <2>1, <2>2, <2>4
<1> QED BY <1>2, <1>3, <1>4, <1>7, <1>8, <1>9, <1>10 DEF Safe

\* What a step of the work keeps, and who may be put down as having done the task.
Worked(p, w) ==
  /\ Safe' /\ NotesOK' /\ VerifierIsAnother'
  /\ NoteByWhoDidIt => NoteByWhoDidIt'
  /\ \A v \in Works : v # w => item'[v] = item[v]
  /\ \/ item'[w].by \in {None, item[w].by}
     \/ item'[w].by = p /\ (item[w].who = p \/ Is(w, "shared"))

\* A row a person may write over the task's.
Allowed(p, w, to) ==
  /\ to.handoff = item[w].handoff
  /\ to.status \in OpenStatuses => to.verifiedBy = None
  /\ to.verifiedBy # None => to.verifiedBy # to.by
  /\ \/ to.by \in {None, item[w].by}
     \/ to.by = p /\ (item[w].who = p \/ Is(w, "shared"))
  /\ to.status \in {"awaiting", "done"} /\ to.handoff # None =>
       to.by = item[w].by /\ item[w].status \in {"awaiting", "done"}

LEMMA EditWorked ==
  ASSUME Safe, NotesOK, VerifierIsAnother, NEW p \in People, NEW w \in Works, OnScreen(p, w),
         NEW from, NEW to \in Item, Transition(p, w, from, to), UnchangedByWork,
         UNCHANGED handoff, Allowed(p, w, to)
  PROVE  Worked(p, w)
<1> USE DEF Allowed
<1>1. /\ Safe' /\ \A v \in Works : v # w => item'[v] = item[v]
      /\ item'[w].status = to.status /\ item'[w].by = to.by
      /\ item'[w].verifiedBy = to.verifiedBy /\ item'[w].handoff = to.handoff
  BY TransitionSafe DEF Safe, TypeOK
<1>2. template' = template
  BY DEF UnchangedByWork
<1>3. NotesOK'
  BY <1>1, <1>2 DEF NotesOK, Is
<1>4. VerifierIsAnother'
  BY <1>1 DEF VerifierIsAnother
<1>5. ASSUME NoteByWhoDidIt PROVE NoteByWhoDidIt'
  BY <1>1, <1>5 DEF NoteByWhoDidIt
<1> QED BY <1>1, <1>3, <1>4, <1>5 DEF Worked

LEMMA MayWorkMeans ==
  ASSUME Safe, NEW p \in People, NEW w \in Works, MayWork(p, w)
  PROVE  OnScreen(p, w) /\ Read(p, w).item = item[w] /\ (item[w].who = p \/ Is(w, "shared"))
BY ReadIsTrue DEF MayWork

LEMMA MayManageMeans ==
  ASSUME Safe, NEW p \in People, NEW w \in Works, MayManage(p, w)
  PROVE  OnScreen(p, w) /\ Read(p, w).item = item[w] /\ p \in Managers
BY ReadIsTrue DEF MayManage

LEMMA HandoffWorked ==
  ASSUME Safe, NotesOK, VerifierIsAnother, NEW p \in People, NEW w \in Works,
         CompleteHandoffTask(p, w)
  PROVE  Worked(p, w)
<1>1. OnScreen(p, w) /\ (item[w].who = p \/ Is(w, "shared"))
  BY MayWorkMeans DEF CompleteHandoffTask
<1>2. item[w] \in Item /\ handoff \in [Handoffs -> Handoff]
  BY DEF Safe, TypeOK
<1>3. PICK h \in Handoffs \union {None} :
        /\ h # None => handoff[h].status = "none"
        /\ Transition(p, w, OpenStatuses,
             [item[w] EXCEPT !.status = CompletedStatus(w), !.by = p, !.handoff = Leaves(w, h)])
        /\ handoff' = IF h = None THEN handoff ELSE
             [handoff EXCEPT ![h] = [status |-> "open", author |-> p, of |-> w, resolvedBy |-> None]]
  BY DEF CompleteHandoffTask
<1>4. CompletedStatus(w) \in Finished /\ CompletedStatus(w) \notin OpenStatuses
  BY DEF CompletedStatus, Finished, OpenStatuses
<1>13. PICK old \in Item : old = item[w]
  BY <1>2
<1>14. LET new == Noted(old, CompletedStatus(w), p, h) IN
          /\ new \in Item /\ new.status = CompletedStatus(w) /\ new.by = p
          /\ new.verifiedBy = old.verifiedBy /\ new.handoff = h
  BY <1>4, NotedRow
<1>5. PICK to \in Item :
        /\ to = [item[w] EXCEPT !.status = CompletedStatus(w), !.by = p, !.handoff = Leaves(w, h)]
        /\ to.status = CompletedStatus(w) /\ to.by = p /\ to.verifiedBy = item[w].verifiedBy
        /\ to.handoff = h
  BY <1>13, <1>14 DEF Noted, Leaves
<1>6. Transition(p, w, OpenStatuses, to) /\ UnchangedByWork
  BY <1>3, <1>5 DEF CompleteHandoffTask
<1>7. /\ handoff' \in [Handoffs -> Handoff]
      /\ \A g \in Handoffs : handoff[g].status # "none" => handoff'[g] = handoff[g]
      /\ h # None => /\ handoff'[h].status = "open" /\ handoff'[h].author = p
                     /\ handoff'[h].of = w
  BY <1>2, <1>3 DEF Handoff
<1>8. /\ Safe' /\ \A v \in Works : v # w => item'[v] = item[v]
      /\ item'[w].status = to.status /\ item'[w].by = to.by
      /\ item'[w].verifiedBy = to.verifiedBy /\ item'[w].handoff = to.handoff
      /\ item[w].status \in OpenStatuses
  <2>1. Safe /\ p \in People /\ w \in Works /\ OnScreen(p, w) /\ to \in Item
    BY <1>1
  <2>2. Transition(p, w, OpenStatuses, to)
    BY <1>6
  <2>3. to.status \in OpenStatuses => to.verifiedBy = None
    BY <1>4, <1>5
  <2>4. handoff' \in [Handoffs -> Handoff] /\ UnchangedByWork
    BY <1>6, <1>7
  <2> QED BY <2>1, <2>2, <2>3, <2>4, TransitionSafe
<1>9. template' = template /\ Is(w, "handoff") /\ item \in [Works -> Item]
  BY <1>6 DEF UnchangedByWork, CompleteHandoffTask, Safe, TypeOK
<1>10. NotesOK'
  BY <1>5, <1>7, <1>8, <1>9 DEF NotesOK, Is, Item
<1>11. VerifierIsAnother'
  BY <1>5, <1>8 DEF VerifierIsAnother, Safe, ItemsOK
<1>12. ASSUME NoteByWhoDidIt PROVE NoteByWhoDidIt'
  BY <1>5, <1>7, <1>8, <1>9, <1>12 DEF NoteByWhoDidIt, NotesOK, Item
<1> QED BY <1>1, <1>5, <1>8, <1>10, <1>11, <1>12 DEF Worked

LEMMA WorkStepWorked ==
  ASSUME Safe, NotesOK, VerifierIsAnother, NEW p \in People, NEW w \in Works, WorkStep(p, w)
  PROVE  Worked(p, w)
<1>0. PICK old \in Item : old = item[w]
  BY DEF Safe, TypeOK
<1>1. /\ old.status \in OpenStatuses => old.verifiedBy = None
      /\ old.verifiedBy # None => old.verifiedBy # old.by
      /\ old.handoff # None => Is(w, "handoff")
  BY <1>0 DEF Safe, ItemsOK, VerifierIsAnother, NotesOK
<1>2. CASE CompleteTask(p, w)
  <2>1. PICK to \in Item :
          /\ to = [old EXCEPT !.status = CompletedStatus(w), !.by = p, !.verifiedBy = None]
          /\ to.status = CompletedStatus(w) /\ to.by = p /\ to.verifiedBy = None
          /\ to.handoff = old.handoff
    <3>1. CompletedStatus(w) \in OpenStatuses \union Finished
      BY DEF CompletedStatus, Finished
    <3>2. LET new == Completed(old, CompletedStatus(w), p, None) IN
             /\ new \in Item /\ new.status = CompletedStatus(w) /\ new.by = p
             /\ new.verifiedBy = None /\ new.handoff = old.handoff
      BY <3>1, CompletedRow
    <3> QED BY <3>2 DEF Completed
  <2>2. Transition(p, w, OpenStatuses, to) /\ UnchangedByWork /\ UNCHANGED handoff
    BY <1>0, <1>2, <2>1 DEF CompleteTask
  <2>3. OnScreen(p, w) /\ (item[w].who = p \/ Is(w, "shared")) /\ ~Is(w, "handoff")
    BY <1>2, MayWorkMeans DEF CompleteTask
  <2>6. /\ to.status = CompletedStatus(w) /\ to.by = p /\ to.verifiedBy = None
        /\ to.handoff = old.handoff
    BY <2>1
  <2>5. Allowed(p, w, to)
    BY <1>0, <1>1, <2>6, <2>2, <2>3 DEF Allowed
  <2> QED BY <2>1, <2>2, <2>3, <2>5, EditWorked
<1>3. CASE CompleteHandoffTask(p, w)
  BY <1>3, HandoffWorked
<1>4. CASE SkipTask(p, w)
  <2>1. PICK to \in Item :
          /\ to = [old EXCEPT !.status = "skipped", !.by = p]
          /\ to.status = "skipped" /\ to.by = p /\ to.verifiedBy = old.verifiedBy
          /\ to.handoff = old.handoff
    <3>1. LET new == Skipped(old, "skipped", p) IN
          /\ new \in Item /\ new.status = "skipped" /\ new.by = p
          /\ new.verifiedBy = old.verifiedBy /\ new.handoff = old.handoff
      BY SkippedRow DEF Finished
    <3> QED BY <3>1 DEF Skipped
  <2>2. Transition(p, w, OpenStatuses, to) /\ UnchangedByWork /\ UNCHANGED handoff
    BY <1>0, <1>4, <2>1 DEF SkipTask
  <2>3. OnScreen(p, w) /\ (item[w].who = p \/ Is(w, "shared"))
    BY <1>4, MayWorkMeans DEF SkipTask
  <2>4. old.status \in OpenStatuses
    BY <1>0, <2>2 DEF Transition
  <2>6. /\ to.status = "skipped" /\ to.by = p /\ to.verifiedBy = old.verifiedBy
        /\ to.handoff = old.handoff
    BY <2>1
  <2>5. Allowed(p, w, to)
    BY <1>0, <1>1, <2>6, <2>2, <2>3, <2>4 DEF Allowed, OpenStatuses
  <2> QED BY <2>1, <2>2, <2>3, <2>4, <2>5, EditWorked
<1>5. CASE BlockTask(p, w) \/ UnblockTask(p, w)
  <2>1. PICK s \in OpenStatuses :
          Transition(p, w, OpenStatuses, [old EXCEPT !.status = s])
    BY <1>0, <1>5 DEF BlockTask, UnblockTask, OpenStatuses, Transition
  <2>2. PICK to \in Item :
          /\ to = [old EXCEPT !.status = s]
          /\ to.status = s /\ to.by = old.by /\ to.verifiedBy = old.verifiedBy
          /\ to.handoff = old.handoff
    <3>1. LET new == [old EXCEPT !.status = s] IN
          /\ new \in Item /\ new.status = s /\ new.by = old.by
          /\ new.verifiedBy = old.verifiedBy /\ new.handoff = old.handoff
      BY StatusRow
    <3> QED BY <3>1
  <2>3. /\ Transition(p, w, OpenStatuses, to) /\ old.status \in OpenStatuses
        /\ UnchangedByWork /\ UNCHANGED handoff
    BY <1>0, <1>5, <2>1, <2>2 DEF BlockTask, UnblockTask, Transition
  <2>4. OnScreen(p, w)
    BY <1>5, MayWorkMeans DEF BlockTask, UnblockTask
  <2>6. /\ to.status = s /\ to.by = old.by /\ to.verifiedBy = old.verifiedBy
        /\ to.handoff = old.handoff
    BY <2>2
  <2>5. Allowed(p, w, to)
    BY <1>0, <1>1, <2>6, <2>3, <2>4 DEF Allowed, OpenStatuses
  <2> QED BY <2>2, <2>3, <2>4, <2>5, EditWorked
<1>6. CASE UndoTask(p, w) \/ ReturnTask(p, w) \/ ReopenTask(p, w)
  <2>1. PICK to \in Item :
          /\ to = [old EXCEPT !.status = "pending", !.by = None, !.verifiedBy = None]
          /\ to.status = "pending" /\ to.by = None /\ to.verifiedBy = None
          /\ to.handoff = old.handoff
    <3>1. LET new == Completed(old, "pending", None, None) IN
          /\ new \in Item /\ new.status = "pending" /\ new.by = None
          /\ new.verifiedBy = None /\ new.handoff = old.handoff
      BY CompletedRow DEF OpenStatuses
    <3> QED BY <3>1 DEF Completed
  <2>2. PICK from : Transition(p, w, from, to)
    BY <1>0, <1>6, <2>1 DEF UndoTask, ReturnTask, ReopenTask, Reopened
  <2>3. UnchangedByWork /\ UNCHANGED handoff
    BY <1>6 DEF UndoTask, ReturnTask, ReopenTask
  <2>4. OnScreen(p, w)
    BY <1>6, MayWorkMeans, MayManageMeans DEF UndoTask, ReturnTask, ReopenTask
  <2>6. /\ to.status = "pending" /\ to.by = None /\ to.verifiedBy = None
        /\ to.handoff = old.handoff
    BY <2>1
  <2>5. Allowed(p, w, to)
    BY <1>0, <1>1, <2>6, <2>2, <2>3, <2>4 DEF Allowed
  <2> QED BY <2>1, <2>2, <2>3, <2>4, <2>5, EditWorked
<1>7. CASE VerifyTask(p, w)
  <2>1. PICK to \in Item :
          /\ to = [old EXCEPT !.status = "done", !.verifiedBy = p]
          /\ to.status = "done" /\ to.by = old.by /\ to.verifiedBy = p
          /\ to.handoff = old.handoff
    <3>1. LET new == VerifiedAs(old, "done", p) IN
          /\ new \in Item /\ new.status = "done" /\ new.by = old.by
          /\ new.verifiedBy = p /\ new.handoff = old.handoff
      BY VerifiedRow DEF Finished
    <3> QED BY <3>1 DEF VerifiedAs
  <2>2. Transition(p, w, {"awaiting"}, to) /\ UnchangedByWork /\ UNCHANGED handoff
    BY <1>0, <1>7, <2>1 DEF VerifyTask
  <2>3. OnScreen(p, w) /\ p # old.by
    BY <1>0, <1>7, MayManageMeans DEF VerifyTask, SomeoneElses
  <2>4. old.status = "awaiting"
    BY <1>0, <2>2 DEF Transition
  <2>6. /\ to.status = "done" /\ to.by = old.by /\ to.verifiedBy = p
        /\ to.handoff = old.handoff
    BY <2>1
  <2>5. Allowed(p, w, to)
    BY <1>0, <1>1, <2>6, <2>2, <2>3, <2>4 DEF Allowed, OpenStatuses
  <2> QED BY <2>1, <2>2, <2>3, <2>4, <2>5, EditWorked
<1>8. CASE ReassignTask(p, w)
  <2>1. PICK q \in People : Transition(p, w, OpenStatuses, [old EXCEPT !.who = q])
    BY <1>0, <1>8 DEF ReassignTask
  <2>2. PICK to \in Item :
          /\ to = [old EXCEPT !.who = q]
          /\ to.status = old.status /\ to.by = old.by /\ to.verifiedBy = old.verifiedBy
          /\ to.handoff = old.handoff
    <3>1. LET new == [old EXCEPT !.who = q] IN
          /\ new \in Item /\ new.status = old.status /\ new.by = old.by
          /\ new.verifiedBy = old.verifiedBy /\ new.handoff = old.handoff
      BY ReassignedRow
    <3> QED BY <3>1
  <2>3. Transition(p, w, OpenStatuses, to) /\ UnchangedByWork /\ UNCHANGED handoff
    BY <1>8, <2>1, <2>2 DEF ReassignTask
  <2>4. OnScreen(p, w) /\ old.status \in OpenStatuses
    BY <1>0, <1>8, <2>3, MayManageMeans DEF ReassignTask, Transition
  <2>6. /\ to.status = old.status /\ to.by = old.by /\ to.verifiedBy = old.verifiedBy
        /\ to.handoff = old.handoff
    BY <2>2
  <2>5. Allowed(p, w, to)
    BY <1>0, <1>1, <2>6, <2>3, <2>4 DEF Allowed, OpenStatuses
  <2> QED BY <2>2, <2>3, <2>4, <2>5, EditWorked
<1> QED BY <1>2, <1>3, <1>4, <1>5, <1>6, <1>7, <1>8 DEF WorkStep

-----------------------------------------------------------------------------
(* Every other step *)

LEMMA TemplateRow ==
  ASSUME NEW row \in Template, NEW v \in Targets \union {None}
  PROVE  LET new == [row EXCEPT !.published = v, !.draft = None] IN
         /\ new \in Template /\ new.status = row.status /\ new.nature = row.nature
         /\ new.published = v /\ new.draft = None
<1>1. PICK T : T = Targets \union {None}
  OBVIOUS
<1> QED BY <1>1 DEF Template

\* Templates whose types, versions and natures are in order.
TemplatesOK(tmpls) ==
  /\ tmpls \in [Templates -> Template]
  /\ \A t \in Templates :
       /\ tmpls[t].status # "none" => tmpls[t].published # None \/ tmpls[t].draft # None
       /\ tmpls[t].status = "none" => tmpls[t].nature = {}

\* A template keeps its nature once it is there.
NaturesKept ==
  \A t \in Templates : template[t].status # "none" => template'[t].nature = template[t].nature

\* A version takes the place of what was published, and no draft is left.
Versioned(t, v) == [template EXCEPT ![t] = [@ EXCEPT !.published = v, !.draft = None]]

LEMMA VersionPublished ==
  ASSUME TypeOK, NotesOK, NEW t \in Templates, NEW v \in Targets, v # None
  PROVE  LET new == Versioned(t, v) IN
         /\ TemplatesOK(new) /\ new[t].published = v
         /\ \A u \in Templates : new[u].nature = template[u].nature
<1>1. PICK row \in Template : /\ row = [template[t] EXCEPT !.published = v, !.draft = None]
                              /\ row.status = template[t].status /\ row.nature = template[t].nature
                              /\ row.published = v /\ row.draft = None
  <2>1. PICK old \in Template : old = template[t]
    BY DEF TypeOK
  <2>2. LET new == [old EXCEPT !.published = v, !.draft = None] IN
        /\ new \in Template /\ new.status = old.status /\ new.nature = old.nature
        /\ new.published = v /\ new.draft = None
    BY ZenonT(60), TemplateRow
  <2> QED BY <2>1, <2>2
<1>2. PICK new : new = [template EXCEPT ![t] = row]
  OBVIOUS
<1>3. /\ new \in [Templates -> Template] /\ new[t] = row
      /\ \A u \in Templates : u # t => new[u] = template[u]
  BY <1>2 DEF TypeOK
<1>4. TemplatesOK(new) /\ new[t].published = v
  <2>1. /\ new[t].published = v /\ v # None /\ new[t].status = template[t].status
        /\ new[t].nature = template[t].nature
    BY <1>1, <1>3
  <2>2. ASSUME NEW u \in Templates
        PROVE  /\ new[u].status # "none" => new[u].published # None \/ new[u].draft # None
               /\ new[u].status = "none" => new[u].nature = {}
    <3>1. CASE u = t
      BY <2>1, <3>1 DEF NotesOK
    <3>2. CASE u # t
      BY <1>3, <3>2 DEF TypeOK, NotesOK
    <3> QED BY <3>1, <3>2
  <2> QED BY <1>3, <2>1, <2>2 DEF TemplatesOK
<1>5. \A u \in Templates : new[u].nature = template[u].nature
  BY <1>1, <1>3
<1>6. new = Versioned(t, v)
  BY <1>1, <1>2 DEF Versioned
<1> QED BY <1>4, <1>5, <1>6

\* Steps that change templates only, and what they have read of them.
LEMMA TemplateSafe ==
  ASSUME Safe, NotesOK, TemplatesOK(template'), NaturesKept, changes' \in 0..MaxChanges,
         UnchangedByTemplates, PublishingOK',
         publishing' # None =>
           /\ publishing'.of \in Templates /\ publishing'.shifts \in [Shifts -> ShiftCopy]
           /\ publishing'.templates \in [Templates -> Template]
           /\ publishing'.runs \in [Works -> Run]
  PROVE  Safe' /\ NotesOK'
<1>1. TypeOK'
  BY DEF Safe, TypeOK, TemplatesOK, UnchangedByTemplates
<1>2. ItemsOK'
  BY DEF Safe, ItemsOK, UnchangedByTemplates
<1>3. ScreensOK'
  BY DEF Safe, ScreensOK, Shows, UnchangedByTemplates
<1>4. NotesOK'
  <2>1. item' = item /\ handoff' = handoff
    BY DEF UnchangedByTemplates
  <2>2. ASSUME NEW w \in Works, item[w].handoff # None PROVE Is(w, "handoff")'
    <3>1. Is(w, "handoff") /\ w[2] \in Templates
      BY <2>2 DEF NotesOK, Works
    <3>2. template[w[2]].status # "none"
      BY <3>1 DEF NotesOK, Is
    <3> QED BY <3>1, <3>2 DEF NaturesKept, Is
  <2> QED BY <2>1, <2>2 DEF NotesOK, TemplatesOK
<1> QED BY <1>1, <1>2, <1>3, <1>4 DEF Safe

LEMMA SmallTemplateStep ==
  ASSUME Safe, NotesOK, NEW t \in Templates,
         \/ CreateTemplate(t) \/ SetDraftTargets(t) \/ StartNewDraft(t) \/ DiscardDraft(t)
         \/ ArchiveTemplate(t) \/ RestoreTemplate(t)
  PROVE  Safe' /\ NotesOK'
<1> USE DEF IsDraft
<1>1. template \in [Templates -> Template] /\ TemplatesOK(template)
  BY DEF Safe, TypeOK, NotesOK, TemplatesOK
<1>2. TemplatesOK(template') /\ NaturesKept
  <2>1. CASE CreateTemplate(t)
    BY <1>1, <2>1 DEF CreateTemplate, TemplatesOK, NaturesKept, Template, Targets
  <2>2. CASE SetDraftTargets(t)
    <3>1. \A v \in Targets : v # None
      BY DEF Targets
    <3> QED BY <1>1, <2>2, <3>1 DEF SetDraftTargets, TemplatesOK, NaturesKept, Template
  <2>3. CASE StartNewDraft(t)
    BY <1>1, <2>3 DEF StartNewDraft, TemplatesOK, NaturesKept, Template
  <2>4. CASE DiscardDraft(t)
    BY <1>1, <2>4 DEF DiscardDraft, Discardable, TemplatesOK, NaturesKept, Template
  <2>5. CASE ArchiveTemplate(t) \/ RestoreTemplate(t)
    BY <1>1, <2>5 DEF ArchiveTemplate, RestoreTemplate, TemplatesOK, NaturesKept, Template
  <2> QED BY <2>1, <2>2, <2>3, <2>4, <2>5
<1>3. UnchangedByTemplates /\ publishing' = publishing /\ changes' \in 0..MaxChanges
  BY DEF CreateTemplate, SetDraftTargets, StartNewDraft, DiscardDraft, ArchiveTemplate,
         RestoreTemplate, Change, Safe, TypeOK
<1>4. PublishingOK'
  BY <1>3 DEF Safe, PublishingOK, UnchangedByTemplates
<1> QED BY <1>2, <1>3, <1>4, TemplateSafe DEF Safe, TypeOK

\* What a publication of a shift or of a template does to the work.
LEMMA SyncNotes ==
  ASSUME Safe, NotesOK, NEW S \in SUBSET Shifts, NEW rows \in [Shifts -> ShiftCopy],
         NEW tmpls, NEW runs \in [Works -> Run], Sync(S, rows, tmpls, runs),
         \A w \in Works : runs[w].status # "none" => run[w].status # "none",
         UNCHANGED handoff, TemplatesOK(template'), NaturesKept
  PROVE  NotesOK'
<1>1. \A w \in Works :
        item'[w] = item[w] \/ Fresh(w, item'[w]) \/ Moved(w, item'[w])
  BY Synced DEF Safe
<1>2. ASSUME NEW w \in Works, item'[w].handoff # None
      PROVE  Is(w, "handoff")' /\ handoff'[item'[w].handoff].status # "none"
  <2>1. item'[w].handoff = item[w].handoff
    BY <1>1, <1>2 DEF Fresh, Moved
  <2>2. /\ Is(w, "handoff") /\ handoff[item[w].handoff].status # "none"
        /\ w[2] \in Templates
    BY <1>2, <2>1 DEF NotesOK, Works
  <2>3. template[w[2]].status # "none"
    BY <2>2 DEF NotesOK, Is
  <2> QED BY <2>1, <2>2, <2>3 DEF NaturesKept, Is
<1> QED BY <1>2 DEF NotesOK, TemplatesOK

LEMMA PublishShiftSafe ==
  ASSUME Safe, NotesOK, NEW s \in Shifts, PublishShift(s)
  PROVE  Safe' /\ NotesOK'
<1>1. PICK rows \in [Shifts -> ShiftCopy] : rows = shift'
  BY DEF PublishShift, Safe, TypeOK, ShiftCopy
<1>11. PICK tmpls : tmpls = template
  OBVIOUS
<1>2. PICK runs \in [Works -> Run] : runs = run
  BY DEF Safe, TypeOK
<1>13. PICK S \in SUBSET Shifts : S = {s}
  OBVIOUS
<1>3. Sync(S, rows, tmpls, runs)
  BY <1>13, <1>1, <1>11, <1>2 DEF PublishShift
<1>4. \A w \in Works : runs[w].status # "none" => run[w].status # "none"
  BY <1>2
<1>5. UNCHANGED <<isolation, now, template, handoff, told, screen, publishing, reminding>>
  BY DEF PublishShift
<1>6. /\ run' \in [Works -> Run] /\ item' \in [Works -> Item] /\ ItemsOK' /\ ScreensOK'
      /\ \A w \in Works : run[w].status # "none" => run'[w].status # "none"
  BY <1>3, <1>4, <1>5, SyncSafe
<1>7. TypeOK'
  BY <1>1, <1>5, <1>6 DEF PublishShift, Change, Safe, TypeOK
<1>8. PublishingOK'
  BY <1>5, <1>6 DEF Safe, PublishingOK
<1>9. TemplatesOK(template') /\ NaturesKept
  BY <1>5 DEF Safe, TypeOK, NotesOK, TemplatesOK, NaturesKept
<1>10. NotesOK'
  BY <1>3, <1>4, <1>5, <1>9, SyncNotes
<1> QED BY <1>6, <1>7, <1>8, <1>10 DEF Safe

LEMMA PublishDraftSafe ==
  ASSUME Safe, NotesOK, NEW t \in Templates, PublishDraft(t)
  PROVE  Safe' /\ NotesOK' /\ NaturesKept
<1>1. PICK v \in Targets : v = template[t].draft /\ v # None
  BY DEF PublishDraft, IsDraft, Safe, TypeOK, Template
<1>2. template' = Versioned(t, v)
  BY <1>1 DEF PublishDraft, Published, Versioned
<1>3. /\ TemplatesOK(template')
      /\ \A u \in Templates : template'[u].nature = template[u].nature
  BY <1>1, <1>2, VersionPublished DEF Safe
<1>4. NaturesKept
  BY <1>3 DEF NaturesKept
<1>5. PICK rows \in [Shifts -> ShiftCopy] : rows = shift
  BY DEF Safe, TypeOK
<1>6. PICK runs \in [Works -> Run] : runs = run
  BY DEF Safe, TypeOK
<1>7. PICK tmpls : tmpls = template'
  OBVIOUS
<1>8. PICK S \in SUBSET Shifts : S = Upcoming(shift)
  BY DEF Upcoming
<1>9. Sync(S, rows, tmpls, runs)
  BY <1>5, <1>6, <1>7, <1>8 DEF PublishDraft
<1>10. \A w \in Works : runs[w].status # "none" => run[w].status # "none"
  BY <1>6
<1>11. UNCHANGED <<isolation, now, shift, handoff, told, screen, publishing, reminding>>
  BY DEF PublishDraft
<1>12. /\ run' \in [Works -> Run] /\ item' \in [Works -> Item] /\ ItemsOK' /\ ScreensOK'
       /\ \A w \in Works : run[w].status # "none" => run'[w].status # "none"
  BY <1>9, <1>10, <1>11, SyncSafe
<1>13. TypeOK'
  BY <1>3, <1>11, <1>12 DEF PublishDraft, Change, Safe, TypeOK, TemplatesOK
<1>14. PublishingOK'
  BY <1>11, <1>12 DEF Safe, PublishingOK
<1>15. NotesOK'
  BY <1>3, <1>4, <1>9, <1>10, <1>11, SyncNotes
<1> QED BY <1>4, <1>12, <1>13, <1>14, <1>15 DEF Safe

LEMMA EndPublishDraftSafe ==
  ASSUME Safe, NotesOK, EndPublishDraft
  PROVE  Safe' /\ NotesOK' /\ NaturesKept
<1>1. PICK t \in Templates : t = publishing.of
  BY DEF EndPublishDraft, Safe, TypeOK
<1>2. PICK v \in Targets : v = publishing.templates[t].published /\ v # None
  BY <1>1 DEF EndPublishDraft, Safe, TypeOK, PublishingOK, Template
<1>3. template' = Versioned(t, v)
  BY <1>1, <1>2 DEF EndPublishDraft, Versioned
<1>4. /\ TemplatesOK(template')
      /\ \A u \in Templates : template'[u].nature = template[u].nature
  BY <1>2, <1>3, VersionPublished DEF Safe
<1>5. NaturesKept
  BY <1>4 DEF NaturesKept
<1>6. PICK rows \in [Shifts -> ShiftCopy] : rows = publishing.shifts
  BY DEF EndPublishDraft, Safe, TypeOK
<1>7. PICK runs \in [Works -> Run] : runs = publishing.runs
  BY DEF EndPublishDraft, Safe, TypeOK
<1>8. PICK tmpls : tmpls = publishing.templates
  OBVIOUS
<1>9. PICK S \in SUBSET Shifts : S = Upcoming(publishing.shifts)
  BY DEF Upcoming
<1>10. Sync(S, rows, tmpls, runs)
  BY <1>6, <1>7, <1>8, <1>9 DEF EndPublishDraft
<1>11. \A w \in Works : runs[w].status # "none" => run[w].status # "none"
  BY <1>7 DEF EndPublishDraft, Safe, PublishingOK
<1>12. UNCHANGED <<isolation, now, shift, handoff, told, screen, reminding>>
  BY DEF EndPublishDraft
<1>13. /\ run' \in [Works -> Run] /\ item' \in [Works -> Item] /\ ItemsOK' /\ ScreensOK'
       /\ \A w \in Works : run[w].status # "none" => run'[w].status # "none"
  BY <1>10, <1>11, <1>12, SyncSafe
<1>14. publishing' = None
  BY DEF EndPublishDraft
<1>15. TypeOK'
  BY <1>4, <1>12, <1>13, <1>14 DEF EndPublishDraft, Change, Safe, TypeOK, TemplatesOK
<1>16. PublishingOK'
  BY <1>14 DEF PublishingOK
<1>17. NotesOK'
  BY <1>4, <1>5, <1>10, <1>11, <1>12, SyncNotes
<1> QED BY <1>5, <1>13, <1>15, <1>16, <1>17 DEF Safe

LEMMA BeginPublishDraftSafe ==
  ASSUME Safe, NotesOK, NEW t \in Templates, BeginPublishDraft(t)
  PROVE  Safe' /\ NotesOK'
<1>1. PICK v \in Targets : v = template[t].draft /\ v # None
  BY DEF BeginPublishDraft, IsDraft, Safe, TypeOK, Template
<1>2. TemplatesOK(Versioned(t, v)) /\ Versioned(t, v)[t].published = v
  BY <1>1, VersionPublished DEF Safe
<1>3. publishing' = [of |-> t, shifts |-> shift, templates |-> Versioned(t, v), runs |-> run]
  BY <1>1 DEF BeginPublishDraft, Published, Versioned
<1>4. PICK new : new = Versioned(t, v)
  OBVIOUS
<1>5. /\ publishing'.of = t /\ publishing'.shifts = shift /\ publishing'.templates = new
      /\ publishing'.runs = run
  BY <1>3, <1>4
<1>6. UnchangedByTemplates /\ template' = template /\ changes' = changes
  BY DEF BeginPublishDraft
<1>7. PublishingOK'
  BY <1>1, <1>2, <1>4, <1>5, <1>6 DEF PublishingOK, UnchangedByTemplates
<1>8. TemplatesOK(template') /\ NaturesKept
  BY <1>6 DEF Safe, TypeOK, NotesOK, TemplatesOK, NaturesKept
<1>9. /\ publishing'.of \in Templates /\ publishing'.shifts \in [Shifts -> ShiftCopy]
      /\ publishing'.templates \in [Templates -> Template] /\ publishing'.runs \in [Works -> Run]
  BY <1>2, <1>4, <1>5 DEF Safe, TypeOK, TemplatesOK
<1>10. changes' \in 0..MaxChanges
  BY <1>6 DEF Safe, TypeOK
<1> QED BY <1>6, <1>7, <1>8, <1>9, <1>10, TemplateSafe

LEMMA LookSafe ==
  ASSUME Safe, NotesOK, NEW p \in People, Look(p)
  PROVE  Safe' /\ NotesOK'
<1>1. PICK w \in Works : run[w].status # "none" /\ screen' = [screen EXCEPT ![p] = Page(w)]
  BY DEF Look
<1>2. PICK page \in [work : Works, item : Item, wanted : BOOLEAN, live : BOOLEAN] :
        page = Page(w) /\ page.work = w /\ page.item = item[w]
  <2>1. item[w] \in Item /\ Wanted(w) \in BOOLEAN /\ Live(w) \in BOOLEAN
    BY DEF Safe, TypeOK, Wanted, Live
  <2>2. [work |-> w, item |-> item[w], wanted |-> Wanted(w), live |-> Live(w)]
          \in [work : Works, item : Item, wanted : BOOLEAN, live : BOOLEAN]
    BY <2>1
  <2> QED BY <2>2 DEF Page
<1>3. /\ screen' = [screen EXCEPT ![p] = page] /\ page.work = w /\ page.item = item[w]
      /\ screen \in [People -> [work : Works, item : Item, wanted : BOOLEAN, live : BOOLEAN] \union {None}]
  BY <1>1, <1>2 DEF Safe, TypeOK
<1>4. /\ screen' \in [People -> [work : Works, item : Item, wanted : BOOLEAN, live : BOOLEAN] \union {None}]
      /\ screen'[p] = page /\ \A q \in People : q # p => screen'[q] = screen[q]
  BY <1>3
<1>5. UNCHANGED <<isolation, now, shift, template, run, item, handoff, told, publishing,
                  reminding, changes>>
  BY DEF Look
<1>6. TypeOK'
  BY <1>4, <1>5 DEF Safe, TypeOK
<1>7. ScreensOK'
  <2> SUFFICES ASSUME NEW q \in People, screen'[q] # None
               PROVE  Shows(q, screen[q].work)'
    BY DEF ScreensOK
  <2>1. CASE q = p
    <3>1. item[w] \in Item
      BY DEF Safe, TypeOK
    <3>2. item[w].revision <= item[w].revision
      BY <3>1 DEF Item
    <3> QED BY <1>1, <1>3, <1>4, <1>5, <2>1, <3>2 DEF Shows
  <2>2. CASE q # p
    <3>1. screen'[q] = screen[q]
      BY <1>4, <2>2
    <3> QED BY <1>5, <3>1 DEF Safe, ScreensOK, Shows
  <2> QED BY <2>1, <2>2
<1>8. PublishingOK' /\ ItemsOK' /\ NotesOK'
  BY <1>5 DEF Safe, PublishingOK, ItemsOK, NotesOK, Is
<1> QED BY <1>6, <1>7, <1>8 DEF Safe

\* A handoff that is there stays there.
HandoffsKept ==
  \A g \in Handoffs : handoff[g].status # "none" =>
    /\ handoff'[g].status # "none" /\ handoff'[g].author = handoff[g].author
    /\ handoff'[g].of = handoff[g].of

LEMMA HandoffSafe ==
  ASSUME Safe, NotesOK,
         \/ \E p \in People : CreateHandoff(p)
         \/ \E m \in Managers, h \in Handoffs : ResolveHandoff(m, h) \/ ReopenHandoff(m, h)
  PROVE  Safe' /\ NotesOK' /\ HandoffsKept
<1>0. handoff \in [Handoffs -> Handoff]
  BY DEF Safe, TypeOK
<1>1. handoff' \in [Handoffs -> Handoff] /\ HandoffsKept
  <2>1. ASSUME NEW p \in People, CreateHandoff(p)
        PROVE  handoff' \in [Handoffs -> Handoff] /\ HandoffsKept
    BY <1>0, <2>1 DEF CreateHandoff, Handoff, HandoffsKept
  <2>2. ASSUME NEW m \in Managers, NEW h \in Handoffs, NEW s \in {"open", "resolved"},
               NEW by \in Managers \union {None}, handoff[h].status # "none",
               handoff' = [handoff EXCEPT ![h] = [@ EXCEPT !.status = s, !.resolvedBy = by]]
        PROVE  handoff' \in [Handoffs -> Handoff] /\ HandoffsKept
    <3>1. PICK old \in Handoff : old = handoff[h]
      BY <1>0
    <3>2. PICK A, W, M : /\ A = People \union {None} /\ W = Works \union {None}
                         /\ M = Managers \union {None}
      OBVIOUS
    <3>3. Handoff = [status : {"none", "open", "resolved"}, author : A, of : W, resolvedBy : M]
      BY <3>2 DEF Handoff
    <3>4. PICK row : row = [old EXCEPT !.status = s, !.resolvedBy = by]
      OBVIOUS
    <3>5. row \in Handoff /\ row.status = s /\ row.author = old.author /\ row.of = old.of
      BY <3>2, <3>3, <3>4
    <3>6. handoff' = [handoff EXCEPT ![h] = row]
      BY <2>2, <3>1, <3>4
    <3> QED BY <1>0, <2>2, <3>1, <3>5, <3>6 DEF HandoffsKept
  <2>3. ASSUME NEW m \in Managers, NEW h \in Handoffs, ResolveHandoff(m, h) \/ ReopenHandoff(m, h)
        PROVE  handoff' \in [Handoffs -> Handoff] /\ HandoffsKept
    <3>1. CASE ResolveHandoff(m, h)
      BY <2>2, <3>1 DEF ResolveHandoff
    <3>2. CASE ReopenHandoff(m, h)
      BY <2>2, <3>2 DEF ReopenHandoff
    <3> QED BY <2>3, <3>1, <3>2
  <2> QED BY <2>1, <2>3
<1>2. UnchangedByHandoffs
  BY DEF CreateHandoff, ResolveHandoff, ReopenHandoff
<1>3. TypeOK'
  BY <1>1, <1>2 DEF Safe, TypeOK, UnchangedByHandoffs
<1>4. PublishingOK' /\ ItemsOK'
  BY <1>2 DEF Safe, PublishingOK, ItemsOK, UnchangedByHandoffs
<1>5. ScreensOK'
  BY <1>2 DEF Safe, ScreensOK, Shows, UnchangedByHandoffs
<1>6. NotesOK'
  BY <1>1, <1>2 DEF Safe, TypeOK, Item, NotesOK, Is, HandoffsKept, UnchangedByHandoffs
<1> QED BY <1>1, <1>3, <1>4, <1>5, <1>6 DEF Safe

\* Reminding changes only who has been told, and of which runs.
RunsReminded ==
  \A w \in Works : run'[w] = run[w] \/ run'[w] = [run[w] EXCEPT !.reminded = TRUE]

LEMMA RemindSafe ==
  ASSUME Safe, NotesOK, NEW due, due \subseteq [work : Works, to : People, start : Hours],
         Remind(due),
         reminding' # None => reminding' \subseteq [work : Works, to : People, start : Hours]
  PROVE  Safe' /\ NotesOK' /\ RunsReminded
<1>1. /\ run' \in [Works -> Run]
      /\ \A w \in Works : run'[w].status = run[w].status
      /\ RunsReminded
  <2>1. run \in [Works -> Run]
    BY DEF Safe, TypeOK
  <2>2. ASSUME NEW w \in Works
        PROVE  LET new == [run[w] EXCEPT !.reminded = TRUE] IN
               new \in Run /\ new.status = run[w].status
    <3>1. PICK old \in Run : old = run[w]
      BY <2>1
    <3>2. [old EXCEPT !.reminded = TRUE] \in Run
      BY DEF Run
    <3>3. [old EXCEPT !.reminded = TRUE].status = old.status
      BY DEF Run
    <3> QED BY <3>1, <3>2, <3>3
  <2> QED BY <2>1, <2>2 DEF Remind, RunsReminded
<1>2. told' \subseteq [who : People, shift : Shifts, start : Hours]
  BY DEF Remind, Safe, TypeOK, Works
<1>3. UNCHANGED <<isolation, now, shift, template, item, handoff, screen, publishing, changes>>
  BY DEF Remind
<1>4. TypeOK'
  BY <1>1, <1>2, <1>3 DEF Safe, TypeOK
<1>5. PublishingOK' /\ ItemsOK' /\ NotesOK'
  BY <1>1, <1>3 DEF Safe, PublishingOK, ItemsOK, NotesOK, Is
<1>6. ScreensOK'
  BY <1>1, <1>3 DEF Safe, TypeOK, ScreensOK, Shows
<1> QED BY <1>1, <1>4, <1>5, <1>6 DEF Safe

LEMMA DueTyped ==
  ASSUME TypeOK
  PROVE  DueReminders \subseteq [work : Works, to : People, start : Hours]
<1>1. ASSUME NEW w \in Works, run[w].who # None
      PROVE  run[w].who \in People /\ shift[w[1]].start \in Hours
  BY <1>1 DEF TypeOK, Run, Works, ShiftCopy
<1> QED BY <1>1 DEF DueReminders

\* Steps that leave all but time, and what the reminders have read, as it was.
LEMMA IdleSafe ==
  ASSUME Safe, NotesOK, now' \in 0..LastHour,
         UNCHANGED <<isolation, shift, template, run, item, handoff, told, screen, publishing,
                     changes>>,
         reminding' # None => reminding' \subseteq [work : Works, to : People, start : Hours]
  PROVE  Safe' /\ NotesOK'
<1>1. TypeOK'
  BY DEF Safe, TypeOK
<1>2. PublishingOK' /\ ItemsOK' /\ NotesOK'
  BY DEF Safe, PublishingOK, ItemsOK, NotesOK, Is
<1>3. ScreensOK'
  BY DEF Safe, ScreensOK, Shows
<1> QED BY <1>1, <1>2, <1>3 DEF Safe

-----------------------------------------------------------------------------
(* Types *)

IInv == Safe /\ NotesOK /\ VerifierIsAnother

LEMMA InitSafe ==
  ASSUME Init
  PROVE  IInv
<1>1. TypeOK
  <2>1. 1 \in Hours
    BY DEF Hours
  <2>2. NoRun \in Run /\ NoHandoff \in Handoff
    BY DEF NoRun, Run, NoHandoff, Handoff
  <2> QED BY <2>1, <2>2, BlankItem DEF Init, TypeOK, ShiftCopy, Template
<1>2. PublishingOK /\ ScreensOK
  BY DEF Init, PublishingOK, ScreensOK
<1>3. ItemsOK /\ NotesOK /\ VerifierIsAnother
  BY BlankItem DEF Init, ItemsOK, NotesOK, VerifierIsAnother
<1> QED BY <1>1, <1>2, <1>3 DEF Safe, IInv

\* The steps that reconcile, and what they reconcile by.
LEMMA Reconciles ==
  ASSUME Safe,
         \/ \E s \in Shifts : PublishShift(s)
         \/ \E t \in Templates : PublishDraft(t)
         \/ EndPublishDraft
  PROVE  \E S \in SUBSET Shifts, rows \in [Shifts -> ShiftCopy], runs \in [Works -> Run] :
           /\ \E tmpls : Sync(S, rows, tmpls, runs)
           /\ \A w \in Works : runs[w].status # "none" => run[w].status # "none"
<1>1. ASSUME NEW s \in Shifts, PublishShift(s)
      PROVE  \E S \in SUBSET Shifts, rows \in [Shifts -> ShiftCopy], runs \in [Works -> Run] :
               /\ \E tmpls : Sync(S, rows, tmpls, runs)
               /\ \A w \in Works : runs[w].status # "none" => run[w].status # "none"
  <2>1. PICK rows \in [Shifts -> ShiftCopy] : rows = shift'
    BY <1>1 DEF PublishShift, Safe, TypeOK, ShiftCopy
  <2>2. PICK runs \in [Works -> Run] : runs = run
    BY DEF Safe, TypeOK
  <2>3. PICK S \in SUBSET Shifts : S = {s}
    OBVIOUS
  <2>4. \E tmpls : Sync(S, rows, tmpls, runs)
    BY <1>1, <2>1, <2>2, <2>3 DEF PublishShift
  <2> QED BY <2>2, <2>4
<1>2. ASSUME NEW t \in Templates, PublishDraft(t)
      PROVE  \E S \in SUBSET Shifts, rows \in [Shifts -> ShiftCopy], runs \in [Works -> Run] :
               /\ \E tmpls : Sync(S, rows, tmpls, runs)
               /\ \A w \in Works : runs[w].status # "none" => run[w].status # "none"
  <2>1. PICK rows \in [Shifts -> ShiftCopy] : rows = shift
    BY DEF Safe, TypeOK
  <2>2. PICK runs \in [Works -> Run] : runs = run
    BY DEF Safe, TypeOK
  <2>3. PICK S \in SUBSET Shifts : S = Upcoming(shift)
    BY DEF Upcoming
  <2>4. \E tmpls : Sync(S, rows, tmpls, runs)
    BY <1>2, <2>1, <2>2, <2>3 DEF PublishDraft
  <2> QED BY <2>2, <2>4
<1>3. ASSUME EndPublishDraft
      PROVE  \E S \in SUBSET Shifts, rows \in [Shifts -> ShiftCopy], runs \in [Works -> Run] :
               /\ \E tmpls : Sync(S, rows, tmpls, runs)
               /\ \A w \in Works : runs[w].status # "none" => run[w].status # "none"
  <2>1. PICK rows \in [Shifts -> ShiftCopy] : rows = publishing.shifts
    BY <1>3 DEF EndPublishDraft, Safe, TypeOK
  <2>2. PICK runs \in [Works -> Run] : runs = publishing.runs
    BY <1>3 DEF EndPublishDraft, Safe, TypeOK
  <2>3. PICK S \in SUBSET Shifts : S = Upcoming(publishing.shifts)
    BY DEF Upcoming
  <2>4. \E tmpls : Sync(S, rows, tmpls, runs)
    BY <1>3, <2>1, <2>2, <2>3 DEF EndPublishDraft
  <2>5. \A w \in Works : runs[w].status # "none" => run[w].status # "none"
    BY <1>3, <2>2 DEF EndPublishDraft, Safe, PublishingOK
  <2> QED BY <2>4, <2>5
<1> QED BY <1>1, <1>2, <1>3

\* The steps by what they may change.
Reconciling ==
  (\E s \in Shifts : PublishShift(s)) \/ (\E t \in Templates : PublishDraft(t)) \/ EndPublishDraft

Editing(t) ==
  \/ CreateTemplate(t) \/ SetDraftTargets(t) \/ StartNewDraft(t) \/ DiscardDraft(t)
  \/ ArchiveTemplate(t) \/ RestoreTemplate(t)

Idle == (\E t \in Templates : Editing(t) \/ BeginPublishDraft(t)) \/ (\E p \in People : Look(p))
          \/ ReadReminders \/ HourPasses \/ UNCHANGED vars

Noting == (\E p \in People : CreateHandoff(p))
            \/ (\E m \in Managers, h \in Handoffs : ResolveHandoff(m, h) \/ ReopenHandoff(m, h))

Reminding == ProcessOperationsReminders \/ ClaimReminders

LEMMA StepKinds ==
  ASSUME [Next]_vars
  PROVE  Reconciling \/ Idle \/ Noting \/ Reminding \/ \E p \in People, w \in Works : WorkStep(p, w)
<1>1. CASE Next
  BY <1>1 DEF Next, Reconciling, Idle, Editing, Noting, Reminding
<1>2. CASE UNCHANGED vars
  BY <1>2 DEF Idle
<1> QED BY <1>1, <1>2

\* A page that is opened, a template that is edited: no task, run, note or reminder changes.
LEMMA IdleKeeps ==
  ASSUME Idle
  PROVE  UNCHANGED <<isolation, shift, run, item, handoff, told>>
BY DEF Idle, Editing, CreateTemplate, SetDraftTargets, StartNewDraft, DiscardDraft, ArchiveTemplate,
       RestoreTemplate, BeginPublishDraft, UnchangedByTemplates, Look, ReadReminders, HourPasses,
       vars

LEMMA StepReconciled ==
  ASSUME Safe, Reconciling
  PROVE  \A w \in Works : item'[w] = item[w] \/ Fresh(w, item'[w]) \/ Moved(w, item'[w])
<1>1. PICK S \in SUBSET Shifts, rows \in [Shifts -> ShiftCopy], runs \in [Works -> Run] :
        /\ \E tmpls : Sync(S, rows, tmpls, runs)
        /\ \A w \in Works : runs[w].status # "none" => run[w].status # "none"
  BY Reconciles DEF Reconciling
<1>2. PICK tmpls : Sync(S, rows, tmpls, runs)
  BY <1>1
<1> QED BY <1>1, <1>2, Synced DEF Safe

LEMMA NextSafe ==
  ASSUME IInv, [Next]_vars
  PROVE  IInv'
<1> USE DEF IInv
<1>1. CASE Reconciling
  <2>1. Safe' /\ NotesOK'
    BY <1>1, PublishShiftSafe, PublishDraftSafe, EndPublishDraftSafe DEF Reconciling
  <2>2. VerifierIsAnother'
    BY <1>1, StepReconciled DEF VerifierIsAnother, Fresh, Moved
  <2> QED BY <2>1, <2>2
<1>2. CASE Idle
  <2>1. VerifierIsAnother'
    BY <1>2, IdleKeeps DEF VerifierIsAnother
  <2>2. Safe' /\ NotesOK'
    <3>1. CASE \E t \in Templates : Editing(t)
      BY <3>1, SmallTemplateStep DEF Editing
    <3>2. CASE \E t \in Templates : BeginPublishDraft(t)
      BY <3>2, BeginPublishDraftSafe
    <3>3. CASE \E p \in People : Look(p)
      BY <3>3, LookSafe
    <3>4. CASE ReadReminders
      <4>1. reminding' = DueReminders /\ now' = now
            /\ UNCHANGED <<isolation, shift, template, run, item, handoff, told, screen,
                           publishing, changes>>
        BY <3>4 DEF ReadReminders
      <4>2. now' \in 0..LastHour /\ reminding' \subseteq [work : Works, to : People, start : Hours]
        BY <4>1, DueTyped DEF Safe, TypeOK
      <4> QED BY <4>1, <4>2, IdleSafe
    <3>5. CASE HourPasses \/ UNCHANGED vars
      <4>1. /\ now' \in 0..LastHour /\ reminding' = reminding
            /\ UNCHANGED <<isolation, shift, template, run, item, handoff, told, screen,
                           publishing, changes>>
        BY <3>5 DEF HourPasses, vars, Safe, TypeOK
      <4>2. reminding # None => reminding \subseteq [work : Works, to : People, start : Hours]
        BY DEF Safe, TypeOK
      <4> QED BY <4>1, <4>2, IdleSafe
    <3> QED BY <1>2, <3>1, <3>2, <3>3, <3>4, <3>5 DEF Idle
  <2> QED BY <2>1, <2>2
<1>3. CASE Noting
  <2>1. Safe' /\ NotesOK'
    BY <1>3, HandoffSafe DEF Noting
  <2>2. item' = item
    BY <1>3 DEF Noting, CreateHandoff, ResolveHandoff, ReopenHandoff, UnchangedByHandoffs
  <2> QED BY <2>1, <2>2 DEF VerifierIsAnother
<1>4. CASE Reminding
  <2>1. PICK due : Remind(due) /\ due \subseteq [work : Works, to : People, start : Hours]
    BY <1>4, DueTyped DEF Reminding, ProcessOperationsReminders, ClaimReminders, Safe, TypeOK
  <2>2. reminding' # None => reminding' \subseteq [work : Works, to : People, start : Hours]
    BY <1>4 DEF Reminding, ProcessOperationsReminders, ClaimReminders, Safe, TypeOK
  <2>3. Safe' /\ NotesOK'
    BY <2>1, <2>2, RemindSafe
  <2>4. item' = item
    BY <2>1 DEF Remind
  <2> QED BY <2>3, <2>4 DEF VerifierIsAnother
<1>5. CASE \E p \in People, w \in Works : WorkStep(p, w)
  BY <1>5, WorkStepWorked DEF Worked
<1> QED BY <1>1, <1>2, <1>3, <1>4, <1>5, StepKinds

LEMMA Inductive == Spec => []IInv
<1>1. Init => IInv
  BY InitSafe
<1>2. IInv /\ [Next]_vars => IInv'
  BY NextSafe
<1> QED BY <1>1, <1>2, PTL DEF Spec

\* The types of the variables, for any shifts, templates, people and bounds; a template always
\* has a version.
THEOREM TypeCorrect == Spec => []TypeOK
BY Inductive, PTL DEF IInv, Safe

\* However transactions overlap, nobody ever verified a task they did themselves: the revision
\* transition demands makes the check of verifyTask hold when the row is written.
THEOREM AnotherVerifies == Spec => []VerifierIsAnother
BY Inductive, PTL DEF IInv

-----------------------------------------------------------------------------
(* Who did a task, and that finished work is kept *)

\* However transactions overlap, a task is put down as done by somebody only if it was theirs,
\* or shared, when the row was written.
THEOREM DoneByItsHolder == Spec => DoneByWhoseItIs
<1>1. ASSUME IInv, [Next]_vars, NEW w \in Works, NEW p \in People, item'[w].by = p, item[w].by # p
      PROVE  item[w].who = p \/ Is(w, "shared")
  <2>1. p # None
    OBVIOUS
  <2>2. CASE Reconciling
    BY <1>1, <2>1, <2>2, StepReconciled DEF IInv, Fresh, Moved
  <2>3. CASE Idle
    BY <1>1, <2>3, IdleKeeps
  <2>4. CASE Noting \/ Reminding
    BY <1>1, <2>4 DEF Noting, CreateHandoff, ResolveHandoff, ReopenHandoff, UnchangedByHandoffs,
         Reminding, ProcessOperationsReminders, ClaimReminders, Remind
  <2>5. ASSUME NEW q \in People, NEW v \in Works, WorkStep(q, v)
        PROVE  item[w].who = p \/ Is(w, "shared")
    <3>1. Worked(q, v)
      BY <1>1, <2>5, WorkStepWorked DEF IInv
    <3> QED BY <1>1, <2>1, <3>1 DEF Worked
  <2> QED BY <1>1, <2>2, <2>3, <2>4, <2>5, StepKinds
<1>2. IInv /\ [Next]_vars =>
        [\A w \in Works, p \in People :
           item'[w].by = p /\ item[w].by # p => item[w].who = p \/ Is(w, "shared")]_vars
  BY <1>1
<1> QED BY <1>2, Inductive, PTL DEF Spec, DoneByWhoseItIs

\* However transactions overlap, neither a publication of a shift nor anything done to a template
\* touches work that is finished.
THEOREM FinishedIsKept == Spec => FinishedWorkIsKept
<1>1. ASSUME IInv, [Next]_vars, NEW w \in Works, item[w].status \in Finished,
             shift' # shift \/ template' # template
      PROVE  item'[w] = item[w]
  <2>1. CASE Reconciling
    <3>1. item[w].status \notin OpenStatuses
      BY <1>1 DEF Finished, OpenStatuses
    <3>2. run[w].status # "none"
      BY <1>1, BlankItem DEF IInv, Safe, ItemsOK, Finished
    <3> QED BY <1>1, <2>1, <3>1, <3>2, StepReconciled DEF IInv, Fresh, Moved
  <2>2. CASE Idle
    BY <2>2, IdleKeeps
  <2>3. CASE Noting \/ Reminding
    BY <2>3 DEF Noting, CreateHandoff, ResolveHandoff, ReopenHandoff, UnchangedByHandoffs,
         Reminding, ProcessOperationsReminders, ClaimReminders, Remind
  <2>4. ASSUME NEW q \in People, NEW v \in Works, WorkStep(q, v)
        PROVE  shift' = shift /\ template' = template
    BY <2>4 DEF WorkStep, CompleteTask, CompleteHandoffTask, SkipTask, BlockTask, UnblockTask,
         UndoTask, VerifyTask, ReturnTask, ReopenTask, ReassignTask, UnchangedByWork
  <2> QED BY <1>1, <2>1, <2>2, <2>3, <2>4, StepKinds
<1>2. IInv /\ [Next]_vars =>
        [\A w \in Works : item[w].status \in Finished /\ (shift' # shift \/ template' # template)
           => item'[w] = item[w]]_vars
  BY <1>1
<1> QED BY <1>2, Inductive, PTL DEF Spec, FinishedWorkIsKept

-----------------------------------------------------------------------------
(* The note of a handoff task *)

LEMMA NoteStep ==
  ASSUME IInv, NoteByWhoDidIt, [Next]_vars
  PROVE  NoteByWhoDidIt'
<1>1. CASE Reconciling
  <2>1. handoff' = handoff
    BY <1>1 DEF Reconciling, PublishShift, PublishDraft, EndPublishDraft
  <2>2. ASSUME NEW w \in Works, item'[w].status \in {"awaiting", "done"}, item'[w].handoff # None
        PROVE  item'[w] = item[w]
    BY <1>1, <2>2, StepReconciled DEF IInv, Fresh, Moved, OpenStatuses
  <2> QED BY <2>1, <2>2 DEF NoteByWhoDidIt
<1>2. CASE Idle \/ Reminding
  <2>1. item' = item /\ handoff' = handoff
    BY <1>2, IdleKeeps DEF Reminding, ProcessOperationsReminders, ClaimReminders, Remind
  <2> QED BY <2>1 DEF NoteByWhoDidIt
<1>3. CASE Noting
  <2>1. item' = item
    BY <1>3 DEF Noting, CreateHandoff, ResolveHandoff, ReopenHandoff, UnchangedByHandoffs
  <2>2. HandoffsKept
    BY <1>3, HandoffSafe DEF IInv, Noting
  <2>3. \A w \in Works : item[w].handoff # None =>
          item[w].handoff \in Handoffs /\ handoff[item[w].handoff].status # "none"
    BY DEF IInv, Safe, TypeOK, Item, NotesOK
  <2> QED BY <2>1, <2>2, <2>3 DEF NoteByWhoDidIt, HandoffsKept
<1>4. CASE \E p \in People, w \in Works : WorkStep(p, w)
  BY <1>4, WorkStepWorked DEF IInv, Worked
<1> QED BY <1>1, <1>2, <1>3, <1>4, StepKinds

\* However transactions overlap, the note a finished handoff task points to is by whoever finished
\* it, and of that task.
THEOREM NoteIsTheirs == Spec => []NoteByWhoDidIt
<1>1. Init => NoteByWhoDidIt
  BY BlankItem DEF Init, NoteByWhoDidIt
<1>2. IInv /\ NoteByWhoDidIt /\ [Next]_vars => NoteByWhoDidIt'
  BY NoteStep
<1> QED BY <1>1, <1>2, Inductive, PTL DEF Spec

-----------------------------------------------------------------------------
(* One transaction at a time: the work follows the shift *)

\* What reconciliation by current reads makes of a run.
LEMMA SyncedNow ==
  ASSUME NEW w \in Works, run[w] \in Run, NEW row, NEW tmpl
  PROVE  LET new == SyncedRun(w, row, tmpl, run[w]) IN
         /\ new.status = "active" => row.status = "active" /\ new.who = row.who
         /\ new.reminded => run[w].reminded /\ new.who = run[w].who
<1> DEFINE new == SyncedRun(w, row, tmpl, run[w])
<1>0. PICK old \in Run : old = run[w]
  OBVIOUS
<1>1. CASE Cancelled(w, row, tmpl, run[w])
  <2>1. new = [old EXCEPT !.status = IF @ = "active" THEN "cancelled" ELSE @]
    BY <1>0, <1>1 DEF SyncedRun, Cancelled, Created, Kept
  <2> QED BY <1>0, <1>1, <2>1 DEF Run, Cancelled
<1>2. CASE Created(w, row, tmpl, run[w])
  <2>1. new = [status |-> "active", who |-> row.who, reminded |-> FALSE]
    BY <1>2 DEF SyncedRun, Cancelled, Created, Kept
  <2> QED BY <1>2, <2>1 DEF Created, Applies
<1>3. CASE Kept(w, row, tmpl, run[w])
  <2>1. new = [status   |-> IF run[w].status = "cancelled" THEN "active" ELSE run[w].status,
               who      |-> IF Compared(w, run[w]).who # row.who THEN row.who ELSE run[w].who,
               reminded |-> Reminded(w, row, run[w])]
    BY <1>3 DEF SyncedRun, Cancelled, Created, Kept
  <2>2. Compared(w, run[w]) = run[w]
    BY DEF Compared
  <2>3. new.who = row.who /\ row.status = "active"
    BY <1>3, <2>1, <2>2 DEF Kept, Applies
  <2>4. Reminded(w, row, run[w]) => run[w].reminded /\ run[w].who = row.who
    BY <2>2 DEF Reminded
  <2> QED BY <2>1, <2>3, <2>4
<1>4. CASE /\ ~Cancelled(w, row, tmpl, run[w]) /\ ~Created(w, row, tmpl, run[w])
           /\ ~Kept(w, row, tmpl, run[w])
  <2>1. new = run[w]
    BY <1>4 DEF SyncedRun
  <2>2. run[w].status # "active"
    BY <1>4 DEF Cancelled, Kept
  <2> QED BY <2>1, <2>2
<1> QED BY <1>1, <1>2, <1>3, <1>4

LEMMA SyncNow ==
  ASSUME Safe, NEW S, NEW rows, NEW tmpls, Sync(S, rows, tmpls, run), NEW w \in Works
  PROVE  /\ w[1] \in S /\ run'[w].status = "active" =>
              rows[w[1]].status = "active" /\ run'[w].who = rows[w[1]].who
         /\ w[1] \notin S => run'[w] = run[w]
         /\ run'[w].reminded => run[w].reminded /\ run'[w].who = run[w].who
<1>1. CASE w[1] \notin S
  BY <1>1 DEF Sync
<1>2. CASE w[1] \in S
  <2>1. PICK row, tmpl : row = rows[w[1]] /\ tmpl = tmpls[w[2]]
    OBVIOUS
  <2>2. run'[w] = SyncedRun(w, row, tmpl, run[w])
    BY <1>2, <2>1 DEF Sync
  <2>3. run[w] \in Run
    BY DEF Safe, TypeOK
  <2> QED BY <1>2, <2>1, <2>2, <2>3, SyncedNow
<1> QED BY <1>1, <1>2

\* One at a time, nothing is read ahead of what is written; whoever has work that was reminded of,
\* in force or not, has been told of the shift.
NothingReadAhead == Serial => publishing = None /\ reminding = None

HolderTold ==
  Serial => \A w \in Works : run[w].reminded =>
    \E n \in told : n.who = run[w].who /\ n.shift = w[1]

Following == IInv /\ NothingReadAhead /\ RunFollowsShift /\ HolderTold

LEMMA StaysSerial ==
  ASSUME [Next]_vars
  PROVE  isolation' = isolation
<1>1. ASSUME NEW p \in People, NEW w \in Works, WorkStep(p, w) PROVE isolation' = isolation
  BY <1>1 DEF WorkStep, CompleteTask, CompleteHandoffTask, SkipTask, BlockTask, UnblockTask,
         UndoTask, VerifyTask, ReturnTask, ReopenTask, ReassignTask, UnchangedByWork
<1>2. CASE Reconciling
  BY <1>2 DEF Reconciling, PublishShift, PublishDraft, EndPublishDraft
<1>3. CASE Idle
  BY <1>3, IdleKeeps
<1>4. CASE Noting \/ Reminding
  BY <1>4 DEF Noting, CreateHandoff, ResolveHandoff, ReopenHandoff, UnchangedByHandoffs,
         Reminding, ProcessOperationsReminders, ClaimReminders, Remind
<1> QED BY <1>1, <1>2, <1>3, <1>4, StepKinds

LEMMA NothingReadAheadStep ==
  ASSUME NothingReadAhead, [Next]_vars, Serial
  PROVE  publishing' = None /\ reminding' = None
<1>0. publishing = None /\ reminding = None
  BY DEF NothingReadAhead
<1>1. ASSUME NEW p \in People, NEW w \in Works, WorkStep(p, w)
      PROVE  publishing' = None /\ reminding' = None
  BY <1>0, <1>1 DEF WorkStep, CompleteTask, CompleteHandoffTask, SkipTask, BlockTask, UnblockTask,
         UndoTask, VerifyTask, ReturnTask, ReopenTask, ReassignTask, UnchangedByWork
<1>2. CASE Reconciling
  BY <1>0, <1>2 DEF Reconciling, PublishShift, PublishDraft, EndPublishDraft
<1>3. CASE Idle
  BY <1>0, <1>3 DEF Idle, Editing, CreateTemplate, SetDraftTargets, StartNewDraft, DiscardDraft,
         ArchiveTemplate, RestoreTemplate, BeginPublishDraft, UnchangedByTemplates, Look,
         ReadReminders, HourPasses, vars
<1>4. CASE Noting \/ Reminding
  BY <1>0, <1>4 DEF Noting, CreateHandoff, ResolveHandoff, ReopenHandoff, UnchangedByHandoffs,
         Reminding, ProcessOperationsReminders, ClaimReminders, Remind
<1> QED BY <1>1, <1>2, <1>3, <1>4, StepKinds

\* What a step may do to a run, one at a time.
LEMMA RunStep ==
  ASSUME Following, [Next]_vars, Serial, NEW w \in Works
  PROVE  /\ run'[w].status = "active" =>
              shift'[w[1]].status = "active" /\ run'[w].who = shift'[w[1]].who
         /\ run'[w].reminded => \E n \in told' : n.who = run'[w].who /\ n.shift = w[1]
<1> USE DEF Following
<1>0. run[w] \in Run /\ w[1] \in Shifts
  BY DEF IInv, Safe, TypeOK, Works
<1>1. /\ run[w].status = "active" => shift[w[1]].status = "active" /\ run[w].who = shift[w[1]].who
      /\ run[w].reminded => \E n \in told : n.who = run[w].who /\ n.shift = w[1]
  BY DEF RunFollowsShift, HolderTold
<1>2. ASSUME run' = run, shift' = shift, told' = told
      PROVE  /\ run'[w].status = "active" =>
                  shift'[w[1]].status = "active" /\ run'[w].who = shift'[w[1]].who
             /\ run'[w].reminded => \E n \in told' : n.who = run'[w].who /\ n.shift = w[1]
  BY <1>1, <1>2
<1>3. ASSUME NEW s \in Shifts, PublishShift(s)
      PROVE  /\ run'[w].status = "active" =>
                  shift'[w[1]].status = "active" /\ run'[w].who = shift'[w[1]].who
             /\ run'[w].reminded => \E n \in told' : n.who = run'[w].who /\ n.shift = w[1]
  <2>1. PICK rows, tmpls, S : rows = shift' /\ tmpls = template /\ S = {s}
    OBVIOUS
  <2>2. Sync(S, rows, tmpls, run) /\ told' = told
    BY <1>3, <2>1 DEF PublishShift
  <2>3. w[1] # s => shift'[w[1]] = shift[w[1]]
    BY <1>0, <1>3 DEF PublishShift, IInv, Safe, TypeOK
  <2>4. /\ w[1] = s /\ run'[w].status = "active" =>
             shift'[w[1]].status = "active" /\ run'[w].who = shift'[w[1]].who
        /\ w[1] # s => run'[w] = run[w]
        /\ run'[w].reminded => run[w].reminded /\ run'[w].who = run[w].who
    BY <2>1, <2>2, SyncNow DEF IInv
  <2> QED BY <1>1, <2>2, <2>3, <2>4
<1>4. ASSUME NEW t \in Templates, PublishDraft(t)
      PROVE  /\ run'[w].status = "active" =>
                  shift'[w[1]].status = "active" /\ run'[w].who = shift'[w[1]].who
             /\ run'[w].reminded => \E n \in told' : n.who = run'[w].who /\ n.shift = w[1]
  <2>1. PICK rows, tmpls, S : rows = shift /\ tmpls = template' /\ S = Upcoming(shift)
    OBVIOUS
  <2>2. Sync(S, rows, tmpls, run) /\ told' = told /\ shift' = shift
    BY <1>4, <2>1 DEF PublishDraft
  <2>3. /\ w[1] \in S /\ run'[w].status = "active" =>
             shift[w[1]].status = "active" /\ run'[w].who = shift[w[1]].who
        /\ w[1] \notin S => run'[w] = run[w]
        /\ run'[w].reminded => run[w].reminded /\ run'[w].who = run[w].who
    BY <2>1, <2>2, SyncNow DEF IInv
  <2> QED BY <1>1, <2>2, <2>3
<1>5. CASE EndPublishDraft \/ ClaimReminders
  BY <1>5 DEF EndPublishDraft, ClaimReminders, NothingReadAhead
<1>6. CASE Idle
  BY <1>2, <1>6, IdleKeeps
<1>7. CASE Noting
  BY <1>2, <1>7 DEF Noting, CreateHandoff, ResolveHandoff, ReopenHandoff, UnchangedByHandoffs
<1>8. CASE ProcessOperationsReminders
  <2>1. /\ run' = [v \in Works |-> IF \E d \in {d \in DueReminders : ~run[d.work].reminded} : d.work = v
                                   THEN [run[v] EXCEPT !.reminded = TRUE] ELSE run[v]]
        /\ told' = told \union {[who |-> d.to, shift |-> d.work[1], start |-> d.start] :
                               d \in {d \in DueReminders : ~run[d.work].reminded}}
        /\ shift' = shift
    BY <1>8 DEF ProcessOperationsReminders, Remind
  <2>2. CASE \E d \in {d \in DueReminders : ~run[d.work].reminded} : d.work = w
    <3>1. PICK d \in DueReminders : d.work = w /\ ~run[d.work].reminded
      BY <2>2
    <3>2. d.to = run[w].who
      BY <3>1 DEF DueReminders
    <3>3. run'[w].who = run[w].who /\ run'[w].status = run[w].status
      BY <1>0, <2>1, <2>2 DEF Run
    <3>4. [who |-> d.to, shift |-> d.work[1], start |-> d.start] \in told'
      BY <2>1, <3>1
    <3> QED BY <1>1, <2>1, <3>1, <3>2, <3>3, <3>4
  <2>3. CASE ~\E d \in {d \in DueReminders : ~run[d.work].reminded} : d.work = w
    <3>1. run'[w] = run[w]
      BY <2>1, <2>3
    <3> QED BY <1>1, <2>1, <3>1
  <2> QED BY <2>2, <2>3
<1>9. ASSUME NEW q \in People, NEW v \in Works, WorkStep(q, v)
      PROVE  run' = run /\ shift' = shift /\ told' = told
  BY <1>9 DEF WorkStep, CompleteTask, CompleteHandoffTask, SkipTask, BlockTask, UnblockTask,
         UndoTask, VerifyTask, ReturnTask, ReopenTask, ReassignTask, UnchangedByWork
<1> QED BY <1>2, <1>3, <1>4, <1>5, <1>6, <1>7, <1>8, <1>9, StepKinds DEF Reconciling, Reminding

LEMMA Followed == Spec => []Following
<1>1. Init => Following
  BY InitSafe DEF Init, Following, NothingReadAhead, RunFollowsShift, HolderTold, NoRun
<1>2. ASSUME Following, [Next]_vars PROVE Following'
  <2>1. IInv' /\ (Serial' <=> Serial)
    BY <1>2, NextSafe, StaysSerial DEF Following, Serial
  <2>2. NothingReadAhead'
    BY <1>2, <2>1, NothingReadAheadStep DEF Following, NothingReadAhead
  <2>3. RunFollowsShift' /\ HolderTold'
    BY <1>2, <2>1, RunStep DEF RunFollowsShift, HolderTold
  <2> QED BY <2>1, <2>2, <2>3 DEF Following
<1>3. Following /\ [Next]_vars => Following'
  BY <1>2
<1> QED BY <1>1, <1>3, PTL DEF Spec

\* One at a time, a run that counts belongs to a shift that is on and to whoever the shift was
\* published to.
THEOREM RunsFollow == Spec => []RunFollowsShift
BY Followed, PTL DEF Following

\* One at a time, whoever has work that was reminded of was told of the shift, however often it
\* changed hands.
THEOREM HolderIsReminded == Spec => []ReminderReachedHolder
<1>1. Following => ReminderReachedHolder
  BY DEF Following, HolderTold, ReminderReachedHolder
<1> QED BY <1>1, Followed, PTL

\* What reconciliation by current reads makes of an open task of a run that counts.
LEMMA SyncedItemNow ==
  ASSUME NEW w \in Works, run[w] \in Run, item[w] \in Item, NEW row \in ShiftCopy, NEW tmpl,
         SyncedRun(w, row, tmpl, run[w]).status = "active",
         SyncedItem(w, row, tmpl, run[w]).status \in OpenStatuses
  PROVE  LET new == SyncedItem(w, row, tmpl, run[w]) IN
         new.due = row.start /\ (new.who = run[w].who => run[w].who \in {row.who, None})
<1> DEFINE new == SyncedItem(w, row, tmpl, run[w])
<1>0. PICK q0 \in People \union {None}, h0 \in Hours : q0 = row.who /\ h0 = row.start
  BY DEF ShiftCopy
<1>1. CASE Created(w, row, tmpl, run[w])
  <2>1. new = Blank(q0, h0)
    BY <1>0, <1>1 DEF SyncedItem, Created, Kept, Blank
  <2> HIDE DEF new
  <2>2. new.due = h0 /\ new.who = q0
    BY <2>1, CreatedItem
  <2> QED BY <1>0, <2>2 DEF new
<1>2. CASE Kept(w, row, tmpl, run[w])
  <2>0. Compared(w, run[w]) = run[w]
    BY DEF Compared
  <2>1. PICK old \in Item : old = item[w]
    OBVIOUS
  <2>2. PICK q \in People \union {None}, h \in Hours, n \in Nat :
          /\ q = IF Moves(w, row, run[w]) THEN row.who ELSE old.who
          /\ h = IF Late(w, row) THEN row.start ELSE old.due
          /\ n = old.revision + Times(w, row, run[w])
    BY <1>0, <2>1 DEF Item, Times
  <2>3. new = Written(old, q, h, n)
    BY <1>2, <2>1, <2>2 DEF SyncedItem, Created, Kept, Written
  <2>4. new.status \in OpenStatuses
    OBVIOUS
  <2> HIDE DEF new
  <2>5. new.who = q /\ new.due = h /\ new.status = old.status
    BY <2>3, WrittenItem
  <2>6. old.status \in Moving
    BY <2>4, <2>5 DEF Moving
  <2>7. new.due = row.start
    BY <2>1, <2>2, <2>5, <2>6 DEF Late
  <2>8. ASSUME new.who = run[w].who PROVE run[w].who = row.who
    BY <2>0, <2>1, <2>2, <2>5, <2>6, <2>8 DEF Moves
  <2> QED BY <2>7, <2>8 DEF new
<1>3. CASE ~Created(w, row, tmpl, run[w]) /\ ~Kept(w, row, tmpl, run[w])
  <2>1. SyncedRun(w, row, tmpl, run[w]).status # "active"
    <3>1. PICK old \in Run : old = run[w]
      OBVIOUS
    <3>2. CASE Cancelled(w, row, tmpl, run[w])
      <4>1. SyncedRun(w, row, tmpl, run[w]) =
              [old EXCEPT !.status = IF @ = "active" THEN "cancelled" ELSE @]
        BY <3>1, <3>2 DEF SyncedRun, Cancelled, Created, Kept
      <4> QED BY <3>1, <4>1 DEF Run
    <3>3. CASE ~Cancelled(w, row, tmpl, run[w])
      <4>1. SyncedRun(w, row, tmpl, run[w]) = run[w]
        BY <1>3, <3>3 DEF SyncedRun
      <4> QED BY <1>3, <3>3, <4>1 DEF Cancelled, Kept
    <3> QED BY <3>2, <3>3
  <2> QED BY <2>1
<1> QED BY <1>1, <1>2, <1>3

\* One at a time, no open task is left behind by a shift that is published anew.
THEOREM TasksFollow == Spec => OpenTasksFollowShift
<1>1. ASSUME Following, [Next]_vars, Serial, NEW w \in Works, shift'[w[1]] # shift[w[1]],
             run'[w].status = "active", item'[w].status \in OpenStatuses
      PROVE  /\ item'[w].due = shift'[w[1]].start
             /\ item'[w].who = run[w].who => run[w].who \in {shift'[w[1]].who, None}
  <2>1. PICK s \in Shifts : PublishShift(s)
    <3>1. CASE Idle
      BY <1>1, <3>1, IdleKeeps
    <3>2. CASE Noting \/ Reminding
      BY <1>1, <3>2 DEF Noting, CreateHandoff, ResolveHandoff, ReopenHandoff, UnchangedByHandoffs,
           Reminding, ProcessOperationsReminders, ClaimReminders, Remind
    <3>3. ASSUME NEW q \in People, NEW v \in Works, WorkStep(q, v)
          PROVE  shift' = shift
      BY <3>3 DEF WorkStep, CompleteTask, CompleteHandoffTask, SkipTask, BlockTask, UnblockTask,
           UndoTask, VerifyTask, ReturnTask, ReopenTask, ReassignTask, UnchangedByWork
    <3>4. CASE Reconciling
      BY <1>1, <3>4 DEF Reconciling, PublishDraft, EndPublishDraft
    <3> QED BY <1>1, <3>1, <3>2, <3>3, <3>4, StepKinds
  <2>2. w[1] \in Shifts /\ run[w] \in Run /\ item[w] \in Item
    <3>1. w[1] \in Shifts
      BY DEF Works
    <3> QED BY <1>1, <3>1 DEF Following, IInv, Safe, TypeOK
  <2>3. shift' \in [Shifts -> ShiftCopy] /\ w[1] = s
    BY <1>1, <2>1, <2>2 DEF PublishShift, Following, IInv, Safe, TypeOK, ShiftCopy
  <2>4. PICK row \in ShiftCopy : row = shift'[w[1]]
    BY <2>2, <2>3
  <2>5. PICK tmpl : tmpl = template[w[2]]
    OBVIOUS
  <2>6. /\ run'[w] = SyncedRun(w, row, tmpl, run[w])
        /\ item'[w] = SyncedItem(w, row, tmpl, run[w])
    BY <2>1, <2>3, <2>4, <2>5 DEF PublishShift, Sync
  <2> QED BY <1>1, <2>2, <2>4, <2>6, SyncedItemNow
<1>2. Following /\ [Next]_vars =>
        [Serial => \A w \in Works :
           LET s == w[1] IN
           shift'[s] # shift[s] /\ run'[w].status = "active" /\ item'[w].status \in OpenStatuses =>
             /\ item'[w].due = shift'[s].start
             /\ item'[w].who = run[w].who => run[w].who \in {shift'[s].who, None}]_vars
  BY <1>1
<1> QED BY <1>2, Followed, PTL DEF Spec, OpenTasksFollowShift

\* Work is the doer's: nobody else finishes it and no publication takes it away.
THEOREM WorkStaysTheDoers == Spec => WorkIsTheDoers
  BY DoneByItsHolder, FinishedIsKept DEF WorkIsTheDoers

=============================================================================
