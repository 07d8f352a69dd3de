--------------------------------- MODULE Support ---------------------------------
(***************************************************************************)
(* Support cases (support/service.ts and the staff functions of            *)
(* drizzle/0019_launch_readiness.sql).  The customer and EverCalm write to *)
(* one thread per case; each message says which change of status came with *)
(* it.  Writers of a case lock its row, but created_at is the clock before *)
(* the lock: of the caller for a customer, of the start of the transaction *)
(* for staff.                                                              *)
(*                                                                         *)
(* A writer is Ask... (the request is there, and its clock read), Lock     *)
(* (the row is locked and read) and the action of its name (the writes).   *)
(* Texts, categories, times of activity and audit rows are left out.                          *)
(***************************************************************************)
EXTENDS Naturals, Sequences, FiniteSets, SequencesExt

CONSTANTS
  Owners,      \* hold support.manage
  Staff,       \* active platform staff
  Cases, Requests,
  Isolations,  \* how transactions may run
  None,        \* null
  MaxNewCasesPerHour,
  LastStamp,   \* bound: requests to write to a case
  MaxNotes     \* bound: internal notes of a case

VARIABLES
  isolation,  \* whether transactions overlap
  case,       \* the cases
  messages,   \* the thread of each, in the order of commits
  notes,      \* internal notes of each
  notices,    \* updates its author was notified of
  recent,     \* cases opened within the last hour, the oldest first
  txn,        \* each request: what it asks, its clock, the row it has read
  clock       \* created_at of the latest request; no two share one

vars == <<isolation, case, messages, notes, notices, recent, txn, clock>>

Serial   == isolation = "serial"
Statuses == {"open", "in_progress", "waiting_on_customer", "resolved"}

Exist == {c \in Cases : case[c] # None}

Init ==
  /\ isolation \in Isolations
  /\ case = [c \in Cases |-> None]
  /\ messages = [c \in Cases |-> <<>>]
  /\ notes = [c \in Cases |-> 0]
  /\ notices = [c \in Cases |-> 0]
  /\ recent = <<>> /\ clock = 0
  /\ txn = [r \in Requests |-> None]

Ask(r, request) ==
  /\ txn[r] = None
  /\ Serial => \A q \in Requests : txn[q] = None
  /\ txn' = [txn EXCEPT ![r] = request]
  /\ UNCHANGED <<isolation, case, messages, notes, notices, recent>>

Ends(r, op) ==
  /\ txn[r] # None /\ txn[r].op = op
  /\ txn' = [txn EXCEPT ![r] = None]

\* A lost connection.
Rollback(r) ==
  /\ txn[r] # None /\ txn' = [txn EXCEPT ![r] = None]
  /\ UNCHANGED <<isolation, case, messages, notes, notices, recent, clock>>

Now == clock < LastStamp /\ clock' = clock + 1

\* Mutant: nobody locks.
LockedByNobody(c) == {}

LockedBy(c) == {r \in Requests : txn[r] # None /\ txn[r].op \in {"reply", "update"}
                                  /\ txn[r].case = c /\ txn[r].row # None}

\* requireCase; SELECT ... FOR UPDATE.
Lock(r) ==
  /\ txn[r] # None /\ txn[r].op \in {"reply", "update"} /\ txn[r].row = None
  /\ LockedBy(txn[r].case) = {}
  /\ txn' = [txn EXCEPT ![r].row = case[txn[r].case]]
  /\ UNCHANGED <<isolation, case, messages, notes, notices, recent, clock>>

\* The writes, by what was read.
Writes(r, op) == Ends(r, op) /\ txn[r].row # None

-----------------------------------------------------------------------------
(* The customer *)

OpenedBy(p) == Cardinality({i \in DOMAIN recent : case[recent[i]].by = p})

WithinLimit(p) == OpenedBy(p) < MaxNewCasesPerHour

AskCreate(r) ==
  /\ \E p \in Owners : WithinLimit(p) /\ Ask(r, [op |-> "create", by |-> p])
  /\ UNCHANGED clock

CreateCase(r) ==
  /\ Ends(r, "create")
  /\ \E c \in Cases \ Exist :
       /\ case' = [case EXCEPT ![c] = [status |-> "open", by |-> txn[r].by, assigned |-> None,
                                       resolvedAt |-> None, reopened |-> 0]]
       /\ recent' = Append(recent, c)
  /\ UNCHANGED <<isolation, messages, notes, notices, clock>>

\* Since the oldest of them.
HourPasses ==
  /\ recent # <<>> /\ recent' = Tail(recent)
  /\ UNCHANGED <<isolation, case, messages, notes, notices, txn, clock>>

Written(q, author, next) ==
  messages' = [messages EXCEPT ![q.case] = Append(@,
    [author |-> author, at |-> q.now,
     from |-> IF next = q.row.status THEN None ELSE q.row.status,
     to   |-> IF next = q.row.status THEN None ELSE next])]

\* What a customer's reply makes of a status.
AfterReply(status) ==
  IF status \in {"resolved", "waiting_on_customer"} THEN "open" ELSE status

AskReply(r) ==
  /\ Now
  /\ \E p \in Owners, c \in Exist :
       Ask(r, [op |-> "reply", case |-> c, now |-> clock', row |-> None])

ReplyToCase(r) ==
  /\ Writes(r, "reply")
  /\ LET q == txn[r]
         next == AfterReply(q.row.status)
     IN /\ Written(q, "customer", next)
        /\ case' = [case EXCEPT
             ![q.case].status = next,
             ![q.case].resolvedAt = IF next = "resolved" THEN q.row.resolvedAt ELSE None,
             ![q.case].reopened = q.row.reopened + IF q.row.status = "resolved" THEN 1 ELSE 0]
  /\ UNCHANGED <<isolation, notes, notices, recent, clock>>

-----------------------------------------------------------------------------
(* EverCalm *)

\* A reply, a change of status, or both; the status chosen on the page, or None.
AskUpdate(r) ==
  /\ Now
  /\ \E s \in Staff, c \in Exist, status \in Statuses \union {None}, body \in BOOLEAN :
       /\ body \/ status # None
       /\ Ask(r, [op |-> "update", case |-> c, body |-> body, status |-> status, now |-> clock',
                row |-> None])

\* resolved_at.
ResolvedAt(c, next, now) ==
  IF next # "resolved" THEN None
  ELSE IF case[c].resolvedAt # None THEN case[c].resolvedAt ELSE now

StaffCaseUpdate(r) ==
  /\ Writes(r, "update")
  /\ LET q == txn[r]
         next == IF q.status = None THEN q.row.status ELSE q.status
     IN /\ q.body \/ next # q.row.status
        /\ Written(q, "evercalm", next)
        /\ case' = [case EXCEPT
             ![q.case].status = next,
             ![q.case].resolvedAt = ResolvedAt(q.case, next, q.now),
             ![q.case].reopened = @ + IF q.row.status = "resolved" /\ next # "resolved" THEN 1 ELSE 0]
        /\ notices' = [notices EXCEPT ![q.case] = @ + 1]
  /\ UNCHANGED <<isolation, notes, recent, clock>>

\* Both update the row without having read it.
StaffCaseNote ==
  /\ Staff # {}
  /\ \E c \in Exist :
       LockedBy(c) = {} /\ notes[c] < MaxNotes /\ notes' = [notes EXCEPT ![c] = @ + 1]
  /\ Serial => \A r \in Requests : txn[r] = None
  /\ UNCHANGED <<isolation, case, messages, notices, recent, txn, clock>>

StaffCaseAssign ==
  /\ \E c \in Exist, s \in Staff \union {None} :
       LockedBy(c) = {} /\ case' = [case EXCEPT ![c].assigned = s]
  /\ Serial => \A r \in Requests : txn[r] = None
  /\ UNCHANGED <<isolation, messages, notes, notices, recent, txn, clock>>

Next ==
  \/ \E r \in Requests :
       \/ AskCreate(r) \/ CreateCase(r)
       \/ AskReply(r) \/ ReplyToCase(r)
       \/ AskUpdate(r) \/ StaffCaseUpdate(r)
       \/ Lock(r)
       \/ Rollback(r)
  \/ HourPasses \/ StaffCaseNote \/ StaffCaseAssign

Spec == Init /\ [][Next]_vars

-----------------------------------------------------------------------------
(* Properties *)

Stamps  == 0..LastStamp
Case    == [status : Statuses, by : Owners, assigned : Staff \union {None},
            resolvedAt : Stamps \union {None}, reopened : Nat]
Message == [author : {"customer", "evercalm"}, at : Stamps,
            from : Statuses \union {None}, to : Statuses \union {None}]
Request == [op : {"create"}, by : Owners]
             \union [op : {"reply"}, case : Cases, now : Stamps, row : Case \union {None}]
             \union [op : {"update"}, case : Cases, body : BOOLEAN, status : Statuses \union {None},
                     now : Stamps, row : Case \union {None}]

\* Every variable stays in its type, resolved_at is there when the case is resolved
\* (support_cases_resolved_check), and only cases there are have messages.
TypeOK ==
  /\ isolation \in Isolations
  /\ case \in [Cases -> Case \union {None}]
  /\ \A c \in Exist : (case[c].status = "resolved") <=> (case[c].resolvedAt # None)
  /\ \A c \in Cases : messages[c] \in Seq(Message)
  /\ \A c \in Cases \ Exist : messages[c] = <<>>
  /\ notes \in [Cases -> 0..MaxNotes] /\ notices \in [Cases -> Nat]
  /\ recent \in Seq(Exist) /\ clock \in Stamps
  /\ txn \in [Requests -> Request \union {None}]

\* The messages of a thread that changed the status, and where they had led before the i-th.
Changes(thread) == {i \in DOMAIN thread : thread[i].to # None}

LedTo(thread, i) ==
  LET before == {j \in Changes(thread) : j < i} IN
  IF before = {} THEN "open" ELSE thread[Max(before)].to

\* The changes go from "open" to where the case is, each from where the last one led.
Tells(thread, status) ==
  /\ \A i \in Changes(thread) : thread[i].from = LedTo(thread, i)
  /\ status = LedTo(thread, Len(thread) + 1)

\* The thread tells how the case got where it is, whoever writes to it at once.  The page sorts
\* by created_at, which one request at a time is the order of commits.
ThreadTellsStatus ==
  \A c \in Exist :
    /\ Tells(messages[c], case[c].status)
    /\ Serial => \A i, j \in DOMAIN messages[c] : i < j => messages[c][i].at < messages[c][j].at

\* The row agrees with the thread: it was reopened as often as the thread says, by either side,
\* and is resolved since the message that resolved it, not since a later one.
RowAgreesWithThread ==
  \A c \in Exist :
    LET changes == Changes(messages[c]) IN
    /\ case[c].reopened = Cardinality({i \in changes : messages[c][i].from = "resolved"})
    /\ case[c].status = "resolved" => case[c].resolvedAt = messages[c][Max(changes)].at

\* Who wrote last is not kept waiting for themselves: after a customer's message the case is
\* with EverCalm, and not resolved, though staff change the status at the same time.
CustomerIsHeard ==
  \A c \in Exist :
    messages[c] # <<>> /\ Last(messages[c]).author = "customer"
      => case[c].status \in {"open", "in_progress"}

=============================================================================
