----------------------------- MODULE DirectMessages -----------------------------
(***************************************************************************)
(* Conversations between two people (messaging/service.ts).  A thread is   *)
(* the row of an ordered pair; each of its messages is read by the other   *)
(* of the two when they open the page.                                     *)
(*                                                                         *)
(* A handler is Begin... (what it reads and checks) and the action of its  *)
(* name.  The page's transaction has two statements, each of which sees    *)
(* what has been committed by then.  Employment ids are numbers, for they  *)
(* have an order.  Texts are left out; who may do what and who reports to  *)
(* whom do not change here.                                                *)
(***************************************************************************)
EXTENDS Naturals, FiniteSets

CONSTANTS
  People,      \* employment ids
  Starters,    \* may write to anybody: conversation.start
  ReportsTo,   \* everybody's manager, or None
  Threads, Messages, Requests,
  Isolations,  \* how transactions may run
  None,        \* null
  LastStamp    \* bound: messages begun

VARIABLES
  isolation,  \* whether transactions overlap
  thread,     \* the threads: the pair, and when it was last written to
  message,    \* the messages: thread, author, created_at, whether read
  shown,      \* what each person's pages have shown
  txn,        \* what each request's transaction has read
  clock       \* created_at of the latest message begun; no two share one

vars == <<isolation, thread, message, shown, txn, clock>>

Serial == isolation = "serial"

Exist == {t \in Threads : thread[t] # None}
In(t) == {m \in Messages : message[m] # None /\ message[m].thread = t}

Init ==
  /\ isolation \in Isolations
  /\ thread = [t \in Threads |-> None]
  /\ message = [m \in Messages |-> None]
  /\ shown = [p \in People |-> {}]
  /\ clock = 0
  /\ txn = [r \in Requests |-> None]

Begin(r, request) ==
  /\ txn[r] = None
  /\ Serial => \A q \in Requests : txn[q] = None
  /\ txn' = [txn EXCEPT ![r] = request]

Ends(r, op) ==
  /\ txn[r] # None /\ txn[r].op = op
  /\ txn' = [txn EXCEPT ![r] = None]

\* A lost connection.
Rollback(r) ==
  /\ txn[r] # None /\ txn' = [txn EXCEPT ![r] = None]
  /\ UNCHANGED <<isolation, thread, message, shown, clock>>

-----------------------------------------------------------------------------
(* Opening a conversation *)

\* The canonical order.
Pair(a, b) == IF a < b THEN <<a, b>> ELSE <<b, a>>

\* messageablePeople.
MayMessage(p, q) ==
  p # q /\ (p \in Starters \/ ReportsTo[p] = q \/ ReportsTo[q] = p)

ThreadsOf(pair) == {t \in Exist : thread[t].pair = pair}

\* The lookup: a thread that is there is returned, and nothing is written.
BeginOpenThread(r) ==
  \E p, q \in People :
    /\ MayMessage(p, q) /\ ThreadsOf(Pair(p, q)) = {}
    /\ Begin(r, [op |-> "open", by |-> p, other |-> q])
    /\ UNCHANGED <<isolation, thread, message, shown, clock>>

\* direct_threads_pair_unique, direct_threads_ordered_check; the request ends in an error
\* otherwise.
Insertable(pair) == ThreadsOf(pair) = {} /\ pair[1] < pair[2]

OpenThread(r) ==
  /\ Ends(r, "open")
  /\ LET pair == Pair(txn[r].by, txn[r].other) IN
     \/ /\ Insertable(pair)
        /\ \E t \in Threads \ Exist : thread' = [thread EXCEPT ![t] = [pair |-> pair, last |-> 0]]
     \/ ~Insertable(pair) /\ UNCHANGED thread
  /\ UNCHANGED <<isolation, message, shown, clock>>

-----------------------------------------------------------------------------
(* Writing and reading *)

\* loadThread.
Participates(p, t) == t \in Exist /\ p \in {thread[t].pair[1], thread[t].pair[2]}

BeginSend(r) ==
  /\ clock < LastStamp /\ clock' = clock + 1
  /\ \E p \in People, t \in Exist :
       Participates(p, t) /\ Begin(r, [op |-> "send", by |-> p, thread |-> t, now |-> clock'])
  /\ UNCHANGED <<isolation, thread, message, shown>>

SendDirectMessage(r) ==
  /\ Ends(r, "send")
  /\ LET q == txn[r] IN
     /\ \E m \in {n \in Messages : message[n] = None} :
          message' = [message EXCEPT ![m] =
            [thread |-> q.thread, by |-> q.by, at |-> q.now, read |-> FALSE]]
     /\ thread' = [thread EXCEPT ![q.thread].last = q.now]
  /\ UNCHANGED <<isolation, shown, clock>>

\* What the other one wrote and p has not read.
Unread(p, t) == {m \in In(t) : message[m].by # p /\ ~message[m].read}

MarkedRead(marked) == [m \in Messages |-> IF m \in marked THEN [message[m] EXCEPT !.read = TRUE]
                                                         ELSE message[m]]

\* The page: markThreadRead and, after it, getThread.
MarkThreadRead(r) ==
  /\ \E p \in People, t \in Exist :
       Participates(p, t) /\ Begin(r, [op |-> "page", by |-> p, thread |-> t,
                                       marked |-> Unread(p, t), there |-> In(t)])
  /\ UNCHANGED <<isolation, thread, message, shown, clock>>

\* Mutant: the page is read first and marked afterwards.
GetThreadThenMark(r) ==
  /\ Ends(r, "page")
  /\ LET q == txn[r] IN
     /\ message' = MarkedRead(Unread(q.by, q.thread))
     /\ shown' = [shown EXCEPT ![q.by] = @ \union q.there]
  /\ UNCHANGED <<isolation, thread, clock>>

GetThread(r) ==
  /\ Ends(r, "page")
  /\ LET q == txn[r] IN
     /\ message' = MarkedRead(q.marked)
     /\ shown' = [shown EXCEPT ![q.by] = @ \union In(q.thread)]
  /\ UNCHANGED <<isolation, thread, clock>>

Next ==
  \E r \in Requests :
    \/ BeginOpenThread(r) \/ OpenThread(r)
    \/ BeginSend(r) \/ SendDirectMessage(r)
    \/ MarkThreadRead(r) \/ GetThread(r)
    \/ Rollback(r)

Spec == Init /\ [][Next]_vars

-----------------------------------------------------------------------------
(* Properties *)

Stamps   == 0..LastStamp
Thread   == [pair : People \X People, last : Stamps]
Message  == [thread : Threads, by : People, at : Stamps, read : BOOLEAN]
Request  == [op : {"open"}, by : People, other : People]
              \union [op : {"send"}, by : People, thread : Threads, now : Stamps]
              \union [op : {"page"}, by : People, thread : Threads,
                      marked : SUBSET Messages, there : SUBSET Messages]

\* Every variable stays in its type, and everything refers to a thread there is.
TypeOK ==
  /\ isolation \in Isolations
  /\ thread \in [Threads -> Thread \union {None}]
  /\ message \in [Messages -> Message \union {None}]
  /\ \A m \in Messages : message[m] # None => message[m].thread \in Exist
  /\ shown \in [People -> SUBSET Messages]
  /\ clock \in Stamps
  /\ txn \in [Requests -> Request \union {None}]

\* "Opening a conversation is reading it": a message is marked as read only if a page has shown
\* it to whom it was for, though messages arrive while the page is put together.
ReadWasShown ==
  \A m \in Messages : message[m] # None /\ message[m].read =>
    \E p \in People \ {message[m].by} : Participates(p, message[m].thread) /\ m \in shown[p]

=============================================================================
