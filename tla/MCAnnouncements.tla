---------------------------- MODULE MCAnnouncements ----------------------------
(* Announcements for TLC. *)
EXTENDS Announcements, FiniteSets

Open == {m \in Managers : request[m] # Idle} \union {p \in People : reading[p] # NoWording}
        \union {w \in Workers : job[w] # NoJob}

Opens == Cardinality(Open') > Cardinality(Open)

GoneOut == status \notin {"draft", "scheduled"}

\* Where two transactions overlap: the first wording is untouched, the expiry to come and everybody
\* in their place.
Calm == /\ edits = 0 /\ ~expiryPassed /\ audience = People
        /\ GoneOut => \A m \in Managers : scope[m] = People

PagesOpen == {p \in People : screen[p] # NoWording /\ reading[p] = NoWording}

\* Never three transactions overlap; people and scopes move only before the announcement goes out,
\* deadlines pass when they mean something; what is queued is delivered before the next transaction;
\* a manager reminds those who have not been reminded yet; a page's button is pressed at once (what
\* the page shows is for another run).
Narrow ==
  /\ Cardinality(Open') > 1 => Cardinality(Open') = 2 /\ Calm'
  /\ GoneOut => <<scope, audience>>' = <<scope, audience>>
  /\ ackDue' \in {ackDue, "later"} \/ status \in {"published", "archived"}
  /\ expiryPassed' # expiryPassed => Open = {} /\ status \in {"scheduled", "published"}
  /\ Cardinality(queued') <= 1 /\ (Opens => queued = {})
  /\ \A m \in Managers : request'[m].op = "remind" /\ Opens => \A p \in People : reminded[p] = 0
  /\ PagesOpen # {} => reading' # reading
  /\ PagesOpen' # {} => queued = {} /\ (Open = {} \/ (Calm /\ Cardinality(Open) = 1))
================================================================================
