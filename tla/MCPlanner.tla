------------------------------- MODULE MCPlanner -------------------------------
(* Planner for TLC: two days of six hours and the eve; a day pattern for  *)
(* two people on the first day, and a late one that runs past midnight.   *)
EXTENDS Planner

MCShape == [day  |-> [start |-> 1, end |-> 4, headcount |-> 2, days |-> {1}],
            late |-> [start |-> 3, end |-> 7, headcount |-> 1, days |-> {1, 2}]]
MCHolders == [day |-> {1, 2}, late |-> {1, 2}]

On1(day, from, to, preference) ==
  [day |-> day, from |-> from, to |-> to, preference |-> preference]

MCWeeklies == {{}, {On1(1, 0, 4, "available"), On1(2, 0, 2, "unavailable")},
               {On1(1, 0, 6, "preferred"), On1(3, 0, 1, "unavailable")}}
MCExceptions == {On1(2, 0, 6, "available"), On1(1, 0, 6, "unavailable")}

Off(start, end) == [start |-> start, end |-> end]

\* The first ends in the hour the clocks skip.
MCOffs == {Off(9, 11), Off(12, 14)}
MCElsewhere == {Off(4, 8), Off(13, 15)}

\* Where transactions overlap, only shifts change, and nobody has said anything; where people have
\* shifts elsewhere, nobody changes their mind; reviews and call-outs only where nobody has said
\* anything.
Home  == \A p \in People : elsewhere[p] = {}
Quiet == \A p \in People : rules[p] = {} /\ exceptions[p] = {}

Narrow ==
  /\ ~Serial => Home /\ Quiet /\ <<rules, exceptions, request>>' = <<rules, exceptions, request>>
  /\ ~Home => <<rules, exceptions, request>>' = <<rules, exceptions, request>>
  /\ review' # review /\ planning = None => Home /\ Quiet /\ Serial
  /\ callout' # callout => Home /\ Quiet

=================================================================================
