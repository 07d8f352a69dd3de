---------------------------- MODULE DeliveryPromise ----------------------------
(***************************************************************************)
(* What the notification queue promises the rest of EverCalm, with no      *)
(* workers, leases or clock: a notification that is queued is eventually   *)
(* recorded as sent or failed, or withdrawn; what was suppressed,          *)
(* withdrawn or sent stays so; "sent" is never said of a message nobody    *)
(* accepted; and only an operator brings a failed one back.                *)
(***************************************************************************)
CONSTANTS Notifications, Channel

VARIABLES state, handed

Init == /\ state = [n \in Notifications |-> "absent"]
        /\ handed = {}

Becomes(S, s) == state' = [n \in Notifications |-> IF n \in S THEN s ELSE state[n]]

Offer(n) == /\ state[n] = "absent"
            /\ \E s \in {"pending", "suppressed"} : Becomes({n}, s)
            /\ UNCHANGED handed

\* An e-mail reaches the provider; nothing else is ever handed over.
Hand(n) == /\ Channel[n] = "email" /\ state[n] \notin {"absent", "suppressed"}
           /\ handed' = handed \union {n}
           /\ UNCHANGED state

\* Outcomes of one batch are recorded together.
Settle(S, F) ==
  /\ S \union F # {} /\ S \intersect F = {}
  /\ \A n \in S \union F : state[n] = "pending"
  /\ \A n \in S : Channel[n] = "in_app" \/ (Channel[n] = "email" /\ n \in handed)
  /\ \A n \in F : Channel[n] # "in_app"
  /\ state' = [n \in Notifications |-> IF n \in S THEN "sent"
                                       ELSE IF n \in F THEN "failed" ELSE state[n]]
  /\ UNCHANGED handed

Withdraw(S) == /\ S # {} /\ \A n \in S : state[n] = "pending"
               /\ Becomes(S, "cancelled")
               /\ UNCHANGED handed

Requeue(S) == /\ S # {} /\ \A n \in S : state[n] = "failed"
              /\ Becomes(S, "pending")
              /\ UNCHANGED handed

Next == \/ \E n \in Notifications : Offer(n) \/ Hand(n)
        \/ \E S, F \in SUBSET Notifications : Settle(S, F)
        \/ \E S \in SUBSET Notifications : Withdraw(S) \/ Requeue(S)

vars == <<state, handed>>

Settles == \A n \in Notifications : state[n] = "pending" ~> state[n] # "pending"

Safety == Init /\ [][Next]_vars
Spec == Safety /\ Settles
=============================================================================
