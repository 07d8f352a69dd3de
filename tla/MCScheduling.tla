------------------------------ MODULE MCScheduling ------------------------------
(* Scheduling with interchangeable shifts, people, times and managers. *)
EXTENDS Scheduling, TLC

Symmetry ==
  Permutations(Shifts) \union Permutations(People) \union Permutations(Times)
    \union Permutations(Managers)

\* Six changes to one shift, but four once there is another: what a claim that outlived its shift
\* does to a publication takes six, and two shifts to it add nothing.
Narrow ==
  \A s, r \in Shifts :
    s # r /\ live'[s].version # 0 /\ live'[r].version # 0
      => /\ live'[s].version + live'[r].version <= 4
         /\ live[s].version + live[r].version = 4
              => \A m \in Managers : transaction'[m] \in {transaction[m], None}

\* Whoever has read writes (or gives up) before anybody else does anything.
OneAtATime ==
  (publication # None => publication' = None) /\
  ((\E a \in Actors : transaction[a] # None) => transaction' = [a \in Actors |-> None])
=============================================================================
