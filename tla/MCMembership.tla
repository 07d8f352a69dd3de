----------------------------- MODULE MCMembership -----------------------------
(* Membership for TLC: the managers are interchangeable, and a behaviour   *)
(* has a budget of invitations and employment changes together.  When      *)
(* transactions overlap it is smaller, and invitations name no place.      *)
EXTENDS Membership, TLC

Interchangeable == Permutations(Managers)

Budget == IF isolation = "overlapping" THEN 1 ELSE 2

WithinBudget ==
  /\ changes' + Cardinality({i \in Invites : invitation'[i].status # "none"}) <= Budget
  /\ isolation = "overlapping" => \A m \in Managers :
       open'[m].op \in {"invite", "import"} => open'[m].arg[2] = {}

=============================================================================
