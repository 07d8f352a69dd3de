------------------------------ MODULE AccessControl ------------------------------
(***************************************************************************)
(* What one person may do in one organization (authz/resolve.ts, can.ts;   *)
(* grantRole, revokeRoleGrant and setEmploymentStatus of                   *)
(* people/employment-service.ts; billing/policy.ts).  Every request        *)
(* resolves the rows to an actor once and asks it from then on, in         *)
(* different ways: may they do this, at this location, anywhere, and where *)
(* (which is what lists are filtered by).                                  *)
(*                                                                         *)
(* Requests of theirs may be under way while an owner or the subscription  *)
(* changes what they may do.                                               *)
(***************************************************************************)
EXTENDS FiniteSets

CONSTANTS
  Grants, Roles, Locations, Capabilities, Requests,
  LocationScopable,      \* capabilities a grant for one location can carry
  ReadOnlyCapabilities,  \* those that survive read-only mode
  RoleCapabilities,      \* what each role carries
  None                   \* null

VARIABLES
  employment,  \* status of the employment
  grant,       \* role grants: role, scope, location, whether revoked
  accessMode,  \* what the subscription allows
  actor        \* the actor each request has resolved

vars == <<employment, grant, accessMode, actor>>

Granted == {g \in Grants : grant[g] # None}

Init ==
  /\ employment = "active"
  /\ grant = [g \in Grants |-> None]
  /\ accessMode = "full"
  /\ actor = [r \in Requests |-> None]

-----------------------------------------------------------------------------
(* Resolving an actor *)

\* Mutant: a grant carries whatever its role does.
CarriedByRole(g) == RoleCapabilities[grant[g].role]

Carried(g) == IF grant[g].scope = "location"
                THEN RoleCapabilities[grant[g].role] \intersect LocationScopable
                ELSE RoleCapabilities[grant[g].role]

CapabilitiesFor(capabilities) ==
  IF accessMode = "read_only" THEN capabilities \intersect ReadOnlyCapabilities ELSE capabilities

\* The grants of an actor, each with its capabilities.
Resolved ==
  {[scope |-> grant[g].scope, location |-> grant[g].location,
    capabilities |-> CapabilitiesFor(Carried(g))] : g \in {h \in Granted : ~grant[h].revoked}}

ResolveActor(r) ==
  /\ actor[r] = None /\ employment \notin {"suspended", "separated"}
  /\ actor' = [actor EXCEPT ![r] = Resolved]
  /\ UNCHANGED <<employment, grant, accessMode>>

RequestEnds(r) ==
  /\ actor[r] # None /\ actor' = [actor EXCEPT ![r] = None]
  /\ UNCHANGED <<employment, grant, accessMode>>

-----------------------------------------------------------------------------
(* Asking it.  A is an actor's grants; a question without a location has None. *)

Satisfies(held, capability, location) ==
  /\ capability \in held.capabilities
  /\ \/ held.scope = "org"
     \/ location # None /\ capability \in LocationScopable /\ held.location = location

Can(A, capability, location) == \E held \in A : Satisfies(held, capability, location)

CanAtAnyLocation(A, capability) == \E held \in A : capability \in held.capabilities

\* None: organization-wide.
AccessibleLocationIds(A, capability) ==
  LET with == {held \in A : capability \in held.capabilities} IN
  IF \E held \in with : held.scope = "org" THEN None ELSE {held.location : held \in with}

HeldCapabilities(A) == UNION {held.capabilities : held \in A}

-----------------------------------------------------------------------------
(* What changes it *)

GrantRole ==
  /\ \E g \in Grants \ Granted, role \in Roles, location \in Locations \union {None} :
       grant' = [grant EXCEPT ![g] =
         [role |-> role, scope |-> IF location = None THEN "org" ELSE "location",
          location |-> location, revoked |-> FALSE]]
  /\ UNCHANGED <<employment, accessMode, actor>>

RevokeRoleGrant ==
  /\ \E g \in Granted : grant' = [grant EXCEPT ![g].revoked = TRUE]
  /\ UNCHANGED <<employment, accessMode, actor>>

SetEmploymentStatus ==
  /\ employment # "separated"
  /\ employment' \in {"active", "suspended"} \ {employment}
  /\ UNCHANGED <<grant, accessMode, actor>>

\* completeSeparation ends every grant too.
CompleteSeparation ==
  /\ employment # "separated" /\ employment' = "separated"
  /\ grant' = [g \in Grants |-> IF g \in Granted THEN [grant[g] EXCEPT !.revoked = TRUE] ELSE None]
  /\ UNCHANGED <<accessMode, actor>>

\* accessModeFor what the subscription has become; "grace" withholds nothing.
SubscriptionChanges ==
  /\ accessMode' \in {"full", "grace", "read_only"} \ {accessMode}
  /\ UNCHANGED <<employment, grant, actor>>

Next ==
  \/ \E r \in Requests : ResolveActor(r) \/ RequestEnds(r)
  \/ GrantRole \/ RevokeRoleGrant \/ SetEmploymentStatus \/ CompleteSeparation
  \/ SubscriptionChanges

Spec == Init /\ [][Next]_vars

-----------------------------------------------------------------------------
(* Properties *)

Scopes == {"org", "location"}
Grant  == [role : Roles, scope : {"org"}, location : {None}, revoked : BOOLEAN]
            \union [role : Roles, scope : {"location"}, location : Locations, revoked : BOOLEAN]
Held   == [scope : Scopes, location : Locations \union {None}, capabilities : SUBSET Capabilities]

\* Every variable stays in its type; a grant has a location if it is for one
\* (role_grants_scope_check).
TypeOK ==
  /\ employment \in {"active", "suspended", "separated"}
  /\ grant \in [Grants -> Grant \union {None}]
  /\ accessMode \in {"full", "grace", "read_only"}
  /\ actor \in [Requests -> (SUBSET Held) \union {None}]

\* The questions agree.  What a list shows somebody is what they may act on, and nothing else:
\* the locations they are told are the ones can() says yes to, "organization-wide" is said by
\* both or neither, "at any location" is true of somebody who has one, and navigation offers
\* exactly that.
AnswersAgree ==
  \A r \in Requests : actor[r] # None =>
    \A c \in Capabilities :
      LET A == actor[r]
          where == AccessibleLocationIds(A, c)
      IN /\ where = None <=> Can(A, c, None)
         /\ \A l \in Locations : Can(A, c, l) <=> (where = None \/ l \in where)
         /\ CanAtAnyLocation(A, c) <=> (where = None \/ where # {})
         /\ c \in HeldCapabilities(A) <=> CanAtAnyLocation(A, c)

=============================================================================
