------------------------------- MODULE Membership -------------------------------
(***************************************************************************)
(* Who belongs to an organization and who may sign in: invitations and     *)
(* their acceptance, CSV import, employment changes, and the separation    *)
(* of an employee by two people (invitations/service.ts, accept-action.ts, *)
(* people/import-service.ts, employment-service.ts, separation-service.ts, *)
(* authz/resolve.ts).                                                      *)
(*                                                                         *)
(* Every handler reads, checks, and then writes by id.  isolation says     *)
(* whether other transactions may commit in between: Begin is then the     *)
(* reads and checks, the action of the handler's name the writes; serial   *)
(* transactions do both at once.  What a handler reads besides what it     *)
(* checks never changes, so an open transaction is its operation, subject  *)
(* and argument.                                                           *)
(*                                                                         *)
(* Abstracted: a person is an e-mail address; a place stands for a         *)
(* location assignment or a job role of an employment; the hr role carries *)
(* every capability used here, organization-wide, employee carries none.   *)
(***************************************************************************)
EXTENDS Naturals, FiniteSets

CONSTANTS
  Managers,     \* people employed from the start, holding the hr role
  Newcomers,    \* people who may be invited
  Elsewhere,    \* newcomers who have an account from another organization
  Records,      \* employments yet to be created
  Invites, Filings, Places,
  None,         \* null
  Isolations,   \* how transactions may run
  HourlyLimit,  \* ORG_HOURLY_LIMIT
  MaxChanges    \* bound: employment changes (status, reporting line, place, grant)

ASSUME NoneAssumption == None \notin Managers \union Newcomers \union Records
ASSUME PeopleAssumption == /\ Managers \intersect (Newcomers \union Records) = {}
                           /\ Elsewhere \subseteq Newcomers
ASSUME IsolationAssumption == Isolations \subseteq {"serial", "overlapping"}
ASSUME BoundsAssumption == HourlyLimit \in Nat /\ MaxChanges \in Nat

VARIABLES
  isolation,   \* whether transactions overlap
  accounts,    \* people with an account (users)
  staff,       \* employments, with their locations
  grants,      \* role grants not revoked
  invitation,  \* invitations
  recent,      \* invitations created within the last hour
  filing,      \* separations
  changes,     \* employment changes so far
  open,        \* what each manager's open transaction is about
  joining      \* the invitation each person has just signed up for

vars == <<isolation, accounts, staff, grants, invitation, recent, filing, changes, open,
          joining>>

People      == Managers \union Newcomers
Employments == Managers \union Records
Roles       == {"hr", "employee"}
Statuses    == {"none", "invited", "active", "suspended", "separated"}
Working     == {"invited", "active", "suspended"}

Employee == [status : Statuses, email : People \union {None}, user : People \union {None},
             boss : Employments \union {None}, places : SUBSET Places]
Invitation == [status : {"none", "pending", "accepted", "revoked"}, to : People \union {None},
               role : Roles, target : Records \union {None}, places : SUBSET Places,
               late : BOOLEAN, joined : Records \union {None}]
Filing == [status : {"none", "pending", "approved", "completed", "cancelled"},
           of : Employments \union {None}, by : Managers \union {None},
           approver : Managers \union {None}]

Nobody == [status |-> "none", email |-> None, user |-> None, boss |-> None, places |-> {}]
Unsent == [status |-> "none", to |-> None, role |-> "employee", target |-> None,
           places |-> {}, late |-> FALSE, joined |-> None]
Unfiled == [status |-> "none", of |-> None, by |-> None, approver |-> None]
Idle    == [op |-> "none"]

Init ==
  /\ isolation \in Isolations
  /\ accounts = Managers \union Elsewhere
  /\ staff = [e \in Employments |-> IF e \in Managers
       THEN [status |-> "active", email |-> e, user |-> e, boss |-> None, places |-> {}]
       ELSE Nobody]
  /\ grants = [e \in Employments |-> IF e \in Managers THEN {"hr"} ELSE {}]
  /\ invitation = [i \in Invites |-> Unsent]
  /\ recent = {}
  /\ filing = [k \in Filings |-> Unfiled]
  /\ changes = 0
  /\ open = [m \in Managers |-> Idle]
  /\ joining = [p \in Newcomers |-> None]

Exists(e)  == staff[e].status # "none"
KnownAs(p) == {e \in Employments : Exists(e) /\ staff[e].email = p}
OpenFor(p) == {i \in Invites : invitation[i].status = "pending" /\ invitation[i].to = p}

\* resolveActor, and can() asked organization-wide.
MayManage(m) == /\ staff[m].status \notin {"separated", "suspended"}
                /\ "hr" \in grants[m]

-----------------------------------------------------------------------------
(* What each handler checks on what it reads *)

\* assertWithinOrgRateLimit.
WithinRateLimit == Cardinality(recent) < HourlyLimit

MayInvite(p) == KnownAs(p) = {} /\ OpenFor(p) = {} /\ WithinRateLimit

Revocable(i) == invitation[i].status \in {"pending", "revoked"}

\* Looks for a separation that awaits approval only.
MayFile(m, e) == /\ e # m /\ staff[e].status \in Working
                 /\ ~\E k \in Filings : filing[k].of = e /\ filing[k].status = "pending"

\* Mutant: nobody need have approved.
MayCompleteUnlessClosed(k) == filing[k].status \in {"pending", "approved"}

MayComplete(k) == filing[k].status = "approved"

MayBecome(e, status) == staff[e].status \in Working \ {status}

\* Everyone above e, e left out, as far as the walk gets.
Above(e) ==
  LET up[n \in 0..Cardinality(Employments)] ==
        IF n = 0 THEN {staff[e].boss}
        ELSE up[n - 1] \union {staff[f].boss : f \in up[n - 1] \ {None}}
  IN  up[Cardinality(Employments)] \ {None}

MayReportTo(e, b) == b = None \/ (b # e /\ e \notin Above(b))

Make(op, subjects, args) == [op : {op}, on : subjects, arg : args]

\* What m may ask for now: the checks of each handler.
Requests(m, op) ==
  CASE op = "invite"   -> Make(op, {p \in Newcomers : MayInvite(p)}, Roles \X SUBSET Places)
    [] op = "import"   -> Make(op, {p \in Newcomers : KnownAs(p) = {}}, BOOLEAN \X SUBSET Places)
    [] op = "resend"   -> Make(op, {i \in Invites : invitation[i].status = "pending"}, {None})
    [] op = "revoke"   -> Make(op, {i \in Invites : Revocable(i)}, {None})
    [] op = "file"     -> Make(op, {e \in Employments : MayFile(m, e)}, {None})
    [] op = "approve"  -> Make(op, {k \in Filings : filing[k].status = "pending" /\ filing[k].by # m},
                               {None})
    [] op = "complete" -> Make(op, {k \in Filings : MayComplete(k)}, {None})
    [] op = "cancel"   -> Make(op, {k \in Filings : filing[k].status \in {"pending", "approved"}}, {None})
    [] op = "status"   -> {r \in Make(op, Employments, {"active", "suspended"}) : MayBecome(r.on, r.arg)}
    [] op = "boss"     -> {r \in Make(op, Employments, Employments \union {None}) :
                             /\ Exists(r.on) /\ (r.arg # None => Exists(r.arg))
                             /\ r.arg # staff[r.on].boss /\ MayReportTo(r.on, r.arg)}

Operations == {"invite", "import", "resend", "revoke", "file", "approve", "complete", "cancel",
               "status", "boss"}

Begin(m) ==
  /\ isolation = "overlapping" /\ open[m] = Idle /\ MayManage(m)
  /\ \E op \in Operations : \E r \in Requests(m, op) : open' = [open EXCEPT ![m] = r]
  /\ UNCHANGED <<isolation, accounts, staff, grants, invitation, recent, filing, changes, joining>>

\* A refusal, a constraint or a lost connection.
Rollback(m) ==
  /\ open[m] # Idle
  /\ open' = [open EXCEPT ![m] = Idle]
  /\ UNCHANGED <<isolation, accounts, staff, grants, invitation, recent, filing, changes, joining>>

\* The transactions of m that may write now.
Checked(m, op) ==
  IF isolation = "serial"
    THEN IF MayManage(m) THEN Requests(m, op) ELSE {}
    ELSE IF open[m].op = op THEN {open[m]} ELSE {}

Finish(m) == /\ open' = [open EXCEPT ![m] = Idle]
             /\ UNCHANGED <<isolation, joining>>

-----------------------------------------------------------------------------
(* Invitations *)

FreshInvite == CHOOSE i \in Invites : invitation[i].status = "none"
FreshRecord == CHOOSE e \in Records : ~Exists(e)

\* The invitation row, with the employment it links to when accepted.
Send(p, role, target, places) ==
  /\ \E i \in Invites : invitation[i].status = "none"
  /\ invitation' = [invitation EXCEPT ![FreshInvite] =
       [status |-> "pending", to |-> p, role |-> role, target |-> target,
        places |-> places, late |-> FALSE, joined |-> None]]
  /\ recent' = recent \union {FreshInvite}

CreateInvitation(m) ==
  \E r \in Checked(m, "invite") :
    /\ Finish(m)
    /\ Send(r.on, r.arg[1], None, r.arg[2])
    /\ UNCHANGED <<accounts, staff, grants, filing, changes>>

\* One row of a file.  With invitations the row's location and job role are written twice:
\* to the employment and to the invitation that links to it.
RunImport(m) ==
  \E r \in Checked(m, "import") :
    LET p == r.on
        places == r.arg[2] IN
    /\ Finish(m)
    /\ \E e \in Records : ~Exists(e)
    /\ \E boss \in {None} \union {e \in Employments : Exists(e) /\ changes < MaxChanges} :
         /\ staff' = [staff EXCEPT ![FreshRecord] =
              [status |-> "invited", email |-> p, user |-> None, boss |-> boss, places |-> places]]
         /\ changes' = IF boss = None THEN changes ELSE changes + 1
    /\ IF r.arg[1]
         THEN /\ OpenFor(p) = {} /\ WithinRateLimit
              /\ Send(p, "employee", FreshRecord, places)
         ELSE UNCHANGED <<invitation, recent>>
    /\ UNCHANGED <<accounts, grants, filing>>

Resend(m) ==
  \E r \in Checked(m, "resend") :
    /\ Finish(m)
    /\ invitation' = [invitation EXCEPT ![r.on] = [@ EXCEPT !.status = "pending", !.late = FALSE]]
    /\ UNCHANGED <<accounts, staff, grants, recent, filing, changes>>

Revoke(m) ==
  \E r \in Checked(m, "revoke") :
    /\ Finish(m)
    /\ invitation' = [invitation EXCEPT ![r.on].status = "revoked"]
    /\ UNCHANGED <<accounts, staff, grants, recent, filing, changes>>

\* Two weeks pass.
Expire(i) ==
  /\ invitation[i].status = "pending" /\ ~invitation[i].late
  /\ invitation' = [invitation EXCEPT ![i].late = TRUE]
  /\ UNCHANGED <<isolation, accounts, staff, grants, recent, filing, changes, open, joining>>

HourPasses ==
  /\ recent # {} /\ recent' = {}
  /\ UNCHANGED <<isolation, accounts, staff, grants, invitation, filing, changes, open, joining>>

Opens(i) == invitation[i].status = "pending" /\ ~invitation[i].late

\* acceptInvitationAction: the link is looked up and an account is created, for good.
SignUp(p) ==
  /\ p \notin accounts
  /\ \E i \in OpenFor(p) : Opens(i) /\ joining' = [joining EXCEPT ![p] = i]
  /\ accounts' = accounts \union {p}
  /\ UNCHANGED <<isolation, staff, grants, invitation, recent, filing, changes, open>>

\* Mutant: an employment that was imported is not linked to the account.
JoinedWithoutLink(p, i) ==
  LET e == invitation[i].target IN
  [Nobody EXCEPT !.status = "active", !.email = p, !.user = IF e = None THEN p ELSE None,
                 !.places = invitation[i].places]

\* The employment an acceptance of i leaves behind.
JoinedAs(p, i) ==
  LET e == invitation[i].target IN
  IF e = None
    THEN [Nobody EXCEPT !.status = "active", !.email = p, !.user = p,
                        !.places = invitation[i].places]
    ELSE [staff[e] EXCEPT !.status = "active", !.user = p,
                          !.places = @ \union invitation[i].places]

\* acceptInvitation, which claims the invitation first.  A location or job role the employment
\* has already (the unique constraints) rolls everything back but the account.
Accept(p) ==
  LET i == joining[p]
      e == IF invitation[i].target = None THEN FreshRecord ELSE invitation[i].target IN
  /\ i # None /\ Opens(i)
  /\ joining' = [joining EXCEPT ![p] = None]
  /\ invitation[i].target = None => \E f \in Records : ~Exists(f)
  /\ staff[e].places \intersect invitation[i].places = {}
  /\ \A f \in Employments \ {e} : staff[f].user # p
  /\ invitation' = [invitation EXCEPT ![i] = [@ EXCEPT !.status = "accepted", !.joined = e]]
  /\ staff' = [staff EXCEPT ![e] = JoinedAs(p, i)]
  /\ grants' = [grants EXCEPT ![e] = @ \union {invitation[i].role}]
  /\ UNCHANGED <<isolation, accounts, recent, filing, changes, open>>

\* The link has died, the acceptance fails, or the browser goes away in between.
GiveUp(p) ==
  /\ joining[p] # None /\ joining' = [joining EXCEPT ![p] = None]
  /\ UNCHANGED <<isolation, accounts, staff, grants, invitation, recent, filing, changes, open>>

-----------------------------------------------------------------------------
(* Separation, by two people *)

FileSeparation(m) ==
  \E r \in Checked(m, "file") :
    /\ Finish(m)
    /\ \E k \in Filings : filing[k].status = "none"
    /\ filing' = [filing EXCEPT ![CHOOSE k \in Filings : filing[k].status = "none"] =
         [status |-> "pending", of |-> r.on, by |-> m, approver |-> None]]
    /\ UNCHANGED <<accounts, staff, grants, invitation, recent, changes>>

\* The database checks once more that the two differ.
ApproveSeparation(m) ==
  \E r \in Checked(m, "approve") :
    /\ Finish(m) /\ filing[r.on].by # m
    /\ filing' = [filing EXCEPT ![r.on] = [@ EXCEPT !.status = "approved", !.approver = m]]
    /\ UNCHANGED <<accounts, staff, grants, invitation, recent, changes>>

CompleteSeparation(m) ==
  \E r \in Checked(m, "complete") :
    LET e == filing[r.on].of IN
    /\ Finish(m)
    /\ staff' = [staff EXCEPT ![e].status = "separated"]
    /\ grants' = [grants EXCEPT ![e] = {}]
    /\ filing' = [filing EXCEPT ![r.on].status = "completed"]
    /\ UNCHANGED <<accounts, invitation, recent, changes>>

CancelSeparation(m) ==
  \E r \in Checked(m, "cancel") :
    /\ Finish(m)
    /\ filing' = [filing EXCEPT ![r.on].status = "cancelled"]
    /\ UNCHANGED <<accounts, staff, grants, invitation, recent, changes>>

-----------------------------------------------------------------------------
(* Employment changes *)

Change == changes < MaxChanges /\ changes' = changes + 1

SetEmploymentStatus(m) ==
  \E r \in Checked(m, "status") :
    /\ Finish(m) /\ Change
    /\ staff' = [staff EXCEPT ![r.on].status = r.arg]
    /\ UNCHANGED <<accounts, grants, invitation, recent, filing>>

ChangeManager(m) ==
  \E r \in Checked(m, "boss") :
    /\ Finish(m) /\ Change
    /\ staff' = [staff EXCEPT ![r.on].boss = r.arg]
    /\ UNCHANGED <<accounts, grants, invitation, recent, filing>>

\* These check nothing that another transaction changes; adding a location or a grant an
\* employment has already changes nothing anybody can see.
ChangePlace(m) ==
  /\ MayManage(m) /\ Change
  /\ \E e \in Employments, l \in Places :
       /\ Exists(e)
       /\ staff' = [staff EXCEPT ![e].places = IF l \in @ THEN @ \ {l} ELSE @ \union {l}]
  /\ UNCHANGED <<isolation, accounts, grants, invitation, recent, filing, open, joining>>

ChangeGrant(m) ==
  /\ MayManage(m) /\ Change
  /\ \E e \in Employments, r \in Roles :
       /\ Exists(e)
       /\ grants' = [grants EXCEPT ![e] = IF r \in @ THEN @ \ {r} ELSE @ \union {r}]
  /\ UNCHANGED <<isolation, accounts, staff, invitation, recent, filing, open, joining>>

Next ==
  \/ \E m \in Managers :
       \/ Begin(m) \/ Rollback(m)
       \/ CreateInvitation(m) \/ RunImport(m) \/ Resend(m) \/ Revoke(m)
       \/ FileSeparation(m) \/ ApproveSeparation(m) \/ CompleteSeparation(m)
       \/ CancelSeparation(m) \/ SetEmploymentStatus(m) \/ ChangeManager(m)
       \/ ChangePlace(m) \/ ChangeGrant(m)
  \/ \E p \in Newcomers : SignUp(p) \/ Accept(p) \/ GiveUp(p)
  \/ \E i \in Invites : Expire(i)
  \/ HourPasses

Spec == Init /\ [][Next]_vars

-----------------------------------------------------------------------------
(* Properties *)

\* Every variable stays in its type.
TypeOK ==
  /\ isolation \in Isolations
  /\ accounts \subseteq People
  /\ staff \in [Employments -> Employee]
  /\ grants \in [Employments -> SUBSET Roles]
  /\ invitation \in [Invites -> Invitation]
  /\ recent \subseteq Invites
  /\ filing \in [Filings -> Filing]
  /\ changes \in Nat
  /\ DOMAIN open = Managers
  /\ joining \in [Newcomers -> Invites \union {None}]

Serial == isolation = "serial"

\* However transactions overlap, an employment that was created has an account exactly when one
\* invitation was accepted into it, and no invitation is accepted into two.  acceptInvitation's
\* claim and the sign-up before it see to it, resends and revocations in between included.
JoinedOnce ==
  /\ \A e \in Records : staff[e].user # None <=> \E i \in Invites : invitation[i].joined = e
  /\ \A i, j \in Invites : i # j /\ invitation[i].joined # None
                             => invitation[i].joined # invitation[j].joined

\* However transactions overlap, an employment has ended only when somebody asked for it and
\* somebody else approved; one at a time, only when that separation was completed
\* (separation-service.ts: the two-person rule, "changes nothing about access").
SeparationTookTwo ==
  \A e \in Employments : staff[e].status = "separated" =>
    \E k \in Filings : /\ filing[k].of = e /\ filing[k].by # e
                       /\ filing[k].approver \notin {None, filing[k].by}
                       /\ Serial => filing[k].status = "completed"

\* One at a time, an ended employment is live again only through the link its import sent.
OnlyTheImportLinkRevives ==
  Serial => \A k \in Filings : filing[k].status = "completed" /\ staff[filing[k].of].status # "separated"
              => \E i \in Invites : invitation[i].joined = filing[k].of
                                    /\ invitation[i].target = filing[k].of

\* A separation is two people's decision when it ends an employment, and what it has ended is
\* live again only through a link sent before (approveSeparation, completeSeparation,
\* setEmploymentStatus, acceptInvitation).
SeparationHolds == SeparationTookTwo /\ OnlyTheImportLinkRevives

\* What the code says of separation: "marks them separated and ends their access".
SeparationIsFinal ==
  \A k \in Filings : filing[k].status = "completed" => staff[filing[k].of].status = "separated"

=============================================================================
