---------------------------- MODULE MembershipProofs ----------------------------
(***************************************************************************)
(* For any number of people, invitations and separations, however their    *)
(* transactions overlap: types, that nobody joins twice, and that no       *)
(* employment ends without two people.                                     *)
(***************************************************************************)
EXTENDS Membership, TLAPS

USE NoneAssumption, PeopleAssumption, IsolationAssumption, BoundsAssumption

-----------------------------------------------------------------------------
(* What an open transaction may rely on, whoever commits meanwhile *)

Subject(r) ==
  /\ r.op \in {"invite", "import"} => r.on \in Newcomers /\ r.arg[2] \subseteq Places
  /\ r.op = "invite" => r.arg[1] \in Roles
  /\ r.op \in {"resend", "revoke"} => r.on \in Invites
  /\ r.op \in {"file", "status", "boss"} => r.on \in Employments
  /\ r.op \in {"approve", "complete", "cancel"} => r.on \in Filings
  /\ r.op = "status" => r.arg \in {"active", "suspended"}
  /\ r.op = "boss" => r.arg \in Employments \union {None}

\* An employment stays, a separation stays filed, and an approval is not taken back.
Grounded(m, r) ==
  /\ Subject(r)
  /\ r.op = "file" => Exists(r.on) /\ r.on # m
  /\ r.op \in {"approve", "complete", "cancel"} => filing[r.on].status # "none"
  /\ r.op = "complete" => filing[r.on].approver # None

OpenGrounded == \A m \in Managers : Grounded(m, open[m])

\* A separation was asked for by somebody else than whom it is about, and approved by a third.
FiledProperly(k) ==
  /\ filing[k].status # "none" => /\ filing[k].of \in Employments /\ Exists(filing[k].of)
                                  /\ filing[k].by \in Managers /\ filing[k].by # filing[k].of
  /\ filing[k].approver # None => filing[k].approver # filing[k].by
  /\ filing[k].status = "none" => filing[k].approver = None
  /\ filing[k].status \in {"approved", "completed"} => filing[k].approver # None

FilingsProper == \A k \in Filings : FiledProperly(k)

Safe == TypeOK /\ FilingsProper /\ OpenGrounded

-----------------------------------------------------------------------------
(* The rows handlers write *)

LEMMA StaffRow ==
  ASSUME NEW row \in Employee
  PROVE  /\ \A s \in Statuses : /\ [row EXCEPT !.status = s] \in Employee
                                /\ [row EXCEPT !.status = s].status = s
         /\ \A b \in Employments \union {None} : /\ [row EXCEPT !.boss = b] \in Employee
                                                 /\ [row EXCEPT !.boss = b].status = row.status
         /\ \A P \in SUBSET Places : /\ [row EXCEPT !.places = P] \in Employee
                                     /\ [row EXCEPT !.places = P].status = row.status
         /\ row.status \in Statuses /\ row.places \subseteq Places
  BY DEF Employee

LEMMA JoinedRow ==
  ASSUME NEW row \in Employee, NEW p \in People, NEW P \in SUBSET Places
  PROVE  LET new == [row EXCEPT !.status = "active", !.user = p, !.places = row.places \union P]
         IN  new \in Employee /\ new.status = "active" /\ new.user = p
<1> DEFINE Q == row.places \union P
<1>1. Q \in SUBSET Places
  BY DEF Employee
<1>2. [row EXCEPT !.status = "active", !.user = p, !.places = Q] \in Employee
  <2> HIDE DEF Q
  <2> QED BY <1>1 DEF Employee, Statuses
<1> QED BY <1>2 DEF Employee

LEMMA InvitationRow ==
  ASSUME NEW row \in Invitation
  PROVE  /\ \A s \in {"pending", "accepted", "revoked"} : [row EXCEPT !.status = s] \in Invitation
         /\ \A b \in BOOLEAN : [row EXCEPT !.late = b] \in Invitation
         /\ [row EXCEPT !.status = "pending", !.late = FALSE] \in Invitation
         /\ \A e \in Records : [row EXCEPT !.status = "accepted", !.joined = e] \in Invitation
         /\ row.places \subseteq Places /\ row.role \in Roles
         /\ row.target \in Records \union {None}
  BY DEF Invitation

LEMMA FilingRow ==
  ASSUME NEW row \in Filing
  PROVE  /\ \A s \in {"approved", "completed", "cancelled"} : [row EXCEPT !.status = s] \in Filing
         /\ \A m \in Managers : [row EXCEPT !.status = "approved", !.approver = m] \in Filing
  BY DEF Filing

-----------------------------------------------------------------------------
(* What the checks of each handler establish *)

LEMMA RequestGrounded ==
  ASSUME Safe, NEW m \in Managers, NEW op \in Operations, NEW r \in Requests(m, op)
  PROVE  Grounded(m, r) /\ r.op = op
<1> USE DEF Safe, Make, Grounded, Subject
<1>1. CASE op = "invite"
  BY <1>1 DEF Requests, Make
<1>2. CASE op = "import"
  BY <1>2 DEF Requests
<1>3. CASE op \in {"resend", "revoke"}
  BY <1>3 DEF Requests
<1>4. CASE op = "file"
  BY <1>4 DEF Requests, MayFile, Exists, Working
<1>5. CASE op \in {"approve", "cancel"}
  BY <1>5 DEF Requests
<1>6. CASE op = "complete"
  BY <1>6 DEF Requests, MayComplete, FilingsProper, FiledProperly
<1>7. CASE op = "status"
  BY <1>7 DEF Requests
<1>8. CASE op = "boss"
  BY <1>8 DEF Requests
<1> QED BY <1>1, <1>2, <1>3, <1>4, <1>5, <1>6, <1>7, <1>8 DEF Operations

LEMMA CheckedGrounded ==
  ASSUME Safe, NEW m \in Managers, NEW op \in Operations, NEW r \in Checked(m, op)
  PROVE  Grounded(m, r) /\ r.op = op
<1>1. CASE isolation = "serial"
  <2>1. r \in Requests(m, op)
    BY <1>1 DEF Checked
  <2> QED BY <2>1, RequestGrounded
<1>2. CASE isolation # "serial"
  <2>1. r = open[m] /\ open[m].op = op
    BY <1>2 DEF Checked
  <2> QED BY <2>1 DEF Safe, OpenGrounded
<1> QED BY <1>1, <1>2

-----------------------------------------------------------------------------
(* Types *)

LEMMA FreshOnes ==
  /\ (\E i \in Invites : invitation[i].status = "none")
       => FreshInvite \in Invites /\ invitation[FreshInvite].status = "none"
  /\ (\E e \in Records : ~Exists(e)) => FreshRecord \in Records /\ ~Exists(FreshRecord)
<1>1. ASSUME \E i \in Invites : invitation[i].status = "none"
      PROVE  FreshInvite \in Invites /\ invitation[FreshInvite].status = "none"
  BY <1>1 DEF FreshInvite
<1>2. ASSUME \E e \in Records : ~Exists(e)
      PROVE  FreshRecord \in Records /\ ~Exists(FreshRecord)
  BY <1>2 DEF FreshRecord
<1> QED BY <1>1, <1>2

LEMMA SendTyped ==
  ASSUME Safe, NEW p \in Newcomers, NEW role \in Roles, NEW target \in Records \union {None},
         NEW places \in SUBSET Places, Send(p, role, target, places)
  PROVE  /\ FreshInvite \in Invites /\ invitation[FreshInvite].status = "none"
         /\ invitation' \in [Invites -> Invitation] /\ recent' \subseteq Invites
<1>1. FreshInvite \in Invites /\ invitation[FreshInvite].status = "none"
  BY FreshOnes DEF Send
<1>2. [status |-> "pending", to |-> p, role |-> role, target |-> target, places |-> places,
       late |-> FALSE, joined |-> None] \in Invitation
  BY DEF Invitation, People
<1> QED BY <1>1, <1>2 DEF Safe, TypeOK, Send

LEMMA TypeStep ==
  ASSUME Safe, [Next]_vars
  PROVE  TypeOK'
<1> USE DEF Safe, TypeOK
<1>1. ASSUME NEW m \in Managers, Begin(m)
      PROVE  TypeOK'
  BY <1>1 DEF Begin
<1>2. ASSUME NEW m \in Managers, Rollback(m)
      PROVE  TypeOK'
  BY <1>2 DEF Rollback
<1>3. ASSUME NEW m \in Managers, CreateInvitation(m)
      PROVE  TypeOK'
  <2> PICK r \in Checked(m, "invite") : CreateInvitation(m)!(r)
    BY <1>3 DEF CreateInvitation
  <2>1. r.on \in Newcomers /\ r.arg[1] \in Roles /\ r.arg[2] \in SUBSET Places
    BY CheckedGrounded DEF Operations, Grounded, Subject
  <2>2. invitation' \in [Invites -> Invitation] /\ recent' \subseteq Invites
    BY <2>1, SendTyped
  <2> QED BY <2>2 DEF Finish
<1>4. ASSUME NEW m \in Managers, RunImport(m)
      PROVE  TypeOK'
  <2> PICK r \in Checked(m, "import") : RunImport(m)!(r)
    BY <1>4 DEF RunImport
  <2>1. r.on \in Newcomers /\ r.arg[2] \in SUBSET Places
    BY CheckedGrounded DEF Operations, Grounded, Subject
  <2>2. FreshRecord \in Records
    BY FreshOnes
  <2>3. staff' \in [Employments -> Employee] /\ changes' \in Nat
    BY <2>1, <2>2 DEF Employee, People, Employments, Statuses
  <2>4. invitation' \in [Invites -> Invitation] /\ recent' \subseteq Invites
    <3>1. CASE r.arg[1]
      BY <2>1, <2>2, <3>1, SendTyped DEF Roles
    <3>2. CASE ~r.arg[1]
      BY <3>2
    <3> QED BY <3>1, <3>2
  <2> QED BY <2>3, <2>4 DEF Finish
<1>5. ASSUME NEW m \in Managers, Resend(m)
      PROVE  TypeOK'
  <2> PICK r \in Checked(m, "resend") : Resend(m)!(r)
    BY <1>5 DEF Resend
  <2>1. r.on \in Invites
    BY CheckedGrounded DEF Operations, Grounded, Subject
  <2>2. invitation' \in [Invites -> Invitation]
    BY <2>1, InvitationRow
  <2> QED BY <2>2 DEF Finish
<1>6. ASSUME NEW m \in Managers, Revoke(m)
      PROVE  TypeOK'
  <2> PICK r \in Checked(m, "revoke") : Revoke(m)!(r)
    BY <1>6 DEF Revoke
  <2>1. r.on \in Invites
    BY CheckedGrounded DEF Operations, Grounded, Subject
  <2>2. invitation' \in [Invites -> Invitation]
    BY <2>1, InvitationRow
  <2> QED BY <2>2 DEF Finish
<1>7. ASSUME NEW i \in Invites, Expire(i)
      PROVE  TypeOK'
  BY <1>7, InvitationRow DEF Expire
<1>8. CASE HourPasses
  BY <1>8 DEF HourPasses
<1>9. ASSUME NEW p \in Newcomers, SignUp(p)
      PROVE  TypeOK'
  BY <1>9 DEF SignUp, OpenFor, People
<1>10. ASSUME NEW p \in Newcomers, Accept(p)
      PROVE  TypeOK'
  <2> DEFINE i == joining[p]
             e == IF invitation[i].target = None THEN FreshRecord ELSE invitation[i].target
  <2>1. i \in Invites /\ e \in Records
    BY <1>10, FreshOnes, InvitationRow DEF Accept
  <2>2. JoinedAs(p, i) \in Employee
    <3>1. CASE invitation[i].target = None
      BY <2>1, <3>1, InvitationRow DEF JoinedAs, Employee, Nobody, Statuses, People
    <3>2. CASE invitation[i].target # None
      <4> DEFINE old == staff[e]
      <4>1. old \in Employee /\ invitation[i].places \subseteq Places
        BY <2>1, InvitationRow DEF Employments
      <4>2. JoinedAs(p, i) = [old EXCEPT !.status = "active", !.user = p,
                                         !.places = old.places \union invitation[i].places]
        BY <2>1, <3>2 DEF JoinedAs
      <4> HIDE DEF old
      <4>3. p \in People /\ invitation[i].places \in SUBSET Places
        BY <4>1 DEF People
      <4>4. [old EXCEPT !.status = "active", !.user = p,
                        !.places = old.places \union invitation[i].places] \in Employee
        <5> DEFINE P == invitation[i].places
        <5> HIDE DEF P
        <5> QED BY <4>1, <4>3, JoinedRow
      <4> QED BY <4>2, <4>4
    <3> QED BY <3>1, <3>2
  <2>3. staff' \in [Employments -> Employee]
    BY <1>10, <2>1, <2>2 DEF Accept, Employments
  <2>4. invitation' \in [Invites -> Invitation]
    BY <1>10, <2>1, InvitationRow DEF Accept
  <2>5. grants' \in [Employments -> SUBSET Roles]
    BY ZenonT(60), <1>10, <2>1, InvitationRow DEF Accept, Employments
  <2> QED BY <1>10, <2>3, <2>4, <2>5 DEF Accept
<1>11. ASSUME NEW p \in Newcomers, GiveUp(p)
      PROVE  TypeOK'
  BY <1>11 DEF GiveUp
<1>12. ASSUME NEW m \in Managers, FileSeparation(m)
      PROVE  TypeOK'
  <2> PICK r \in Checked(m, "file") : FileSeparation(m)!(r)
    BY <1>12 DEF FileSeparation
  <2>1. r.on \in Employments
    BY CheckedGrounded DEF Operations, Grounded, Subject
  <2> QED BY <2>1 DEF Finish, Filing
<1>13. ASSUME NEW m \in Managers, ApproveSeparation(m)
      PROVE  TypeOK'
  <2> PICK r \in Checked(m, "approve") : ApproveSeparation(m)!(r)
    BY <1>13 DEF ApproveSeparation
  <2>1. r.on \in Filings
    BY CheckedGrounded DEF Operations, Grounded, Subject
  <2>2. filing' \in [Filings -> Filing]
    BY <2>1, FilingRow
  <2> QED BY <2>2 DEF Finish
<1>14. ASSUME NEW m \in Managers, CompleteSeparation(m)
      PROVE  TypeOK'
  <2> PICK r \in Checked(m, "complete") : CompleteSeparation(m)!(r)
    BY <1>14 DEF CompleteSeparation
  <2>0. r.on \in Filings /\ filing[r.on].of \in Employments
    BY CheckedGrounded DEF Operations, Grounded, Subject, FilingsProper, FiledProperly
  <2> DEFINE e == filing[r.on].of
             new == [staff[e] EXCEPT !.status = "separated"]
  <2>a. new \in Employee
    <3>1. staff[e] \in Employee /\ "separated" \in Statuses
      BY <2>0 DEF Statuses
    <3> QED BY <3>1, StaffRow
  <2>b. staff' = [staff EXCEPT ![e] = new]
    OBVIOUS
  <2>1. staff' \in [Employments -> Employee]
    <3> HIDE DEF new, e
    <3> QED BY <2>a, <2>b
  <2>2. filing' \in [Filings -> Filing]
    BY FilingRow
  <2>3. grants' \in [Employments -> SUBSET Roles]
    OBVIOUS
  <2> QED BY <2>1, <2>2, <2>3 DEF Finish
<1>15. ASSUME NEW m \in Managers, CancelSeparation(m)
      PROVE  TypeOK'
  <2> PICK r \in Checked(m, "cancel") : CancelSeparation(m)!(r)
    BY <1>15 DEF CancelSeparation
  <2>1. filing' \in [Filings -> Filing]
    BY FilingRow
  <2> QED BY <2>1 DEF Finish
<1>16. ASSUME NEW m \in Managers, SetEmploymentStatus(m)
      PROVE  TypeOK'
  <2> PICK r \in Checked(m, "status") : SetEmploymentStatus(m)!(r)
    BY <1>16 DEF SetEmploymentStatus
  <2>1. r.arg \in Statuses
    BY CheckedGrounded DEF Operations, Grounded, Subject, Statuses
  <2>2. staff' \in [Employments -> Employee]
    BY <2>1, StaffRow
  <2> QED BY <2>2 DEF Finish, Change
<1>17. ASSUME NEW m \in Managers, ChangeManager(m)
      PROVE  TypeOK'
  <2> PICK r \in Checked(m, "boss") : ChangeManager(m)!(r)
    BY <1>17 DEF ChangeManager
  <2>1. r.arg \in Employments \union {None}
    BY CheckedGrounded DEF Operations, Grounded, Subject
  <2>2. staff' \in [Employments -> Employee]
    BY <2>1, StaffRow
  <2> QED BY <2>2 DEF Finish, Change
<1>18. ASSUME NEW m \in Managers, ChangePlace(m)
      PROVE  TypeOK'
  <2> PICK e \in Employments, l \in Places : ChangePlace(m)!2!(e, l)
    BY <1>18 DEF ChangePlace
  <2> DEFINE P == IF l \in staff[e].places THEN staff[e].places \ {l} ELSE staff[e].places \union {l}
  <2>a. staff[e] \in Employee /\ P \in SUBSET Places
    BY StaffRow
  <2>b. [staff[e] EXCEPT !.places = P] \in Employee
    BY <2>a, StaffRow
  <2>c. staff' = [staff EXCEPT ![e] = [staff[e] EXCEPT !.places = P]]
    OBVIOUS
  <2>1. staff' \in [Employments -> Employee]
    BY <2>b, <2>c
  <2> QED BY <1>18, <2>1 DEF ChangePlace, Change
<1>19. ASSUME NEW m \in Managers, ChangeGrant(m)
      PROVE  TypeOK'
  BY <1>19 DEF ChangeGrant, Change
<1>20. CASE UNCHANGED vars
  BY <1>20 DEF vars
<1> QED
  BY <1>1, <1>2, <1>3, <1>4, <1>5, <1>6, <1>7, <1>8, <1>9, <1>10, <1>11, <1>12, <1>13, <1>14,
     <1>15, <1>16, <1>17, <1>18, <1>19, <1>20 DEF Next

-----------------------------------------------------------------------------
(* What no step takes back *)

\* The actions that write no employment, and those that write no separation.
LEMMA OthersKeepStaff ==
  ASSUME [Next]_vars, staff' # staff
  PROVE  \/ \E m \in Managers : \/ RunImport(m) \/ CompleteSeparation(m) \/ SetEmploymentStatus(m)
                                \/ ChangeManager(m) \/ ChangePlace(m)
         \/ \E p \in Newcomers : Accept(p)
  BY ZenonT(60) DEF Next, vars, Begin, Rollback, CreateInvitation, Resend, Revoke, FileSeparation,
         ApproveSeparation, CancelSeparation, ChangeGrant, SignUp, GiveUp, Expire, HourPasses

LEMMA OthersKeepFiling ==
  ASSUME [Next]_vars, filing' # filing
  PROVE  \E m \in Managers : \/ FileSeparation(m) \/ ApproveSeparation(m) \/ CompleteSeparation(m)
                             \/ CancelSeparation(m)
  BY ZenonT(60) DEF Next, vars, Begin, Rollback, CreateInvitation, RunImport, Resend, Revoke, ChangeGrant,
         SetEmploymentStatus, ChangeManager, ChangePlace, SignUp, Accept, GiveUp, Expire, HourPasses

LEMMA EmploymentStays ==
  ASSUME Safe, [Next]_vars, NEW e \in Employments, Exists(e)
  PROVE  Exists(e)'
<1> USE DEF Safe, TypeOK, Exists
<1>0. CASE staff' = staff
  BY <1>0
<1>1. ASSUME NEW m \in Managers, RunImport(m)
      PROVE  Exists(e)'
  BY <1>1, FreshOnes DEF RunImport
<1>2. ASSUME NEW m \in Managers, CompleteSeparation(m)
      PROVE  Exists(e)'
  BY <1>2, StaffRow DEF CompleteSeparation, Statuses
<1>3. ASSUME NEW m \in Managers, SetEmploymentStatus(m)
      PROVE  Exists(e)'
  <2> PICK r \in Checked(m, "status") : SetEmploymentStatus(m)!(r)
    BY <1>3 DEF SetEmploymentStatus
  <2>1. r.arg \in {"active", "suspended"}
    BY CheckedGrounded DEF Operations, Grounded, Subject
  <2>2. staff' = [staff EXCEPT ![r.on].status = r.arg]
    OBVIOUS
  <2> QED BY <2>1, <2>2 DEF Employee
<1>4. ASSUME NEW m \in Managers, ChangeManager(m)
      PROVE  Exists(e)'
  <2> PICK r \in Checked(m, "boss") : ChangeManager(m)!(r)
    BY <1>4 DEF ChangeManager
  <2>1. r.arg \in Employments \union {None}
    BY CheckedGrounded DEF Operations, Grounded, Subject
  <2> QED BY <2>1, StaffRow
<1>5. ASSUME NEW m \in Managers, ChangePlace(m)
      PROVE  Exists(e)'
  BY <1>5 DEF ChangePlace, Employee
<1>6. ASSUME NEW p \in Newcomers, Accept(p)
      PROVE  Exists(e)'
  BY <1>6, FreshOnes DEF Accept, JoinedAs, Employee
<1> QED BY <1>0, <1>1, <1>2, <1>3, <1>4, <1>5, <1>6, OthersKeepStaff

\* What the separation says of itself from one state to the next.
FilingStays(k) ==
  filing[k].status # "none" =>
    /\ filing'[k].status # "none" /\ filing'[k].of = filing[k].of /\ filing'[k].by = filing[k].by
    /\ filing[k].approver # None => filing'[k].approver # None

LEMMA FilingStep ==
  ASSUME Safe, [Next]_vars, NEW k \in Filings
  PROVE  FilingStays(k) /\ FiledProperly(k)'
<1> USE DEF Safe, TypeOK, FilingsProper, FilingStays
<1>e. \A e \in Employments : Exists(e) => Exists(e)'
  BY EmploymentStays
<1>0. CASE filing' = filing
  BY <1>0, <1>e DEF FiledProperly
<1>1. ASSUME NEW m \in Managers, FileSeparation(m)
      PROVE  FilingStays(k) /\ FiledProperly(k)'
  <2> PICK r \in Checked(m, "file") : FileSeparation(m)!(r)
    BY <1>1 DEF FileSeparation
  <2>1. r.on \in Employments /\ r.on # m /\ Exists(r.on)
    BY CheckedGrounded DEF Operations, Grounded, Subject
  <2> DEFINE n == CHOOSE x \in Filings : filing[x].status = "none"
  <2>2. n \in Filings /\ filing[n].status = "none"
    OBVIOUS
  <2>3. filing' = [filing EXCEPT ![n] = [status |-> "pending", of |-> r.on, by |-> m,
                                         approver |-> None]]
    OBVIOUS
  <2> HIDE DEF n
  <2> QED BY <1>e, <2>1, <2>2, <2>3 DEF FiledProperly
<1>2. ASSUME NEW m \in Managers, ApproveSeparation(m)
      PROVE  FilingStays(k) /\ FiledProperly(k)'
  <2> PICK r \in Checked(m, "approve") : ApproveSeparation(m)!(r)
    BY <1>2 DEF ApproveSeparation
  <2>1. r.on \in Filings /\ filing[r.on].status # "none"
    BY CheckedGrounded DEF Operations, Grounded, Subject
  <2>2. \A x \in Filings : filing[x] \in Filing
    OBVIOUS
  <2> QED BY <1>e, <2>1, <2>2 DEF FiledProperly, Filing
<1>3. ASSUME NEW m \in Managers, CompleteSeparation(m)
      PROVE  FilingStays(k) /\ FiledProperly(k)'
  <2> PICK r \in Checked(m, "complete") : CompleteSeparation(m)!(r)
    BY <1>3 DEF CompleteSeparation
  <2>1. r.on \in Filings /\ filing[r.on].status # "none" /\ filing[r.on].approver # None
    BY CheckedGrounded DEF Operations, Grounded, Subject
  <2>2. \A x \in Filings : filing[x] \in Filing
    OBVIOUS
  <2>3. filing' = [filing EXCEPT ![r.on].status = "completed"]
    OBVIOUS
  <2> QED BY <1>e, <2>1, <2>2, <2>3 DEF FiledProperly, Filing
<1>4. ASSUME NEW m \in Managers, CancelSeparation(m)
      PROVE  FilingStays(k) /\ FiledProperly(k)'
  <2> PICK r \in Checked(m, "cancel") : CancelSeparation(m)!(r)
    BY <1>4 DEF CancelSeparation
  <2>1. r.on \in Filings /\ filing[r.on].status # "none"
    BY CheckedGrounded DEF Operations, Grounded, Subject
  <2>2. \A x \in Filings : filing[x] \in Filing
    OBVIOUS
  <2> QED BY <1>e, <2>1, <2>2 DEF FiledProperly, Filing
<1> QED BY <1>0, <1>1, <1>2, <1>3, <1>4, OthersKeepFiling

LEMMA OpenStep ==
  ASSUME Safe, [Next]_vars
  PROVE  OpenGrounded'
<1> SUFFICES ASSUME NEW q \in Managers
             PROVE  Grounded(q, open[q])'
  BY DEF OpenGrounded
<1>1. CASE open'[q] = open[q]
  <2>1. Grounded(q, open[q])
    BY DEF Safe, OpenGrounded
  <2> QED BY <1>1, <2>1, EmploymentStays, FilingStep DEF Grounded, Subject, FilingStays
<1>2. CASE open'[q] = Idle
  BY <1>2 DEF Grounded, Subject, Idle
<1>3. CASE Begin(q)
  <2> PICK op \in Operations : \E r \in Requests(q, op) : open' = [open EXCEPT ![q] = r]
    BY <1>3 DEF Begin
  <2> PICK r \in Requests(q, op) : open' = [open EXCEPT ![q] = r]
    OBVIOUS
  <2>1. Grounded(q, r)
    BY RequestGrounded
  <2>2. open'[q] = r
    BY DEF Safe, TypeOK
  <2>3. staff' = staff /\ filing' = filing
    BY SMTT(60), <1>3 DEF Begin
  <2> QED BY <2>1, <2>2, <2>3 DEF Grounded, Subject, Exists
<1>4. \/ open'[q] = open[q] \/ open'[q] = Idle \/ Begin(q)
  BY ZenonT(60) DEF Safe, TypeOK, Next, vars, Begin, Rollback, CreateInvitation, RunImport, Resend, Revoke, Finish,
         FileSeparation, ApproveSeparation, CompleteSeparation, CancelSeparation,
         SetEmploymentStatus, ChangeManager, ChangePlace, ChangeGrant, SignUp, Accept, GiveUp,
         Expire, HourPasses
<1> QED BY <1>1, <1>2, <1>3, <1>4

LEMMA InitSafe == Init => Safe
<1> SUFFICES ASSUME Init PROVE Safe
  OBVIOUS
<1>1. staff \in [Employments -> Employee] /\ grants \in [Employments -> SUBSET Roles]
  BY DEF Init, Employments, Employee, Statuses, People, Nobody, Roles
<1>2. invitation \in [Invites -> Invitation] /\ filing \in [Filings -> Filing]
  BY DEF Init, Invitation, Filing, Unsent, Unfiled, Roles
<1>3. TypeOK
  BY <1>1, <1>2 DEF Init, TypeOK, People
<1>4. FilingsProper
  BY DEF Init, FilingsProper, FiledProperly, Unfiled
<1>5. OpenGrounded
  BY DEF Init, OpenGrounded, Grounded, Subject, Idle
<1> QED BY <1>3, <1>4, <1>5 DEF Safe

LEMMA SafeStep == Safe /\ [Next]_vars => Safe'
BY TypeStep, FilingStep, OpenStep DEF Safe, FilingsProper

\* Every variable keeps its type, whoever overlaps with whom.
THEOREM TypeCorrect == Spec => []TypeOK
<1>1. Safe => TypeOK
  BY DEF Safe
<1> QED BY InitSafe, SafeStep, <1>1, PTL DEF Spec

-----------------------------------------------------------------------------
(* Joining *)

\* An invitation that was never sent has nobody; the employments it names exist; whoever has
\* just signed up for it is the one it was sent to, and nobody has joined by it; whoever has
\* joined by it has an account, and so never signs up again.
LinkProper(i) ==
  /\ invitation[i].status = "none" => invitation[i].joined = None /\ invitation[i].target = None
  /\ invitation[i].target # None => Exists(invitation[i].target)
  /\ invitation[i].joined # None => Exists(invitation[i].joined)
  /\ \A p \in Newcomers : joining[p] # None /\ joining[p] = i
       => /\ invitation[i].status # "none" /\ invitation[i].to = p /\ p \in accounts
          /\ invitation[i].joined = None
  /\ \A p \in Newcomers : invitation[i].joined # None /\ invitation[i].to = p => p \in accounts

\* Two invitations have nothing to do with one employment.
Apart(i, j) ==
  /\ invitation[i].target # None => invitation[i].target # invitation[j].target
  /\ invitation[i].target # None => invitation[i].target # invitation[j].joined
  /\ invitation[i].joined # None => invitation[i].joined # invitation[j].joined

UserByLink(e) == staff[e].user # None <=> \E i \in Invites : invitation[i].joined = e

Joined ==
  /\ \A i \in Invites : LinkProper(i)
  /\ \A i, j \in Invites : i # j => Apart(i, j)
  /\ \A e \in Records : UserByLink(e)

LEMMA JoinedOnceFollows == Joined => JoinedOnce
BY DEF Joined, Apart, UserByLink, JoinedOnce

\* What a step does that neither sends nor answers an invitation.
SameLink(i) ==
  /\ invitation'[i].to = invitation[i].to /\ invitation'[i].target = invitation[i].target
  /\ invitation'[i].joined = invitation[i].joined
  /\ invitation'[i].status = "none" => invitation[i].status = "none"

Quiet ==
  /\ \A i \in Invites : SameLink(i)
  /\ \A e \in Records : staff'[e].user = staff[e].user
  /\ \A p \in Newcomers : joining'[p] \in {joining[p], None}
  /\ accounts' = accounts

LEMMA QuietStep ==
  ASSUME Safe, [Next]_vars
  PROVE  \/ Quiet
         \/ \E m \in Managers : CreateInvitation(m) \/ RunImport(m)
         \/ \E p \in Newcomers : SignUp(p) \/ Accept(p)
<1> USE DEF Safe, TypeOK
<1>a. \A i \in Invites : invitation[i] \in Invitation
  OBVIOUS
<1>b. \A e \in Records : e \in Employments /\ staff[e] \in Employee
  BY DEF Employments
<1>1. ASSUME NEW m \in Managers, Resend(m) \/ Revoke(m)
      PROVE  Quiet
  <2>1. \A i \in Invites : SameLink(i)
    <3>1. CASE Resend(m)
      BY <3>1, <1>a DEF Resend, SameLink, Invitation
    <3>2. CASE Revoke(m)
      BY <3>2, <1>a DEF Revoke, SameLink, Invitation
    <3> QED BY <1>1, <3>1, <3>2
  <2> QED BY <1>1, <2>1 DEF Resend, Revoke, Finish, Quiet
<1>2. ASSUME NEW i \in Invites, Expire(i)
      PROVE  Quiet
  <2>1. \A j \in Invites : SameLink(j)
    BY <1>2, <1>a DEF Expire, SameLink, Invitation
  <2> QED BY <1>2, <2>1 DEF Expire, Quiet
<1>3. ASSUME NEW m \in Managers,
             CompleteSeparation(m) \/ SetEmploymentStatus(m) \/ ChangeManager(m) \/ ChangePlace(m)
      PROVE  Quiet
  <2>1. \A e \in Records : staff'[e].user = staff[e].user
    <3>1. CASE CompleteSeparation(m)
      BY <3>1, <1>b DEF CompleteSeparation, Employee
    <3>2. CASE SetEmploymentStatus(m)
      BY <3>2, <1>b DEF SetEmploymentStatus, Employee
    <3>3. CASE ChangeManager(m)
      BY <3>3, <1>b DEF ChangeManager, Employee
    <3>4. CASE ChangePlace(m)
      BY <3>4, <1>b DEF ChangePlace, Employee
    <3> QED BY <1>3, <3>1, <3>2, <3>3, <3>4
  <2>2. invitation' = invitation /\ joining' = joining /\ accounts' = accounts
    BY <1>3 DEF CompleteSeparation, SetEmploymentStatus, ChangeManager, ChangePlace, Finish
  <2> QED BY <2>1, <2>2 DEF Quiet, SameLink
<1>4. ASSUME NEW p \in Newcomers, GiveUp(p)
      PROVE  Quiet
  BY <1>4 DEF GiveUp, Quiet, SameLink
<1>5. ASSUME UNCHANGED <<invitation, staff, joining, accounts>>
      PROVE  Quiet
  BY <1>5 DEF Quiet, SameLink
<1>6. ASSUME NEW m \in Managers, \/ Begin(m) \/ Rollback(m) \/ FileSeparation(m) \/ ApproveSeparation(m)
                                 \/ CancelSeparation(m) \/ ChangeGrant(m)
      PROVE  UNCHANGED <<invitation, staff, joining, accounts>>
  BY <1>6 DEF Begin, Rollback, FileSeparation, ApproveSeparation, CancelSeparation, ChangeGrant, Finish
<1>7. HourPasses \/ UNCHANGED vars => UNCHANGED <<invitation, staff, joining, accounts>>
  BY DEF HourPasses, vars
<1> QED BY <1>1, <1>2, <1>3, <1>4, <1>5, <1>6, <1>7 DEF Next

LEMMA QuietJoined ==
  ASSUME Safe, Joined, [Next]_vars, Quiet
  PROVE  Joined'
<1>1. \A e \in Records : e \in Employments /\ (Exists(e) => Exists(e)')
  BY EmploymentStays DEF Employments
<1>2. \A i \in Invites : invitation[i] \in Invitation
  BY DEF Safe, TypeOK
<1>3. ASSUME NEW i \in Invites PROVE LinkProper(i)'
  <2>1. LinkProper(i) /\ SameLink(i)
    BY DEF Joined, Quiet
  <2>2. /\ invitation[i].target \in Records \union {None}
        /\ invitation[i].joined \in Records \union {None}
    BY <1>2 DEF Invitation
  <2> QED BY <1>1, <2>1, <2>2 DEF LinkProper, SameLink, Quiet, Exists
<1>4. ASSUME NEW i \in Invites, NEW j \in Invites, i # j PROVE Apart(i, j)'
  BY <1>4 DEF Joined, Apart, Quiet, SameLink
<1>5. ASSUME NEW e \in Records PROVE UserByLink(e)'
  BY DEF Joined, UserByLink, Quiet, SameLink
<1> QED BY <1>3, <1>4, <1>5 DEF Joined

\* A new invitation, to somebody who may be imported with it.
LEMMA SendJoined ==
  ASSUME Safe, Joined, [Next]_vars, NEW p \in Newcomers, NEW role \in Roles,
         NEW target \in Records \union {None}, NEW places \in SUBSET Places,
         Send(p, role, target, places),
         accounts' = accounts, joining' = joining,
         \A e \in Records : staff'[e].user = staff[e].user,
         target # None => Exists(target)' /\ ~Exists(target)
  PROVE  Joined'
<1> DEFINE n == FreshInvite
           row == [status |-> "pending", to |-> p, role |-> role, target |-> target,
                   places |-> places, late |-> FALSE, joined |-> None]
<1>1. n \in Invites /\ invitation[n].status = "none"
  BY SendTyped
<1>2. invitation' = [invitation EXCEPT ![n] = row]
  BY DEF Send
<1>3. invitation'[n] = row /\ \A i \in Invites \ {n} : invitation'[i] = invitation[i]
  BY <1>1, <1>2 DEF Safe, TypeOK
<1>4. \A e \in Records : e \in Employments /\ (Exists(e) => Exists(e)')
  BY EmploymentStays DEF Employments
<1>5. \A i \in Invites : /\ invitation[i].target \in Records \union {None}
                         /\ invitation[i].joined \in Records \union {None}
  BY DEF Safe, TypeOK, Invitation
<1>6. invitation[n].joined = None /\ invitation[n].target = None
  BY <1>1 DEF Joined, LinkProper
<1>7. invitation'[n].target = target /\ invitation'[n].joined = None /\ invitation'[n].status # "none"
  BY <1>3
<1> HIDE DEF n, row
<1>8. ASSUME NEW i \in Invites PROVE LinkProper(i)'
  <2>1. LinkProper(i)
    BY DEF Joined
  <2>2. CASE i = n
    <3>1. \A q \in Newcomers : ~(joining[q] # None /\ joining[q] = n)
      <4> SUFFICES ASSUME NEW q \in Newcomers, joining[q] # None, joining[q] = n PROVE FALSE
        OBVIOUS
      <4>1. invitation[n].status # "none"
        BY <2>1, <2>2 DEF LinkProper
      <4> QED BY <4>1, <1>1
    <3> QED BY <1>7, <2>2, <3>1 DEF LinkProper
  <2>3. CASE i # n
    BY <1>3, <1>4, <1>5, <2>1, <2>3 DEF LinkProper
  <2> QED BY <2>2, <2>3
<1>9. ASSUME NEW i \in Invites, NEW j \in Invites, i # j PROVE Apart(i, j)'
  BY <1>1, <1>3, <1>5, <1>6, <1>7, <1>9 DEF Joined, LinkProper, Apart
<1>10. ASSUME NEW e \in Records PROVE UserByLink(e)'
  BY <1>1, <1>3, <1>6, <1>7 DEF Joined, UserByLink, LinkProper
<1> QED BY <1>8, <1>9, <1>10 DEF Joined

LEMMA ImportJoined ==
  ASSUME Safe, Joined, [Next]_vars, NEW m \in Managers, RunImport(m)
  PROVE  Joined'
<1> PICK r \in Checked(m, "import") : RunImport(m)!(r)
  BY DEF RunImport
<1>1. r.on \in Newcomers /\ r.arg[2] \in SUBSET Places
  BY CheckedGrounded DEF Operations, Grounded, Subject
<1>2. PICK e \in Records : e = FreshRecord /\ ~Exists(e)
  BY FreshOnes
<1>3. PICK boss \in {None} \union Employments : staff' = [staff EXCEPT ![e] = [status |-> "invited", email |-> r.on, user |-> None,
                                                boss |-> boss, places |-> r.arg[2]]]
  BY <1>2
<1>4. staff'[e].user = None /\ staff'[e].status = "invited"
  BY <1>2, <1>3 DEF Safe, TypeOK, Employments
<1>5. staff[e].user = None
  BY <1>2 DEF Joined, UserByLink, LinkProper
<1>6. \A f \in Records : staff'[f].user = staff[f].user
  BY <1>2, <1>3, <1>4, <1>5 DEF Safe, TypeOK, Employments
<1>7. accounts' = accounts /\ joining' = joining
  BY DEF Finish
<1>8. CASE r.arg[1]
  <2>1. Send(r.on, "employee", e, r.arg[2])
    BY <1>2, <1>8
  <2>2. Exists(e)' /\ ~Exists(e)
    BY <1>2, <1>4 DEF Exists
  <2>3. e \in Records \union {None} /\ "employee" \in Roles
    BY <1>2 DEF Roles
  <2> QED BY <1>1, <1>6, <1>7, <2>1, <2>2, <2>3, SendJoined
<1>9. CASE ~r.arg[1]
  <2>1. Quiet
    BY <1>6, <1>7, <1>9 DEF Quiet, SameLink
  <2> QED BY <2>1, QuietJoined
<1> QED BY <1>8, <1>9

LEMMA SignUpJoined ==
  ASSUME Safe, Joined, [Next]_vars, NEW p \in Newcomers, SignUp(p)
  PROVE  Joined'
<1>1. PICK i \in Invites : /\ invitation[i].status = "pending" /\ invitation[i].to = p
                          /\ joining' = [joining EXCEPT ![p] = i]
  BY DEF SignUp, OpenFor
<1>2. /\ p \notin accounts /\ accounts' = accounts \union {p}
      /\ staff' = staff /\ invitation' = invitation
  BY DEF SignUp
<1>3. invitation[i].joined = None
  BY <1>1, <1>2 DEF Joined, LinkProper
<1>4. joining'[p] = i /\ \A q \in Newcomers \ {p} : joining'[q] = joining[q]
  BY <1>1 DEF Safe, TypeOK
<1>5. ASSUME NEW j \in Invites PROVE LinkProper(j)'
  BY <1>1, <1>2, <1>3, <1>4 DEF Joined, LinkProper, Exists
<1>6. ASSUME NEW j \in Invites, NEW k \in Invites, j # k PROVE Apart(j, k)'
  BY <1>2, <1>6 DEF Joined, Apart
<1>7. ASSUME NEW e \in Records PROVE UserByLink(e)'
  BY <1>2 DEF Joined, UserByLink
<1> QED BY <1>5, <1>6, <1>7 DEF Joined

LEMMA AcceptJoined ==
  ASSUME Safe, Joined, [Next]_vars, NEW p \in Newcomers, Accept(p)
  PROVE  Joined'
<1>0. PICK i \in Invites : i = joining[p] /\ i # None
  BY DEF Accept, Safe, TypeOK
<1>1. PICK e \in Records : e = IF invitation[i].target = None THEN FreshRecord ELSE invitation[i].target
  BY <1>0, FreshOnes, InvitationRow DEF Accept, Safe, TypeOK
<1>2. invitation[i].target = None => ~Exists(e)
  BY <1>0, <1>1, FreshOnes DEF Accept
<1>3. invitation[i].to = p /\ p \in accounts /\ invitation[i].joined = None
  BY <1>0 DEF Joined, LinkProper
<1>4. invitation' = [invitation EXCEPT ![i] = [@ EXCEPT !.status = "accepted", !.joined = e]]
  BY <1>0, <1>1 DEF Accept
<1>5. /\ invitation'[i].joined = e /\ invitation'[i].target = invitation[i].target
      /\ invitation'[i].to = p /\ invitation'[i].status = "accepted"
  BY <1>1, <1>3, <1>4 DEF Safe, TypeOK, Invitation
<1>6. \A j \in Invites \ {i} : invitation'[j] = invitation[j]
  BY <1>4 DEF Safe, TypeOK
<1>7. staff' = [staff EXCEPT ![e] = JoinedAs(p, i)] /\ accounts' = accounts
  BY <1>0, <1>1 DEF Accept
<1>8. JoinedAs(p, i).user = p /\ JoinedAs(p, i).status = "active"
  <2>1. CASE invitation[i].target = None
    BY <2>1 DEF JoinedAs, Nobody
  <2>2. CASE invitation[i].target # None
    <3>1. staff[e] \in Employee /\ JoinedAs(p, i) = [staff[e] EXCEPT !.status = "active", !.user = p,
                                                  !.places = staff[e].places \union invitation[i].places]
      BY <1>1, <2>2 DEF JoinedAs, Safe, TypeOK, Employments
    <3> QED BY <3>1 DEF Employee
  <2> QED BY <2>1, <2>2
<1>9. staff'[e].user = p /\ Exists(e)' /\ \A f \in Records \ {e} : staff'[f] = staff[f]
  BY <1>1, <1>7, <1>8 DEF Safe, TypeOK, Employments, Exists
<1>10. \A f \in Records : f \in Employments /\ (Exists(f) => Exists(f)')
  BY EmploymentStays DEF Employments
<1>11. \A j \in Invites : /\ invitation[j].target \in Records \union {None}
                          /\ invitation[j].joined \in Records \union {None}
  BY DEF Safe, TypeOK, Invitation
<1>12. joining'[p] = None /\ \A q \in Newcomers \ {p} : joining'[q] = joining[q]
  BY DEF Accept, Safe, TypeOK
<1>13. \A j \in Invites \ {i} : invitation[j].target # e /\ invitation[j].joined # e
  BY <1>1, <1>2 DEF Joined, LinkProper, Apart
<1>14. ASSUME NEW j \in Invites PROVE LinkProper(j)'
  <2>1. LinkProper(j)
    BY DEF Joined
  <2>2. CASE j = i
    <3>1. \A q \in Newcomers : joining'[q] # None /\ joining'[q] = i => FALSE
      BY <1>0, <1>3, <1>12, <2>1, <2>2 DEF LinkProper
    <3> QED BY <1>3, <1>5, <1>7, <1>9, <1>10, <1>11, <2>1, <2>2, <3>1 DEF LinkProper
  <2>3. CASE j # i
    BY <1>6, <1>7, <1>10, <1>11, <1>12, <2>1, <2>3 DEF LinkProper
  <2> QED BY <2>2, <2>3
<1>15. ASSUME NEW j \in Invites, NEW k \in Invites, j # k PROVE Apart(j, k)'
  BY <1>1, <1>5, <1>6, <1>13, <1>15 DEF Joined, Apart
<1>16. ASSUME NEW f \in Records PROVE UserByLink(f)'
  BY <1>1, <1>3, <1>5, <1>6, <1>9 DEF Joined, UserByLink
<1> QED BY <1>14, <1>15, <1>16 DEF Joined

LEMMA JoinedStep == Safe /\ Joined /\ [Next]_vars => Joined'
<1> SUFFICES ASSUME Safe, Joined, [Next]_vars PROVE Joined'
  OBVIOUS
<1>1. ASSUME NEW m \in Managers, CreateInvitation(m) PROVE Joined'
  <2> PICK r \in Checked(m, "invite") : CreateInvitation(m)!(r)
    BY <1>1 DEF CreateInvitation
  <2>1. r.on \in Newcomers /\ r.arg[1] \in Roles /\ r.arg[2] \in SUBSET Places
    BY CheckedGrounded DEF Operations, Grounded, Subject
  <2>2. accounts' = accounts /\ joining' = joining /\ staff' = staff
    BY DEF Finish
  <2> QED BY <2>1, <2>2, SendJoined
<1> QED BY <1>1, QuietStep, QuietJoined, ImportJoined, SignUpJoined, AcceptJoined

LEMMA InitJoined == Init => Joined
<1> SUFFICES ASSUME Init PROVE Joined
  OBVIOUS
<1>1. \A e \in Records : e \in Employments /\ e \notin Managers
  BY DEF Employments
<1>2. \A e \in Records : staff[e].user = None
  BY <1>1 DEF Init, Nobody
<1>3. \A i \in Invites : invitation[i] = Unsent
  BY DEF Init
<1>4. \A p \in Newcomers : joining[p] = None
  BY DEF Init
<1> QED BY <1>2, <1>3, <1>4 DEF Joined, LinkProper, Apart, UserByLink, Unsent

\* Nobody joins twice, and nobody shares an employment, whatever is resent, revoked, imported
\* and answered at the same time.
THEOREM JoinsOnce == Spec => []JoinedOnce
<1>1. Init => Safe /\ Joined
  BY InitSafe, InitJoined
<1>2. Safe /\ Joined /\ [Next]_vars => (Safe /\ Joined)'
  BY SafeStep, JoinedStep
<1>3. Safe /\ Joined => JoinedOnce
  BY JoinedOnceFollows
<1> QED BY <1>1, <1>2, <1>3, PTL DEF Spec

-----------------------------------------------------------------------------
(* Separation *)

\* One at a time, a completed separation stays completed, and an employment that has ended is
\* revived by an invitation only.
LEMMA SerialChecks ==
  ASSUME isolation = "serial", NEW m \in Managers
  PROVE  /\ \A r \in Checked(m, "approve") \union Checked(m, "complete") \union Checked(m, "cancel") :
              filing[r.on].status # "completed"
         /\ \A r \in Checked(m, "status") : staff[r.on].status \in Working
<1>1. \A r \in Checked(m, "approve") : filing[r.on].status # "completed"
  BY DEF Checked, Requests, Make
<1>2. \A r \in Checked(m, "complete") : filing[r.on].status # "completed"
  BY DEF Checked, Requests, Make, MayComplete
<1>3. \A r \in Checked(m, "cancel") : filing[r.on].status # "completed"
  BY DEF Checked, Requests, Make
<1>4. \A r \in Checked(m, "status") : staff[r.on].status \in Working
  BY DEF Checked, Requests, Make, MayBecome
<1> QED BY <1>1, <1>2, <1>3, <1>4

LEMMA CompletedStays ==
  ASSUME Safe, [Next]_vars, Serial, NEW k \in Filings, filing[k].status = "completed"
  PROVE  filing'[k].status = "completed" /\ filing'[k].of = filing[k].of
<1> USE DEF Safe, TypeOK, Serial
<1>0. CASE filing' = filing
  BY <1>0
<1>1. ASSUME NEW m \in Managers, FileSeparation(m)
      PROVE  filing'[k] = filing[k]
  <2>1. PICK n \in Filings : filing[n].status = "none" /\ \E row : filing' = [filing EXCEPT ![n] = row]
    BY <1>1 DEF FileSeparation
  <2> QED BY <2>1
<1>2. ASSUME NEW m \in Managers, ApproveSeparation(m)
      PROVE  filing'[k] = filing[k]
  BY <1>2, SerialChecks DEF ApproveSeparation
<1>3. ASSUME NEW m \in Managers, CompleteSeparation(m)
      PROVE  filing'[k] = filing[k]
  BY <1>3, SerialChecks DEF CompleteSeparation
<1>4. ASSUME NEW m \in Managers, CancelSeparation(m)
      PROVE  filing'[k] = filing[k]
  BY <1>4, SerialChecks DEF CancelSeparation
<1> QED BY <1>0, <1>1, <1>2, <1>3, <1>4, OthersKeepFiling

\* The separation that ended an employment.
EndedBy(e, k) ==
  /\ filing[k].of = e /\ filing[k].by # e /\ filing[k].approver \notin {None, filing[k].by}
  /\ filing[k].status # "none"
  /\ Serial => filing[k].status = "completed"

TookTwo == \A e \in Employments : staff[e].status = "separated" => \E k \in Filings : EndedBy(e, k)

\* Who an ended employment was revived by.
Revived(k) ==
  Serial /\ filing[k].status = "completed" /\ staff[filing[k].of].status # "separated"
    => \E i \in Invites : invitation[i].joined = filing[k].of /\ invitation[i].target = filing[k].of

LEMMA EndsAsFiled ==
  ASSUME Safe, [Next]_vars, NEW e \in Employments,
         staff[e].status # "separated", staff'[e].status = "separated"
  PROVE  \E k \in Filings : EndedBy(e, k)'
<1> USE DEF Safe, TypeOK
<1>a. staff' # staff
  OBVIOUS
<1>b. \A f \in Employments : staff[f] \in Employee
  OBVIOUS
<1>1. ASSUME NEW m \in Managers, RunImport(m) PROVE FALSE
  BY <1>1, FreshOnes DEF RunImport, Employments
<1>2. ASSUME NEW m \in Managers, SetEmploymentStatus(m) PROVE FALSE
  <2> PICK r \in Checked(m, "status") : SetEmploymentStatus(m)!(r)
    BY <1>2 DEF SetEmploymentStatus
  <2>1. r.arg \in {"active", "suspended"}
    BY CheckedGrounded DEF Operations, Grounded, Subject
  <2>2. staff' = [staff EXCEPT ![r.on].status = r.arg]
    OBVIOUS
  <2> QED BY <1>b, <2>1, <2>2 DEF Employee
<1>3. ASSUME NEW m \in Managers, ChangeManager(m) PROVE FALSE
  <2> PICK r \in Checked(m, "boss") : ChangeManager(m)!(r)
    BY <1>3 DEF ChangeManager
  <2>2. staff' = [staff EXCEPT ![r.on].boss = r.arg]
    OBVIOUS
  <2> QED BY <1>b, <2>2 DEF Employee
<1>4. ASSUME NEW m \in Managers, ChangePlace(m) PROVE FALSE
  BY <1>4, <1>b DEF ChangePlace, Employee
<1>5. ASSUME NEW p \in Newcomers, Accept(p) PROVE FALSE
  BY <1>5, <1>b, FreshOnes DEF Accept, JoinedAs, Employee, Nobody
<1>6. ASSUME NEW m \in Managers, CompleteSeparation(m) PROVE \E k \in Filings : EndedBy(e, k)'
  <2> PICK r \in Checked(m, "complete") : CompleteSeparation(m)!(r)
    BY <1>6 DEF CompleteSeparation
  <2>1. r.on \in Filings /\ filing[r.on].status # "none" /\ filing[r.on].approver # None
    BY CheckedGrounded DEF Operations, Grounded, Subject
  <2>2. filing[r.on].of = e
    BY <1>b DEF Employee
  <2>3. filing'[r.on] = [filing[r.on] EXCEPT !.status = "completed"] /\ filing[r.on] \in Filing
    BY <2>1
  <2>4. FiledProperly(r.on) /\ FiledProperly(r.on)'
    BY <2>1, FilingStep DEF FilingsProper
  <2>5. EndedBy(e, r.on)'
    BY <2>1, <2>2, <2>3, <2>4 DEF EndedBy, FiledProperly, Filing
  <2> QED BY <2>1, <2>5
<1> QED BY <1>a, <1>1, <1>2, <1>3, <1>4, <1>5, <1>6, OthersKeepStaff

LEMMA TookTwoStep == Safe /\ TookTwo /\ [Next]_vars => TookTwo'
<1> SUFFICES ASSUME Safe, TookTwo, [Next]_vars, NEW e \in Employments, staff'[e].status = "separated"
             PROVE  \E k \in Filings : EndedBy(e, k)'
  BY DEF TookTwo
<1>1. CASE staff[e].status # "separated"
  BY <1>1, EndsAsFiled
<1>2. CASE staff[e].status = "separated"
  <2>1. PICK k \in Filings : EndedBy(e, k)
    BY <1>2 DEF TookTwo
  <2>2. FilingStays(k) /\ FiledProperly(k)'
    BY SMTT(60), FilingStep
  <2>3. isolation' = isolation
    BY ZenonT(60) DEF Next, vars, Begin, Rollback, CreateInvitation, RunImport, Resend, Revoke, Finish,
           FileSeparation, ApproveSeparation, CompleteSeparation, CancelSeparation,
           SetEmploymentStatus, ChangeManager, ChangePlace, ChangeGrant, SignUp, Accept, GiveUp,
           Expire, HourPasses
  <2>4. Serial => filing'[k].status = "completed"
    BY <2>1, CompletedStays DEF EndedBy
  <2>5. EndedBy(e, k)'
    BY <2>1, <2>2, <2>3, <2>4 DEF EndedBy, FilingStays, FiledProperly, Serial
  <2> QED BY <2>5
<1> QED BY <1>1, <1>2

\* An employment that has ended was asked for by somebody, not by the one it is about, and
\* approved by somebody else, however requests overlap.
THEOREM TwoPersonRule == Spec => []SeparationTookTwo
<1>1. Init => Safe /\ TookTwo
  <2>1. ASSUME Init, NEW e \in Employments PROVE staff[e].status # "separated"
    BY <2>1 DEF Init, Nobody
  <2> QED BY <2>1, InitSafe DEF TookTwo
<1>2. Safe /\ TookTwo /\ [Next]_vars => (Safe /\ TookTwo)'
  BY SafeStep, TookTwoStep
<1>3. TookTwo => SeparationTookTwo
  BY DEF TookTwo, EndedBy, SeparationTookTwo
<1> QED BY <1>1, <1>2, <1>3, PTL DEF Spec

-----------------------------------------------------------------------------
(* What revives an ended employment *)

LEMMA AnswerStays ==
  ASSUME Safe, Joined, [Next]_vars, NEW i \in Invites, invitation[i].joined # None
  PROVE  /\ invitation'[i].joined = invitation[i].joined
         /\ invitation'[i].target = invitation[i].target
<1> USE DEF Safe, TypeOK
<1>0. LinkProper(i)
  BY DEF Joined
<1>1. CASE Quiet
  BY <1>1 DEF Quiet, SameLink
<1>2. ASSUME NEW m \in Managers, CreateInvitation(m) \/ RunImport(m)
      PROVE  invitation'[i] = invitation[i]
  <2>1. invitation' = invitation \/ \E p, role, target, places : Send(p, role, target, places)
    BY <1>2 DEF CreateInvitation, RunImport
  <2> QED BY <1>0, <2>1, FreshOnes DEF Send, LinkProper
<1>3. ASSUME NEW p \in Newcomers, SignUp(p)
      PROVE  invitation' = invitation
  BY <1>3 DEF SignUp
<1>4. ASSUME NEW p \in Newcomers, Accept(p)
      PROVE  invitation'[i] = invitation[i]
  BY <1>0, <1>4 DEF Accept, LinkProper
<1> QED BY <1>1, <1>2, <1>3, <1>4, QuietStep

LEMMA RevivedByLink ==
  ASSUME Safe, [Next]_vars, Serial, NEW e \in Employments,
         staff[e].status = "separated", staff'[e].status # "separated"
  PROVE  \E i \in Invites : invitation'[i].joined = e /\ invitation'[i].target = e
<1> USE DEF Safe, TypeOK
<1>a. \A f \in Employments : staff[f] \in Employee
  OBVIOUS
<1>b. Exists(e)
  BY DEF Exists
<1>1. ASSUME NEW m \in Managers, RunImport(m) PROVE FALSE
  BY <1>1, <1>b, FreshOnes DEF RunImport
<1>2. ASSUME NEW m \in Managers, SetEmploymentStatus(m) PROVE FALSE
  BY <1>2, <1>a, SerialChecks DEF SetEmploymentStatus, Working, Serial
<1>3. ASSUME NEW m \in Managers, ChangeManager(m) PROVE FALSE
  <2> PICK r \in Checked(m, "boss") : ChangeManager(m)!(r)
    BY <1>3 DEF ChangeManager
  <2>1. staff' = [staff EXCEPT ![r.on].boss = r.arg]
    OBVIOUS
  <2> QED BY <1>a, <2>1 DEF Employee
<1>4. ASSUME NEW m \in Managers, ChangePlace(m) PROVE FALSE
  BY <1>4, <1>a DEF ChangePlace, Employee
<1>5. ASSUME NEW m \in Managers, CompleteSeparation(m) PROVE FALSE
  <2> PICK r \in Checked(m, "complete") : CompleteSeparation(m)!(r)
    BY <1>5 DEF CompleteSeparation
  <2> DEFINE f == filing[r.on].of
  <2>1. staff' = [staff EXCEPT ![f].status = "separated"]
    OBVIOUS
  <2> HIDE DEF f
  <2> QED BY <1>a, <2>1 DEF Employee
<1>6. ASSUME NEW p \in Newcomers, Accept(p)
      PROVE  \E i \in Invites : invitation'[i].joined = e /\ invitation'[i].target = e
  <2>0. PICK i \in Invites : i = joining[p] /\ i # None
    BY <1>6 DEF Accept
  <2>1. PICK f \in Records : f = IF invitation[i].target = None THEN FreshRecord ELSE invitation[i].target
    BY <1>6, <2>0, FreshOnes, InvitationRow DEF Accept
  <2>2. staff' = [staff EXCEPT ![f] = JoinedAs(p, i)]
    BY <1>6, <2>0, <2>1 DEF Accept
  <2>3. f = e
    BY <2>2
  <2>4. invitation[i].target = e
    BY <1>6, <1>b, <2>0, <2>1, <2>3, FreshOnes DEF Accept
  <2>5. invitation' = [invitation EXCEPT ![i] = [@ EXCEPT !.status = "accepted", !.joined = e]]
    BY ZenonT(60), <1>6, <2>0, <2>1, <2>3 DEF Accept
  <2>6. invitation'[i].joined = e /\ invitation'[i].target = e
    BY <2>4, <2>5 DEF Invitation
  <2> QED BY <2>6
<1> QED BY <1>1, <1>2, <1>3, <1>4, <1>5, <1>6, OthersKeepStaff

LEMMA RevivedStep ==
  ASSUME Safe, Joined, [Next]_vars, \A k \in Filings : Revived(k)
  PROVE  \A k \in Filings : Revived(k)'
<1> SUFFICES ASSUME NEW k \in Filings, Serial', filing'[k].status = "completed",
                    staff'[filing'[k].of].status # "separated"
             PROVE  \E i \in Invites : /\ invitation'[i].joined = filing'[k].of
                                       /\ invitation'[i].target = filing'[k].of
  BY DEF Revived
<1>1. Serial
  BY ZenonT(60) DEF Serial, Next, vars, Begin, Rollback, CreateInvitation, RunImport, Resend, Revoke, Finish,
         FileSeparation, ApproveSeparation, CompleteSeparation, CancelSeparation,
         SetEmploymentStatus, ChangeManager, ChangePlace, ChangeGrant, SignUp, Accept, GiveUp,
         Expire, HourPasses
<1>2. CASE filing[k].status = "completed"
  <2>1. filing'[k].of = filing[k].of /\ filing[k].of \in Employments
    BY <1>1, <1>2, CompletedStays DEF Safe, FilingsProper, FiledProperly
  <2>2. CASE staff[filing[k].of].status = "separated"
    BY <1>1, <2>1, <2>2, RevivedByLink
  <2>3. CASE staff[filing[k].of].status # "separated"
    <3>1. PICK i \in Invites : invitation[i].joined = filing[k].of /\ invitation[i].target = filing[k].of
      BY <1>1, <1>2, <2>3 DEF Revived
    <3>2. filing[k].of # None
      BY <2>1 DEF Employments
    <3> QED BY <2>1, <3>1, <3>2, AnswerStays
  <2> QED BY <2>2, <2>3
<1>3. CASE filing[k].status # "completed"
  <2>1. ASSUME NEW m \in Managers, FileSeparation(m) PROVE FALSE
    BY <1>3, <2>1 DEF FileSeparation, Safe, TypeOK
  <2>2. ASSUME NEW m \in Managers, ApproveSeparation(m) PROVE FALSE
    BY <1>3, <2>2 DEF ApproveSeparation, Safe, TypeOK, Filing
  <2>3. ASSUME NEW m \in Managers, CancelSeparation(m) PROVE FALSE
    BY <1>3, <2>3 DEF CancelSeparation, Safe, TypeOK, Filing
  <2>4. ASSUME NEW m \in Managers, CompleteSeparation(m) PROVE FALSE
    <3> PICK r \in Checked(m, "complete") : CompleteSeparation(m)!(r)
      BY <2>4 DEF CompleteSeparation
    <3>1. r.on = k
      BY <1>3 DEF Safe, TypeOK
    <3>2. filing[k].of \in Employments
      <4>1. filing[k].status # "none"
        BY <3>1, CheckedGrounded DEF Operations, Grounded
      <4> QED BY <4>1 DEF Safe, FilingsProper, FiledProperly
    <3>3. filing'[k].of = filing[k].of
      BY <3>1 DEF Safe, TypeOK, Filing
    <3>4. staff'[filing[k].of].status = "separated"
      BY <3>1, <3>2 DEF Safe, TypeOK, Employee
    <3> QED BY <3>3, <3>4
  <2> QED BY <1>3, <2>1, <2>2, <2>3, <2>4, OthersKeepFiling
<1> QED BY <1>2, <1>3

\* One at a time, only the link an import sent revives an employment that has ended.
THEOREM ImportLinkRevives == Spec => []OnlyTheImportLinkRevives
<1> DEFINE AllRevived == \A k \in Filings : Revived(k)
<1>1. Init => Safe /\ Joined /\ AllRevived
  <2>1. ASSUME Init, NEW k \in Filings PROVE Revived(k)
    BY <2>1 DEF Init, Revived, Unfiled
  <2> QED BY <2>1, InitSafe, InitJoined
<1>2. Safe /\ Joined /\ AllRevived /\ [Next]_vars => (Safe /\ Joined /\ AllRevived)'
  BY SafeStep, JoinedStep, RevivedStep
<1>3. AllRevived => OnlyTheImportLinkRevives
  BY DEF Revived, OnlyTheImportLinkRevives
<1> QED BY <1>1, <1>2, <1>3, PTL DEF Spec

\* Ending an employment takes two people, and only a link sent before takes it back
\* (approveSeparation, completeSeparation, acceptInvitation).
THEOREM SeparationIsHeld == Spec => []SeparationHolds
  BY TwoPersonRule, ImportLinkRevives, PTL DEF SeparationHolds

=============================================================================
