------------------------------- MODULE MCServices -------------------------------
(***************************************************************************)
(* The small services for TLC.  They share no rows, so a behaviour is a    *)
(* behaviour of one of them, chosen in ServicesInit, while nothing of the others   *)
(* is there.  Variables of one name are one variable here.                 *)
(***************************************************************************)
EXTENDS Naturals, Sequences, FiniteSets, SequencesExt

CONSTANTS
  Requests, Isolations, None,
  Members, Moderators, Announcers, Rooms, Names, MaxCustomChannels, MaxPosts,  \* Channels
  Employments, Starters, LinesOfReport, Threads, Messages, LastMessage,          \* DirectMessages
  Owners, Staff, Cases, MaxNewCasesPerHour, LastStamp, MaxNotes,                 \* Support
  Grants, Roles, Locations, Sessions, All, Scopable, ReadOnly, Presets,          \* AccessControl
  Characters, MaxLength, Tables, MaxImportRows,                                  \* PeopleCsv
  Calls, Allowance, Window, Day, Wait, LastInstant, MaxCalls                     \* RateLimits

ASSUME NoneAssumption == None \notin Nat \union Locations \union Owners \union Staff
ASSUME RequestsAssumption ==
  Isolations \subseteq {"serial", "overlapping"} /\ IsFiniteSet(Requests) /\ Requests # {}
ASSUME ChannelsAssumption ==
  /\ Moderators \subseteq Members /\ Announcers \subseteq Members
  /\ {MaxCustomChannels, MaxPosts} \subseteq Nat
ASSUME DirectMessagesAssumption ==
  /\ Employments \subseteq Nat /\ Starters \subseteq Employments
  /\ LinesOfReport \in [Employments -> Employments \union {None}]
  /\ LastMessage \in Nat
ASSUME SupportAssumption == {MaxNewCasesPerHour, LastStamp, MaxNotes} \subseteq Nat
ASSUME AccessControlAssumption ==
  /\ Scopable \subseteq All /\ ReadOnly \subseteq All
  /\ Presets \in [Roles -> SUBSET All]
ASSUME RateLimitsAssumption ==
  /\ {Allowance, Window, Day, Wait} \subseteq Nat \ {0}
  /\ Wait < Window /\ Window + Wait <= Day
  /\ {LastInstant, MaxCalls} \subseteq Nat

VARIABLES
  part,
  isolation, txn, clock,
  channel, posts,
  thread, message, shown,
  case, messages, notes, notices, recent,
  employment, grant, accessMode, actor,
  table, text, i, inQuotes, field, row, rows, parsed,
  limit, now, allowed, calls

Ch == INSTANCE Channels WITH People <- Members, Channels <- Rooms
Dm == INSTANCE DirectMessages
        WITH People <- Employments, ReportsTo <- LinesOfReport, LastStamp <- LastMessage
Su == INSTANCE Support
Ac == INSTANCE AccessControl
        WITH Requests <- Sessions, Capabilities <- All, LocationScopable <- Scopable,
             ReadOnlyCapabilities <- ReadOnly, RoleCapabilities <- Presets
Cs == INSTANCE PeopleCsv
Rl == INSTANCE RateLimits

\* null is nobody's row and no list.
ASSUME NullAssumption ==
  /\ None \notin Dm!Thread \union Dm!Message \union Dm!Request
  /\ None \notin Su!Case \union Su!Request \union Su!Statuses
  /\ None \notin [started : Nat, count : Nat]
  /\ \A list \in SUBSET Locations : list # None

\* What is uploaded and what is written is of characters; a row that is written has a cell, and
\* the first begins with the name of a column, not with a mark of the byte order.
ASSUME FilesAssumption ==
  /\ Characters \subseteq Cs!Alphabet /\ None \notin Cs!Alphabet /\ {MaxLength, MaxImportRows} \subseteq Nat
  /\ \A t \in Tables :
       /\ t \in Seq(Seq(Seq(Cs!Alphabet))) /\ \A r \in DOMAIN t : t[r] # <<>>
       /\ Cs!WithoutMark(Cs!ToCsv(t)) = Cs!ToCsv(t)

-----------------------------------------------------------------------------
requestVars  == <<isolation, txn>>
channelVars  == <<channel, posts>>
directVars   == <<thread, message, shown>>
supportVars  == <<case, messages, notes, notices, recent>>
accessVars   == <<employment, grant, accessMode, actor>>
fileVars     == <<table, text, i, inQuotes, field, row, rows, parsed>>
limitVars    == <<limit, now, allowed, calls>>

NoRequests == isolation = None /\ txn = None
NoChannels == channel = None /\ posts = None
NoThreads  == thread = None /\ message = None /\ shown = None
NoCases    == case = None /\ messages = None /\ notes = None /\ notices = None /\ recent = None
NoActor    == employment = None /\ grant = None /\ accessMode = None /\ actor = None
NoFile     == /\ table = None /\ text = None /\ i = None /\ inQuotes = None
              /\ field = None /\ row = None /\ rows = None /\ parsed = None
NoLimit    == limit = None /\ now = None /\ allowed = None /\ calls = None

ServicesInit ==
  \/ /\ part = "channels" /\ Ch!Init
     /\ clock = None /\ NoThreads /\ NoCases /\ NoActor /\ NoFile /\ NoLimit
  \/ /\ part = "direct messages" /\ Dm!Init
     /\ NoChannels /\ NoCases /\ NoActor /\ NoFile /\ NoLimit
  \/ /\ part = "support" /\ Su!Init
     /\ NoChannels /\ NoThreads /\ NoActor /\ NoFile /\ NoLimit
  \/ /\ part = "access control" /\ Ac!Init
     /\ clock = None /\ NoRequests /\ NoChannels /\ NoThreads /\ NoCases /\ NoFile /\ NoLimit
  \/ /\ part = "people csv" /\ Cs!Init
     /\ clock = None /\ NoRequests /\ NoChannels /\ NoThreads /\ NoCases /\ NoActor /\ NoLimit
  \/ /\ part = "rate limits" /\ Rl!Init
     /\ NoRequests /\ NoChannels /\ NoThreads /\ NoCases /\ NoActor /\ NoFile

OfChannels ==
  /\ part = "channels" /\ Ch!Next
  /\ UNCHANGED <<clock, directVars, supportVars, accessVars, fileVars, limitVars>>

OfDirectMessages ==
  /\ part = "direct messages" /\ Dm!Next
  /\ UNCHANGED <<channelVars, supportVars, accessVars, fileVars, limitVars>>

OfSupport ==
  /\ part = "support" /\ Su!Next
  /\ UNCHANGED <<channelVars, directVars, accessVars, fileVars, limitVars>>

OfAccessControl ==
  /\ part = "access control" /\ Ac!Next
  /\ UNCHANGED <<clock, requestVars, channelVars, directVars, supportVars, fileVars, limitVars>>

OfPeopleCsv ==
  /\ part = "people csv" /\ Cs!Next
  /\ UNCHANGED <<clock, requestVars, channelVars, directVars, supportVars, accessVars, limitVars>>

OfRateLimits ==
  /\ part = "rate limits" /\ Rl!Next
  /\ UNCHANGED <<requestVars, channelVars, directVars, supportVars, accessVars, fileVars>>

ServicesNext ==
  /\ \/ OfChannels \/ OfDirectMessages \/ OfSupport
     \/ OfAccessControl \/ OfPeopleCsv \/ OfRateLimits
  /\ UNCHANGED part

servicesVars ==
  <<part, clock, requestVars, channelVars, directVars, supportVars, accessVars, fileVars, limitVars>>

ServicesSpec == ServicesInit /\ [][ServicesNext]_servicesVars

-----------------------------------------------------------------------------
(* Values for TLC *)

\* A manager, to whom the person of the lowest id reports.
MCLinesOfReport == [p \in Employments |-> IF p = 1 THEN 3 ELSE None]

\* Capabilities of every kind: "people.view" is read-only and may be held for one location,
\* "schedule.publish" may too, "org.view_audit" and "org.manage_roles" are of the organization.
MCAll == {"people.view", "schedule.publish", "org.view_audit", "org.manage_roles"}
MCScopable == {"people.view", "schedule.publish"}
MCReadOnly == {"people.view", "org.view_audit"}
MCPresets == [role \in Roles |-> CASE role = "owner"    -> MCAll
                                   [] role = "manager"  -> MCScopable
                                   [] role = "employee" -> {}]

\* Tables of one row of two short cells, of three rows of one, and of two rows of two.
ShortCells(n) == BoundedSeq({"x", " ", "=", "'", "quote", ",", "cr", "lf"}, n)
TablesOf(height, width, n) == [1..height -> [1..width -> ShortCells(n)]]
MCTables == TablesOf(1, 2, 2) \union TablesOf(3, 1, 1) \union TablesOf(2, 2, 1)

Interchangeable ==
  Permutations(Requests) \union Permutations(Rooms)
  \union Permutations(Threads) \union Permutations(Messages)

-----------------------------------------------------------------------------
(* Properties: each is what the module of its name says, and says it of that service. *)

\* Never more than two channels, and one more for every other request that may overlap
\* (createChannel, archiveChannel).
CeilingHolds == part = "channels" => Ch!CeilingHolds

\* A message is marked as read only if a page has shown it to whom it was for (markThreadRead,
\* getThread).
ReadWasShown == part = "direct messages" => Dm!ReadWasShown

\* However requests overlap, the thread and the row of a case tell one story, and who wrote last
\* is not kept waiting for themselves (replyToCase, evercalm_staff_case_update).
CaseFollowsThread ==
  part = "support" => Su!ThreadTellsStatus /\ Su!RowAgreesWithThread /\ Su!CustomerIsHeard

\* The questions asked of an actor agree (can, canAtAnyLocation, accessibleLocationIds,
\* heldCapabilities).
AnswersAgree == part = "access control" => Ac!AnswersAgree

\* The parser does to any text what the rules say of it as a whole, reads back what the writer
\* wrote, and rows have the numbers of the file (parseCsv, toCsv, shapeRows).
FilesAreRead ==
  part = "people csv" => Cs!ParsesByTheRules /\ Cs!WrittenIsReadBack /\ Cs!NumberedAsInFile

\* Less than twice the limit passes in the time of a window (consumeRateLimit).
BurstIsBounded == part = "rate limits" => Rl!BurstIsBounded

=============================================================================
