-------------------------------- MODULE Channels --------------------------------
(***************************************************************************)
(* The channels of an organization (messaging/service.ts): at most two     *)
(* rooms for conversation, for managers or for everyone, that are archived *)
(* and never reopened.                                                     *)
(*                                                                         *)
(* A handler is Begin... (what it reads and checks) and the action of its  *)
(* name (what it writes, by what it read).  Texts are left out; what a     *)
(* person may do does not change here (Membership has that).               *)
(***************************************************************************)
EXTENDS Naturals, FiniteSets

CONSTANTS
  People, Channels, Names, Requests,
  Moderators,         \* may shape the rooms: conversation.moderate
  Announcers,         \* are managers: announcement.create
  Isolations,         \* how transactions may run
  None,               \* null
  MaxCustomChannels,  \* MAX_CUSTOM_CHANNELS
  MaxPosts            \* bound: posts in a channel

VARIABLES
  isolation,  \* whether transactions overlap
  channel,    \* the channels: name, audience, whether archived
  posts,      \* how much was said in each
  txn         \* what each request's transaction has read

vars == <<isolation, channel, posts, txn>>

Serial    == isolation = "serial"
Audiences == {"managers", "everyone"}

Exist  == {c \in Channels : channel[c] # None}
InUse  == {c \in Exist : ~channel[c].archived}

Init ==
  /\ isolation \in Isolations
  /\ channel = [c \in Channels |-> None]
  /\ posts = [c \in Channels |-> 0]
  /\ txn = [r \in Requests |-> None]

Begin(r, request) ==
  /\ txn[r] = None
  /\ Serial => \A q \in Requests : txn[q] = None
  /\ txn' = [txn EXCEPT ![r] = request]
  /\ UNCHANGED <<isolation, channel, posts>>

Ends(r) == txn' = [txn EXCEPT ![r] = None]

\* A refusal, the constraint on names, or a lost connection.
Rollback(r) == txn[r] # None /\ Ends(r) /\ UNCHANGED <<isolation, channel, posts>>

-----------------------------------------------------------------------------
\* Mutant: one too many.
HasRoomOrIsFull == Cardinality(InUse) <= MaxCustomChannels

\* countChannels.
HasRoom == Cardinality(InUse) < MaxCustomChannels

\* An archived channel keeps its name.
IsFree(name) == \A c \in Exist : channel[c].name # name

BeginCreateChannel(r) ==
  \E p \in Moderators, name \in Names, audience \in Audiences :
    /\ HasRoom /\ IsFree(name)
    /\ Begin(r, [op |-> "create", name |-> name, audience |-> audience])

CreateChannel(r) ==
  /\ txn[r] # None /\ txn[r].op = "create"
  /\ IsFree(txn[r].name)   \* channels_name_unique
  /\ \E c \in Channels \ Exist :
       channel' = [channel EXCEPT ![c] = [name |-> txn[r].name, audience |-> txn[r].audience,
                                          archived |-> FALSE]]
  /\ Ends(r) /\ UNCHANGED <<isolation, posts>>

\* One conditional update.
ArchiveChannel ==
  /\ Moderators # {}
  /\ Serial => \A r \in Requests : txn[r] = None
  /\ \E c \in InUse : channel' = [channel EXCEPT ![c].archived = TRUE]
  /\ UNCHANGED <<isolation, posts, txn>>

\* getChannel's lookup.
IsOpen(c) == c \in InUse

MayRead(p, c) == IsOpen(c) /\ (channel[c].audience = "managers" => p \in Announcers)

\* postToChannel lets getChannel decide.
BeginPost(r) ==
  \E p \in People, c \in Exist :
    MayRead(p, c) /\ Begin(r, [op |-> "post", by |-> p, channel |-> c])

PostToChannel(r) ==
  /\ txn[r] # None /\ txn[r].op = "post"
  /\ posts[txn[r].channel] < MaxPosts
  /\ posts' = [posts EXCEPT ![txn[r].channel] = @ + 1]
  /\ Ends(r) /\ UNCHANGED <<isolation, channel>>

Next ==
  \/ \E r \in Requests :
       \/ BeginCreateChannel(r) \/ CreateChannel(r)
       \/ BeginPost(r) \/ PostToChannel(r)
       \/ Rollback(r)
  \/ ArchiveChannel

Spec == Init /\ [][Next]_vars

-----------------------------------------------------------------------------
(* Properties *)

Channel  == [name : Names, audience : Audiences, archived : BOOLEAN]
Request  == [op : {"create"}, name : Names, audience : Audiences]
              \union [op : {"post"}, by : People, channel : Channels]

\* Every variable stays in its type, and no two channels have one name, archived or not.
TypeOK ==
  /\ isolation \in Isolations
  /\ channel \in [Channels -> Channel \union {None}]
  /\ posts \in [Channels -> 0..MaxPosts]
  /\ txn \in [Requests -> Request \union {None}]
  /\ \A c, d \in Exist : c # d => channel[c].name # channel[d].name

\* How many requests there are at a time.
AtOnce == IF Serial THEN 1 ELSE Cardinality(Requests)

\* How far the limit holds.  It is counted before the insert and nothing locks it: there are never
\* more than two channels, and one more for every other request that may have counted meanwhile,
\* however many were archived before.
CeilingHolds == Cardinality(InUse) < MaxCustomChannels + AtOnce

=============================================================================
