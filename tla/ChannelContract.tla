--------------------------- MODULE ChannelContract ---------------------------
(***************************************************************************)
(* What the DiscordChannel controller promises about the channels in       *)
(* Discord, whatever its processes, faults and restarts: a resource        *)
(* records at most one channel, which exists when it is recorded and stays *)
(* until the resource is condemned, and a resource that recorded a channel *)
(* disappears only after that channel.  Nothing is promised of channels    *)
(* that no resource records.                                               *)
(***************************************************************************)
EXTENDS TLAPS

CONSTANTS
  Incarnations, \* UIDs
  Channels,     \* channel IDs
  None          \* no UID, no ID recorded

VARIABLES
  resource, \* the incarnation that exists now, with the channel it records
  live      \* the channels that exist in Discord

Resources == [uid : Incarnations \cup {None}, channel : Channels \cup {None},
              condemned : BOOLEAN]

Absent == [uid |-> None, channel |-> None, condemned |-> FALSE]

Init == resource = Absent /\ live = {}

\* The user's side: a resource is created; a resource is deleted.
Appear ==
  /\ resource = Absent
  /\ resource' \in [uid : Incarnations, channel : {None}, condemned : {FALSE}]
  /\ UNCHANGED live

Condemn ==
  /\ resource # Absent
  /\ resource' = [resource EXCEPT !.condemned = TRUE]
  /\ UNCHANGED live

\* Channels are created before any resource records them.
Open ==
  /\ live' \in SUBSET (live \cup Channels)
  /\ live \subseteq live'
  /\ UNCHANGED resource

\* A resource records one channel, once.
Record ==
  /\ resource # Absent /\ resource.channel = None /\ ~resource.condemned
  /\ resource' \in {[resource EXCEPT !.channel = c] : c \in live}
  /\ UNCHANGED live

\* Channels are deleted, but not the one in use.
Close ==
  /\ live' \in SUBSET live
  /\ resource.channel \in live /\ ~resource.condemned => resource.channel \in live'
  /\ UNCHANGED resource

\* A resource disappears once its channel has.
Disappear ==
  /\ resource # Absent
  /\ resource.channel # None => resource.condemned /\ resource.channel \notin live
  /\ resource' = Absent
  /\ UNCHANGED live

Next == Appear \/ Condemn \/ Open \/ Record \/ Close \/ Disappear

Spec == Init /\ [][Next]_<<resource, live>>

\* The channel a resource uses exists: the reason for Record's and Close's
\* guards (discordchannel_controller.go:149-171 and 119-135).
ChannelInUseExists ==
  resource.channel # None /\ ~resource.condemned => resource.channel \in live

Promise ==
  /\ resource \in Resources
  /\ live \subseteq Channels
  /\ ChannelInUseExists

\* A resource that is not condemned has its channel, for any sets of UIDs and
\* channel IDs; Promise adds the types that Condemn's and Record's EXCEPT need.
THEOREM InUseExists == Spec => []ChannelInUseExists
<1>1. Init => Promise
  BY DEF Init, Promise, Resources, Absent, ChannelInUseExists
<1>2. Promise /\ [Next]_<<resource, live>> => Promise'
  <2> SUFFICES ASSUME Promise, [Next]_<<resource, live>>
               PROVE  Promise'
    OBVIOUS
  <2>1. CASE Appear
    BY <2>1 DEF Appear, Promise, Resources, ChannelInUseExists
  <2>2. CASE Condemn
    BY <2>2 DEF Condemn, Promise, Resources, ChannelInUseExists
  <2>3. CASE Open
    BY <2>3 DEF Open, Promise, ChannelInUseExists
  <2>4. CASE Record
    <3>1. PICK c \in live : resource' = [resource EXCEPT !.channel = c]
      BY <2>4 DEF Record
    <3>2. resource' \in Resources /\ resource'.channel = c
      BY <3>1 DEF Promise, Resources
    <3> QED
      BY <2>4, <3>1, <3>2 DEF Record, Promise, ChannelInUseExists
  <2>5. CASE Close
    BY <2>5 DEF Close, Promise, ChannelInUseExists
  <2>6. CASE Disappear
    BY <2>6 DEF Disappear, Absent, Promise, Resources, ChannelInUseExists
  <2>7. CASE UNCHANGED <<resource, live>>
    BY <2>7 DEF Promise, ChannelInUseExists
  <2> QED
    BY <2>1, <2>2, <2>3, <2>4, <2>5, <2>6, <2>7 DEF Next
<1>3. Promise => ChannelInUseExists
  BY DEF Promise
<1> QED
  BY <1>1, <1>2, <1>3, PTL DEF Spec
=============================================================================
