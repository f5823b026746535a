------------------------ MODULE DiscordContractProofs ------------------------
(***************************************************************************)
(* What a step of DiscordChannel may do, and that the controller keeps     *)
(* ChannelContract.  At the end: no process rests with something left to   *)
(* do.                                                                     *)
(*                                                                         *)
(* The argument: seen from outside, every step either leaves the resource  *)
(* alone and opens or closes channels, or leaves Discord alone and appends *)
(* one version that may follow the current one (StepKinds).  The rest is a *)
(* case analysis over these kinds.                                         *)
(***************************************************************************)
EXTENDS DiscordChannelProofs

\* The versions that a step may append: none left, once its channel is gone;
\* a new incarnation; a later version, which is condemned or records a channel
\* that exists, and not both.
Follows(o) ==
  \/ /\ o = NoObject
     /\ Current.uid # 0
     /\ Current.channelID # 0 => Current.deleting /\ Current.channelID \notin live
  \/ /\ o = NewObject(Len(history) + 1)
     /\ Current.uid = 0
  \/ /\ o.uid = Current.uid /\ Current.uid # 0
     /\ Later(Current, o)
     /\ o.deleting # Current.deleting => Current.finalizer /\ o.channelID = Current.channelID
     /\ o.channelID # Current.channelID => o.channelID \in live

Appends == /\ UNCHANGED live
           /\ \E o \in Object : Follows(o) /\ history' = Append(history, o)
Opens  == UNCHANGED history /\ live \subseteq live' /\ live' \subseteq Nat \ {0}
Closes == UNCHANGED history /\ live' \subseteq live

Quiet == UNCHANGED <<history, live>>

\* A step that moves neither the resource nor Discord opens no channel.
LEMMA QuietOpens ==
  ASSUME IInv, Quiet
  PROVE  Opens
<1>1. live \subseteq 1..Len(maker) /\ Len(maker) \in Nat
  BY DEF IInv, TypeOK
<1>2. live \subseteq Nat \ {0}
  BY <1>1
<1> QED
  BY <1>2 DEF Quiet, Opens

\* What Write appends, if anything, is what its caller wrote.
LEMMA WriteAppends ==
  ASSUME IInv, NEW w \in Operators, NEW o, NEW p, Write(w, o, p), UNCHANGED live,
         IsLatest(history, base[w]) => o \in Object /\ Follows(o)
  PROVE  Quiet \/ Appends
<1>1. CASE history' = history
  BY <1>1 DEF Quiet
<1>2. CASE history' # history
  <2>1. IsLatest(history, base[w]) /\ history' = Append(history, o)
    BY <1>2 DEF Write, Written
  <2> QED
    BY <2>1 DEF Appends
<1> QED
  BY <1>1, <1>2

\* A failure condition is written on the latest version or not at all.
LEMMA SetConditionKind ==
  ASSUME IInv, NEW w \in Operators, SetCondition(w)
  PROVE  Quiet \/ Appends
<1>1. pc[w] = "setCondition" /\ UNCHANGED live
  BY DEF SetCondition, discordVars
<1>2. /\ Copies(w) /\ obj[w] \in Object
      /\ IsLatest(history, base[w]) => Current = Read(w)
  BY <1>1, LatestCopy
<1>3. IsLatest(history, base[w]) => Follows(obj[w])
  BY <1>1, <1>2 DEF Follows, Copies, Later
<1>4. CASE history' = history
  BY <1>1, <1>4 DEF Quiet
<1>5. CASE history' # history
  BY <1>1, <1>2, <1>3, <1>5 DEF SetCondition, Appends, Written
<1> QED
  BY <1>4, <1>5

\* The finalizer goes only after the recorded channel has gone.
LEMMA RemoveFinalizerKind ==
  ASSUME IInv, NEW w \in Operators, RemoveFinalizer(w)
  PROVE  Quiet \/ Appends
<1>1. pc[w] = "removeFinalizer" /\ UNCHANGED live /\ Write(w, NoObject, "idle")
  BY DEF RemoveFinalizer, discordVars
<1>2. /\ Copies(w) /\ Progress(w)
      /\ IsLatest(history, base[w]) => Current = Read(w)
  BY <1>1, LatestCopy
<1>3. IsLatest(history, base[w]) => NoObject \in Object /\ Follows(NoObject)
  BY <1>1, <1>2, ObjectFacts DEF Follows, Copies, Progress
<1> QED
  BY <1>1, <1>3, WriteAppends

\* The finalizer is the only thing that this write changes.
LEMMA AddFinalizerKind ==
  ASSUME IInv, NEW w \in Operators, AddFinalizer(w)
  PROVE  Quiet \/ Appends
<1> DEFINE o == [obj[w] EXCEPT !.finalizer = TRUE]
<1>1. /\ pc[w] = "addFinalizer" /\ UNCHANGED live
      /\ Write(w, o, NextCreation(o))
  BY DEF AddFinalizer, discordVars
<1>2. /\ Copies(w) /\ Progress(w) /\ obj[w] \in Object
      /\ IsLatest(history, base[w]) => Current = Read(w)
  BY <1>1, LatestCopy
<1>3. /\ o \in Object /\ o.uid = Read(w).uid /\ o.finalizer
      /\ o.channelID = Read(w).channelID /\ o.webhookID = Read(w).webhookID
      /\ o.deleting = Read(w).deleting
  BY <1>1, <1>2 DEF Copies, Object
<1>4. IsLatest(history, base[w]) => Follows(o)
  BY <1>1, <1>2, <1>3 DEF Follows, Copies, Later
<1> QED
  BY <1>1, <1>3, <1>4, WriteAppends

\* The channel is recorded where none was, while it exists.
LEMMA SaveChannelKind ==
  ASSUME IInv, NEW w \in Operators, SaveChannel(w)
  PROVE  Quiet \/ Appends
<1>1. pc[w] = "saveChannel" /\ UNCHANGED live /\ Write(w, obj[w], "createWebhook")
  BY DEF SaveChannel, discordVars
<1>2. /\ Copies(w) /\ Progress(w) /\ obj[w] \in Object /\ Sound(Read(w))
      /\ IsLatest(history, base[w]) => Current = Read(w)
  BY <1>1, LatestCopy
<1>3. obj[w].channelID \in live
  BY <1>1 DEF IInv, UnsavedInv
<1>4. IsLatest(history, base[w]) => Follows(obj[w])
  BY <1>1, <1>2, <1>3 DEF Follows, Copies, Progress, Later
<1> QED
  BY <1>1, <1>2, <1>4, WriteAppends

\* The webhook is recorded where none was; the channel stays.
LEMMA SaveWebhookKind ==
  ASSUME IInv, NEW w \in Operators, SaveWebhook(w)
  PROVE  Quiet \/ Appends
<1> DEFINE o == [obj[w] EXCEPT !.webhookID = hook[w], !.ready = "True"]
<1>1. pc[w] = "saveWebhook" /\ UNCHANGED live /\ Write(w, o, "idle")
  BY DEF SaveWebhook, discordVars
<1>2. /\ Copies(w) /\ Progress(w) /\ obj[w] \in Object
      /\ IsLatest(history, base[w]) => Current = Read(w)
  BY <1>1, LatestCopy
<1>3. hook[w] \in Nat /\ "True" \in Conditions
  BY DEF IInv, TypeOK, Conditions
<1>4. o \in Object
  BY <1>2, <1>3 DEF Object
<1>5. /\ o.uid = Read(w).uid /\ o.finalizer = Read(w).finalizer
      /\ o.channelID = Read(w).channelID /\ o.deleting = Read(w).deleting
      /\ Read(w).webhookID = 0 /\ ~Read(w).deleting
  BY <1>1, <1>2 DEF Copies, Progress, Object
<1>6. IsLatest(history, base[w]) => Follows(o)
  BY <1>1, <1>2, <1>5 DEF Follows, Copies, Later
<1> QED
  BY <1>1, <1>4, <1>6, WriteAppends

\* What the Shop controller, users and the garbage collector may write.
LEMMA ElsewhereKind ==
  ASSUME IInv, Create \/ Edit \/ Delete
  PROVE  Appends
<1>1. /\ Current \in Object /\ Sound(Current) /\ Later(Current, Current)
      /\ Len(history) + 1 \in Nat
  BY CurrentFacts DEF IInv, TypeOK
<1>2. CASE Create
  BY <1>1, <1>2, ObjectFacts DEF Create, WrittenElsewhere, Appends, Follows, discordVars
<1>3. CASE Edit
  BY <1>1, <1>3 DEF Edit, WrittenElsewhere, Appends, Follows, discordVars
<1>4. CASE Delete /\ Current.finalizer
  <2> DEFINE o == [Current EXCEPT !.deleting = TRUE]
  <2>1. /\ o \in Object /\ o.uid = Current.uid /\ o.deleting
        /\ o.finalizer = Current.finalizer /\ o.channelID = Current.channelID
        /\ o.webhookID = Current.webhookID
    BY <1>1 DEF Object
  <2>2. Follows(o)
    BY <1>4, <2>1 DEF Follows, Later, Delete
  <2>3. UNCHANGED live /\ history' = Append(history, o)
    BY <1>4 DEF Delete, WrittenElsewhere, discordVars
  <2> QED
    BY <2>1, <2>2, <2>3 DEF Appends
<1>5. CASE Delete /\ ~Current.finalizer
  <2>1. Follows(NoObject)
    BY <1>1, <1>5 DEF Follows, Sound, Delete
  <2>2. UNCHANGED live /\ history' = Append(history, NoObject)
    BY <1>5 DEF Delete, WrittenElsewhere, discordVars
  <2> QED
    BY <2>1, <2>2, ObjectFacts DEF Appends
<1> QED
  BY <1>2, <1>3, <1>4, <1>5

\* Creating a channel, answered or not, only opens one.
LEMMA CreateChannelKind ==
  ASSUME IInv, NEW w \in Operators, CreateChannel(w)
  PROVE  Opens
<1>1. UNCHANGED history
  BY DEF CreateChannel, apiVars
<1>2. live \subseteq 1..Len(maker) /\ Len(maker) \in Nat /\ maker \in Seq(Nat)
  BY DEF IInv, TypeOK
<1>3. live \subseteq Nat \ {0}
  BY <1>2
<1>4. obj[w].uid \in Nat
  <2>1. obj[w] \in Object
    BY DEF IInv, TypeOK
  <2> QED
    BY <2>1 DEF Object
<1>5. CASE NewChannel(obj[w].uid)
  <2>2. maker' = Append(maker, obj[w].uid) /\ live' = live \cup {Len(maker')}
    BY <1>5 DEF NewChannel
  <2>3. Len(maker') = Len(maker) + 1
    BY <1>2, <1>4, <2>2, AppendFacts
  <2>4. Len(maker') \in Nat \ {0}
    BY <1>2, <2>3
  <2> QED
    BY <1>1, <1>3, <2>2, <2>4 DEF Opens
<1>6. CASE UNCHANGED <<maker, live>>
  BY <1>1, <1>3, <1>6 DEF Opens
<1> QED
  BY <1>5, <1>6 DEF CreateChannel

\* Every step appends a version that may follow, or opens or closes channels.
LEMMA StepKinds ==
  ASSUME IInv, [Next]_vars
  PROVE  Appends \/ Opens \/ Closes
<1>1. ASSUME NEW w \in Operators, Reconcile(w) PROVE Quiet \/ Appends \/ Opens \/ Closes
  <2>1. CASE Start(w) \/ GetBotSecret(w) \/ CreateWebhook(w) \/ CreateSecret(w)
    BY <2>1 DEF Quiet, Start, GetBotSecret, CreateWebhook, CreateSecret, apiVars, discordVars
  <2>2. CASE DeleteChannel(w)
    BY <2>2 DEF DeleteChannel, Closes, apiVars
  <2> QED
    BY <1>1, <2>1, <2>2, SetConditionKind, RemoveFinalizerKind, AddFinalizerKind,
       SaveChannelKind, SaveWebhookKind, CreateChannelKind DEF Reconcile
<1>2. ASSUME NEW w \in Operators, Deliver(w) \/ Resync(w) \/ Restart(w) PROVE Quiet
  BY <1>2 DEF Deliver, Resync, Restart, Quiet, apiVars, discordVars
<1>3. CASE SetBotSecret \/ CollectSecret
  BY <1>3, QuietOpens DEF SetBotSecret, CollectSecret, Quiet, discordVars
<1>4. CASE UNCHANGED vars
  BY <1>4, QuietOpens DEF vars, Quiet, apiVars, discordVars
<1> QED
  BY <1>1, <1>2, <1>3, <1>4, ElsewhereKind, QuietOpens DEF Next

\* The version that is current after a step.
LEMMA NextCurrent ==
  ASSUME IInv
  PROVE  /\ Opens \/ Closes => Current' = Current
         /\ Appends => \E o \in Object : Follows(o) /\ Current' = o
<1>1. ASSUME NEW o \in Object, history' = Append(history, o) PROVE Current' = o
  BY <1>1 DEF IInv, TypeOK, Current, Latest
<1>2. Opens \/ Closes => Current' = Current
  BY DEF Opens, Closes, Current, Latest
<1> QED
  BY <1>1, <1>2 DEF Appends

(***************************************************************************)
(* The theorems.                                                           *)
(***************************************************************************)

\* What an incarnation has recorded is never replaced, and nothing is recorded
\* once it is being deleted, whatever the handlers save from stale copies.
THEOREM RecordsFinal == Spec => RecordsAreFinal
<1> DEFINE Keeps ==
      LET now == Current  next == Current'
      IN  now.uid # 0 /\ next.uid = now.uid
            => /\ \A f \in {"channelID", "webhookID"} :
                    next[f] = now[f] \/ (now[f] = 0 /\ ~now.deleting)
               /\ now.deleting => next.deleting
<1>1. IInv /\ [Next]_vars => [Keeps]_vars
  <2> SUFFICES ASSUME IInv, [Next]_vars, Current.uid # 0, Current'.uid = Current.uid
               PROVE  /\ \A f \in {"channelID", "webhookID"} :
                           Current'[f] = Current[f] \/ (Current[f] = 0 /\ ~Current.deleting)
                      /\ Current.deleting => Current'.deleting
    OBVIOUS
  <2>1. CASE Opens \/ Closes
    BY <2>1, NextCurrent
  <2>2. CASE Appends
    <3>1. PICK o \in Object : Follows(o) /\ Current' = o
      BY <2>2, NextCurrent
    <3>2. Later(Current, o)
      BY <3>1, ObjectFacts DEF Follows, NoObject
    <3> QED
      BY <3>1, <3>2 DEF Later
  <2> QED
    BY <2>1, <2>2, StepKinds
<1>2. RecordsAreFinal <=> [][Keeps]_vars
  BY DEF RecordsAreFinal
<1> QED
  BY <1>1, <1>2, Invariance, PTL DEF Spec

\* The resource is not gone before the channel it recorded is: deleted while
\* handlers run, retry and restart, it leaves no recorded channel behind.
THEOREM GoneAfterChannel == Spec => GoneOnlyAfterItsChannel
<1> DEFINE Cleans == Current.uid # 0 /\ Current'.uid = 0 => Current.channelID \notin live'
<1>1. IInv /\ [Next]_vars => [Cleans]_vars
  <2> SUFFICES ASSUME IInv, [Next]_vars, Current.uid # 0, Current'.uid = 0
               PROVE  Current.channelID \notin live'
    OBVIOUS
  <2>1. Appends
    BY StepKinds, NextCurrent
  <2>2. PICK o \in Object : Follows(o) /\ Current' = o /\ live' = live
    BY <2>1, NextCurrent DEF Appends
  <2>3. live \subseteq 1..Len(maker) /\ Len(maker) \in Nat
    BY DEF IInv, TypeOK
  <2> QED
    BY <2>2, <2>3 DEF Follows
<1>2. GoneOnlyAfterItsChannel <=> [][Cleans]_vars
  BY DEF GoneOnlyAfterItsChannel
<1> QED
  BY <1>1, <1>2, Invariance, PTL DEF Spec

\* What the contract sees of a state that satisfies the invariant.
LEMMA SeenFacts ==
  ASSUME IInv
  PROVE  /\ Current.uid \in Nat /\ Current.channelID \in Nat /\ Current.deleting \in BOOLEAN
         /\ Seen.uid = Current.uid /\ Seen.channel = Current.channelID
         /\ Seen.condemned = Current.deleting
         /\ Current.uid = 0 <=> Seen = Contract!Absent
         /\ live \subseteq Nat \ {0}
<1>1. Current \in Object /\ Sound(Current)
  BY CurrentFacts
<1>2. live \subseteq 1..Len(maker) /\ Len(maker) \in Nat
  BY DEF IInv, TypeOK
<1>3. live \subseteq Nat \ {0}
  BY <1>2
<1>4. Current.uid \in Nat /\ Current.channelID \in Nat /\ Current.deleting \in BOOLEAN
  BY <1>1 DEF Object
<1>5. Current.uid = 0 => Current.channelID = 0 /\ Current.deleting = FALSE
  BY <1>1 DEF Sound, NoObject
<1>6. Current.uid = 0 <=> Seen = Contract!Absent
  BY <1>5 DEF Seen, Contract!Absent
<1> QED
  BY <1>3, <1>4, <1>6 DEF Seen

\* Replacing one field of the record that the contract sees.
LEMMA CondemnedRecord ==
  ASSUME NEW u, NEW c, NEW d, NEW t
  PROVE  [[uid |-> u, channel |-> c, condemned |-> d] EXCEPT !.condemned = t]
           = [uid |-> u, channel |-> c, condemned |-> t]
OBVIOUS

\* The controller implements ChannelContract: in Discord it opens, records and
\* closes channels as the contract allows, whatever happens to its processes.
THEOREM ImplementsContract == Spec => KeepsContract
<1>1. Init => Contract!Init
  <2> SUFFICES ASSUME Init PROVE Contract!Init
    OBVIOUS
  <2>1. Current = NoObject /\ IInv /\ live = {}
    BY InitIInv DEF Init, Current, Latest
  <2>2. Current.uid = 0
    BY <2>1 DEF NoObject
  <2> QED
    BY <2>1, <2>2, SeenFacts DEF Contract!Init
<1>2. IInv /\ IInv' /\ [Next]_vars => [Contract!Next]_<<Seen, live>>
  <2> SUFFICES ASSUME IInv, IInv', [Next]_vars
               PROVE  Contract!Next \/ (Seen' = Seen /\ live' = live)
    OBVIOUS
  <2>1. CASE Opens
    <3>1. Seen' = Seen
      BY <2>1, NextCurrent DEF Seen
    <3> QED
      BY <2>1, <3>1 DEF Opens, Contract!Next, Contract!Open
  <2>2. CASE Closes
    <3>1. Seen' = Seen /\ Current' = Current
      BY <2>2, NextCurrent DEF Seen
    <3>2. Current.channelID \in live /\ ~Current.deleting => Current.channelID \in live'
      BY <3>1, SeenFacts DEF IInv, RecordedChannelIsLive
    <3> QED
      BY <2>2, <3>1, <3>2, SeenFacts DEF Closes, Contract!Next, Contract!Close
  <2>3. CASE Appends
    <3>1. PICK o \in Object : Follows(o) /\ Current' = o /\ live' = live
      BY <2>3, NextCurrent DEF Appends
    <3>2. /\ Seen' = [uid |-> o.uid, channel |-> o.channelID, condemned |-> o.deleting]
          /\ o.uid \in Nat
      BY <3>1 DEF Seen, Object
    <3>3. CASE /\ o = NoObject /\ Current.uid # 0
               /\ Current.channelID # 0 => Current.deleting /\ Current.channelID \notin live
      <4>1. Seen # Contract!Absent /\ Seen' = Contract!Absent
        BY <3>2, <3>3, SeenFacts DEF NoObject, Contract!Absent
      <4> QED
        BY <3>1, <3>3, <4>1, SeenFacts DEF Contract!Next, Contract!Disappear
    <3>4. CASE o = NewObject(Len(history) + 1) /\ Current.uid = 0
      <4>1. Len(history) + 1 \in Nat /\ Len(history) + 1 # 0
        BY DEF IInv, TypeOK
      <4>2. o.uid \in Nat \ {0} /\ o.channelID = 0 /\ o.deleting = FALSE
        BY <3>4, <4>1 DEF NewObject, NoObject
      <4> QED
        BY <3>1, <3>2, <3>4, <4>2, SeenFacts DEF Contract!Next, Contract!Appear
    <3>5. CASE /\ o.uid = Current.uid /\ Current.uid # 0
               /\ Later(Current, o)
               /\ o.deleting # Current.deleting =>
                    Current.finalizer /\ o.channelID = Current.channelID
               /\ o.channelID # Current.channelID => o.channelID \in live
      <4>1. Seen # Contract!Absent
        BY <3>5, SeenFacts
      <4>2. CASE o.deleting = Current.deleting /\ o.channelID = Current.channelID
        BY <3>1, <3>2, <3>5, <4>2 DEF Seen
      <4>3. CASE o.deleting # Current.deleting
        <5>1. o.deleting \in BOOLEAN /\ Current.deleting \in BOOLEAN
          BY SeenFacts DEF Object
        <5>2. o.deleting = TRUE
          BY <3>5, <4>3, <5>1 DEF Later
        <5>3. o.uid = Current.uid /\ o.channelID = Current.channelID
          BY <3>5, <4>3
        <5>4. Seen' = [Seen EXCEPT !.condemned = TRUE]
          <6>1. Seen' = [uid |-> Current.uid, channel |-> Current.channelID,
                         condemned |-> o.deleting]
            BY <3>2, <5>3
          <6>2. Seen' = [Seen EXCEPT !.condemned = o.deleting]
            BY <6>1, CondemnedRecord DEF Seen
          <6> QED
            BY <5>2, <6>2
        <5> QED
          BY <3>1, <4>1, <5>4 DEF Contract!Next, Contract!Condemn
      <4>4. CASE o.channelID # Current.channelID
        <5>1. o.deleting = Current.deleting /\ Current.channelID = 0 /\ ~Current.deleting
          BY <3>5, <4>4 DEF Later
        <5>2. Seen' = [Seen EXCEPT !.channel = o.channelID] /\ o.channelID \in live
          BY <3>2, <3>5, <4>4, <5>1 DEF Seen
        <5> QED
          BY <3>1, <4>1, <5>1, <5>2, SeenFacts DEF Contract!Next, Contract!Record
      <4> QED
        BY <4>2, <4>3, <4>4
    <3> QED
      BY <3>1, <3>3, <3>4, <3>5 DEF Follows
  <2> QED
    BY <2>1, <2>2, <2>3, StepKinds
<1> QED
  BY <1>1, <1>2, Invariance, PTL DEF Spec, KeepsContract, Contract!Spec

(***************************************************************************)
(* What is done when nothing is left to do.                                *)
(***************************************************************************)

\* Only a resource with a finalizer outlives its deletion.
CondemnedInv == \A i \in 1..Len(history) : history[i].deleting => history[i].finalizer

\* A pass that no key follows works on the latest version that its process
\* has heard of, or on a later one that it wrote.
KeyInv == \A w \in Operators : pc[w] # "idle" /\ w \notin queued => base[w] >= seen[w]

RestInv == IInv /\ CondemnedInv /\ KeyInv /\ RestsWhenDone

LEMMA RestInit == Init => RestInv
<1> SUFFICES ASSUME Init PROVE RestInv
  OBVIOUS
<1>1. IInv /\ Len(history) = 1 /\ history[1] = NoObject /\ Current = NoObject
  BY InitIInv DEF Init, Current, Latest
<1>2. CondemnedInv /\ RestsWhenDone
  BY <1>1 DEF CondemnedInv, RestsWhenDone, NoObject
<1>3. KeyInv
  BY DEF Init, KeyInv
<1> QED
  BY <1>1, <1>2, <1>3 DEF RestInv

\* A version is condemned only after one that has the finalizer.
LEMMA CondemnedNext ==
  ASSUME IInv, CondemnedInv, [Next]_vars
  PROVE  CondemnedInv'
<1>1. CASE Opens \/ Closes
  BY <1>1 DEF Opens, Closes, CondemnedInv
<1>2. CASE Appends
  <2>1. PICK o \in Object : Follows(o) /\ history' = Append(history, o)
    BY <1>2 DEF Appends
  <2>2. PICK h \in Seq(Object) : h = history /\ Len(h) \in 1..Len(h)
    BY DEF IInv, TypeOK
  <2>3. /\ Len(Append(h, o)) = Len(h) + 1 /\ Append(h, o)[Len(h) + 1] = o
        /\ \A i \in 1..Len(h) : Append(h, o)[i] = h[i]
    BY <2>2
  <2>4. o.deleting => o.finalizer
    <3>1. Current.deleting => Current.finalizer
      BY <2>2 DEF CondemnedInv, Current, Latest
    <3>2. Current \in Object
      BY CurrentFacts
    <3>3. CASE o = NoObject \/ o = NewObject(Len(history) + 1)
      BY <3>3 DEF NoObject, NewObject
    <3>4. CASE Later(Current, o) /\ (o.deleting # Current.deleting => Current.finalizer)
      BY <3>1, <3>2, <3>4 DEF Later, Object
    <3> QED
      BY <2>1, <3>3, <3>4 DEF Follows
  <2>5. \A i \in 1..Len(h) + 1 : Append(h, o)[i].deleting => Append(h, o)[i].finalizer
    <3> SUFFICES ASSUME NEW i \in 1..Len(h) + 1
                 PROVE  Append(h, o)[i].deleting => Append(h, o)[i].finalizer
      OBVIOUS
    <3>1. CASE i = Len(h) + 1
      BY <2>3, <2>4, <3>1
    <3>2. CASE i \in 1..Len(h)
      BY <2>2, <2>3, <3>2 DEF CondemnedInv
    <3> QED
      BY <2>2, <3>1, <3>2
  <2> QED
    BY <2>1, <2>2, <2>3, <2>5 DEF CondemnedInv
<1> QED
  BY <1>1, <1>2, StepKinds

\* What a step leaves a process as it is.
Same(v) ==
  /\ pc'[v] = pc[v] /\ base'[v] = base[v] /\ seen'[v] = seen[v]
  /\ v \in queued' <=> v \in queued

\* The handler of w goes on with call p, or comes to its end if p is "idle".
LEMMA ProceedFacts ==
  ASSUME IInv, NEW w \in Operators, NEW p, NEW o, NEW b, Proceed(w, p, o, b)
  PROVE  /\ queued' = queued /\ pc'[w] = p /\ (p # "idle" => base'[w] = b)
         /\ \A v \in Operators : v # w => Unmoved(v)
<1>1. TypeOK
  BY DEF IInv
<1>2. CASE p = "idle"
  BY <1>1, <1>2, HoldFacts DEF Proceed, Drop
<1>3. CASE p # "idle"
  BY <1>1, <1>3, HoldFacts DEF Proceed
<1> QED
  BY <1>2, <1>3

LEMMA RequeueFacts ==
  ASSUME IInv, NEW w \in Operators, Requeue(w)
  PROVE  /\ queued' = queued \cup {w} /\ pc'[w] = "idle"
         /\ \A v \in Operators : v # w => Unmoved(v)
<1>1. TypeOK
  BY DEF IInv
<1> QED
  BY <1>1, HoldFacts DEF Requeue, Drop

\* What a write leads to: the key is back in the queue, or the write was
\* accepted and the handler goes on from the version it made.
LEMMA WriteFacts ==
  ASSUME NEW w, NEW o, NEW p, Write(w, o, p)
  PROVE  \/ Requeue(w)
         \/ /\ IsLatest(history, base[w]) /\ history' = Written(history, o)
            /\ Proceed(w, p, o, Len(history'))
BY DEF Write

\* A call of a handler ends the pass, or leaves it with its version or with
\* the one just written; a pass that ends without an error leaves no key, any
\* other one does.
Handles(w) ==
  /\ pc[w] # "idle" /\ UNCHANGED seen
  /\ \A v \in Operators : v # w => Unmoved(v)
  /\ \/ queued' = queued /\ (pc'[w] # "idle" => base'[w] = base[w] \/ base'[w] = Len(history'))
     \/ queued' = queued \cup {w} /\ pc'[w] = "idle"

LEMMA HandlerMoves ==
  ASSUME IInv, NEW w \in Operators, Reconcile(w), ~Start(w)
  PROVE  Handles(w)
<1> USE DEF Handles
<1>1. CASE GetBotSecret(w)
  BY <1>1, ProceedFacts, RequeueFacts DEF GetBotSecret, Condition
<1>2. CASE SetCondition(w)
  BY <1>2, RequeueFacts DEF SetCondition
<1>3. CASE DeleteChannel(w)
  BY <1>3, ProceedFacts, RequeueFacts DEF DeleteChannel
<1>4. CASE RemoveFinalizer(w)
  BY <1>4, WriteFacts, ProceedFacts, RequeueFacts DEF RemoveFinalizer
<1>5. CASE AddFinalizer(w)
  BY <1>5, WriteFacts, ProceedFacts, RequeueFacts DEF AddFinalizer
<1>6. CASE CreateChannel(w)
  BY <1>6, ProceedFacts DEF CreateChannel, Condition
<1>7. CASE SaveChannel(w)
  BY <1>7, WriteFacts, ProceedFacts, RequeueFacts DEF SaveChannel
<1>8. CASE CreateWebhook(w)
  <2>1. CASE Condition(w, "WebhookCreationFailed")
    BY <1>8, <2>1, ProceedFacts DEF CreateWebhook, Condition
  <2>2. CASE Hold(w, "createSecret", obj[w], base[w], Len(hookAt')) /\ UNCHANGED queued
    BY <1>8, <2>2, HoldFacts DEF CreateWebhook, IInv
  <2> QED
    BY <1>8, <2>1, <2>2 DEF CreateWebhook
<1>9. CASE CreateSecret(w)
  BY <1>9, ProceedFacts, RequeueFacts DEF CreateSecret
<1>10. CASE SaveWebhook(w)
  BY <1>10, WriteFacts, ProceedFacts, RequeueFacts DEF SaveWebhook
<1> QED
  BY <1>1, <1>2, <1>3, <1>4, <1>5, <1>6, <1>7, <1>8, <1>9, <1>10 DEF Reconcile

\* A step is one of a handler, or of the queue and the informer of a process,
\* or leaves every process as it is.
LEMMA OthersStay ==
  ASSUME IInv, NEW v \in Operators, [Next]_vars,
         ~(Reconcile(v) \/ Deliver(v) \/ Resync(v) \/ Restart(v))
  PROVE  Same(v)
<1> USE DEF Same
<1>1. ASSUME NEW w \in Operators, w # v, Start(w) PROVE Same(v)
  <2>1. TypeOK /\ UNCHANGED seen /\ queued' = queued \ {w}
    BY <1>1 DEF Start, IInv
  <2>2. Unmoved(v)
    BY <1>1, <2>1, HoldFacts DEF Start, localVars, Unmoved
  <2> QED
    BY <1>1, <2>1, <2>2 DEF Unmoved
<1>2. ASSUME NEW w \in Operators, w # v, Reconcile(w), ~Start(w) PROVE Same(v)
  BY <1>2, HandlerMoves DEF Handles, Unmoved
<1>3. ASSUME NEW w \in Operators, w # v, Deliver(w) PROVE Same(v)
  BY <1>3 DEF Deliver, localVars, IInv, TypeOK
<1>4. ASSUME NEW w \in Operators, w # v, Resync(w) PROVE Same(v)
  BY <1>4 DEF Resync, localVars
<1>5. ASSUME NEW w \in Operators, w # v, Restart(w) PROVE Same(v)
  <2>1. TypeOK /\ Unmoved(v)
    BY <1>5, HoldFacts DEF Restart, Drop, IInv
  <2>2. seen'[v] = seen[v] /\ (v \in queued' <=> v \in queued)
    BY <1>5, <2>1 DEF Restart, TypeOK
  <2> QED
    BY <2>1, <2>2 DEF Unmoved
<1>6. CASE Create \/ Edit \/ Delete
  BY <1>6 DEF Create, Edit, Delete, WrittenElsewhere, localVars
<1>7. CASE SetBotSecret \/ CollectSecret \/ UNCHANGED vars
  BY <1>7 DEF SetBotSecret, CollectSecret, localVars, vars
<1> QED
  BY <1>1, <1>2, <1>3, <1>4, <1>5, <1>6, <1>7 DEF Next

\* The versions that a process has heard of, before and after a step.
LEMMA LengthFacts ==
  ASSUME IInv, [Next]_vars, NEW v \in Operators
  PROVE  /\ Len(history) \in Nat /\ Len(history') \in Nat /\ Len(history) <= Len(history')
         /\ seen[v] \in 1..Len(history) /\ base[v] \in 0..Len(history)
         /\ history' = history \/ Len(history') = Len(history) + 1
<1>1. /\ history \in Seq(Object) /\ Len(history) \in Nat
      /\ seen[v] \in 1..Len(history) /\ base[v] \in 0..Len(history)
  BY DEF IInv, TypeOK
<1>2. CASE Appends
  BY <1>1, <1>2 DEF Appends
<1>3. CASE Opens \/ Closes
  BY <1>1, <1>3 DEF Opens, Closes
<1> QED
  BY <1>1, <1>2, <1>3, StepKinds

\* Every step keeps KeyInv: what an informer delivers comes with a key.
LEMMA KeyNext ==
  ASSUME IInv, KeyInv, [Next]_vars
  PROVE  KeyInv'
<1> SUFFICES ASSUME NEW v \in Operators, pc'[v] # "idle", v \notin queued'
             PROVE  base'[v] >= seen'[v]
  BY DEF KeyInv
<1>1. CASE Start(v)
  <2>1. UNCHANGED seen /\ pc[v] = "idle" /\ TypeOK
    BY <1>1 DEF Start, IInv
  <2>2. Hold(v, "getBotSecret", Cached(v), seen[v], 0)
    BY <1>1, <2>1 DEF Start, localVars
  <2>3. base'[v] = seen[v]
    BY <2>1, <2>2, HoldFacts
  <2> QED
    BY <2>1, <2>3, LengthFacts
<1>2. CASE Reconcile(v) /\ ~Start(v)
  <2>1. /\ UNCHANGED <<seen, queued>> /\ pc[v] # "idle"
        /\ base'[v] = base[v] \/ base'[v] = Len(history')
    BY <1>2, HandlerMoves DEF Handles
  <2>2. base[v] >= seen[v]
    BY <2>1 DEF KeyInv
  <2> QED
    BY <2>1, <2>2, LengthFacts
<1>3. CASE Deliver(v) \/ Resync(v)
  BY <1>3 DEF Deliver, Resync
<1>4. CASE Restart(v)
  BY <1>4, HoldFacts DEF Restart, Drop, IInv
<1>5. CASE Same(v)
  BY <1>5 DEF Same, KeyInv
<1> QED
  BY <1>1, <1>2, <1>3, <1>4, <1>5, OthersStay

\* No process comes to rest with a version that it has not heard of.
LEMMA RestHasHeard ==
  ASSUME IInv, [Next]_vars, NEW v \in Operators, seen'[v] = Len(history')
  PROVE  UNCHANGED history
<1>1. CASE \E w \in Operators : Deliver(w) \/ Restart(w)
  BY <1>1 DEF Deliver, Restart, apiVars
<1>2. CASE UNCHANGED seen
  <2>1. Len(history') \in 1..Len(history)
    BY <1>2, LengthFacts
  <2>2. Len(history) \in Nat /\ (history' = history \/ Len(history') = Len(history) + 1)
    BY LengthFacts
  <2> QED
    BY <2>1, <2>2
<1>3. ASSUME NEW w \in Operators, Reconcile(w) PROVE UNCHANGED seen
  BY <1>3, HandlerMoves DEF Handles, Start
<1>4. CASE (\E w \in Operators : Resync(w)) \/ Create \/ Edit \/ Delete \/ SetBotSecret
           \/ CollectSecret \/ UNCHANGED vars
  <2>1. UNCHANGED seen
    BY <1>4 DEF Resync, Create, Edit, Delete, WrittenElsewhere, SetBotSecret, CollectSecret, vars
  <2> QED
    BY <1>2, <2>1
<1> QED
  BY <1>1, <1>2, <1>3, <1>4 DEF Next

\* A pass on the latest version that comes to its end, the version being what
\* it was, has found nothing to do or done the last of it.
LEMMA EndsWhenDone ==
  ASSUME IInv, CondemnedInv, NEW v \in Operators, Reconcile(v), ~Start(v),
         pc'[v] = "idle", v \notin queued', UNCHANGED history,
         base[v] = Len(history), Current.uid # 0
  PROVE  Current.finalizer /\ Current.webhookID # 0 /\ ~Current.deleting
<1>1. pc[v] # "idle" /\ ~Requeue(v)
  BY HandlerMoves, RequeueFacts DEF Handles
<1>2. /\ Copies(v) /\ Progress(v) /\ obj[v] \in Object /\ Current = Read(v)
      /\ Current \in Object /\ (Current.deleting => Current.finalizer)
  <2>1. Copies(v) /\ Progress(v) /\ obj[v] \in Object /\ Current = Read(v)
    BY <1>1, LatestCopy DEF IsLatest
  <2>2. Len(history) \in 1..Len(history) /\ Current = history[Len(history)]
    BY DEF IInv, TypeOK, Current, Latest
  <2>3. Current.deleting => Current.finalizer
    BY <2>2 DEF CondemnedInv
  <2> QED
    BY <2>1, <2>3, CurrentFacts
<1>3. ASSUME NEW p, NEW o, NEW b, Proceed(v, p, o, b) PROVE p = "idle"
  BY <1>3, ProceedFacts
<1>4. ASSUME NEW o, NEW p, Write(v, o, p)
      PROVE  p = "idle" /\ Current = o
  <2>1. history' = Written(history, o) /\ Proceed(v, p, o, Len(history'))
    BY <1>1, <1>4, WriteFacts
  <2>2. Written(history, o) = history => o = Current
    <3>1. ASSUME o # Latest(history), Append(history, o) = history PROVE FALSE
      <4>1. PICK h \in Seq(Object) : h = history
        BY DEF IInv, TypeOK
      <4>2. Len(Append(h, o)) = Len(h) + 1 /\ Len(h) \in Nat
        BY <4>1
      <4> QED
        BY <3>1, <4>1, <4>2
    <3> QED
      BY <3>1 DEF Written, Current
  <2> QED
    BY <1>3, <2>1, <2>2
<1>5. CASE GetBotSecret(v)
  <2>1. Proceed(v, Route(obj[v]), obj[v], base[v])
    BY <1>1, <1>3, <1>5 DEF GetBotSecret, Condition
  <2>2. Route(obj[v]) = "idle"
    BY <1>3, <2>1
  <2>3. ~obj[v].deleting
    <3>1. obj[v].deleting => NextRemoval(obj[v]) = "idle"
      BY <2>2 DEF Route
    <3>2. obj[v].deleting => obj[v].finalizer
      BY <1>2 DEF Copies
    <3> QED
      BY <3>1, <3>2 DEF NextRemoval
  <2>4. obj[v].finalizer /\ NextCreation(obj[v]) = "idle"
    BY <2>2, <2>3 DEF Route
  <2>5. obj[v].webhookID # 0
    BY <2>4 DEF NextCreation
  <2> QED
    BY <1>2, <2>3, <2>4, <2>5 DEF Copies
<1>6. CASE SetCondition(v)
  BY <1>1, <1>6 DEF SetCondition
<1>7. CASE DeleteChannel(v)
  BY <1>1, <1>3, <1>7 DEF DeleteChannel
<1>8. CASE RemoveFinalizer(v)
  BY <1>4, <1>8 DEF RemoveFinalizer, NoObject
<1>9. CASE AddFinalizer(v)
  <2> DEFINE o == [obj[v] EXCEPT !.finalizer = TRUE]
  <2>1. NextCreation(o) = "idle" /\ Current = o
    BY <1>4, <1>9 DEF AddFinalizer
  <2>2. Current.webhookID # 0
    BY <2>1 DEF NextCreation
  <2>3. ~Current.deleting
    BY <1>2, <1>9 DEF Progress, AddFinalizer
  <2>4. Current.finalizer
    BY <1>2, <2>1 DEF Object
  <2> QED
    BY <2>2, <2>3, <2>4
<1>10. CASE CreateChannel(v)
  BY <1>3, <1>10 DEF CreateChannel, Condition
<1>11. CASE SaveChannel(v)
  BY <1>4, <1>11 DEF SaveChannel
<1>12. CASE CreateWebhook(v)
  <2>1. ASSUME Hold(v, "createSecret", obj[v], base[v], Len(hookAt')) PROVE FALSE
    BY <2>1, HoldFacts DEF IInv
  <2> QED
    BY <1>3, <1>12, <2>1 DEF CreateWebhook, Condition
<1>13. CASE CreateSecret(v)
  BY <1>1, <1>3, <1>13 DEF CreateSecret
<1>14. CASE SaveWebhook(v)
  <2>1. Current = [obj[v] EXCEPT !.webhookID = hook[v], !.ready = "True"]
    BY <1>4, <1>14 DEF SaveWebhook
  <2>2. Current.webhookID = hook[v] /\ hook[v] # 0 /\ ~Current.deleting /\ Current.finalizer
    BY <1>2, <1>14, <2>1 DEF Progress, SaveWebhook, Object
  <2> QED
    BY <2>2
<1> QED
  BY <1>5, <1>6, <1>7, <1>8, <1>9, <1>10, <1>11, <1>12, <1>13, <1>14 DEF Reconcile

\* Every step keeps RestsWhenDone: a process that comes to rest has just ended
\* a pass on the latest version.
LEMMA DoneNext ==
  ASSUME RestInv, [Next]_vars
  PROVE  RestsWhenDone'
<1> SUFFICES ASSUME NEW v \in Operators, Rests(v)', Current'.uid # 0
             PROVE  Current'.finalizer /\ Current'.webhookID # 0 /\ ~Current'.deleting
  BY DEF RestsWhenDone
<1>1. IInv /\ CondemnedInv /\ KeyInv /\ RestsWhenDone
  BY DEF RestInv
<1>2. v \notin queued' /\ pc'[v] = "idle" /\ seen'[v] = Len(history')
  BY DEF Rests
<1>3. UNCHANGED history /\ Current' = Current
  BY <1>1, <1>2, RestHasHeard DEF Current, Latest
<1> SUFFICES Current.finalizer /\ Current.webhookID # 0 /\ ~Current.deleting
  BY <1>3
<1>4. Current.uid # 0
  BY <1>3
<1>5. CASE Same(v)
  BY <1>1, <1>2, <1>3, <1>4, <1>5 DEF Same, Rests, RestsWhenDone
<1>6. CASE Deliver(v) \/ Resync(v)
  BY <1>2, <1>6 DEF Deliver, Resync
<1>7. CASE Restart(v)
  BY <1>2, <1>4, <1>7 DEF Restart
<1>8. CASE Start(v)
  <2>1. Cached(v).uid # 0
    BY <1>2, <1>3, <1>4, <1>8 DEF Start, Cached, Current, Latest
  <2>2. Hold(v, "getBotSecret", Cached(v), seen[v], 0)
    BY <1>8, <2>1 DEF Start
  <2> QED
    BY <1>1, <1>2, <2>2, HoldFacts DEF IInv
<1>9. CASE Reconcile(v) /\ ~Start(v)
  <2>1. UNCHANGED seen /\ pc[v] # "idle" /\ v \notin queued
    BY <1>1, <1>2, <1>9, HandlerMoves DEF Handles
  <2>2. base[v] >= seen[v] /\ seen[v] = Len(history)
    BY <1>1, <1>2, <1>3, <2>1 DEF KeyInv
  <2>3. base[v] = Len(history)
    BY <1>1, <2>2, LengthFacts
  <2> QED
    BY <1>1, <1>2, <1>3, <1>4, <1>9, <2>3, EndsWhenDone
<1> QED
  BY <1>1, <1>5, <1>6, <1>7, <1>8, <1>9, OthersStay

\* No process comes to rest with something left to do, however many there
\* are: missing credentials, errors of Discord, conflicts, restarts and the
\* writes of others all leave each process a key or an event to come.
THEOREM RestIsDone == Spec => []RestsWhenDone
<1>1. Init => RestInv
  BY RestInit
<1>2. RestInv /\ [Next]_vars => RestInv'
  <2> SUFFICES ASSUME RestInv, [Next]_vars PROVE RestInv'
    OBVIOUS
  <2>1. IInv /\ CondemnedInv /\ KeyInv
    BY DEF RestInv
  <2>2. IInv'
    BY <2>1, NextIInv
  <2>3. CondemnedInv' /\ KeyInv' /\ RestsWhenDone'
    BY <2>1, CondemnedNext, KeyNext, DoneNext
  <2> QED
    BY <2>2, <2>3 DEF RestInv
<1>3. RestInv => RestsWhenDone
  BY DEF RestInv
<1> QED
  BY <1>1, <1>2, <1>3, PTL DEF Spec
=============================================================================
