------------------------ MODULE DiscordChannelProofs ------------------------
(***************************************************************************)
(* Proofs about DiscordChannel, for any number of operator processes and   *)
(* any bounds.                                                             *)
(*                                                                         *)
(* The argument: a handler may hold a version as stale as it likes, but    *)
(* its copy agrees with that version in everything it does not change      *)
(* itself (Copies, Progress), versions of one incarnation only ever grow   *)
(* (HistoryInv), and the API server accepts a write only if the copy's     *)
(* version is the latest.  So what a stale handler knows about its         *)
(* incarnation (condemned, channel recorded) is still true now.            *)
(***************************************************************************)
EXTENDS DiscordChannel, TLAPS

(***************************************************************************)
(* The inductive invariant.                                                *)
(***************************************************************************)

\* What a later version b of the same incarnation keeps of a.
Later(a, b) ==
  /\ a.finalizer => b.finalizer
  /\ a.channelID # 0 => b.channelID = a.channelID
  /\ a.webhookID # 0 => b.webhookID = a.webhookID
  /\ a.deleting => /\ b.deleting
                   /\ b.channelID = a.channelID
                   /\ b.webhookID = a.webhookID

\* What a version records exists and belongs to its incarnation.
Sound(o) ==
  /\ o.uid = 0 => o = NoObject
  /\ o.channelID # 0 => /\ o.finalizer
                        /\ o.channelID \in 1..Len(maker)
                        /\ maker[o.channelID] = o.uid
  /\ o.webhookID # 0 => /\ o.channelID # 0
                        /\ o.webhookID \in 1..Len(hookAt)
                        /\ hookAt[o.webhookID] = o.channelID

HistoryInv ==
  \A j \in 1..Len(history) :
    /\ Sound(history[j])
    /\ history[j].uid <= j
    /\ \A i \in 1..j :
         history[i].uid = history[j].uid => Later(history[i], history[j])

\* The version that the handler of w holds a copy of.
Read(w) == history[base[w]]

Copies(w) ==
  /\ base[w] # 0
  /\ Read(w).uid # 0
  /\ obj[w].uid = Read(w).uid
  /\ obj[w].deleting = Read(w).deleting
  /\ obj[w].finalizer = Read(w).finalizer
  /\ obj[w].webhookID = Read(w).webhookID
  /\ pc[w] # "saveChannel" => obj[w].channelID = Read(w).channelID

Progress(w) ==
  /\ pc[w] = "deleteChannel" => Read(w).deleting /\ Read(w).channelID # 0
  /\ pc[w] = "removeFinalizer" => Read(w).deleting /\ Read(w).channelID \notin live
  /\ pc[w] = "addFinalizer" => ~Read(w).deleting
  /\ pc[w] \in {"createChannel", "saveChannel"}
       => ~Read(w).deleting /\ Read(w).finalizer /\ Read(w).channelID = 0
  /\ pc[w] \in {"createWebhook", "createSecret", "saveWebhook"}
       => /\ ~Read(w).deleting /\ Read(w).finalizer
          /\ Read(w).channelID # 0 /\ Read(w).webhookID = 0
  /\ pc[w] \in {"createSecret", "saveWebhook"}
       => hook[w] # 0 /\ hookAt[hook[w]] = Read(w).channelID

WorkerInv == \A w \in Operators : pc[w] # "idle" => Copies(w) /\ Progress(w)

\* A channel that was created and is not saved yet is known to its handler
\* alone.
UnsavedInv ==
  \A w \in Operators : pc[w] = "saveChannel" =>
    /\ obj[w].channelID \in live
    /\ maker[obj[w].channelID] = obj[w].uid
    /\ \A i \in 1..Len(history) : history[i].channelID # obj[w].channelID
    /\ \A v \in Operators :
         v # w /\ pc[v] = "saveChannel" => obj[v].channelID # obj[w].channelID

\* Every channel was made under the cover of a finalizer.
MakerInv ==
  \A c \in 1..Len(maker) :
    \E i \in 1..Len(history) : history[i].uid = maker[c] /\ history[i].finalizer

\* The Secret's webhook posts to a channel that the Secret's owner recorded.
SecretInv ==
  secret # NoSecret =>
    \E i \in 1..Len(history) :
      /\ history[i].uid = secret.owner
      /\ history[i].channelID # 0
      /\ hookAt[secret.hook] = history[i].channelID

IInv ==
  /\ TypeOK
  /\ HistoryInv
  /\ WorkerInv
  /\ UnsavedInv
  /\ MakerInv
  /\ SecretInv
  /\ RecordedChannelIsLive

(***************************************************************************)
(* How the history may grow.                                               *)
(***************************************************************************)

\* The versions that may follow the current one: the zero struct when the
\* resource is gone, a new incarnation, a later version of the same one.
Allowed(o) ==
  /\ o \in Object
  /\ \/ o = NoObject
     \/ o = NewObject(Len(history) + 1)
     \/ /\ o.uid # 0 /\ o.uid = Current.uid
        /\ Later(Current, o)
        /\ Sound(o)

Grow(o) == history' = history \/ history' = Append(history, o)

\* What happens to the channels and webhooks in any step: more of them, never
\* other ones.
DiscordGrows ==
  /\ Len(maker') \in Nat /\ Len(hookAt') \in Nat
  /\ Len(maker) <= Len(maker') /\ \A c \in 1..Len(maker) : maker'[c] = maker[c]
  /\ Len(hookAt) <= Len(hookAt') /\ \A k \in 1..Len(hookAt) : hookAt'[k] = hookAt[k]

\* A write leaves the older versions as they are (any step of the API server).
LEMMA GrowFacts ==
  ASSUME TypeOK, NEW o \in Object, Grow(o)
  PROVE  /\ history' \in Seq(Object)
         /\ Len(history') \in {Len(history), Len(history) + 1}
         /\ \A i \in 1..Len(history) : history'[i] = history[i]
         /\ \A i \in 1..Len(history') : i <= Len(history) \/ history'[i] = o
         /\ history' # history => Len(history') = Len(history) + 1
<1>1. history \in Seq(Object) /\ Len(history) \in Nat
  BY DEF TypeOK
<1>2. CASE history' = history
  BY <1>1, <1>2
<1>3. CASE history' = Append(history, o)
  BY <1>1, <1>3
<1> QED
  BY <1>2, <1>3 DEF Grow

\* The versions keep their order and what they record, whatever allowed
\* version is appended.
LEMMA HistoryStep ==
  ASSUME TypeOK, HistoryInv, NEW o, Allowed(o), Grow(o), DiscordGrows
  PROVE  HistoryInv'
<1>1. o \in Object
  BY DEF Allowed
<1>2. /\ history' \in Seq(Object)
      /\ Len(history') \in {Len(history), Len(history) + 1}
      /\ \A i \in 1..Len(history) : history'[i] = history[i]
      /\ \A i \in 1..Len(history') : i <= Len(history) \/ history'[i] = o
  BY <1>1, GrowFacts
<1>3. Len(history) \in Nat \ {0}
  BY DEF TypeOK
<1>4. \A i \in 1..Len(history) : history[i] \in Object
  BY DEF TypeOK
<1>5. ASSUME NEW p \in Object, Sound(p)
      PROVE  Sound(p)'
  <2>1. Len(maker) \in Nat /\ Len(hookAt) \in Nat
    BY DEF TypeOK
  <2>2. p.channelID \in Nat /\ p.webhookID \in Nat
    BY DEF Object
  <2> QED
    BY <1>5, <2>1, <2>2 DEF Sound, DiscordGrows
<1>6. Sound(o)'
  <2>1. CASE o = NoObject \/ o = NewObject(Len(history) + 1)
    BY <2>1, <1>3 DEF Sound, NewObject, NoObject
  <2>2. CASE Sound(o)
    BY <2>2, <1>1, <1>5
  <2> QED
    BY <2>1, <2>2 DEF Allowed
<1>7. SUFFICES ASSUME NEW j \in 1..Len(history')
               PROVE  /\ Sound(history[j])'
                      /\ history'[j].uid <= j
                      /\ \A i \in 1..j : history'[i].uid = history'[j].uid
                                           => Later(history'[i], history'[j])
  BY DEF HistoryInv
<1>8. CASE j <= Len(history)
  <2>1. j \in 1..Len(history) /\ \A i \in 1..j : i \in 1..Len(history)
    BY <1>8, <1>2, <1>3
  <2>2. Sound(history[j]) /\ history[j].uid <= j
    BY <2>1 DEF HistoryInv
  <2> QED
    BY <2>1, <2>2, <1>2, <1>4, <1>5 DEF HistoryInv
<1>9. CASE j = Len(history) + 1
  <2>1. history'[j] = o
    BY <1>2, <1>3, <1>9
  <2>2. o.uid <= j
    BY <1>9, <1>3, <1>4 DEF Allowed, HistoryInv, Current, Latest, NewObject, NoObject, Object
  <2>3. ASSUME NEW i \in 1..j, history'[i].uid = o.uid
        PROVE  Later(history'[i], o)
    <3>1. CASE i = j
      BY <3>1, <2>1 DEF Later
    <3>2. CASE i # j
      <4>1. i \in 1..Len(history) /\ history'[i] = history[i] /\ history[i] \in Object
        BY <3>2, <1>9, <1>2, <1>3, <1>4
      <4>2. Sound(history[i]) /\ history[i].uid <= i
        BY <4>1 DEF HistoryInv
      <4>3. CASE o = NoObject
        BY <4>1, <4>2, <4>3, <2>3 DEF Sound, Later, NoObject
      <4>4. CASE o = NewObject(Len(history) + 1)
        BY <4>1, <4>2, <4>4, <2>3, <1>3 DEF NewObject, NoObject, Object
      <4>5. CASE o.uid = Current.uid /\ Later(Current, o)
        <5>1. Later(history[i], Current)
          BY <4>1, <4>5, <2>3, <1>3 DEF HistoryInv, Current, Latest
        <5> QED
          BY <5>1, <4>1, <4>5 DEF Later
      <4> QED
        BY <4>3, <4>4, <4>5 DEF Allowed
    <3> QED
      BY <3>1, <3>2
  <2> QED
    BY <2>1, <2>2, <2>3, <1>6
<1> QED
  BY <1>8, <1>9, <1>2, <1>3

(***************************************************************************)
(* What a step does to what the handlers know.                             *)
(***************************************************************************)

\* Versions are kept, channels are never given out twice.
WorldGrows ==
  /\ DiscordGrows
  /\ Len(history') \in Nat /\ Len(history) <= Len(history')
  /\ \A i \in 1..Len(history) : history'[i] = history[i]
  /\ \A c \in live' : c \in live \/ c > Len(maker)

Unmoved(v) == /\ pc'[v] = pc[v] /\ obj'[v] = obj[v]
              /\ base'[v] = base[v] /\ hook'[v] = hook[v]

\* A handler that does not move still holds a true copy after any step.
LEMMA CopyFrame ==
  ASSUME TypeOK, HistoryInv, WorldGrows,
         NEW v \in Operators, pc[v] # "idle", Copies(v), Progress(v), Unmoved(v)
  PROVE  Copies(v)' /\ Progress(v)'
<1>1. base[v] \in 1..Len(history) /\ Read(v)' = Read(v)
  BY DEF TypeOK, WorldGrows, Unmoved, Copies, Read
<1>2. Copies(v)'
  BY <1>1 DEF Copies, Unmoved
<1>3. Read(v).channelID = 0 \/ Read(v).channelID \in 1..Len(maker)
  BY <1>1 DEF HistoryInv, Sound, Read
<1>4. 0 \notin live /\ Len(maker) \in Nat
  BY DEF TypeOK
<1>5. Read(v).channelID \notin live => Read(v).channelID \notin live'
  BY <1>3, <1>4 DEF WorldGrows
<1>6. hook[v] # 0 => hookAt'[hook[v]] = hookAt[hook[v]]
  BY DEF WorldGrows, DiscordGrows, TypeOK
<1>7. Progress(v)'
  BY <1>1, <1>5, <1>6 DEF Progress, Unmoved
<1> QED
  BY <1>2, <1>7

\* What every handler does in a step: end, wait, or move to a call that it
\* is ready for.
Moves(v) == \/ pc'[v] = "idle"
            \/ Unmoved(v)
            \/ Copies(v)' /\ Progress(v)'

\* Handlers that do not move, end, or move to a call they are ready for keep
\* WorkerInv.
LEMMA WorkersStep ==
  ASSUME TypeOK, HistoryInv, WorkerInv, WorldGrows, \A v \in Operators : Moves(v)
  PROVE  WorkerInv'
<1> SUFFICES ASSUME NEW v \in Operators, pc'[v] # "idle"
             PROVE  Copies(v)' /\ Progress(v)'
  BY DEF WorkerInv
<1>1. CASE Unmoved(v)
  BY <1>1, CopyFrame DEF WorkerInv, Unmoved
<1> QED
  BY <1>1 DEF Moves

\* Only channels of condemned resources go away, and a version that becomes
\* the latest records a channel that exists.
LEMMA RecordedStep ==
  ASSUME TypeOK, HistoryInv, RecordedChannelIsLive,
         NEW o \in Object, Grow(o), WorldGrows,
         history' # history /\ o.channelID # 0 /\ ~o.deleting => o.channelID \in live',
         \A c \in live : c \notin live' =>
           \E i \in 1..Len(history) : history[i].channelID = c /\ history[i].deleting
  PROVE  RecordedChannelIsLive'
<1>1. Len(history) \in 1..Len(history)
  BY DEF TypeOK
<1>2. CASE history' = history
  <2> SUFFICES ASSUME Current.channelID # 0, ~Current.deleting,
                      Current.channelID \notin live'
               PROVE  FALSE
    BY <1>2 DEF RecordedChannelIsLive, Current, Latest
  <2>1. Current.channelID \in live
    BY DEF RecordedChannelIsLive
  <2>2. PICK i \in 1..Len(history) :
          history[i].channelID = Current.channelID /\ history[i].deleting
    BY <2>1
  <2>3. history[i].uid = Current.uid
    BY <2>2, <1>1 DEF HistoryInv, Sound, Current, Latest
  <2> QED
    BY <2>2, <2>3, <1>1 DEF HistoryInv, Later, Current, Latest
<1>3. CASE history' # history
  <2>1. history' = Append(history, o)
    BY <1>3 DEF Grow
  <2>2. Current' = o
    BY <2>1 DEF TypeOK, Current, Latest
  <2> QED
    BY <2>2, <1>3 DEF RecordedChannelIsLive
<1> QED
  BY <1>2, <1>3

\* No step but CreateChannel makes a handler hold an unsaved channel, and
\* the version that is written records none that another handler holds.
LEMMA UnsavedStep ==
  ASSUME TypeOK, UnsavedInv, NEW o \in Object, Grow(o), WorldGrows,
         \A v \in Operators :
           pc'[v] = "saveChannel" => pc[v] = "saveChannel" /\ obj'[v] = obj[v],
         \A v \in Operators :
           history' # history /\ pc'[v] = "saveChannel" => o.channelID # obj[v].channelID,
         \A c \in live : c \notin live' =>
           \E i \in 1..Len(history) : history[i].channelID = c
  PROVE  UnsavedInv'
<1> SUFFICES ASSUME NEW w \in Operators, pc'[w] = "saveChannel"
             PROVE  /\ obj'[w].channelID \in live'
                    /\ maker'[obj'[w].channelID] = obj'[w].uid
                    /\ \A i \in 1..Len(history') :
                         history'[i].channelID # obj'[w].channelID
                    /\ \A v \in Operators :
                         v # w /\ pc'[v] = "saveChannel"
                           => obj'[v].channelID # obj'[w].channelID
  BY DEF UnsavedInv
<1>1. /\ pc[w] = "saveChannel" /\ obj'[w] = obj[w]
      /\ obj[w].channelID \in live
      /\ maker[obj[w].channelID] = obj[w].uid
      /\ \A i \in 1..Len(history) : history[i].channelID # obj[w].channelID
  BY DEF UnsavedInv
<1>2. obj[w].channelID \in live'
  BY <1>1
<1>3. maker'[obj[w].channelID] = obj[w].uid
  BY <1>1 DEF WorldGrows, DiscordGrows, TypeOK
<1>4. \A i \in 1..Len(history') : history'[i].channelID # obj[w].channelID
  <2>1. CASE history' = history
    BY <1>1, <2>1
  <2>2. CASE history' # history
    <3> SUFFICES ASSUME NEW i \in 1..Len(history')
                 PROVE  history'[i].channelID # obj[w].channelID
      OBVIOUS
    <3>1. CASE i <= Len(history)
      <4>1. i \in 1..Len(history)
        BY <3>1 DEF TypeOK
      <4> QED
        BY <4>1, <1>1 DEF WorldGrows
    <3>2. CASE history'[i] = o
      BY <3>2, <2>2
    <3> QED
      BY <3>1, <3>2, GrowFacts
  <2> QED
    BY <2>1, <2>2
<1> QED
  BY <1>1, <1>2, <1>3, <1>4 DEF UnsavedInv

\* While no channel is made, the finalizers that cover the old ones stay in
\* the history.
LEMMA MakerStep ==
  ASSUME TypeOK, MakerInv, WorldGrows, maker' = maker
  PROVE  MakerInv'
<1> SUFFICES ASSUME NEW c \in 1..Len(maker)
             PROVE  \E i \in 1..Len(history') :
                      history'[i].uid = maker[c] /\ history'[i].finalizer
  BY DEF MakerInv
<1>1. PICK i \in 1..Len(history) : history[i].uid = maker[c] /\ history[i].finalizer
  BY DEF MakerInv
<1>2. i \in 1..Len(history') /\ history'[i] = history[i]
  BY DEF WorldGrows, TypeOK
<1> QED
  BY <1>1, <1>2

\* While the Secret is left alone, the version that recorded its webhook's
\* channel stays in the history.
LEMMA SecretStep ==
  ASSUME TypeOK, SecretInv, WorldGrows, secret' = secret
  PROVE  SecretInv'
<1> SUFFICES ASSUME secret # NoSecret
             PROVE  \E i \in 1..Len(history') :
                      /\ history'[i].uid = secret.owner
                      /\ history'[i].channelID # 0
                      /\ hookAt'[secret.hook] = history'[i].channelID
  BY DEF SecretInv
<1>1. PICK i \in 1..Len(history) : /\ history[i].uid = secret.owner
                                   /\ history[i].channelID # 0
                                   /\ hookAt[secret.hook] = history[i].channelID
  BY DEF SecretInv
<1>2. secret.hook \in 1..Len(hookAt)
  BY DEF TypeOK, WebhookSecret
<1>3. i \in 1..Len(history') /\ history'[i] = history[i]
  BY DEF WorldGrows, TypeOK
<1>4. hookAt'[secret.hook] = hookAt[secret.hook]
  BY <1>2 DEF WorldGrows, DiscordGrows
<1> QED
  BY <1>1, <1>3, <1>4

(***************************************************************************)
(* The steps by kind.                                                      *)
(***************************************************************************)

\* Everything but CreateChannel, and the Secret's own invariant.
LEMMA Preserve ==
  ASSUME IInv, TypeOK', NEW o, Allowed(o), Grow(o),
         maker' = maker, live' \subseteq live,
         Len(hookAt) <= Len(hookAt'),
         \A k \in 1..Len(hookAt) : hookAt'[k] = hookAt[k],
         secret' = secret \/ SecretInv',
         history' # history /\ o.channelID # 0 /\ ~o.deleting => o.channelID \in live',
         \A c \in live : c \notin live' =>
           \E i \in 1..Len(history) : history[i].channelID = c /\ history[i].deleting,
         \A v \in Operators :
           pc'[v] = "saveChannel" =>
             /\ pc[v] = "saveChannel" /\ obj'[v] = obj[v]
             /\ history' # history => o.channelID # obj[v].channelID,
         \A v \in Operators : Moves(v)
  PROVE  IInv'
<1>1. o \in Object
  BY DEF Allowed
<1>2. DiscordGrows
  BY DEF DiscordGrows, IInv, TypeOK
<1>3. WorldGrows
  BY <1>1, <1>2, GrowFacts DEF WorldGrows, IInv, TypeOK
<1>4. HistoryInv'
  BY <1>2, HistoryStep DEF IInv
<1>5. WorkerInv'
  BY <1>3, WorkersStep DEF IInv
<1>6. UnsavedInv'
  BY <1>1, <1>3, UnsavedStep DEF IInv
<1>7. MakerInv'
  BY <1>3, MakerStep DEF IInv
<1>8. SecretInv'
  BY <1>3, SecretStep DEF IInv
<1>9. RecordedChannelIsLive'
  BY <1>1, <1>3, RecordedStep DEF IInv
<1> QED
  BY <1>4, <1>5, <1>6, <1>7, <1>8, <1>9 DEF IInv

\* The two versions that others write are objects, and removal is allowed.
LEMMA ObjectFacts ==
  /\ NoObject \in Object
  /\ \A u \in Nat : NewObject(u) \in Object
  /\ \A u \in Nat : NewObject(u).uid = u /\ NewObject(u).channelID = 0
  /\ Allowed(NoObject)
BY DEF NoObject, NewObject, Object, Conditions, Allowed

\* The local variables keep their types when the handler of w moves.
LEMMA HoldType ==
  ASSUME TypeOK, NEW w \in Operators, NEW p \in Calls, NEW o \in Object, NEW b, NEW k,
         Len(history') \in Nat, Len(history) <= Len(history'), b \in 0..Len(history'),
         Len(hookAt') \in Nat, Len(hookAt) <= Len(hookAt'), k \in 0..Len(hookAt'),
         Hold(w, p, o, b, k)
  PROVE  /\ pc' \in [Operators -> Calls]
         /\ obj' \in [Operators -> Object]
         /\ base' \in [Operators -> 0..Len(history')]
         /\ hook' \in [Operators -> 0..Len(hookAt')]
BY DEF TypeOK, Hold

\* After Hold, the handler of w is where it was sent and no other has moved.
LEMMA HoldFacts ==
  ASSUME TypeOK, NEW w \in Operators, NEW p, NEW o, NEW b, NEW k, Hold(w, p, o, b, k)
  PROVE  /\ pc'[w] = p /\ obj'[w] = o /\ base'[w] = b /\ hook'[w] = k
         /\ \A v \in Operators : v # w => Unmoved(v)
BY DEF TypeOK, Hold, Unmoved

\* The type invariant when only the handler of w moves.
LEMMA LocalType ==
  ASSUME TypeOK, NEW w \in Operators, NEW p \in Calls, NEW o \in Object, NEW b, NEW k,
         b \in 0..Len(history), k \in 0..Len(hookAt),
         Hold(w, p, o, b, k),
         UNCHANGED <<apiVars, discordVars, seen>>,
         queued' \subseteq Operators, budget' \in 0..MaxDisturbances
  PROVE  TypeOK'
<1>1. Len(history) \in Nat /\ Len(hookAt) \in Nat
  BY DEF TypeOK
<1>2. UNCHANGED <<history, secret, botSecret, maker, live, hookAt, seen>>
  BY DEF apiVars, discordVars
<1>3. /\ pc' \in [Operators -> Calls] /\ obj' \in [Operators -> Object]
      /\ base' \in [Operators -> 0..Len(history')]
      /\ hook' \in [Operators -> 0..Len(hookAt')]
  BY <1>1, <1>2, HoldType
<1> QED
  BY <1>2, <1>3 DEF TypeOK

\* The invariant when only the handler of w moves, to a call it is ready for
\* and that is not saveChannel.
LEMMA LocalStep ==
  ASSUME IInv, NEW w \in Operators, NEW p \in Calls, NEW o \in Object, NEW b, NEW k,
         b \in 0..Len(history), k \in 0..Len(hookAt),
         Hold(w, p, o, b, k),
         UNCHANGED <<apiVars, discordVars, seen>>,
         queued' \subseteq Operators, budget' \in 0..MaxDisturbances,
         p # "saveChannel",
         p # "idle" => Copies(w)' /\ Progress(w)'
  PROVE  IInv'
<1>1. TypeOK'
  BY LocalType DEF IInv
<1>2. UNCHANGED <<history, secret, botSecret, maker, live, hookAt, seen>>
  BY DEF apiVars, discordVars
<1>3. /\ pc'[w] = p
      /\ \A v \in Operators : v # w => Unmoved(v)
  BY HoldFacts DEF IInv
<1>4. Allowed(NoObject) /\ Grow(NoObject)
  BY <1>2, ObjectFacts DEF Grow
<1>5. \A v \in Operators : Moves(v)
  BY <1>3 DEF Moves
<1>6. Len(hookAt) \in Nat
  BY DEF IInv, TypeOK
<1> QED
  BY <1>1, <1>2, <1>3, <1>4, <1>5, <1>6, Preserve DEF Unmoved

\* A handler that gives up changes nothing but its own state.
LEMMA DropFacts ==
  ASSUME IInv, NEW w \in Operators, Requeue(w)
  PROVE  /\ Hold(w, "idle", NoObject, 0, 0)
         /\ queued' \subseteq Operators
         /\ "idle" \in Calls /\ NoObject \in Object
         /\ 0 \in 0..Len(history) /\ 0 \in 0..Len(hookAt)
BY ObjectFacts DEF Requeue, Drop, IInv, TypeOK, Calls

\* A disturbance takes from the budget, which never falls below zero.
LEMMA BudgetFacts ==
  ASSUME TypeOK, Disturb \/ UNCHANGED budget
  PROVE  budget' \in 0..MaxDisturbances
BY BoundsAssumption DEF TypeOK, Disturb

(***************************************************************************)
(* Writes of the resource.                                                 *)
(***************************************************************************)

\* A version o that the handler of w may write: allowed when its copy is of
\* the latest version, and recording no channel but a live one that no other
\* handler is about to save.
Writable(w, o) ==
  /\ o \in Object
  /\ IsLatest(history, base[w]) => Allowed(o)
  /\ o.channelID # 0 /\ ~o.deleting => o.channelID \in live
  /\ \A v \in Operators :
       v # w /\ pc[v] = "saveChannel" => o.channelID # obj[v].channelID

\* The type invariant after a write, wherever the handler goes next.
LEMMA WriteType ==
  ASSUME TypeOK, NEW w \in Operators, NEW o \in Object, NEW p \in Calls, NEW c \in Object,
         NEW b, NEW k, b \in 0..Len(history'), k \in 0..Len(hookAt),
         Grow(o), Hold(w, p, c, b, k),
         UNCHANGED <<secret, botSecret, discordVars, seen>>,
         queued' \subseteq Operators, budget' \in 0..MaxDisturbances
  PROVE  TypeOK'
<1>1. Len(history) \in Nat \ {0} /\ Len(hookAt) \in Nat
  BY DEF TypeOK
<1>2. UNCHANGED <<secret, botSecret, maker, live, hookAt, seen>>
  BY DEF discordVars
<1>3. history' \in Seq(Object) /\ Len(history') \in {Len(history), Len(history) + 1}
  BY GrowFacts
<1>4. /\ pc' \in [Operators -> Calls] /\ obj' \in [Operators -> Object]
      /\ base' \in [Operators -> 0..Len(history')]
      /\ hook' \in [Operators -> 0..Len(hookAt')]
  BY <1>1, <1>2, <1>3, HoldType
<1>5. seen \in [Operators -> 1..Len(history')]
  <2>1. 1..Len(history) \subseteq 1..Len(history')
    BY <1>1, <1>3
  <2> QED
    BY <2>1 DEF TypeOK
<1> QED
  BY <1>1, <1>2, <1>3, <1>4, <1>5 DEF TypeOK

\* A write after which the handler is over: what remains is the version.
LEMMA LastWriteStep ==
  ASSUME IInv, NEW w \in Operators, NEW o, Writable(w, o),
         \/ history' = history
         \/ IsLatest(history, base[w]) /\ history' = Written(history, o),
         Drop(w), queued' \subseteq Operators, budget' \in 0..MaxDisturbances,
         UNCHANGED <<secret, botSecret, discordVars, seen>>
  PROVE  IInv'
<1>1. UNCHANGED <<secret, botSecret, maker, live, hookAt, seen>>
  BY DEF discordVars
<1>2. o \in Object /\ Grow(o)
  BY DEF Writable, Grow, Written
<1>3. /\ "idle" \in Calls /\ NoObject \in Object
      /\ Len(history) \in Nat /\ Len(hookAt) \in Nat
  BY ObjectFacts DEF Calls, IInv, TypeOK
<1>4. Len(history') \in Nat
  BY <1>2, GrowFacts DEF Writable, IInv
<1>5. TypeOK'
  BY <1>2, <1>3, <1>4, WriteType DEF Drop, Writable, IInv
<1>6. pc'[w] = "idle" /\ \A v \in Operators : v # w => Unmoved(v)
  BY HoldFacts DEF Drop, IInv
<1>7. \A v \in Operators : Moves(v)
  BY <1>6 DEF Moves
<1>8. CASE history' = history
  BY <1>1, <1>3, <1>5, <1>6, <1>7, <1>8, Preserve, ObjectFacts DEF Grow, Unmoved
<1>9. CASE history' # history
  BY <1>1, <1>2, <1>3, <1>5, <1>6, <1>7, <1>9, Preserve DEF Writable, Unmoved
<1> QED
  BY <1>8, <1>9

\* What the calls that may follow a write need of the version written.
Prepared(p, o) ==
  /\ p \in {"createChannel", "createWebhook"}
  /\ o.uid # 0 /\ ~o.deleting /\ o.finalizer /\ o.webhookID = 0
  /\ p = "createChannel" <=> o.channelID = 0

\* Write keeps the invariant, whatever its outcome.
LEMMA WriteStep ==
  ASSUME IInv, NEW w \in Operators, NEW o, NEW p, Writable(w, o),
         p = "idle" \/ Prepared(p, o),
         Write(w, o, p),
         UNCHANGED <<secret, botSecret, discordVars, seen>>
  PROVE  IInv'
<1>1. UNCHANGED <<secret, botSecret, maker, live, hookAt, seen>>
  BY DEF discordVars
<1>2. CASE Requeue(w)
  <2>1. Drop(w) /\ queued' \subseteq Operators
    BY <1>2 DEF Requeue, IInv, TypeOK
  <2>2. budget' \in 0..MaxDisturbances
    BY BudgetFacts DEF Write, IInv
  <2>3. \/ history' = history
        \/ IsLatest(history, base[w]) /\ history' = Written(history, o)
    BY DEF Write
  <2> QED
    BY <2>1, <2>2, <2>3, LastWriteStep
<1>3. CASE /\ IsLatest(history, base[w])
           /\ history' = Written(history, o)
           /\ Proceed(w, p, o, Len(history'))
           /\ UNCHANGED budget
  <2>1. queued' \subseteq Operators /\ budget' \in 0..MaxDisturbances
    BY <1>3 DEF Proceed, IInv, TypeOK
  <2>2. CASE p = "idle"
    BY <1>3, <2>1, <2>2, LastWriteStep DEF Proceed
  <2>3. CASE p # "idle"
    <3>1. Hold(w, p, o, Len(history'), hook[w])
      BY <1>3, <2>3 DEF Proceed
    <3>2. o \in Object /\ Allowed(o) /\ Grow(o) /\ p \in Calls /\ Prepared(p, o)
      BY <1>3, <2>3 DEF Writable, Grow, Written, Prepared, Calls
    <3>3. /\ Len(history) \in Nat \ {0} /\ Len(hookAt) \in Nat
          /\ hook[w] \in 0..Len(hookAt) /\ history \in Seq(Object)
      BY DEF IInv, TypeOK
    <3>4. Len(history') \in {Len(history), Len(history) + 1}
      BY <3>2, GrowFacts DEF IInv
    <3>5. TypeOK'
      BY <2>1, <3>1, <3>2, <3>3, <3>4, WriteType DEF IInv
    <3>6. /\ pc'[w] = p /\ obj'[w] = o /\ base'[w] = Len(history')
          /\ \A v \in Operators : v # w => Unmoved(v)
      BY <3>1, HoldFacts DEF IInv
    <3>7. history'[Len(history')] = o
      BY <1>3, <3>3 DEF Written, Latest
    <3>8. Copies(w)' /\ Progress(w)'
      BY <3>2, <3>3, <3>4, <3>6, <3>7 DEF Copies, Progress, Read, Prepared
    <3>9. \A v \in Operators : Moves(v)
      BY <3>6, <3>8 DEF Moves
    <3> QED
      BY <1>1, <3>2, <3>3, <3>5, <3>6, <3>9, Preserve DEF Writable, Unmoved, Prepared
  <2> QED
    BY <2>2, <2>3
<1> QED
  BY <1>2, <1>3 DEF Write

(***************************************************************************)
(* The actions that write the resource.                                    *)
(***************************************************************************)

\* What the handler of w knows when its copy is of the latest version.
LEMMA LatestCopy ==
  ASSUME IInv, NEW w \in Operators, pc[w] # "idle"
  PROVE  /\ base[w] \in 1..Len(history)
         /\ Copies(w) /\ Progress(w)
         /\ Sound(Read(w)) /\ Read(w) \in Object /\ obj[w] \in Object
         /\ IsLatest(history, base[w]) => Current = Read(w)
         /\ \A v \in Operators : pc[v] = "saveChannel" =>
              Read(w).channelID # obj[v].channelID
<1>1. base[w] \in 1..Len(history) /\ Copies(w) /\ Progress(w) /\ obj[w] \in Object
  BY DEF IInv, TypeOK, WorkerInv, Copies
<1>2. Sound(Read(w)) /\ Read(w) \in Object
  BY <1>1 DEF IInv, TypeOK, HistoryInv, Read
<1>3. IsLatest(history, base[w]) => Current = Read(w)
  BY DEF IsLatest, Current, Latest, Read
<1>4. \A v \in Operators : pc[v] = "saveChannel" => Read(w).channelID # obj[v].channelID
  BY <1>1 DEF IInv, UnsavedInv, Read
<1> QED
  BY <1>1, <1>2, <1>3, <1>4

\* A copy with another condition is a version the handler may write.
LEMMA SetConditionStep ==
  ASSUME IInv, NEW w \in Operators, SetCondition(w)
  PROVE  IInv'
<1>1. pc[w] = "setCondition" /\ Requeue(w)
  BY DEF SetCondition
<1>2. /\ Copies(w) /\ Sound(Read(w)) /\ obj[w] \in Object
      /\ IsLatest(history, base[w]) => Current = Read(w)
      /\ \A v \in Operators : pc[v] = "saveChannel" => Read(w).channelID # obj[v].channelID
  BY <1>1, LatestCopy
<1>3. IsLatest(history, base[w]) => Allowed(obj[w])
  BY <1>1, <1>2 DEF Allowed, Copies, Later, Sound
<1>4. Drop(w) /\ queued' \subseteq Operators /\ budget' \in 0..MaxDisturbances
  BY <1>1, BudgetFacts DEF SetCondition, Requeue, IInv, TypeOK
<1>5. CASE IsLatest(history, base[w])
  <2>1. Writable(w, obj[w])
    BY <1>1, <1>2, <1>3, <1>5 DEF Writable, Copies, IInv, RecordedChannelIsLive
  <2> QED
    BY <2>1, <1>4, LastWriteStep DEF SetCondition
<1>6. CASE ~IsLatest(history, base[w])
  <2>1. Writable(w, NoObject)
    BY ObjectFacts DEF Writable, NoObject, IInv, TypeOK, UnsavedInv
  <2> QED
    BY <2>1, <1>4, <1>6, LastWriteStep DEF SetCondition
<1> QED
  BY <1>5, <1>6

\* The zero struct, that a removed resource leaves, may always be written.
LEMMA NoObjectWritable ==
  ASSUME IInv, NEW w \in Operators
  PROVE  Writable(w, NoObject)
BY ObjectFacts DEF Writable, NoObject, IInv, TypeOK, UnsavedInv

\* discordchannel_controller.go:128-134 keeps the invariant.
LEMMA RemoveFinalizerStep ==
  ASSUME IInv, NEW w \in Operators, RemoveFinalizer(w)
  PROVE  IInv'
BY NoObjectWritable, WriteStep DEF RemoveFinalizer

\* discordchannel_controller.go:137-143 keeps the invariant.
LEMMA AddFinalizerStep ==
  ASSUME IInv, NEW w \in Operators, AddFinalizer(w)
  PROVE  IInv'
<1> DEFINE o == [obj[w] EXCEPT !.finalizer = TRUE]
<1>1. pc[w] = "addFinalizer"
  BY DEF AddFinalizer
<1>2. /\ Copies(w) /\ Progress(w) /\ Sound(Read(w)) /\ obj[w] \in Object
      /\ IsLatest(history, base[w]) => Current = Read(w)
      /\ \A v \in Operators : pc[v] = "saveChannel" => Read(w).channelID # obj[v].channelID
  BY <1>1, LatestCopy
<1>3. /\ o \in Object /\ o.uid = Read(w).uid /\ o.uid # 0 /\ o.finalizer
      /\ o.channelID = Read(w).channelID /\ o.webhookID = Read(w).webhookID
      /\ ~o.deleting /\ ~Read(w).deleting
  BY <1>1, <1>2 DEF Copies, Progress, Object
<1>4. Later(Read(w), o) /\ Sound(o)
  BY <1>2, <1>3 DEF Later, Sound
<1>5. NextCreation(o) = "idle" \/ Prepared(NextCreation(o), o)
  BY <1>3 DEF NextCreation, Prepared
<1>6. CASE IsLatest(history, base[w])
  <2>1. Writable(w, o)
    BY <1>2, <1>3, <1>4, <1>6 DEF Writable, Allowed, IInv, RecordedChannelIsLive
  <2> QED
    BY <2>1, <1>5, WriteStep DEF AddFinalizer
<1>7. CASE ~IsLatest(history, base[w])
  <2>1. Write(w, NoObject, "idle")
    BY <1>7 DEF AddFinalizer, Write
  <2> QED
    BY <2>1, NoObjectWritable, WriteStep DEF AddFinalizer
<1> QED
  BY <1>6, <1>7

\* discordchannel_controller.go:165-171 keeps the invariant: the channel is
\* live and nobody else's, and nothing was recorded before.
LEMMA SaveChannelStep ==
  ASSUME IInv, NEW w \in Operators, SaveChannel(w)
  PROVE  IInv'
<1>1. pc[w] = "saveChannel" /\ Write(w, obj[w], "createWebhook")
  BY DEF SaveChannel
<1>2. /\ Copies(w) /\ Progress(w) /\ Sound(Read(w)) /\ obj[w] \in Object
      /\ IsLatest(history, base[w]) => Current = Read(w)
  BY <1>1, LatestCopy
<1>3. /\ obj[w].uid = Read(w).uid /\ obj[w].uid # 0 /\ obj[w].finalizer
      /\ Read(w).channelID = 0 /\ obj[w].webhookID = 0 /\ Read(w).webhookID = 0
      /\ ~obj[w].deleting /\ ~Read(w).deleting
  BY <1>1, <1>2 DEF Copies, Progress, Sound
<1>4. /\ obj[w].channelID \in live /\ maker[obj[w].channelID] = obj[w].uid
      /\ obj[w].channelID # 0 /\ obj[w].channelID \in 1..Len(maker)
      /\ \A v \in Operators : v # w /\ pc[v] = "saveChannel" =>
           obj[w].channelID # obj[v].channelID
  <2>1. live \subseteq 1..Len(maker) /\ Len(maker) \in Nat
    BY DEF IInv, TypeOK
  <2>2. obj[w].channelID \in live /\ maker[obj[w].channelID] = obj[w].uid
    BY <1>1 DEF IInv, UnsavedInv
  <2>3. ASSUME NEW v \in Operators, v # w, pc[v] = "saveChannel"
        PROVE  obj[w].channelID # obj[v].channelID
    BY <1>1, <2>3 DEF IInv, UnsavedInv
  <2>4. obj[w].channelID # 0 /\ obj[w].channelID \in 1..Len(maker)
    BY <1>2, <2>1, <2>2 DEF Object
  <2> QED
    BY <2>2, <2>3, <2>4
<1>5. Later(Read(w), obj[w]) /\ Sound(obj[w])
  BY <1>3, <1>4 DEF Later, Sound
<1>6. Prepared("createWebhook", obj[w])
  BY <1>3, <1>4 DEF Prepared
<1>7. Writable(w, obj[w])
  BY <1>2, <1>3, <1>4, <1>5 DEF Writable, Allowed
<1> QED
  BY <1>1, <1>6, <1>7, WriteStep DEF SaveChannel

\* discordchannel_controller.go:211-221 keeps the invariant: the webhook is
\* in the channel that the copy records.
LEMMA SaveWebhookStep ==
  ASSUME IInv, NEW w \in Operators, SaveWebhook(w)
  PROVE  IInv'
<1> DEFINE o == [obj[w] EXCEPT !.webhookID = hook[w], !.ready = "True"]
<1>1. pc[w] = "saveWebhook" /\ Write(w, o, "idle")
  BY DEF SaveWebhook
<1>2. /\ Copies(w) /\ Progress(w) /\ Sound(Read(w)) /\ obj[w] \in Object
      /\ IsLatest(history, base[w]) => Current = Read(w)
      /\ \A v \in Operators : pc[v] = "saveChannel" => Read(w).channelID # obj[v].channelID
  BY <1>1, LatestCopy
<1>3. hook[w] \in 1..Len(hookAt) /\ hookAt[hook[w]] = Read(w).channelID
  BY <1>1, <1>2 DEF Progress, IInv, TypeOK
<1>4. /\ o \in Object /\ o.uid = Read(w).uid /\ o.uid # 0 /\ o.finalizer
      /\ o.channelID = Read(w).channelID /\ o.webhookID = hook[w]
      /\ ~o.deleting /\ ~Read(w).deleting
      /\ Read(w).finalizer /\ Read(w).channelID # 0 /\ Read(w).webhookID = 0
  <2>1. hook[w] \in Nat /\ "True" \in Conditions
    BY <1>3 DEF Conditions
  <2>2. o \in Object
    BY <1>2, <2>1 DEF Object
  <2> QED
    BY <1>1, <1>2, <2>2 DEF Copies, Progress, Object
<1>5. Later(Read(w), o) /\ Sound(o)
  BY <1>2, <1>3, <1>4 DEF Later, Sound
<1>6. CASE IsLatest(history, base[w])
  <2>1. Writable(w, o)
    BY <1>2, <1>4, <1>5, <1>6 DEF Writable, Allowed, IInv, RecordedChannelIsLive
  <2> QED
    BY <2>1, <1>1, WriteStep DEF SaveWebhook
<1>7. CASE ~IsLatest(history, base[w])
  <2>1. Write(w, NoObject, "idle")
    BY <1>1, <1>7 DEF Write
  <2> QED
    BY <2>1, NoObjectWritable, WriteStep DEF SaveWebhook
<1> QED
  BY <1>6, <1>7

(***************************************************************************)
(* The actions that read, and those that call Discord.                     *)
(***************************************************************************)

\* When the handler of w changes nothing outside itself and keeps its copy,
\* it only has to be ready for its next call.
LEMMA StayStep ==
  ASSUME IInv, NEW w \in Operators, pc[w] # "idle", NEW p \in Calls, NEW c \in Conditions,
         pc[w] # "saveChannel",
         Proceed(w, p, [obj[w] EXCEPT !.ready = c], base[w]),
         UNCHANGED <<apiVars, discordVars, seen>>, UNCHANGED budget \/ Disturb,
         p \in {"idle", "setCondition", "deleteChannel", "removeFinalizer", "addFinalizer",
                "createChannel", "createWebhook"},
         p = "deleteChannel" => Read(w).deleting /\ Read(w).channelID # 0,
         p = "removeFinalizer" => Read(w).deleting /\ Read(w).channelID = 0,
         p = "addFinalizer" => ~Read(w).deleting,
         p = "createChannel" =>
           ~Read(w).deleting /\ Read(w).finalizer /\ Read(w).channelID = 0,
         p = "createWebhook" =>
           /\ ~Read(w).deleting /\ Read(w).finalizer
           /\ Read(w).channelID # 0 /\ Read(w).webhookID = 0
  PROVE  IInv'
<1> DEFINE o == [obj[w] EXCEPT !.ready = c]
<1>1. UNCHANGED <<history, secret, botSecret, maker, live, hookAt, seen>>
  BY DEF apiVars, discordVars
<1>2. budget' \in 0..MaxDisturbances /\ queued' \subseteq Operators
  BY BudgetFacts DEF IInv, TypeOK, Proceed
<1>3. /\ obj[w] \in Object /\ Copies(w) /\ base[w] \in 1..Len(history)
      /\ hook[w] \in 0..Len(hookAt) /\ 0 \in 0..Len(history) /\ 0 \in 0..Len(hookAt)
  BY LatestCopy DEF IInv, TypeOK
<1>4. /\ o \in Object /\ o.uid = obj[w].uid /\ o.deleting = obj[w].deleting
      /\ o.finalizer = obj[w].finalizer /\ o.channelID = obj[w].channelID
      /\ o.webhookID = obj[w].webhookID
  BY <1>3 DEF Object
<1>5. CASE p = "idle"
  BY <1>2, <1>3, <1>5, ObjectFacts, LocalStep DEF Proceed, Drop
<1>6. CASE p # "idle"
  <2>1. Hold(w, p, o, base[w], hook[w])
    BY <1>6 DEF Proceed
  <2>2. pc'[w] = p /\ obj'[w] = o /\ base'[w] = base[w]
    BY <2>1, HoldFacts DEF IInv
  <2>3. Read(w)' = Read(w)
    BY <1>1, <2>2 DEF Read
  <2>4. Copies(w)'
    BY <1>3, <1>4, <2>2, <2>3 DEF Copies
  <2>5. 0 \notin live'
    BY <1>1 DEF IInv, TypeOK
  <2>6. Progress(w)'
    BY <2>2, <2>3, <2>5 DEF Progress
  <2>7. base[w] \in 0..Len(history)
    BY <1>3
  <2> QED
    BY <1>2, <1>3, <1>4, <2>1, <2>4, <2>6, <2>7, LocalStep
<1> QED
  BY <1>5, <1>6

\* Giving up without having changed anything.
LEMMA RequeueStep ==
  ASSUME IInv, NEW w \in Operators, Requeue(w), Disturb \/ UNCHANGED budget,
         UNCHANGED <<apiVars, discordVars, seen>>
  PROVE  IInv'
BY DropFacts, BudgetFacts, LocalStep DEF IInv

\* discordchannel_controller.go:70-73 keeps the invariant: the copy is true to
\* the cached version, however old.
LEMMA StartStep ==
  ASSUME IInv, NEW w \in Operators, Start(w)
  PROVE  IInv'
<1>1. queued' \subseteq Operators /\ budget' \in 0..MaxDisturbances
  BY DEF Start, IInv, TypeOK
<1>2. UNCHANGED <<apiVars, discordVars, seen>>
  BY DEF Start
<1>3. CASE Cached(w).uid # 0
  <2>1. Hold(w, "getBotSecret", Cached(w), seen[w], 0)
    BY <1>3 DEF Start
  <2>2. /\ seen[w] \in 1..Len(history) /\ seen[w] \in 0..Len(history)
        /\ Cached(w) \in Object /\ 0 \in 0..Len(hookAt) /\ "getBotSecret" \in Calls
    BY DEF IInv, TypeOK, Cached, Calls
  <2>3. pc'[w] = "getBotSecret" /\ obj'[w] = Cached(w) /\ base'[w] = seen[w]
    BY <2>1, HoldFacts DEF IInv
  <2>4. Copies(w)' /\ Progress(w)'
    BY <1>2, <1>3, <2>2, <2>3 DEF Copies, Progress, Read, Cached, apiVars
  <2> QED
    BY <1>1, <1>2, <2>1, <2>2, <2>4, LocalStep
<1>4. CASE Cached(w).uid = 0
  <2>1. UNCHANGED <<history, secret, botSecret, maker, live, hookAt, seen, pc, obj, base, hook>>
    BY <1>4 DEF Start, apiVars, discordVars, localVars
  <2>2. TypeOK'
    BY <1>1, <2>1 DEF IInv, TypeOK
  <2>3. \A v \in Operators : Moves(v)
    BY <2>1 DEF Moves, Unmoved
  <2>4. Len(hookAt) \in Nat
    BY DEF IInv, TypeOK
  <2> QED
    BY <2>1, <2>2, <2>3, <2>4, ObjectFacts, Preserve DEF Grow
<1> QED
  BY <1>3, <1>4

\* The route of a copy is one the handler is ready for.
LEMMA GetBotSecretStep ==
  ASSUME IInv, NEW w \in Operators, GetBotSecret(w)
  PROVE  IInv'
<1>1. pc[w] = "getBotSecret" /\ UNCHANGED <<apiVars, discordVars, seen>>
  BY DEF GetBotSecret
<1>2. Copies(w) /\ obj[w] \in Object
  BY <1>1, LatestCopy
<1>3. ASSUME NEW r \in Conditions, Condition(w, r), UNCHANGED budget
      PROVE  IInv'
  BY <1>1, <1>3, StayStep DEF Condition, Calls
<1>4. CASE Requeue(w) /\ Disturb
  BY <1>1, <1>4, RequeueStep
<1>5. CASE Proceed(w, Route(obj[w]), obj[w], base[w]) /\ UNCHANGED budget
  <2>1. obj[w].ready \in Conditions /\ [obj[w] EXCEPT !.ready = obj[w].ready] = obj[w]
    BY <1>2 DEF Object
  <2>2. Route(obj[w]) \in {"idle", "deleteChannel", "removeFinalizer", "addFinalizer",
                           "createChannel", "createWebhook"}
    BY <1>2 DEF Route, NextRemoval, NextCreation, Object
  <2>3. /\ Route(obj[w]) = "deleteChannel" => obj[w].deleting /\ obj[w].channelID # 0
        /\ Route(obj[w]) = "removeFinalizer" => obj[w].deleting /\ obj[w].channelID = 0
        /\ Route(obj[w]) = "addFinalizer" => ~obj[w].deleting
        /\ Route(obj[w]) = "createChannel" =>
             ~obj[w].deleting /\ obj[w].finalizer /\ obj[w].channelID = 0
        /\ Route(obj[w]) = "createWebhook" =>
             /\ ~obj[w].deleting /\ obj[w].finalizer
             /\ obj[w].channelID # 0 /\ obj[w].webhookID = 0
    BY <1>2 DEF Route, NextRemoval, NextCreation, Object
  <2> QED
    BY <1>1, <1>2, <1>5, <2>1, <2>2, <2>3, StayStep DEF Copies, Calls
<1> QED
  BY <1>3, <1>4, <1>5 DEF GetBotSecret, Conditions

\* The type invariant after a call to Discord or the creation of the Secret:
\* the history stays, channels and webhooks may be added.
LEMMA CallType ==
  ASSUME TypeOK, NEW w \in Operators, NEW p \in Calls, NEW o \in Object, NEW b, NEW k,
         b \in 0..Len(history), k \in 0..Len(hookAt'),
         Hold(w, p, o, b, k),
         UNCHANGED <<history, botSecret, seen>>,
         maker' \in Seq(Nat), Len(maker) <= Len(maker'), Len(maker') <= MaxChannels,
         hookAt' \in Seq(1..Len(maker)), Len(hookAt) <= Len(hookAt'),
         Len(hookAt') <= MaxHooks,
         live' \subseteq 1..Len(maker'),
         secret' \in WebhookSecret \cup {NoSecret}, secret'.hook <= Len(hookAt'),
         queued' \subseteq Operators, budget' \in 0..MaxDisturbances
  PROVE  TypeOK'
<1>1. /\ Len(history) \in Nat /\ Len(maker) \in Nat /\ Len(maker') \in Nat
      /\ Len(hookAt') \in Nat /\ Len(history') = Len(history)
      /\ b \in 0..Len(history') /\ Len(history) <= Len(history')
  BY DEF TypeOK
<1>2. /\ pc' \in [Operators -> Calls] /\ obj' \in [Operators -> Object]
      /\ base' \in [Operators -> 0..Len(history')]
      /\ hook' \in [Operators -> 0..Len(hookAt')]
  BY <1>1, HoldType
<1>3. hookAt' \in Seq(1..Len(maker'))
  <2>1. 1..Len(maker) \subseteq 1..Len(maker')
    BY <1>1
  <2> QED
    BY <2>1
<1> QED
  BY <1>2, <1>3 DEF TypeOK

\* A handler ends in Requeue, or goes on with Proceed: where it ends up.
LEMMA EndFacts ==
  ASSUME IInv, NEW w \in Operators, Requeue(w)
  PROVE  /\ pc'[w] = "idle" /\ \A v \in Operators : v # w => Unmoved(v)
         /\ queued' \subseteq Operators
         /\ \A v \in Operators : Moves(v)
<1>1. Hold(w, "idle", NoObject, 0, 0) /\ queued' \subseteq Operators
  BY DropFacts
<1>2. pc'[w] = "idle" /\ \A v \in Operators : v # w => Unmoved(v)
  BY <1>1, HoldFacts DEF IInv
<1> QED
  BY <1>1, <1>2 DEF Moves

\* discordchannel_controller.go:119-126 keeps the invariant: a condemned
\* incarnation stays condemned, so its channel is not in use.
LEMMA DeleteChannelStep ==
  ASSUME IInv, NEW w \in Operators, DeleteChannel(w)
  PROVE  IInv'
<1>1. pc[w] = "deleteChannel" /\ UNCHANGED <<history, secret, botSecret, maker, hookAt, seen>>
  BY DEF DeleteChannel, apiVars
<1>2. /\ Copies(w) /\ Progress(w) /\ obj[w] \in Object /\ base[w] \in 1..Len(history)
      /\ 0 \in 0..Len(history) /\ 0 \in 0..Len(hookAt) /\ hook[w] \in 0..Len(hookAt)
      /\ base[w] \in 0..Len(history)
  BY <1>1, LatestCopy DEF IInv, TypeOK
<1>3. /\ live' \in {live, live \ {obj[w].channelID}} /\ live' \subseteq live
      /\ budget' \in 0..MaxDisturbances
  BY BudgetFacts DEF DeleteChannel, IInv
<1>4. /\ Read(w).channelID = obj[w].channelID /\ Read(w).deleting
      /\ Read(w) = history[base[w]]
  BY <1>1, <1>2 DEF Copies, Progress, Read
<1>5. \A c \in live : c \notin live' =>
        \E i \in 1..Len(history) : history[i].channelID = c /\ history[i].deleting
  BY <1>2, <1>3, <1>4
<1>6. /\ maker \in Seq(Nat) /\ hookAt \in Seq(1..Len(maker))
      /\ Len(maker) <= MaxChannels /\ Len(hookAt) <= MaxHooks
      /\ Len(maker) \in Nat /\ Len(hookAt) \in Nat
      /\ live' \subseteq 1..Len(maker) /\ queued \subseteq Operators
      /\ secret \in WebhookSecret \cup {NoSecret} /\ secret.hook <= Len(hookAt)
  <2>1. live \subseteq 1..Len(maker)
    BY DEF IInv, TypeOK
  <2>2. live' \subseteq 1..Len(maker)
    BY <1>3, <2>1
  <2> QED
    BY <2>2 DEF IInv, TypeOK
<1>7. CASE Requeue(w)
  <2>1. TypeOK'
    BY <1>1, <1>2, <1>3, <1>6, <1>7, DropFacts, CallType DEF IInv
  <2>2. Allowed(NoObject) /\ Grow(NoObject)
    BY <1>1, ObjectFacts DEF Grow
  <2>3. \A v \in Operators :
          pc'[v] = "saveChannel" => pc[v] = "saveChannel" /\ obj'[v] = obj[v]
    BY <1>7, EndFacts DEF Unmoved
  <2>4. \A v \in Operators : Moves(v)
    BY <1>7, EndFacts
  <2> QED
    BY <1>1, <1>3, <1>5, <1>6, <2>1, <2>2, <2>3, <2>4, Preserve
<1>8. CASE /\ live' = live \ {obj[w].channelID}
           /\ Proceed(w, "removeFinalizer", obj[w], base[w])
  <2>1. Hold(w, "removeFinalizer", obj[w], base[w], hook[w]) /\ queued' = queued
    BY <1>8 DEF Proceed
  <2>2. TypeOK'
    BY <1>1, <1>2, <1>3, <1>6, <2>1, CallType DEF IInv, Calls
  <2>3. /\ pc'[w] = "removeFinalizer" /\ obj'[w] = obj[w] /\ base'[w] = base[w]
        /\ \A v \in Operators : v # w => Unmoved(v)
    BY <2>1, HoldFacts DEF IInv
  <2>4. Read(w)' = Read(w)
    BY <1>1, <2>3 DEF Read
  <2>5. Copies(w)' /\ Progress(w)'
    BY <1>1, <1>2, <1>4, <1>8, <2>3, <2>4 DEF Copies, Progress
  <2>6. \A v \in Operators : Moves(v)
    BY <2>3, <2>5 DEF Moves
  <2> QED
    BY <1>1, <1>3, <1>5, <1>6, <2>2, <2>3, <2>6, ObjectFacts, Preserve DEF Grow, Unmoved
<1> QED
  BY <1>7, <1>8 DEF DeleteChannel

\* A condition as the next thing to write, after a call that failed.
LEMMA ConditionFacts ==
  ASSUME IInv, NEW w \in Operators, pc[w] \notin {"idle", "saveChannel"},
         NEW r \in Conditions, Condition(w, r), UNCHANGED history
  PROVE  /\ Hold(w, "setCondition", [obj[w] EXCEPT !.ready = r], base[w], hook[w])
         /\ [obj[w] EXCEPT !.ready = r] \in Object
         /\ pc'[w] = "setCondition" /\ \A v \in Operators : v # w => Unmoved(v)
         /\ \A v \in Operators : Moves(v)
         /\ queued' \subseteq Operators
<1> DEFINE o == [obj[w] EXCEPT !.ready = r]
<1>1. Hold(w, "setCondition", o, base[w], hook[w]) /\ queued' = queued
  BY DEF Condition, Proceed
<1>2. /\ pc'[w] = "setCondition" /\ obj'[w] = o /\ base'[w] = base[w]
      /\ \A v \in Operators : v # w => Unmoved(v)
  BY <1>1, HoldFacts DEF IInv
<1>3. Copies(w) /\ obj[w] \in Object
  BY LatestCopy
<1>4. /\ o \in Object /\ o.uid = obj[w].uid /\ o.deleting = obj[w].deleting
      /\ o.finalizer = obj[w].finalizer /\ o.channelID = obj[w].channelID
      /\ o.webhookID = obj[w].webhookID
  BY <1>3 DEF Object
<1>5. Read(w)' = Read(w)
  BY <1>2 DEF Read
<1>6. Copies(w)' /\ Progress(w)'
  BY <1>2, <1>3, <1>4, <1>5 DEF Copies, Progress
<1>7. \A v \in Operators : Moves(v)
  BY <1>2, <1>6 DEF Moves
<1> QED
  BY <1>1, <1>2, <1>4, <1>7 DEF IInv, TypeOK

\* What Append does.
LEMMA AppendFacts ==
  ASSUME NEW S, NEW s \in Seq(S), NEW e \in S
  PROVE  /\ Append(s, e) \in Seq(S)
         /\ Len(Append(s, e)) = Len(s) + 1
         /\ \A i \in 1..Len(s) : Append(s, e)[i] = s[i]
         /\ Append(s, e)[Len(s) + 1] = e
OBVIOUS

\* What holds after Discord made a channel for the incarnation that the
\* handler of w holds, except that the channel may be unsaved.
LEMMA NewChannelStep ==
  ASSUME IInv, NEW w \in Operators, pc[w] = "createChannel",
         NewChannel(obj[w].uid), UNCHANGED <<history, secret, hookAt>>,
         \A v \in Operators : Moves(v)
  PROVE  /\ WorldGrows /\ HistoryInv' /\ WorkerInv' /\ MakerInv' /\ SecretInv'
         /\ RecordedChannelIsLive'
         /\ Len(maker') = Len(maker) + 1 /\ maker'[Len(maker')] = obj[w].uid
<1>1. /\ Copies(w) /\ Progress(w) /\ base[w] \in 1..Len(history) /\ obj[w] \in Object
  BY LatestCopy
<1>2. /\ maker \in Seq(Nat) /\ Len(maker) \in Nat /\ Len(hookAt) \in Nat
      /\ Len(history) \in Nat /\ live \subseteq 1..Len(maker) /\ obj[w].uid \in Nat
  <2>1. obj[w].uid \in Nat
    BY <1>1 DEF Object
  <2> QED
    BY <2>1 DEF IInv, TypeOK
<1>3. /\ maker' = Append(maker, obj[w].uid) /\ live' = live \cup {Len(maker')}
      /\ Len(maker') = Len(maker) + 1 /\ maker'[Len(maker')] = obj[w].uid
      /\ \A c \in 1..Len(maker) : maker'[c] = maker[c]
  BY <1>2 DEF NewChannel
<1>4. DiscordGrows
  BY <1>2, <1>3 DEF DiscordGrows
<1>5. WorldGrows
  BY <1>2, <1>3, <1>4 DEF WorldGrows
<1>6. Allowed(NoObject) /\ Grow(NoObject) /\ NoObject \in Object
  BY ObjectFacts DEF Grow
<1>7. HistoryInv'
  BY <1>4, <1>6, HistoryStep DEF IInv
<1>8. WorkerInv'
  BY <1>5, WorkersStep DEF IInv
<1>9. MakerInv'
  <2> SUFFICES ASSUME NEW c \in 1..Len(maker')
               PROVE  \E i \in 1..Len(history) :
                        history[i].uid = maker'[c] /\ history[i].finalizer
    BY DEF MakerInv
  <2>1. CASE c = Len(maker')
    BY <1>1, <1>3, <2>1 DEF Copies, Progress, Read
  <2>2. CASE c # Len(maker')
    <3>1. c \in 1..Len(maker)
      BY <1>2, <1>3, <2>2
    <3> QED
      BY <1>3, <3>1 DEF IInv, MakerInv
  <2> QED
    BY <2>1, <2>2
<1>10. SecretInv'
  BY <1>5, SecretStep DEF IInv
<1>11. RecordedChannelIsLive'
  BY <1>3, <1>5, <1>6, RecordedStep DEF IInv
<1> QED
  BY <1>3, <1>5, <1>7, <1>8, <1>9, <1>10, <1>11

\* discordchannel_controller.go:149-163 keeps the invariant: the new channel is
\* recorded nowhere and its incarnation has the finalizer.
LEMMA CreateChannelStep ==
  ASSUME IInv, NEW w \in Operators, CreateChannel(w)
  PROVE  IInv'
<1>1. pc[w] = "createChannel" /\ UNCHANGED <<history, secret, botSecret, hookAt, seen>>
  BY DEF CreateChannel, apiVars
<1>2. /\ Copies(w) /\ Progress(w) /\ obj[w] \in Object /\ base[w] \in 1..Len(history)
      /\ base[w] \in 0..Len(history) /\ hook[w] \in 0..Len(hookAt)
  BY <1>1, LatestCopy DEF IInv, TypeOK
<1>3. /\ maker \in Seq(Nat) /\ hookAt \in Seq(1..Len(maker))
      /\ Len(maker) <= MaxChannels /\ Len(hookAt) <= MaxHooks
      /\ Len(maker) \in Nat /\ Len(hookAt) \in Nat
      /\ live \subseteq 1..Len(maker) /\ queued \subseteq Operators
      /\ secret \in WebhookSecret \cup {NoSecret} /\ secret.hook <= Len(hookAt)
      /\ obj[w].uid \in Nat
  <2>1. obj[w].uid \in Nat
    BY <1>2 DEF Object
  <2> QED
    BY <2>1 DEF IInv, TypeOK
<1>4. budget' \in 0..MaxDisturbances
  BY BudgetFacts DEF CreateChannel, IInv
<1>5. ASSUME NewChannel(obj[w].uid)
      PROVE  /\ maker' \in Seq(Nat) /\ Len(maker') = Len(maker) + 1
             /\ Len(maker) <= Len(maker') /\ Len(maker') <= MaxChannels
             /\ live' = live \cup {Len(maker')} /\ live' \subseteq 1..Len(maker')
             /\ \A c \in 1..Len(maker) : maker'[c] = maker[c]
  <2>1. maker' = Append(maker, obj[w].uid) /\ Len(maker) < MaxChannels
    BY <1>5 DEF NewChannel
  <2>2. /\ maker' \in Seq(Nat) /\ Len(maker') = Len(maker) + 1
        /\ \A c \in 1..Len(maker) : maker'[c] = maker[c]
    <3>1. maker \in Seq(Nat) /\ obj[w].uid \in Nat
      BY <1>3
    <3>2. /\ Append(maker, obj[w].uid) \in Seq(Nat)
          /\ Len(Append(maker, obj[w].uid)) = Len(maker) + 1
          /\ \A c \in 1..Len(maker) : Append(maker, obj[w].uid)[c] = maker[c]
      BY <3>1, AppendFacts
    <3> QED
      BY <2>1, <3>2
  <2>3. Len(maker) <= Len(maker') /\ Len(maker') <= MaxChannels
    BY <1>3, <2>1, <2>2, BoundsAssumption
  <2>4. live' = live \cup {Len(maker')}
    BY <1>5 DEF NewChannel
  <2>5. live' \subseteq 1..Len(maker')
    <3>1. Len(maker) \in Nat /\ live \subseteq 1..Len(maker)
      BY <1>3
    <3>2. 1..Len(maker) \subseteq 1..Len(maker') /\ Len(maker') \in 1..Len(maker')
      BY <2>2, <3>1
    <3> QED
      BY <2>4, <3>1, <3>2
  <2> QED
    BY <2>2, <2>3, <2>4, <2>5
<1>6. CASE Condition(w, "ChannelCreationFailed")
  <2>1. "ChannelCreationFailed" \in Conditions /\ "setCondition" \in Calls
    BY DEF Conditions, Calls
  <2>2. /\ Hold(w, "setCondition", [obj[w] EXCEPT !.ready = "ChannelCreationFailed"],
                base[w], hook[w])
        /\ [obj[w] EXCEPT !.ready = "ChannelCreationFailed"] \in Object
        /\ pc'[w] = "setCondition" /\ \A v \in Operators : v # w => Unmoved(v)
        /\ \A v \in Operators : Moves(v)
        /\ queued' \subseteq Operators
    BY <1>1, <1>6, <2>1, ConditionFacts
  <2>3. CASE UNCHANGED <<maker, live>>
    <3>1. TypeOK'
      BY <1>1, <1>2, <1>3, <1>4, <2>1, <2>2, <2>3, CallType DEF IInv
    <3> QED
      BY <1>1, <1>3, <2>2, <2>3, <3>1, ObjectFacts, Preserve DEF Grow, Unmoved
  <2>4. CASE NewChannel(obj[w].uid)
    <3>1. /\ maker' \in Seq(Nat) /\ Len(maker) <= Len(maker')
          /\ Len(maker') <= MaxChannels /\ live' \subseteq 1..Len(maker')
      BY <1>5, <2>4
    <3>2. TypeOK'
      BY <1>1, <1>2, <1>3, <1>4, <2>1, <2>2, <3>1, CallType DEF IInv
    <3>3. /\ WorldGrows /\ HistoryInv' /\ WorkerInv' /\ MakerInv' /\ SecretInv'
          /\ RecordedChannelIsLive'
      BY <1>1, <2>2, <2>4, NewChannelStep
    <3>4. UnsavedInv'
      BY <1>1, <1>5, <2>2, <2>4, <3>3, ObjectFacts, UnsavedStep DEF IInv, Grow, Unmoved
    <3> QED
      BY <3>2, <3>3, <3>4 DEF IInv
  <2> QED
    BY <1>6, <2>3, <2>4 DEF CreateChannel, Condition, Proceed
<1>7. CASE /\ NewChannel(obj[w].uid)
           /\ Proceed(w, "saveChannel", [obj[w] EXCEPT !.channelID = Len(maker')], base[w])
  <2> DEFINE o == [obj[w] EXCEPT !.channelID = Len(maker')]
  <2>1. Hold(w, "saveChannel", o, base[w], hook[w]) /\ queued' = queued
    BY <1>7 DEF Proceed
  <2>0. /\ maker' \in Seq(Nat) /\ Len(maker) <= Len(maker') /\ Len(maker') = Len(maker) + 1
        /\ Len(maker') <= MaxChannels /\ live' = live \cup {Len(maker')}
        /\ live' \subseteq 1..Len(maker')
        /\ \A c \in 1..Len(maker) : maker'[c] = maker[c]
    BY <1>5, <1>7
  <2>2. /\ o \in Object /\ o.uid = obj[w].uid /\ o.deleting = obj[w].deleting
        /\ o.finalizer = obj[w].finalizer /\ o.webhookID = obj[w].webhookID
        /\ o.channelID = Len(maker')
    <3>1. Len(maker') \in Nat
      BY <1>3, <2>0
    <3> QED
      BY <1>2, <3>1 DEF Object
  <2>3. /\ pc'[w] = "saveChannel" /\ obj'[w] = o /\ base'[w] = base[w]
        /\ \A v \in Operators : v # w => Unmoved(v)
    BY <2>1, HoldFacts DEF IInv
  <2>4. Read(w)' = Read(w)
    BY <1>1, <2>3 DEF Read
  <2>5. Copies(w)' /\ Progress(w)'
    BY <1>1, <1>2, <2>2, <2>3, <2>4 DEF Copies, Progress
  <2>6. \A v \in Operators : Moves(v)
    BY <2>3, <2>5 DEF Moves
  <2>7. TypeOK'
    <3>1. "saveChannel" \in Calls
      BY DEF Calls
    <3> QED
      BY <1>1, <1>2, <1>3, <1>4, <2>0, <2>1, <2>2, <3>1, CallType, SMTT(60) DEF IInv
  <2>8. /\ HistoryInv' /\ WorkerInv' /\ MakerInv' /\ SecretInv' /\ RecordedChannelIsLive'
        /\ maker'[Len(maker')] = obj[w].uid
    BY <1>1, <1>7, <2>6, NewChannelStep
  <2>9. \A i \in 1..Len(history) :
          history[i].channelID = 0 \/ history[i].channelID \in 1..Len(maker)
    BY DEF IInv, HistoryInv, Sound
  <2>10. \A v \in Operators : pc[v] = "saveChannel" =>
           /\ obj[v].channelID \in live /\ obj[v].channelID \in 1..Len(maker)
           /\ maker[obj[v].channelID] = obj[v].uid
           /\ \A i \in 1..Len(history) : history[i].channelID # obj[v].channelID
           /\ \A u \in Operators :
                u # v /\ pc[u] = "saveChannel" => obj[u].channelID # obj[v].channelID
    BY <1>3 DEF IInv, UnsavedInv
  <2>11. UnsavedInv'
    <3> SUFFICES ASSUME NEW v \in Operators, pc'[v] = "saveChannel"
                 PROVE  /\ obj'[v].channelID \in live'
                        /\ maker'[obj'[v].channelID] = obj'[v].uid
                        /\ \A i \in 1..Len(history) : history[i].channelID # obj'[v].channelID
                        /\ \A u \in Operators :
                             u # v /\ pc'[u] = "saveChannel"
                               => obj'[u].channelID # obj'[v].channelID
      BY <1>1 DEF UnsavedInv
    <3>1. CASE v = w
      <4>1. obj'[v] = o /\ o.channelID = Len(maker) + 1 /\ maker'[o.channelID] = o.uid
        BY <2>0, <2>2, <2>3, <2>8, <3>1
      <4>2. \A i \in 1..Len(history) : history[i].channelID # o.channelID
        BY <1>3, <2>9, <4>1
      <4>3. ASSUME NEW u \in Operators, u # v, pc'[u] = "saveChannel"
            PROVE  obj'[u].channelID # o.channelID
        <5>1. pc[u] = "saveChannel" /\ obj'[u] = obj[u]
          BY <2>3, <3>1, <4>3 DEF Unmoved
        <5>2. obj[u].channelID \in 1..Len(maker)
          BY <2>10, <5>1
        <5> QED
          BY <1>3, <4>1, <5>1, <5>2
      <4>4. o.channelID \in live'
        BY <2>0, <2>2
      <4> QED
        BY <4>1, <4>2, <4>3, <4>4
    <3>2. CASE v # w
      <4>1. pc[v] = "saveChannel" /\ obj'[v] = obj[v]
        BY <2>3, <3>2 DEF Unmoved
      <4>2. obj[v].channelID \in 1..Len(maker) /\ obj[v].channelID \in live
        BY <2>10, <4>1
      <4>3. ASSUME NEW u \in Operators, u # v, pc'[u] = "saveChannel"
            PROVE  obj'[u].channelID # obj[v].channelID
        <5>1. CASE u = w
          <6>1. obj'[u].channelID = Len(maker) + 1
            BY <2>0, <2>2, <2>3, <5>1
          <6> QED
            BY <1>3, <4>2, <6>1
        <5>2. CASE u # w
          BY <2>3, <2>10, <4>1, <4>3, <5>2 DEF Unmoved
        <5> QED
          BY <5>1, <5>2
      <4> QED
        BY <2>0, <2>10, <4>1, <4>2, <4>3
    <3> QED
      BY <3>1, <3>2
  <2> QED
    BY <2>7, <2>8, <2>11 DEF IInv
<1> QED
  BY <1>6, <1>7 DEF CreateChannel

\* Discord's webhooks after one more was made in the channel that the
\* handler of w records.
LEMMA NewWebhookFacts ==
  ASSUME IInv, NEW w \in Operators, NewWebhook(obj[w].channelID)
  PROVE  /\ hookAt' \in Seq(1..Len(maker)) /\ Len(hookAt') <= MaxHooks
         /\ Len(hookAt) <= Len(hookAt') /\ Len(hookAt') = Len(hookAt) + 1
         /\ \A k \in 1..Len(hookAt) : hookAt'[k] = hookAt[k]
         /\ hookAt'[Len(hookAt')] = obj[w].channelID
<1>1. /\ hookAt \in Seq(1..Len(maker)) /\ live \subseteq 1..Len(maker)
      /\ Len(hookAt) \in Nat
  BY DEF IInv, TypeOK
<1>2. /\ obj[w].channelID \in 1..Len(maker)
      /\ hookAt' = Append(hookAt, obj[w].channelID) /\ Len(hookAt) < MaxHooks
  BY <1>1 DEF NewWebhook
<1>3. /\ Append(hookAt, obj[w].channelID) \in Seq(1..Len(maker))
      /\ Len(Append(hookAt, obj[w].channelID)) = Len(hookAt) + 1
      /\ \A k \in 1..Len(hookAt) : Append(hookAt, obj[w].channelID)[k] = hookAt[k]
      /\ Append(hookAt, obj[w].channelID)[Len(hookAt) + 1] = obj[w].channelID
  BY <1>1, <1>2, AppendFacts
<1>4. Len(hookAt') = Len(hookAt) + 1
  BY <1>2, <1>3
<1>5. Len(hookAt') <= MaxHooks /\ Len(hookAt) <= Len(hookAt')
  BY <1>1, <1>2, <1>4, BoundsAssumption
<1> QED
  BY <1>2, <1>3, <1>4, <1>5

\* discordchannel_controller.go:173-187 keeps the invariant.
LEMMA CreateWebhookStep ==
  ASSUME IInv, NEW w \in Operators, CreateWebhook(w)
  PROVE  IInv'
<1>1. /\ pc[w] = "createWebhook"
      /\ UNCHANGED <<history, secret, botSecret, maker, live, seen>>
  BY DEF CreateWebhook, apiVars
<1>2. /\ Copies(w) /\ Progress(w) /\ obj[w] \in Object /\ base[w] \in 1..Len(history)
      /\ base[w] \in 0..Len(history) /\ hook[w] \in 0..Len(hookAt)
  BY <1>1, LatestCopy DEF IInv, TypeOK
<1>3. /\ maker \in Seq(Nat) /\ hookAt \in Seq(1..Len(maker))
      /\ Len(maker) <= MaxChannels /\ Len(hookAt) <= MaxHooks
      /\ Len(maker) \in Nat /\ Len(hookAt) \in Nat
      /\ live \subseteq 1..Len(maker) /\ queued \subseteq Operators
      /\ secret \in WebhookSecret \cup {NoSecret}
      /\ secret.hook <= Len(hookAt) /\ secret.hook \in Nat
  <2>1. \A x \in WebhookSecret \cup {NoSecret} : x.hook \in Nat
    BY DEF WebhookSecret, NoSecret
  <2> QED
    BY <2>1 DEF IInv, TypeOK
<1>4. budget' \in 0..MaxDisturbances
  BY BudgetFacts DEF CreateWebhook, IInv
<1>5. /\ hookAt' \in Seq(1..Len(maker)) /\ Len(hookAt') <= MaxHooks
      /\ Len(hookAt) <= Len(hookAt') /\ Len(hookAt') \in Nat
      /\ secret.hook <= Len(hookAt') /\ hook[w] \in 0..Len(hookAt')
      /\ \A k \in 1..Len(hookAt) : hookAt'[k] = hookAt[k]
  <2>1. CASE NewWebhook(obj[w].channelID)
    <3>1. /\ hookAt' \in Seq(1..Len(maker)) /\ Len(hookAt') <= MaxHooks
          /\ Len(hookAt) <= Len(hookAt') /\ Len(hookAt') = Len(hookAt) + 1
          /\ \A k \in 1..Len(hookAt) : hookAt'[k] = hookAt[k]
      BY <2>1, NewWebhookFacts
    <3>2. /\ Len(hookAt') \in Nat /\ secret.hook <= Len(hookAt')
          /\ hook[w] \in 0..Len(hookAt')
      <4> DEFINE s == secret.hook
                 k == hook[w]
                 n == Len(hookAt)
      <4>1. n \in Nat /\ s \in Nat /\ s <= n /\ k \in 0..n /\ Len(hookAt') = n + 1
        BY <1>2, <1>3, <3>1
      <4> HIDE DEF s, k, n
      <4>2. n + 1 \in Nat /\ s <= n + 1 /\ k \in 0..n + 1
        BY <4>1
      <4> QED
        BY <4>1, <4>2 DEF s, k
    <3> QED
      BY <3>1, <3>2
  <2>2. CASE UNCHANGED hookAt
    BY <1>2, <1>3, <2>2
  <2> QED
    BY <2>1, <2>2 DEF CreateWebhook
<1>6. CASE Condition(w, "WebhookCreationFailed")
  <2>1. "WebhookCreationFailed" \in Conditions /\ "setCondition" \in Calls
    BY DEF Conditions, Calls
  <2>2. /\ Hold(w, "setCondition", [obj[w] EXCEPT !.ready = "WebhookCreationFailed"],
                base[w], hook[w])
        /\ [obj[w] EXCEPT !.ready = "WebhookCreationFailed"] \in Object
        /\ pc'[w] = "setCondition" /\ \A v \in Operators : v # w => Unmoved(v)
        /\ \A v \in Operators : Moves(v)
        /\ queued' \subseteq Operators
    BY <1>1, <1>6, <2>1, ConditionFacts
  <2>3. TypeOK'
    BY <1>1, <1>2, <1>3, <1>4, <1>5, <2>1, <2>2, CallType, SMTT(60) DEF IInv
  <2> QED
    BY <1>1, <1>5, <2>2, <2>3, ObjectFacts, Preserve DEF Grow, Unmoved
<1>7. CASE /\ NewWebhook(obj[w].channelID)
           /\ Hold(w, "createSecret", obj[w], base[w], Len(hookAt'))
           /\ UNCHANGED queued
  <2>1. /\ pc'[w] = "createSecret" /\ obj'[w] = obj[w] /\ base'[w] = base[w]
        /\ hook'[w] = Len(hookAt')
        /\ \A v \in Operators : v # w => Unmoved(v)
    BY <1>7, HoldFacts DEF IInv
  <2>2. Len(hookAt') # 0 /\ hookAt'[Len(hookAt')] = obj[w].channelID
    BY <1>3, <1>7, NewWebhookFacts
  <2>3. Read(w)' = Read(w)
    BY <1>1, <2>1 DEF Read
  <2>4. Copies(w)' /\ Progress(w)'
    BY <1>1, <1>2, <2>1, <2>2, <2>3 DEF Copies, Progress
  <2>5. \A v \in Operators : Moves(v)
    BY <2>1, <2>4 DEF Moves
  <2>6. TypeOK'
    <3>1. "createSecret" \in Calls /\ Len(hookAt') \in 0..Len(hookAt')
      BY <1>5 DEF Calls
    <3>2. queued' \subseteq Operators
      BY <1>3, <1>7
    <3> QED
      <4>1. TypeOK /\ Len(maker) <= Len(maker') /\ maker' = maker /\ live' = live
            /\ secret' = secret
        BY <1>1, <1>3 DEF IInv
      <4>2. Hold(w, "createSecret", obj[w], base[w], Len(hookAt'))
        BY <1>7
      <4> QED
        BY <1>1, <1>2, <1>3, <1>4, <1>5, <3>1, <3>2, <4>1, <4>2, CallType, SMTT(60)
  <2>7. \A v \in Operators :
          pc'[v] = "saveChannel" => pc[v] = "saveChannel" /\ obj'[v] = obj[v]
    BY <2>1 DEF Unmoved
  <2>8. Allowed(NoObject) /\ Grow(NoObject) /\ history' = history
    BY <1>1, ObjectFacts DEF Grow
  <2> QED
    BY <1>1, <1>5, <2>5, <2>6, <2>7, <2>8, Preserve
<1> QED
  BY <1>6, <1>7 DEF CreateWebhook

\* discordchannel_controller.go:189-209 keeps the invariant: the Secret's
\* webhook is in the channel that its owner recorded.
LEMMA CreateSecretStep ==
  ASSUME IInv, NEW w \in Operators, CreateSecret(w)
  PROVE  IInv'
<1>1. /\ pc[w] = "createSecret"
      /\ UNCHANGED <<history, botSecret, maker, live, hookAt, seen>>
  BY DEF CreateSecret, discordVars
<1>2. /\ Copies(w) /\ Progress(w) /\ obj[w] \in Object /\ base[w] \in 1..Len(history)
      /\ base[w] \in 0..Len(history) /\ hook[w] \in 0..Len(hookAt)
      /\ 0 \in 0..Len(history) /\ 0 \in 0..Len(hookAt)
  BY <1>1, LatestCopy DEF IInv, TypeOK
<1>3. /\ maker \in Seq(Nat) /\ hookAt \in Seq(1..Len(maker))
      /\ Len(maker) <= MaxChannels /\ Len(hookAt) <= MaxHooks
      /\ Len(maker) \in Nat /\ Len(hookAt) \in Nat
      /\ live \subseteq 1..Len(maker) /\ queued \subseteq Operators
      /\ secret \in WebhookSecret \cup {NoSecret} /\ secret.hook <= Len(hookAt)
  BY DEF IInv, TypeOK
<1>4. budget' \in 0..MaxDisturbances
  BY BudgetFacts DEF CreateSecret, IInv
<1>5. /\ obj[w].uid = history[base[w]].uid /\ obj[w].uid # 0 /\ obj[w].uid \in Nat
      /\ hook[w] # 0 /\ hookAt[hook[w]] = history[base[w]].channelID
      /\ history[base[w]].channelID # 0
  BY <1>1, <1>2 DEF Copies, Progress, Read, Object
<1>6. /\ secret' \in WebhookSecret \cup {NoSecret} /\ secret'.hook <= Len(hookAt)
      /\ secret' = secret \/ SecretInv'
  <2>1. CASE secret' = secret
    BY <1>3, <2>1
  <2>2. CASE secret' = [owner |-> obj[w].uid, hook |-> hook[w]]
    <3>1. secret' \in WebhookSecret /\ secret'.hook <= Len(hookAt)
      <4>1. obj[w].uid \in Nat \ {0}
        BY <1>5
      <4>2. hook[w] \in Nat \ {0} /\ hook[w] <= Len(hookAt)
        <5> DEFINE k == hook[w]
                   n == Len(hookAt)
        <5>1. k \in 0..n /\ n \in Nat /\ k # 0
          BY <1>2, <1>3, <1>5
        <5> HIDE DEF k, n
        <5>2. k \in Nat \ {0} /\ k <= n
          BY <5>1
        <5> QED
          BY <5>2 DEF k, n
      <4> QED
        BY <4>1, <4>2, <2>2 DEF WebhookSecret
    <3>2. SecretInv'
      BY <1>1, <1>2, <1>5, <2>2 DEF SecretInv
    <3> QED
      BY <3>1, <3>2
  <2> QED
    BY <2>1, <2>2 DEF CreateSecret, StoreSecret
<1>7. CASE Requeue(w)
  <2>1. TypeOK'
    BY <1>1, <1>2, <1>3, <1>4, <1>6, <1>7, DropFacts, CallType, SMTT(60) DEF IInv
  <2>2. Allowed(NoObject) /\ Grow(NoObject)
    BY <1>1, ObjectFacts DEF Grow
  <2>3. \A v \in Operators :
          pc'[v] = "saveChannel" => pc[v] = "saveChannel" /\ obj'[v] = obj[v]
    BY <1>7, EndFacts DEF Unmoved
  <2>4. \A v \in Operators : Moves(v)
    BY <1>7, EndFacts
  <2> QED
    BY <1>1, <1>3, <1>6, <2>1, <2>2, <2>3, <2>4, Preserve
<1>8. CASE Proceed(w, "saveWebhook", obj[w], base[w])
  <2>1. Hold(w, "saveWebhook", obj[w], base[w], hook[w]) /\ queued' = queued
    BY <1>8 DEF Proceed
  <2>2. /\ pc'[w] = "saveWebhook" /\ obj'[w] = obj[w] /\ base'[w] = base[w]
        /\ hook'[w] = hook[w]
        /\ \A v \in Operators : v # w => Unmoved(v)
    BY <2>1, HoldFacts DEF IInv
  <2>3. Read(w)' = Read(w)
    BY <1>1, <2>2 DEF Read
  <2>4. Copies(w)' /\ Progress(w)'
    BY <1>1, <1>2, <2>2, <2>3 DEF Copies, Progress
  <2>5. \A v \in Operators : Moves(v)
    BY <2>2, <2>4 DEF Moves
  <2>6. TypeOK'
    <3>1. "saveWebhook" \in Calls
      BY DEF Calls
    <3> QED
      BY <1>1, <1>2, <1>3, <1>4, <1>6, <2>1, <3>1, CallType, SMTT(60) DEF IInv
  <2> QED
    BY <1>1, <1>3, <1>6, <2>2, <2>5, <2>6, ObjectFacts, Preserve DEF Grow, Unmoved
<1> QED
  BY <1>7, <1>8 DEF CreateSecret

(***************************************************************************)
(* The manager, and what other processes do.                               *)
(***************************************************************************)

\* A step that leaves the resource, Discord and the handlers alone.
LEMMA QuietStep ==
  ASSUME IInv, TypeOK', UNCHANGED <<history, discordVars, localVars>>,
         secret' = secret \/ SecretInv'
  PROVE  IInv'
<1>1. UNCHANGED <<history, maker, live, hookAt, pc, obj, base, hook>>
  BY DEF discordVars, localVars
<1>2. Allowed(NoObject) /\ Grow(NoObject)
  BY <1>1, ObjectFacts DEF Grow
<1>3. \A v \in Operators : Moves(v)
  BY <1>1 DEF Moves, Unmoved
<1>4. Len(hookAt) \in Nat
  BY DEF IInv, TypeOK
<1> QED
  BY <1>1, <1>2, <1>3, <1>4, Preserve

\* A watch event keeps the invariant.
LEMMA DeliverStep ==
  ASSUME IInv, NEW w \in Operators, Deliver(w)
  PROVE  IInv'
<1>1. UNCHANGED <<history, secret, discordVars, localVars>>
  BY DEF Deliver, apiVars
<1>2. seen' \in [Operators -> 1..Len(history)]
  <2>1. seen[w] \in 1..Len(history) /\ Len(history) \in Nat /\ seen[w] < Len(history)
    BY DEF IInv, TypeOK, Deliver
  <2>2. seen[w] + 1 \in 1..Len(history)
    BY <2>1
  <2> QED
    BY <2>2 DEF IInv, TypeOK, Deliver
<1>3. TypeOK'
  BY <1>2 DEF IInv, TypeOK, Deliver, apiVars, discordVars, localVars
<1> QED
  BY <1>1, <1>3, QuietStep

\* A resync keeps the invariant.
LEMMA ResyncStep ==
  ASSUME IInv, NEW w \in Operators, Resync(w)
  PROVE  IInv'
<1>1. UNCHANGED <<history, secret, discordVars, localVars>>
  BY DEF Resync, apiVars
<1>2. TypeOK'
  BY DEF IInv, TypeOK, Resync, apiVars, discordVars, localVars
<1> QED
  BY <1>1, <1>2, QuietStep

\* Changing the bot credentials keeps the invariant.
LEMMA SetBotSecretStep ==
  ASSUME IInv, SetBotSecret
  PROVE  IInv'
<1>1. UNCHANGED <<history, secret, discordVars, localVars>>
  BY DEF SetBotSecret
<1>2. budget' \in 0..MaxDisturbances
  BY BudgetFacts DEF SetBotSecret, IInv
<1>3. TypeOK'
  BY <1>2 DEF IInv, TypeOK, SetBotSecret, discordVars, localVars
<1> QED
  BY <1>1, <1>3, QuietStep

\* The garbage collector keeps the invariant.
LEMMA CollectSecretStep ==
  ASSUME IInv, CollectSecret
  PROVE  IInv'
<1>1. UNCHANGED <<history, discordVars, localVars>> /\ secret' = NoSecret
  BY DEF CollectSecret
<1>2. SecretInv'
  BY <1>1 DEF SecretInv
<1>3. secret'.hook <= Len(hookAt)
  BY <1>1 DEF NoSecret, IInv, TypeOK
<1>4. TypeOK'
  BY <1>1, <1>3 DEF IInv, TypeOK, CollectSecret, discordVars, localVars
<1> QED
  BY <1>1, <1>2, <1>4, QuietStep

\* A step that leaves everything alone.
LEMMA StutterStep ==
  ASSUME IInv, UNCHANGED vars
  PROVE  IInv'
<1>1. UNCHANGED <<history, secret, discordVars, localVars>>
  BY DEF vars, apiVars
<1>2. TypeOK'
  BY DEF IInv, TypeOK, vars, apiVars, discordVars, localVars
<1> QED
  BY <1>1, <1>2, QuietStep

\* A restart keeps the invariant: the forgotten handler makes no claim.
LEMMA RestartStep ==
  ASSUME IInv, NEW w \in Operators, Restart(w)
  PROVE  IInv'
<1>1. /\ UNCHANGED <<history, secret, botSecret, maker, live, hookAt>>
      /\ Hold(w, "idle", NoObject, 0, 0)
  BY DEF Restart, apiVars, discordVars, Drop
<1>2. /\ pc'[w] = "idle" /\ \A v \in Operators : v # w => Unmoved(v)
  BY <1>1, HoldFacts DEF IInv
<1>3. budget' \in 0..MaxDisturbances
  BY BudgetFacts DEF Restart, IInv
<1>4. queued' \subseteq Operators
  BY DEF Restart, IInv, TypeOK
<1>5. seen' \in [Operators -> 1..Len(history)]
  BY DEF Restart, IInv, TypeOK
<1>6. Len(history) \in Nat /\ Len(hookAt) \in Nat
  BY DEF IInv, TypeOK
<1>7. /\ pc' \in [Operators -> Calls] /\ obj' \in [Operators -> Object]
      /\ base' \in [Operators -> 0..Len(history')]
      /\ hook' \in [Operators -> 0..Len(hookAt')]
  <2>1. "idle" \in Calls /\ NoObject \in Object
    BY ObjectFacts DEF Calls
  <2>2. TypeOK /\ 0 \in 0..Len(history') /\ 0 \in 0..Len(hookAt')
    BY <1>1, <1>6 DEF IInv
  <2>3. /\ Len(history') \in Nat /\ Len(history) <= Len(history')
        /\ Len(hookAt') \in Nat /\ Len(hookAt) <= Len(hookAt')
    BY <1>1, <1>6
  <2> QED
    BY <1>1, <2>1, <2>2, <2>3, HoldType
<1>8. TypeOK'
  BY <1>1, <1>3, <1>4, <1>5, <1>7 DEF IInv, TypeOK
<1>9. Allowed(NoObject) /\ Grow(NoObject)
  BY <1>1, ObjectFacts DEF Grow
<1>10. \A v \in Operators : Moves(v)
  BY <1>2 DEF Moves
<1> QED
  BY <1>1, <1>2, <1>6, <1>8, <1>9, <1>10, Preserve DEF Unmoved

\* A version that somebody else writes: it records no channel that a handler
\* has yet to save.
LEMMA ElsewhereStep ==
  ASSUME IInv, NEW o, Allowed(o), WrittenElsewhere(o),
         o.channelID # 0 /\ ~o.deleting => o.channelID \in live,
         \A v \in Operators : pc[v] = "saveChannel" => o.channelID # obj[v].channelID
  PROVE  IInv'
<1>1. /\ UNCHANGED <<secret, botSecret, maker, live, hookAt, seen, queued>>
      /\ UNCHANGED <<pc, obj, base, hook>>
      /\ history' = Append(history, o)
  BY DEF WrittenElsewhere, discordVars, localVars
<1>2. o \in Object /\ Grow(o)
  BY <1>1 DEF Allowed, Grow
<1>3. Len(history) \in Nat \ {0} /\ Len(hookAt) \in Nat
  BY DEF IInv, TypeOK
<1>4. history' \in Seq(Object) /\ Len(history') = Len(history) + 1
  BY <1>1, <1>2 DEF IInv, TypeOK
<1>5. /\ 1..Len(history) \subseteq 1..Len(history')
      /\ 0..Len(history) \subseteq 0..Len(history') /\ Len(history') > 0
  BY <1>3, <1>4
<1>6. /\ seen' \in [Operators -> 1..Len(history')]
      /\ base' \in [Operators -> 0..Len(history')]
  BY <1>1, <1>5 DEF IInv, TypeOK
<1>7. budget' \in 0..MaxDisturbances
  BY BudgetFacts DEF WrittenElsewhere, IInv
<1>8. TypeOK'
  BY <1>1, <1>4, <1>5, <1>6, <1>7 DEF IInv, TypeOK
<1>9. \A v \in Operators : Moves(v)
  BY <1>1 DEF Moves, Unmoved
<1> QED
  BY <1>1, <1>2, <1>3, <1>8, <1>9, Preserve

\* The latest version is sound and part of the history.
LEMMA CurrentFacts ==
  ASSUME IInv
  PROVE  /\ Current \in Object /\ Sound(Current) /\ Later(Current, Current)
         /\ \E i \in 1..Len(history) : history[i] = Current
<1>1. Len(history) \in 1..Len(history) /\ Current = history[Len(history)]
  BY DEF IInv, TypeOK, Current, Latest
<1>2. Current \in Object
  BY <1>1 DEF IInv, TypeOK
<1>3. Sound(Current)
  BY <1>1 DEF IInv, HistoryInv
<1>4. Later(Current, Current)
  BY DEF Later
<1> QED
  BY <1>1, <1>2, <1>3, <1>4

\* Creating the resource keeps the invariant: its UID is new.
LEMMA CreateStep ==
  ASSUME IInv, Create
  PROVE  IInv'
<1> DEFINE o == NewObject(Len(history) + 1)
<1>1. Len(history) + 1 \in Nat
  BY DEF IInv, TypeOK
<1>2. o \in Object /\ o.channelID = 0
  BY <1>1, ObjectFacts
<1>3. Allowed(o) /\ WrittenElsewhere(o)
  BY <1>2 DEF Create, Allowed
<1>4. \A v \in Operators : pc[v] = "saveChannel" => obj[v].channelID # 0
  BY DEF IInv, UnsavedInv, TypeOK
<1> HIDE DEF o
<1> QED
  BY <1>2, <1>3, <1>4, ElsewhereStep

\* No handler is about to save a channel that the resource records.
LEMMA CurrentUnsaved ==
  ASSUME IInv
  PROVE  \A v \in Operators : pc[v] = "saveChannel" => Current.channelID # obj[v].channelID
BY CurrentFacts DEF IInv, UnsavedInv

\* Editing the resource keeps the invariant.
LEMMA EditStep ==
  ASSUME IInv, Edit
  PROVE  IInv'
<1> DEFINE o == Current
<1>1. Allowed(o) /\ WrittenElsewhere(o)
  BY CurrentFacts DEF Edit, Allowed
<1>2. o.channelID # 0 /\ ~o.deleting => o.channelID \in live
  BY DEF IInv, RecordedChannelIsLive
<1>3. \A v \in Operators : pc[v] = "saveChannel" => o.channelID # obj[v].channelID
  BY CurrentUnsaved
<1> HIDE DEF o
<1> QED
  BY <1>1, <1>2, <1>3, ElsewhereStep

\* Deleting the resource keeps the invariant: with a finalizer it is
\* condemned, without one it records no channel.
LEMMA DeleteStep ==
  ASSUME IInv, Delete
  PROVE  IInv'
<1>1. CASE Current.finalizer
  <2> DEFINE o == [Current EXCEPT !.deleting = TRUE]
  <2>1. /\ o \in Object /\ o.deleting /\ o.uid = Current.uid
        /\ o.finalizer = Current.finalizer /\ o.channelID = Current.channelID
        /\ o.webhookID = Current.webhookID
    BY CurrentFacts DEF Object
  <2>2. Later(Current, o) /\ o.uid # 0
    BY <2>1 DEF Later, Delete
  <2>3. Sound(o)
    BY <2>1, <2>2, CurrentFacts DEF Sound
  <2>4. Allowed(o)
    BY <2>1, <2>2, <2>3 DEF Allowed
  <2>5. WrittenElsewhere(o)
    BY <1>1 DEF Delete
  <2>6. \A v \in Operators : pc[v] = "saveChannel" => o.channelID # obj[v].channelID
    BY <2>1, CurrentUnsaved
  <2> HIDE DEF o
  <2> QED
    BY <2>1, <2>4, <2>5, <2>6, ElsewhereStep
<1>2. CASE ~Current.finalizer
  <2>1. WrittenElsewhere(NoObject) /\ Allowed(NoObject) /\ NoObject.channelID = 0
    BY <1>2, ObjectFacts DEF Delete, NoObject
  <2>2. \A v \in Operators : pc[v] = "saveChannel" => obj[v].channelID # 0
    BY DEF IInv, UnsavedInv, TypeOK
  <2> QED
    BY <2>1, <2>2, ElsewhereStep
<1> QED
  BY <1>1, <1>2

(***************************************************************************)
(* The theorems.                                                           *)
(***************************************************************************)

\* The invariant holds at the start.
LEMMA InitIInv == Init => IInv
<1> SUFFICES ASSUME Init PROVE IInv
  OBVIOUS
<1>1. NoObject \in Object
  BY ObjectFacts
<1>2. /\ history \in Seq(Object) /\ Len(history) = 1 /\ history[1] = NoObject
      /\ maker = <<>> /\ hookAt = <<>> /\ secret = NoSecret /\ live = {}
  BY <1>1 DEF Init
<1>3. TypeOK
  <2>1. maker \in Seq(Nat) /\ Len(maker) = 0 /\ hookAt \in Seq(1..0) /\ Len(hookAt) = 0
    BY <1>2
  <2>2. seen \in [Operators -> 1..Len(history)] /\ base \in [Operators -> 0..Len(history)]
    BY <1>2 DEF Init
  <2>3. hook \in [Operators -> 0..Len(hookAt)]
    BY <2>1 DEF Init
  <2>4. pc \in [Operators -> Calls] /\ obj \in [Operators -> Object]
    BY <1>1 DEF Init, Calls
  <2>5. secret.hook = 0
    BY <1>2 DEF NoSecret
  <2>6. /\ Len(maker) <= MaxChannels /\ Len(hookAt) <= MaxHooks
        /\ budget \in 0..MaxDisturbances /\ secret.hook <= Len(hookAt)
        /\ botSecret \in BotStates
    BY <2>1, <2>5, BoundsAssumption DEF Init
  <2>7. hookAt \in Seq(1..Len(maker)) /\ live \subseteq 1..Len(maker)
    BY <1>2, <2>1
  <2>8. queued \subseteq Operators /\ secret \in WebhookSecret \cup {NoSecret}
    BY DEF Init
  <2> QED
    BY <1>2, <2>1, <2>2, <2>3, <2>4, <2>6, <2>7, <2>8 DEF TypeOK
<1>4. HistoryInv
  BY <1>2 DEF HistoryInv, Sound, Later, NoObject
<1>5. WorkerInv /\ UnsavedInv
  BY DEF Init, WorkerInv, UnsavedInv
<1>6. MakerInv
  BY <1>2 DEF MakerInv
<1>7. SecretInv
  BY <1>2 DEF SecretInv
<1>8. RecordedChannelIsLive
  BY <1>2 DEF RecordedChannelIsLive, Current, Latest, NoObject
<1> QED
  BY <1>3, <1>4, <1>5, <1>6, <1>7, <1>8 DEF IInv

\* Every action of Next keeps the inductive invariant.
LEMMA NextIInv == IInv /\ [Next]_vars => IInv'
<1> SUFFICES ASSUME IInv, [Next]_vars PROVE IInv'
  OBVIOUS
<1>1. ASSUME NEW w \in Operators, Reconcile(w) PROVE IInv'
  BY <1>1, StartStep, GetBotSecretStep, SetConditionStep, DeleteChannelStep,
     RemoveFinalizerStep, AddFinalizerStep, CreateChannelStep, SaveChannelStep,
     CreateWebhookStep, CreateSecretStep, SaveWebhookStep DEF Reconcile
<1>2. ASSUME NEW w \in Operators, Deliver(w) \/ Resync(w) \/ Restart(w) PROVE IInv'
  BY <1>2, DeliverStep, ResyncStep, RestartStep
<1>3. CASE Create \/ Edit \/ Delete
  BY <1>3, CreateStep, EditStep, DeleteStep
<1>4. CASE SetBotSecret \/ CollectSecret
  BY <1>4, SetBotSecretStep, CollectSecretStep
<1>5. CASE UNCHANGED vars
  BY <1>5, StutterStep
<1> QED
  BY <1>1, <1>2, <1>3, <1>4, <1>5 DEF Next

\* The inductive invariant holds in every reachable state: what any handler
\* believes about the version it read is true, and versions only grow.
THEOREM Invariance == Spec => []IInv
BY InitIInv, NextIInv, PTL DEF Spec

\* Every variable keeps its type, and Discord's limits are kept.
THEOREM TypeCorrect == Spec => []TypeOK
<1>1. IInv => TypeOK
  BY DEF IInv
<1> QED
  BY <1>1, Invariance, PTL

\* The channel that a resource in use records exists in Discord, however many
\* processes run the handler on however stale caches.
THEOREM ChannelInUse == Spec => []RecordedChannelIsLive
<1>1. IInv => RecordedChannelIsLive
  BY DEF IInv
<1> QED
  BY <1>1, Invariance, PTL

\* A channel made for the present incarnation is covered by its finalizer.
THEOREM CoveredByFinalizer == Spec => []FinalizerBeforeChannel
<1>1. IInv => FinalizerBeforeChannel
  <2> SUFFICES ASSUME IInv, NEW c \in live, maker[c] = Current.uid
               PROVE  Current.finalizer
    BY DEF FinalizerBeforeChannel
  <2>1. c \in 1..Len(maker) /\ Len(history) \in 1..Len(history)
    BY DEF IInv, TypeOK
  <2>2. PICK i \in 1..Len(history) : history[i].uid = maker[c] /\ history[i].finalizer
    BY <2>1 DEF IInv, MakerInv
  <2>3. Later(history[i], history[Len(history)])
    BY <2>1, <2>2 DEF IInv, HistoryInv, TypeOK, Current, Latest
  <2> QED
    BY <2>2, <2>3 DEF Later, Current, Latest
<1> QED
  BY <1>1, Invariance, PTL

\* The recorded webhook and the published one post to the recorded channel.
THEOREM WebhooksReachChannel == Spec => []WebhooksPostToRecordedChannel
<1>1. IInv => WebhooksPostToRecordedChannel
  <2> SUFFICES ASSUME IInv PROVE WebhooksPostToRecordedChannel
    OBVIOUS
  <2>1. Len(history) \in 1..Len(history)
    BY DEF IInv, TypeOK
  <2>2. Current.webhookID # 0 => hookAt[Current.webhookID] = Current.channelID
    BY CurrentFacts DEF Sound
  <2>3. ASSUME secret # NoSecret, secret.owner = Current.uid
        PROVE  hookAt[secret.hook] = Current.channelID
    <3>1. PICK i \in 1..Len(history) : /\ history[i].uid = secret.owner
                                        /\ history[i].channelID # 0
                                        /\ hookAt[secret.hook] = history[i].channelID
      BY <2>3 DEF IInv, SecretInv
    <3>2. Later(history[i], history[Len(history)])
      BY <2>1, <2>3, <3>1 DEF IInv, HistoryInv, TypeOK, Current, Latest
    <3> QED
      BY <3>1, <3>2 DEF Later, Current, Latest
  <2> QED
    BY <2>2, <2>3 DEF WebhooksPostToRecordedChannel
<1> QED
  BY <1>1, Invariance, PTL
=============================================================================
