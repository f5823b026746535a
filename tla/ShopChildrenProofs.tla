------------------------- MODULE ShopChildrenProofs -------------------------
(***************************************************************************)
(* Proofs about ShopChildren, for any order of calls, any number of        *)
(* incarnations and disturbances and any lag.                              *)
(*                                                                         *)
(* The argument: there is one worker, and what it reads of the Shop never  *)
(* goes back to an earlier incarnation.  So the owners of all versions of  *)
(* all children are at most the incarnation of the pass that is running,   *)
(* which is at most every incarnation that the cache may still show: a     *)
(* pass never takes a child from a later incarnation.  A status that is    *)
(* accepted was read as the only version of the Shop, so that the pass     *)
(* that wrote it is one of the living incarnation, and it has claimed      *)
(* whatever it has visited.                                                *)
(*                                                                         *)
(* That the controller rests only when the Shop has its parts: a pass that *)
(* neither an event nor a key follows is one of the living Shop, and what  *)
(* it has visited is as it left it, since every later change of a watched  *)
(* kind would be an event (LastPassInv).                                   *)
(***************************************************************************)
EXTENDS ShopChildren, TLAPS

USE DEF Converged

(***************************************************************************)
(* The inductive invariant.                                                *)
(***************************************************************************)

\* Incarnation u may still be read: it is at most any that the cache, now or
\* later, shows.
Readable(u) ==
  /\ u <= born
  /\ \A i \in 1..Len(shop) : shop[i].uid # 0 => u <= shop[i].uid

\* Incarnations follow each other, and a version that is reported ready comes
\* after versions of the same incarnation only.
ShopInv ==
  /\ \A i \in 1..Len(shop) : shop[i].uid <= born
  /\ \A i, j \in 1..Len(shop) :
       i <= j => /\ shop[j].uid # 0 => shop[i].uid <= shop[j].uid
                 /\ shop[j].ready => shop[j].uid # 0 /\ shop[i].uid = shop[j].uid

\* Owners follow each other as well, as far as a child exists.
OwnerInv ==
  \A k \in Kinds :
    /\ \A i \in 1..Len(child[k]) : Readable(child[k][i].owner)
    /\ \A i, j \in 1..Len(child[k]) :
         i <= j /\ child[k][j].exists => child[k][i].owner <= child[k][j].owner

\* The pass has made its call for kind k.
Visited(k) == \E i \in DOMAIN Calls : i < pass.call /\ Calls[i] = k

\* The converged child of kind k is that of incarnation u if it exists.
OwnedBy(k, u) == Now(k).exists => Now(k).owner = u

PassInv ==
  pass # NoPass =>
    /\ Readable(pass.uid)
    /\ \A k \in Kinds : \A i \in 1..Len(child[k]) : child[k][i].owner <= pass.uid
    /\ pass.base \in {0, 1}
    /\ pass.base = 1 => shop[1].uid = pass.uid
    /\ Latest(shop).ready => pass.uid = Living
    /\ \A k \in Converged : Visited(k) => OwnedBy(k, pass.uid)

ReadyInv ==
  Latest(shop).ready => \A k \in Converged : Before(k) => OwnedBy(k, Living)

IInv == TypeOK /\ ShopInv /\ OwnerInv /\ PassInv /\ ReadyInv

(***************************************************************************)
(* Versions.                                                               *)
(***************************************************************************)

\* A write adds a version and keeps the others.
LEMMA Appended ==
  ASSUME NEW S, NEW h \in Seq(S), NEW o \in S
  PROVE  /\ Append(h, o) \in Seq(S)
         /\ Len(Append(h, o)) = Len(h) + 1
         /\ Latest(Append(h, o)) = o
         /\ \A i \in 1..Len(h) : Append(h, o)[i] = h[i]
  BY DEF Latest

\* An informer that moves on drops the first version.
LEMMA Delivered ==
  ASSUME NEW S, NEW h \in Seq(S), Len(h) > 1
  PROVE  /\ Tail(h) \in Seq(S)
         /\ Len(Tail(h)) = Len(h) - 1
         /\ Latest(Tail(h)) = Latest(h)
         /\ \A i \in 1..Len(h) - 1 : Tail(h)[i] = h[i + 1]
  BY DEF Latest

\* A cache that is listed again has one version.
LEMMA Listed ==
  ASSUME NEW S, NEW o \in S
  PROVE  <<o>> \in Seq(S) /\ Len(<<o>>) = 1 /\ Latest(<<o>>) = o /\ <<o>>[1] = o
  BY DEF Latest

LEMMA LatestVersion ==
  ASSUME NEW S, NEW h \in Seq(S), Len(h) > 0
  PROVE  Len(h) \in 1..Len(h) /\ 1 \in 1..Len(h) /\ h[1] \in S /\ Latest(h) \in S
  BY DEF Latest

\* A child that was written.
LEMMA ChildWritten ==
  ASSUME TypeOK, NEW k \in Kinds, NEW o \in Child,
         child' = [child EXCEPT ![k] = After(k, o)]
  PROVE  /\ child' \in [Kinds -> Seq(Child)]
         /\ \A l \in Kinds : Len(child'[l]) > 0 /\ (l \notin Cached => Len(child'[l]) = 1)
         /\ \A l \in Kinds \ {k} : child'[l] = child[l]
         /\ Latest(child'[k]) = o
         /\ \A i \in 1..Len(child'[k]) :
              \/ i = Len(child'[k]) /\ child'[k][i] = o
              \/ i \in 1..Len(child[k]) /\ child'[k][i] = child[k][i]
<1>1. child \in [Kinds -> Seq(Child)] /\ child[k] \in Seq(Child)
  BY DEF TypeOK
<1>2. child'[k] = After(k, o) /\ \A l \in Kinds \ {k} : child'[l] = child[l]
  BY <1>1
<1>3. CASE k \in Cached
  <2>1. child'[k] = Append(child[k], o)
    BY <1>2, <1>3 DEF After
  <2>2. /\ child'[k] \in Seq(Child) /\ Len(child'[k]) = Len(child[k]) + 1
        /\ Latest(child'[k]) = o
        /\ \A i \in 1..Len(child[k]) : child'[k][i] = child[k][i]
    <3>1. PICK h \in Seq(Child) : h = child[k]
      BY <1>1
    <3>2. /\ Append(h, o) \in Seq(Child) /\ Len(Append(h, o)) = Len(h) + 1
          /\ Latest(Append(h, o)) = o
          /\ \A i \in 1..Len(h) : Append(h, o)[i] = h[i]
      BY Appended
    <3> QED BY <2>1, <3>1, <3>2, Zenon
  <2>3. child'[k][Len(child'[k])] = o
    BY <2>2 DEF Latest
  <2>4. Len(child[k]) \in Nat
    BY <1>1
  <2> QED BY <1>1, <1>2, <1>3, <2>2, <2>3, <2>4 DEF TypeOK
<1>4. CASE k \notin Cached
  <2>1. child'[k] = <<o>>
    BY <1>2, <1>4 DEF After
  <2>2. /\ child'[k] \in Seq(Child) /\ Len(child'[k]) = 1
        /\ Latest(child'[k]) = o /\ child'[k][1] = o
    BY <2>1, Listed
  <2> QED BY <1>1, <1>2, <1>4, <2>2 DEF TypeOK
<1> QED BY <1>3, <1>4

(***************************************************************************)
(* Types.                                                                  *)
(***************************************************************************)

\* What is read is a version.
LEMMA Reads ==
  ASSUME TypeOK, NEW k \in Kinds
  PROVE  /\ Read(k) \in Child /\ Now(k) \in Child
         /\ \E i \in 1..Len(child[k]) : Read(k) = child[k][i]
<1>1. child[k] \in Seq(Child) /\ Len(child[k]) > 0
  BY DEF TypeOK
<1> QED BY <1>1, LatestVersion DEF Read, Now, Shown, Latest

\* The call for a kind has one of three outcomes: the child becomes one of the
\* incarnation of the pass, the call fails, or the child is left as it is.
Claims(k, o) ==
  /\ o \in Child /\ o.exists /\ o.owner = pass.uid
  /\ Now(k).exists => k \notin Kept /\ Now(k).owner # pass.uid /\ o.dying = Now(k).dying
  /\ child' = [child EXCEPT ![k] = After(k, o)]
  /\ \E r \in BOOLEAN : Onward(r)
  /\ UNCHANGED queued

Gives(k) == Requeue /\ UNCHANGED child

Leaves(k) ==
  /\ k \in Optional \/ (Read(k).exists /\ (k \in Kept \/ Read(k).owner = pass.uid))
  /\ \E r \in BOOLEAN : Onward(r)
  /\ UNCHANGED <<child, queued>>

LEMMA Calling ==
  ASSUME TypeOK, NEW k \in Kinds, At(k)
  PROVE  /\ pass \in Pass /\ pass.uid \in 1..MaxIncarnations /\ pass.ready \in BOOLEAN
         /\ pass.call \in 1..Len(Calls) /\ pass.base \in Nat
         /\ Calls[pass.call] = k
<1>1. pass \in Pass
  BY DEF TypeOK, At
<1> QED BY <1>1, ChildrenAssumption DEF At, Pass

LEMMA EnsureOutcomes ==
  ASSUME TypeOK, NEW k \in Kinds, Ensure(k)
  PROVE  (\E o \in Child : Claims(k, o)) \/ Gives(k) \/ Leaves(k)
<1>1. /\ pass \in Pass /\ pass.uid \in 0..MaxIncarnations
  BY Calling, ChildrenAssumption DEF Ensure
<1>2. Read(k) \in Child /\ Now(k) \in Child
  BY Reads
<1>3. ASSUME NEW o \in Child PROVE Up(k, o) \in BOOLEAN
  BY Zenon DEF Up
<1>4. CASE ~Read(k).exists /\ Write(k, NewChild(k), Creatable(k))
  <2>1. NewChild(k) \in Child /\ NewChild(k).exists /\ NewChild(k).owner = pass.uid
    BY <1>1, ChildrenAssumption DEF NewChild, NoChild, Child
  <2>2. CASE Creatable(k)
    BY <1>3, <1>4, <2>1, <2>2 DEF Write, Creatable, Claims
  <2>3. CASE ~Creatable(k)
    BY <1>4, <2>3 DEF Write, Gives
  <2> QED BY <2>2, <2>3
<1>5. CASE Read(k).exists /\ Claimed(k, Read(k)) # Read(k)
           /\ Write(k, Claimed(k, Read(k)), Updatable(k))
  <2> DEFINE o == [Read(k) EXCEPT !.owner = pass.uid]
  <2>1. k \notin Kept /\ Claimed(k, Read(k)) = o
    BY <1>5 DEF Claimed
  <2>2. o \in Child /\ o.exists /\ o.owner = pass.uid /\ o.dying = Read(k).dying
    BY <1>1, <1>2, <1>5 DEF Child
  <2>3. Read(k).owner # pass.uid
    BY <1>2, <1>5, <2>1 DEF Child
  <2>4. CASE Updatable(k)
    <3>1. Read(k) = Now(k)
      BY <2>4 DEF Updatable, UpToDate, IsLatest, Read, Now, Shown, Latest
    <3>2. child' = [child EXCEPT ![k] = After(k, o)] /\ Onward(Up(k, o)) /\ UNCHANGED queued
      BY <1>5, <2>1, <2>4 DEF Write
    <3> HIDE DEF o
    <3> QED BY <1>3, <2>1, <2>2, <2>3, <3>1, <3>2 DEF Claims
  <2>5. CASE ~Updatable(k)
    BY <1>5, <2>5 DEF Write, Gives
  <2> QED BY <2>4, <2>5
<1>6. CASE /\ Read(k).exists /\ Claimed(k, Read(k)) = Read(k)
           /\ Onward(Up(k, Read(k))) /\ UNCHANGED <<child, queued>>
  <2>1. k \in Kept \/ Read(k).owner = pass.uid
    BY <1>1, <1>2, <1>6 DEF Claimed, Child
  <2> QED BY <1>2, <1>3, <1>6, <2>1 DEF Leaves
<1>7. CASE k \in Optional /\ Onward(TRUE) /\ UNCHANGED <<child, queued>>
  BY <1>7 DEF Leaves
<1> QED BY <1>4, <1>5, <1>6, <1>7 DEF Ensure

LEMMA Onwards ==
  ASSUME NEW r \in BOOLEAN, pass \in Pass, pass.call <= Len(Calls), Onward(r)
  PROVE  /\ pass' \in Pass /\ pass' # NoPass
         /\ pass'.call = pass.call + 1
         /\ pass'.uid = pass.uid /\ pass'.base = pass.base
<1>1. /\ pass.call \in 1..Len(Calls) + 1 /\ pass.uid \in 1..MaxIncarnations
      /\ pass.base \in Nat /\ pass.ready \in BOOLEAN /\ Len(Calls) \in Nat
  BY ChildrenAssumption DEF Pass
<1>2. (pass.ready /\ r) \in BOOLEAN
  OBVIOUS
<1>3. pass' = [pass EXCEPT !.call = @ + 1, !.ready = @ /\ r]
  BY DEF Onward
<1>4. /\ pass'.call = pass.call + 1 /\ pass'.uid = pass.uid /\ pass'.base = pass.base
      /\ pass' = [call |-> pass.call + 1, uid |-> pass.uid, base |-> pass.base,
                  ready |-> (pass.ready /\ r)]
  BY <1>3 DEF Pass
<1>5. pass.call + 1 \in 1..Len(Calls) + 1
  BY <1>1
<1>6. pass' \in Pass
  BY <1>1, <1>2, <1>4, <1>5 DEF Pass
<1>7. pass' # NoPass
  BY <1>1, <1>4 DEF NoPass
<1> QED BY <1>4, <1>6, <1>7

\* The steps of others that change a child.
Environment(k) == Collect(k) \/ Release(k) \/ ComesUp(k) \/ Take(k)

\* What the environment makes of a child.
LEMMA Environments ==
  ASSUME TypeOK, NEW k \in Kinds, Environment(k)
  PROVE  \E o \in Child :
           /\ child' = [child EXCEPT ![k] = After(k, o)]
           /\ UNCHANGED <<shop, queued, pass, born>>
           /\ o.exists => Now(k).exists
           /\ o.owner \in {0, Now(k).owner} /\ (o.exists => o.owner = Now(k).owner)
<1>1. Now(k) \in Child
  BY Reads
<1>2. NoChild \in Child /\ ~NoChild.exists /\ NoChild.owner = 0
  BY ChildrenAssumption DEF NoChild, Child
<1>3. CASE Becomes(k, NoChild)
  BY <1>2, <1>3 DEF Becomes
<1>4. CASE Becomes(k, [Now(k) EXCEPT !.up = TRUE])
  <2> DEFINE o == [Now(k) EXCEPT !.up = TRUE]
  <2>1. o \in Child /\ o.exists = Now(k).exists /\ o.owner = Now(k).owner
    BY <1>1 DEF Child
  <2>2. child' = [child EXCEPT ![k] = After(k, o)] /\ UNCHANGED <<shop, queued, pass, born>>
    BY <1>4 DEF Becomes
  <2> HIDE DEF o
  <2> QED BY <2>1, <2>2
<1>5. CASE Becomes(k, [Now(k) EXCEPT !.dying = TRUE])
  <2> DEFINE o == [Now(k) EXCEPT !.dying = TRUE]
  <2>1. o \in Child /\ o.exists = Now(k).exists /\ o.owner = Now(k).owner
    BY <1>1 DEF Child
  <2>2. child' = [child EXCEPT ![k] = After(k, o)] /\ UNCHANGED <<shop, queued, pass, born>>
    BY <1>5 DEF Becomes
  <2> HIDE DEF o
  <2> QED BY <2>1, <2>2
<1> QED BY <1>3, <1>4, <1>5 DEF Environment, Collect, Deleted, Release, ComesUp, Take

\* The shop's part of TypeOK, and the rest of it.
ShopType == shop \in Seq(Shop) /\ Len(shop) > 0
ChildType ==
  /\ child \in [Kinds -> Seq(Child)]
  /\ \A k \in Kinds : Len(child[k]) > 0 /\ (k \notin Cached => Len(child[k]) = 1)
PassType == pass \in Pass \cup {NoPass}
RestType ==
  /\ queued \in BOOLEAN /\ born \in 1..MaxIncarnations
  /\ taken \subseteq Kinds /\ budget \in 0..MaxDisturbances

LEMMA TypeParts == TypeOK <=> ShopType /\ ChildType /\ PassType /\ RestType
  BY DEF TypeOK, ShopType, ChildType, PassType, RestType

LEMMA TypeInit == Init => TypeOK
<1> SUFFICES ASSUME Init PROVE TypeOK
  OBVIOUS
<1>1. NewShop(1) \in Shop /\ NoChild \in Child
  BY ChildrenAssumption DEF NewShop, Shop, NoChild, Child
<1>2. <<NewShop(1)>> \in Seq(Shop) /\ Len(<<NewShop(1)>>) = 1
  BY <1>1, Listed
<1>3. <<NoChild>> \in Seq(Child) /\ Len(<<NoChild>>) = 1
  BY <1>1, Listed
<1>4. ShopType
  BY <1>2 DEF Init, ShopType
<1>5. ChildType
  BY <1>3 DEF Init, ChildType
<1>6. PassType /\ RestType
  BY ChildrenAssumption DEF Init, PassType, RestType
<1> QED BY <1>4, <1>5, <1>6, TypeParts

LEMMA TypeNext == TypeOK /\ [Next]_vars => TypeOK'
<1> SUFFICES ASSUME TypeOK, [Next]_vars PROVE TypeOK'
  OBVIOUS
<1>0. ShopType /\ ChildType /\ PassType /\ RestType
  BY TypeParts
<1>p. ShopType' /\ ChildType' /\ PassType' /\ RestType' => TypeOK'
  BY DEF TypeOK, ShopType, ChildType, PassType, RestType
<1>1. UNCHANGED shop => ShopType'
  BY <1>0 DEF ShopType
<1>2. UNCHANGED child => ChildType'
  BY <1>0 DEF ChildType
<1>3. UNCHANGED pass \/ pass' = NoPass => PassType'
  BY <1>0 DEF PassType
<1>4. queued' \in BOOLEAN /\ UNCHANGED <<born, taken, budget>> => RestType'
  BY <1>0 DEF RestType
<1>5. queued' \in BOOLEAN /\ UNCHANGED <<born, taken>> /\ Disturb => RestType'
  BY <1>0, ChildrenAssumption DEF RestType, Disturb
<1>6. queued \in BOOLEAN
  BY <1>0 DEF RestType
<1>7. /\ shop \in Seq(Shop) /\ Len(shop) > 0 /\ Len(shop) \in Nat
      /\ Shown(shop) \in Shop /\ Latest(shop) \in Shop
  BY <1>0, LatestVersion DEF ShopType, Shown
<1>8. ASSUME NEW o \in Shop, shop' = Append(shop, o) PROVE ShopType'
  BY <1>7, <1>8 DEF ShopType
<1>9. ASSUME NEW k \in Kinds, NEW o \in Child, child' = [child EXCEPT ![k] = After(k, o)]
      PROVE  ChildType'
  BY <1>9, ChildWritten DEF ChildType
<1>10. CASE Start
  <2>1. ASSUME Shown(shop).uid # 0 PROVE pass' \in Pass
    <3>1. Shown(shop).uid \in 1..MaxIncarnations
      BY <1>7, <2>1, ChildrenAssumption DEF Shop
    <3>2. 1 \in 1..Len(Calls) + 1
      BY ChildrenAssumption
    <3> QED BY <1>10, <2>1, <3>1, <3>2 DEF Start, Pass
  <2>2. PassType'
    BY <1>10, <2>1 DEF Start, PassType
  <2> QED BY <1>1, <1>2, <1>4, <1>10, <2>2, <1>p DEF Start, history
<1>11. ASSUME NEW k \in Kinds, Ensure(k) PROVE TypeOK'
  <2>1. UNCHANGED <<shop, born, taken, budget>>
    BY <1>11 DEF Ensure, history
  <2>2. pass \in Pass /\ pass.call <= Len(Calls)
    BY <1>11, Calling, ChildrenAssumption DEF Ensure
  <2>3. CASE \E o \in Child : Claims(k, o)
    <3>1. PICK o \in Child : Claims(k, o)
      BY <2>3
    <3>2. ChildType'
      BY <1>9, <3>1 DEF Claims
    <3>3. PICK r \in BOOLEAN : Onward(r)
      BY <3>1 DEF Claims
    <3>4. PassType'
      BY <2>2, <3>3, Onwards DEF PassType
    <3>5. queued' \in BOOLEAN
      BY <1>6, <3>1 DEF Claims
    <3> QED BY <1>1, <1>4, <2>1, <3>2, <3>4, <3>5, <1>p
  <2>4. CASE Gives(k)
    BY <1>1, <1>2, <1>3, <1>4, <2>1, <2>4, <1>p DEF Gives, Requeue
  <2>5. CASE Leaves(k)
    <3>1. PICK r \in BOOLEAN : Onward(r)
      BY <2>5 DEF Leaves
    <3>2. PassType'
      BY <2>2, <3>1, Onwards DEF PassType
    <3> QED BY <1>1, <1>2, <1>4, <1>6, <2>1, <2>5, <3>2, <1>p DEF Leaves
  <2> QED BY <1>11, <2>3, <2>4, <2>5, EnsureOutcomes
<1>12. CASE UpdateStatus
  <2>1. /\ pass \in Pass /\ pass.call <= Len(Calls) /\ pass.uid \in 1..MaxIncarnations
        /\ pass.ready \in BOOLEAN
    BY <1>0, <1>12 DEF UpdateStatus, At, PassType, Pass
  <2>2. UNCHANGED <<child, born, taken, budget>>
    BY <1>12 DEF UpdateStatus, history
  <2>3. CASE Requeue /\ UNCHANGED shop
    BY <1>1, <1>2, <1>3, <1>4, <2>2, <2>3, <1>p DEF Requeue
  <2>4. CASE /\ shop' = Written(shop, [uid |-> pass.uid, ready |-> pass.ready])
             /\ Onward(TRUE) /\ UNCHANGED queued
    <3>1. [uid |-> pass.uid, ready |-> pass.ready] \in Shop
      BY <2>1 DEF Shop
    <3>2. ShopType'
      BY <1>1, <1>8, <2>4, <3>1 DEF Written
    <3>3. PassType'
      BY <2>1, <2>4, Onwards DEF PassType
    <3> QED BY <1>2, <1>4, <1>6, <2>2, <2>4, <3>2, <3>3, <1>p
  <2> QED BY <1>12, <2>3, <2>4 DEF UpdateStatus
<1>13. CASE Finish
  <2>1. queued' \in BOOLEAN
    BY <1>13, Zenon DEF Finish
  <2> QED BY <1>1, <1>2, <1>3, <1>4, <1>13, <2>1, <1>p DEF Finish, history
<1>14. CASE Fail
  BY <1>1, <1>2, <1>3, <1>5, <1>14, <1>p DEF Fail, Requeue, history
<1>15. CASE DeliverShop
  <2>1. ShopType'
    BY <1>7, <1>15 DEF DeliverShop, ShopType
  <2>2. PassType'
    <3>1. CASE pass = NoPass \/ pass.base = 0
      BY <1>3, <1>15, <3>1 DEF DeliverShop
    <3>2. CASE pass # NoPass /\ pass.base # 0
      <4>1. pass \in Pass /\ pass.base \in Nat /\ pass.base - 1 \in Nat
        BY <1>0, <3>2 DEF PassType, Pass
      <4>2. pass' = [pass EXCEPT !.base = pass.base - 1]
        BY <1>15, <3>2 DEF DeliverShop
      <4> QED BY <4>1, <4>2 DEF PassType, Pass
    <3> QED BY <3>1, <3>2
  <2> QED BY <1>2, <1>4, <1>15, <2>1, <2>2, <1>p DEF DeliverShop, history
<1>16. ASSUME NEW k \in Kinds, DeliverChild(k) PROVE TypeOK'
  <2>1. ChildType'
    <3>1. /\ child \in [Kinds -> Seq(Child)] /\ child[k] \in Seq(Child) /\ Len(child[k]) > 1
          /\ child' = [child EXCEPT ![k] = Tail(child[k])]
      BY <1>0, <1>16 DEF DeliverChild, ChildType
    <3>2. Tail(child[k]) \in Seq(Child) /\ Len(Tail(child[k])) = Len(child[k]) - 1
      BY <3>1
    <3>3. k \in Cached
      BY <1>0, <3>1 DEF ChildType
    <3> QED BY <1>0, <3>1, <3>2, <3>3 DEF ChildType
  <2>2. queued' \in BOOLEAN
    BY <1>16, Zenon DEF DeliverChild
  <2> QED BY <1>1, <1>3, <1>4, <1>16, <2>1, <2>2, <1>p DEF DeliverChild, history
<1>17. CASE Restart
  <2>1. ShopType'
    BY <1>7, <1>17, Listed DEF Restart, ShopType
  <2>2. ASSUME NEW k \in Kinds PROVE <<Now(k)>> \in Seq(Child) /\ Len(<<Now(k)>>) = 1
    BY Reads, Listed
  <2>3. ChildType'
    BY <1>17, <2>2 DEF Restart, ChildType
  <2>4. queued' \in BOOLEAN
    BY <1>17, Zenon DEF Restart
  <2> QED BY <1>3, <1>5, <1>17, <2>1, <2>3, <2>4, <1>p DEF Restart, history
<1>18. CASE CreateShop
  <2>1. born' = born + 1 /\ born' \in 1..MaxIncarnations
    BY <1>0, <1>18, ChildrenAssumption DEF CreateShop, RestType
  <2>2. NewShop(born') \in Shop
    BY <2>1, ChildrenAssumption DEF NewShop, Shop
  <2>3. ShopType'
    BY <1>8, <1>18, <2>2 DEF CreateShop
  <2>4. RestType'
    BY <1>0, <1>18, <2>1 DEF CreateShop, RestType
  <2> QED BY <1>2, <1>3, <1>18, <2>3, <2>4, <1>p DEF CreateShop
<1>19. CASE DeleteShop
  <2>1. NoShop \in Shop
    BY ChildrenAssumption DEF NoShop, Shop
  <2>2. ShopType'
    BY <1>8, <1>19, <2>1 DEF DeleteShop
  <2> QED BY <1>2, <1>3, <1>4, <1>6, <1>19, <2>2, <1>p DEF DeleteShop, history
<1>20. ASSUME NEW k \in Kinds, Environment(k) PROVE TypeOK'
  <2>1. PICK o \in Child : /\ child' = [child EXCEPT ![k] = After(k, o)]
                           /\ UNCHANGED <<shop, queued, pass, born>>
    BY <1>20, Environments
  <2>2. RestType'
    <3>1. CASE UNCHANGED <<taken, budget>>
      BY <1>4, <1>6, <2>1, <3>1
    <3>2. CASE Take(k)
      BY <1>0, <2>1, <3>2, ChildrenAssumption DEF Take, Disturb, RestType
    <3> QED BY <1>20, <3>1, <3>2 DEF Environment, Collect, Release, ComesUp
  <2> QED BY <1>1, <1>3, <1>9, <2>1, <2>2, <1>p
<1>21. CASE UNCHANGED vars
  BY <1>1, <1>2, <1>3, <1>4, <1>6, <1>21, <1>p DEF vars
<1> QED BY <1>10, <1>11, <1>12, <1>13, <1>14, <1>15, <1>16, <1>17, <1>18, <1>19, <1>20, <1>21
        DEF Next, Reconcile, DeliverChildren, Progress, Environment

\* Every variable keeps its type.
THEOREM TypeCorrect == Spec => []TypeOK
  BY TypeInit, TypeNext, PTL DEF Spec

(***************************************************************************)
(* The invariant is inductive.                                             *)
(***************************************************************************)

LEMMA InvInit == Init => IInv
<1> SUFFICES ASSUME Init PROVE IInv
  OBVIOUS
<1>1. TypeOK
  BY TypeInit
<1>2. shop = <<NewShop(1)>> /\ Len(shop) = 1 /\ shop[1] = NewShop(1) /\ Latest(shop) = NewShop(1)
  BY DEF Init, Latest
<1>3. NewShop(1).uid = 1 /\ ~NewShop(1).ready /\ NoChild.owner = 0 /\ ~NoChild.exists /\ born = 1
  BY DEF Init, NewShop, NoChild
<1>4. \A k \in Kinds : Len(child[k]) = 1 /\ child[k][1] = NoChild
  BY DEF Init
<1>5. ShopInv
  BY <1>2, <1>3 DEF ShopInv
<1>6. Readable(0)
  BY <1>2, <1>3 DEF Readable
<1>7. OwnerInv
  BY <1>3, <1>4, <1>6 DEF OwnerInv
<1>8. PassInv
  BY DEF Init, PassInv
<1>9. ReadyInv
  BY <1>2, <1>3 DEF ReadyInv
<1> QED BY <1>1, <1>5, <1>7, <1>8, <1>9 DEF IInv

\* The types that the proofs below use most.
LEMMA Typed ==
  ASSUME TypeOK
  PROVE  /\ shop \in Seq(Shop) /\ Len(shop) \in Nat \ {0} /\ born \in Nat \ {0}
         /\ \A i \in 1..Len(shop) : shop[i] \in Shop /\ shop[i].uid \in Nat
         /\ \A k \in Kinds :
              /\ child[k] \in Seq(Child) /\ Len(child[k]) \in Nat \ {0}
              /\ \A i \in 1..Len(child[k]) : child[k][i] \in Child /\ child[k][i].owner \in Nat
              /\ Now(k) = child[k][Len(child[k])]
         /\ Latest(shop) = shop[Len(shop)] /\ Living = shop[Len(shop)].uid
         /\ pass # NoPass => pass \in Pass /\ pass.uid \in Nat \ {0} /\ pass.base \in Nat
<1>1. shop \in Seq(Shop) /\ Len(shop) \in Nat \ {0} /\ born \in Nat \ {0}
  BY ChildrenAssumption DEF TypeOK
<1>2. ASSUME NEW i \in 1..Len(shop) PROVE shop[i] \in Shop /\ shop[i].uid \in Nat
  <2>1. shop[i] \in Shop
    BY <1>1
  <2> QED BY <2>1, ChildrenAssumption DEF Shop
<1>3. ASSUME NEW k \in Kinds
      PROVE  /\ child[k] \in Seq(Child) /\ Len(child[k]) \in Nat \ {0}
             /\ \A i \in 1..Len(child[k]) : child[k][i] \in Child /\ child[k][i].owner \in Nat
  <2>1. child[k] \in Seq(Child) /\ Len(child[k]) \in Nat \ {0}
    BY DEF TypeOK
  <2>2. ASSUME NEW i \in 1..Len(child[k]) PROVE child[k][i] \in Child /\ child[k][i].owner \in Nat
    <3>1. child[k][i] \in Child
      BY <2>1
    <3> QED BY <3>1, ChildrenAssumption DEF Child
  <2> QED BY <2>1, <2>2
<1>4. pass # NoPass => pass \in Pass /\ pass.uid \in Nat \ {0} /\ pass.base \in Nat
  BY ChildrenAssumption DEF TypeOK, Pass
<1> QED BY <1>1, <1>2, <1>3, <1>4 DEF Now, Living, Latest

\* A write of a child keeps the order of owners when its owner is late enough.
LEMMA OwnersFollow ==
  ASSUME TypeOK, OwnerInv, NEW k \in Kinds, NEW o \in Child,
         child' = [child EXCEPT ![k] = After(k, o)], UNCHANGED <<shop, born>>,
         Readable(o.owner),
         o.exists => \A i \in 1..Len(child[k]) : child[k][i].owner <= o.owner
  PROVE  OwnerInv'
<1>1. ASSUME NEW u, Readable(u) PROVE Readable(u)'
  BY <1>1 DEF Readable
<1>2. /\ \A l \in Kinds \ {k} : child'[l] = child[l]
      /\ child'[k] \in Seq(Child)
      /\ \A i \in 1..Len(child'[k]) :
           \/ i = Len(child'[k]) /\ child'[k][i] = o
           \/ i \in 1..Len(child[k]) /\ child'[k][i] = child[k][i]
  BY ChildWritten
<1>3. o.owner \in Nat
  BY ChildrenAssumption DEF Child
<1>4. ASSUME NEW i \in (1..Len(child[k]))' PROVE Readable(child[k][i].owner)'
  <2>1. child'[k][i] = o \/ (i \in 1..Len(child[k]) /\ child'[k][i] = child[k][i])
    BY <1>2
  <2>2. CASE child'[k][i] = o
    BY <2>2 DEF Readable
  <2>3. CASE i \in 1..Len(child[k]) /\ child'[k][i] = child[k][i]
    <3>1. Readable(child[k][i].owner)
      BY <2>3 DEF OwnerInv
    <3> QED BY <2>3, <3>1 DEF Readable
  <2> QED BY <2>1, <2>2, <2>3
<1>5. ASSUME NEW i \in (1..Len(child[k]))', NEW j \in (1..Len(child[k]))',
             i <= j, child'[k][j].exists
      PROVE  child'[k][i].owner <= child'[k][j].owner
  <2>1. Len(child'[k]) \in Nat /\ Len(child[k]) \in Nat
    BY <1>2, Typed
  <2>2. CASE i = Len(child'[k]) /\ child'[k][i] = o
    BY <1>3, <1>5, <2>1, <2>2
  <2>3. CASE i \in 1..Len(child[k]) /\ child'[k][i] = child[k][i]
    <3>1. CASE j = Len(child'[k]) /\ child'[k][j] = o
      BY <1>5, <2>3, <3>1
    <3>2. CASE j \in 1..Len(child[k]) /\ child'[k][j] = child[k][j]
      BY <1>5, <2>3, <3>2 DEF OwnerInv
    <3> QED BY <1>2, <3>1, <3>2
  <2> QED BY <1>2, <2>2, <2>3
<1>6. ASSUME NEW l \in Kinds, l # k
      PROVE  /\ \A i \in (1..Len(child[l]))' : Readable(child[l][i].owner)'
             /\ \A i, j \in (1..Len(child[l]))' :
                  i <= j /\ child'[l][j].exists => child'[l][i].owner <= child'[l][j].owner
  <2>1. child'[l] = child[l]
    BY <1>2, <1>6
  <2>2. /\ \A i \in 1..Len(child[l]) : Readable(child[l][i].owner)
        /\ \A i, j \in 1..Len(child[l]) :
             i <= j /\ child[l][j].exists => child[l][i].owner <= child[l][j].owner
    BY DEF OwnerInv
  <2>3. ASSUME NEW i \in 1..Len(child[l]) PROVE Readable(child[l][i].owner)'
    BY <2>1, <2>2 DEF Readable
  <2> QED BY <2>1, <2>2, <2>3
<1> QED BY <1>4, <1>5, <1>6 DEF OwnerInv

\* What holds of the Shop and of readable incarnations stays when it does.
LEMMA ShopStays ==
  ASSUME ShopInv, UNCHANGED <<shop, born>>
  PROVE  ShopInv' /\ Living' = Living /\ Latest(shop') = Latest(shop)
         /\ \A u : Readable(u) => Readable(u)'
  BY DEF ShopInv, Living, Readable

\* Start: the copy of the cache is as late as any owner, and as early as
\* what the cache shows later.
LEMMA InvStart == ASSUME IInv, Start PROVE ShopInv' /\ OwnerInv' /\ PassInv' /\ ReadyInv'
<1>1. UNCHANGED <<shop, child, born>>
  BY DEF Start, history
<1>2. ShopInv' /\ ReadyInv'
  BY <1>1, ShopStays DEF IInv, ReadyInv, OwnedBy, Now
<1>3. OwnerInv'
  BY <1>1 DEF IInv, OwnerInv, Readable
<1>4. ASSUME pass' # NoPass PROVE PassInv'
  <2>1. /\ pass' = [call |-> 1, uid |-> shop[1].uid, base |-> 1, ready |-> TRUE]
        /\ shop[1].uid # 0
    BY <1>4 DEF Start, Shown
  <2>2. 1 \in 1..Len(shop) /\ Len(shop) \in 1..Len(shop)
    BY Typed DEF IInv
  <2>3. Readable(shop[1].uid)
    BY <2>1, <2>2, Typed DEF IInv, ShopInv, Readable
  <2>4. \A k \in Kinds : \A i \in 1..Len(child[k]) : child[k][i].owner <= shop[1].uid
    BY <2>1, <2>2 DEF IInv, OwnerInv, Readable
  <2>5. Latest(shop).ready => shop[1].uid = Living
    BY <2>2, Typed DEF IInv, ShopInv
  <2>6. \A k \in Kinds : ~Visited(k)'
    BY <2>1, ChildrenAssumption DEF Visited
  <2> QED BY <1>1, <2>1, <2>3, <2>4, <2>5, <2>6 DEF PassInv, Readable, Living
<1>5. PassInv'
  BY <1>4 DEF PassInv
<1> QED BY <1>2, <1>3, <1>5

\* A step that ends the pass and leaves the Shop and its children alone.
LEMMA InvIdle ==
  ASSUME IInv, UNCHANGED <<shop, child, born>>, pass' = NoPass
  PROVE  ShopInv' /\ OwnerInv' /\ PassInv' /\ ReadyInv'
<1>1. ShopInv' /\ ReadyInv'
  BY ShopStays DEF IInv, ReadyInv, OwnedBy, Now
<1>2. OwnerInv'
  BY DEF IInv, OwnerInv, Readable
<1>3. PassInv'
  BY DEF PassInv
<1> QED BY <1>1, <1>2, <1>3

\* What the pass has visited after the call for kind k.
LEMMA Visits ==
  ASSUME pass.call \in 1..Len(Calls), pass'.call = pass.call + 1, NEW l \in Kinds, Visited(l)'
  PROVE  Visited(l) \/ l = Calls[pass.call]
<1>1. PICK i \in DOMAIN Calls : i < pass.call + 1 /\ Calls[i] = l
  BY DEF Visited
<1>2. i \in Nat /\ pass.call \in Nat
  BY <1>1, ChildrenAssumption
<1>3. i < pass.call \/ i = pass.call
  BY <1>1, <1>2
<1> QED BY <1>1, <1>3 DEF Visited

\* A call for a kind: the child is then of the incarnation of the pass.
LEMMA InvEnsure ==
  ASSUME IInv, NEW k \in Kinds, Ensure(k)
  PROVE  ShopInv' /\ OwnerInv' /\ PassInv' /\ ReadyInv'
<1>1. TypeOK /\ ShopInv /\ OwnerInv /\ PassInv /\ ReadyInv
  BY DEF IInv
<1>2. UNCHANGED <<shop, born>> /\ At(k) /\ pass # NoPass
  BY DEF Ensure, history, At
<1>3. /\ pass \in Pass /\ pass.call \in 1..Len(Calls) /\ Calls[pass.call] = k
      /\ pass.call <= Len(Calls) /\ pass.uid \in Nat
  BY <1>1, <1>2, Calling, ChildrenAssumption
<1>4. ShopInv' /\ Living' = Living /\ Latest(shop') = Latest(shop)
      /\ \A u : Readable(u) => Readable(u)'
  BY <1>1, <1>2, ShopStays
<1>5. ASSUME NEW r \in BOOLEAN, Onward(r)
      PROVE  /\ pass'.uid = pass.uid /\ pass'.base = pass.base
             /\ Readable(pass.uid)'
             /\ pass'.base \in {0, 1} /\ (pass'.base = 1 => shop'[1].uid = pass'.uid)
             /\ Latest(shop').ready => pass'.uid = Living'
             /\ \A l \in Kinds : Visited(l)' => Visited(l) \/ l = k
  <2>1. pass'.call = pass.call + 1 /\ pass'.uid = pass.uid /\ pass'.base = pass.base
    BY <1>3, <1>5, Onwards
  <2>2. \A l \in Kinds : Visited(l)' => Visited(l) \/ l = k
    BY <1>3, <2>1, Visits
  <2>3. /\ Readable(pass.uid) /\ pass.base \in {0, 1} /\ (pass.base = 1 => shop[1].uid = pass.uid)
        /\ Latest(shop).ready => pass.uid = Living
    BY <1>1, <1>2 DEF PassInv
  <2>4. Readable(pass.uid)'
    BY <1>2, <2>1, <2>3 DEF Readable
  <2> QED BY <1>2, <1>4, <2>1, <2>2, <2>3, <2>4
<1>6. CASE \E o \in Child : Claims(k, o)
  <2>1. PICK o \in Child : Claims(k, o)
    BY <1>6
  <2>2. /\ child' = [child EXCEPT ![k] = After(k, o)] /\ o.owner = pass.uid /\ o.exists
    BY <2>1 DEF Claims
  <2>3. Readable(o.owner)
    BY <1>1, <1>2, <2>2 DEF PassInv
  <2>4. \A l \in Kinds : \A i \in 1..Len(child[l]) : child[l][i].owner <= pass.uid
    BY <1>1, <1>2 DEF PassInv
  <2>5. OwnerInv'
    BY <1>1, <1>2, <2>2, <2>3, <2>4, OwnersFollow
  <2>6. /\ \A l \in Kinds \ {k} : child'[l] = child[l]
        /\ Latest(child'[k]) = o
        /\ \A i \in 1..Len(child'[k]) :
             \/ i = Len(child'[k]) /\ child'[k][i] = o
             \/ i \in 1..Len(child[k]) /\ child'[k][i] = child[k][i]
    <3>1. child' = [child EXCEPT ![k] = After(k, o)]
      BY <2>2
    <3>2. TypeOK
      BY <1>1
    <3> QED BY <3>1, <3>2, ChildWritten
  <2>7. PICK r \in BOOLEAN : Onward(r)
    BY <2>1 DEF Claims
  <2>8. /\ pass'.uid = pass.uid
        /\ Readable(pass.uid)'
        /\ pass'.base \in {0, 1} /\ (pass'.base = 1 => shop'[1].uid = pass'.uid)
        /\ Latest(shop').ready => pass'.uid = Living'
        /\ \A l \in Kinds : Visited(l)' => Visited(l) \/ l = k
    BY <1>5, <2>7
  <2>9. ASSUME NEW l \in Kinds, NEW i \in 1..Len(child'[l]) PROVE child'[l][i].owner <= pass'.uid
    <3>1. CASE l = k
      BY <1>3, <2>2, <2>4, <2>6, <2>8, <3>1
    <3>2. CASE l # k
      BY <2>4, <2>6, <2>8, <3>2
    <3> QED BY <3>1, <3>2
  <2>10. OwnedBy(k, pass.uid)' /\ \A l \in Kinds \ {k} : \A u : OwnedBy(l, u) => OwnedBy(l, u)'
    BY <2>2, <2>6, <2>8 DEF OwnedBy, Now
  <2>11. ASSUME NEW l \in Converged, Visited(l)' PROVE OwnedBy(l, pass.uid)'
    BY <1>1, <1>2, <2>8, <2>10, <2>11 DEF PassInv
  <2>12. PassInv'
    BY <2>8, <2>9, <2>11 DEF PassInv, OwnedBy
  <2>13. ReadyInv'
    <3>1. ASSUME Latest(shop').ready, NEW l \in Converged, Before(l) PROVE OwnedBy(l, Living)'
      <4>1. CASE l = k
        <5>1. pass.uid = Living'
          BY <1>1, <1>2, <1>4, <3>1 DEF PassInv
        <5> QED BY <2>8, <2>10, <4>1, <5>1 DEF OwnedBy
      <4>2. CASE l # k
        <5>1. OwnedBy(l, Living)
          BY <1>1, <1>4, <3>1 DEF ReadyInv
        <5> QED BY <1>4, <2>6, <4>2, <5>1 DEF OwnedBy, Now
      <4> QED BY <4>1, <4>2
    <3> QED BY <3>1 DEF ReadyInv, Before
  <2> QED BY <1>4, <2>5, <2>12, <2>13
<1>7. CASE Gives(k)
  BY <1>2, <1>7, InvIdle DEF Gives, Requeue
<1>8. CASE Leaves(k)
  <2>1. UNCHANGED child /\ (k \in Converged => Read(k).exists /\ Read(k).owner = pass.uid)
    BY <1>8 DEF Leaves, Converged
  <2>2. PICK r \in BOOLEAN : Onward(r)
    BY <1>8 DEF Leaves
  <2>3. /\ pass'.uid = pass.uid
        /\ Readable(pass.uid)'
        /\ pass'.base \in {0, 1} /\ (pass'.base = 1 => shop'[1].uid = pass'.uid)
        /\ Latest(shop').ready => pass'.uid = Living'
        /\ \A l \in Kinds : Visited(l)' => Visited(l) \/ l = k
    BY <1>5, <2>2
  <2>4. k \in Converged => OwnedBy(k, pass.uid)
    <3>1. SUFFICES ASSUME k \in Converged, Now(k).exists PROVE Now(k).owner = pass.uid
      BY DEF OwnedBy
    <3>2. PICK i \in 1..Len(child[k]) : Read(k) = child[k][i]
      BY <1>1, Reads
    <3>3. Len(child[k]) \in 1..Len(child[k]) /\ i <= Len(child[k]) /\ Now(k) = child[k][Len(child[k])]
          /\ Now(k).owner \in Nat
      BY <1>1, Typed
    <3>4. pass.uid <= Now(k).owner
      BY <1>1, <2>1, <3>1, <3>2, <3>3 DEF OwnerInv
    <3>5. Now(k).owner <= pass.uid
      BY <1>1, <1>2, <3>3 DEF PassInv
    <3> QED BY <1>3, <3>3, <3>4, <3>5
  <2>5. ASSUME NEW l \in Converged, Visited(l)' PROVE OwnedBy(l, pass.uid)
    BY <1>1, <1>2, <2>3, <2>4, <2>5 DEF PassInv
  <2>6. PassInv'
    <3>1. \A l \in Converged : Visited(l)' => OwnedBy(l, pass.uid)'
      BY <2>1, <2>3, <2>5 DEF OwnedBy, Now
    <3>2. \A l \in Kinds : \A i \in 1..Len(child'[l]) : child'[l][i].owner <= pass'.uid
      BY <1>1, <1>2, <2>1, <2>3 DEF PassInv
    <3> QED BY <2>3, <3>1, <3>2 DEF PassInv, OwnedBy
  <2>7. OwnerInv'
    BY <1>1, <1>2, <2>1 DEF OwnerInv, Readable
  <2>8. ReadyInv'
    BY <1>1, <1>4, <2>1 DEF ReadyInv, OwnedBy, Now
  <2> QED BY <1>4, <2>6, <2>7, <2>8
<1> QED BY <1>1, <1>6, <1>7, <1>8, EnsureOutcomes

\* The status: it is accepted only when the copy that was read is the one
\* version there is, so that the pass is of the living incarnation.
LEMMA InvUpdateStatus ==
  ASSUME IInv, UpdateStatus
  PROVE  ShopInv' /\ OwnerInv' /\ PassInv' /\ ReadyInv'
<1>1. TypeOK /\ ShopInv /\ OwnerInv /\ PassInv /\ ReadyInv
  BY DEF IInv
<1>2. UNCHANGED <<child, born>> /\ At("status") /\ pass # NoPass
  BY DEF UpdateStatus, history, At
<1>3. /\ pass \in Pass /\ pass.call \in 1..Len(Calls) /\ Calls[pass.call] = "status"
      /\ pass.call <= Len(Calls) /\ pass.uid \in Nat \ {0}
  BY <1>1, <1>2, Typed DEF At, Pass
<1>4. CASE Requeue /\ UNCHANGED shop
  BY <1>2, <1>4, InvIdle DEF Requeue
<1>5. CASE /\ IsLatest(shop, pass.base)
           /\ shop' = Written(shop, [uid |-> pass.uid, ready |-> pass.ready])
           /\ Onward(TRUE)
  <2> DEFINE o == [uid |-> pass.uid, ready |-> pass.ready]
  <2>1. Len(shop) = 1 /\ shop[1].uid = pass.uid /\ pass.base = 1
    BY <1>1, <1>2, <1>5, Typed DEF IsLatest, PassInv
  <2>2. /\ shop' \in Seq(Shop) /\ Len(shop') \in {1, 2} /\ shop'[1] = shop[1]
        /\ \A i \in 1..Len(shop') : shop'[i].uid = pass.uid
        /\ Latest(shop') = shop'[Len(shop')] /\ Living' = pass.uid
    <3>1. shop \in Seq(Shop)
      BY <1>1, Typed
    <3>2. CASE shop' = shop
      <4>1. Len(shop') = 1 /\ \A i \in 1..1 : i = 1
        BY <2>1, <3>2
      <4>2. Latest(shop') = shop'[1]
        BY <2>1, <3>2 DEF Latest
      <4> QED BY <2>1, <3>1, <3>2, <4>1, <4>2 DEF Living, Latest
    <3>3. CASE shop' = Append(shop, o)
      <4>1. o \in Shop /\ o.uid = pass.uid
        BY <1>3 DEF Shop, Pass
      <4> HIDE DEF o
      <4>2. PICK h \in Seq(Shop) : h = shop
        BY <3>1
      <4>3. /\ Append(h, o) \in Seq(Shop) /\ Len(Append(h, o)) = Len(h) + 1
            /\ Latest(Append(h, o)) = o /\ \A i \in 1..Len(h) : Append(h, o)[i] = h[i]
        BY <4>1, Appended
      <4>4. /\ shop' \in Seq(Shop) /\ Len(shop') = 2 /\ shop'[1] = shop[1]
            /\ Latest(shop') = o
        BY <2>1, <3>3, <4>2, <4>3
      <4>5. shop'[2] = o /\ \A i \in 1..Len(shop') : i \in {1, 2}
        BY <4>4 DEF Latest
      <4> QED BY <2>1, <4>1, <4>4, <4>5 DEF Living
    <3> QED BY <1>5, <3>2, <3>3 DEF Written
  <2>3. /\ pass'.uid = pass.uid /\ pass'.base = pass.base /\ pass'.call = pass.call + 1
    BY <1>3, <1>5, Onwards
  <2>4. ShopInv'
    <3>1. pass.uid <= born
      BY <1>1, <1>2 DEF PassInv, Readable
    <3> QED BY <1>2, <1>3, <2>2, <3>1 DEF ShopInv
  <2>5. ASSUME NEW u, Readable(u) PROVE Readable(u)'
    <3>1. u <= pass.uid
      BY <1>3, <2>1, <2>5 DEF Readable
    <3> QED BY <1>2, <2>2, <2>5, <3>1 DEF Readable
  <2>6. OwnerInv'
    <3>1. ASSUME NEW k \in Kinds, NEW i \in 1..Len(child[k]) PROVE Readable(child[k][i].owner)'
      <4>1. Readable(child[k][i].owner)
        BY <1>1 DEF OwnerInv
      <4>2. PICK u : u = child[k][i].owner
        OBVIOUS
      <4>3. Readable(u)'
        BY <2>5, <4>1, <4>2
      <4> QED BY <1>2, <4>2, <4>3 DEF Readable
    <3> QED BY <1>1, <1>2, <3>1 DEF OwnerInv
  <2>7. ASSUME NEW k \in Converged, Visited(k)' PROVE OwnedBy(k, pass.uid)
    <3>1. k # "status"
      BY DEF Kinds
    <3>2. Visited(k)
      BY <1>3, <2>3, <2>7, <3>1, Visits
    <3> QED BY <1>1, <1>2, <3>2 DEF PassInv
  <2>8. PassInv'
    <3>1. Readable(pass.uid)'
      BY <1>2, <1>3, <2>2, <2>3, <2>4 DEF ShopInv, Readable
    <3>2. \A k \in Kinds : \A i \in 1..Len(child'[k]) : child'[k][i].owner <= pass'.uid
      BY <1>1, <1>2, <2>3 DEF PassInv
    <3>3. \A k \in Converged : Visited(k)' => OwnedBy(k, pass.uid)'
      BY <1>2, <2>3, <2>7 DEF OwnedBy, Now
    <3>4. pass'.base = 1 /\ shop'[1].uid = pass'.uid /\ Living' = pass'.uid
      BY <2>1, <2>2, <2>3
    <3> QED BY <3>1, <3>2, <3>3, <3>4 DEF PassInv
  <2>9. ReadyInv'
    <3>1. ASSUME NEW k \in Converged, Before(k) PROVE OwnedBy(k, Living)'
      <4>1. PICK i \in DOMAIN Calls, j \in DOMAIN Calls :
               i < j /\ Calls[i] = k /\ Calls[j] = "status"
        BY <3>1 DEF Before
      <4>2. pass.call \in DOMAIN Calls
        BY <1>3, ChildrenAssumption
      <4>3. j = pass.call
        BY <1>3, <4>1, <4>2, ChildrenAssumption
      <4>4. OwnedBy(k, pass.uid)
        BY <1>1, <1>2, <4>1, <4>3 DEF PassInv, Visited
      <4> QED BY <1>2, <2>2, <4>4 DEF OwnedBy, Now
    <3> QED BY <3>1 DEF ReadyInv, Before
  <2> QED BY <2>4, <2>6, <2>8, <2>9
<1> QED BY <1>4, <1>5 DEF UpdateStatus

\* The Shop's informer moves on.
LEMMA InvDeliverShop ==
  ASSUME IInv, DeliverShop
  PROVE  ShopInv' /\ OwnerInv' /\ PassInv' /\ ReadyInv'
<1>1. TypeOK /\ ShopInv /\ OwnerInv /\ PassInv /\ ReadyInv
  BY DEF IInv
<1>2. UNCHANGED <<child, born>> /\ Len(shop) > 1 /\ shop' = Tail(shop)
  BY DEF DeliverShop, history
<1>3. shop \in Seq(Shop) /\ Len(shop) \in Nat
  BY <1>1, Typed
<1>4. /\ Len(shop') = Len(shop) - 1 /\ Latest(shop') = Latest(shop) /\ Living' = Living
      /\ \A i \in 1..Len(shop') : i + 1 \in 1..Len(shop) /\ shop'[i] = shop[i + 1]
  <2>1. /\ Tail(shop) \in Seq(Shop) /\ Len(Tail(shop)) = Len(shop) - 1
        /\ Latest(Tail(shop)) = Latest(shop)
        /\ \A i \in 1..Len(shop) - 1 : Tail(shop)[i] = shop[i + 1]
    BY <1>2, <1>3, Delivered
  <2> QED BY <1>2, <1>3, <2>1 DEF Living
<1>5. ShopInv'
  <2>1. \A i \in 1..Len(shop') : shop'[i].uid <= born'
    BY <1>1, <1>2, <1>4 DEF ShopInv
  <2>2. ASSUME NEW i \in 1..Len(shop'), NEW j \in 1..Len(shop'), i <= j
        PROVE  /\ shop'[j].uid # 0 => shop'[i].uid <= shop'[j].uid
               /\ shop'[j].ready => shop'[j].uid # 0 /\ shop'[i].uid = shop'[j].uid
    <3>1. /\ i + 1 \in 1..Len(shop) /\ j + 1 \in 1..Len(shop) /\ i + 1 <= j + 1
          /\ shop'[i] = shop[i + 1] /\ shop'[j] = shop[j + 1]
      BY <1>3, <1>4, <2>2
    <3> QED BY <1>1, <3>1 DEF ShopInv
  <2> QED BY <2>1, <2>2 DEF ShopInv
<1>6. ASSUME NEW u, Readable(u) PROVE Readable(u)'
  BY <1>2, <1>4, <1>6 DEF Readable
<1>7. OwnerInv'
  <2>1. ASSUME NEW k \in Kinds, NEW i \in 1..Len(child[k]) PROVE Readable(child[k][i].owner)'
    <3>1. Readable(child[k][i].owner)
      BY <1>1 DEF OwnerInv
    <3>2. PICK u : u = child[k][i].owner
      OBVIOUS
    <3>3. Readable(u)'
      BY <1>6, <3>1, <3>2
    <3> QED BY <1>2, <3>2, <3>3 DEF Readable
  <2> QED BY <1>1, <1>2, <2>1 DEF OwnerInv
<1>8. ASSUME pass # NoPass PROVE PassInv'
  <2>1. /\ pass \in Pass /\ pass.base \in Nat
        /\ Readable(pass.uid) /\ pass.base \in {0, 1}
        /\ Latest(shop).ready => pass.uid = Living
    BY <1>1, <1>8, Typed DEF PassInv
  <2>2. pass'.uid = pass.uid /\ pass'.call = pass.call /\ pass'.base = 0
    <3>1. CASE pass.base = 0
      BY <2>1, <3>1 DEF DeliverShop
    <3>2. CASE pass.base = 1
      <4>1. pass' = [pass EXCEPT !.base = pass.base - 1]
        BY <1>8, <3>2 DEF DeliverShop
      <4> QED BY <2>1, <3>2, <4>1 DEF Pass
    <3> QED BY <2>1, <3>1, <3>2
  <2>3. Readable(pass.uid)'
    BY <1>2, <1>4, <2>1, <2>2 DEF Readable
  <2>4. \A k \in Kinds : \A i \in 1..Len(child'[k]) : child'[k][i].owner <= pass'.uid
    BY <1>1, <1>2, <1>8, <2>2 DEF PassInv
  <2>5. \A k \in Converged : Visited(k)' => OwnedBy(k, pass.uid)'
    BY <1>1, <1>2, <1>8, <2>2 DEF PassInv, Visited, OwnedBy, Now
  <2> QED BY <1>4, <2>1, <2>2, <2>3, <2>4, <2>5 DEF PassInv
<1>9. pass = NoPass => PassInv'
  BY DEF DeliverShop, PassInv
<1>10. ReadyInv'
  BY <1>1, <1>2, <1>4 DEF ReadyInv, OwnedBy, Now, Before
<1> QED BY <1>5, <1>7, <1>8, <1>9, <1>10

\* An informer of children moves on.
LEMMA InvDeliverChild ==
  ASSUME IInv, NEW k \in Kinds, DeliverChild(k)
  PROVE  ShopInv' /\ OwnerInv' /\ PassInv' /\ ReadyInv'
<1>1. TypeOK /\ ShopInv /\ OwnerInv /\ PassInv /\ ReadyInv
  BY DEF IInv
<1>2. /\ UNCHANGED <<shop, born, pass>> /\ Len(child[k]) > 1
      /\ child' = [child EXCEPT ![k] = Tail(child[k])]
  BY DEF DeliverChild, history
<1>3. ShopInv' /\ Living' = Living /\ Latest(shop') = Latest(shop)
  BY <1>1, <1>2, ShopStays
<1>4. child[k] \in Seq(Child) /\ Len(child[k]) \in Nat
  BY <1>1, Typed
<1>5. /\ child'[k] = Tail(child[k])
      /\ \A l \in Kinds \ {k} : child'[l] = child[l]
  BY <1>1, <1>2 DEF TypeOK
<1>6. /\ Len(child'[k]) = Len(child[k]) - 1 /\ Now(k)' = Now(k)
      /\ \A i \in 1..Len(child'[k]) : i + 1 \in 1..Len(child[k]) /\ child'[k][i] = child[k][i + 1]
  <2>1. PICK h \in Seq(Child) : h = child[k]
    BY <1>4
  <2>2. /\ Len(Tail(h)) = Len(h) - 1 /\ Latest(Tail(h)) = Latest(h)
        /\ \A i \in 1..Len(h) - 1 : Tail(h)[i] = h[i + 1]
    BY <1>2, <2>1, Delivered
  <2> QED BY <1>4, <1>5, <2>1, <2>2 DEF Now
<1>7. OwnerInv'
  <2>1. ASSUME NEW i \in (1..Len(child[k]))' PROVE Readable(child[k][i].owner)'
    <3>1. Readable(child[k][i + 1].owner)
      BY <1>1, <1>6 DEF OwnerInv
    <3> QED BY <1>2, <1>6, <3>1 DEF Readable
  <2>2. ASSUME NEW i \in (1..Len(child[k]))', NEW j \in (1..Len(child[k]))',
               i <= j, child'[k][j].exists
        PROVE  child'[k][i].owner <= child'[k][j].owner
    <3>1. /\ i + 1 \in 1..Len(child[k]) /\ j + 1 \in 1..Len(child[k]) /\ i + 1 <= j + 1
          /\ child'[k][i] = child[k][i + 1] /\ child'[k][j] = child[k][j + 1]
      BY <1>4, <1>6, <2>2
    <3> QED BY <1>1, <2>2, <3>1 DEF OwnerInv
  <2>3. ASSUME NEW l \in Kinds, l # k, NEW i \in 1..Len(child[l])
        PROVE  Readable(child[l][i].owner)'
    <3>1. Readable(child[l][i].owner)
      BY <1>1 DEF OwnerInv
    <3> QED BY <1>2, <1>5, <2>3, <3>1 DEF Readable
  <2>4. ASSUME NEW l \in Kinds, l # k
        PROVE  \A i, j \in 1..Len(child'[l]) :
                 i <= j /\ child'[l][j].exists => child'[l][i].owner <= child'[l][j].owner
    BY <1>1, <1>5, <2>4 DEF OwnerInv
  <2> QED BY <1>5, <2>1, <2>2, <2>3, <2>4 DEF OwnerInv
<1>8. \A l \in Kinds : Now(l)' = Now(l)
  BY <1>5, <1>6 DEF Now
<1>9. ASSUME pass # NoPass PROVE PassInv'
  <2>1. \A l \in Kinds : \A i \in 1..Len(child'[l]) : child'[l][i].owner <= pass.uid
    BY <1>1, <1>5, <1>6, <1>9 DEF PassInv
  <2>2. \A l \in Converged : Visited(l)' => OwnedBy(l, pass.uid)'
    BY <1>1, <1>2, <1>8, <1>9 DEF PassInv, Visited, OwnedBy
  <2>3. Readable(pass.uid)'
    BY <1>1, <1>2, <1>9 DEF PassInv, Readable
  <2> QED BY <1>1, <1>2, <1>3, <1>9, <2>1, <2>2, <2>3 DEF PassInv
<1>10. PassInv'
  BY <1>2, <1>9 DEF PassInv
<1>11. ReadyInv'
  BY <1>1, <1>3, <1>8 DEF ReadyInv, OwnedBy, Before
<1> QED BY <1>3, <1>7, <1>10, <1>11

\* A restart: the caches show what the server has.
LEMMA InvRestart ==
  ASSUME IInv, Restart
  PROVE  ShopInv' /\ OwnerInv' /\ PassInv' /\ ReadyInv'
<1>1. TypeOK /\ ShopInv /\ OwnerInv /\ PassInv /\ ReadyInv
  BY DEF IInv
<1>2. /\ UNCHANGED born /\ pass' = NoPass
      /\ shop' = <<Latest(shop)>> /\ child' = [k \in Kinds |-> <<Now(k)>>]
  BY DEF Restart, history
<1>3. /\ Len(shop') = 1 /\ shop'[1] = shop[Len(shop)] /\ Latest(shop') = Latest(shop)
      /\ Latest(shop) = shop[Len(shop)] /\ Living' = Living /\ Len(shop) \in 1..Len(shop)
  BY <1>1, <1>2, Typed DEF Latest, Living
<1>4. \A k \in Kinds : /\ child'[k] = <<Now(k)>> /\ Len(child'[k]) = 1
                       /\ child'[k][1] = Now(k) /\ Now(k)' = Now(k)
  BY <1>2 DEF Now, Latest
<1>5. \A i \in 1..1 : i = 1
  OBVIOUS
<1>6. ShopInv'
  BY <1>1, <1>2, <1>3, <1>5, Typed DEF ShopInv
<1>7. ASSUME NEW u, Readable(u) PROVE Readable(u)'
  BY <1>2, <1>3, <1>5, <1>7 DEF Readable
<1>8. OwnerInv'
  <2>1. ASSUME NEW k \in Kinds
        PROVE  /\ Readable(Now(k).owner)'
               /\ Now(k).owner <= Now(k).owner
    <3>1. Now(k) = child[k][Len(child[k])] /\ Len(child[k]) \in 1..Len(child[k])
          /\ Now(k).owner \in Nat
      BY <1>1, Typed
    <3>2. Readable(Now(k).owner)
      BY <1>1, <3>1 DEF OwnerInv
    <3>3. PICK u : u = Now(k).owner
      OBVIOUS
    <3>4. Readable(u)'
      BY <1>7, <3>2, <3>3
    <3> QED BY <1>4, <3>1, <3>3, <3>4 DEF Readable
  <2> QED BY <1>4, <1>5, <2>1 DEF OwnerInv, Readable
<1>9. PassInv'
  BY <1>2 DEF PassInv
<1>10. ReadyInv'
  BY <1>1, <1>3, <1>4 DEF ReadyInv, OwnedBy, Before
<1> QED BY <1>6, <1>8, <1>9, <1>10

\* The Shop is created or deleted.
LEMMA InvOwnerOfShop ==
  ASSUME IInv, CreateShop \/ DeleteShop
  PROVE  ShopInv' /\ OwnerInv' /\ PassInv' /\ ReadyInv'
<1>1. TypeOK /\ ShopInv /\ OwnerInv /\ PassInv /\ ReadyInv
  BY DEF IInv
<1>2. UNCHANGED <<child, pass>>
  BY DEF CreateShop, DeleteShop
<1>3. /\ born \in Nat /\ shop \in Seq(Shop) /\ Len(shop) \in Nat \ {0}
      /\ \A i \in 1..Len(shop) : shop[i].uid \in Nat
  BY <1>1, Typed
<1>4. PICK o \in Shop : /\ shop' = Append(shop, o) /\ ~o.ready
                        /\ \/ o.uid = 0 /\ born' = born
                           \/ o.uid = born + 1 /\ born' = born + 1
  <2>1. CASE CreateShop
    <3>1. born' = born + 1 /\ born' \in 1..MaxIncarnations
      BY <1>1, <2>1, ChildrenAssumption DEF CreateShop, TypeOK
    <3>2. NewShop(born') \in Shop /\ NewShop(born').uid = born' /\ ~NewShop(born').ready
      BY <3>1, ChildrenAssumption DEF NewShop, Shop
    <3> QED BY <2>1, <3>1, <3>2 DEF CreateShop
  <2>2. CASE DeleteShop
    <3>1. NoShop \in Shop /\ NoShop.uid = 0 /\ ~NoShop.ready
      BY ChildrenAssumption DEF NoShop, Shop
    <3> QED BY <2>2, <3>1 DEF DeleteShop, history
  <2> QED BY <2>1, <2>2
<1>5. /\ Len(shop') = Len(shop) + 1 /\ shop'[Len(shop) + 1] = o /\ Latest(shop') = o
      /\ \A i \in 1..Len(shop) : shop'[i] = shop[i]
      /\ \A i \in 1..Len(shop') : i \in 1..Len(shop) \/ i = Len(shop) + 1
  <2>1. PICK h \in Seq(Shop) : h = shop
    BY <1>3
  <2>2. /\ Len(Append(h, o)) = Len(h) + 1 /\ Latest(Append(h, o)) = o
        /\ \A i \in 1..Len(h) : Append(h, o)[i] = h[i]
    BY Appended
  <2> QED BY <1>3, <1>4, <2>1, <2>2 DEF Latest
<1>6. born' \in Nat /\ born <= born' /\ o.uid \in Nat /\ (o.uid # 0 => o.uid = born' /\ born < o.uid)
      /\ o.uid <= born'
  BY <1>3, <1>4
<1>7. ShopInv'
  <2>1. \A i \in 1..Len(shop') : shop'[i].uid <= born'
    BY <1>1, <1>3, <1>5, <1>6 DEF ShopInv
  <2>2. ASSUME NEW i \in 1..Len(shop'), NEW j \in 1..Len(shop'), i <= j
        PROVE  /\ shop'[j].uid # 0 => shop'[i].uid <= shop'[j].uid
               /\ shop'[j].ready => shop'[j].uid # 0 /\ shop'[i].uid = shop'[j].uid
    <3>1. CASE j \in 1..Len(shop)
      <4>1. i \in 1..Len(shop) /\ shop'[i] = shop[i] /\ shop'[j] = shop[j]
        BY <1>3, <1>5, <2>2, <3>1
      <4> QED BY <1>1, <2>2, <3>1, <4>1 DEF ShopInv
    <3>2. CASE j = Len(shop) + 1
      BY <1>4, <1>5, <1>6, <2>1, <3>2
    <3> QED BY <1>5, <3>1, <3>2
  <2> QED BY <2>1, <2>2 DEF ShopInv
<1>8. ASSUME NEW u \in Nat, Readable(u) PROVE Readable(u)'
  <2>1. u <= born' /\ (o.uid # 0 => u <= o.uid)
    BY <1>3, <1>6, <1>8 DEF Readable
  <2> QED BY <1>5, <1>8, <2>1 DEF Readable
<1>9. OwnerInv'
  <2>1. ASSUME NEW k \in Kinds, NEW i \in 1..Len(child[k]) PROVE Readable(child[k][i].owner)'
    <3>1. Readable(child[k][i].owner)
      BY <1>1 DEF OwnerInv
    <3>2. PICK u \in Nat : u = child[k][i].owner
      BY <1>1, Typed
    <3>3. Readable(u)'
      BY <1>8, <3>1, <3>2
    <3> QED BY <1>2, <3>2, <3>3 DEF Readable
  <2> QED BY <1>1, <1>2, <2>1 DEF OwnerInv
<1>10. ASSUME pass # NoPass PROVE PassInv'
  <2>1. Readable(pass.uid) /\ pass.uid \in Nat
    BY <1>1, <1>10, Typed DEF PassInv
  <2>2. PICK u \in Nat : u = pass.uid
    BY <2>1
  <2>3. Readable(u)'
    BY <1>8, <2>1, <2>2
  <2>4. Readable(pass.uid)'
    BY <1>2, <2>2, <2>3 DEF Readable
  <2>5. shop'[1] = shop[1]
    BY <1>3, <1>5
  <2>6. \A k \in Converged : Visited(k)' => OwnedBy(k, pass.uid)'
    BY <1>1, <1>2, <1>10 DEF PassInv, Visited, OwnedBy, Now
  <2> QED BY <1>1, <1>2, <1>4, <1>5, <1>10, <2>4, <2>5, <2>6 DEF PassInv
<1>11. pass = NoPass => PassInv'
  BY <1>2 DEF PassInv
<1>12. ReadyInv'
  BY <1>4, <1>5 DEF ReadyInv
<1> QED BY <1>7, <1>9, <1>10, <1>11, <1>12

\* A child is collected, taken, or comes up: its owner stays while it exists.
LEMMA InvEnvironment ==
  ASSUME IInv, NEW k \in Kinds, Environment(k)
  PROVE  ShopInv' /\ OwnerInv' /\ PassInv' /\ ReadyInv'
<1>1. TypeOK /\ ShopInv /\ OwnerInv /\ PassInv /\ ReadyInv
  BY DEF IInv
<1>2. PICK o \in Child :
         /\ child' = [child EXCEPT ![k] = After(k, o)]
         /\ UNCHANGED <<shop, queued, pass, born>>
         /\ o.exists => Now(k).exists
         /\ o.owner \in {0, Now(k).owner} /\ (o.exists => o.owner = Now(k).owner)
  BY <1>1, Environments
<1>3. ShopInv' /\ Living' = Living /\ Latest(shop') = Latest(shop)
  BY <1>1, <1>2, ShopStays
<1>4. /\ Now(k) = child[k][Len(child[k])] /\ Len(child[k]) \in 1..Len(child[k])
      /\ \A i \in 1..Len(child[k]) : i <= Len(child[k])
  BY <1>1, Typed
<1>5. Readable(o.owner)
  <2>1. Readable(Now(k).owner)
    BY <1>1, <1>4 DEF OwnerInv
  <2>2. Readable(0)
    BY <1>1, Typed DEF Readable
  <2> QED BY <1>2, <2>1, <2>2
<1>6. o.exists => \A i \in 1..Len(child[k]) : child[k][i].owner <= o.owner
  BY <1>1, <1>2, <1>4 DEF OwnerInv
<1>7. OwnerInv'
  <2>1. child' = [child EXCEPT ![k] = After(k, o)] /\ UNCHANGED <<shop, born>>
    BY <1>2
  <2> QED BY <1>1, <1>5, <1>6, <2>1, OwnersFollow
<1>8. /\ \A l \in Kinds \ {k} : child'[l] = child[l]
      /\ Latest(child'[k]) = o
      /\ \A i \in 1..Len(child'[k]) :
           \/ i = Len(child'[k]) /\ child'[k][i] = o
           \/ i \in 1..Len(child[k]) /\ child'[k][i] = child[k][i]
  <2>1. child' = [child EXCEPT ![k] = After(k, o)]
    BY <1>2
  <2> QED BY <1>1, <2>1, ChildWritten
<1>9. ASSUME NEW u, NEW l \in Kinds, OwnedBy(l, u)
      PROVE  Now(l)'.exists => Now(l)'.owner = u
  <2>1. CASE l = k
    BY <1>2, <1>8, <1>9, <2>1 DEF OwnedBy, Now
  <2>2. CASE l # k
    BY <1>8, <1>9, <2>2 DEF OwnedBy, Now
  <2> QED BY <2>1, <2>2
<1>10. ASSUME pass # NoPass PROVE PassInv'
  <2>1. pass.uid \in Nat /\ \A l \in Kinds : \A i \in 1..Len(child[l]) : child[l][i].owner <= pass.uid
    BY <1>1, <1>10, Typed DEF PassInv
  <2>2. o.owner <= pass.uid
    BY <1>2, <1>4, <2>1
  <2>3. \A l \in Kinds : \A i \in 1..Len(child'[l]) : child'[l][i].owner <= pass.uid
    BY <1>8, <2>1, <2>2
  <2>4. \A l \in Converged : Visited(l)' => OwnedBy(l, pass.uid)'
    BY <1>1, <1>2, <1>9, <1>10 DEF PassInv, Visited, OwnedBy
  <2>5. Readable(pass.uid)'
    BY <1>1, <1>2, <1>10 DEF PassInv, Readable
  <2> QED BY <1>1, <1>2, <1>3, <1>10, <2>3, <2>4, <2>5 DEF PassInv
<1>11. pass = NoPass => PassInv'
  BY <1>2 DEF PassInv
<1>12. ReadyInv'
  BY <1>1, <1>3, <1>9 DEF ReadyInv, OwnedBy, Before
<1> QED BY <1>3, <1>7, <1>10, <1>11, <1>12

LEMMA InvNext == IInv /\ [Next]_vars => IInv'
<1> SUFFICES ASSUME IInv, [Next]_vars PROVE IInv'
  OBVIOUS
<1>1. TypeOK'
  BY TypeNext DEF IInv
<1> SUFFICES ShopInv' /\ OwnerInv' /\ PassInv' /\ ReadyInv'
  BY <1>1 DEF IInv
<1>2. CASE Start
  BY <1>2, InvStart
<1>3. ASSUME NEW k \in Kinds, Ensure(k) PROVE ShopInv' /\ OwnerInv' /\ PassInv' /\ ReadyInv'
  BY <1>3, InvEnsure
<1>4. CASE UpdateStatus
  BY <1>4, InvUpdateStatus
<1>5. CASE Finish \/ Fail
  BY <1>5, InvIdle DEF Finish, Fail, Requeue, history
<1>6. CASE Restart
  BY <1>6, InvRestart
<1>7. CASE DeliverShop
  BY <1>7, InvDeliverShop
<1>8. ASSUME NEW k \in Kinds, DeliverChild(k) PROVE ShopInv' /\ OwnerInv' /\ PassInv' /\ ReadyInv'
  BY <1>8, InvDeliverChild
<1>9. CASE CreateShop \/ DeleteShop
  BY <1>9, InvOwnerOfShop
<1>10. ASSUME NEW k \in Kinds, Environment(k)
       PROVE  ShopInv' /\ OwnerInv' /\ PassInv' /\ ReadyInv'
  BY <1>10, InvEnvironment
<1>11. CASE UNCHANGED vars
  BY <1>11 DEF vars, IInv, ShopInv, OwnerInv, PassInv, ReadyInv, Readable, Visited, OwnedBy,
               Now, Living, Latest, Before
<1> QED BY <1>2, <1>3, <1>4, <1>5, <1>6, <1>7, <1>8, <1>9, <1>10, <1>11
        DEF Next, Reconcile, DeliverChildren, Progress, Environment

\* The inductive invariant holds throughout.
THEOREM Invariance == Spec => []IInv
  BY InvInit, InvNext, PTL DEF Spec

(***************************************************************************)
(* What a step may do to a child.                                          *)
(***************************************************************************)

\* A child that exists, and is not dying, stays or comes up, unless it belongs to a Shop that is
\* gone, or the pass is of another incarnation and claims it, or somebody else
\* removes it (a disturbance).
StaysOrUp(k) == Latest(child'[k]) \in {Now(k), [Now(k) EXCEPT !.up = TRUE]}

Orphaned(k) == Now(k).owner \notin {0, Living}

TakenOver(k) ==
  /\ pass # NoPass /\ Now(k).owner # pass.uid
  /\ Latest(child'[k]).exists /\ ~Latest(child'[k]).dying

LEMMA Fate ==
  ASSUME IInv, [Next]_vars, budget' = budget, NEW k \in Kinds,
         Now(k).exists, ~Now(k).dying
  PROVE  StaysOrUp(k) \/ Orphaned(k) \/ TakenOver(k)
<1>1. TypeOK
  BY DEF IInv
<1>2. /\ child[k] \in Seq(Child) /\ Len(child[k]) \in Nat \ {0} /\ budget \in Nat
  BY <1>1, Typed, ChildrenAssumption DEF TypeOK
<1>3. child' = child => StaysOrUp(k)
  BY DEF StaysOrUp, Now
<1>4. ASSUME NEW l \in Kinds, NEW o \in Child, child' = [child EXCEPT ![l] = After(l, o)]
      PROVE  (l # k => StaysOrUp(k)) /\ (l = k => Latest(child'[k]) = o)
  <2>1. Latest(child'[l]) = o /\ \A i \in Kinds \ {l} : child'[i] = child[i]
    BY <1>1, <1>4, ChildWritten
  <2> QED BY <2>1 DEF StaysOrUp, Now
<1>5. ~Disturb
  BY <1>2 DEF Disturb
<1>6. ASSUME NEW l \in Kinds, Ensure(l) PROVE StaysOrUp(k) \/ TakenOver(k)
  <2>1. pass # NoPass
    BY <1>6 DEF Ensure, At
  <2>2. CASE \E o \in Child : Claims(l, o)
    <3>1. PICK o \in Child : Claims(l, o)
      BY <2>2
    <3>2. /\ child' = [child EXCEPT ![l] = After(l, o)] /\ o.exists
          /\ Now(l).exists => Now(l).owner # pass.uid /\ o.dying = Now(l).dying
      BY <3>1 DEF Claims
    <3>3. (l # k => StaysOrUp(k)) /\ (l = k => Latest(child'[k]) = o)
      BY <1>4, <3>2
    <3> QED BY <2>1, <3>2, <3>3 DEF TakenOver
  <2>3. CASE Gives(l) \/ Leaves(l)
    BY <1>3, <2>3 DEF Gives, Leaves
  <2> QED BY <1>1, <1>6, <2>2, <2>3, EnsureOutcomes
<1>7. ASSUME NEW l \in Kinds, DeliverChild(l) PROVE StaysOrUp(k)
  <2>1. Len(child[l]) > 1 /\ child' = [child EXCEPT ![l] = Tail(child[l])]
    BY <1>7 DEF DeliverChild
  <2>2. CASE l = k
    <3>1. child'[k] = Tail(child[k])
      BY <1>1, <2>1, <2>2 DEF TypeOK
    <3>2. PICK h \in Seq(Child) : h = child[k]
      BY <1>2
    <3>3. Latest(Tail(h)) = Latest(h)
      BY <2>1, <2>2, <3>2, Delivered
    <3> QED BY <3>1, <3>2, <3>3 DEF StaysOrUp, Now
  <2>3. CASE l # k
    BY <1>1, <2>1, <2>3 DEF StaysOrUp, Now, TypeOK
  <2> QED BY <2>2, <2>3
<1>8. NoChild \in Child /\ Now(k) \in Child
  BY <1>1, Reads, ChildrenAssumption DEF NoChild, Child
<1>9. ASSUME NEW l \in Kinds, NEW o \in Child, Becomes(l, o) PROVE l = k \/ StaysOrUp(k)
  BY <1>4, <1>9 DEF Becomes
<1>13. ASSUME NEW l \in Kinds, Collect(l) PROVE StaysOrUp(k) \/ Orphaned(k)
  <2>1. Now(l) \in Child /\ NoChild \in Child
    BY <1>1, <1>8, Reads
  <2>2. PICK o \in Child : o = [Now(l) EXCEPT !.dying = TRUE]
    BY <2>1 DEF Child
  <2>3. l = k \/ StaysOrUp(k)
    BY <1>9, <1>13, <2>1, <2>2 DEF Collect, Deleted
  <2> QED BY <1>13, <2>3 DEF Collect, Orphaned
<1>14. ASSUME NEW l \in Kinds, Release(l) PROVE StaysOrUp(k)
  BY <1>8, <1>9, <1>14 DEF Release
<1>10. ASSUME NEW l \in Kinds, ComesUp(l) PROVE StaysOrUp(k)
  <2>1. PICK o \in Child : o = [Now(l) EXCEPT !.up = TRUE]
    <3>1. Now(l) \in Child
      BY <1>1, Reads
    <3> QED BY <3>1 DEF Child
  <2>2. child' = [child EXCEPT ![l] = After(l, o)]
    BY <1>10, <2>1 DEF ComesUp, Becomes
  <2> QED BY <1>4, <2>1, <2>2 DEF StaysOrUp
<1>11. ~Fail /\ ~Restart /\ \A l \in Kinds : ~Take(l)
  BY <1>5 DEF Fail, Restart, Take
<1>12. Start \/ UpdateStatus \/ Finish \/ DeliverShop \/ CreateShop \/ DeleteShop \/ UNCHANGED vars
         => child' = child
  BY DEF Start, UpdateStatus, Finish, DeliverShop, CreateShop, DeleteShop, vars
<1> QED BY <1>3, <1>6, <1>7, <1>9, <1>10, <1>11, <1>12, <1>13, <1>14
        DEF Next, Reconcile, DeliverChildren, Progress

\* What the living Shop owns stays its own and the same object
\* (shop_controller.go:600-602, 696): no pass is of a later incarnation, and
\* none of an earlier one is left once a child is of the living one.
THEOREM NothingReplaced == Spec => NothingIsReplaced
<1> DEFINE P == Living # 0 /\ Latest(shop').uid = Living /\ budget' = budget
                  => \A k \in Kinds : Now(k).exists /\ Now(k).owner = Living /\ ~Now(k).dying
                       => Latest(child'[k]) \in {Now(k), [Now(k) EXCEPT !.up = TRUE]}
<1>1. ASSUME IInv, [Next]_vars PROVE P
  <2> SUFFICES ASSUME Living # 0, budget' = budget, NEW k \in Kinds,
                      Now(k).exists, Now(k).owner = Living, ~Now(k).dying
               PROVE  StaysOrUp(k)
    BY DEF StaysOrUp
  <2>1. ~Orphaned(k)
    BY DEF Orphaned
  <2>2. ~TakenOver(k)
    <3>1. SUFFICES ASSUME pass # NoPass PROVE Now(k).owner = pass.uid
      BY DEF TakenOver
    <3>2. /\ pass.uid \in Nat /\ Now(k).owner \in Nat
          /\ Now(k) = child[k][Len(child[k])] /\ Len(child[k]) \in 1..Len(child[k])
          /\ Living = shop[Len(shop)].uid /\ Len(shop) \in 1..Len(shop)
      BY <1>1, <3>1, Typed DEF IInv
    <3>3. Now(k).owner <= pass.uid
      BY <1>1, <3>1, <3>2 DEF IInv, PassInv
    <3>4. pass.uid <= Living
      BY <1>1, <3>1, <3>2 DEF IInv, PassInv, Readable
    <3> QED BY <3>2, <3>3, <3>4
  <2> QED BY <1>1, <2>1, <2>2, Fate
<1>2. IInv /\ [Next]_vars => [P]_vars
  BY <1>1
<1> QED BY <1>2, Invariance, PTL DEF Spec, NothingIsReplaced

\* A Shop that is reported ready loses no converged child to the garbage
\* collector (shop_controller.go:745-767, 1109): it owns what its pass visited.
THEOREM ReadyKeeps == Spec => ReadyKeepsItsParts
<1> DEFINE P == Latest(shop).ready /\ budget' = budget
                  => \A k \in Converged :
                       Before(k) /\ Now(k).exists /\ ~Now(k).dying
                         => Latest(child'[k]).exists /\ ~Latest(child'[k]).dying
<1>1. ASSUME IInv, [Next]_vars PROVE P
  <2> SUFFICES ASSUME Latest(shop).ready, budget' = budget, NEW k \in Converged,
                      Before(k), Now(k).exists, ~Now(k).dying
               PROVE  Latest(child'[k]).exists /\ ~Latest(child'[k]).dying
    OBVIOUS
  <2>1. Now(k).owner = Living
    BY <1>1 DEF IInv, ReadyInv, OwnedBy
  <2>2. ~Orphaned(k)
    BY <2>1 DEF Orphaned
  <2>3. StaysOrUp(k) => Latest(child'[k]).exists /\ ~Latest(child'[k]).dying
    <3>1. Now(k) \in Child
      BY <1>1, Reads DEF IInv
    <3> QED BY <3>1 DEF StaysOrUp, Child
  <2>4. k \in Kinds
    BY DEF Converged
  <2> QED BY <1>1, <2>2, <2>3, <2>4, Fate DEF TakenOver
<1>2. IInv /\ [Next]_vars => [P]_vars
  BY <1>1
<1> QED BY <1>2, Invariance, PTL DEF Spec, ReadyKeepsItsParts

(***************************************************************************)
(* The controller rests only when the Shop has its parts.                  *)
(***************************************************************************)

\* No event of the Shop or of a watched kind is on its way.
Caught == UpToDate(shop) /\ \A k \in Kinds \cap Watched : UpToDate(child[k])

\* The living Shop owns a child of kind k.
Has(k) == Now(k).exists /\ Now(k).owner = Living

\* The pass has been at the call that writes the status.
StatusDone == \E i \in DOMAIN Calls : i < pass.call /\ Calls[i] = "status"

\* A pass that neither a key nor an event follows is one of the living Shop;
\* what it has visited of the watched kinds is there, and what it has found
\* ready was reported.
LastPassInv ==
  ~queued /\ Caught /\ pass # NoPass =>
    /\ pass.uid = Living
    /\ \A k \in Kinds \cap Watched : Visited(k) => Has(k)
    /\ pass.ready /\ StatusDone => Latest(shop).ready

Settled == IInv /\ LastPassInv /\ RestsWithItsParts

\* Whatever queues the key, or leaves an event behind, settles nothing.
LEMMA Unsettled ==
  ASSUME queued' \/ ~Caught'
  PROVE  LastPassInv' /\ RestsWithItsParts'
  BY DEF LastPassInv, RestsWithItsParts, Quiet, Caught

\* What is not watched is not spoken of.
LEMMA Unwatched ==
  ASSUME LastPassInv, RestsWithItsParts, UNCHANGED <<shop, queued, pass>>,
         \A k \in Kinds \cap Watched : child'[k] = child[k]
  PROVE  LastPassInv' /\ RestsWithItsParts'
<1>1. /\ Caught' = Caught /\ Living' = Living /\ Latest(shop') = Latest(shop)
      /\ \A k \in Kinds \cap Watched : Has(k)' = Has(k) /\ Visited(k)' = Visited(k)
      /\ StatusDone' = StatusDone /\ Quiet' = Quiet
  <2>1. Living' = Living /\ Latest(shop') = Latest(shop)
    BY DEF Living
  <2>2. Caught' = Caught /\ Quiet' = Quiet
    BY DEF Caught, Quiet, UpToDate, IsLatest
  <2>3. \A k \in Kinds \cap Watched : Has(k)' = Has(k) /\ Visited(k)' = Visited(k)
    BY <2>1 DEF Has, Now, Visited
  <2>4. StatusDone' = StatusDone
    BY DEF StatusDone
  <2> QED BY <2>1, <2>2, <2>3, <2>4
<1>2. LastPassInv'
  BY <1>1 DEF LastPassInv
<1>3. RestsWithItsParts'
  BY <1>1 DEF RestsWithItsParts, Has
<1> QED BY <1>2, <1>3

\* A watched kind is read from a cache, so that a write of it is an event.
LEMMA WatchedWritten ==
  ASSUME TypeOK, NEW k \in Kinds \cap Watched, NEW o \in Child,
         child' = [child EXCEPT ![k] = After(k, o)]
  PROVE  ~Caught'
<1>1. k \in Cached
  BY DEF Cached, Watched, Live, Monitored
<1>2. child \in [Kinds -> Seq(Child)] /\ child[k] \in Seq(Child) /\ Len(child[k]) \in Nat \ {0}
  BY Typed DEF TypeOK
<1>3. child'[k] = Append(child[k], o)
  BY <1>1, <1>2 DEF After
<1>4. PICK h \in Seq(Child) : child[k] = h /\ Len(h) \in Nat \ {0}
  BY <1>2
<1>5. Caught' => 1 = Len(child'[k])
  BY Zenon DEF Caught, UpToDate, IsLatest
<1>6. Len(child'[k]) # 1
  <2>1. Len(Append(h, o)) = Len(h) + 1 /\ Len(h) + 1 # 1
    BY <1>4
  <2> QED BY <1>3, <1>4, <2>1, Zenon
<1> QED BY <1>5, <1>6, Zenon

\* So is a write of the Shop.
LEMMA ShopWritten ==
  ASSUME TypeOK, NEW o, shop' = Append(shop, o)
  PROVE  ~Caught'
<1>1. shop \in Seq(Shop) /\ Len(shop) \in Nat \ {0}
  BY Typed
<1>2. Len(shop') = Len(shop) + 1
  BY <1>1
<1> QED BY <1>1, <1>2 DEF Caught, UpToDate, IsLatest

\* A child that changes, by whatever hand, is an event or is not spoken of.
LEMMA OthersSettled ==
  ASSUME Settled, NEW k \in Kinds, NEW o \in Child,
         child' = [child EXCEPT ![k] = After(k, o)], UNCHANGED <<shop, queued, pass>>
  PROVE  LastPassInv' /\ RestsWithItsParts'
<1>0. TypeOK /\ LastPassInv /\ RestsWithItsParts
  BY DEF Settled, IInv
<1>1. CASE k \in Watched
  BY <1>0, <1>1, WatchedWritten, Unsettled
<1>2. CASE k \notin Watched
  <2>1. \A l \in Kinds \ {k} : child'[l] = child[l]
    BY <1>0, ChildWritten
  <2>2. \A l \in Kinds \cap Watched : child'[l] = child[l]
    BY <1>2, <2>1
  <2> QED BY <1>0, <2>2, Unwatched
<1> QED BY <1>1, <1>2

\* The pass goes on: what it visits now is there if it is watched, and if it
\* wrote the status, that is ready when the pass is.
LEMMA GoesOn ==
  ASSUME LastPassInv, pass \in Pass, pass # NoPass, pass.call \in 1..Len(Calls),
         NEW r \in BOOLEAN, Onward(r), UNCHANGED <<shop, queued>>,
         \A k \in Kinds \cap Watched : child'[k] = child[k],
         Calls[pass.call] \in Kinds \cap Watched /\ ~queued /\ Caught
           => Has(Calls[pass.call]),
         Calls[pass.call] = "status" /\ pass.ready /\ ~queued /\ Caught => Latest(shop).ready
  PROVE  LastPassInv' /\ RestsWithItsParts'
<1>1. Len(Calls) \in Nat /\ pass.call <= Len(Calls)
  BY ChildrenAssumption
<1>2. /\ pass' \in Pass /\ pass' # NoPass
      /\ pass'.call = pass.call + 1 /\ pass'.uid = pass.uid
  BY <1>1, Onwards
<1>3. pass'.ready => pass.ready
  <2>1. PICK q \in Pass : q = pass
    OBVIOUS
  <2>2. pass' = [q EXCEPT !.call = q.call + 1, !.ready = q.ready /\ r]
    BY <2>1 DEF Onward
  <2>3. pass'.ready = (q.ready /\ r)
    BY <2>2 DEF Pass
  <2> QED BY <2>1, <2>3
<1>4. /\ Caught' = Caught /\ Living' = Living /\ Latest(shop') = Latest(shop)
      /\ \A k \in Kinds \cap Watched : Has(k)' = Has(k)
  <2>1. Living' = Living /\ Latest(shop') = Latest(shop)
    BY DEF Living
  <2> QED BY <2>1 DEF Caught, UpToDate, IsLatest, Has, Now
<1>5. \A k \in Kinds \cap Watched : Visited(k)' => Visited(k) \/ k = Calls[pass.call]
  BY <1>2, Visits
<1>6. StatusDone' => StatusDone \/ Calls[pass.call] = "status"
  <2>1. ASSUME NEW i \in DOMAIN Calls, i < pass'.call, Calls[i] = "status"
        PROVE  i < pass.call \/ i = pass.call
    <3>1. i \in Nat /\ pass.call \in Nat
      BY ChildrenAssumption, <1>1
    <3> QED BY <1>2, <2>1, <3>1
  <2> QED BY <2>1 DEF StatusDone
<1>7. RestsWithItsParts'
  BY <1>2 DEF RestsWithItsParts, Quiet
<1>8. LastPassInv'
  <2>1. SUFFICES ASSUME ~queued', Caught', pass' # NoPass
        PROVE  /\ pass'.uid = Living'
               /\ \A k \in Kinds \cap Watched : Visited(k)' => Has(k)'
               /\ pass'.ready /\ StatusDone' => Latest(shop').ready
    BY DEF LastPassInv
  <2>2. ~queued /\ Caught
    BY <1>4, <2>1
  <2>3. /\ pass.uid = Living
        /\ \A k \in Kinds \cap Watched : Visited(k) => Has(k)
        /\ pass.ready /\ StatusDone => Latest(shop).ready
    BY <2>2 DEF LastPassInv
  <2>4. \A k \in Kinds \cap Watched : Visited(k)' => Has(k)'
    BY <1>4, <1>5, <2>2, <2>3
  <2>5. pass'.ready /\ StatusDone' => Latest(shop').ready
    BY <1>3, <1>4, <1>6, <2>2, <2>3
  <2> QED BY <1>2, <1>4, <2>3, <2>4, <2>5
<1> QED BY <1>7, <1>8

\* A call for a kind.
LEMMA EnsureSettled ==
  ASSUME Settled, NEW k \in Kinds, Ensure(k)
  PROVE  LastPassInv' /\ RestsWithItsParts'
<1>0. TypeOK /\ LastPassInv /\ RestsWithItsParts
  BY DEF Settled, IInv
<1>1. UNCHANGED shop /\ At(k) /\ pass # NoPass
  BY DEF Ensure, At
<1>2. pass \in Pass /\ pass.call \in 1..Len(Calls) /\ Calls[pass.call] = k
  BY <1>0, <1>1, Calling
<1>3. k # "status"
  BY DEF Kinds
<1>4. CASE \E o \in Child : Claims(k, o)
  <2>1. PICK o \in Child : Claims(k, o)
    BY <1>4
  <2>2. child' = [child EXCEPT ![k] = After(k, o)] /\ UNCHANGED queued
    BY <2>1 DEF Claims
  <2>3. PICK r \in BOOLEAN : Onward(r)
    BY <2>1 DEF Claims
  <2>4. CASE k \in Watched
    BY <1>0, <2>2, <2>4, WatchedWritten, Unsettled
  <2>5. CASE k \notin Watched
    <3>1. \A l \in Kinds \ {k} : child'[l] = child[l]
      BY <1>0, <2>2, ChildWritten
    <3>2. \A l \in Kinds \cap Watched : child'[l] = child[l]
      BY <2>5, <3>1
    <3> QED BY <1>0, <1>1, <1>2, <1>3, <2>2, <2>3, <2>5, <3>2, GoesOn
  <2> QED BY <2>4, <2>5
<1>5. CASE Gives(k)
  BY <1>5, Unsettled DEF Gives, Requeue
<1>6. CASE Leaves(k)
  <2>1. /\ UNCHANGED <<child, queued>>
        /\ k \in Watched => Read(k).exists /\ Read(k).owner = pass.uid
    BY <1>6 DEF Leaves, Watched, Optional, Kept, Secrets
  <2>2. PICK r \in BOOLEAN : Onward(r)
    BY <1>6 DEF Leaves
  <2>3. ASSUME k \in Kinds \cap Watched, ~queued, Caught PROVE Has(k)
    <3>1. UpToDate(child[k]) /\ Read(k) = Shown(child[k])
      BY <2>3 DEF Caught, Read, Watched, Live, Monitored, Kept, Secrets
    <3>2. Read(k) = Now(k)
      BY <3>1 DEF UpToDate, IsLatest, Shown, Now, Latest
    <3>3. pass.uid = Living
      BY <1>0, <1>1, <2>3 DEF LastPassInv
    <3> QED BY <2>1, <2>3, <3>1, <3>2, <3>3 DEF Has
  <2> QED BY <1>0, <1>1, <1>2, <1>3, <2>1, <2>2, <2>3, GoesOn
<1> QED BY <1>0, <1>4, <1>5, <1>6, EnsureOutcomes

\* The status: a write is an event, and no write means that it says it all.
LEMMA StatusSettled ==
  ASSUME Settled, UpdateStatus
  PROVE  LastPassInv' /\ RestsWithItsParts'
<1>0. TypeOK /\ LastPassInv
  BY DEF Settled, IInv
<1>1. Requeue => LastPassInv' /\ RestsWithItsParts'
  BY Unsettled DEF Requeue
<1>2. pass # NoPass /\ pass \in Pass /\ pass.call \in 1..Len(Calls) /\ Calls[pass.call] = "status"
  <2>1. pass \in Pass /\ pass # NoPass /\ pass.call <= Len(Calls) /\ Calls[pass.call] = "status"
    BY <1>0 DEF UpdateStatus, At, TypeOK
  <2> QED BY <2>1, ChildrenAssumption DEF Pass
<1>3. ASSUME shop' = Written(shop, [uid |-> pass.uid, ready |-> pass.ready]),
             Onward(TRUE), UNCHANGED queued
      PROVE  LastPassInv' /\ RestsWithItsParts'
  <2>1. CASE Latest(shop) = [uid |-> pass.uid, ready |-> pass.ready]
    <3>1. shop' = shop /\ child' = child
      BY <1>3, <2>1 DEF Written, UpdateStatus
    <3>2. Latest(shop).ready = pass.ready
      BY <2>1
    <3>3. "status" \notin Kinds
      BY DEF Kinds
    <3> QED BY <1>0, <1>2, <1>3, <3>1, <3>2, <3>3, GoesOn
  <2>2. CASE Latest(shop) # [uid |-> pass.uid, ready |-> pass.ready]
    <3>1. shop' = Append(shop, [uid |-> pass.uid, ready |-> pass.ready])
      BY <1>3, <2>2 DEF Written
    <3> QED BY <1>0, <3>1, ShopWritten, Unsettled
  <2> QED BY <2>1, <2>2
<1> QED BY <1>1, <1>3 DEF UpdateStatus

\* The pass begins with what the cache shows, and has visited nothing.
LEMMA StartSettled ==
  ASSUME Settled, Start
  PROVE  LastPassInv' /\ RestsWithItsParts'
<1>1. UNCHANGED <<shop, child>>
  BY DEF Start
<1>2. Caught' => Shown(shop).uid = Living /\ Living' = Living
  BY <1>1 DEF Caught, UpToDate, IsLatest, Shown, Living, Latest
<1>3. CASE Shown(shop).uid = 0
  <2>1. pass' = NoPass
    BY <1>3 DEF Start
  <2> QED BY <1>2, <1>3, <2>1 DEF LastPassInv, RestsWithItsParts, Quiet, Caught
<1>4. CASE Shown(shop).uid # 0
  <2>1. pass' = [call |-> 1, uid |-> Shown(shop).uid, base |-> 1, ready |-> TRUE]
    BY <1>4 DEF Start
  <2>2. pass' # NoPass /\ pass'.call = 1 /\ pass'.uid = Shown(shop).uid
    BY <2>1 DEF NoPass
  <2>3. ~StatusDone' /\ \A k \in Kinds : ~Visited(k)'
    BY <2>2, ChildrenAssumption DEF StatusDone, Visited
  <2> QED BY <1>2, <2>2, <2>3 DEF LastPassInv, RestsWithItsParts, Quiet
<1> QED BY <1>3, <1>4

\* The end of the pass: it has visited everything and written the status.
LEMMA FinishSettled ==
  ASSUME Settled, Finish
  PROVE  LastPassInv' /\ RestsWithItsParts'
<1>0. TypeOK /\ LastPassInv
  BY DEF Settled, IInv
<1>1. pass' = NoPass /\ UNCHANGED <<shop, child>> /\ pass.call > Len(Calls)
  BY DEF Finish
<1>2. LastPassInv'
  BY <1>1 DEF LastPassInv
<1>3. SUFFICES ASSUME Quiet', Living' # 0
      PROVE  /\ Latest(shop').ready
             /\ \A k \in Kinds \cap Watched : Now(k)'.exists /\ Now(k)'.owner = Living'
  BY <1>2 DEF RestsWithItsParts
<1>4. ~queued /\ pass.ready /\ Caught
  <2>1. ~queued /\ pass.ready
    BY <1>3, Zenon DEF Quiet, Finish
  <2> QED BY <1>1, <1>3, <2>1 DEF Quiet, Caught, UpToDate, IsLatest
<1>5. /\ pass # NoPass
      /\ \A i \in DOMAIN Calls : i < pass.call
  <2>1. Len(Calls) \in Nat /\ DOMAIN Calls = 1..Len(Calls)
    BY ChildrenAssumption
  <2>2. pass # NoPass
    BY <1>1, <2>1 DEF NoPass
  <2>3. pass.call \in Nat
    BY <1>0, <2>1, <2>2 DEF TypeOK, Pass
  <2> QED BY <1>1, <2>1, <2>2, <2>3
<1>6. StatusDone /\ \A k \in Kinds : Visited(k)
  <2>1. StatusDone
    BY <1>5, ChildrenAssumption DEF StatusDone
  <2>2. \A k \in Kinds : Visited(k)
    BY <1>5 DEF Kinds, Visited
  <2> QED BY <2>1, <2>2
<1>7. Latest(shop).ready /\ \A k \in Kinds \cap Watched : Has(k)
  BY <1>0, <1>4, <1>5, <1>6 DEF LastPassInv
<1> QED BY <1>1, <1>7 DEF Has, Now, Living, Latest

LEMMA SettledInit == Init => Settled
<1> SUFFICES ASSUME Init PROVE Settled
  OBVIOUS
<1>1. queued /\ pass = NoPass
  BY DEF Init
<1> QED BY <1>1, InvInit DEF Settled, LastPassInv, RestsWithItsParts, Quiet

\* Settled is inductive.
LEMMA SettledNext == Settled /\ [Next]_vars => Settled'
<1> SUFFICES ASSUME Settled, [Next]_vars PROVE LastPassInv' /\ RestsWithItsParts'
  BY InvNext DEF Settled
<1>0. TypeOK /\ LastPassInv /\ RestsWithItsParts
  BY DEF Settled, IInv
<1>1. queued' => LastPassInv' /\ RestsWithItsParts'
  BY Unsettled
<1>2. CASE Start
  BY <1>2, StartSettled
<1>3. ASSUME NEW k \in Kinds, Ensure(k) PROVE LastPassInv' /\ RestsWithItsParts'
  BY <1>3, EnsureSettled
<1>4. CASE UpdateStatus
  BY <1>4, StatusSettled
<1>5. CASE Finish
  BY <1>5, FinishSettled
<1>6. CASE Fail \/ DeliverShop
  BY <1>1, <1>6 DEF Fail, Requeue, DeliverShop
<1>7. ASSUME NEW k \in Kinds, DeliverChild(k) PROVE LastPassInv' /\ RestsWithItsParts'
  <2>1. CASE k \in Watched
    BY <1>1, <1>7, <2>1 DEF DeliverChild
  <2>2. CASE k \notin Watched
    <3>1. UNCHANGED <<shop, pass>> /\ queued' = queued
      BY <1>0, <1>7, <2>2, Zenon DEF DeliverChild, TypeOK
    <3>2. child' = [child EXCEPT ![k] = Tail(child[k])]
      BY <1>7 DEF DeliverChild
    <3>3. \A l \in Kinds \cap Watched : child'[l] = child[l]
      BY <1>0, <2>2, <3>2 DEF TypeOK
    <3> QED BY <1>0, <3>1, <3>3, Unwatched
  <2> QED BY <2>1, <2>2
<1>8. CASE Restart
  <2>1. pass' = NoPass /\ shop' = <<Latest(shop)>> /\ (Living # 0 => queued')
    BY <1>8, Zenon DEF Restart
  <2>2. Living' = Living
    BY <2>1 DEF Living, Latest
  <2>3. LastPassInv'
    BY <2>1 DEF LastPassInv
  <2>4. RestsWithItsParts'
    BY <2>1, <2>2 DEF RestsWithItsParts, Quiet
  <2> QED BY <2>3, <2>4
<1>9. CASE CreateShop \/ DeleteShop
  <2>1. PICK o : shop' = Append(shop, o)
    BY <1>9 DEF CreateShop, DeleteShop
  <2> QED BY <1>0, <2>1, ShopWritten, Unsettled
<1>10. ASSUME NEW k \in Kinds, Environment(k)
       PROVE  LastPassInv' /\ RestsWithItsParts'
  <2>1. PICK o \in Child :
           /\ child' = [child EXCEPT ![k] = After(k, o)]
           /\ UNCHANGED <<shop, queued, pass, born>>
    BY <1>0, <1>10, Environments
  <2> QED BY <2>1, OthersSettled
<1>11. CASE UNCHANGED vars
  BY <1>0, <1>11, Unwatched DEF vars
<1> QED BY <1>2, <1>3, <1>4, <1>5, <1>6, <1>7, <1>8, <1>9, <1>10, <1>11
        DEF Next, Reconcile, DeliverChildren, Progress, Environment

\* The controller comes to rest only when the living Shop is reported ready
\* and owns a child of each watched kind (shop_controller.go:728-730): the
\* last pass was about the latest versions, and found or made them all.
THEOREM RestHasParts == Spec => []RestsWithItsParts
<1>1. Settled => RestsWithItsParts
  BY DEF Settled
<1> QED BY <1>1, SettledInit, SettledNext, PTL DEF Spec
=============================================================================
