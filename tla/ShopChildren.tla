---------------------------- MODULE ShopChildren ----------------------------
(***************************************************************************)
(* The objects that a Shop owns, while the Shop is deleted and created     *)
(* again under its name (internal/controller/shop_controller.go).  A pass  *)
(* visits the kinds of children in the order of Calls, and treats each in  *)
(* one of two ways.  A kind that is kept (the database, the generated      *)
(* Secrets) is looked up and created when it is not there; a converged     *)
(* kind goes through CreateOrUpdate, whose mutate function makes the Shop  *)
(* its owner; the alert route only once its webhook Secret is found.       *)
(* Nothing but owner references removes the children: the Shop has no      *)
(* finalizer, the garbage collector deletes what belongs to a UID that is  *)
(* gone.  A DiscordChannel has one: what deletes it condemns it, and it is *)
(* there, and may be taken over, until its own controller lets it go.      *)
(*                                                                         *)
(* The Shop controller is one worker.  Typed reads come from informer      *)
(* caches that lag independently, unstructured ones from the API server.   *)
(***************************************************************************)
EXTENDS ApiServer, FiniteSets

CONSTANTS
  Calls,           \* what a pass visits in its order: kinds, and "status"
  MaxIncarnations, \* how often the Shop is created
  MaxLag,          \* how far a cache lags when an object is removed or recreated
  MaxDisturbances  \* faults, restarts, removals by others

Secrets   == {"jwt", "redisAuth"}
Kept      == Secrets \cup {"database"}
Watched   == {"wallet", "discordChannel", "deployment", "service", "ingress"}
Monitored == {"serviceMonitor", "prometheusRule", "alertRoute"}
Live      == Monitored \cup {"database"} \* read as unstructured objects
Gauged    == {"database", "deployment"}   \* their state decides on ready
Finalized == {"discordChannel"}           \* have a finalizer, once provisioned
Optional  == {"alertRoute"}               \* left out while its Secret is missing
AllKinds  == Kept \cup Watched \cup Monitored \cup {"dashboard"}

Kinds == {Calls[i] : i \in DOMAIN Calls} \ {"status"}

\* Every pass puts these through CreateOrUpdate.
Converged == Kinds \ (Kept \cup Optional)

\* Each call is made once; of the services one is considered.
ASSUME ChildrenAssumption ==
  /\ Calls \in Seq(AllKinds \cup {"status"})
  /\ \A i, j \in DOMAIN Calls : Calls[i] = Calls[j] => i = j
  /\ "database" \in Kinds /\ \E i \in DOMAIN Calls : Calls[i] = "status"
  /\ MaxIncarnations \in Nat \ {0} /\ MaxLag \in Nat \ {0} /\ MaxDisturbances \in Nat

VARIABLES
  (* the API server: the versions of an object from the one the cache shows *)
  shop,    \* the Shop
  child,   \* the child of each kind
  (* the operator process *)
  queued,  \* whether the work queue holds the Shop
  pass,    \* the pass of the worker
  (* the environment *)
  born,    \* how often the Shop was created
  taken,   \* the converged kinds others have removed unseen by any watch
  budget   \* disturbances left

vars == <<shop, child, queued, pass, born, taken, budget>>
history == <<born, taken>>

(***************************************************************************)
(* Data.                                                                   *)
(***************************************************************************)

\* UIDs count the incarnations; 0 stands for no Shop, and for no owner.
Shop == [uid : 0..MaxIncarnations, ready : BOOLEAN]
NoShop == [uid |-> 0, ready |-> FALSE]
NewShop(u) == [uid |-> u, ready |-> FALSE]

\* up: the Cluster is ready, the replicas are ready, the content of the
\* Secret is in use.  dying: deleted, and held back by its finalizer.
Child == [exists : BOOLEAN, owner : 0..MaxIncarnations, up : BOOLEAN, dying : BOOLEAN]
NoChild == [exists |-> FALSE, owner |-> 0, up |-> FALSE, dying |-> FALSE]

Living == Latest(shop).uid
Now(k) == Latest(child[k])

\* Kinds with an informer: those of typed reads, and the StatefulSet of Redis.
Cached == {k \in Kinds : k \notin Live \/ (k = "database" /\ "redisAuth" \in Kinds)}

\* What the controller reads.
Read(k) == IF k \in Live THEN Now(k) ELSE Shown(child[k])

\* The informer of h keeps up: others may remove or create the object.
Room(h) == Len(h) <= MaxLag

\* The versions of the child after a write of o.
After(k, o) == IF k \in Cached THEN Append(child[k], o) ELSE <<o>>

\* uid and base are those of the Shop that was read, base as a position in
\* shop and 0 when its informer has passed it; ready is the conjunction so far.
Pass == [call : 1..Len(Calls) + 1, uid : 1..MaxIncarnations, base : Nat, ready : BOOLEAN]
NoPass == [call |-> 0]

Init ==
  /\ shop = <<NewShop(1)>>
  /\ child = [k \in Kinds |-> <<NoChild>>]
  /\ queued = TRUE
  /\ pass = NoPass
  /\ born = 1
  /\ taken = {}
  /\ budget = MaxDisturbances

Disturb == budget > 0 /\ budget' = budget - 1

(***************************************************************************)
(* The worker.                                                             *)
(***************************************************************************)

\* Mutant of Requeue: the error is only logged.
RequeueNever == pass' = NoPass /\ UNCHANGED queued

\* return an error, or RequeueAfter: the queue takes the key back.
Requeue == pass' = NoPass /\ queued' = TRUE

\* Reconcile reads the Shop; there is nothing to do when it is gone.
Start ==
  /\ pass = NoPass
  /\ queued
  /\ queued' = FALSE
  /\ pass' = IF Shown(shop).uid = 0 THEN NoPass
             ELSE [call |-> 1, uid |-> Shown(shop).uid, base |-> 1, ready |-> TRUE]
  /\ UNCHANGED <<shop, child, history, budget>>

\* The pass makes call k next.
At(k) == pass # NoPass /\ pass.call <= Len(Calls) /\ Calls[pass.call] = k

\* Mutant of Onward: one call is left out.
OnwardTwice(r) == pass' = [pass EXCEPT !.call = @ + 2, !.ready = @ /\ r]

\* The call is done, and readiness is r as far as it is concerned.
Onward(r) == pass' = [pass EXCEPT !.call = @ + 1, !.ready = @ /\ r]

\* Whether the child counts as up when o was read.  Redis has no status:
\* its StatefulSet is looked up in the cache.
Up(k, o) ==
  k \in Gauged => IF k = "database" /\ k \in Cached THEN Shown(child[k]).up ELSE o.up

\* Mutant of NewChild: SetControllerReference is forgotten.
NewChildUnowned(k) == [NoChild EXCEPT !.exists = TRUE]

\* What Create makes, owned by the Shop that was read.
NewChild(k) == [NoChild EXCEPT !.exists = TRUE, !.owner = pass.uid]

\* Mutant of Claimed: the owner is set on creation only.
ClaimedNever(k, o) == o

\* What the mutate function makes of a child that exists, dying or not.  An
\* owner reference with the name of this Shop is taken over, whatever its UID.
Claimed(k, o) == IF k \in Kept THEN o ELSE [o EXCEPT !.owner = pass.uid]

\* Mutant of Creatable: what the cache does not show is written over.
CreatableAnyway(k) == TRUE

\* Create is refused (AlreadyExists) when the object is there.
Creatable(k) == ~Now(k).exists

\* An Update is refused when the version that was read is not the latest.
Updatable(k) == k \in Live \/ UpToDate(child[k])

\* The child becomes o if the server accepts that.
Write(k, o, accepted) ==
  IF accepted THEN /\ child' = [child EXCEPT ![k] = After(k, o)]
                   /\ Onward(Up(k, o))
                   /\ UNCHANGED queued
              ELSE Requeue /\ UNCHANGED child

\* The call for kind k: read, then create, update, or leave the child alone.
\* An optional kind may be passed over (whether its Secret is in the cache is
\* in Monitoring, not here).
Ensure(k) ==
  /\ At(k)
  /\ LET old == Read(k)
     IN  \/ ~old.exists /\ Write(k, NewChild(k), Creatable(k))
         \/ /\ old.exists /\ Claimed(k, old) # old
            /\ Write(k, Claimed(k, old), Updatable(k))
         \/ /\ old.exists /\ Claimed(k, old) = old
            /\ Onward(Up(k, old))
            /\ UNCHANGED <<child, queued>>
         \/ k \in Optional /\ Onward(TRUE) /\ UNCHANGED <<child, queued>>
  /\ UNCHANGED <<shop, history, budget>>

\* updateStatus, of the copy that was read.
UpdateStatus ==
  /\ At("status")
  /\ \/ /\ IsLatest(shop, pass.base)
        /\ shop' = Written(shop, [uid |-> pass.uid, ready |-> pass.ready])
        /\ Onward(TRUE)
        /\ UNCHANGED queued
     \/ /\ ~IsLatest(shop, pass.base)
        /\ Requeue
        /\ UNCHANGED shop
  /\ UNCHANGED <<child, history, budget>>

\* The end of the pass, with RequeueAfter unless everything is ready.
Finish ==
  /\ pass.call > Len(Calls)
  /\ pass' = NoPass
  /\ queued' = (queued \/ ~pass.ready)
  /\ UNCHANGED <<shop, child, history, budget>>

\* Any call may fail, its write done or not: then the error shows at the next.
Fail ==
  /\ pass # NoPass
  /\ Disturb
  /\ Requeue
  /\ UNCHANGED <<shop, child, history>>

Reconcile ==
  \/ Start
  \/ \E k \in Kinds : Ensure(k)
  \/ UpdateStatus
  \/ Finish

(***************************************************************************)
(* The watches and restarts.                                               *)
(***************************************************************************)

DeliverShop ==
  /\ Len(shop) > 1
  /\ shop' = Tail(shop)
  /\ queued' = TRUE
  /\ pass' = IF pass = NoPass \/ pass.base = 0 THEN pass ELSE [pass EXCEPT !.base = @ - 1]
  /\ UNCHANGED <<child, history, budget>>

\* Mutant of DeliverChild: the kinds are not owned.
DeliverChildQuietly(k) ==
  /\ Len(child[k]) > 1
  /\ child' = [child EXCEPT ![k] = Tail(@)]
  /\ UNCHANGED <<shop, queued, pass, history, budget>>

\* The event of a watched kind queues the Shop that its owner reference names.
DeliverChild(k) ==
  /\ Len(child[k]) > 1
  /\ child' = [child EXCEPT ![k] = Tail(@)]
  /\ queued' = (queued \/ k \in Watched)
  /\ UNCHANGED <<shop, pass, history, budget>>

\* The process stops anywhere and starts again; its informers list everything.
Restart ==
  /\ Disturb
  /\ pass' = NoPass
  /\ shop' = <<Latest(shop)>>
  /\ child' = [k \in Kinds |-> <<Now(k)>>]
  /\ queued' = (Living # 0 \/ \E k \in Kinds \cap Watched : Now(k).exists)
  /\ UNCHANGED history

(***************************************************************************)
(* The environment.                                                        *)
(***************************************************************************)

CreateShop ==
  /\ Living = 0 /\ born < MaxIncarnations /\ Room(shop)
  /\ born' = born + 1
  /\ shop' = Append(shop, NewShop(born'))
  /\ UNCHANGED <<child, queued, pass, taken, budget>>

DeleteShop ==
  /\ Living # 0 /\ Room(shop)
  /\ shop' = Append(shop, NoShop)
  /\ UNCHANGED <<child, queued, pass, history, budget>>

\* The child of kind k becomes o.
Becomes(k, o) ==
  /\ child' = [child EXCEPT ![k] = After(k, o)]
  /\ UNCHANGED <<shop, queued, pass, born>>

\* The API server deletes the child: it is gone, or is condemned if it has got
\* its finalizer.
Deleted(k) ==
  /\ Now(k).exists /\ ~Now(k).dying /\ Room(child[k])
  /\ \/ Becomes(k, NoChild)
     \/ k \in Finalized /\ Becomes(k, [Now(k) EXCEPT !.dying = TRUE])

\* The garbage collector deletes what belongs to a Shop that is gone.
Collect(k) ==
  /\ Now(k).owner \notin {0, Living}
  /\ Deleted(k)
  /\ UNCHANGED <<taken, budget>>

\* The DiscordChannel controller has cleaned up and removes the finalizer
\* (CleanedUp of DiscordChannel: it does once it has the credentials).
Release(k) ==
  /\ Now(k).dying /\ Room(child[k])
  /\ Becomes(k, NoChild)
  /\ UNCHANGED <<taken, budget>>

\* The database comes up, the replicas get ready, a container starts with
\* the Secret.
ComesUp(k) ==
  /\ k \in Gauged \cup Secrets
  /\ Now(k).exists /\ ~Now(k).up
  /\ Becomes(k, [Now(k) EXCEPT !.up = TRUE])
  /\ UNCHANGED <<taken, budget>>

\* Somebody deletes a child.
Take(k) ==
  /\ Deleted(k)
  /\ Disturb
  /\ taken' = taken \cup ({k} \cap (Converged \ Watched))

DeliverChildren == \E k \in Kinds : DeliverChild(k)

\* The garbage collector works, finalizers are served, and what a Shop uses
\* comes up.
Progress == \E k \in Kinds : Collect(k) \/ Release(k) \/ ComesUp(k)

Next ==
  \/ Reconcile \/ Fail \/ Restart
  \/ DeliverShop \/ DeliverChildren \/ Progress
  \/ CreateShop \/ DeleteShop
  \/ \E k \in Kinds : Take(k)

Spec == Init /\ [][Next]_vars

\* The worker and the watches are served, and the environment makes progress.
Fairness == /\ WF_vars(Reconcile)
            /\ WF_vars(DeliverShop) /\ WF_vars(DeliverChildren)
            /\ WF_vars(Progress)

FairSpec == Spec /\ Fairness

(***************************************************************************)
(* Properties.                                                             *)
(***************************************************************************)

TypeOK ==
  /\ shop \in Seq(Shop) /\ Len(shop) > 0
  /\ child \in [Kinds -> Seq(Child)]
  /\ \A k \in Kinds : Len(child[k]) > 0 /\ (k \notin Cached => Len(child[k]) = 1)
  /\ queued \in BOOLEAN
  /\ pass \in Pass \cup {NoPass}
  /\ born \in 1..MaxIncarnations
  /\ taken \subseteq Kinds
  /\ budget \in 0..MaxDisturbances

\* "Owned child objects are garbage-collected automatically when the Shop is
\* deleted, so no finalizer is needed" (shop_controller.go:178-180): no child
\* is left of a Shop that is gone, not even one that a pass on an old copy of
\* the Shop made after the deletion.
CascadeDelete ==
  <>[](Living = 0) => <>[](\A k \in Kinds : ~Now(k).exists)

\* The calls that come before the status is written.
Before(k) == \E i, j \in DOMAIN Calls : i < j /\ Calls[i] = k /\ Calls[j] = "status"

\* The garbage collector takes nothing from a Shop that is reported ready of
\* the kinds that each pass converges: what was left of the Shop's predecessor
\* has been taken over before (:745-767, :1109).  It may have come too late:
\* what was dying then will go.
ReadyKeepsItsParts ==
  [][ Latest(shop).ready /\ budget' = budget
        => \A k \in Converged :
             Before(k) /\ Now(k).exists /\ ~Now(k).dying
               => Latest(child'[k]).exists /\ ~Latest(child'[k]).dying ]_vars

\* "It never overwrites an existing secret, so the password stays stable"
\* (:600-602), and an existing database is left alone (:696): what the living
\* Shop owns stays its own, and the same object, unless others remove it or
\* it was dying when the Shop took it over, however old the copies are that a
\* pass works on.
NothingIsReplaced ==
  [][ Living # 0 /\ Latest(shop').uid = Living /\ budget' = budget
        => \A k \in Kinds : Now(k).exists /\ Now(k).owner = Living /\ ~Now(k).dying
             => Latest(child'[k]) \in {Now(k), [Now(k) EXCEPT !.up = TRUE]} ]_vars

\* Nothing is left to do for the Shop: no key is queued and no pass runs, and
\* what is watched has been delivered.
Quiet == /\ ~queued /\ pass = NoPass
         /\ UpToDate(shop) /\ \A k \in Kinds \cap Watched : UpToDate(child[k])

\* The controller comes to rest only when the living Shop is reported ready
\* and owns a child of each watched kind, also after a recreation, a removal
\* by others, a child that died after it was taken over, or a pass on an old
\* copy of the Shop: "repeated reconciles are
\* idempotent and drift is corrected back" (:728-730).
RestsWithItsParts ==
  Quiet /\ Living # 0
    => /\ Latest(shop).ready
       /\ \A k \in Kinds \cap Watched : Now(k).exists /\ Now(k).owner = Living

\* A Shop that stays ends up owning a child of each converged kind that is not
\* about to go, across deletions and recreations of the Shop; those that are
\* watched come back after others have removed them, or after they went
\* because the Shop took them over dying: "so repeated reconciles are
\* idempotent and drift is corrected back" (:728-730, :1152-1154).
PartsReturn ==
  <>[](Living # 0)
    => <>[](\A k \in Converged :
              k \notin taken => Now(k).owner = Living /\ ~Now(k).dying)

(***************************************************************************)
(* What the repository says and the code does not keep.                    *)
(***************************************************************************)

\* "Reconcile drives a Shop CR towards its desired state: a database, a
\* Deployment and a Service" (:176-178): a Shop that stays, in a cluster where
\* nothing fails and nobody interferes, ends up with a database.
DatabaseIsThere == <>[](Living # 0) => <>[](Now("database").exists)
=============================================================================
