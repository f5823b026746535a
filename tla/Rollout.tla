------------------------------- MODULE Rollout -------------------------------
(***************************************************************************)
(* The Shop controller's way from a Shop to a running application          *)
(* (ShopReconciler.Reconcile in internal/controller/shop_controller.go):   *)
(* the database, the migration Job, the Deployments, the Shop's status and *)
(* the Ingress, in the order of one pass, and the requeues that bring the  *)
(* next pass.                                                              *)
(*                                                                         *)
(* Reads of the Shop, the Deployments, the Job and the light database's    *)
(* StatefulSet come from informer caches and may be old; only events of    *)
(* the Shop and of the Deployments queue the key.  The standard database's *)
(* Cluster is read from the API server.  A service that has migrations     *)
(* gets its Job before its Deployment, when the database is a standard one.*)
(***************************************************************************)
EXTENDS ApiServer

CONSTANTS
  Microservices,   \* the services of a Shop, in the order of the loop
  Migrating,       \* those that have migrations
  Tiers,           \* replica counts of the availability tiers that are considered
  Kinds,           \* database types that are considered
  Created,         \* those that a Shop may be created with
  MaxLag,          \* how many versions others put before a cache
  MaxDisturbances  \* edits, faults, restarts, failures of what a Shop uses

ASSUME RolloutAssumption ==
  /\ Microservices \in Seq(STRING) /\ Len(Microservices) > 0
  /\ Migrating \subseteq STRING
  /\ Tiers \subseteq {2, 3} /\ Kinds \subseteq {"standard", "light"}
  /\ Created \subseteq Kinds
  /\ MaxLag \in Nat \ {0} /\ MaxDisturbances \in Nat

VARIABLES
  (* the API server: the versions of an object from the one the cache shows *)
  shop,        \* the Shop
  deployment,  \* the Deployment of each service
  job,         \* the migration Job of each service at its present image
  database,    \* for each kind the Shop's database, as its operator reports it
  operator,    \* the kinds whose database operator is installed
  ingress,     \* whether the Ingress exists
  (* the operator process *)
  queued,      \* whether the work queue holds the Shop
  pass,        \* the pass of the worker
  (* the past and the future *)
  past,        \* what has once been achieved
  budget       \* disturbances left

objects == <<shop, deployment, job, database, operator, ingress>>
vars == <<objects, queued, pass, past, budget>>

(***************************************************************************)
(* Data.                                                                   *)
(***************************************************************************)

Services == {Microservices[i] : i \in DOMAIN Microservices}
HasMigrations(s) == s \in Migrating

Reasons == {"none", "ShopReady", "DatabaseOperatorMissing", "DatabaseProvisioning",
            "DeploymentProgressing"}
DatabaseStates == {"none", "missing", "provisioning", "ready"}

\* The spec with its generation, the Available condition with the generation
\* it was observed at; Status.Ready is reason = "ShopReady".
Shop == [replicas : {2, 3}, kind : {"standard", "light"}, generation : Nat,
         observed : Nat, reason : Reasons]
NewShop(n, k) == [replicas |-> n, kind |-> k, generation |-> 1,
                  observed |-> 0, reason |-> "none"]
Ready(s) == s.reason = "ShopReady"

\* kind is the database the environment of the pod template points to, ready
\* is Status.ReadyReplicas, which counts pods of every template; current says
\* that the ready pods run the present one.
Deployment == [replicas : {2, 3}, kind : {"standard", "light"}, ready : 0..3,
               current : BOOLEAN]
NoDeployment == [replicas |-> 0, kind |-> "none", ready |-> 0, current |-> FALSE]

\* The databases that were ready, the services whose Job has succeeded, and
\* those that had all replicas ready, with the Deployment of that time.
Past == [ready : SUBSET Kinds, migrated : SUBSET Services,
         served : SUBSET (Services \X {2, 3} \X {"standard", "light"} \X BOOLEAN)]
NoPast == [ready |-> {}, migrated |-> {}, served |-> {}]

\* shop is the copy that was read, at position base in the versions of the
\* Shop (0: the informer has passed it); service is the position in the loop
\* over Microservices.
Pass == [call : {"database", "migrate", "deploy", "status", "ingress"},
         shop : Shop, base : Nat, service : 1..Len(Microservices),
         state : DatabaseStates, allReady : BOOLEAN]
NoPass == [call |-> "idle"]

Init ==
  /\ \E n \in Tiers, k \in Created : shop = <<NewShop(n, k)>>
  /\ deployment = [s \in Services |-> <<NoDeployment>>]
  /\ job = [s \in Services |-> <<"absent">>]
  /\ database = [k \in Kinds |-> <<"absent">>]
  /\ operator \in SUBSET Kinds
  /\ ingress = FALSE
  /\ queued = TRUE
  /\ pass = NoPass
  /\ past = NoPast
  /\ budget = MaxDisturbances

Disturb == budget > 0 /\ budget' = budget - 1

\* The informer of h keeps up: others may write another version.
Room(h) == Len(h) <= MaxLag

(***************************************************************************)
(* Reconcile, one action per group of calls.                               *)
(***************************************************************************)

\* return an error, or RequeueAfter: the queue takes the key back.
Requeue == pass' = NoPass /\ queued' = TRUE

Start ==
  /\ pass = NoPass
  /\ queued
  /\ queued' = FALSE
  /\ pass' = [call |-> "database", shop |-> Shown(shop), base |-> 1,
              service |-> 1, state |-> "none", allReady |-> FALSE]
  /\ UNCHANGED <<objects, past, budget>>

\* databaseStateFrom and cnpgClusterReady on what the API server has, or, for
\* the light kind, statefulSetReady on what the cache has.
DatabaseState(k) ==
  LET o == IF k = "light" THEN Shown(database[k]) ELSE Latest(database[k])
  IN  IF o = "ready" THEN "ready" ELSE "provisioning"

\* The versions of the database of kind k after o; only the StatefulSet of
\* the light one is cached.
WithDatabase(k, o) ==
  [database EXCEPT ![k] = IF k = "light" THEN Append(@, o) ELSE <<o>>]

\* The pass knows the database's state and enters the loop.
Enter(st) ==
  /\ pass' = [pass EXCEPT !.call = "migrate", !.state = st, !.allReady = (st = "ready")]
  /\ UNCHANGED queued

\* Mutant of Database: a database operator that is missing is an error.
DatabaseOrFail ==
  /\ pass.call = "database"
  /\ IF pass.shop.kind \in operator
       THEN /\ database' = IF Latest(database[pass.shop.kind]) = "absent"
                             THEN WithDatabase(pass.shop.kind, "provisioning") ELSE database
            /\ Enter(DatabaseState(pass.shop.kind))
       ELSE UNCHANGED database /\ Requeue
  /\ UNCHANGED <<shop, deployment, job, operator, ingress, past, budget>>

\* reconcileDatabase: a missing operator is reported, a missing database is
\* created, an existing one is left alone.
Database ==
  /\ pass.call = "database"
  /\ LET k == pass.shop.kind
     IN  \/ k \notin operator /\ Enter("missing") /\ UNCHANGED database
         \/ /\ k \in operator /\ Latest(database[k]) = "absent"
            /\ database' = WithDatabase(k, "provisioning")
            /\ Enter("provisioning")
         \/ /\ k \in operator /\ Latest(database[k]) # "absent"
            /\ Enter(DatabaseState(k))
            /\ UNCHANGED database
  /\ UNCHANGED <<shop, deployment, job, operator, ingress, past, budget>>

\* The Deployment of the service comes next; a Job that is not done shows.
Migrated(done) ==
  /\ pass' = [pass EXCEPT !.call = "deploy", !.allReady = @ /\ done]
  /\ UNCHANGED queued

\* reconcileMigrationJob, reached only with a database that is ready.
Migrate ==
  /\ pass.call = "migrate"
  /\ LET s == Microservices[pass.service]
         needed == HasMigrations(s) /\ pass.shop.kind = "standard"
         shown == Shown(job[s])
     IN  \/ pass.state # "ready" /\ Migrated(~HasMigrations(s)) /\ UNCHANGED job
         \/ pass.state = "ready" /\ ~needed /\ Migrated(TRUE) /\ UNCHANGED job
         \/ /\ pass.state = "ready" /\ needed /\ shown # "absent"
            /\ Migrated(shown = "succeeded")
            /\ UNCHANGED job
         \/ /\ pass.state = "ready" /\ needed /\ shown = "absent"
            /\ Latest(job[s]) = "absent"
            /\ job' = [job EXCEPT ![s] = Append(@, "running")]
            /\ Migrated(FALSE)
         \/ /\ pass.state = "ready" /\ needed /\ shown = "absent"
            /\ Latest(job[s]) # "absent"  \* the cache is behind: AlreadyExists
            /\ Requeue
            /\ UNCHANGED job
  /\ UNCHANGED <<shop, deployment, database, operator, ingress, past, budget>>

\* Mutant of Onward: the loop runs one service too far.
OnwardTooFar(ready) ==
  pass' = IF pass.service <= Len(Microservices)
            THEN [pass EXCEPT !.call = "migrate", !.service = @ + 1,
                              !.allReady = @ /\ ready]
            ELSE [pass EXCEPT !.call = "status", !.allReady = @ /\ ready]

\* The next service of the loop, or the status when there is none.
Onward(ready) ==
  pass' = IF pass.service < Len(Microservices)
            THEN [pass EXCEPT !.call = "migrate", !.service = @ + 1,
                              !.allReady = @ /\ ready]
            ELSE [pass EXCEPT !.call = "status", !.allReady = @ /\ ready]

\* The Deployment of s becomes d.
Rolls(s, d) ==
  /\ deployment' = [deployment EXCEPT ![s] = Append(@, d)]
  /\ past' = IF d.ready # d.replicas THEN past
             ELSE [past EXCEPT !.served = @ \cup {<<s, d.replicas, d.kind, d.current>>}]

\* reconcileDeployment: CreateOrUpdate compares with the cache, creates, or
\* updates at the cached version; the replicas it finds ready count.
Deploy ==
  /\ pass.call = "deploy"
  /\ LET s == Microservices[pass.service]
         old == Shown(deployment[s])
         new == [replicas |-> pass.shop.replicas, kind |-> pass.shop.kind,
                 ready |-> old.ready, current |-> old.current /\ old.kind = pass.shop.kind]
     IN  \/ /\ new = old
            /\ Onward(old.ready = pass.shop.replicas)
            /\ UNCHANGED <<deployment, queued, past>>
         \/ /\ new # old /\ UpToDate(deployment[s])
            /\ Rolls(s, new)
            /\ Onward(new.ready = pass.shop.replicas)
            /\ UNCHANGED queued
         \/ /\ new # old /\ ~UpToDate(deployment[s])
            /\ Requeue  \* AlreadyExists or Conflict
            /\ UNCHANGED <<deployment, past>>
  /\ UNCHANGED <<shop, job, database, operator, ingress, budget>>

\* The condition of updateStatus.
Outcome ==
  CASE pass.allReady -> "ShopReady"
    [] ~pass.allReady /\ pass.state = "missing" -> "DatabaseOperatorMissing"
    [] ~pass.allReady /\ pass.state = "provisioning" -> "DatabaseProvisioning"
    [] OTHER -> "DeploymentProgressing"

\* Mutant of UpdateStatus: on a conflict the outcome goes to the latest Shop.
UpdateStatusOfLatest ==
  /\ pass.call = "status"
  /\ shop' = Written(shop, [Latest(shop) EXCEPT !.observed = Latest(shop).generation,
                                                !.reason = Outcome])
  /\ pass' = [pass EXCEPT !.call = "ingress"]
  /\ UNCHANGED <<deployment, job, database, operator, ingress, queued, past, budget>>

\* Status().Update of the copy read at the start of the pass; on a conflict
\* the pass ends here.
UpdateStatus ==
  /\ pass.call = "status"
  /\ \/ /\ IsLatest(shop, pass.base)
        /\ shop' = Written(shop, [pass.shop EXCEPT !.observed = pass.shop.generation,
                                                   !.reason = Outcome])
        /\ pass' = [pass EXCEPT !.call = "ingress"]
        /\ UNCHANGED queued
     \/ /\ ~IsLatest(shop, pass.base)
        /\ Requeue
        /\ UNCHANGED shop
  /\ UNCHANGED <<deployment, job, database, operator, ingress, past, budget>>

\* Mutant of Finish: it waits for the next event.
FinishQuietly ==
  /\ pass.call = "ingress"
  /\ ingress' = TRUE
  /\ pass' = NoPass
  /\ UNCHANGED <<shop, deployment, job, database, operator, queued, past, budget>>

\* reconcileIngress, then RequeueAfter unless everything is ready.
Finish ==
  /\ pass.call = "ingress"
  /\ ingress' = TRUE
  /\ pass' = NoPass
  /\ queued' = (queued \/ ~pass.allReady)
  /\ UNCHANGED <<shop, deployment, job, database, operator, past, budget>>

\* Any call may fail and the pass ends with its error.  A write that is done
\* although its call fails is the write followed by a failure at the next
\* call; the last call has no next one.
Fail ==
  /\ pass # NoPass
  /\ Disturb
  /\ Requeue
  /\ \/ UNCHANGED ingress
     \/ pass.call = "ingress" /\ ingress' = TRUE
  /\ UNCHANGED <<shop, deployment, job, database, operator, past>>

Reconcile == Start \/ Database \/ Migrate \/ Deploy \/ UpdateStatus \/ Finish

(***************************************************************************)
(* The watches (SetupWithManager) and restarts.                            *)
(***************************************************************************)

DeliverShop ==
  /\ Len(shop) > 1
  /\ shop' = Tail(shop)
  /\ pass' = IF pass = NoPass \/ pass.base = 0 THEN pass ELSE [pass EXCEPT !.base = @ - 1]
  /\ queued' = TRUE
  /\ UNCHANGED <<deployment, job, database, operator, ingress, past, budget>>

\* Mutant of DeliverDeployment: the Deployments are not owned.
DeliverDeploymentUnowned(s) ==
  /\ Len(deployment[s]) > 1
  /\ deployment' = [deployment EXCEPT ![s] = Tail(@)]
  /\ UNCHANGED <<shop, job, database, operator, ingress, queued, pass, past, budget>>

\* Owns(Deployment): its events queue the Shop.
DeliverDeployment(s) ==
  /\ Len(deployment[s]) > 1
  /\ deployment' = [deployment EXCEPT ![s] = Tail(@)]
  /\ queued' = TRUE
  /\ UNCHANGED <<shop, job, database, operator, ingress, pass, past, budget>>

\* The informers of Jobs and StatefulSets exist because they are read; their
\* events queue nothing.
DeliverJob(s) ==
  /\ Len(job[s]) > 1
  /\ job' = [job EXCEPT ![s] = Tail(@)]
  /\ UNCHANGED <<shop, deployment, database, operator, ingress, queued, pass, past, budget>>

DeliverLight ==
  /\ "light" \in Kinds
  /\ Len(database["light"]) > 1
  /\ database' = [database EXCEPT !["light"] = Tail(@)]
  /\ UNCHANGED <<shop, deployment, job, operator, ingress, queued, pass, past, budget>>

\* The process stops anywhere and starts again; its informers list everything.
Restart ==
  /\ Disturb
  /\ pass' = NoPass
  /\ queued' = TRUE
  /\ shop' = <<Latest(shop)>>
  /\ deployment' = [s \in Services |-> <<Latest(deployment[s])>>]
  /\ job' = [s \in Services |-> <<Latest(job[s])>>]
  /\ database' = [k \in Kinds |-> <<Latest(database[k])>>]
  /\ UNCHANGED <<operator, ingress, past>>

(***************************************************************************)
(* The environment.                                                        *)
(***************************************************************************)

\* The owner changes the tier or the database type.
Edit ==
  /\ Disturb
  /\ \E n \in Tiers, k \in Kinds :
       LET now == Latest(shop)
       IN  /\ <<n, k>> # <<now.replicas, now.kind>>
           /\ shop' = Append(shop, [now EXCEPT !.replicas = n, !.kind = k,
                                               !.generation = @ + 1])
  /\ UNCHANGED <<deployment, job, database, operator, ingress, queued, pass, past>>

InstallOperator ==
  /\ \E k \in Kinds \ operator : operator' = operator \cup {k}
  /\ UNCHANGED <<shop, deployment, job, database, ingress, queued, pass, past, budget>>

\* The database operator's report.
DatabaseReports(from, to) ==
  /\ \E k \in Kinds :
       /\ Latest(database[k]) = from /\ Room(database[k])
       /\ database' = WithDatabase(k, to)
       /\ past' = IF to = "ready" THEN [past EXCEPT !.ready = @ \cup {k}] ELSE past
  /\ UNCHANGED <<shop, deployment, job, operator, ingress, queued, pass>>

DatabaseUp   == DatabaseReports("provisioning", "ready") /\ UNCHANGED budget
DatabaseDown == DatabaseReports("ready", "provisioning") /\ Disturb

\* The Job controller's report, and its TTL of 600 s for a finished Job.
JobReports(s, from, to) ==
  /\ Latest(job[s]) = from /\ Room(job[s])
  /\ job' = [job EXCEPT ![s] = Append(@, to)]
  /\ past' = IF to = "succeeded" THEN [past EXCEPT !.migrated = @ \cup {s}] ELSE past
  /\ UNCHANGED <<shop, deployment, database, operator, ingress, queued, pass>>

JobSucceeds(s)    == JobReports(s, "running", "succeeded") /\ UNCHANGED budget
JobFails(s)       == JobReports(s, "running", "failed") /\ Disturb
FailureExpires(s) == JobReports(s, "failed", "absent") /\ UNCHANGED budget
SuccessExpires(s) == JobReports(s, "succeeded", "absent") /\ Disturb

\* The pods of a Deployment are not what it wants.
Unsettled(s) ==
  LET d == Latest(deployment[s]) IN d # NoDeployment /\ ~(d.ready = d.replicas /\ d.current)

\* The Deployment controller replaces the pods of old templates, keeping as
\* many ready as before, and reaches the replica count.
Settle(s) ==
  /\ Room(deployment[s])
  /\ Unsettled(s)
  /\ Rolls(s, [Latest(deployment[s]) EXCEPT !.ready = Latest(deployment[s]).replicas,
                                            !.current = TRUE])
  /\ UNCHANGED <<shop, job, database, operator, ingress, queued, pass, budget>>

\* Pods are lost, or somebody scales the Deployment.
Upset(s) ==
  /\ Room(deployment[s])
  /\ Latest(deployment[s]) # NoDeployment
  /\ Disturb
  /\ LET now == Latest(deployment[s])
     IN  \/ now.ready > 0 /\ Rolls(s, [now EXCEPT !.ready = @ - 1])
         \/ \E n \in Tiers \ {now.replicas} : Rolls(s, [now EXCEPT !.replicas = n])
  /\ UNCHANGED <<shop, job, database, operator, ingress, queued, pass>>

Deliver ==
  \/ DeliverShop \/ DeliverLight
  \/ \E s \in Services : DeliverDeployment(s) \/ DeliverJob(s)

\* What a Shop uses works in the end: databases come up, Jobs finish and
\* expire, Deployments settle.
Progress == DatabaseUp \/ \E s \in Services : JobSucceeds(s) \/ FailureExpires(s) \/ Settle(s)

Next ==
  \/ Reconcile \/ Fail \/ Restart
  \/ Deliver \/ Progress
  \/ Edit \/ InstallOperator \/ DatabaseDown
  \/ \E s \in Services : JobFails(s) \/ SuccessExpires(s) \/ Upset(s)

Spec == Init /\ [][Next]_vars

\* The worker and the watches are served, and what a Shop uses makes progress.
Fairness == WF_vars(Reconcile) /\ WF_vars(Deliver) /\ WF_vars(Progress)

FairSpec == Spec /\ Fairness

(***************************************************************************)
(* Properties.                                                             *)
(***************************************************************************)

TypeOK ==
  /\ shop \in Seq(Shop) /\ Len(shop) > 0
  /\ deployment \in [Services -> Seq(Deployment \cup {NoDeployment})]
  /\ job \in [Services -> Seq({"absent", "running", "succeeded", "failed"})]
  /\ \A s \in Services : Len(deployment[s]) > 0 /\ Len(job[s]) > 0
  /\ database \in [Kinds -> Seq({"absent", "provisioning", "ready"})]
  /\ \A k \in Kinds : Len(database[k]) > 0 /\ (k = "standard" => Len(database[k]) = 1)
  /\ operator \subseteq Kinds
  /\ ingress \in BOOLEAN
  /\ queued \in BOOLEAN
  /\ pass \in Pass \cup {NoPass}
  /\ past \in Past
  /\ budget \in 0..MaxDisturbances

\* Reported ready for its present generation.
ReadyNow == Ready(Latest(shop)) /\ Latest(shop).observed = Latest(shop).generation

\* A Shop that is reported ready for its present generation has had, for that
\* very spec, a database that was ready, its migrations done and every
\* Deployment at its replica count, though perhaps with pods of an older
\* template (AvailableIsFunctional), however old the caches were
\* (shop_controller.go:234-266, 1109-1139).
ReadyIsEarned ==
  LET now == Latest(shop)
  IN  ReadyNow => /\ now.kind \in past.ready
                  /\ \A s \in Services :
                       /\ \E c \in BOOLEAN : <<s, now.replicas, now.kind, c>> \in past.served
                       /\ HasMigrations(s) /\ now.kind = "standard" => s \in past.migrated

\* Each Deployment follows the Shop.
Followed == \A s \in Services : /\ Latest(deployment[s]).replicas = Latest(shop).replicas
                                /\ Latest(deployment[s]).kind = Latest(shop).kind

\* Nothing is left to do for the Shop: no key is queued and no pass runs, and
\* what is watched has been delivered.
Quiet == /\ ~queued /\ pass = NoPass
         /\ UpToDate(shop) /\ \A s \in Services : UpToDate(deployment[s])

\* The controller comes to rest only when everything is there and reported:
\* whatever a pass finds missing, and whatever it cannot write, brings another
\* pass, by a requeue or by an event (shop_controller.go:222-279).  The ready
\* replicas are those that the last pass has counted.
RestsWhenReady ==
  Quiet => /\ ReadyNow /\ ingress /\ Followed
           /\ \A s \in Services : Latest(deployment[s]).ready = Latest(shop).replicas

PodsUp == Followed /\ \A s \in Services : ~Unsettled(s)

\* With its database operator installed a Shop ends up ready, and its pods up
\* for its present spec, whatever was edited, lost or scaled before: the Job,
\* the StatefulSet and the Cluster are not watched, the requeues find them
\* (shop_controller.go:272-279).
BecomesReady == <>[](operator = Kinds) => <>[](ReadyNow /\ PodsUp)

\* The application and its Ingress are there, as the last edit wants them,
\* with or without a database operator: "we never hard-fail on a missing DB
\* operator" (shop_controller.go:483); drift "is corrected back" (:730).
AppIsThere == <>[](Followed /\ ingress)

(***************************************************************************)
(* What the repository says and the code does not keep.                    *)
(***************************************************************************)

\* "`ready: true`, condition `ShopReady` once pods are up" (TESTING.md:43):
\* with every cache fresh, the database ready, also when the pass looked at it,
\* and all pods up for the present spec, no step takes a Shop's readiness away.
Fresh ==
  /\ UpToDate(shop)
  /\ \A s \in Services : UpToDate(deployment[s]) /\ UpToDate(job[s])
  /\ \A k \in Kinds : UpToDate(database[k])
  /\ pass.call = "status" => pass.state = "ready"

StaysReady ==
  [][ Fresh /\ PodsUp /\ Latest(database[Latest(shop).kind]) = "ready" /\ Ready(Latest(shop))
        => Ready(Latest(shop')) ]_vars

\* "Available": the resource is fully functional (api/v1/shop_types.go:102):
\* a Shop that is Available for its present generation has had all its pods
\* running that very spec.
AvailableIsFunctional ==
  ReadyNow => \A s \in Services :
                <<s, Latest(shop).replicas, Latest(shop).kind, TRUE>> \in past.served
=============================================================================
