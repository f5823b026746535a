--------------------------- MODULE RolloutProofs ---------------------------
(***************************************************************************)
(* Proofs about Rollout, for any number of services, any lag and any       *)
(* number of disturbances.                                                 *)
(*                                                                         *)
(* The argument: what any version of a database, a Job or a Deployment     *)
(* shows was achieved once, so that a pass learns nothing from a cache,    *)
(* however old, that is not in the past.  While allReady is TRUE the past  *)
(* therefore holds what the pass has gone through, for the spec that it    *)
(* read; and the status is accepted only for that spec.                    *)
(*                                                                         *)
(* That the controller rests only when all is ready: a pass that neither   *)
(* an event nor a key follows is about the latest Shop, and what it counts *)
(* as ready is ready still, since every later change of a Deployment would *)
(* be an event (LastPassInv).                                              *)
(***************************************************************************)
EXTENDS Rollout, TLAPS

(***************************************************************************)
(* The inductive invariant.                                                *)
(***************************************************************************)

\* What a history consists of.
Versions(h) == {h[i] : i \in 1..Len(h)}

\* A set of versions after a write of o.
Beside(V, o) == V \cup {o}

\* Deployment d of service s had all its pods ready.
WasServed(s, d) == <<s, d.replicas, d.kind, d.current>> \in past.served

\* What the versions show was achieved.
DatabaseInv == \A k \in Kinds : "ready" \in Versions(database[k]) => k \in past.ready
JobInv == \A s \in Services : "succeeded" \in Versions(job[s]) => s \in past.migrated
DeploymentInv ==
  \A s \in Services : \A d \in Versions(deployment[s]) :
    d # NoDeployment /\ d.ready = d.replicas => WasServed(s, d)

\* The past holds the Deployment of s, its migrations, as the spec p wants them.
Served(p, s) == \E c \in BOOLEAN : <<s, p.replicas, p.kind, c>> \in past.served
MigrationsDone(p, s) == HasMigrations(s) /\ p.kind = "standard" => s \in past.migrated

\* The pass is done with the i-th service, or with its migrations.
Deployed(i) == pass.call \in {"status", "ingress"} \/ i < pass.service
Prepared(i) == Deployed(i) \/ (pass.call = "deploy" /\ i = pass.service)

\* What a pass has found ready is in the past.
PassInv ==
  pass # NoPass /\ pass.allReady =>
    /\ pass.state = "ready" /\ pass.shop.kind \in past.ready
    /\ \A i \in DOMAIN Microservices :
         /\ Deployed(i) => Served(pass.shop, Microservices[i])
         /\ Prepared(i) => MigrationsDone(pass.shop, Microservices[i])

\* A pass enters the loop at its beginning.
EntryInv == pass.call = "database" => pass.service = 1

\* No generation was observed before its time: an edit is not Available.
ShopInv == Latest(shop).observed <= Latest(shop).generation

IInv ==
  /\ TypeOK /\ DatabaseInv /\ JobInv /\ DeploymentInv
  /\ EntryInv /\ PassInv /\ ShopInv /\ ReadyIsEarned

(***************************************************************************)
(* Histories.                                                              *)
(***************************************************************************)

\* The versions that a cache and the server show.
LEMMA Ends ==
  ASSUME NEW S, NEW h \in Seq(S), Len(h) > 0
  PROVE  /\ Len(h) \in Nat
         /\ Latest(h) \in S /\ Latest(h) \in Versions(h)
         /\ Shown(h) \in S /\ Shown(h) \in Versions(h)
  BY DEF Latest, Shown, Versions

\* A write adds a version.
LEMMA Appended ==
  ASSUME NEW S, NEW h \in Seq(S), NEW o \in S
  PROVE  /\ Append(h, o) \in Seq(S) /\ Len(Append(h, o)) > 0
         /\ Latest(Append(h, o)) = o
         /\ Versions(Append(h, o)) = Versions(h) \cup {o}
<1>1. /\ Append(h, o) \in Seq(S) /\ Len(h) \in Nat /\ Len(Append(h, o)) = Len(h) + 1
      /\ Append(h, o)[Len(h) + 1] = o
      /\ \A i \in 1..Len(h) : Append(h, o)[i] = h[i]
  OBVIOUS
<1>2. \A i \in 1..Len(h) + 1 : i \in 1..Len(h) \/ i = Len(h) + 1
  BY <1>1
<1>3. 1..Len(h) \subseteq 1..Len(h) + 1 /\ Len(h) + 1 \in 1..Len(h) + 1
  BY <1>1
<1>4. Versions(Append(h, o)) \subseteq Versions(h) \cup {o}
  BY <1>1, <1>2 DEF Versions
<1>5. Versions(h) \cup {o} \subseteq Versions(Append(h, o))
  BY <1>1, <1>3 DEF Versions
<1> QED BY <1>1, <1>4, <1>5 DEF Latest

\* An informer that moves on drops a version that is not the latest.
LEMMA Advanced ==
  ASSUME NEW S, NEW h \in Seq(S), Len(h) > 1
  PROVE  /\ Tail(h) \in Seq(S) /\ Len(Tail(h)) > 0
         /\ Latest(Tail(h)) = Latest(h)
         /\ Versions(Tail(h)) \subseteq Versions(h)
<1>1. /\ Tail(h) \in Seq(S) /\ Len(h) \in Nat /\ Len(Tail(h)) = Len(h) - 1
      /\ \A i \in 1..Len(h) - 1 : Tail(h)[i] = h[i + 1]
  OBVIOUS
<1>2. \A i \in 1..Len(h) - 1 : i + 1 \in 1..Len(h)
  BY <1>1
<1>3. Latest(Tail(h)) = Latest(h)
  BY <1>1 DEF Latest
<1>4. Versions(Tail(h)) \subseteq Versions(h)
  BY <1>1, <1>2 DEF Versions
<1> QED BY <1>1, <1>3, <1>4

\* A cache that is listed again shows the latest version only.
LEMMA Listed ==
  ASSUME NEW S, NEW o \in S
  PROVE  /\ <<o>> \in Seq(S) /\ Len(<<o>>) = 1 /\ Latest(<<o>>) = o
         /\ Versions(<<o>>) = {o}
<1>1. <<o>> \in Seq(S) /\ Len(<<o>>) = 1 /\ <<o>>[1] = o
  OBVIOUS
<1>2. Versions(<<o>>) = {o}
  <2>1. 1..1 = {1}
    OBVIOUS
  <2> QED BY <1>1, <2>1 DEF Versions
<1> QED BY <1>1, <1>2 DEF Latest

(***************************************************************************)
(* Types.                                                                  *)
(***************************************************************************)

JobStates == {"absent", "running", "succeeded", "failed"}
Reports == {"absent", "provisioning", "ready"}

ShopType == shop \in Seq(Shop) /\ Len(shop) > 0
DeploymentType ==
  /\ deployment \in [Services -> Seq(Deployment \cup {NoDeployment})]
  /\ \A s \in Services : Len(deployment[s]) > 0
JobType == job \in [Services -> Seq(JobStates)] /\ \A s \in Services : Len(job[s]) > 0
DatabaseType ==
  /\ database \in [Kinds -> Seq(Reports)]
  /\ \A k \in Kinds : Len(database[k]) > 0 /\ (k = "standard" => Len(database[k]) = 1)
PassType == pass \in Pass \cup {NoPass}
PastType == past \in Past
RestType == operator \subseteq Kinds /\ ingress \in BOOLEAN /\ queued \in BOOLEAN
BudgetType == budget \in 0..MaxDisturbances

LEMMA TypeParts ==
  TypeOK <=> /\ ShopType /\ DeploymentType /\ JobType /\ DatabaseType
             /\ PassType /\ PastType /\ RestType /\ BudgetType
  BY DEF TypeOK, ShopType, DeploymentType, JobType, DatabaseType, PassType, PastType,
         RestType, BudgetType, JobStates, Reports

LEMMA TypeInit == Init => TypeOK
<1> SUFFICES ASSUME Init PROVE TypeOK
  OBVIOUS
<1>1. ShopType
  <2>1. PICK n \in Tiers, k \in Created : shop = <<NewShop(n, k)>>
    BY DEF Init
  <2>2. NewShop(n, k) \in Shop
    BY RolloutAssumption DEF NewShop, Shop, Reasons
  <2> QED BY <2>1, <2>2, Listed DEF ShopType
<1>2. DeploymentType
  <2>1. <<NoDeployment>> \in Seq(Deployment \cup {NoDeployment}) /\ Len(<<NoDeployment>>) = 1
    BY Listed
  <2> QED BY <2>1 DEF Init, DeploymentType
<1>3. JobType
  <2>1. <<"absent">> \in Seq(JobStates) /\ Len(<<"absent">>) = 1
    BY DEF JobStates
  <2> QED BY <2>1 DEF Init, JobType
<1>4. DatabaseType
  <2>1. <<"absent">> \in Seq(Reports) /\ Len(<<"absent">>) = 1
    BY DEF Reports
  <2> QED BY <2>1 DEF Init, DatabaseType
<1>5. PassType /\ PastType
  BY DEF Init, PassType, PastType, NoPast, Past
<1>6. RestType /\ BudgetType
  <2>1. operator \subseteq Kinds
    BY DEF Init
  <2>2. RestType
    BY <2>1 DEF Init, RestType
  <2>3. BudgetType
    BY RolloutAssumption DEF Init, BudgetType
  <2> QED BY <2>2, <2>3
<1> QED BY <1>1, <1>2, <1>3, <1>4, <1>5, <1>6, TypeParts

\* A running pass and the service that it is at.
LEMMA Running ==
  ASSUME PassType, pass # NoPass
  PROVE  /\ pass \in Pass /\ pass.shop \in Shop /\ pass.base \in Nat
         /\ pass.service \in DOMAIN Microservices
         /\ pass.service \in 1..Len(Microservices) /\ Len(Microservices) \in Nat
         /\ Microservices[pass.service] \in Services
         /\ pass.state \in DatabaseStates /\ pass.allReady \in BOOLEAN
<1>1. pass \in Pass
  BY DEF PassType
<1>2. DOMAIN Microservices = 1..Len(Microservices) /\ Len(Microservices) \in Nat
  BY RolloutAssumption
<1>3. pass.service \in 1..Len(Microservices)
  BY <1>1 DEF Pass
<1>4. Microservices[pass.service] \in Services
  BY <1>2, <1>3 DEF Services
<1> QED BY <1>1, <1>2, <1>3, <1>4 DEF Pass

\* What the pass is after each of its parts.
LEMMA Enters ==
  ASSUME PassType, pass # NoPass, NEW st \in {"missing", "provisioning", "ready"}, Enter(st)
  PROVE  /\ PassType' /\ pass' # NoPass /\ pass'.call = "migrate"
         /\ pass'.shop = pass.shop /\ pass'.service = pass.service
         /\ pass'.state = st /\ pass'.allReady = (st = "ready")
<1>1. pass \in Pass
  BY Running
<1>2. pass' \in Pass /\ pass'.call = "migrate"
  BY <1>1 DEF Enter, Pass, DatabaseStates
<1>3. /\ pass'.shop = pass.shop /\ pass'.service = pass.service
      /\ pass'.state = st /\ pass'.allReady = (st = "ready")
  BY <1>1 DEF Enter, Pass
<1> QED BY <1>2, <1>3 DEF PassType, NoPass

LEMMA Migrates ==
  ASSUME PassType, pass # NoPass, NEW done \in BOOLEAN, Migrated(done)
  PROVE  /\ PassType' /\ pass' # NoPass /\ pass'.call = "deploy"
         /\ pass'.shop = pass.shop /\ pass'.service = pass.service /\ pass'.state = pass.state
         /\ pass'.allReady = (pass.allReady /\ done)
<1>1. pass \in Pass
  BY Running
<1>2. pass' \in Pass /\ pass'.call = "deploy"
  BY <1>1 DEF Migrated, Pass
<1>3. /\ pass'.shop = pass.shop /\ pass'.service = pass.service /\ pass'.state = pass.state
      /\ pass'.allReady = (pass.allReady /\ done)
  BY <1>1 DEF Migrated, Pass
<1> QED BY <1>2, <1>3 DEF PassType, NoPass

LEMMA Moves ==
  ASSUME PassType, pass # NoPass, NEW r \in BOOLEAN, Onward(r)
  PROVE  /\ PassType' /\ pass' # NoPass
         /\ pass'.shop = pass.shop /\ pass'.state = pass.state
         /\ pass'.allReady = (pass.allReady /\ r)
         /\ \/ pass'.call = "migrate" /\ pass'.service = pass.service + 1
            \/ pass'.call = "status" /\ pass.service = Len(Microservices)
<1>1. /\ pass \in Pass /\ pass.service \in 1..Len(Microservices)
      /\ Len(Microservices) \in Nat
  BY Running
<1>2. CASE pass.service < Len(Microservices)
  <2>1. pass' = [pass EXCEPT !.call = "migrate", !.service = pass.service + 1,
                             !.allReady = pass.allReady /\ r]
    BY <1>2 DEF Onward
  <2>2. pass.service + 1 \in 1..Len(Microservices)
    BY <1>1, <1>2
  <2>3. pass' \in Pass /\ pass'.call = "migrate"
    BY <1>1, <2>1, <2>2 DEF Pass
  <2>4. /\ pass'.shop = pass.shop /\ pass'.state = pass.state
        /\ pass'.allReady = (pass.allReady /\ r) /\ pass'.service = pass.service + 1
    BY <1>1, <2>1 DEF Pass
  <2> QED BY <2>3, <2>4 DEF PassType, NoPass
<1>3. CASE pass.service = Len(Microservices)
  <2>1. pass' = [pass EXCEPT !.call = "status", !.allReady = pass.allReady /\ r]
    BY <1>1, <1>3 DEF Onward
  <2>2. pass' \in Pass /\ pass'.call = "status"
    BY <1>1, <2>1 DEF Pass
  <2>3. /\ pass'.shop = pass.shop /\ pass'.state = pass.state
        /\ pass'.allReady = (pass.allReady /\ r)
    BY <1>1, <2>1 DEF Pass
  <2> QED BY <1>3, <2>2, <2>3 DEF PassType, NoPass
<1> QED BY <1>1, <1>2, <1>3

\* A history of a family gets a version, loses one, or all are listed again.
WithVersion(f, x, o) == [f EXCEPT ![x] = Append(f[x], o)]
WithoutFirst(f, x) == [f EXCEPT ![x] = Tail(f[x])]
ListedAgain(D, f) == [d \in D |-> <<Latest(f[d])>>]

LEMMA Extended ==
  ASSUME NEW D, NEW S, NEW f \in [D -> Seq(S)], NEW x \in D, NEW o \in S,
         \A d \in D : Len(f[d]) > 0
  PROVE  /\ WithVersion(f, x, o) \in [D -> Seq(S)]
         /\ \A d \in D : Len(WithVersion(f, x, o)[d]) > 0
         /\ \A d \in D \ {x} : WithVersion(f, x, o)[d] = f[d]
         /\ Versions(WithVersion(f, x, o)[x]) = Beside(Versions(f[x]), o)
<1>1. PICK h \in Seq(S) : h = f[x]
  OBVIOUS
<1>2. /\ Append(h, o) \in Seq(S) /\ Len(Append(h, o)) > 0
      /\ Versions(Append(h, o)) = Versions(h) \cup {o}
  BY Appended
<1>3. /\ WithVersion(f, x, o)[x] = Append(h, o)
      /\ \A d \in D \ {x} : WithVersion(f, x, o)[d] = f[d]
  BY <1>1 DEF WithVersion
<1>4. WithVersion(f, x, o) \in [D -> Seq(S)]
  BY <1>1, <1>2 DEF WithVersion
<1> QED BY <1>1, <1>2, <1>3, <1>4 DEF Beside

LEMMA Trimmed ==
  ASSUME NEW D, NEW S, NEW f \in [D -> Seq(S)], NEW x \in D,
         \A d \in D : Len(f[d]) > 0, Len(f[x]) > 1
  PROVE  /\ WithoutFirst(f, x) \in [D -> Seq(S)]
         /\ \A d \in D : Len(WithoutFirst(f, x)[d]) > 0
         /\ \A d \in D \ {x} : WithoutFirst(f, x)[d] = f[d]
         /\ \A d \in D : Versions(WithoutFirst(f, x)[d]) \subseteq Versions(f[d])
<1>1. PICK h \in Seq(S) : h = f[x]
  OBVIOUS
<1>2. Tail(h) \in Seq(S) /\ Len(Tail(h)) > 0 /\ Versions(Tail(h)) \subseteq Versions(h)
  BY <1>1, Advanced
<1>3. /\ WithoutFirst(f, x)[x] = Tail(h)
      /\ \A d \in D \ {x} : WithoutFirst(f, x)[d] = f[d]
  BY <1>1 DEF WithoutFirst
<1>4. WithoutFirst(f, x) \in [D -> Seq(S)]
  BY <1>1, <1>2 DEF WithoutFirst
<1> QED BY <1>1, <1>2, <1>3, <1>4

LEMMA Relisted ==
  ASSUME NEW D, NEW S, NEW f \in [D -> Seq(S)], \A d \in D : Len(f[d]) > 0
  PROVE  /\ ListedAgain(D, f) \in [D -> Seq(S)]
         /\ \A d \in D : Len(ListedAgain(D, f)[d]) = 1
         /\ \A d \in D : Versions(ListedAgain(D, f)[d]) \subseteq Versions(f[d])
<1>1. ASSUME NEW d \in D
      PROVE  /\ <<Latest(f[d])>> \in Seq(S) /\ Len(<<Latest(f[d])>>) = 1
             /\ Versions(<<Latest(f[d])>>) \subseteq Versions(f[d])
  <2>1. PICK h \in Seq(S) : h = f[d] /\ Len(h) > 0
    OBVIOUS
  <2>2. PICK o \in S : o = Latest(h) /\ o \in Versions(h)
    BY <2>1, Ends
  <2>3. <<o>> \in Seq(S) /\ Len(<<o>>) = 1 /\ Versions(<<o>>) = {o}
    BY Listed
  <2> QED BY <2>1, <2>2, <2>3
<1>2. \A d \in D : ListedAgain(D, f)[d] = <<Latest(f[d])>>
  BY DEF ListedAgain
<1>3. ListedAgain(D, f) \in [D -> Seq(S)]
  BY <1>1 DEF ListedAgain
<1> QED BY <1>1, <1>2, <1>3

\* What one database's history becomes.
LEMMA DatabaseWritten ==
  ASSUME DatabaseType, NEW k \in Kinds, NEW o \in Reports, database' = WithDatabase(k, o)
  PROVE  /\ DatabaseType'
         /\ \A l \in Kinds \ {k} : database'[l] = database[l]
         /\ Versions(database'[k]) \subseteq Versions(database[k]) \cup {o}
<1>1. CASE k = "light"
  <2>1. database' = WithVersion(database, k, o)
    BY <1>1 DEF WithDatabase, WithVersion
  <2>2. database \in [Kinds -> Seq(Reports)] /\ \A l \in Kinds : Len(database[l]) > 0
    BY DEF DatabaseType
  <2>3. database' \in [Kinds -> Seq(Reports)] /\ \A l \in Kinds : Len(database'[l]) > 0
    BY <2>1, <2>2, Extended
  <2>4. \A l \in Kinds \ {k} : database'[l] = database[l]
    BY <2>1, <2>2, Extended
  <2>5. Versions(database'[k]) = Beside(Versions(database[k]), o)
    BY <2>1, <2>2, Extended
  <2> QED BY <1>1, <2>3, <2>4, <2>5 DEF DatabaseType, Beside
<1>2. CASE k # "light"
  <2>1. <<o>> \in Seq(Reports) /\ Len(<<o>>) = 1 /\ Versions(<<o>>) = {o}
    BY Listed
  <2>2. database' = [database EXCEPT ![k] = <<o>>]
    BY <1>2 DEF WithDatabase
  <2>3. DatabaseType'
    BY <2>1, <2>2 DEF DatabaseType
  <2> QED BY <2>1, <2>2, <2>3 DEF DatabaseType
<1> QED BY <1>1, <1>2

\* What one Job's or one Deployment's history becomes.
LEMMA JobWritten ==
  ASSUME JobType, NEW s \in Services, NEW o \in JobStates,
         job' = WithVersion(job, s, o)
  PROVE  /\ JobType'
         /\ \A r \in Services \ {s} : job'[r] = job[r]
         /\ Versions(job'[s]) = Beside(Versions(job[s]), o)
<1>1. job \in [Services -> Seq(JobStates)] /\ \A r \in Services : Len(job[r]) > 0
  BY DEF JobType
<1>2. job' \in [Services -> Seq(JobStates)] /\ \A r \in Services : Len(job'[r]) > 0
  BY <1>1, Extended
<1>3. \A r \in Services \ {s} : job'[r] = job[r]
  BY <1>1, Extended
<1>4. Versions(job'[s]) = Beside(Versions(job[s]), o)
  BY <1>1, Extended
<1> QED BY <1>2, <1>3, <1>4 DEF JobType

AnyDeployment == Deployment \cup {NoDeployment}

LEMMA DeploymentWritten ==
  ASSUME DeploymentType, NEW s \in Services, NEW o \in AnyDeployment,
         deployment' = WithVersion(deployment, s, o)
  PROVE  /\ DeploymentType'
         /\ \A r \in Services \ {s} : deployment'[r] = deployment[r]
         /\ Versions(deployment'[s]) = Beside(Versions(deployment[s]), o)
<1>1. /\ deployment \in [Services -> Seq(AnyDeployment)]
      /\ \A r \in Services : Len(deployment[r]) > 0
  BY DEF DeploymentType, AnyDeployment
<1>2. /\ deployment' \in [Services -> Seq(AnyDeployment)]
      /\ \A r \in Services : Len(deployment'[r]) > 0
  BY <1>1, Extended
<1>3. \A r \in Services \ {s} : deployment'[r] = deployment[r]
  BY <1>1, Extended
<1>4. Versions(deployment'[s]) = Beside(Versions(deployment[s]), o)
  BY <1>1, Extended
<1> QED BY <1>2, <1>3, <1>4 DEF DeploymentType, AnyDeployment

\* What the caches and the server show has its type.
LEMMA Shows ==
  ASSUME TypeOK
  PROVE  /\ Len(shop) \in Nat /\ Shown(shop) \in Shop /\ Latest(shop) \in Shop
         /\ \A s \in Services :
              /\ Shown(deployment[s]) \in AnyDeployment /\ Latest(deployment[s]) \in AnyDeployment
              /\ Shown(deployment[s]) \in Versions(deployment[s])
              /\ Shown(job[s]) \in Versions(job[s])
         /\ \A k \in Kinds : /\ Shown(database[k]) \in Versions(database[k])
                             /\ Latest(database[k]) \in Versions(database[k])
<1>1. ShopType /\ DeploymentType /\ JobType /\ DatabaseType
  BY TypeParts
<1>2. Len(shop) \in Nat /\ Shown(shop) \in Shop /\ Latest(shop) \in Shop
  BY <1>1, Ends DEF ShopType
<1>3. ASSUME NEW s \in Services
      PROVE  /\ Shown(deployment[s]) \in AnyDeployment /\ Latest(deployment[s]) \in AnyDeployment
             /\ Shown(deployment[s]) \in Versions(deployment[s])
  <2>1. PICK h \in Seq(AnyDeployment) : h = deployment[s] /\ Len(h) > 0
    BY <1>1 DEF DeploymentType, AnyDeployment
  <2> QED BY <2>1, Ends
<1>4. ASSUME NEW s \in Services PROVE Shown(job[s]) \in Versions(job[s])
  <2>1. PICK h \in Seq(JobStates) : h = job[s] /\ Len(h) > 0
    BY <1>1 DEF JobType
  <2> QED BY <2>1, Ends
<1>5. ASSUME NEW k \in Kinds
      PROVE  Shown(database[k]) \in Versions(database[k]) /\ Latest(database[k]) \in Versions(database[k])
  <2>1. PICK h \in Seq(Reports) : h = database[k] /\ Len(h) > 0
    BY <1>1 DEF DatabaseType
  <2> QED BY <2>1, Ends
<1> QED BY <1>2, <1>3, <1>4, <1>5

\* The past forgets nothing.
Grows ==
  past.ready \subseteq past'.ready /\ past.migrated \subseteq past'.migrated
    /\ past.served \subseteq past'.served

LEMMA Rolled ==
  ASSUME TypeOK, NEW s \in Services, NEW d \in Deployment, Rolls(s, d)
  PROVE  /\ DeploymentType' /\ PastType' /\ Grows
         /\ past'.ready = past.ready /\ past'.migrated = past.migrated
         /\ \A r \in Services \ {s} : deployment'[r] = deployment[r]
         /\ Versions(deployment'[s]) = Beside(Versions(deployment[s]), d)
         /\ d.ready = d.replicas => WasServed(s, d)'
<1>1. DeploymentType /\ past \in Past
  BY TypeParts DEF PastType
<1>2. d \in AnyDeployment /\ deployment' = WithVersion(deployment, s, d)
  BY DEF Rolls, AnyDeployment, WithVersion
<1>3. DeploymentType' /\ \A r \in Services \ {s} : deployment'[r] = deployment[r]
  BY <1>1, <1>2, DeploymentWritten
<1>4. Versions(deployment'[s]) = Beside(Versions(deployment[s]), d)
  BY <1>1, <1>2, DeploymentWritten
<1>5. PICK x : x = <<s, d.replicas, d.kind, d.current>>
  OBVIOUS
<1>6. x \in Services \X {2, 3} \X {"standard", "light"} \X BOOLEAN
  BY <1>5 DEF Deployment
<1>7. CASE d.ready = d.replicas
  <2>1. past' = [past EXCEPT !.served = past.served \cup {x}]
    BY <1>5, <1>7 DEF Rolls
  <2>2. /\ past'.ready = past.ready /\ past'.migrated = past.migrated
        /\ past'.served = past.served \cup {x} /\ past' \in Past
    BY <1>1, <1>6, <2>1 DEF Past
  <2> QED BY <1>3, <1>4, <1>5, <2>2 DEF PastType, Grows, WasServed
<1>8. CASE d.ready # d.replicas
  BY <1>1, <1>3, <1>4, <1>8 DEF Rolls, PastType, Grows
<1> QED BY <1>7, <1>8

(***************************************************************************)
(* What the actions do.                                                    *)
(***************************************************************************)

\* The pass has entered the loop, knowing that the database is ready or not.
LEMMA DatabaseDoes ==
  ASSUME TypeOK, Database
  PROVE  /\ pass # NoPass /\ UNCHANGED <<shop, deployment, job, operator, ingress, past, budget>>
         /\ \/ Enter("missing") /\ UNCHANGED database
            \/ /\ pass.shop.kind \in Kinds /\ Enter("provisioning")
               /\ database' = WithDatabase(pass.shop.kind, "provisioning")
            \/ /\ pass.shop.kind \in Kinds /\ UNCHANGED database
               /\ \/ Enter("provisioning")
                  \/ Enter("ready") /\ "ready" \in Versions(database[pass.shop.kind])
<1>1. pass # NoPass /\ UNCHANGED <<shop, deployment, job, operator, ingress, past, budget>>
  BY DEF Database, NoPass
<1> DEFINE k == pass.shop.kind
<1>2. operator \subseteq Kinds
  BY DEF TypeOK
<1>3. CASE k \notin operator /\ Enter("missing") /\ UNCHANGED database
  BY <1>1, <1>3
<1>4. CASE k \in operator /\ database' = WithDatabase(k, "provisioning") /\ Enter("provisioning")
  BY <1>1, <1>2, <1>4
<1>5. CASE k \in operator /\ Enter(DatabaseState(k)) /\ UNCHANGED database
  <2>1. k \in Kinds
    BY <1>2, <1>5
  <2>2. DatabaseState(k) = "ready" => "ready" \in Versions(database[k])
    BY <2>1, Shows DEF DatabaseState
  <2>3. DatabaseState(k) \in {"ready", "provisioning"}
    BY DEF DatabaseState
  <2> QED BY <1>1, <1>5, <2>1, <2>2, <2>3
<1> QED BY <1>3, <1>4, <1>5 DEF Database

\* The pass knows that the migrations of its service are done, or not.
LEMMA MigrateDoes ==
  ASSUME TypeOK, Migrate, NEW s, s = Microservices[pass.service]
  PROVE  /\ pass # NoPass
         /\ UNCHANGED <<shop, deployment, database, operator, ingress, past, budget>>
         /\ \/ Requeue /\ UNCHANGED job
            \/ Migrated(FALSE) /\ job' = WithVersion(job, s, "running")
            \/ /\ UNCHANGED job
               /\ \E done \in BOOLEAN :
                    /\ Migrated(done)
                    /\ done /\ pass.state = "ready" /\ HasMigrations(s) /\ pass.shop.kind = "standard"
                         => Shown(job[s]) = "succeeded"
<1>1. /\ pass # NoPass
      /\ UNCHANGED <<shop, deployment, database, operator, ingress, past, budget>>
  BY DEF Migrate, NoPass
<1> DEFINE needed == HasMigrations(s) /\ pass.shop.kind = "standard"
<1>2. CASE pass.state # "ready" /\ Migrated(~HasMigrations(s)) /\ UNCHANGED job
  <2>1. (~HasMigrations(s)) \in BOOLEAN
    OBVIOUS
  <2> QED BY <1>1, <1>2, <2>1
<1>3. CASE pass.state = "ready" /\ ~needed /\ Migrated(TRUE) /\ UNCHANGED job
  BY <1>1, <1>3
<1>4. CASE Migrated(Shown(job[s]) = "succeeded") /\ UNCHANGED job
  <2>1. (Shown(job[s]) = "succeeded") \in BOOLEAN
    OBVIOUS
  <2> QED BY <1>1, <1>4, <2>1
<1>5. CASE job' = [job EXCEPT ![s] = Append(@, "running")] /\ Migrated(FALSE)
  BY <1>1, <1>5 DEF WithVersion
<1>6. CASE Requeue /\ UNCHANGED job
  BY <1>1, <1>6
<1> QED BY <1>2, <1>3, <1>4, <1>5, <1>6 DEF Migrate

\* The Deployment that the pass counts as ready is one of the spec it read.
LEMMA DeployDoes ==
  ASSUME TypeOK, Deploy, NEW s, s = Microservices[pass.service]
  PROVE  /\ pass # NoPass /\ s \in Services
         /\ UNCHANGED <<shop, job, database, operator, ingress, budget>>
         /\ \/ Requeue /\ UNCHANGED <<deployment, past>>
            \/ /\ UNCHANGED queued
               /\ \E d \in Deployment :
                    /\ d.replicas = pass.shop.replicas /\ d.kind = pass.shop.kind
                    /\ Onward(d.ready = pass.shop.replicas)
                    /\ Rolls(s, d) \/ (d \in Versions(deployment[s]) /\ UNCHANGED <<deployment, past>>)
<1>1. pass # NoPass /\ UNCHANGED <<shop, job, database, operator, ingress, budget>>
  BY DEF Deploy, NoPass
<1>2. s \in Services /\ pass.shop \in Shop
  BY <1>1, Running, TypeParts
<1> DEFINE old == Shown(deployment[s])
           new == [replicas |-> pass.shop.replicas, kind |-> pass.shop.kind,
                   ready |-> old.ready, current |-> old.current /\ old.kind = pass.shop.kind]
<1>3. old \in AnyDeployment /\ old \in Versions(deployment[s])
  BY <1>2, Shows
<1>4. new \in Deployment
  <2>1. old.ready \in 0..3 /\ old.current \in BOOLEAN
    <3>1. CASE old = NoDeployment
      BY <3>1 DEF NoDeployment
    <3>2. CASE old \in Deployment
      BY <3>2 DEF Deployment
    <3> QED BY <1>3, <3>1, <3>2 DEF AnyDeployment
  <2>2. pass.shop.replicas \in {2, 3} /\ pass.shop.kind \in {"standard", "light"}
    BY <1>2 DEF Shop
  <2>3. (old.current /\ old.kind = pass.shop.kind) \in BOOLEAN
    OBVIOUS
  <2> QED BY <2>1, <2>2, <2>3 DEF Deployment
<1>5. \/ new = old /\ Onward(old.ready = pass.shop.replicas) /\ UNCHANGED <<deployment, queued, past>>
      \/ Rolls(s, new) /\ Onward(new.ready = pass.shop.replicas) /\ UNCHANGED queued
      \/ Requeue /\ UNCHANGED <<deployment, past>>
  BY DEF Deploy
<1>6. new.replicas = pass.shop.replicas /\ new.kind = pass.shop.kind /\ new.ready = old.ready
  OBVIOUS
<1> HIDE DEF new, old
<1> QED BY <1>1, <1>2, <1>3, <1>4, <1>5, <1>6

\* The report on a database or a Job.
LEMMA ReportsDo ==
  ASSUME TypeOK, NEW from, NEW to
  PROVE  /\ DatabaseReports(from, to) /\ to \in Reports =>
              /\ UNCHANGED <<shop, deployment, job, operator, ingress, queued, pass>>
              /\ PastType' /\ Grows
              /\ \E k \in Kinds : /\ database' = WithDatabase(k, to)
                                  /\ to = "ready" => k \in past'.ready
         /\ \A s \in Services : JobReports(s, from, to) =>
              /\ UNCHANGED <<shop, deployment, database, operator, ingress, queued, pass>>
              /\ PastType' /\ Grows
              /\ job' = WithVersion(job, s, to) /\ (to = "succeeded" => s \in past'.migrated)
<1>1. past \in Past
  BY DEF TypeOK
<1>2. ASSUME DatabaseReports(from, to), to \in Reports
      PROVE  /\ UNCHANGED <<shop, deployment, job, operator, ingress, queued, pass>>
             /\ PastType' /\ Grows
             /\ \E k \in Kinds : /\ database' = WithDatabase(k, to)
                                 /\ to = "ready" => k \in past'.ready
  <2>1. PICK k \in Kinds : /\ database' = WithDatabase(k, to)
                           /\ past' = IF to = "ready" THEN [past EXCEPT !.ready = past.ready \cup {k}]
                                      ELSE past
    BY <1>2 DEF DatabaseReports
  <2>2. PastType' /\ Grows /\ (to = "ready" => k \in past'.ready)
    BY <1>1, <2>1 DEF Past, PastType, Grows
  <2> QED BY <1>2, <2>1, <2>2 DEF DatabaseReports
<1>3. ASSUME NEW s \in Services, JobReports(s, from, to)
      PROVE  /\ UNCHANGED <<shop, deployment, database, operator, ingress, queued, pass>>
             /\ PastType' /\ Grows
             /\ job' = WithVersion(job, s, to) /\ (to = "succeeded" => s \in past'.migrated)
  <2>1. PastType' /\ Grows /\ (to = "succeeded" => s \in past'.migrated)
    BY <1>1, <1>3 DEF JobReports, Past, PastType, Grows
  <2> QED BY <1>3, <2>1 DEF JobReports, WithVersion
<1> QED BY <1>2, <1>3

\* Pods come and go, or somebody scales: a Deployment stays one.
LEMMA PodsDo ==
  ASSUME TypeOK, NEW s \in Services, Settle(s) \/ Upset(s)
  PROVE  /\ UNCHANGED <<shop, job, database, operator, ingress, queued, pass>>
         /\ \E d \in Deployment : Rolls(s, d)
<1>1. Latest(deployment[s]) \in Deployment
  <2>1. Latest(deployment[s]) \in AnyDeployment
    BY Shows
  <2>2. Latest(deployment[s]) # NoDeployment
    BY DEF Settle, Upset, Unsettled
  <2> QED BY <2>1, <2>2 DEF AnyDeployment
<1>2. PICK now \in Deployment : now = Latest(deployment[s])
  BY <1>1
<1>3. [now EXCEPT !.ready = now.replicas, !.current = TRUE] \in Deployment
  <2>1. now.replicas \in 0..3
    BY DEF Deployment
  <2> QED BY <2>1 DEF Deployment
<1>4. now.ready > 0 => [now EXCEPT !.ready = now.ready - 1] \in Deployment
  <2>1. now.ready > 0 => now.ready - 1 \in 0..3
    BY <1>2 DEF Deployment
  <2> QED BY <1>2, <2>1 DEF Deployment
<1>5. \A n \in Tiers : [now EXCEPT !.replicas = n] \in Deployment
  BY <1>2, RolloutAssumption DEF Deployment
<1>6. CASE Settle(s)
  BY <1>2, <1>3, <1>6 DEF Settle
<1>7. CASE Upset(s)
  BY <1>2, <1>4, <1>5, <1>7 DEF Upset
<1> QED BY <1>6, <1>7

\* An accepted status: what UpdateStatus makes of the Shop.
NewStatus == [pass.shop EXCEPT !.observed = pass.shop.generation, !.reason = Outcome]

LEMMA StatusDoes ==
  ASSUME TypeOK, UpdateStatus
  PROVE  /\ pass # NoPass /\ NewStatus \in Shop
         /\ UNCHANGED <<deployment, job, database, operator, ingress, past, budget>>
         /\ \/ Requeue /\ UNCHANGED shop
            \/ /\ shop' = Written(shop, NewStatus) /\ UNCHANGED queued
               /\ pass' = [pass EXCEPT !.call = "ingress"]
<1>1. /\ pass # NoPass
      /\ UNCHANGED <<deployment, job, database, operator, ingress, past, budget>>
  BY DEF UpdateStatus, NoPass
<1>2. pass.shop \in Shop
  BY <1>1, Running, TypeParts
<1>3. Outcome \in Reasons
  BY DEF Outcome, Reasons
<1>4. NewStatus \in Shop
  BY <1>2, <1>3 DEF NewStatus, Shop
<1> QED BY <1>1, <1>4 DEF UpdateStatus, NewStatus

\* A write to the Shop: the latest version is what was written.
LEMMA ShopWritten ==
  ASSUME ShopType, NEW o \in Shop, shop' = Written(shop, o) \/ shop' = Append(shop, o)
  PROVE  ShopType' /\ Latest(shop') = o
<1>1. PICK h \in Seq(Shop) : h = shop /\ Len(h) > 0
  BY DEF ShopType
<1>2. Append(h, o) \in Seq(Shop) /\ Len(Append(h, o)) > 0 /\ Latest(Append(h, o)) = o
  BY Appended
<1> QED BY <1>1, <1>2 DEF ShopType, Written

\* Every step keeps the types and forgets nothing.
LEMMA TypeNext == TypeOK /\ [Next]_vars => TypeOK' /\ Grows
<1> SUFFICES ASSUME TypeOK, [Next]_vars PROVE TypeOK' /\ Grows
  OBVIOUS
<1>0. /\ ShopType /\ DeploymentType /\ JobType /\ DatabaseType
      /\ PassType /\ PastType /\ RestType /\ BudgetType
  BY TypeParts
<1>p. /\ ShopType' /\ DeploymentType' /\ JobType' /\ DatabaseType'
      /\ PassType' /\ PastType' /\ RestType' /\ BudgetType'
      => TypeOK'
  BY DEF TypeOK, ShopType, DeploymentType, JobType, DatabaseType, PassType, PastType,
         RestType, BudgetType, JobStates, Reports
<1>1. UNCHANGED shop => ShopType'
  BY <1>0 DEF ShopType
<1>2. UNCHANGED deployment => DeploymentType'
  BY <1>0 DEF DeploymentType
<1>3. UNCHANGED job => JobType'
  BY <1>0 DEF JobType
<1>4. UNCHANGED database => DatabaseType'
  BY <1>0 DEF DatabaseType
<1>5. UNCHANGED pass \/ pass' = NoPass => PassType'
  BY <1>0 DEF PassType
<1>6. UNCHANGED past => PastType' /\ Grows
  BY <1>0 DEF PastType, Grows
<1>7. queued' \in BOOLEAN /\ UNCHANGED operator /\ (UNCHANGED ingress \/ ingress' = TRUE) => RestType'
  BY <1>0 DEF RestType
<1>8. UNCHANGED budget \/ Disturb => BudgetType'
  BY <1>0, RolloutAssumption DEF BudgetType, Disturb
<1>9. queued \in BOOLEAN
  BY <1>0 DEF RestType
<1>10. Requeue => PassType' /\ queued' \in BOOLEAN
  BY <1>5 DEF Requeue
<1>11. CASE Start
  <2>1. pass' \in Pass
    <3>1. Shown(shop) \in Shop /\ 1 \in 1..Len(Microservices)
      BY Shows, RolloutAssumption
    <3> QED BY <1>11, <3>1 DEF Start, Pass, DatabaseStates
  <2>2. PassType'
    BY <2>1 DEF PassType
  <2> QED BY <1>1, <1>2, <1>3, <1>4, <1>6, <1>7, <1>8, <1>11, <2>2, <1>p DEF Start, objects
<1>12. CASE Database
  <2>1. pass # NoPass /\ UNCHANGED <<shop, deployment, job, operator, ingress, past, budget>>
    BY <1>12, DatabaseDoes
  <2>2. PICK st \in {"missing", "provisioning", "ready"} : Enter(st)
    BY <1>12, DatabaseDoes
  <2>3. PassType' /\ queued' \in BOOLEAN
    BY <1>0, <1>9, <2>1, <2>2, Enters DEF Enter
  <2>4. DatabaseType'
    <3>1. "provisioning" \in Reports
      BY DEF Reports
    <3>2. \/ UNCHANGED database
          \/ pass.shop.kind \in Kinds /\ database' = WithDatabase(pass.shop.kind, "provisioning")
      BY <1>12, DatabaseDoes
    <3> QED BY <1>0, <1>4, <3>1, <3>2, DatabaseWritten
  <2> QED BY <1>1, <1>2, <1>3, <1>6, <1>7, <1>8, <2>1, <2>3, <2>4, <1>p
<1>13. CASE Migrate
  <2>1. PICK s : s = Microservices[pass.service]
    OBVIOUS
  <2>2. pass # NoPass /\ UNCHANGED <<shop, deployment, database, operator, ingress, past, budget>>
    BY <1>13, <2>1, MigrateDoes
  <2>3. s \in Services
    BY <1>0, <2>1, <2>2, Running
  <2>4. PassType' /\ queued' \in BOOLEAN
    <3>1. Requeue \/ \E done \in BOOLEAN : Migrated(done)
      BY <1>13, <2>1, MigrateDoes
    <3>2. ASSUME NEW done \in BOOLEAN, Migrated(done) PROVE PassType' /\ queued' \in BOOLEAN
      BY <1>0, <1>9, <2>2, <3>2, Migrates DEF Migrated
    <3> QED BY <1>10, <3>1, <3>2
  <2>5. JobType'
    <3>1. UNCHANGED job \/ job' = WithVersion(job, s, "running")
      BY <1>13, <2>1, MigrateDoes
    <3>2. "running" \in JobStates
      BY DEF JobStates
    <3> QED BY <1>0, <1>3, <2>3, <3>1, <3>2, JobWritten
  <2> QED BY <1>1, <1>2, <1>4, <1>6, <1>7, <1>8, <2>2, <2>4, <2>5, <1>p
<1>14. CASE Deploy
  <2>1. PICK s : s = Microservices[pass.service]
    OBVIOUS
  <2>2. pass # NoPass /\ s \in Services /\ UNCHANGED <<shop, job, database, operator, ingress, budget>>
    BY <1>14, <2>1, DeployDoes
  <2>3. CASE Requeue /\ UNCHANGED <<deployment, past>>
    BY <1>1, <1>2, <1>3, <1>4, <1>6, <1>7, <1>8, <1>10, <2>2, <2>3, <1>p
  <2>4. ASSUME UNCHANGED queued, NEW d \in Deployment, Onward(d.ready = pass.shop.replicas),
               Rolls(s, d) \/ UNCHANGED <<deployment, past>>
        PROVE  TypeOK' /\ Grows
    <3>1. PICK r \in BOOLEAN : Onward(r)
      BY <2>4
    <3>2. PassType'
      BY <1>0, <2>2, <3>1, Moves
    <3>3. DeploymentType' /\ PastType' /\ Grows
      BY <1>2, <1>6, <2>2, <2>4, Rolled
    <3> QED BY <1>1, <1>3, <1>4, <1>7, <1>8, <1>9, <2>2, <2>4, <3>2, <3>3, <1>p
  <2> QED BY <1>14, <2>1, <2>3, <2>4, DeployDoes
<1>15. CASE UpdateStatus
  <2>1. /\ pass # NoPass /\ NewStatus \in Shop
        /\ UNCHANGED <<deployment, job, database, operator, ingress, past, budget>>
    BY <1>15, StatusDoes
  <2>2. CASE Requeue /\ UNCHANGED shop
    BY <1>1, <1>2, <1>3, <1>4, <1>6, <1>7, <1>8, <1>10, <2>1, <2>2, <1>p
  <2>3. CASE /\ shop' = Written(shop, NewStatus) /\ UNCHANGED queued
             /\ pass' = [pass EXCEPT !.call = "ingress"]
    <3>1. ShopType'
      BY <1>0, <2>1, <2>3, ShopWritten
    <3>2. pass \in Pass
      BY <1>0, <2>1, Running
    <3>3. PassType'
      BY <2>3, <3>2 DEF PassType, Pass
    <3> QED BY <1>2, <1>3, <1>4, <1>6, <1>7, <1>8, <1>9, <2>1, <2>3, <3>1, <3>3, <1>p
  <2> QED BY <1>15, <2>2, <2>3, StatusDoes
<1>16. CASE Finish
  <2>1. queued' \in BOOLEAN
    BY <1>16, Zenon DEF Finish
  <2> QED BY <1>1, <1>2, <1>3, <1>4, <1>5, <1>6, <1>7, <1>8, <1>16, <2>1, <1>p DEF Finish
<1>17. CASE Fail
  BY <1>1, <1>2, <1>3, <1>4, <1>6, <1>7, <1>8, <1>10, <1>17, <1>p DEF Fail
<1>18. CASE DeliverShop
  <2>1. ShopType'
    BY <1>0, <1>18 DEF DeliverShop, ShopType
  <2>2. PassType'
    <3>1. CASE pass = NoPass \/ pass.base = 0
      BY <1>5, <1>18, <3>1 DEF DeliverShop
    <3>2. CASE pass # NoPass /\ pass.base # 0
      <4>1. pass \in Pass /\ pass.base \in Nat /\ pass.base - 1 \in Nat
        BY <1>0, <3>2, Running
      <4>2. pass' = [pass EXCEPT !.base = pass.base - 1]
        BY <1>18, <3>2 DEF DeliverShop
      <4> QED BY <4>1, <4>2 DEF PassType, Pass
    <3> QED BY <3>1, <3>2
  <2> QED BY <1>2, <1>3, <1>4, <1>6, <1>7, <1>8, <1>18, <2>1, <2>2, <1>p DEF DeliverShop
<1>19. ASSUME NEW s \in Services, DeliverDeployment(s) PROVE TypeOK' /\ Grows
  <2>1. deployment' = WithoutFirst(deployment, s) /\ Len(deployment[s]) > 1
    BY <1>19 DEF DeliverDeployment, WithoutFirst
  <2>2. /\ deployment \in [Services -> Seq(Deployment \cup {NoDeployment})]
        /\ \A r \in Services : Len(deployment[r]) > 0
    BY <1>0 DEF DeploymentType
  <2>3. deployment' \in [Services -> Seq(Deployment \cup {NoDeployment})]
    BY <2>1, <2>2, Trimmed
  <2>4. \A r \in Services : Len(deployment'[r]) > 0
    BY <2>1, <2>2, Trimmed
  <2>5. DeploymentType'
    BY <2>3, <2>4 DEF DeploymentType
  <2> QED BY <1>1, <1>3, <1>4, <1>5, <1>6, <1>7, <1>8, <1>19, <2>5, <1>p DEF DeliverDeployment
<1>20. ASSUME NEW s \in Services, DeliverJob(s) PROVE TypeOK' /\ Grows
  <2>1. job' = WithoutFirst(job, s) /\ Len(job[s]) > 1
    BY <1>20 DEF DeliverJob, WithoutFirst
  <2>2. job \in [Services -> Seq(JobStates)] /\ \A r \in Services : Len(job[r]) > 0
    BY <1>0 DEF JobType
  <2>3. job' \in [Services -> Seq(JobStates)]
    BY <2>1, <2>2, Trimmed
  <2>4. \A r \in Services : Len(job'[r]) > 0
    BY <2>1, <2>2, Trimmed
  <2>5. JobType'
    BY <2>3, <2>4 DEF JobType
  <2> QED BY <1>1, <1>2, <1>4, <1>5, <1>6, <1>7, <1>8, <1>9, <1>20, <2>5, <1>p DEF DeliverJob
<1>21. CASE DeliverLight
  <2>1. "light" \in Kinds /\ Len(database["light"]) > 1 /\ database' = WithoutFirst(database, "light")
    BY <1>21 DEF DeliverLight, WithoutFirst
  <2>2. database \in [Kinds -> Seq(Reports)] /\ \A k \in Kinds : Len(database[k]) > 0
    BY <1>0 DEF DatabaseType
  <2>3. database' \in [Kinds -> Seq(Reports)]
    BY <2>1, <2>2, Trimmed
  <2>4. \A k \in Kinds : Len(database'[k]) > 0
    BY <2>1, <2>2, Trimmed
  <2>5. \A k \in Kinds \ {"light"} : database'[k] = database[k]
    BY <2>1, <2>2, Trimmed
  <2>6. DatabaseType'
    BY <1>0, <2>3, <2>4, <2>5 DEF DatabaseType
  <2> QED BY <1>1, <1>2, <1>3, <1>5, <1>6, <1>7, <1>8, <1>9, <1>21, <2>6, <1>p DEF DeliverLight
<1>22. CASE Restart
  <2>1. ShopType'
    <3>1. Latest(shop) \in Shop
      BY Shows
    <3> QED BY <1>22, <3>1, Listed DEF Restart, ShopType
  <2>2. DeploymentType'
    <3>1. /\ deployment \in [Services -> Seq(AnyDeployment)] /\ \A r \in Services : Len(deployment[r]) > 0
          /\ deployment' = ListedAgain(Services, deployment)
      BY <1>0, <1>22 DEF DeploymentType, AnyDeployment, Restart, ListedAgain
    <3>2. deployment' \in [Services -> Seq(AnyDeployment)]
      BY <3>1, Relisted
    <3>3. \A r \in Services : Len(deployment'[r]) = 1
      BY <3>1, Relisted
    <3> QED BY <3>2, <3>3 DEF DeploymentType, AnyDeployment
  <2>3. JobType'
    <3>1. /\ job \in [Services -> Seq(JobStates)] /\ \A r \in Services : Len(job[r]) > 0
          /\ job' = ListedAgain(Services, job)
      BY <1>0, <1>22 DEF JobType, Restart, ListedAgain
    <3>2. job' \in [Services -> Seq(JobStates)]
      BY <3>1, Relisted
    <3>3. \A r \in Services : Len(job'[r]) = 1
      BY <3>1, Relisted
    <3>4. \A r \in Services : Len(job'[r]) > 0
      BY <3>3
    <3> QED BY <3>2, <3>4 DEF JobType
  <2>4. DatabaseType'
    <3>1. /\ database \in [Kinds -> Seq(Reports)] /\ \A k \in Kinds : Len(database[k]) > 0
          /\ database' = ListedAgain(Kinds, database)
      BY <1>0, <1>22 DEF DatabaseType, Restart, ListedAgain
    <3>2. database' \in [Kinds -> Seq(Reports)]
      BY <3>1, Relisted
    <3>3. \A k \in Kinds : Len(database'[k]) = 1
      BY <3>1, Relisted
    <3> QED BY <3>2, <3>3 DEF DatabaseType
  <2> QED BY <1>5, <1>6, <1>7, <1>8, <1>22, <2>1, <2>2, <2>3, <2>4, <1>p DEF Restart
<1>23. CASE Edit
  <2>1. PICK n \in Tiers, k \in Kinds :
          shop' = Append(shop, [Latest(shop) EXCEPT !.replicas = n, !.kind = k,
                                                    !.generation = Latest(shop).generation + 1])
    BY <1>23 DEF Edit
  <2>2. PICK o \in Shop : o = [Latest(shop) EXCEPT !.replicas = n, !.kind = k,
                                                   !.generation = Latest(shop).generation + 1]
    <3>1. PICK now \in Shop : now = Latest(shop)
      BY Shows
    <3>2. now.generation + 1 \in Nat /\ n \in {2, 3} /\ k \in {"standard", "light"}
      BY RolloutAssumption DEF Shop
    <3>3. [now EXCEPT !.replicas = n, !.kind = k, !.generation = now.generation + 1] \in Shop
      BY <3>2 DEF Shop
    <3> QED BY <3>1, <3>3
  <2>3. ShopType'
    BY <1>0, <2>1, <2>2, ShopWritten
  <2> QED BY <1>2, <1>3, <1>4, <1>5, <1>6, <1>7, <1>8, <1>9, <1>23, <2>3, <1>p DEF Edit
<1>24. CASE InstallOperator
  <2>1. RestType'
    BY <1>0, <1>24 DEF InstallOperator, RestType
  <2> QED BY <1>1, <1>2, <1>3, <1>4, <1>5, <1>6, <1>8, <1>24, <2>1, <1>p DEF InstallOperator
<1>25. CASE DatabaseUp \/ DatabaseDown
  <2>1. PICK from, to \in Reports : DatabaseReports(from, to)
    BY <1>25 DEF DatabaseUp, DatabaseDown, Reports
  <2>2. /\ UNCHANGED <<shop, deployment, job, operator, ingress, queued, pass>>
        /\ PastType' /\ Grows /\ \E k \in Kinds : database' = WithDatabase(k, to)
    BY <2>1, ReportsDo
  <2>3. DatabaseType'
    BY <1>0, <2>2, DatabaseWritten
  <2>4. BudgetType'
    BY <1>8, <1>25 DEF DatabaseUp, DatabaseDown
  <2> QED BY <1>1, <1>2, <1>3, <1>5, <1>7, <1>9, <2>2, <2>3, <2>4, <1>p
<1>26. ASSUME NEW s \in Services, JobSucceeds(s) \/ JobFails(s) \/ FailureExpires(s) \/ SuccessExpires(s)
       PROVE  TypeOK' /\ Grows
  <2>1. PICK from, to \in JobStates : JobReports(s, from, to)
    BY <1>26 DEF JobSucceeds, JobFails, FailureExpires, SuccessExpires, JobStates
  <2>2. /\ UNCHANGED <<shop, deployment, database, operator, ingress, queued, pass>>
        /\ PastType' /\ Grows /\ job' = WithVersion(job, s, to)
    BY <2>1, ReportsDo
  <2>3. JobType'
    BY <1>0, <2>2, JobWritten
  <2>4. BudgetType'
    BY <1>8, <1>26 DEF JobSucceeds, JobFails, FailureExpires, SuccessExpires
  <2> QED BY <1>1, <1>2, <1>4, <1>5, <1>7, <1>9, <2>2, <2>3, <2>4, <1>p
<1>27. ASSUME NEW s \in Services, Settle(s) \/ Upset(s) PROVE TypeOK' /\ Grows
  <2>1. /\ UNCHANGED <<shop, job, database, operator, ingress, queued, pass>>
        /\ DeploymentType' /\ PastType' /\ Grows
    BY <1>27, PodsDo, Rolled
  <2>2. BudgetType'
    BY <1>8, <1>27 DEF Settle, Upset
  <2> QED BY <1>1, <1>3, <1>4, <1>5, <1>7, <1>9, <2>1, <2>2, <1>p
<1>28. CASE UNCHANGED vars
  BY <1>1, <1>2, <1>3, <1>4, <1>5, <1>6, <1>7, <1>8, <1>9, <1>28, <1>p DEF vars, objects
<1> QED BY <1>11, <1>12, <1>13, <1>14, <1>15, <1>16, <1>17, <1>18, <1>19, <1>20, <1>21, <1>22,
           <1>23, <1>24, <1>25, <1>26, <1>27, <1>28
        DEF Next, Reconcile, Deliver, Progress

\* Every variable keeps its type, for any number of services and any lag.
THEOREM TypeCorrect == Spec => []TypeOK
<1>1. TypeOK /\ [Next]_vars => TypeOK'
  BY TypeNext
<1> QED BY <1>1, TypeInit, PTL DEF Spec

(***************************************************************************)
(* ReadyIsEarned.                                                          *)
(***************************************************************************)

LEMMA InvInit == Init => IInv
<1> SUFFICES ASSUME Init PROVE IInv
  OBVIOUS
<1>1. TypeOK
  BY TypeInit
<1>2. /\ DatabaseInv /\ JobInv /\ DeploymentInv
  <2>1. /\ Versions(<<"absent">>) = {"absent"} /\ Versions(<<NoDeployment>>) = {NoDeployment}
    BY Listed
  <2> QED BY <2>1 DEF Init, DatabaseInv, JobInv, DeploymentInv
<1>3. EntryInv /\ PassInv
  BY DEF Init, EntryInv, PassInv, NoPass
<1>4. ShopInv /\ ReadyIsEarned
  <2>1. PICK n \in Tiers, k \in Created : shop = <<NewShop(n, k)>>
    BY DEF Init
  <2>2. Latest(shop) = NewShop(n, k)
    BY <2>1, Listed
  <2> QED BY <2>2 DEF NewShop, ShopInv, ReadyIsEarned, ReadyNow, Ready
<1> QED BY <1>1, <1>2, <1>3, <1>4 DEF IInv

\* What is in the past stays there.
LEMMA Remembered ==
  ASSUME Grows
  PROVE  /\ \A s, d : WasServed(s, d) => WasServed(s, d)'
         /\ \A p, s : Served(p, s) => Served(p, s)'
         /\ \A p, s : MigrationsDone(p, s) => MigrationsDone(p, s)'
<1>1. \A s, d : WasServed(s, d) => WasServed(s, d)'
  BY DEF Grows, WasServed
<1>2. \A p, s : Served(p, s) => Served(p, s)'
  BY DEF Grows, Served
<1>3. \A p, s : MigrationsDone(p, s) => MigrationsDone(p, s)'
  BY DEF Grows, MigrationsDone
<1> QED BY <1>1, <1>2, <1>3

\* A step that leaves the pass where it is, or ends it.
LEMMA PassStays ==
  ASSUME PassInv, Grows,
         \/ pass' = NoPass
         \/ /\ pass # NoPass /\ pass'.call = pass.call /\ pass'.shop = pass.shop
            /\ pass'.service = pass.service /\ pass'.state = pass.state
            /\ pass'.allReady = pass.allReady
  PROVE  PassInv'
<1>1. CASE pass' = NoPass
  BY <1>1 DEF PassInv, NoPass
<1>2. PICK p : p = pass.shop
  OBVIOUS
<1>3. SUFFICES ASSUME pass # NoPass, pass'.call = pass.call, pass'.shop = p,
                      pass'.service = pass.service, pass'.state = pass.state,
                      pass'.allReady = pass.allReady, pass'.allReady
               PROVE  /\ pass'.state = "ready" /\ p.kind \in past'.ready
                      /\ \A i \in DOMAIN Microservices :
                           /\ Deployed(i)' => Served(p, Microservices[i])'
                           /\ Prepared(i)' => MigrationsDone(p, Microservices[i])'
  BY <1>1, <1>2 DEF PassInv, Served, MigrationsDone
<1>4. pass.state = "ready" /\ p.kind \in past.ready
  BY <1>2, <1>3 DEF PassInv
<1>5. ASSUME NEW i \in DOMAIN Microservices
      PROVE  /\ Deployed(i)' => Served(p, Microservices[i])'
             /\ Prepared(i)' => MigrationsDone(p, Microservices[i])'
  <2>1. Deployed(i)' <=> Deployed(i)
    BY <1>3 DEF Deployed
  <2>2. Prepared(i)' <=> Prepared(i)
    BY <1>3, <2>1 DEF Prepared
  <2>3. /\ Deployed(i) => Served(p, Microservices[i])
        /\ Prepared(i) => MigrationsDone(p, Microservices[i])
    BY <1>2, <1>3 DEF PassInv
  <2> QED BY <2>1, <2>2, <2>3, Remembered
<1> QED BY <1>3, <1>4, <1>5 DEF Grows

\* A step that leaves the Shop as it is.
LEMMA ShopStays ==
  ASSUME ShopInv, ReadyIsEarned, Grows, Latest(shop') = Latest(shop)
  PROVE  ShopInv' /\ ReadyIsEarned'
<1>1. ShopInv'
  BY DEF ShopInv
<1>2. ReadyIsEarned'
  BY DEF ReadyIsEarned, ReadyNow, Grows
<1> QED BY <1>1, <1>2

\* A database that is found ready is in the past, and no service is yet.
LEMMA InvDatabase ==
  ASSUME IInv, Database, Grows PROVE DatabaseInv' /\ EntryInv' /\ PassInv'
<1>1. TypeOK /\ PassType /\ DatabaseType /\ DatabaseInv /\ EntryInv
  BY TypeParts DEF IInv
<1>2. pass # NoPass /\ UNCHANGED <<shop, deployment, job, operator, ingress, past, budget>>
  BY <1>1, DatabaseDoes
<1>3. PICK st \in {"missing", "provisioning", "ready"} :
        /\ Enter(st)
        /\ st = "ready" => pass.shop.kind \in Kinds /\ "ready" \in Versions(database[pass.shop.kind])
  BY <1>1, DatabaseDoes
<1>4. /\ pass'.call = "migrate" /\ pass'.shop = pass.shop /\ pass'.service = pass.service
      /\ pass'.state = st /\ pass'.allReady = (st = "ready")
  BY <1>1, <1>2, <1>3, Enters
<1>5. pass.service = 1
  BY <1>1 DEF Database, EntryInv
<1>6. PassInv'
  <2>1. SUFFICES ASSUME st = "ready" PROVE PassInv'
    BY <1>4 DEF PassInv
  <2>2. pass.shop.kind \in past.ready
    BY <1>1, <1>3, <2>1 DEF DatabaseInv
  <2>3. \A i \in DOMAIN Microservices : ~Deployed(i)' /\ ~Prepared(i)'
    <3>1. \A i \in DOMAIN Microservices : ~(i < 1)
      BY RolloutAssumption
    <3> QED BY <1>4, <1>5, <3>1 DEF Deployed, Prepared
  <2> QED BY <1>2, <1>4, <2>1, <2>2, <2>3 DEF PassInv
<1>7. DatabaseInv'
  <2>1. CASE UNCHANGED database
    BY <1>1, <1>2, <2>1 DEF DatabaseInv
  <2>2. CASE /\ pass.shop.kind \in Kinds
             /\ database' = WithDatabase(pass.shop.kind, "provisioning")
    <3>1. PICK k \in Kinds : k = pass.shop.kind
      BY <2>2
    <3>2. "provisioning" \in Reports
      BY DEF Reports
    <3>3. /\ \A l \in Kinds \ {k} : database'[l] = database[l]
          /\ Versions(database'[k]) \subseteq Versions(database[k]) \cup {"provisioning"}
      BY <1>1, <2>2, <3>1, <3>2, DatabaseWritten
    <3> QED BY <1>1, <1>2, <3>3 DEF DatabaseInv
  <2> QED BY <1>1, <2>1, <2>2, DatabaseDoes
<1> QED BY <1>4, <1>6, <1>7 DEF EntryInv

\* A Job that is found to have succeeded is in the past.
LEMMA InvMigrate ==
  ASSUME IInv, Migrate, Grows PROVE JobInv' /\ EntryInv' /\ PassInv'
<1>1. TypeOK /\ PassType /\ JobType /\ JobInv /\ PassInv
  BY TypeParts DEF IInv
<1>2. PICK s : s = Microservices[pass.service]
  OBVIOUS
<1>3. pass # NoPass /\ UNCHANGED <<shop, deployment, database, operator, ingress, past, budget>>
  BY <1>1, <1>2, MigrateDoes
<1>4. s \in Services /\ pass.service \in DOMAIN Microservices /\ pass.allReady \in BOOLEAN
  BY <1>1, <1>2, <1>3, Running
<1>5. PICK p : p = pass.shop
  OBVIOUS
<1>6. CASE Requeue /\ UNCHANGED job
  BY <1>1, <1>3, <1>6, PassStays DEF Requeue, JobInv, EntryInv, NoPass
<1>7. CASE Migrated(FALSE) /\ job' = WithVersion(job, s, "running")
  <2>1. pass'.call = "deploy" /\ pass'.allReady = FALSE
    BY <1>1, <1>3, <1>7, Migrates
  <2>2. "running" \in JobStates
    BY DEF JobStates
  <2>3. /\ \A r \in Services \ {s} : job'[r] = job[r]
        /\ Versions(job'[s]) = Beside(Versions(job[s]), "running")
    BY <1>1, <1>4, <1>7, <2>2, JobWritten
  <2> QED BY <1>1, <1>3, <1>4, <2>1, <2>3 DEF JobInv, Beside, EntryInv, PassInv
<1>8. ASSUME UNCHANGED job, NEW done \in BOOLEAN, Migrated(done),
             done /\ pass.state = "ready" /\ HasMigrations(s) /\ pass.shop.kind = "standard"
               => Shown(job[s]) = "succeeded"
      PROVE  JobInv' /\ EntryInv' /\ PassInv'
  <2>1. /\ pass'.call = "deploy" /\ pass'.shop = p /\ pass'.service = pass.service
        /\ pass'.state = pass.state /\ pass'.allReady = (pass.allReady /\ done)
    BY <1>1, <1>3, <1>5, <1>8, Migrates
  <2>2. JobInv' /\ EntryInv'
    BY <1>1, <1>3, <1>8, <2>1 DEF JobInv, EntryInv
  <2>3. SUFFICES ASSUME pass.allReady, done
                 PROVE  /\ pass.state = "ready" /\ p.kind \in past'.ready
                        /\ \A i \in DOMAIN Microservices :
                             /\ Deployed(i)' => Served(p, Microservices[i])'
                             /\ Prepared(i)' => MigrationsDone(p, Microservices[i])'
    BY <1>4, <2>1, <2>2 DEF PassInv, Served, MigrationsDone
  <2>4. pass.state = "ready" /\ p.kind \in past.ready
    BY <1>1, <1>3, <1>5, <2>3 DEF PassInv
  <2>5. MigrationsDone(p, s)
    <3>1. Shown(job[s]) = "succeeded" => s \in past.migrated
      BY <1>1, <1>4, Shows DEF JobInv
    <3> QED BY <1>5, <1>8, <2>3, <2>4, <3>1 DEF MigrationsDone
  <2>6. ASSUME NEW i \in DOMAIN Microservices
        PROVE  /\ Deployed(i)' => Served(p, Microservices[i])'
               /\ Prepared(i)' => MigrationsDone(p, Microservices[i])'
    <3>1. /\ Deployed(i) => Served(p, Microservices[i])
          /\ Prepared(i) => MigrationsDone(p, Microservices[i])
      BY <1>1, <1>3, <1>5, <2>3 DEF PassInv
    <3>2. Deployed(i)' => Deployed(i)
      BY <2>1 DEF Deployed
    <3>3. Prepared(i)' => Prepared(i) \/ i = pass.service
      BY <2>1, <3>2 DEF Prepared
    <3> QED BY <1>2, <2>5, <3>1, <3>2, <3>3, Remembered
  <2> QED BY <1>3, <2>4, <2>6
<1> QED BY <1>1, <1>2, <1>6, <1>7, <1>8, MigrateDoes

\* A Deployment that is found ready is in the past, with the spec that was
\* read, because the pass has just made it follow that spec.
LEMMA InvDeploy ==
  ASSUME IInv, Deploy, Grows PROVE DeploymentInv' /\ EntryInv' /\ PassInv'
<1>1. TypeOK /\ PassType /\ DeploymentInv /\ PassInv
  BY TypeParts DEF IInv
<1>2. PICK s : s = Microservices[pass.service]
  OBVIOUS
<1>3. pass # NoPass /\ s \in Services /\ UNCHANGED <<shop, job, database, operator, ingress, budget>>
  BY <1>1, <1>2, DeployDoes
<1>4. PICK p : p = pass.shop
  OBVIOUS
<1>5. CASE Requeue /\ UNCHANGED <<deployment, past>>
  <2>1. DeploymentInv'
    BY <1>1, <1>5 DEF DeploymentInv, WasServed
  <2> QED BY <1>1, <1>5, <2>1, PassStays DEF Requeue, EntryInv, NoPass
<1>6. ASSUME NEW d \in Deployment, d.replicas = p.replicas, d.kind = p.kind,
             Onward(d.ready = p.replicas),
             Rolls(s, d) \/ (d \in Versions(deployment[s]) /\ UNCHANGED <<deployment, past>>)
      PROVE  DeploymentInv' /\ EntryInv' /\ PassInv'
  <2>1. DeploymentInv'
    <3>1. CASE Rolls(s, d)
      <4>1. /\ \A r \in Services \ {s} : deployment'[r] = deployment[r]
            /\ Versions(deployment'[s]) = Beside(Versions(deployment[s]), d)
            /\ d.ready = d.replicas => WasServed(s, d)'
        BY <1>1, <1>3, <3>1, Rolled
      <4> QED BY <1>1, <4>1, Remembered DEF DeploymentInv, Beside
    <3>2. CASE UNCHANGED <<deployment, past>>
      BY <1>1, <3>2 DEF DeploymentInv, WasServed
    <3> QED BY <1>6, <3>1, <3>2
  <2>2. d.ready = p.replicas => Served(p, s)'
    <3>1. d.ready = p.replicas => WasServed(s, d)'
      <4>1. CASE Rolls(s, d)
        BY <1>1, <1>3, <1>6, <4>1, Rolled
      <4>2. CASE d \in Versions(deployment[s]) /\ UNCHANGED <<deployment, past>>
        <5>1. d # NoDeployment
          BY DEF Deployment, NoDeployment
        <5> QED BY <1>1, <1>3, <1>6, <4>2, <5>1, Remembered DEF DeploymentInv
      <4> QED BY <1>6, <4>1, <4>2
    <3>2. d.current \in BOOLEAN
      BY DEF Deployment
    <3> QED BY <1>6, <3>1, <3>2 DEF WasServed, Served
  <2>3. PICK r \in BOOLEAN : Onward(r) /\ r = (d.ready = p.replicas)
    BY <1>6
  <2>4. /\ pass'.shop = p /\ pass'.state = pass.state
        /\ pass'.allReady = (pass.allReady /\ r)
        /\ \/ pass'.call = "migrate" /\ pass'.service = pass.service + 1
           \/ pass'.call = "status" /\ pass.service = Len(Microservices)
    BY <1>1, <1>3, <1>4, <2>3, Moves
  <2>5. pass.allReady \in BOOLEAN /\ pass.service \in 1..Len(Microservices) /\ Len(Microservices) \in Nat
    BY <1>1, <1>3, Running
  <2>6. SUFFICES ASSUME pass.allReady, r
                 PROVE  /\ pass.state = "ready" /\ p.kind \in past'.ready
                        /\ \A i \in DOMAIN Microservices :
                             /\ Deployed(i)' => Served(p, Microservices[i])'
                             /\ Prepared(i)' => MigrationsDone(p, Microservices[i])'
    BY <2>1, <2>4, <2>5 DEF PassInv, EntryInv, Served, MigrationsDone
  <2>7. pass.state = "ready" /\ p.kind \in past.ready
    BY <1>1, <1>3, <1>4, <2>6 DEF PassInv
  <2>8. ASSUME NEW i \in DOMAIN Microservices
        PROVE  /\ Deployed(i)' => Served(p, Microservices[i])'
               /\ Prepared(i)' => MigrationsDone(p, Microservices[i])'
    <3>1. /\ Deployed(i) => Served(p, Microservices[i])
          /\ Prepared(i) => MigrationsDone(p, Microservices[i])
      BY <1>1, <1>3, <1>4, <2>6 DEF PassInv
    <3>2. i \in 1..Len(Microservices)
      BY RolloutAssumption
    <3>3. Deployed(i)' => Deployed(i) \/ i = pass.service
      BY <2>4, <2>5, <3>2 DEF Deployed
    <3>4. Prepared(i)' <=> Deployed(i)'
      BY <2>4 DEF Prepared
    <3>5. Deployed(i) \/ i = pass.service => Prepared(i)
      BY DEF Prepared, Deploy
    <3>6. MigrationsDone(p, Microservices[i]) => MigrationsDone(p, Microservices[i])'
      BY Remembered
    <3>7. Served(p, Microservices[i]) => Served(p, Microservices[i])'
      BY Remembered
    <3> QED BY <1>2, <2>2, <2>3, <2>6, <3>1, <3>3, <3>4, <3>5, <3>6, <3>7
  <2> QED BY <2>7, <2>8 DEF Grows
<1> QED BY <1>1, <1>2, <1>4, <1>5, <1>6, DeployDoes

\* The status says ready only of the spec that was read, all of which is in
\* the past when allReady is TRUE at the end of the loop.
LEMMA InvUpdateStatus ==
  ASSUME IInv, UpdateStatus, Grows PROVE EntryInv' /\ PassInv' /\ ShopInv' /\ ReadyIsEarned'
<1>1. TypeOK /\ PassType /\ ShopType /\ PassInv /\ ShopInv /\ ReadyIsEarned
  BY TypeParts DEF IInv
<1>2. /\ pass # NoPass /\ NewStatus \in Shop
      /\ UNCHANGED <<deployment, job, database, operator, ingress, past, budget>>
  BY <1>1, StatusDoes
<1>3. CASE Requeue /\ UNCHANGED shop
  BY <1>1, <1>3, PassStays, ShopStays DEF Requeue, EntryInv, NoPass
<1>4. CASE shop' = Written(shop, NewStatus) /\ pass' = [pass EXCEPT !.call = "ingress"]
  <2>1. pass \in Pass /\ pass.shop \in Shop /\ pass.allReady \in BOOLEAN
    BY <1>1, <1>2, Running
  <2>2. /\ pass'.call = "ingress" /\ pass'.shop = pass.shop
        /\ pass'.state = pass.state /\ pass'.allReady = pass.allReady
    BY <1>4, <2>1 DEF Pass
  <2>3. PICK p : p = pass.shop
    OBVIOUS
  <2>4. pass.allReady =>
          /\ pass.state = "ready" /\ p.kind \in past.ready
          /\ \A i \in DOMAIN Microservices :
               Served(p, Microservices[i]) /\ MigrationsDone(p, Microservices[i])
    BY <1>1, <1>2, <2>3 DEF PassInv, UpdateStatus, Deployed, Prepared
  <2>5. PassInv' /\ EntryInv'
    BY <1>2, <2>2, <2>3, <2>4 DEF PassInv, EntryInv, Served, MigrationsDone
  <2>6. Latest(shop') = NewStatus
    BY <1>1, <1>2, <1>4, ShopWritten
  <2>7. /\ NewStatus.replicas = p.replicas /\ NewStatus.kind = p.kind
        /\ NewStatus.observed = NewStatus.generation /\ NewStatus.generation \in Nat
        /\ Ready(NewStatus) => pass.allReady
    <3>1. /\ NewStatus.replicas = p.replicas /\ NewStatus.kind = p.kind
          /\ NewStatus.observed = NewStatus.generation /\ NewStatus.generation \in Nat
          /\ NewStatus.reason = Outcome
      BY <2>1, <2>3 DEF NewStatus, Shop
    <3>2. Outcome = "ShopReady" => pass.allReady
      BY <2>1 DEF Outcome
    <3> QED BY <3>1, <3>2 DEF Ready
  <2>8. ShopInv'
    BY <2>6, <2>7 DEF ShopInv
  <2>9. ReadyIsEarned'
    <3>1. SUFFICES ASSUME pass.allReady
                   PROVE  /\ NewStatus.kind \in past.ready
                          /\ \A s \in Services :
                               /\ \E c \in BOOLEAN :
                                    <<s, NewStatus.replicas, NewStatus.kind, c>> \in past.served
                               /\ HasMigrations(s) /\ NewStatus.kind = "standard" => s \in past.migrated
      BY <1>2, <2>6, <2>7 DEF ReadyIsEarned, ReadyNow
    <3>2. ASSUME NEW s \in Services PROVE Served(p, s) /\ MigrationsDone(p, s)
      BY <2>4, <3>1 DEF Services
    <3> QED BY <2>4, <2>7, <3>1, <3>2 DEF Served, MigrationsDone
  <2> QED BY <2>5, <2>8, <2>9
<1> QED BY <1>1, <1>3, <1>4, StatusDoes

\* Every step keeps the invariant.
LEMMA InvNext == IInv /\ [Next]_vars => IInv'
<1> SUFFICES ASSUME IInv, [Next]_vars PROVE IInv'
  OBVIOUS
<1>0. /\ TypeOK /\ TypeOK' /\ Grows /\ DatabaseInv /\ JobInv /\ DeploymentInv
      /\ EntryInv /\ PassInv /\ ShopInv /\ ReadyIsEarned
  BY TypeNext DEF IInv
<1>p. /\ DatabaseInv' /\ JobInv' /\ DeploymentInv' /\ EntryInv' /\ PassInv'
      /\ ShopInv' /\ ReadyIsEarned'
      => IInv'
  BY <1>0 DEF IInv
<1>1. (\A k \in Kinds : Versions(database'[k]) \subseteq Versions(database[k])) => DatabaseInv'
  BY <1>0 DEF DatabaseInv, Grows
<1>2. (\A s \in Services : Versions(job'[s]) \subseteq Versions(job[s])) => JobInv'
  BY <1>0 DEF JobInv, Grows
<1>3. (\A s \in Services : Versions(deployment'[s]) \subseteq Versions(deployment[s])) => DeploymentInv'
  BY <1>0, Remembered DEF DeploymentInv
<1>4. /\ UNCHANGED database => DatabaseInv'
      /\ UNCHANGED job => JobInv'
      /\ UNCHANGED deployment => DeploymentInv'
  BY <1>1, <1>2, <1>3
<1>5. UNCHANGED pass \/ pass' = NoPass => EntryInv' /\ PassInv'
  <2>1. CASE UNCHANGED pass /\ pass # NoPass
    BY <1>0, <2>1, PassStays DEF EntryInv
  <2>2. CASE pass' = NoPass
    BY <1>0, <2>2, PassStays DEF EntryInv, NoPass
  <2> QED BY <2>1, <2>2
<1>6. Latest(shop') = Latest(shop) => ShopInv' /\ ReadyIsEarned'
  BY <1>0, ShopStays
<1>7. UNCHANGED shop => ShopInv' /\ ReadyIsEarned'
  BY <1>6
<1>8. CASE Start
  <2>1. EntryInv' /\ PassInv'
    BY <1>8 DEF Start, EntryInv, PassInv
  <2> QED BY <1>4, <1>7, <1>8, <2>1, <1>p DEF Start, objects
<1>9. CASE Database
  <2>1. UNCHANGED <<shop, deployment, job>>
    BY <1>9 DEF Database
  <2> QED BY <1>0, <1>4, <1>7, <1>9, <2>1, <1>p, InvDatabase
<1>10. CASE Migrate
  <2>1. UNCHANGED <<shop, deployment, database>>
    BY <1>10 DEF Migrate
  <2> QED BY <1>0, <1>4, <1>7, <1>10, <2>1, <1>p, InvMigrate
<1>11. CASE Deploy
  <2>1. UNCHANGED <<shop, job, database>>
    BY <1>11 DEF Deploy
  <2> QED BY <1>0, <1>4, <1>7, <1>11, <2>1, <1>p, InvDeploy
<1>12. CASE UpdateStatus
  <2>1. UNCHANGED <<deployment, job, database>>
    BY <1>12 DEF UpdateStatus
  <2> QED BY <1>0, <1>4, <1>12, <2>1, <1>p, InvUpdateStatus
<1>13. CASE Finish \/ Fail
  BY <1>4, <1>5, <1>7, <1>13, <1>p DEF Finish, Fail, Requeue
<1>14. CASE DeliverShop
  <2>1. Latest(shop') = Latest(shop)
    <3>1. PICK h \in Seq(Shop) : h = shop /\ Len(h) > 1
      BY <1>0, <1>14 DEF TypeOK, DeliverShop
    <3> QED BY <1>14, <3>1, Advanced DEF DeliverShop
  <2>2. EntryInv' /\ PassInv'
    <3>1. CASE pass = NoPass \/ pass.base = 0
      BY <1>5, <1>14, <3>1 DEF DeliverShop
    <3>2. CASE pass # NoPass /\ pass.base # 0
      <4>1. pass \in Pass
        BY <1>0, <3>2 DEF TypeOK
      <4>2. pass' = [pass EXCEPT !.base = pass.base - 1]
        BY <1>14, <3>2 DEF DeliverShop
      <4>3. /\ pass'.call = pass.call /\ pass'.shop = pass.shop /\ pass'.service = pass.service
            /\ pass'.state = pass.state /\ pass'.allReady = pass.allReady
        BY <4>1, <4>2 DEF Pass
      <4> QED BY <1>0, <3>2, <4>3, PassStays DEF EntryInv
    <3> QED BY <3>1, <3>2
  <2> QED BY <1>4, <1>6, <1>14, <2>1, <2>2, <1>p DEF DeliverShop
<1>15. ASSUME NEW s \in Services, DeliverDeployment(s) PROVE IInv'
  <2>1. deployment' = WithoutFirst(deployment, s) /\ Len(deployment[s]) > 1
    BY <1>15 DEF DeliverDeployment, WithoutFirst
  <2>2. /\ deployment \in [Services -> Seq(AnyDeployment)]
        /\ \A r \in Services : Len(deployment[r]) > 0
    BY <1>0 DEF TypeOK, AnyDeployment
  <2>3. \A r \in Services : Versions(deployment'[r]) \subseteq Versions(deployment[r])
    BY <2>1, <2>2, Trimmed
  <2> QED BY <1>3, <1>4, <1>5, <1>7, <1>15, <2>3, <1>p DEF DeliverDeployment
<1>16. ASSUME NEW s \in Services, DeliverJob(s) PROVE IInv'
  <2>1. job' = WithoutFirst(job, s) /\ Len(job[s]) > 1
    BY <1>16 DEF DeliverJob, WithoutFirst
  <2>2. job \in [Services -> Seq(JobStates)] /\ \A r \in Services : Len(job[r]) > 0
    BY <1>0 DEF TypeOK, JobStates
  <2>3. \A r \in Services : Versions(job'[r]) \subseteq Versions(job[r])
    BY <2>1, <2>2, Trimmed
  <2> QED BY <1>2, <1>4, <1>5, <1>7, <1>16, <2>3, <1>p DEF DeliverJob
<1>17. CASE DeliverLight
  <2>1. /\ "light" \in Kinds /\ Len(database["light"]) > 1
        /\ database' = WithoutFirst(database, "light")
    BY <1>17 DEF DeliverLight, WithoutFirst
  <2>2. database \in [Kinds -> Seq(Reports)] /\ \A k \in Kinds : Len(database[k]) > 0
    BY <1>0 DEF TypeOK, Reports
  <2>3. \A k \in Kinds : Versions(database'[k]) \subseteq Versions(database[k])
    BY <2>1, <2>2, Trimmed
  <2> QED BY <1>1, <1>4, <1>5, <1>7, <1>17, <2>3, <1>p DEF DeliverLight
<1>18. CASE Restart
  <2>1. Latest(shop') = Latest(shop)
    <3>1. PICK o \in Shop : o = Latest(shop)
      BY <1>0, Shows
    <3> QED BY <1>18, <3>1, Listed DEF Restart
  <2>2. \A r \in Services : Versions(deployment'[r]) \subseteq Versions(deployment[r])
    <3>1. /\ deployment \in [Services -> Seq(AnyDeployment)] /\ \A r \in Services : Len(deployment[r]) > 0
          /\ deployment' = ListedAgain(Services, deployment)
      BY <1>0, <1>18 DEF TypeOK, AnyDeployment, Restart, ListedAgain
    <3> QED BY <3>1, Relisted
  <2>3. \A r \in Services : Versions(job'[r]) \subseteq Versions(job[r])
    <3>1. /\ job \in [Services -> Seq(JobStates)] /\ \A r \in Services : Len(job[r]) > 0
          /\ job' = ListedAgain(Services, job)
      BY <1>0, <1>18 DEF TypeOK, JobStates, Restart, ListedAgain
    <3> QED BY <3>1, Relisted
  <2>4. \A k \in Kinds : Versions(database'[k]) \subseteq Versions(database[k])
    <3>1. /\ database \in [Kinds -> Seq(Reports)] /\ \A k \in Kinds : Len(database[k]) > 0
          /\ database' = ListedAgain(Kinds, database)
      BY <1>0, <1>18 DEF TypeOK, Reports, Restart, ListedAgain
    <3> QED BY <3>1, Relisted
  <2>5. pass' = NoPass
    BY <1>18 DEF Restart
  <2> QED BY <1>1, <1>2, <1>3, <1>5, <1>6, <2>1, <2>2, <2>3, <2>4, <2>5, <1>p
<1>19. CASE Edit
  <2>1. PICK now \in Shop : now = Latest(shop)
    BY <1>0, Shows
  <2>2. PICK n \in Tiers, k \in Kinds :
          shop' = Append(shop, [now EXCEPT !.replicas = n, !.kind = k,
                                           !.generation = now.generation + 1])
    BY <1>19, <2>1 DEF Edit
  <2>3. PICK o \in Shop : /\ shop' = Append(shop, o)
                          /\ o.observed = now.observed /\ o.generation = now.generation + 1
    <3>1. now.generation + 1 \in Nat /\ n \in {2, 3} /\ k \in {"standard", "light"}
      BY RolloutAssumption DEF Shop
    <3>2. [now EXCEPT !.replicas = n, !.kind = k, !.generation = now.generation + 1] \in Shop
      BY <3>1 DEF Shop
    <3>3. /\ [now EXCEPT !.replicas = n, !.kind = k,
                         !.generation = now.generation + 1].observed = now.observed
          /\ [now EXCEPT !.replicas = n, !.kind = k,
                         !.generation = now.generation + 1].generation = now.generation + 1
      BY DEF Shop
    <3> QED BY <2>2, <3>2, <3>3
  <2>4. Latest(shop') = o
    <3>1. ShopType
      BY <1>0, TypeParts
    <3> QED BY <2>3, <3>1, ShopWritten
  <2>5. o.observed < o.generation /\ o.observed \in Nat /\ o.generation \in Nat
    BY <1>0, <2>1, <2>3 DEF ShopInv, Shop
  <2>6. ShopInv' /\ ReadyIsEarned'
    BY <2>4, <2>5 DEF ShopInv, ReadyIsEarned, ReadyNow
  <2> QED BY <1>4, <1>5, <1>19, <2>6, <1>p DEF Edit
<1>20. CASE InstallOperator
  BY <1>4, <1>5, <1>7, <1>20, <1>p DEF InstallOperator
<1>21. CASE DatabaseUp \/ DatabaseDown
  <2>1. PICK from, to \in Reports : DatabaseReports(from, to)
    BY <1>21 DEF DatabaseUp, DatabaseDown, Reports
  <2>2. UNCHANGED <<shop, deployment, job, pass>>
    BY <2>1 DEF DatabaseReports
  <2>3. PICK k \in Kinds : database' = WithDatabase(k, to) /\ (to = "ready" => k \in past'.ready)
    BY <1>0, <2>1, ReportsDo
  <2>4. DatabaseType
    BY <1>0, TypeParts
  <2>5. /\ \A l \in Kinds \ {k} : database'[l] = database[l]
        /\ Versions(database'[k]) \subseteq Versions(database[k]) \cup {to}
    BY <2>3, <2>4, DatabaseWritten
  <2>6. DatabaseInv'
    BY <1>0, <2>3, <2>5 DEF DatabaseInv, Grows
  <2> QED BY <1>4, <1>5, <1>7, <2>2, <2>6, <1>p
<1>22. ASSUME NEW s \in Services, JobSucceeds(s) \/ JobFails(s) \/ FailureExpires(s) \/ SuccessExpires(s)
       PROVE  IInv'
  <2>1. PICK from, to \in JobStates : JobReports(s, from, to)
    BY <1>22 DEF JobSucceeds, JobFails, FailureExpires, SuccessExpires, JobStates
  <2>2. UNCHANGED <<shop, deployment, database, pass>>
    BY <2>1 DEF JobReports
  <2>3. job' = WithVersion(job, s, to) /\ (to = "succeeded" => s \in past'.migrated)
    BY <1>0, <2>1, ReportsDo
  <2>4. JobType
    BY <1>0, TypeParts
  <2>5. /\ \A r \in Services \ {s} : job'[r] = job[r]
        /\ Versions(job'[s]) = Beside(Versions(job[s]), to)
    BY <2>3, <2>4, JobWritten
  <2>6. JobInv'
    BY <1>0, <2>3, <2>5 DEF JobInv, Grows, Beside
  <2> QED BY <1>4, <1>5, <1>7, <2>2, <2>6, <1>p
<1>23. ASSUME NEW s \in Services, Settle(s) \/ Upset(s) PROVE IInv'
  <2>1. UNCHANGED <<shop, job, database, pass>>
    BY <1>0, <1>23, PodsDo
  <2>2. PICK d \in Deployment : Rolls(s, d)
    BY <1>0, <1>23, PodsDo
  <2>3. /\ \A r \in Services \ {s} : deployment'[r] = deployment[r]
        /\ Versions(deployment'[s]) = Beside(Versions(deployment[s]), d)
        /\ d.ready = d.replicas => WasServed(s, d)'
    BY <1>0, <2>2, Rolled
  <2>4. DeploymentInv'
    BY <1>0, <2>3, Remembered DEF DeploymentInv, Beside
  <2> QED BY <1>4, <1>5, <1>7, <2>1, <2>4, <1>p
<1>24. CASE UNCHANGED vars
  BY <1>4, <1>5, <1>7, <1>24, <1>p DEF vars, objects
<1> QED BY <1>8, <1>9, <1>10, <1>11, <1>12, <1>13, <1>14, <1>15, <1>16, <1>17, <1>18, <1>19,
           <1>20, <1>21, <1>22, <1>23, <1>24
        DEF Next, Reconcile, Deliver, Progress

\* The inductive invariant holds throughout.
THEOREM Invariance == Spec => []IInv
  BY InvInit, InvNext, PTL DEF Spec

\* A Shop that is reported ready for its present generation has had, for that
\* very spec, its database, its migrations and its Deployments
\* (shop_controller.go:234-266, 1109-1139), for any number of services and
\* however far the caches are behind.
THEOREM ReadyEarned == Spec => []ReadyIsEarned
<1>1. IInv => ReadyIsEarned
  BY DEF IInv
<1> QED BY <1>1, Invariance, PTL

(***************************************************************************)
(* Rest.                                                                   *)
(***************************************************************************)

\* A key or an event is there that brings another pass.
Waiting == queued \/ ~UpToDate(shop) \/ \E s \in Services : ~UpToDate(deployment[s])

\* The Deployment of s is what the Shop wants, and its replicas are ready.
Fine(s) ==
  /\ Latest(deployment[s]).replicas = Latest(shop).replicas
  /\ Latest(deployment[s]).kind = Latest(shop).kind
  /\ Latest(deployment[s]).ready = Latest(shop).replicas

\* The pass that nothing follows is about the latest Shop, and finds ready
\* what is ready.
LastPassInv ==
  ~Waiting /\ pass # NoPass =>
    /\ pass.shop = Latest(shop)
    /\ pass.allReady =>
         /\ \A i \in DOMAIN Microservices : Deployed(i) => Fine(Microservices[i])
         /\ pass.call = "ingress" => ReadyNow

Settled == IInv /\ LastPassInv /\ RestsWhenReady

\* Nothing is claimed while something waits.
LEMMA Waits ==
  ASSUME Waiting'
  PROVE  LastPassInv' /\ RestsWhenReady'
<1>1. LastPassInv'
  BY DEF LastPassInv
<1>2. ~Quiet'
  BY DEF Quiet, Waiting
<1> QED BY <1>1, <1>2 DEF RestsWhenReady

\* A step that the Shop controller does not see.
LEMMA Unseen ==
  ASSUME LastPassInv, RestsWhenReady, UNCHANGED <<shop, deployment, queued, pass, ingress>>
  PROVE  LastPassInv' /\ RestsWhenReady'
<1>1. Waiting' <=> Waiting
  BY DEF Waiting
<1>2. LastPassInv'
  BY <1>1 DEF LastPassInv, Deployed, Fine, ReadyNow
<1>3. RestsWhenReady'
  BY DEF RestsWhenReady, Quiet, ReadyNow, Followed
<1> QED BY <1>2, <1>3

\* A version that was added is an event.
LEMMA AddedWaits ==
  ASSUME TypeOK, \/ \E o \in Shop : shop' = Append(shop, o)
                 \/ \E s \in Services : \E d \in AnyDeployment :
                      deployment' = WithVersion(deployment, s, d)
  PROVE  Waiting'
<1>1. ShopType /\ DeploymentType
  BY TypeParts
<1>2. ASSUME NEW o \in Shop, shop' = Append(shop, o) PROVE Waiting'
  <2>1. PICK h \in Seq(Shop) : h = shop /\ Len(h) > 0
    BY <1>1 DEF ShopType
  <2>2. Len(Append(h, o)) # 1
    BY <2>1
  <2> QED BY <1>2, <2>1, <2>2 DEF Waiting, UpToDate, IsLatest
<1>3. ASSUME NEW s \in Services, NEW d \in AnyDeployment, deployment' = WithVersion(deployment, s, d)
      PROVE  Waiting'
  <2>1. deployment \in [Services -> Seq(AnyDeployment)]
    BY <1>1 DEF DeploymentType, AnyDeployment
  <2>2. PICK h \in Seq(AnyDeployment) : h = deployment[s] /\ Len(h) > 0
    BY <1>1 DEF DeploymentType, AnyDeployment
  <2>3. deployment'[s] = Append(h, d)
    BY <1>3, <2>1, <2>2 DEF WithVersion
  <2>4. Len(Append(h, d)) # 1
    BY <2>2
  <2> QED BY <2>3, <2>4 DEF Waiting, UpToDate, IsLatest
<1> QED BY <1>2, <1>3

\* So is every other change of a Deployment.
LEMMA RolledWaits ==
  ASSUME TypeOK, NEW s \in Services, NEW d \in Deployment, Rolls(s, d)
  PROVE  Waiting'
<1>1. d \in AnyDeployment /\ deployment' = WithVersion(deployment, s, d)
  BY DEF Rolls, AnyDeployment, WithVersion
<1> QED BY <1>1, AddedWaits

\* What is up to date has one version.
LEMMA OneVersion ==
  ASSUME TypeOK
  PROVE  /\ UpToDate(shop) => Shown(shop) = Latest(shop)
         /\ \A s \in Services : UpToDate(deployment[s]) =>
              \A d \in Versions(deployment[s]) : d = Latest(deployment[s])
<1>1. UpToDate(shop) => Shown(shop) = Latest(shop)
  BY DEF UpToDate, IsLatest, Shown, Latest
<1>2. ASSUME NEW s \in Services, UpToDate(deployment[s]), NEW d \in Versions(deployment[s])
      PROVE  d = Latest(deployment[s])
  <2>1. PICK i \in 1..1 : d = deployment[s][i]
    BY <1>2 DEF UpToDate, IsLatest, Versions
  <2>2. i = 1
    OBVIOUS
  <2> QED BY <1>2, <2>1, <2>2 DEF UpToDate, IsLatest, Latest
<1> QED BY <1>1, <1>2

\* A pass goes on with what it has, while the Shop and the Deployments stay.
LEMMA PassGoesOn ==
  ASSUME LastPassInv, UNCHANGED <<shop, deployment, queued>>, pass # NoPass, pass' # NoPass,
         pass'.shop = pass.shop, pass'.call # "ingress",
         pass'.allReady => \A i \in DOMAIN Microservices :
           Deployed(i)' => pass.allReady /\ Deployed(i)
  PROVE  LastPassInv' /\ RestsWhenReady'
<1>1. Waiting' <=> Waiting
  BY DEF Waiting
<1>2. \A s : Fine(s)' <=> Fine(s)
  BY DEF Fine
<1>3. LastPassInv'
  BY <1>1, <1>2 DEF LastPassInv
<1>4. RestsWhenReady'
  BY DEF RestsWhenReady, Quiet
<1> QED BY <1>3, <1>4

\* The worker's calls before the status.
LEMMA CallsSettled ==
  ASSUME Settled, Database \/ Migrate \/ Deploy
  PROVE  LastPassInv' /\ RestsWhenReady'
<1>0. TypeOK /\ PassType /\ EntryInv /\ LastPassInv /\ RestsWhenReady
  BY TypeParts DEF Settled, IInv
<1>1. PICK s : s = Microservices[pass.service]
  OBVIOUS
<1>2. Requeue => LastPassInv' /\ RestsWhenReady'
  BY Waits DEF Requeue, Waiting
<1>3. CASE Database
  <2>1. pass # NoPass /\ UNCHANGED <<shop, deployment>>
    BY <1>0, <1>3, DatabaseDoes
  <2>2. PICK st \in {"missing", "provisioning", "ready"} : Enter(st)
    BY <1>0, <1>3, DatabaseDoes
  <2>3. /\ pass' # NoPass /\ pass'.call = "migrate" /\ pass'.shop = pass.shop
        /\ pass'.service = pass.service
    BY <1>0, <2>1, <2>2, Enters
  <2>4. pass.service = 1
    BY <1>0, <1>3 DEF Database, EntryInv
  <2>5. \A i \in DOMAIN Microservices : ~Deployed(i)'
    <3>1. \A i \in DOMAIN Microservices : ~(i < 1)
      BY RolloutAssumption
    <3> QED BY <2>3, <2>4, <3>1 DEF Deployed
  <2>6. UNCHANGED queued
    BY <2>2 DEF Enter
  <2> QED BY <1>0, <2>1, <2>3, <2>5, <2>6, PassGoesOn
<1>4. CASE Migrate
  <2>1. pass # NoPass /\ UNCHANGED <<shop, deployment>>
    BY <1>0, <1>1, <1>4, MigrateDoes
  <2>2. ASSUME NEW done \in BOOLEAN, Migrated(done)
        PROVE  LastPassInv' /\ RestsWhenReady'
    <3>1. /\ pass' # NoPass /\ pass'.call = "deploy" /\ pass'.shop = pass.shop
          /\ pass'.service = pass.service /\ pass'.allReady = (pass.allReady /\ done)
      BY <1>0, <2>1, <2>2, Migrates
    <3>2. \A i \in DOMAIN Microservices : Deployed(i)' => Deployed(i)
      BY <3>1 DEF Deployed
    <3>3. UNCHANGED queued
      BY <2>2 DEF Migrated
    <3>4. pass.allReady \in BOOLEAN
      BY <1>0, <2>1, Running
    <3> QED BY <1>0, <2>1, <3>1, <3>2, <3>3, <3>4, PassGoesOn
  <2> QED BY <1>0, <1>1, <1>2, <1>4, <2>2, MigrateDoes
<1>5. CASE Deploy
  <2>1. pass # NoPass /\ s \in Services /\ UNCHANGED shop
    BY <1>0, <1>1, <1>5, DeployDoes
  <2>2. ASSUME NEW d \in Deployment, d.replicas = pass.shop.replicas, d.kind = pass.shop.kind,
               Onward(d.ready = pass.shop.replicas), UNCHANGED <<deployment, queued>>,
               d \in Versions(deployment[s])
        PROVE  LastPassInv' /\ RestsWhenReady'
    <3>1. PICK r \in BOOLEAN : Onward(r) /\ r = (d.ready = pass.shop.replicas)
      BY <2>2
    <3>2. /\ pass' # NoPass /\ pass'.shop = pass.shop /\ pass'.allReady = (pass.allReady /\ r)
          /\ \/ pass'.call = "migrate" /\ pass'.service = pass.service + 1
             \/ pass'.call = "status" /\ pass.service = Len(Microservices)
      BY <1>0, <2>1, <3>1, Moves
    <3>3. /\ pass.service \in 1..Len(Microservices) /\ Len(Microservices) \in Nat
          /\ pass.allReady \in BOOLEAN /\ pass.call = "deploy"
      BY <1>0, <1>5, <2>1, Running DEF Deploy
    <3>4. ~Quiet'
      BY <3>2 DEF Quiet
    <3>5. SUFFICES ASSUME ~Waiting, pass.allReady, r, NEW i \in DOMAIN Microservices, Deployed(i)'
                   PROVE  pass.shop = Latest(shop) => Fine(Microservices[i])
      <4>1. Waiting' <=> Waiting
        BY <2>1, <2>2 DEF Waiting
      <4>2. \A i \in DOMAIN Microservices : Fine(Microservices[i])' <=> Fine(Microservices[i])
        BY <2>1, <2>2 DEF Fine
      <4> QED BY <1>0, <2>1, <3>2, <3>3, <3>4, <4>1, <4>2 DEF LastPassInv, RestsWhenReady
    <3>6. Deployed(i) \/ i = pass.service
      <4>1. i \in 1..Len(Microservices)
        BY RolloutAssumption
      <4> QED BY <3>2, <3>3, <3>5, <4>1 DEF Deployed
    <3>7. CASE Deployed(i)
      BY <1>0, <2>1, <3>5, <3>7 DEF LastPassInv
    <3>8. CASE i = pass.service
      <4>1. UpToDate(deployment[s])
        BY <2>1, <3>5 DEF Waiting
      <4>2. d = Latest(deployment[s])
        BY <1>0, <2>1, <2>2, <4>1, OneVersion
      <4> QED BY <1>1, <2>2, <3>1, <3>5, <3>8, <4>2 DEF Fine
    <3> QED BY <3>6, <3>7, <3>8
  <2>3. ASSUME NEW d \in Deployment, Rolls(s, d) PROVE LastPassInv' /\ RestsWhenReady'
    BY <1>0, <2>1, <2>3, RolledWaits, Waits
  <2> QED BY <1>0, <1>1, <1>2, <1>5, <2>2, <2>3, DeployDoes
<1> QED BY <1>3, <1>4, <1>5

\* The status, and the end of the pass.
LEMMA EndSettled ==
  ASSUME Settled, UpdateStatus \/ Finish
  PROVE  LastPassInv' /\ RestsWhenReady'
<1>0. TypeOK /\ PassType /\ ShopType /\ LastPassInv /\ RestsWhenReady
  BY TypeParts DEF Settled, IInv
<1>1. CASE UpdateStatus
  <2>1. pass # NoPass /\ NewStatus \in Shop /\ UNCHANGED deployment /\ pass.call = "status"
    BY <1>0, <1>1, StatusDoes DEF UpdateStatus
  <2>2. CASE Requeue
    BY <2>2, Waits DEF Requeue, Waiting
  <2>3. CASE /\ shop' = Written(shop, NewStatus) /\ UNCHANGED queued
             /\ pass' = [pass EXCEPT !.call = "ingress"]
    <3>1. CASE NewStatus # Latest(shop)
      <4>1. shop' = Append(shop, NewStatus)
        BY <2>3, <3>1 DEF Written
      <4> QED BY <1>0, <2>1, <4>1, AddedWaits, Waits
    <3>2. CASE NewStatus = Latest(shop)
      <4>1. UNCHANGED shop
        BY <2>3, <3>2 DEF Written
      <4>2. /\ pass \in Pass /\ pass.shop \in Shop /\ pass.allReady \in BOOLEAN
        BY <1>0, <2>1, Running
      <4>3. /\ pass' # NoPass /\ pass'.call = "ingress" /\ pass'.shop = pass.shop
            /\ pass'.allReady = pass.allReady
        BY <2>3, <4>2 DEF Pass, NoPass
      <4>4. pass.allReady => ReadyNow
        <5>1. /\ NewStatus.observed = NewStatus.generation /\ NewStatus.reason = Outcome
          BY <4>2 DEF NewStatus, Shop
        <5>2. pass.allReady => Outcome = "ShopReady"
          BY DEF Outcome
        <5> QED BY <3>2, <5>1, <5>2 DEF ReadyNow, Ready
      <4>5. Waiting' <=> Waiting
        BY <2>1, <2>3, <4>1 DEF Waiting
      <4>6. /\ \A i \in DOMAIN Microservices : Fine(Microservices[i])' <=> Fine(Microservices[i])
            /\ \A i \in DOMAIN Microservices : Deployed(i)
            /\ ReadyNow' <=> ReadyNow
        BY <2>1, <4>1 DEF Fine, Deployed, ReadyNow
      <4>7. LastPassInv'
        BY <1>0, <2>1, <4>1, <4>3, <4>4, <4>5, <4>6 DEF LastPassInv
      <4>8. ~Quiet'
        BY <4>3 DEF Quiet
      <4> QED BY <4>7, <4>8 DEF RestsWhenReady
    <3> QED BY <3>1, <3>2
  <2> QED BY <1>0, <1>1, <2>2, <2>3, StatusDoes
<1>2. CASE Finish
  <2>1. /\ pass # NoPass /\ pass.call = "ingress" /\ ingress' = TRUE /\ pass' = NoPass
        /\ UNCHANGED <<shop, deployment>> /\ queued' = (queued \/ ~pass.allReady)
    BY <1>2 DEF Finish, NoPass
  <2>2. LastPassInv'
    BY <2>1 DEF LastPassInv
  <2>3. SUFFICES ASSUME ~queued', UpToDate(shop), \A s \in Services : UpToDate(deployment[s])
                 PROVE  /\ ReadyNow'
                        /\ \A s \in Services : Fine(s)'
    BY <2>1, <2>2 DEF RestsWhenReady, Quiet, Followed, Fine
  <2>4. pass.allReady /\ ~Waiting
    <3>1. queued \in BOOLEAN /\ pass.allReady \in BOOLEAN
      BY <1>0, <2>1, Running DEF TypeOK
    <3> QED BY <2>1, <2>3, <3>1 DEF Waiting
  <2>5. ReadyNow /\ \A i \in DOMAIN Microservices : Fine(Microservices[i])
    BY <1>0, <2>1, <2>4 DEF LastPassInv, Deployed
  <2>6. \A s \in Services : Fine(s)
    BY <2>5 DEF Services
  <2> QED BY <2>1, <2>5, <2>6 DEF ReadyNow, Fine
<1> QED BY <1>1, <1>2

\* At the start the Shop is queued.
LEMMA SettledInit == Init => Settled
<1> SUFFICES ASSUME Init PROVE Settled
  OBVIOUS
<1>1. queued = TRUE /\ pass = NoPass
  BY DEF Init
<1> QED BY <1>1, InvInit DEF Settled, LastPassInv, RestsWhenReady, Quiet

\* Settled is inductive.
LEMMA SettledNext == Settled /\ [Next]_vars => Settled'
<1> SUFFICES ASSUME Settled, [Next]_vars PROVE LastPassInv' /\ RestsWhenReady'
  BY InvNext DEF Settled
<1>0. TypeOK /\ LastPassInv /\ RestsWhenReady
  BY DEF Settled, IInv
<1>1. queued' => LastPassInv' /\ RestsWhenReady'
  BY Waits DEF Waiting
<1>2. UNCHANGED <<shop, deployment, queued, pass, ingress>> => LastPassInv' /\ RestsWhenReady'
  BY <1>0, Unseen
<1>3. CASE Start
  <2>1. /\ UNCHANGED <<shop, deployment>> /\ pass'.call = "database" /\ pass'.shop = Shown(shop)
        /\ pass'.allReady = FALSE
    BY <1>3 DEF Start, objects
  <2>2. LastPassInv'
    <3>1. ~Waiting' => UpToDate(shop)
      BY <2>1 DEF Waiting
    <3> QED BY <1>0, <2>1, <3>1, OneVersion DEF LastPassInv
  <2>3. ~Quiet'
    BY <1>3 DEF Start, Quiet, NoPass
  <2> QED BY <2>2, <2>3 DEF RestsWhenReady
<1>4. CASE Database \/ Migrate \/ Deploy
  BY <1>4, CallsSettled
<1>5. CASE UpdateStatus \/ Finish
  BY <1>5, EndSettled
<1>6. CASE Fail \/ Restart \/ DeliverShop \/ \E s \in Services : DeliverDeployment(s)
  BY <1>1, <1>6 DEF Fail, Requeue, Restart, DeliverShop, DeliverDeployment
<1>7. CASE DeliverLight \/ (\E s \in Services : DeliverJob(s)) \/ InstallOperator
  BY <1>2, <1>7 DEF DeliverLight, DeliverJob, InstallOperator
<1>8. CASE \/ DatabaseUp \/ DatabaseDown
           \/ \E s \in Services : JobSucceeds(s) \/ JobFails(s) \/ FailureExpires(s) \/ SuccessExpires(s)
  BY <1>2, <1>8 DEF DatabaseUp, DatabaseDown, DatabaseReports, JobSucceeds, JobFails,
     FailureExpires, SuccessExpires, JobReports
<1>9. CASE Edit
  <2>1. PICK now \in Shop : now = Latest(shop)
    BY <1>0, Shows
  <2>2. PICK n \in Tiers, k \in Kinds :
          shop' = Append(shop, [now EXCEPT !.replicas = n, !.kind = k,
                                           !.generation = now.generation + 1])
    BY <1>9, <2>1 DEF Edit
  <2>3. PICK o \in Shop :
          o = [now EXCEPT !.replicas = n, !.kind = k, !.generation = now.generation + 1]
    <3>1. now.generation + 1 \in Nat /\ n \in {2, 3} /\ k \in {"standard", "light"}
      BY RolloutAssumption DEF Shop
    <3> QED BY <3>1 DEF Shop
  <2> QED BY <1>0, <2>2, <2>3, AddedWaits, Waits
<1>10. ASSUME NEW s \in Services, Settle(s) \/ Upset(s) PROVE LastPassInv' /\ RestsWhenReady'
  BY <1>0, <1>10, PodsDo, RolledWaits, Waits
<1>11. CASE UNCHANGED vars
  BY <1>2, <1>11 DEF vars, objects
<1> QED BY <1>3, <1>4, <1>5, <1>6, <1>7, <1>8, <1>9, <1>10, <1>11
        DEF Next, Reconcile, Deliver, Progress

\* The controller comes to rest only when the Shop's Deployments are what it
\* wants, with all replicas ready, the Ingress is there and the Shop is
\* reported ready for its present generation (shop_controller.go:222-279):
\* for any number of services, however far the caches are behind, whatever
\* fails or is changed by others.
THEOREM RestIsReady == Spec => []RestsWhenReady
<1>1. Settled => RestsWhenReady
  BY DEF Settled
<1> QED BY <1>1, SettledInit, SettledNext, PTL DEF Spec
=============================================================================
