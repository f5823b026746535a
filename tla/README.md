# Verification of shop-operator

TLA+ models of the shop-operator, a Kubernetes operator (controller-runtime, Go)
that turns a `Shop` resource into a running web shop: a database, migration
Jobs, five Deployments with Services, an Ingress, a payout `Wallet`, a
`DiscordChannel` for alerts, and monitoring objects.

    tlc -config DiscordChannelTwo.cfg MCDiscordChannel     model checking
    tlapm DiscordChannelProofs.tla                         proofs

## 1. The system

### Components

| Component | Source | State it keeps | Operations | Status |
|---|---|---|---|---|
| DiscordChannel controller | `internal/controller/discordchannel_controller.go` | status of the resource (channel ID, webhook ID, Ready), finalizer, the Secret `<name>-webhook`; in Discord: a channel and a webhook | `Reconcile`: create, publish, clean up | modelled, proved |
| Discord client | `internal/discord/client.go` | none (a 30 s timeout) | `CreateChannel`, `CreateWebhook`, `DeleteChannel` | outcomes modelled |
| Wallet controller | `internal/controller/wallet_controller.go`, `internal/wallet/address.go` | the Wallet's status (address, ready, reason) | `Reconcile`, `setStatus`, `IsValidAddress` | modelled |
| Shop controller: payout | `shop_controller.go` 949-983, 731-775 | Wallet spec, `SHOP_WALLET_ADDRESS` of the payment service | `reconcileWallet`, `payoutAddress`, `reconcileDeployment` | modelled |
| Shop controller: rollout | `shop_controller.go` 181-283, 411-943, 1109-1165 | database resource, generated Secrets, migration Jobs, Deployments, Services, Ingress, Shop status | `Reconcile` and the functions it calls | modelled in two modules |
| Shop controller: Discord child | `shop_controller.go` 988-1003 | spec of the DiscordChannel | `reconcileDiscordChannel` | modelled |
| Shop controller: alerts | `shop_alerts.go` | PrometheusRule, AlertmanagerConfig | `reconcilePrometheusRule`, `reconcileAlertmanagerConfig` | creation, ownership and scope modelled |
| Shop controller: metrics, dashboards | `shop_dashboard.go`, `shop_controller.go` 1009-1105 | ServiceMonitor, ConfigMap | `reconcileServiceMonitor`, `reconcileGrafanaDashboard` | creation, ownership, names and scope modelled |
| Operator process | `cmd/main.go` | informer caches, work queues, workers | start, stop, leader election (optional) | modelled in each module |
| API types, generated code, manifests | `api/v1`, `config`, `test` | | | the fields only |

### How they interact

All communication goes through the Kubernetes API server. The Shop controller
creates the Wallet, the DiscordChannel and the other children, owned by the
Shop; it watches the Shop and the owned Deployments, Services, Wallets,
Ingresses and DiscordChannels (`SetupWithManager`, 1155-1165). The Wallet and
DiscordChannel controllers watch their own kind only. Databases, Jobs, Secrets
and StatefulSets are read and not watched for events, so the Shop's pass comes
back by `RequeueAfter` (272-282). Typed reads are answered by informer caches,
which may be behind; unstructured reads (CNPG, Redis, monitoring objects) go to
the API server. Writes carry the version that was read and fail with a conflict
when it is no longer the latest.

The DiscordChannel controller also calls Discord over HTTP, where nothing is
transactional: a request may be carried out and its answer lost.

### What is hard

* **Stale caches.** Every decision is made on a version that may have been
  replaced. Only writes to the API server detect that, calls to Discord do not.
* **Several writes in one pass.** Channel, status, webhook, Secret, status: a
  crash, a conflict or an error separates any two.
* **Several processes.** `--leader-elect` is off by default (`main.go:69`) and on
  in `config/manager/manager.yaml:64`; a lease does not fence a process that is
  paused between two calls. Two processes may run the same handler.
* **Event-driven progress.** No resync period is relied upon: a lost reason to
  run again leaves an object unfinished forever.
* **Names outlive objects.** A resource may be deleted and created again under
  its name while children of the old one still exist.
* **Nothing cleans up but owner references.** The Shop has no finalizer: what a
  new Shop uses must have become its own before the garbage collector comes. A
  DiscordChannel has one, and is found, deleted already, as long as it waits.
* **One namespace.** Only names, and patterns over names, keep Shops apart.

### What makes each component correct

* DiscordChannel: a recorded channel exists until the resource is condemned; it
  is recorded once; the resource goes only after it; the webhook posts to it;
  provisioning and cleanup end, and no process rests before that.
* Payout: the payment service is given validated addresses only, in the order
  they were declared, and ends up with the last one; the operator does not rest
  before that.
* Rollout: ready is reported only for a spec whose database, migrations and
  replica counts were all reached; the controller does not rest before everything is
  there and reported; a Shop
  whose parts work gets ready; the application is there without a database.
* Monitoring: a missing CRD never keeps the application away; the alert route
  comes after its webhook Secret, and it comes before the controller rests, but for
  one race of two informers.
* Children: they go with their Shop, come back when they are watched, are never
  replaced under a Shop that lives, and are a new Shop's own once it is ready, as
  far as they were not dying before it came; the controller does not rest before
  they are there.
* Names: two objects never share one; the metric scope of a Shop holds its pods.
* Labels: requests, metrics and alerts of a Shop stay with it.

`PROJECT.json` lists the hazards behind these, each at its line.

## 2. The modules

| Module | Contents |
|---|---|
| `ApiServer` | versions of one object, optimistic concurrency (external) |
| `DiscordChannel` | the DiscordChannel controller, Discord, any number of processes |
| `ChannelContract` | the abstract promise of the DiscordChannel controller |
| `DiscordChannelProofs` | inductive invariant and safety proofs |
| `DiscordContractProofs` | action properties, the proof that `DiscordChannel` implements `ChannelContract`, and that no process rests with something left to do |
| `Payout` | the Wallet controller and the Shop controller's payout path |
| `PayoutContract` | the abstract promise about the payout address |
| `PayoutProofs` | inductive invariants, the proof that `Payout` implements `PayoutContract`, and that the operator rests only when the address is right |
| `ShopChildren` | everything a Shop owns, while the Shop is deleted and created again |
| `ShopChildrenProofs` | inductive invariants, safety and action properties of `ShopChildren` |
| `ShopNames` | the names of what belongs to a Shop, and the pods its queries select |
| `ShopSelectors` | the pods that labels select, and the webhooks that hear of a pod in trouble |
| `ShopNamesProofs` | names, labels, patterns and matchers keep Shops apart, whatever the Shops are called |
| `Rollout` | one pass of the Shop controller from database to Ingress, repeated |
| `RolloutProofs` | inductive invariants, that a reported readiness was earned, and that the controller rests only when all is ready |
| `Monitoring` | the monitoring objects and the alert route of a Shop |
| `MonitoringProofs` | types, that a route never precedes its Secret, and that everything is made at rest |
| `MCDiscordChannel`, `MCPayout`, `MCRollout`, `MCShopChildren`, `MCMonitoring` | values of constants and symmetry for TLC |

### ApiServer

An object is the sequence of its versions, `h`; its resourceVersion is a position
in `h`. An informer is a position that only moves forward. A write read at `rv`
is accepted if `IsLatest(h, rv)`. A write that changes nothing makes no version
(`Written`). An object that does not exist is a version too (the zero struct).

`DiscordChannel`, `Payout` and `Monitoring`, whose properties or proofs speak of
old versions, keep the whole history. `Rollout` and `ShopChildren` keep the
versions from the one that the cache shows: `Shown(h)` is the first, `Latest(h)`
the last, and an event delivered drops the first. A write of what the cache shows
is accepted if there is only one version (`UpToDate`).

### DiscordChannel

One name, deleted and created again any number of times (`uid`). `pc[w]`, `obj[w]`,
`base[w]`, `hook[w]` are the handler of process `w`: the call it makes next, its
Go struct `discordChannel`, the version that struct carries, and `webhookId`. One
action for each call of `Reconcile`; `Write` has the three outcomes of an update
(accepted, conflict, error before or after it was applied). `Route`,
`NextCreation` and `NextRemoval` are the branches between the calls. An empty Go
string is 0; channels and webhooks are numbered in the order Discord made them.
`Create`, `Edit`, `Delete`, `SetBotSecret` and `CollectSecret` are the environment.

Left out: the text of conditions and names; the Discord server itself deleting a
channel or a webhook (only this operator's calls do); a watch that is
re-established at an older version; a single Secret watch. `RequeueAfter` and the
back-off are delays of unspecified length.

`ChannelContract` sees the resource as (uid, recorded channel, condemned) and the
set of live channels. Its actions are what may be seen to happen: a resource
appears, is condemned, records a live channel once, disappears after its channel;
channels open at any time and close unless in use. `Seen` is the refinement
mapping. The contract says nothing of channels nobody records: the code leaves
some behind (finding `NoOrphanChannel`).

### Payout

One process, a worker for each controller, three caches (`seen`). The worker's
pass of the Shop controller is cut down to the calls on the way of the address:
read and write the Wallet (`CreateOrUpdate` is a read, a comparison and a write),
read the Deployment, read the Wallet again inside the mutate function
(`payoutAddress`), write the Deployment. The other calls of the pass appear as a
failure at `GetDeployment`. The Wallet controller's `switch` is `Validated` and
`Verdict`. `Tamper` is somebody else who edits a Wallet or a Deployment;
`ReportRollout` stands for status writes of the Deployment controller, which bring
conflicts. `payoutAddress` takes every error for an address that is not there yet
(`shop_controller.go:977-981`); it reads from the cache, where an error other than
NotFound hardly occurs, and the model has NotFound only. Not modelled: a Wallet deleted by hand, the Shop's own status writes
(they queue the key once more), `ObservedGeneration`.

In `PayoutContract` the payment service has reached a position in the sequence of
declared addresses; a step moves the position forward and shows the address
there if it is valid, nothing otherwise. `Payout` maps the position to `Reached`,
the earliest declaration that the versions of the Deployment so far can have come
from; if an address ever reappeared out of order there would be no such position.
The promise is about what the operator does. Somebody else can write any
address into a Deployment: `Meddle` of the contract, after which (`touched`) it
promises nothing of what is shown. That such an edit does not last is
`PayoutArrives`.

### Rollout

The pass of the Shop controller in the order of the code: `Database` (look up and
create), for each service `Migrate` and `Deploy`, then `UpdateStatus`, then
`Finish` (the Ingress and the choice of requeue). `Microservices` and `Migrating`
are constants; the code has five services of which "auth" migrates. `database`,
`job` and `deployment` change on their own as their controllers report. A
conflict or `AlreadyExists` that comes from a stale cache ends the pass as in the
code; `Fail` is any other error.

A Deployment has `ready`, its status's count of ready pods of whatever template,
and `current`, whether those run the present one; the controller sees only the
count (line 259), so what `ReadyIsEarned` calls served is that count.
`past` remembers what was achieved: databases that were ready,
Jobs that succeeded, Deployments that had all replicas ready.

`MaxLag` bounds how many versions others may put before a cache (`Room`); the
controller's own writes are not held back. Not modelled: the Ingress rules, an
Ingress removed by hand, a database operator that is uninstalled, a new image of
a service, the events of Services, Wallets and Ingresses (they queue the key more
often). What a pass makes beside all this is in `ShopChildren`.

### ShopChildren

The Shop is created, deleted and created again under one name; `uid` counts its
incarnations. A pass visits the kinds of `Calls` in order and treats each in one
of two ways: *kept* (`createOrIgnoreMissingCRD`, `ensureAuthSecret`,
`ensureRedisAuthSecret`: look up, create when absent) or *converged*
(`CreateOrUpdate` with `SetControllerReference`, which takes over an owner
reference that has the Shop's name, whatever its UID). A kind is read from a cache
or from the server (`Live`), and its events queue the Shop or do not (`Watched`).
A child is its existence, its owner, whether it is up and whether it is dying.
`Collect` is the garbage collector, `Take` somebody who deletes a child (`taken`
remembers the converged kinds whose removal no watch reports), `Deleted` what
the API server does in both cases.

Two converged kinds differ from the others. A DiscordChannel has a finalizer
(`discordchannel_controller.go:119-143`): it may be gone at once, when its controller
has not set it yet, or be condemned (`dying`) and vanish later, when that controller
has cleaned up (`Release`). In between it is still found, and the owner check of
`SetControllerReference` compares group, kind and name, so that a Shop that was created
again takes it over and may be reported ready; the event of its end queues the Shop,
which makes another one. The alert route is converged only when the webhook Secret
is in the cache (`shop_alerts.go:131-139`); otherwise the pass leaves it as it is, a
predecessor's route included (`Optional`). The Secret is in `Monitoring`, so a pass may
do either here. `Converged` are the kinds that every pass converges: without the kept
ones and without the route.

`MaxLag` bounds how far a cache
lags when an object is removed by others or created again (`Room`); what the
controller writes and what comes up is not held back.

Read and write of one call are one step. For a cached kind that is exact: what is
read is what the cache shows, and the server checks the version. For a kind that is
read from the server a write in between makes the call fail, which is `Fail`.
`Calls` has a kind for each combination that occurs (`EachWay`), or those of a
Shop of the light type (`Light`). Kinds for which all the sets above agree, and
`Finalized` and `Optional` are among these, differ in name only, and the pass makes its
calls independently of each other but for `ready`.
Not modelled here: the database types in one Shop (Rollout has the switch), a
missing CRD (Monitoring), the migration Job: it is kept and cached like the JWT
Secret, but one that succeeded for the predecessor also counts as done, which
would need the contents of the database as state.

### ShopNames

Constant-level: a name is the sequence of the words between its dashes, `Owned(n)`
the objects of Shop `n` as (kind, purpose, name), `Pods(n)` the names of its pods.
`InMetricsScope` is the pattern of `shopMetricsScope`: since it ends with `-.*`
and is anchored, it is a prefix of words. Names with dots are left out.
`MCMonitoring` composes it with `Monitoring`: `ObjectsAreOwn` and `RulesAreOwn` say
of the objects that were really made that no two share a name, and when a Shop's
rules see the pods of another: when that one is called after a service of the first. The Shop
`acme-auth` has the pods `shop-acme-auth-auth-...`, which the scope of `acme`
matches, so they are in `acme`'s dashboard and alerts. The panels for logs and
traces (`shop_dashboard.go:208-210`) leave out the service and therefore show those
of every Shop whose name goes on from `acme-`, although the comment at 203-206 says
"Scoped to this Shop's pods".

### ShopSelectors

Constant-level, on top of ShopNames: `AppPod` and `MigrationPod` are the pods of the
shared namespace with their labels (the template of a migration Job has none of
the Shop's), `Endpoints` what a Service selects, `Scraped` what a ServiceMonitor
does. An alert takes four documents that the operator generates: the scope of the
rules picks the pods (`Alerts`), the rules add a label (`AlertLabels`), the route asks
for it (`Matchers`), its receiver names the Secret of the webhook (`Receiver`);
`Notified` puts them together. `Selects` is what Kubernetes and Alertmanager do
with them. `TrafficIsOwn` and `AlertsAreOwn` in `MCMonitoring` tie the two
properties to the objects made; Shops like `acme-auth` are excepted from the
second as from `RulesAreOwn`, and no rule looks at a frontend, although the crash
alert speaks of any "pod belonging to Shop" (`shop_alerts.go:84`).

### Monitoring

The front part of the Shop controller's pass (`shop_controller.go` 199-218): one
action for the DiscordChannel, one for each monitoring object (`Ensure`, skipped
when `IsNoMatchError` says that its CRD is missing), `LookUpSecret`, and `Finish`
for the rest. Of the DiscordChannel controller only the order counts in which it
publishes: the Secret, then the status. `missed` is a history variable: whether the
last lookup found no Secret in the cache although it exists. `seen` has one position for the
DiscordChannel's informer, whose events queue the Shop, and one for the Secret's,
whose events queue nothing. The two lag independently. The CRDs that are installed are chosen at the
start. Not modelled: deletion, the Wallet (the call before), edits of the objects
by others, a dashboard ConfigMap that the cache does not show yet (it fails the
pass once more, as `Fail` does).

## 3. Model checking

| Run | Question | Bounds |
|---|---|---|
| `DiscordChannelTwo.cfg` | Do two processes keep types, finalizer cover, live records, final records and the contract? Does neither rest with something left to do? | 2 processes (symmetric), 2 channels, 1 webhook, 3 disturbances |
| `DiscordChannelOne.cfg` | Do webhooks post where they should, does the resource go last, do provisioning and cleanup end? | 1 process, 2 channels, 2 webhooks, 4 disturbances, all states of the credentials |
| `Payout.cfg` | Are addresses shown valid and in order, does the operator rest only when the last one is shown, and does it arrive? | 1 valid and 1 malformed address, 1 edit, 1 disturbance (tampering included) |
| `Rollout.cfg` | Is ready reported only for what was served, does the controller rest only then, does a Shop get ready, is the application there, also across a switch of databases? | 2 services, created with the standard type, 2 database types, lag 1, 1 disturbance |
| `Monitoring.cfg` | Is monitoring optional, does the alert route appear, never without its Secret, and before the controller rests? Do names, labels and matchers keep Shops apart? | every set of CRDs, caches that lag without limit, 2 disturbances; 84 Shop names of up to 3 words out of 4 |
| `ShopChildren.cfg` | Do children go with their Shop, come back, stay the same object, and belong to a Shop that is ready? Does the controller rest only when they are there? | 4 kinds (the DiscordChannel and the alert route among them), 2 incarnations, lag 1, 1 disturbance |
| `DiscordOrphan.cfg`, `DiscordReadyLost.cfg`, `DiscordSecret.cfg`, `RolloutUnready.cfg`, `RolloutStalePods.cfg`, `ShopRecreated.cfg` | disagreements, section 5 | smallest that shows them |

**Why the bounds are enough.** A disturbance is a step of a user, a fault or a
restart. Creating and deleting the resource cost one each, so three leave one
fault, restart or edit between them, and with two processes every stale copy a
handler can hold arises from those versions alone. Two channels are what it takes
for two processes to create one each; a second webhook is what it takes for a
retry. The safety properties of DiscordChannel are proved without bounds, so its
runs only have to be large enough to have found mistakes before the proof; this
is why the run with two processes gets along with one webhook. For Payout one
edit is enough: the Shop starts with an address or none, and an address that is
shown, replaced by a malformed one and shown again is already out of order with
two declarations; with one disturbance each write of a pass may fail or be
retried, each cache may lag, and the process may restart at any point. For
Rollout one disturbance is an edit, a failure, a restart, an expired Job or a lost
pod, at any point of two passes; two services are needed for one pass to see one
service ready and the other not; the tier changes the replica count as the edit of
the type changes the template, so `RolloutStalePods` and `Rollout` keep one tier.
In ShopChildren two incarnations are what it takes to meet a predecessor's child,
one version of lag what it takes for a cache to miss a creation or a removal. The
four kinds are one that is watched and has a finalizer, one that passes may leave
out, one kept and read from the server, one kept and cached; a kind that every pass
converges and reads from the server takes the place of the route in `WithMonitor`. In
Monitoring two disturbances make a pass fail and another one run at any time; the
objects involved are single, so nothing else is bounded.

Deadlock is not checked in any run: with the disturbances used up and everything
settled, the system rests. What may be found when it does is a property instead:
in `RestsWhenRight`, `RestsWhenReady`, `RestsWithItsParts`, `RestsWhenRouted` and
`RestsWhenDone`, `Quiet` (for one process of `DiscordChannel`, `Rests`) says that no
key is queued, no pass runs and no watched event is under way. Nothing but the
environment can then make another pass begin, so whatever is missing in such a
state stays missing. These properties are the part of `PayoutArrives`,
`BecomesReady`, `AppIsThere`, `PartsReturn`, `AlertsAreRouted`, `Provisioned` and
`CleanedUp` that needs no fairness: they say that no step forgets what is left to do.
`Quiet` of `Monitoring` asks that the recorded webhook has been delivered, in place
of all events: that event is the last of the DiscordChannel. Together with "the controller comes to
rest", which is left to TLC, they give most of what the liveness properties say.
Disturbances may still be left in a quiet state, and the properties hold there too.

**Fairness.** Weak fairness of each worker as a whole (`Reconcile(w)`,
`ShopWorker`, `WalletWorker`): controller-runtime runs a worker for each queue as
long as the process lives, and a requeue delay ends. Weak fairness of each watch:
an informer delivers what happened. Weak fairness of the garbage collector, and in
`Rollout` and `ShopChildren` of the controllers that bring databases, Jobs and
Deployments up and of the expiry of a failed Job: without them no Shop could get
ready. Both ask for less than that: `Rollout` has one condition for all watches and
one for all those controllers, `ShopChildren` one for the Shop's watch, one for the
children's and one for collector, finalizers and controllers. What they do is finite, so each
gets its turn. That a condemned DiscordChannel
goes in the end (`Release`) rests on `CleanedUp`: it needs credentials for the bot, and
so does what `CascadeDelete` says of this kind. In `Monitoring`
the two writes of the DiscordChannel controller are fair, which is what
`Provisioned` shows of it. Nothing is
assumed of users, faults, restarts, `InstallOperator` or the informer resync, whose period is hours. Faults are bounded by
`MaxDisturbances`, which says that from some point on there are none; every
liveness property is about what happens then.

## 4. Proofs

For every value of the constants, from `Spec` alone and the assumptions on constants
that the modules name: `BoundsAssumption` (bounds are numbers), `ChildrenAssumption`
(each call once, the database and the status among them), `MonitoringAssumption`
(a number), `AddressAssumption` (valid addresses are addresses, none is `Empty`),
`RolloutAssumption` (services, tiers and lags are what they should be),
`NamesAssumption` (names are sequences of words, the controller's own
words among these).

| Theorem | Statement |
|---|---|
| `DiscordChannelProofs!Invariance` | `Spec => []IInv` |
| `TypeCorrect` | `Spec => []TypeOK` |
| `ChannelInUse` | `Spec => []RecordedChannelIsLive` |
| `CoveredByFinalizer` | `Spec => []FinalizerBeforeChannel` |
| `WebhooksReachChannel` | `Spec => []WebhooksPostToRecordedChannel` |
| `DiscordContractProofs!RecordsFinal` | `Spec => RecordsAreFinal` |
| `GoneAfterChannel` | `Spec => GoneOnlyAfterItsChannel` |
| `ImplementsContract` | `Spec => KeepsContract` |
| `RestIsDone` | `Spec => []RestsWhenDone` |
| `ChannelContract!InUseExists` | the contract's own invariant |
| `ShopChildrenProofs!Invariance` | `Spec => []IInv` |
| `TypeCorrect` | `Spec => []TypeOK` |
| `NothingReplaced` | `Spec => NothingIsReplaced` |
| `ReadyKeeps` | `Spec => ReadyKeepsItsParts` |
| `RestHasParts` | `Spec => []RestsWithItsParts` |
| `RolloutProofs!Invariance` | `Spec => []IInv` |
| `TypeCorrect` | `Spec => []TypeOK` |
| `ReadyEarned` | `Spec => []ReadyIsEarned` |
| `RestIsReady` | `Spec => []RestsWhenReady` |
| `PayoutProofs!Invariance` | `Spec => []IInv` |
| `TypeCorrect` | `Spec => []TypeOK` |
| `HandsOnPublished` | `Spec => []OnlyPublished` |
| `PromiseKept` | `Spec => KeepsPromise` (refinement of `PayoutContract`) |
| `RestIsRight` | `Spec => []RestsWhenRight` |
| `MonitoringProofs!TypeCorrect` | `Spec => []TypeOK` |
| `RouteHasSecret` | `Spec => []RoutesHaveSecrets` |
| `RestIsRouted` | `Spec => []RestsWhenRouted` |
| `ShopNamesProofs!NamesDisjoint` | `ObjectNamesDisjoint`, for any set of names |
| `TrafficOwn` | `TrafficStaysInShop`, for any set of names |
| `AlertsOwn` | `AlertsReachTheirShop`, for any set of names |
| `MetricsOwn` | `MetricsAreOwn`, for any set of names |
| `ObjectsStayOwn`, `TrafficStaysOwn`, `AlertsStayOwn`, `RulesStayOwn` | `Spec => []ObjectsAreOwn`, and so on: the same of the objects that `MCMonitoring` has made |

**DiscordChannel.** None of the properties is inductive: whether a handler may
delete channel `c` depends on what the version it once read has in common with the
current one. `IInv` therefore speaks about the whole history:

* `HistoryInv`: of two versions of one incarnation the later keeps what the
  earlier recorded, and a condemned incarnation records nothing more (`Later`);
  what a version records exists and belongs to it (`Sound`).
* `WorkerInv`: a handler's copy agrees with the version it carries in all but the
  channel it is about to save (`Copies`), and what it is about to do is justified
  by that version (`Progress`). `removeFinalizer`, for instance, implies that the
  version is condemned and that its channel is gone.
* `UnsavedInv`: a channel that is created and not saved is known to one handler.
* `MakerInv`: every channel was made for an incarnation that had its finalizer.
* `SecretInv`: the Secret's webhook posts to a channel its owner recorded.

A write is accepted only at the latest version, so an accepted write extends the
history by a `Later` version, and an unaccepted one changes nothing. Deletions in
Discord are not guarded by versions: there `HistoryInv` carries over from the
stale version (condemned, channel `c`) to the current one (same incarnation: also
condemned; another incarnation: another channel, since `Sound` ties a channel to
its maker). For the refinement, `StepKinds` classifies every step of the model by
what it does to (history, live), and `ImplementsContract` maps each kind to an
action of the contract or a stutter.

`RestIsDone` needs two invariants more. `KeyInv`: a pass that no key follows works on
the latest version that its process has heard of, since what the informer delivers
comes with a key. `CondemnedInv`: a condemned version has the finalizer. A version
that is appended, by whomever, leaves every process with an event to come
(`RestHasHeard`); a process that comes to rest has therefore ended a pass on the
current version and has left it as it was, and there is no way to do that but with
nothing left to do (`EndsWhenDone`). The retry with missing credentials is why such a
state is not at rest: the key comes back.

**ShopChildren.** Whether a pass may take a child over depends on which incarnation
of the Shop it has read and which ones made the versions of the child. `IInv` puts
them in one order: there is one worker and its reads of the Shop never go back
(`ShopInv`), so the owners of all versions of all children (`OwnerInv`) are at most
the incarnation of the running pass, which is at most every incarnation the cache
may still show (`Readable`, `PassInv`). A pass therefore never takes a child from a
later incarnation: `NothingReplaced`. A status that is accepted was read as the
only version of the Shop, so its pass is of the living incarnation and has claimed
what it has visited (`ReadyInv`): `ReadyKeeps`. `Fate` lists what a step may do to a
child that is not dying; a claim keeps what is dying dying, so nothing is condemned
by a pass. What was condemned before a Shop took it over is beyond both theorems: it
goes, and `RestHasParts` and `PartsReturn` say that the controller does not rest
until another one is there. With several workers or processes the order would not hold.

`RestsWithItsParts` is not inductive: what holds at the end of a pass depends on
what the pass found. `LastPassInv` speaks of a pass that neither a key nor an event
follows (`~queued /\ Caught`), which may be the last one: it is of the living Shop,
what it has visited of the watched kinds exists and is owned, and if it was ready
when it wrote the status, the status says so. A step either leaves all that alone,
or it leaves a reason for another pass: a write of the Shop or of a watched child is
a version that the cache does not show (`ShopWritten`, `WatchedWritten`), an error
queues the key (`Unsettled`), a status that is written is an event itself, so that
one that is not must have been right already (`StatusSettled`). When the pass ends
with the key dropped it was ready, and it has visited everything (`FinishSettled`).
Kinds that are not watched are not in the property, and would not keep it.

**Rollout.** `past` remembers what was ever achieved: databases ready, migrations
done, Deployments with all their pods ready. Whatever a version of such an object
shows is in it (`DatabaseInv`, `JobInv`, `DeploymentInv`), so a pass learns nothing
from a cache, however old, that is not in the past. While `allReady` holds, the
past has what the pass has gone through so far, for the spec it has read
(`PassInv`, by the position in the loop). The status is accepted only for the
version read; and an edit is not taken for ready, since the generation observed is
never ahead (`ShopInv`).

For `RestsWhenReady` the invariant is again about a pass that nothing follows
(`LastPassInv`): it has read the latest Shop, and as long as it finds everything
ready, the Deployments it has gone through are those of the present spec and ready
still, since every later change of a Deployment is an event. Databases and Jobs are
not watched, so nothing tells the controller when they fail later, and the property
says nothing of them.

**Payout.** An address gets into a Wallet's status through `Validated` only, and into
the Deployment from there only. All versions and both workers' copies are good
(`WalletInv`, `DeploymentInv`, `ShopPassInv`, `WalletPassInv`), so any cache shows a
good one.

`PromiseKept` is the refinement of `PayoutContract`. It needs the order in which the
declarations come through, and the versions show addresses only, which two
declarations may share. `OrderInv` says that the stages of the way can be numbered
by declarations (`Origins`): the address in the Wallet comes from declaration `s`,
each version of the Wallet publishes what some `ap[i]` came to, and the Shop's pass
carries one in between. No stage is ahead of the one before it: `ap` grows and does
not pass `s`, which does not pass what the Shop's cache shows, and the Deployment
is not ahead of the Wallet version in the cache. Stale caches do not break
that: each only moves on, and a write from an old copy is refused (`CopyInv`).

The contract's position is `Reached[Len(deployment)]`, a recursive function. That
there is such a function (`Recursion`), and what it gives when a version is added,
is an induction over the versions; the library's induction rules cannot be used,
so `UpTo` takes the least number for which the claim would fail
(`NatLessThanWellFounded`, `WFMin`). `FirstSource` says that it chooses the earliest
declaration that explains a version: hence it is not ahead of the one in `OrderInv`
that really did. A write of the Deployment therefore moves the position forward to a
declaration with its address (`Follow`); every other step is a declaration, somebody
else's edit, or nothing.

`RestIsRight` rests on `Settled`: when all events have been delivered and no key is
queued, each call of the Shop's pass is about the latest versions (`ShopSettled`), and
a Wallet that its controller has done with has the verdict on its address
(`WalletSettled`). The conflict of the Wallet's two writers ends in an error for one
of them, which queues its key; the status that is written is an event that queues the
Shop.

**Monitoring.** A Secret that was published stays, so that what the lookup found in
a cache, however old, is there when the route is made. For `RestIsRouted`, `PassInv`
says what the pass has made by the call it has come to, and that at rest the Shop is
ready and all but the route is made. `RouteInv` is about the route: when no key is
queued and the recorded webhook has been delivered, a pass that is past the route has
made it. Or `missed` is set: the webhook is recorded after the Secret is
published (`SecretInv`), so a pass that knows of the webhook and leaves the route out
has looked for a Secret that exists.

**ShopNames.** Names are compared from their last words, which tell the purposes of
a kind apart; of two purposes that end alike (a JWT Secret and that of Redis, a Job
of each service) the word before differs. Labels compare the Shop's name itself. A
scope meets the pods of another Shop only when that one's name goes on with a
service: the words are compared one by one, and no service is called `hash`. A
migration Job's pods have two more words; `Confusable` names the Shops whose pods
they can meet. The four theorems about `Spec` need nothing of its steps: what they
say of the objects made holds for any set of Shops.

**Checked by TLC only:** the liveness properties (`Provisioned`, `CleanedUp`,
`PayoutArrives`, `BecomesReady`, `AppIsThere`, `CascadeDelete`, `PartsReturn`,
`MonitoringIsOptional`, `AlertsAreRouted`), because they rest on fairness and
`ENABLED`, which the prover does not handle. Of all but `CascadeDelete` and
`MonitoringIsOptional` the safe part is proved: the controllers do not rest too
early. Every invariant and every action property of the passing runs is stated by a
theorem. The types of `Monitoring` are proved only: a run with its `TypeOK` would ask
what the API server accepts, not what the controller does.

## 5. What the code does not keep

| Property | Run | What happens |
|---|---|---|
| `NoOrphanChannel` | `DiscordOrphan.cfg` | a crash, conflict or lost answer between the creation of a channel (`discordchannel_controller.go:150`) and the save of its ID (167) leaves a channel that no cleanup finds |
| `ReadyIsRestored` | `DiscordReadyLost.cfg` | once the credentials were missing, Ready stays False: the early return (145) comes before any update of the condition |
| `SecretMatchesStatus` | `DiscordSecret.cfg` | `AlreadyExists` of the Secret's creation counts as success (`discordchannel_controller.go:204-209`): after a failed status update (218) a second webhook is made, the status names it, the Secret holds the first; a Secret of the resource's predecessor is kept the same way and then collected |
| `StaysReady` | `RolloutUnready.cfg` | the migration Job expires after 600 s (`shop_controller.go:920`), its absence counts as "not migrated" (904-909), and a Shop that is up is reported not ready until the Job has run again |
| `AvailableIsFunctional` | `RolloutStalePods.cfg` | ready pods are counted whatever their template (`shop_controller.go:259`): after a switch of the database type the Shop is Available while every pod runs with the old database |
| `DatabaseIsThere` | `ShopRecreated.cfg` | a Shop created again takes its predecessor's database, still there, for its own (698) and is reported ready; the garbage collector removes it, and neither that nor anything it causes brings another pass: only another event or the resync, hours later, would |

Each run states what a comment, a type's documentation, a test or `TESTING.md`
says; `PROJECT.json` quotes it.

One more promise is not kept in all cases. `shop_alerts.go:125-127` relies on the
event of the DiscordChannel's status to bring the alert route about. That event
does run a pass, but the pass reads the Secret from another informer (133). If that
one is behind, the route is skipped (134-137), and a Shop that is ready is not
queued again until something else happens to it or the informers are resynced,
hours later (the model has no resync). No fault is needed for this.
`AlertsAreRouted` and `RestsWhenRouted` hold without any assumption on the caches and
name this case: `missed`. They say that nothing else keeps the route away, and
that it is the last lookup of all that must have been too early.

A second one concerns names: shops called after a service of another one, see
ShopNames in section 2.

## 6. Plan

Done: `DiscordChannel` first (it holds the only external resources and the only
finalizer), then its contract and proofs, `Payout`, `Rollout`, `Monitoring`,
`ShopChildren`, `ShopNames`, `ShopSelectors`, and the safety proofs of each.

Next, in this order:

1. `Monitoring` with CRDs that come and go and a Secret that is replaced.
2. Two processes of the Shop controller, and the migration Job of a predecessor.
3. Proofs: that a pass ends, by a measure that each of its calls lowers.
