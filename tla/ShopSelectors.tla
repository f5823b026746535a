---------------------------- MODULE ShopSelectors ----------------------------
(***************************************************************************)
(* Which pods a Shop's Services and its ServiceMonitor select, and which   *)
(* Discord webhooks hear of a pod in trouble: labels and matchers, where   *)
(* all Shops live in one namespace                                         *)
(* (internal/controller/shop_controller.go: reconcileDeployment,           *)
(* reconcileService, reconcileServiceMonitor; shop_alerts.go).             *)
(*                                                                         *)
(* Labels with the same value on everything are left out.                  *)
(***************************************************************************)
EXTENDS ShopNames

\* Kubernetes, Prometheus and Alertmanager: each label that is asked for.
Selects(wanted, labels) ==
  \A k \in DOMAIN wanted : k \in DOMAIN labels /\ labels[k] = wanted[k]

(***************************************************************************)
(* Services and the ServiceMonitor.                                        *)
(***************************************************************************)

\* Mutant of labelsForComponent: the component without the instance.
labelsOfComponentAlone(n, c) == [component |-> c]

\* labelsFor and the component; the instance is the name of the Shop.
labelsForComponent(n, c) == [instance |-> n, component |-> c]

\* A pod made from the Deployment's template, and one of a migration Job,
\* whose template has no labels but those that Kubernetes adds.
AppPod(n, s) ==
  [name |-> serviceResourceName(n, s) \o <<"hash", "id">>, labels |-> labelsForComponent(n, s)]
MigrationPod(n, s) ==
  [name |-> Append(migrationJobName(n, s), "id"), labels |-> [job |-> migrationJobName(n, s)]]

ClusterPods ==
  {AppPod(n, s) : n \in Names, s \in MicroserviceNames}
    \cup {MigrationPod(n, s) : n \in Names, s \in WithMigrations}

\* The pods that the Service of microservice s sends requests to.
Endpoints(n, s) == {pod \in ClusterPods : Selects(labelsForComponent(n, s), pod.labels)}

\* The pods that Prometheus asks for metrics on behalf of Shop n: those of the
\* Services of its instance with a component that has metrics.
Scraped(n) ==
  LET monitored(m, s) == /\ Selects([instance |-> n], labelsForComponent(m, s))
                         /\ labelsForComponent(m, s).component \in Backends
  IN  UNION {Endpoints(x[1], x[2]) : x \in
               {y \in Names \X MicroserviceNames : monitored(y[1], y[2])}}

(***************************************************************************)
(* Alerts.                                                                 *)
(***************************************************************************)

\* shopAlertRule: the rules of Shop n label their alerts.
AlertLabels(n) == [shop |-> n]

\* The alerts about a pod: one of each Shop whose rules look at it.
Alerts(pod) == {AlertLabels(n) : n \in {m \in Names : InMetricsScope(m, pod.name)}}

\* Mutant of Matchers: the route of a Shop without a matcher.
NoMatchers(n) == [k \in {} |-> n]

\* The matchers of the route in the AlertmanagerConfig of Shop n.
Matchers(n) == [shop |-> n]

\* Its receiver: the Secret with the URL of the webhook.
Receiver(n) == resourceName(n) \o SecretSuffix.webhook

\* The webhooks that are told of a pod in trouble.
Notified(pod) ==
  LET alerts == Alerts(pod)
  IN  {Receiver(n) : n \in {m \in Names : \E a \in alerts : Selects(Matchers(m), a)}}

(***************************************************************************)
(* Properties.                                                             *)
(***************************************************************************)

\* "namespace alone never uniquely identifies" a Shop
\* (shop_controller.go:357-361): a Service sends requests to the pods of its
\* own microservice only, none of another Shop and no migration, and a
\* ServiceMonitor scrapes the backends of its own Shop.
TrafficStaysInShop ==
  \A n \in Names :
    /\ \A s \in MicroserviceNames : Endpoints(n, s) = {AppPod(n, s)}
    /\ Scraped(n) = {AppPod(n, s) : s \in Backends}

\* "without this matcher each Shop's route would also catch every other
\* Shop's alerts" (shop_alerts.go:159-161): trouble with a backend is told to
\* the Discord channel of its Shop, and to that of another only if the
\* former is named after a service of the latter.
AlertsReachTheirShop ==
  \A n \in Names, s \in Backends :
    LET told == Notified(AppPod(n, s))
    IN  /\ Receiver(n) \in told
        /\ \A m \in Names \ {n} : Receiver(m) \in told => n \in Confusable(m)
=============================================================================
