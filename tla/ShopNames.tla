----------------------------- MODULE ShopNames -----------------------------
(***************************************************************************)
(* The names of what belongs to a Shop, and the patterns by which the      *)
(* dashboard and the alert rules pick its pods.  All Shops live in one     *)
(* namespace (internal/controller/shop_controller.go:356-360), so names    *)
(* and patterns are all that keeps them apart.                             *)
(*                                                                         *)
(* A name is the sequence of the words between its dashes.  Every pattern  *)
(* ends with a dash and ".*" and is matched against whole names, so that   *)
(* prefixes of words say what it matches.                                  *)
(***************************************************************************)
EXTENDS Sequences, SequencesExt

CONSTANTS
  Words, \* what names are made of
  Names  \* names of Shops; none has a dot

Backends == {"auth", "order", "payment", "inventory"}
MicroserviceNames == Backends \cup {"frontend"}
WithMigrations == {"auth"} \* hasMigrations

\* The words that the controller appends.
OwnWords ==
  MicroserviceNames \cup
  {"shop", "jwt", "redis", "db", "app", "discord", "webhook", "wallet", "ingress",
   "metrics", "alerts", "alert-routing", "dashboard", "migrate", "hash", "id"}

\* A Shop may be called after any of them.
ASSUME NamesAssumption == OwnWords \subseteq Words /\ Names \subseteq Seq(Words)

resourceName(n) == <<"shop">> \o n
serviceResourceName(n, s) == Append(resourceName(n), s)

\* Mutant of SecretSuffix: the JWT Secret is named after its service alone.
SecretSuffixOfService ==
  [jwt |-> <<"auth">>, redisAuth |-> <<"redis", "auth">>,
   databaseApp |-> <<"db", "app">>, webhook |-> <<"discord", "webhook">>]

\* The Secrets of a Shop; CloudNativePG makes the one for the application.
SecretSuffix ==
  [jwt |-> <<"auth", "jwt">>, redisAuth |-> <<"redis", "auth">>,
   databaseApp |-> <<"db", "app">>, webhook |-> <<"discord", "webhook">>]

\* The one object of its kind that a Shop has.
SingleSuffix ==
  [Wallet |-> "wallet", DiscordChannel |-> "discord", Cluster |-> "db", Redis |-> "redis",
   StatefulSet |-> "redis", Ingress |-> "ingress", ServiceMonitor |-> "metrics",
   PrometheusRule |-> "alerts", AlertmanagerConfig |-> "alert-routing",
   ConfigMap |-> "dashboard"]

\* The migration Job of a service is named without resourceName.
migrationJobName(n, s) == n \o <<s, "migrate", "hash">>

\* What belongs to Shop n: the kind of an object, its purpose, its name.  The
\* Redis operator makes a Service beside those of the microservices.
Owned(n) ==
  {<<k, s, serviceResourceName(n, s)>> : k \in {"Deployment", "Service"}, s \in MicroserviceNames}
    \cup {<<"Service", "redis", serviceResourceName(n, "redis")>>}
    \cup {<<"Secret", p, resourceName(n) \o SecretSuffix[p]>> : p \in DOMAIN SecretSuffix}
    \cup {<<k, "single", Append(resourceName(n), SingleSuffix[k])>> : k \in DOMAIN SingleSuffix}
    \cup {<<"Job", s, migrationJobName(n, s)>> : s \in WithMigrations}

\* Pods append a hash and an identifier to the name of their Deployment, an
\* identifier to that of their Job.
Pods(n) ==
  {serviceResourceName(n, s) \o <<"hash", "id">> : s \in MicroserviceNames}
    \cup {Append(migrationJobName(n, s), "id") : s \in WithMigrations}

\* Mutant of InMetricsScope: every pod whose name extends that of the Shop.
InMetricsScopeOfPrefix(n, pod) == IsStrictPrefix(resourceName(n), pod)

\* shopMetricsScope: ^shop-n-(auth|order|payment|inventory)-.*
InMetricsScope(n, pod) ==
  \E s \in Backends : IsStrictPrefix(serviceResourceName(n, s), pod)

(***************************************************************************)
(* Properties.                                                             *)
(***************************************************************************)

\* resourceName "builds a stable, DNS-safe name for a Shop's child objects"
\* (shop_controller.go:342): two objects of one kind have one name only when
\* they are the same object of the same Shop, whatever the Shops are called.
ObjectNamesDisjoint ==
  \A m, n \in Names : \A a \in Owned(m), b \in Owned(n) :
    a[1] = b[1] /\ a[3] = b[3] => m = n /\ a[2] = b[2]

\* The names that a Shop may not have if n is to see its own pods alone: those
\* that go on with the name of a service, or, for migration Jobs, with "shop".
Confusable(n) ==
  {m \in Names : \/ \E s \in Backends : IsPrefix(Append(n, s), m)
                 \/ \E s \in Backends : IsPrefix(serviceResourceName(n, s), m)
                 \/ m = resourceName(n)}

\* The metrics and the alerts of a Shop are "scoped to its pods"
\* (shop_alerts.go:57-58), each service's and no frontend's, as long as no
\* other Shop is named after one of its services (shop_dashboard.go:148-151).
MetricsAreOwn ==
  \A n \in Names :
    /\ \A s \in MicroserviceNames :
         InMetricsScope(n, serviceResourceName(n, s) \o <<"hash", "id">>) <=> s \in Backends
    /\ \A m \in Names \ (Confusable(n) \cup {n}) : \A pod \in Pods(m) : ~InMetricsScope(n, pod)
=============================================================================
