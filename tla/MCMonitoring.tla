---------------------------- MODULE MCMonitoring ----------------------------
(***************************************************************************)
(* Monitoring for TLC, with ShopSelectors over short names made of words   *)
(* that the controller itself uses.                                        *)
(***************************************************************************)
EXTENDS Monitoring, ShopSelectors

ShortNames ==
  BoundedSeq({"a", "auth", "redis", "shop"}, 3) \ {<<>>}
AllWords == OwnWords \cup {"a"}

\* "this Shop's own alert rules, scoped to its pods" (shop_alerts.go:56-57): the
\* rules, once made, select no pod of a Shop but the one they are made for,
\* with the exception that MetricsAreOwn names.
RulesAreOwn == "PrometheusRule" \in made => MetricsAreOwn

\* "ShopHub deploys every Shop into one shared namespace"
\* (shop_controller.go:358-360): a Shop that is reported ready has its objects
\* to itself, whatever the other Shops are called.
ObjectsAreOwn == status = "ready" => ObjectNamesDisjoint

\* A Shop that is reported ready answers its own requests and counts its own
\* pods, though labels alone tell Shops apart (shop_controller.go:1039-1044).
TrafficIsOwn == status = "ready" => TrafficStaysInShop

\* Once a Shop has rules and a route, its Discord channel hears of its own
\* troubles, and of no others but those that AlertsReachTheirShop excepts
\* (shop_alerts.go:159-161).
AlertsAreOwn ==
  {"PrometheusRule", "AlertmanagerConfig"} \subseteq made => AlertsReachTheirShop
=============================================================================
