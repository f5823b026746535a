--------------------------- MODULE MCShopChildren ---------------------------
(***************************************************************************)
(* ShopChildren for TLC: a kind for each way of treating one.  Converged,  *)
(* cached, watched, and held by a finalizer (discordChannel); converged in *)
(* some passes, read from the server (alertRoute); kept and read from the  *)
(* server (database); kept and cached (jwt).  WithMonitor has instead of   *)
(* alertRoute a kind that is converged in every pass.                      *)
(***************************************************************************)
EXTENDS ShopChildren

EachWay     == <<"discordChannel", "alertRoute", "database", "jwt", "status">>
WithMonitor == <<"discordChannel", "serviceMonitor", "database", "jwt", "status">>
Light       == <<"redisAuth", "database", "deployment", "status">>
=============================================================================
