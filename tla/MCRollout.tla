----------------------------- MODULE MCRollout -----------------------------
(***************************************************************************)
(* Rollout for TLC: the services that stand for the five of                *)
(* shopMicroservices, in its order (those with migrations come first).     *)
(***************************************************************************)
EXTENDS Rollout

OneService == <<"auth">>
TwoServices == <<"auth", "web">>
=============================================================================
