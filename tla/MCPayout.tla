------------------------------ MODULE MCPayout ------------------------------
(***************************************************************************)
(* Payout for TLC; the configuration names the addresses.                  *)
(***************************************************************************)
EXTENDS Payout
=============================================================================
