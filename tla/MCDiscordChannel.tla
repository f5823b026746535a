-------------------------- MODULE MCDiscordChannel --------------------------
(***************************************************************************)
(* DiscordChannel for TLC.                                                 *)
(***************************************************************************)
EXTENDS DiscordChannel, TLC

\* Operator processes are interchangeable: no action tells them apart.
Symmetry == Permutations(Operators)
=============================================================================
