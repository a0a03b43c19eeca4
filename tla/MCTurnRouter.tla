---------------------------- MODULE MCTurnRouter ----------------------------
(***************************************************************************)
(* The notification router for the model checker: the sessions differ only *)
(* in the scope they open, which Init chooses freely.                      *)
(***************************************************************************)
EXTENDS TurnRouter, TLC

Symmetry == Permutations(Sessions)
=============================================================================
