------------------------------- MODULE MCHandoff -------------------------------
(* Instances of Handoff for TLC. *)
EXTENDS Handoff, TLC

Surfaces == Permutations(Answerer)   \* the surfaces differ in nothing
=============================================================================
