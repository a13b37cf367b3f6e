----------------------------- MODULE MCTracker -----------------------------
(* Two requests for one player.  A token takes two ticks, so that the bucket *)
(* can hold part of one; the circuit opens after two blocked answers.        *)
EXTENDS Tracker, TLC

Symmetry == Permutations(Callers)
=============================================================================
