---------------------------- MODULE MCMatchWire ----------------------------
(* Two guids suffice: every comparison in the code is between the current   *)
(* guid and one remembered earlier.                                         *)
EXTENDS MatchWire, TLC

Separate == ~overlap
Symmetry == Permutations(Guids)
=============================================================================
