---------------------------- MODULE MCMatchState ----------------------------
(* One guid suffices here: whether a state is active, and whether a replay  *)
(* can be left, depends on which guid it carries only through equality with *)
(* the empty one and with the one before it.                                *)
EXTENDS MatchState
=============================================================================
