-------------------------------- MODULE MCBus --------------------------------
(* Two publishers are the pipeline and one other caller of Broadcast; a      *)
(* channel of one message fills with the first unread event.                 *)
EXTENDS Bus, TLC

Symmetry == Permutations(Publishers) \cup Permutations(Subscribers)
=============================================================================
