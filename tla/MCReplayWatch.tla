--------------------------- MODULE MCReplayWatch ---------------------------
(* One directory, which is watched by an override or as the detected one,   *)
(* or which no session finds.  Channels of two let a removal overtake a     *)
(* creation; a third change before Run looks finds fsnotify's queue full.   *)
EXTENDS ReplayWatch
=============================================================================
