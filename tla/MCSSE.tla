-------------------------------- MODULE MCSSE --------------------------------
(* One connection: connections meet only in the bus, which MCBus checks with *)
(* two.  Two changes, of one owner or of two, in any order: enough for the   *)
(* frame of an older match state to overtake that of a newer one.            *)
EXTENDS SSE
=============================================================================
