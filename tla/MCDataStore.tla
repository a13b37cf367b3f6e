----------------------------- MODULE MCDataStore -----------------------------
(* Two keys, so that a write of one saves what a failed write of the other   *)
(* left behind; two values, so that a replaced value differs from a new one. *)
EXTENDS DataStore
=============================================================================
