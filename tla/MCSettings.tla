----------------------------- MODULE MCSettings -----------------------------
(* Two requests at a time are enough for one to change a store between the  *)
(* unlock and the hook of another; one plugin, since the file is rewritten  *)
(* as a whole and the entries differ by the fields they have.               *)
EXTENDS Settings
=============================================================================
