------------------------------ MODULE MCSource ------------------------------
(* One packet to be rewritten and one to be left alone; a channel of two     *)
(* fills with a packet and a status.                                         *)
EXTENDS Source

MCPackets == {[name |-> "UpdateState", bot |-> "named"], [name |-> "GoalScored", bot |-> "none"]}
=============================================================================
