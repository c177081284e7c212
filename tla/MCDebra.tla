------------------------------ MODULE MCDebra ------------------------------
(* Two threads that share the epoch, and one node to retire.               *)
EXTENDS Debra

CONSTANT o1
=============================================================================
