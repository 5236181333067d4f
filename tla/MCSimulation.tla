---------------------------- MODULE MCSimulation ----------------------------
(* Simulation for TLC: the .cfg files give the bounds. *)
EXTENDS Simulation
=============================================================================
