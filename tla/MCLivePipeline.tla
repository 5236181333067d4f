--------------------------- MODULE MCLivePipeline ---------------------------
(* LivePipeline for TLC: the .cfg files give the bounds and the faults. *)
EXTENDS LivePipeline
=============================================================================
