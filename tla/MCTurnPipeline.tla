--------------------------- MODULE MCTurnPipeline ---------------------------
(* A small instance of TurnPipeline. *)
EXTENDS TurnPipeline

MCWeights == {2}
=============================================================================
