--------------------------- MODULE MCPipelineTask ---------------------------
(* Instances of PipelineTask for TLC. *)
EXTENDS PipelineTask, TLC

CONSTANTS i1, i2, r1

ItemSymmetry == Permutations(Items)
=============================================================================
