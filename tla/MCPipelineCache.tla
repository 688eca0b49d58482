-------------------------- MODULE MCPipelineCache --------------------------
(* The finite instances of PipelineCache. *)
EXTENDS PipelineCache, TLC

\* All Devices have the same driver, so that each loads what another saved.
SameDriver == [p \in Devices |-> "driver"]

Symmetry == Permutations(Kernels) \cup Permutations(Devices)
============================================================================
