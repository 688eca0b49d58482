------------------------- MODULE MCDeviceResources -------------------------
(* The finite instances of DeviceResources. *)
EXTENDS DeviceResources, TLC

\* Every set is of every kernel there is one of, and binds all the buffers.
OneKernel == [s \in Sets |-> CHOOSE k \in Kernels : TRUE]
AllBuffers == [s \in Sets |-> SetToSeq(Buffers)]

\* One of the buffers is at two bindings.
OneTwice == [s \in Sets |-> <<SetToSeq(Buffers)[1]>> \o SetToSeq(Buffers)]

\* The kernel may write what it is bound to.
AllBuffersWritten == [s \in Sets |-> Buffers]

Symmetry == Permutations(Goroutines) \cup Permutations(Sets)
============================================================================
