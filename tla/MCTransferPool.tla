--------------------------- MODULE MCTransferPool ---------------------------
\* Finite instances of TransferPool for TLC.
EXTENDS TransferPool, TLC

CONSTANTS r1, r2, b1, x1, x2, x3

\* Coherent memory only; cached memory that is not coherent; both.
MCDevices ==
    {[types |-> <<{}, {"visible", "coherent"}>>, atom |-> 1],
     [types |-> <<{"visible", "coherent"}, {"visible", "cached"}>>, atom |-> 3]}

Symmetry == Permutations({r1, r2}) \cup Permutations({x1, x2, x3})

=============================================================================
