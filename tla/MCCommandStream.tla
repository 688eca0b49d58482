--------------------------- MODULE MCCommandStream --------------------------
\* Finite instances of CommandStream for TLC.
EXTENDS CommandStream, TLC

CONSTANTS r1, r2, b1, b2

\* A kernel from b1 to b2, and one that changes b1 in place.
MCBindingSets ==
    {b1 :> "read" @@ b2 :> "write", b1 :> "write" @@ b2 :> "none"}

Symmetry == Permutations({r1, r2})

=============================================================================
