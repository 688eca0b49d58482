---------------------------- MODULE MCCorrelator ----------------------------
\* A finite instance of Correlator for TLC.
EXTENDS Correlator, TLC

CONSTANTS i1, i2

\* Each call can take the images of the other in the other order.
MCImagePairs == {<<i1, i2>>, <<i2, i1>>}

Size(w, h) == [w |-> w, h |-> h]

\* Padded to 4 and to 2; too large for the shaders only, for both, and too small.
MCMaxSizes == {Size(4, 5), Size(2, 3), Size(2, 12), Size(5, 5), Size(1, 4)}

\* As large as it goes, smaller, larger than the maximum, and too small.
MCCallSizes == {Size(4, 5), Size(2, 3), Size(5, 4), Size(1, 3)}

MCOptionLists ==
    {<< >>} \cup {<<o>> : o \in {"auto", "vulkan", "cpu", "device", "nil"}}
    \cup {"cpu", "device"} \X {"cpu", "device"}

Confidences == {NaN, 1, 2, 3, Infinite}
Tries == [confidence : Confidences, finite : BOOLEAN]
MCNumbers ==
    [angleFinite : BOOLEAN, scale : {NaN, 0, 1}, rotation : {NaN, 1, 2}, first : Tries, second : Tries]

Symmetry == Permutations({i1, i2})

=============================================================================
