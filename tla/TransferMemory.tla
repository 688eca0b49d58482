--------------------------- MODULE TransferMemory ---------------------------
(***************************************************************************)
(* Host-visible memory for transfers (transfer_memory.go): which memory    *)
(* type a direction may use, and the range of non-coherent memory that a   *)
(* readback invalidates.                                                   *)
(***************************************************************************)
EXTENDS Naturals, Sequences, FiniteSets

Directions == {"upload", "download"}

MemoryFlags == SUBSET {"visible", "coherent", "cached"}

\* Mutant: an upload may use memory that has to be flushed.
AnyVisible(flags, direction) == "visible" \in flags

\* transferMemoryRank, its second result: uploads are never flushed.
Compatible(flags, direction) ==
    /\ "visible" \in flags
    /\ direction = "upload" => "coherent" \in flags
    /\ direction = "download" => flags \cap {"coherent", "cached"} # {}

\* transferMemoryRank, its first result: the lower the better.
Rank(flags, direction) ==
    CASE direction = "upload" /\ "cached" \notin flags  -> 0
      [] direction = "upload"                           -> 1
      [] {"cached", "coherent"} \subseteq flags         -> 0
      [] "cached" \in flags                             -> 1
      [] OTHER                                          -> 2

\* selectTransferMemoryType: the first of the compatible types of the lowest rank
\* among those the buffer allows (a set with one index), or none.
SelectMemoryType(types, allowed, direction) ==
    LET candidates == {i \in DOMAIN types \cap allowed : Compatible(types[i], direction)}
    IN  {i \in candidates : \A j \in candidates :
            \/ Rank(types[i], direction) < Rank(types[j], direction)
            \/ Rank(types[i], direction) = Rank(types[j], direction) /\ i <= j}

\* Mutant: the end of the range is not rounded.
UnroundedRange(offset, size, allocationSize, atom) ==
    [first |-> offset - (offset % atom), end |-> offset + size]

\* nonCoherentRange, for a nonempty range inside the allocation: the end is
\* rounded up to a whole atom, or cut at the end of the allocation.
NonCoherentRange(offset, size, allocationSize, atom) ==
    LET end      == offset + size
        increase == IF end % atom = 0 THEN 0 ELSE atom - (end % atom)
    IN  [first |-> offset - (offset % atom),
         end   |-> IF increase > allocationSize - end THEN allocationSize ELSE end + increase]

----------------------------------------------------------------------------
\* What an invalidation of non-coherent memory needs: it covers the bytes the
\* host reads, stays inside the allocation (so that no 64-bit sum overflows), and
\* starts and ends on whole atoms, or at the end of the allocation.
InvalidatesRead(range, offset, size, allocationSize, atom) ==
    /\ range.first <= offset
    /\ offset + size <= range.end
    /\ range.end <= allocationSize
    /\ range.first % atom = 0
    /\ range.end % atom = 0 \/ range.end = allocationSize

=============================================================================
