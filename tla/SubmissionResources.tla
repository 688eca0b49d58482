------------------------ MODULE SubmissionResources ------------------------
(***************************************************************************)
(* The buffer uses of recorders, transfers and batches (submission.go,     *)
(* submissionResources).                                                   *)
(***************************************************************************)
CONSTANT Buffers        \* the buffers of the device

Access == {"none", "read", "write"}

\* submissionResources: a list with at most one entry for a buffer, as the
\* access of every buffer ("none" where the list has no entry).
Resources == [Buffers -> Access]

NoBuffers == [b \in Buffers |-> "none"]

\* Mutant: the last use wins.
LastAccess(uses, buffer, access) == [uses EXCEPT ![buffer] = access]

AddAccess(uses, buffer, access) ==
    [uses EXCEPT ![buffer] = IF @ = "write" THEN "write" ELSE access]

\* The uses of several recorders merged into those of one batch.
MergeUses(several) ==
    [b \in Buffers |-> IF \E uses \in several : uses[b] = "write" THEN "write"
                       ELSE IF \E uses \in several : uses[b] = "read" THEN "read"
                       ELSE "none"]

Conflict(left, right) ==
    \E b \in Buffers : /\ left[b] # "none"
                       /\ right[b] # "none"
                       /\ "write" \in {left[b], right[b]}

============================================================================
