----------------------- MODULE MCSubmissionScheduler -----------------------
(* The finite instances of SubmissionScheduler. *)
EXTENDS SubmissionScheduler, TLC

\* Batches with one buffer, and one that reads a buffer and writes another.
MCRequests ==
    {uses \in Resources : \/ \E b \in Buffers : \A c \in Buffers \ {b} : uses[c] = "none"
                          \/ {"read", "write"} = Range(uses)}

============================================================================
