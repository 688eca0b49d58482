------------------------- MODULE MemoryDependencies -------------------------
(***************************************************************************)
(* The memory dependencies of a Vulkan queue, as far as the barriers of    *)
(* this package use them (external: the execution and memory dependencies  *)
(* of the Vulkan specification).  A stream is a sequence of accesses and   *)
(* barriers in submission order.  What a barrier orders depends on the     *)
(* accesses before it; Run keeps, for each of these, the stages that wait  *)
(* for it and what its write is visible to.                                *)
(***************************************************************************)
EXTENDS SequencesExt

\* An access of a command, or a barrier with its scopes and buffers.
Touch(stage, access, buffer) ==
    [op |-> "touch", stage |-> stage, access |-> access, buffer |-> buffer]

Dependency(srcStages, dstStages, srcAccess, dstAccess, buffers) ==
    [op |-> "dependency", srcStages |-> srcStages, dstStages |-> dstStages,
     srcAccess |-> srcAccess, dstAccess |-> dstAccess, buffers |-> buffers]

Writes(access) == access \in {"shaderWrite", "transferWrite"}

\* An access that was put on the queue, by the command at place by.
Started(t, by) ==
    [by |-> by, stage |-> t.stage, access |-> t.access, buffer |-> t.buffer,
     after |-> {}, available |-> FALSE, visible |-> {}]

\* Access e after barrier d.  The barrier holds back its destination stages when e,
\* or a stage that waits for e, is in its source scope.  It then makes e available
\* when e is one of its source accesses to its buffers, and what is available
\* visible to its destination accesses.
Waited(e, d) ==
    IF e.stage \notin d.srcStages /\ e.after \cap d.srcStages = {} THEN e
    ELSE LET mine      == e.buffer \in d.buffers
             available == \/ e.available
                          \/ mine /\ e.stage \in d.srcStages /\ e.access \in d.srcAccess
         IN  [e EXCEPT !.after = @ \cup d.dstStages,
                       !.available = available,
                       !.visible = IF mine /\ available THEN @ \cup d.dstAccess ELSE @]

\* Access t, which follows e in the stream, may overlap e or miss what e wrote.
MayOverlap(e, t) ==
    /\ e.buffer = t.buffer
    /\ Writes(e.access) \/ Writes(t.access)
    /\ t.stage \notin e.after \/ (Writes(e.access) /\ t.access \notin e.visible)

\* The accesses so far, and the pairs of commands that may overlap.
NothingRun == [past |-> {}, races |-> {}]

RunOne(q, t, by) ==
    IF t.op = "dependency" THEN [q EXCEPT !.past = {Waited(e, t) : e \in @}]
    ELSE [past  |-> q.past \cup {Started(t, by)},
          races |-> q.races \cup {<<e.by, by>> : e \in {e \in q.past : e.by # by /\ MayOverlap(e, t)}}]

\* The command at place by is the sequence touches.
RunCommand(q, touches, by) == FoldLeft(LAMBDA p, t : RunOne(p, t, by), q, touches)

\* The whole stream, a sequence of such sequences.
Run(stream) == FoldLeft(LAMBDA q, i : RunCommand(q, stream[i], i), NothingRun,
                        [i \in DOMAIN stream |-> i])

=============================================================================
