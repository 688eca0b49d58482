---------------------------- MODULE DeviceQueue ----------------------------
(***************************************************************************)
(* Goroutines that use one Device: blocking transfers (Buffer.UploadAt and *)
(* DownloadAt), recordings (Recorder.Upload, Download, Submit,             *)
(* SubmitAndWait, Abort), completion tracking (Submission.Wait and Poll),  *)
(* Buffer.Close and Device.Close.  The reservations are those of           *)
(* SubmissionScheduler.                                                    *)
(*                                                                         *)
(* A step is what a goroutine does between two points where it can block   *)
(* or be observed: Buffer.mu and Submission.mu are held across steps,      *)
(* Device.mu, submissionMu, queueMu and transferMu never are.  Recorder.mu *)
(* is not modelled: a recorder is used by one goroutine at a time          *)
(* (recorder.go:28-30), and a submitted one only by its Submission.        *)
(***************************************************************************)
EXTENDS Naturals, Sequences, FiniteSets, Functions

CONSTANTS
    Goroutines,
    Buffers,
    Recorders,     \* all of them recording at first
    Creations,     \* the orders in which the buffers and recorders were created
    Kinds,         \* the methods the program calls
    Apart,         \* pairs of methods that the program never has in progress together
    Failures,      \* the Vulkan calls that may fail: "native", "queue", "fence", "idle"
    NoOne          \* owner of a free mutex, buffer of a submission without one

CreationOrders ==
    Bijection(1..Cardinality(Buffers \cup Recorders), Buffers \cup Recorders)

ASSUME CreationsAssumption == Creations # {} /\ Creations \subseteq CreationOrders

ASSUME QueueAssumption ==
    /\ IsFiniteSet(Goroutines) /\ IsFiniteSet(Buffers) /\ IsFiniteSet(Recorders)
    /\ Recorders \cap (Goroutines \cup Buffers) = {}
    /\ NoOne \notin Goroutines \cup Buffers

VARIABLES
    pendingSubmissions, activeSubmissions, resources, submissionErr, caller,
    status,        \* Device: "open", "closing" or "closed"
    active,        \* Device.active, the operations in progress
    children,      \* Device.children, in creation order
    transients,    \* Device.unknownTransientSubmissions: batch and retained buffer
    closeList,     \* the children Device.Close still has to close
    bufMu,         \* who holds Buffer.mu
    references,    \* Buffer.references
    bufferClosed,  \* Buffer.closed: its native buffer is destroyed
    recState,      \* Recorder.state
    recBuffers,    \* Recorder.buffers
    recUses,       \* Recorder.resources
    subState,      \* Submission.state, "none" before the submission exists
    subRecorders,  \* Submission.recorders
    subMu,         \* who holds Submission.mu
    result,        \* Submission.result
    batch,         \* the fence of a batch: "none", "executing" or "signaled"
    pc, op         \* where each goroutine is, in which call

\* A batch is named by its goroutine (a transfer) or its first recorder, and a
\* Submission by its batch.
Batches == Goroutines \cup Recorders

S == INSTANCE SubmissionScheduler WITH
        Reservations <- Batches, Requests <- [Buffers -> {"none", "read", "write"}]

schedulerVars == <<pendingSubmissions, activeSubmissions, resources, submissionErr, caller>>
deviceVars    == <<status, active, children, transients, closeList>>
bufferVars    == <<bufMu, references, bufferClosed>>
recorderVars  == <<recState, recBuffers, recUses>>
trackingVars  == <<subState, subRecorders, subMu, result>>
threadVars    == <<pc, op>>
vars == <<schedulerVars, deviceVars, bufferVars, recorderVars, trackingVars, batch, threadVars>>

SubmitKinds   == {"submit", "submitAndWait"}
QueueKinds    == SubmitKinds \cup {"transfer"}
RecorderKinds == SubmitKinds \cup {"record", "abort"}
ObserverKinds == {"wait", "poll"}

NoOp == [kind |-> "none"]

\* A call on recorders has them in recs, which shrinks as they are finished.
RecorderCall(kind, recs) == [kind |-> kind, rec |-> recs[1], recs |-> recs]

SubmitArguments == UNION {Injection(1..n, Recorders) : n \in 1..Cardinality(Recorders)}

Calls ==
    [kind : {"transfer"}, buf : Buffers, acc : {"read", "write"}]
    \cup {[kind |-> "record", rec |-> r, recs |-> <<r>>, buf |-> b, acc |-> a] :
              r \in Recorders, b \in Buffers, a \in {"read", "write"}}
    \cup {RecorderCall("submit", recs) : recs \in SubmitArguments}
    \cup {RecorderCall(kind, <<r>>) : kind \in {"submitAndWait", "abort"} \cup ObserverKinds,
                                     r \in Recorders}
    \cup [kind : {"closeBuffer"}, buf : Buffers]
    \cup {[kind |-> "closeDevice"]}

Labels == {"idle", "call", "acquire", "parked", "queueSubmit", "waitFence", "track",
           "releasing", "end", "drain", "waitIdle", "transients", "children", "awaitClose"}

TypeOK ==
    /\ S!TypeOK
    /\ status \in {"open", "closing", "closed"}
    /\ active \in 0..Cardinality(Goroutines)
    /\ Range(children) \cup Range(closeList) \subseteq
          {"buffer"} \X Buffers \cup {"recorder", "submission"} \X Recorders
    /\ transients \subseteq Batches \X (Buffers \cup {NoOne})
    /\ bufMu \in [Buffers -> Goroutines \cup {NoOne}]
    /\ references \in [Buffers -> Nat]
    /\ bufferClosed \in [Buffers -> BOOLEAN]
    /\ recState \in [Recorders -> {"recording", "submitted", "aborted", "unknown"}]
    /\ recBuffers \in [Recorders -> SUBSET Buffers]
    /\ recUses \in [Recorders -> S!Resources]
    /\ subState \in [Recorders -> {"none", "pending", "unknown", "done"}]
    /\ subRecorders \in [Recorders -> {<< >>} \cup SubmitArguments]
    /\ subMu \in [Recorders -> Goroutines \cup {NoOne}]
    /\ result \in [Recorders -> {"none", "ok", "readError", "lost", "closed"}]
    /\ batch \in [Batches -> {"none", "executing", "signaled"}]
    /\ pc \in [Goroutines -> Labels]
    /\ \A g \in Goroutines : (pc[g] = "idle") = (op[g] = NoOp)

Init ==
    /\ S!Init
    /\ status = "open"
    /\ active = 0
    /\ \E order \in Creations :
          children = [i \in DOMAIN order |->
                         <<IF order[i] \in Buffers THEN "buffer" ELSE "recorder", order[i]>>]
    /\ transients = {}
    /\ closeList = << >>
    /\ bufMu = [b \in Buffers |-> NoOne]
    /\ references = [b \in Buffers |-> 0]
    /\ bufferClosed = [b \in Buffers |-> FALSE]
    /\ recState = [r \in Recorders |-> "recording"]
    /\ recBuffers = [r \in Recorders |-> {}]
    /\ recUses = [r \in Recorders |-> S!NoBuffers]
    /\ subState = [r \in Recorders |-> "none"]
    /\ subRecorders = [r \in Recorders |-> << >>]
    /\ subMu = [r \in Recorders |-> NoOne]
    /\ result = [r \in Recorders |-> "none"]
    /\ batch = [x \in Batches |-> "none"]
    /\ pc = [g \in Goroutines |-> "idle"]
    /\ op = [g \in Goroutines |-> NoOp]

----------------------------------------------------------------------------
Goto(g, label) == pc' = [pc EXCEPT ![g] = label] /\ UNCHANGED op

Return(g) == /\ pc' = [pc EXCEPT ![g] = "idle"]
             /\ op' = [op EXCEPT ![g] = NoOp]

At(g, label, kinds) == pc[g] = label /\ op[g].kind \in kinds

\* A counter that the code never decrements below zero.
Less(count) == IF count > 0 THEN count - 1 ELSE 0

\* Mutant: the test of Device.closing is dropped.
BeginAlways == active' = active + 1

BeginOperation == status = "open" /\ active' = active + 1

\* Mutant: a return path without endOperation.
ForgetOperation == UNCHANGED active

EndOperation == active' = Less(active)

\* removeChild: the children behind the one that goes move up.
Without(list, child) ==
    IF child \in Range(list)
    THEN LET at == CHOOSE i \in DOMAIN list : list[i] = child
         IN  [i \in 1..(Len(list) - 1) |-> list[IF i < at THEN i ELSE i + 1]]
    ELSE list

\* The batch a call puts on the queue, and the buffers the batch uses.
Batch(g) == IF op[g].kind = "transfer" THEN g ELSE op[g].rec
Uses(g)  == IF op[g].kind = "transfer"
            THEN [S!NoBuffers EXCEPT ![op[g].buf] = op[g].acc]
            ELSE S!MergeUses({recUses[r] : r \in Range(op[g].recs)})

\* A transfer holds a reference to its buffer from before acquireSubmission
\* until its submission is cleaned up.
\* Mutant: the reference is not taken, or not given back.
LeaveReferences(g) == UNCHANGED references

Retain(g) ==
    IF op[g].kind = "transfer"
    THEN references' = [references EXCEPT ![op[g].buf] = @ + 1]
    ELSE UNCHANGED references

Drop(g) ==
    IF op[g].kind = "transfer"
    THEN references' = [references EXCEPT ![op[g].buf] = Less(@)]
    ELSE UNCHANGED references

\* Mutants: a batch that cannot be tracked is treated as finished, or forgotten.
ReleaseUntracked(x, b) == S!Release(x) /\ UNCHANGED transients
ForgetUntracked(x, b)  == S!MarkUnknown(x) /\ UNCHANGED transients

\* retainUnknownTransientSubmission, for a batch that retains buffer b.
RetainUnknown(x, b) ==
    /\ S!MarkUnknown(x)
    /\ transients' = transients \cup {<<x, b>>}

\* After a failure a transfer returns, and a submission aborts its recorders.
Unwind(g) == Goto(g, IF op[g].kind = "transfer" THEN "end" ELSE "releasing")

----------------------------------------------------------------------------
\* The program's side of the contract (recorder.go:28-30, doc.go:20-21): a
\* recorder is used by one goroutine at a time, and nothing is used while it is
\* closed.  A Submission can be observed once Submit has returned it.
UsesRecorder(h, r) == op[h].kind \in RecorderKinds /\ r \in Range(op[h].recs)
UsesBuffer(h, b, kinds) == op[h].kind \in kinds /\ op[h].buf = b

Allowed(call) ==
    /\ call.kind \in Kinds
    /\ \A h \in Goroutines : {call.kind, op[h].kind} \notin Apart
    /\ call.kind \in RecorderKinds \cup ObserverKinds =>
          \A h \in Goroutines, r \in Range(call.recs) : ~UsesRecorder(h, r)
    /\ call.kind \in ObserverKinds => subState[call.rec] # "none"
    /\ call.kind \in {"transfer", "record"} =>
          \A h \in Goroutines : ~UsesBuffer(h, call.buf, {"closeBuffer"})
    /\ call.kind = "closeBuffer" =>
          \A h \in Goroutines : ~UsesBuffer(h, call.buf, {"transfer", "record", "closeBuffer"})

Call(g, call) ==
    /\ pc[g] = "idle"
    /\ Allowed(call)
    /\ pc' = [pc EXCEPT ![g] = "call"]
    /\ op' = [op EXCEPT ![g] = call]
    /\ UNCHANGED <<schedulerVars, deviceVars, bufferVars, recorderVars, trackingVars, batch>>

\* A call that returns without changing anything.
Rejected(g) ==
    /\ Return(g)
    /\ UNCHANGED <<schedulerVars, deviceVars, bufferVars, recorderVars, trackingVars, batch>>

\* UploadAt and DownloadAt up to the staging copy, with the buffer locked.
BeginTransfer(g) ==
    /\ At(g, "call", {"transfer"})
    /\ bufMu[op[g].buf] = NoOne
    /\ \/ (bufferClosed[op[g].buf] \/ status # "open") /\ Rejected(g)
       \/ /\ ~bufferClosed[op[g].buf]
          /\ BeginOperation
          /\ bufMu' = [bufMu EXCEPT ![op[g].buf] = g]
          /\ \/ Goto(g, "acquire")
             \/ "native" \in Failures /\ Goto(g, "end")
          /\ UNCHANGED <<schedulerVars, status, children, transients, closeList, references,
                         bufferClosed, recorderVars, trackingVars, batch>>

\* Recorder.Upload and Recorder.Download: the buffer is retained for the recorder
\* and joins its uses, unless preparing the transfer memory fails.
RecordTransfer(g) ==
    LET r == op[g].rec
        b == op[g].buf
    IN  /\ At(g, "call", {"record"})
        /\ \/ recState[r] # "recording" /\ Rejected(g)
           \/ /\ bufMu[b] = NoOne
              /\ bufferClosed[b] \/ status # "open" \/ "native" \in Failures
              /\ Rejected(g)
           \/ /\ recState[r] = "recording"
              /\ bufMu[b] = NoOne
              /\ ~bufferClosed[b] /\ status = "open"
              /\ references' = [references EXCEPT ![b] = IF b \in recBuffers[r] THEN @ ELSE @ + 1]
              /\ recBuffers' = [recBuffers EXCEPT ![r] = @ \cup {b}]
              /\ recUses' = [recUses EXCEPT ![r] = S!AddAccess(@, b, op[g].acc)]
              /\ Return(g)
              /\ UNCHANGED <<schedulerVars, deviceVars, bufMu, bufferClosed, recState,
                             trackingVars, batch>>

\* Device.Submit up to acquireSubmission; Recorder.Abort up to finish.  A recorder
\* that is not recording makes Submit return before it touches the others.
BeginRecorderCall(g) ==
    LET allRecording == \A r \in Range(op[g].recs) : recState[r] = "recording"
    IN  /\ At(g, "call", SubmitKinds \cup {"abort"})
        /\ \/ (status # "open" \/ ~allRecording) /\ Rejected(g)
           \/ /\ allRecording
              /\ BeginOperation
              /\ \/ op[g].kind # "abort" /\ Goto(g, "acquire")
                 \/ (op[g].kind = "abort" \/ "native" \in Failures) /\ Goto(g, "releasing")
              /\ UNCHANGED <<schedulerVars, status, children, transients, closeList, bufferVars,
                             recorderVars, trackingVars, batch>>

\* acquireSubmission, called by copyBufferAndWait or Device.Submit.
AcquireReservation(g) ==
    /\ At(g, "acquire", QueueKinds)
    /\ \/ /\ S!Refuse(Batch(g))
          /\ Unwind(g)
          /\ UNCHANGED references
       \/ /\ S!Acquire(Batch(g), Uses(g))
          /\ Retain(g)
          /\ Goto(g, IF Batch(g) \in activeSubmissions' THEN "queueSubmit" ELSE "parked")
    /\ UNCHANGED <<deviceVars, bufMu, bufferClosed, recorderVars, trackingVars, batch>>

\* acquireSubmission after a wakeup.
ReacquireReservation(g) ==
    /\ At(g, "parked", QueueKinds)
    /\ S!Reacquire(Batch(g))
    /\ \/ Batch(g) \in activeSubmissions' /\ Goto(g, "queueSubmit") /\ UNCHANGED references
       \/ caller'[Batch(g)] = "asleep" /\ UNCHANGED <<threadVars, references>>
       \/ submissionErr /\ Drop(g) /\ Unwind(g)
    /\ UNCHANGED <<deviceVars, bufMu, bufferClosed, recorderVars, trackingVars, batch>>

\* submitQueue, which never waits for the batch.
QueueSubmit(g) ==
    /\ At(g, "queueSubmit", QueueKinds)
    /\ \/ /\ batch' = [batch EXCEPT ![Batch(g)] = "executing"]
          /\ IF op[g].kind = "transfer"
             THEN Goto(g, "waitFence") /\ UNCHANGED recState
             ELSE /\ Goto(g, "track")
                  /\ recState' = [r \in Recorders |-> IF r \in Range(op[g].recs) THEN "unknown"
                                                     ELSE recState[r]]
          /\ UNCHANGED <<schedulerVars, references>>
       \/ /\ "queue" \in Failures
          /\ S!Release(Batch(g))
          /\ Drop(g)
          /\ Unwind(g)
          /\ UNCHANGED <<batch, recState>>
    /\ UNCHANGED <<deviceVars, bufMu, bufferClosed, recBuffers, recUses, trackingVars>>

\* The end of copyBufferAndWait: the fence is waited for with Buffer.mu held, and
\* an unknown completion retains everything in unknownTransientSubmissions.
FinishTransfer(g) ==
    /\ At(g, "waitFence", {"transfer"})
    /\ \/ /\ batch[g] = "signaled"
          /\ batch' = [batch EXCEPT ![g] = "none"]
          /\ S!Release(g)
          /\ Drop(g)
          /\ UNCHANGED transients
       \/ /\ "fence" \in Failures
          /\ RetainUnknown(g, op[g].buf)
          /\ UNCHANGED <<batch, references>>
    /\ Goto(g, "end")
    /\ UNCHANGED <<status, active, children, closeList, bufMu, bufferClosed, recorderVars,
                   trackingVars>>

\* Device.Submit registers the Submission it returns.  When Device.Close has begun
\* it cannot, and retains the batch until the device is idle.
TrackSubmission(g) ==
    LET r == op[g].rec
    IN  /\ At(g, "track", SubmitKinds)
        /\ \/ /\ status = "open"
              /\ children' = Append(children, <<"submission", r>>)
              /\ subState' = [subState EXCEPT ![r] = "pending"]
              /\ subRecorders' = [subRecorders EXCEPT ![r] = op[g].recs]
              /\ UNCHANGED <<schedulerVars, transients>>
           \/ /\ status # "open"
              /\ RetainUnknown(r, NoOne)
              /\ UNCHANGED <<children, subState, subRecorders>>
        /\ Goto(g, "end")
        /\ UNCHANGED <<status, active, closeList, bufferVars, recorderVars, subMu, result, batch>>

----------------------------------------------------------------------------
\* Submission.observe up to the fence wait, with the submission locked.
BeginObserve(g) ==
    LET r == op[g].rec
    IN  /\ At(g, "call", ObserverKinds)
        /\ subMu[r] = NoOne
        /\ \/ (subState[r] \in {"unknown", "done"} \/ status # "open") /\ Rejected(g)
           \/ /\ subState[r] = "pending"
              /\ BeginOperation
              /\ subMu' = [subMu EXCEPT ![r] = g]
              /\ pc' = [pc EXCEPT ![g] = "waitFence"]
              /\ op' = [op EXCEPT ![g].recs = subRecorders[r]]
              /\ UNCHANGED <<schedulerVars, status, children, transients, closeList, bufferVars,
                             recorderVars, subState, subRecorders, result, batch>>

\* Mutant: the reservation is kept.
KeepReservation(r) == UNCHANGED schedulerVars

\* The reservation of a completed batch goes before its recorders' references do,
\* since a transfer that waits for it may hold one of the Buffer.mu.
GiveUpReservation(r) == S!Release(r)

\* The fence wait of Submission.observe: without a limit for Wait, with timeout
\* zero for Poll.
ObserveFence(g) ==
    LET r == op[g].rec
    IN  /\ At(g, "waitFence", ObserverKinds)
        /\ \/ /\ batch[r] = "signaled"
              /\ GiveUpReservation(r)
              /\ \/ result' = [result EXCEPT ![r] = "ok"]
                 \/ "native" \in Failures /\ result' = [result EXCEPT ![r] = "readError"]
              /\ Goto(g, "releasing")
              /\ UNCHANGED subState
           \/ /\ "fence" \in Failures
              /\ S!MarkUnknown(r)
              /\ subState' = [subState EXCEPT ![r] = "unknown"]
              /\ result' = [result EXCEPT ![r] = "lost"]
              /\ Goto(g, "end")
           \/ /\ op[g].kind = "poll"
              /\ batch[r] = "executing"
              /\ Goto(g, "end")
              /\ UNCHANGED <<schedulerVars, subState, result>>
        /\ UNCHANGED <<deviceVars, bufferVars, recorderVars, subRecorders, subMu, batch>>

\* Recorder.releaseReferences locks the buffers one after the other.
ReleaseReference(g) ==
    /\ At(g, "releasing", SubmitKinds \cup ObserverKinds \cup {"abort"})
    /\ op[g].recs # << >>
    /\ \E b \in recBuffers[op[g].recs[1]] :
          /\ bufMu[b] = NoOne
          /\ references' = [references EXCEPT ![b] = Less(@)]
          /\ recBuffers' = [recBuffers EXCEPT ![op[g].recs[1]] = @ \ {b}]
    /\ UNCHANGED <<schedulerVars, deviceVars, bufMu, bufferClosed, recState, recUses,
                   trackingVars, batch, threadVars>>

\* The end of Recorder.finish, after releaseReferences.
FinishRecorder(g) ==
    LET r == op[g].recs[1]
    IN  /\ At(g, "releasing", SubmitKinds \cup ObserverKinds \cup {"abort"})
        /\ op[g].recs # << >>
        /\ recBuffers[r] = {}
        /\ recUses' = [recUses EXCEPT ![r] = S!NoBuffers]
        /\ recState' = [recState EXCEPT
                          ![r] = IF op[g].kind \in ObserverKinds THEN "submitted" ELSE "aborted"]
        /\ children' = Without(children, <<"recorder", r>>)
        /\ op' = [op EXCEPT ![g].recs = Tail(@)]
        /\ UNCHANGED <<schedulerVars, status, active, transients, closeList, bufferVars,
                       recBuffers, trackingVars, batch, pc>>

\* All recorders are finished: the end of Submission.observe, or of abortAll.
FinishBatch(g) ==
    LET r == op[g].rec
    IN  /\ At(g, "releasing", SubmitKinds \cup ObserverKinds \cup {"abort"})
        /\ op[g].recs = << >>
        /\ IF op[g].kind \in ObserverKinds
           THEN /\ subState' = [subState EXCEPT ![r] = "done"]
                /\ subRecorders' = [subRecorders EXCEPT ![r] = << >>]
                /\ batch' = [batch EXCEPT ![r] = "none"]
                /\ children' = Without(children, <<"submission", r>>)
           ELSE UNCHANGED <<subState, subRecorders, batch, children>>
        /\ Goto(g, "end")
        /\ UNCHANGED <<schedulerVars, status, active, transients, closeList, bufferVars,
                       recorderVars, subMu, result>>

\* The deferred endOperation and unlock of a call.  SubmitAndWait goes on with
\* Wait when Submit succeeded.
End(g) ==
    /\ pc[g] = "end"
    /\ EndOperation
    /\ bufMu' = IF op[g].kind = "transfer" THEN [bufMu EXCEPT ![op[g].buf] = NoOne] ELSE bufMu
    /\ subMu' = IF op[g].kind \in ObserverKinds THEN [subMu EXCEPT ![op[g].rec] = NoOne] ELSE subMu
    /\ IF op[g].kind = "submitAndWait" /\ subState[op[g].rec] = "pending"
       THEN /\ pc' = [pc EXCEPT ![g] = "call"]
            /\ op' = [op EXCEPT ![g].kind = "wait"]
       ELSE Return(g)
    /\ UNCHANGED <<schedulerVars, status, children, transients, closeList, references,
                   bufferClosed, recorderVars, subState, subRecorders, result, batch>>

\* Buffer.Close refuses while anything refers to the buffer.
CloseBuffer(g) ==
    LET b == op[g].buf
    IN  /\ At(g, "call", {"closeBuffer"})
        /\ bufMu[b] = NoOne
        /\ \/ (bufferClosed[b] \/ references[b] > 0 \/ status # "open") /\ Rejected(g)
           \/ /\ ~bufferClosed[b] /\ references[b] = 0 /\ status = "open"
              /\ bufferClosed' = [bufferClosed EXCEPT ![b] = TRUE]
              /\ children' = Without(children, <<"buffer", b>>)
              /\ Return(g)
              /\ UNCHANGED <<schedulerVars, status, active, transients, closeList, bufMu,
                             references, recorderVars, trackingVars, batch>>

----------------------------------------------------------------------------
\* Device.Close: no operation may begin any more, the ones in progress end.
StartClose(g) ==
    /\ At(g, "call", {"closeDevice"})
    /\ \/ status = "closed" /\ Rejected(g)
       \/ /\ status = "closing"
          /\ Goto(g, "awaitClose")
          /\ UNCHANGED status
          /\ UNCHANGED <<schedulerVars, active, children, transients, closeList, bufferVars,
                         recorderVars, trackingVars, batch>>
       \/ /\ status = "open"
          /\ status' = "closing"
          /\ Goto(g, "drain")
          /\ UNCHANGED <<schedulerVars, active, children, transients, closeList, bufferVars,
                         recorderVars, trackingVars, batch>>

AwaitClose(g) ==
    /\ pc[g] = "awaitClose"
    /\ status = "closed"
    /\ Rejected(g)

DrainOperations(g) ==
    /\ pc[g] = "drain"
    /\ active = 0
    /\ closeList' = children
    /\ Goto(g, "waitIdle")
    /\ UNCHANGED <<schedulerVars, status, active, children, transients, bufferVars, recorderVars,
                   trackingVars, batch>>

\* vkDeviceWaitIdle; cleanup goes on after an error.
WaitIdle(g) ==
    /\ pc[g] = "waitIdle"
    /\ \/ \A x \in Batches : batch[x] # "executing"
       \/ "idle" \in Failures
    /\ Goto(g, "transients")
    /\ UNCHANGED <<schedulerVars, deviceVars, bufferVars, recorderVars, trackingVars, batch>>

\* cleanupUnknownTransientSubmissions
CleanupTransient(g) ==
    /\ pc[g] = "transients"
    /\ \E t \in transients :
          /\ t[2] # NoOne => bufMu[t[2]] = NoOne
          /\ transients' = transients \ {t}
          /\ batch' = [batch EXCEPT ![t[1]] = "none"]
          /\ S!Release(t[1])
          /\ references' = [b \in Buffers |-> IF b = t[2] THEN Less(references[b]) ELSE references[b]]
    /\ UNCHANGED <<status, active, children, closeList, bufMu, bufferClosed, recorderVars,
                   trackingVars, threadVars>>

BeginChildren(g) ==
    /\ pc[g] = "transients"
    /\ transients = {}
    /\ Goto(g, "children")
    /\ UNCHANGED <<schedulerVars, deviceVars, bufferVars, recorderVars, trackingVars, batch>>

\* Device.Close closes the children it saw in reverse order of creation.
CloseChild(g, kind, object) ==
    /\ pc[g] = "children"
    /\ closeList # << >>
    /\ closeList[Len(closeList)] = <<kind, object>>
    /\ closeList' = SubSeq(closeList, 1, Len(closeList) - 1)
    /\ UNCHANGED <<status, active, transients, bufMu, subMu, threadVars>>

\* Mutant: a result that was already reported is overwritten.
ClosedResult(r) == "closed"

ResultOnClose(r) == IF subState[r] = "pending" THEN "closed" ELSE result[r]

\* Submission.closeFromDevice
CloseSubmission(g, r) ==
    /\ CloseChild(g, "submission", r)
    /\ subMu[r] = NoOne
    /\ \/ subState[r] = "done" /\ UNCHANGED <<schedulerVars, subState, subRecorders, result, batch>>
       \/ /\ subState[r] # "done"
          /\ S!Release(r)
          /\ batch' = [batch EXCEPT ![r] = "none"]
          /\ subState' = [subState EXCEPT ![r] = "done"]
          /\ subRecorders' = [subRecorders EXCEPT ![r] = << >>]
          /\ result' = [result EXCEPT ![r] = ResultOnClose(r)]
    /\ UNCHANGED <<children, references, bufferClosed, recorderVars>>

\* Recorder.abort from the device
CloseRecorder(g, r) ==
    /\ CloseChild(g, "recorder", r)
    /\ \/ recState[r] \in {"submitted", "aborted"} /\ UNCHANGED <<children, references, recorderVars>>
       \/ /\ recState[r] \in {"recording", "unknown"}
          /\ \A b \in recBuffers[r] : bufMu[b] = NoOne
          /\ references' = [b \in Buffers |-> IF b \in recBuffers[r] THEN Less(references[b])
                                                              ELSE references[b]]
          /\ recState' = [recState EXCEPT ![r] = IF @ = "unknown" THEN "submitted" ELSE "aborted"]
          /\ recBuffers' = [recBuffers EXCEPT ![r] = {}]
          /\ recUses' = [recUses EXCEPT ![r] = S!NoBuffers]
          /\ children' = Without(children, <<"recorder", r>>)
    /\ UNCHANGED <<schedulerVars, bufferClosed, trackingVars, batch>>

\* Buffer.closeFromDevice asks no references.
CloseBufferChild(g, b) ==
    /\ CloseChild(g, "buffer", b)
    /\ bufMu[b] = NoOne
    /\ bufferClosed' = [bufferClosed EXCEPT ![b] = TRUE]
    /\ UNCHANGED <<schedulerVars, children, references, recorderVars, trackingVars, batch>>

FinishClose(g) ==
    /\ pc[g] = "children"
    /\ closeList = << >>
    /\ status' = "closed"
    /\ children' = << >>
    /\ Return(g)
    /\ UNCHANGED <<schedulerVars, active, transients, closeList, bufferVars, recorderVars,
                   trackingVars, batch>>

\* The device finishes a batch and signals its fence (external).
GpuComplete(x) ==
    /\ batch[x] = "executing"
    /\ batch' = [batch EXCEPT ![x] = "signaled"]
    /\ UNCHANGED <<schedulerVars, deviceVars, bufferVars, recorderVars, trackingVars, threadVars>>

\* What a goroutine does inside a call.
Step(g) ==
    \/ BeginTransfer(g)
    \/ RecordTransfer(g)
    \/ BeginRecorderCall(g)
    \/ AcquireReservation(g)
    \/ ReacquireReservation(g)
    \/ QueueSubmit(g)
    \/ FinishTransfer(g)
    \/ TrackSubmission(g)
    \/ BeginObserve(g)
    \/ ObserveFence(g)
    \/ ReleaseReference(g)
    \/ FinishRecorder(g)
    \/ FinishBatch(g)
    \/ End(g)
    \/ CloseBuffer(g)
    \/ StartClose(g)
    \/ AwaitClose(g)
    \/ DrainOperations(g)
    \/ WaitIdle(g)
    \/ CleanupTransient(g)
    \/ BeginChildren(g)
    \/ \E r \in Recorders : CloseSubmission(g, r) \/ CloseRecorder(g, r)
    \/ \E b \in Buffers : CloseBufferChild(g, b)
    \/ FinishClose(g)

Next ==
    \/ \E g \in Goroutines : Step(g) \/ \E call \in Calls : Call(g, call)
    \/ \E x \in Batches : GpuComplete(x)

Spec == Init /\ [][Next]_vars

\* The Go runtime runs every goroutine that can run, and its mutexes hand over to
\* a waiter that has been passed over (strong fairness).
GoFairness == \A g \in Goroutines : SF_vars(Step(g))

SlowGpuSpec == Spec /\ GoFairness

\* The device finishes what it was given.
FairSpec == SlowGpuSpec /\ \A x \in Batches : WF_vars(GpuComplete(x))

----------------------------------------------------------------------------
Holders(b) ==
    Cardinality({r \in Recorders : b \in recBuffers[r]})
    + Cardinality({g \in Goroutines : /\ pc[g] \in {"parked", "queueSubmit", "waitFence"}
                                      /\ op[g].kind = "transfer"
                                      /\ op[g].buf = b})
    + Cardinality({t \in transients : t[2] = b})

\* Buffer.references counts exactly the recorders, the transfers and the retained
\* unknown transfers that use the buffer, on every error path: one too few lets
\* Buffer.Close destroy a buffer in use, one too many keeps it open for ever.
ReferencesCountHolders == \A b \in Buffers : references[b] = Holders(b)

\* While the device may still execute a batch its reservation is held, so that no
\* conflicting batch is granted, also when its fence wait failed, when Submit lost
\* the race with Device.Close, and while Close cleans up.
InFlightIsReserved ==
    \A x \in Batches : batch[x] = "executing" => x \in activeSubmissions

\* No buffer of a batch in flight is destroyed, by Buffer.Close or Device.Close.
InFlightBuffersLive ==
    \A x \in Batches, b \in Buffers :
        batch[x] = "executing" /\ resources[x][b] # "none" => ~bufferClosed[b]

\* Both, for a batch in flight: markSubmissionUnknown and retainUnknownTransientSubmission
\* keep what the device may still use (submission.go:474).
InFlightIsProtected == InFlightIsReserved /\ InFlightBuffersLive

\* Device.Close waits for active work (device.go:361): nothing is cleaned up while
\* another goroutine is inside an operation.
CloseIsExclusive ==
    \A g, h \in Goroutines :
        pc[g] \in {"waitIdle", "transients", "children"} /\ h # g =>
            pc[h] \in {"idle", "call", "awaitClose"}

\* A closed device leaves nothing behind: every child is closed, every reference
\* and reservation is given back, every fence is destroyed, whichever batches had
\* not been observed, could not be tracked, or never completed.
CloseReclaims ==
    status = "closed" =>
        /\ activeSubmissions = {} /\ pendingSubmissions = << >> /\ transients = {}
        /\ \A b \in Buffers : bufferClosed[b] /\ references[b] = 0
        /\ \A r \in Recorders : /\ recState[r] \in {"submitted", "aborted"}
                                /\ subState[r] \in {"none", "done"}
        /\ \A x \in Batches : batch[x] = "none"

\* "Once completion is observed the result is final" (submission.go:186), also
\* through Device.Close.
ResultIsFinal ==
    [][\A r \in Recorders :
          subState[r] \in {"unknown", "done"} => result'[r] = result[r]]_vars

\* Every call returns.  In particular a transfer that holds Buffer.mu while it
\* waits for a reservation, and the owner of that reservation, who has to lock
\* Buffer.mu to give its references back, never wait for each other.
EveryCallReturns ==
    \A g \in Goroutines : pc[g] # "idle" ~> pc[g] = "idle"

\* "Close waits for active queue work, closes remaining child resources in reverse
\* creation order, and releases the native device" (device.go:361-362).
CloseReturns == status = "closing" ~> status = "closed"

\* Submit returns "so the next batch can be recorded and submitted while an
\* earlier one executes" (README.md:117-119).
SubmitReturns ==
    \A g \in Goroutines : op[g].kind = "submit" ~> op[g].kind # "submit"

============================================================================
