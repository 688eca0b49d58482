---------------------------- MODULE TransferPool ----------------------------
(***************************************************************************)
(* Device's pool of transfer resources (transfer_pool.go) and everyone who *)
(* owns one: the pool's idle lists, recorders (Recorder.transfers) and     *)
(* buffers (their two staging resources), through recorded uploads and     *)
(* downloads, submission, completion known or unknown, Abort, Buffer.Close *)
(* and Device.Close.                                                       *)
(*                                                                         *)
(* A step is what a caller does to the pool under transferMu, or a call it *)
(* makes outside it.  A recorder here is submitted alone: recorders that   *)
(* are submitted together complete together and share nothing else here.   *)
(***************************************************************************)
EXTENDS TransferMemory, Functions

CONSTANTS
    Recorders, Buffers,
    Resources,          \* what native buffers can exist
    Sizes,              \* bytes of a transfer
    BufferSize,
    Granule,            \* the driver rounds allocations up to it (external)
    Devices,            \* the memory types of a device and nonCoherentAtomSize
    MaxIdleTransferResources, MaxIdleTransferBytes,
    MaxTransfers        \* bound: transfers of one recorder

ASSUME HoldersAssumption ==
    /\ Recorders \cap Buffers = {}
    /\ (Recorders \cup Buffers) \cap Directions = {}

ASSUME BoundsAssumption ==
    /\ MaxIdleTransferResources \in Nat /\ MaxIdleTransferBytes \in Nat
    /\ Sizes \subseteq Nat \ {0} /\ BufferSize \in Nat \ {0} /\ Granule \in Nat \ {0}
    /\ MaxTransfers \in Nat
    /\ Devices \subseteq [types : Seq(MemoryFlags), atom : Nat \ {0}]

VARIABLES
    device,             \* the device that was opened
    status,             \* "open", "closing", "cleanup" (idle) or "closed"
    submissionErr,      \* whether completion was lost
    native,             \* transferResource: what was created
    held,               \* the resources each holder refers to
    idleTransferBytes,
    requested,          \* the bytes a resource's current transfer needs
    filled,             \* downloads whose bytes are in the destination
    notReusable,        \* recorderTransfer.reusable = false
    pc,                 \* where each recorder and buffer is
    preparing,          \* uploads that are not yet in Recorder.transfers
    references,         \* Buffer.references of its own transfers
    inFlight            \* the resources submitted commands may still access

vars == <<device, status, submissionErr, native, held, idleTransferBytes, requested, filled,
          notReusable, pc, preparing, references, inFlight>>

Clients == Recorders \cup Buffers
Holders == Directions \cup Clients    \* a direction stands for its idle list

Destroyed == [direction |-> "none", capacity |-> 0, allocationSize |-> 0, coherent |-> FALSE]

RecorderStates == {"recording", "preparing", "submitted", "lost", "reading", "recycling",
                   "discarding", "done"}
BufferStates   == {"open", "upload", "download", "uploading", "downloading", "closed"}

TypeOK ==
    /\ device \in Devices
    /\ status \in {"open", "closing", "cleanup", "closed"}
    /\ submissionErr \in BOOLEAN
    /\ native \in [Resources -> [direction : Directions \cup {"none"}, capacity : Nat,
                                 allocationSize : Nat, coherent : BOOLEAN]]
    /\ held \in [Holders -> SUBSET Resources]
    /\ idleTransferBytes \in Nat
    /\ requested \in [Resources -> Nat]
    /\ filled \subseteq Resources
    /\ notReusable \subseteq Resources
    /\ pc \in [Clients -> RecorderStates \cup BufferStates]
    /\ \A r \in Recorders : pc[r] \in RecorderStates
    /\ \A b \in Buffers : pc[b] \in BufferStates
    /\ preparing \subseteq Resources
    /\ references \in [Buffers -> Nat]
    /\ inFlight \in [Clients -> SUBSET Resources]

Init ==
    /\ device \in Devices
    /\ status = "open"
    /\ submissionErr = FALSE
    /\ native = [x \in Resources |-> Destroyed]
    /\ held = [h \in Holders |-> {}]
    /\ idleTransferBytes = 0
    /\ requested = [x \in Resources |-> 0]
    /\ filled = {}
    /\ notReusable = {}
    /\ pc = [c \in Clients |-> IF c \in Recorders THEN "recording" ELSE "open"]
    /\ preparing = {}
    /\ references = [b \in Buffers |-> 0]
    /\ inFlight = [c \in Clients |-> {}]

----------------------------------------------------------------------------
Rounded(size) == ((size + Granule - 1) \div Granule) * Granule

RetainedSize(x) == native[x].allocationSize

\* createTransferResource, every failure of which destroys what it made.
Create(x, direction, size) ==
    /\ native[x] = Destroyed
    /\ \E index \in SelectMemoryType(device.types, DOMAIN device.types, direction) :
          native' = [native EXCEPT ![x] =
                        [direction |-> direction, capacity |-> size, allocationSize |-> Rounded(size),
                         coherent |-> "coherent" \in device.types[index]]]

\* discardTransferResource, for a set of resources.
Discard(xs) == native' = [x \in Resources |-> IF x \in xs THEN Destroyed ELSE native[x]]

\* Mutant: any idle resource of the direction is taken.
AnyIdle(direction, size) == held[direction]

\* The idle resources acquireTransfer may take: the smallest that are large enough.
BestFit(direction, size) ==
    LET fitting == {x \in held[direction] : native[x].capacity >= size}
    IN  {x \in fitting : \A y \in fitting : native[x].capacity <= native[y].capacity}

\* Mutants: acquireTransfer leaves the resource in the idle list, or takes the
\* capacity off the account instead of the retained bytes.
TakeIdleCopy(c, direction, x) ==
    /\ held' = [held EXCEPT ![c] = @ \cup {x}]
    /\ idleTransferBytes' = idleTransferBytes - RetainedSize(x)

TakeIdleCapacity(c, direction, x) ==
    /\ held' = [held EXCEPT ![direction] = @ \ {x}, ![c] = @ \cup {x}]
    /\ idleTransferBytes' = idleTransferBytes - native[x].capacity

TakeIdle(c, direction, x) ==
    /\ held' = [held EXCEPT ![direction] = @ \ {x}, ![c] = @ \cup {x}]
    /\ idleTransferBytes' = idleTransferBytes - RetainedSize(x)

\* acquireTransfer for recorder c returns x.
AcquireTransfer(c, direction, size, x) ==
    /\ \/ x \in BestFit(direction, size) /\ TakeIdle(c, direction, x) /\ UNCHANGED native
       \/ /\ BestFit(direction, size) = {}
          /\ Create(x, direction, size)
          /\ held' = [held EXCEPT ![c] = @ \cup {x}]
          /\ UNCHANGED idleTransferBytes
    /\ requested' = [requested EXCEPT ![x] = size]

\* releaseTransfer keeps a resource while both limits allow it.
Keeps(x) ==
    /\ Cardinality(held["upload"]) + Cardinality(held["download"]) < MaxIdleTransferResources
    /\ RetainedSize(x) <= MaxIdleTransferBytes
    /\ idleTransferBytes <= MaxIdleTransferBytes - RetainedSize(x)

\* Mutant: the account of the idle list is not kept.
ReleaseUncounted(c, x) ==
    /\ held' = [held EXCEPT ![c] = @ \ {x}, ![native[x].direction] = @ \cup {x}]
    /\ UNCHANGED <<native, idleTransferBytes>>

ReleaseTransfer(c, x) ==
    \/ /\ Keeps(x)
       /\ held' = [held EXCEPT ![c] = @ \ {x}, ![native[x].direction] = @ \cup {x}]
       /\ idleTransferBytes' = idleTransferBytes + RetainedSize(x)
       /\ UNCHANGED native
    \/ /\ ~Keeps(x)
       /\ held' = [held EXCEPT ![c] = @ \ {x}]
       /\ Discard({x})
       /\ UNCHANGED idleTransferBytes

DiscardTransfer(c, x) ==
    /\ held' = [held EXCEPT ![c] = @ \ {x}]
    /\ Discard({x})
    /\ UNCHANGED idleTransferBytes

Goto(c, label) == pc' = [pc EXCEPT ![c] = label]

\* Mutant: a lost completion is reported, and not remembered.
ForgetUnknown == UNCHANGED submissionErr

\* markSubmissionUnknown: nothing is submitted any more.
MarkUnknown == submissionErr' = TRUE

----------------------------------------------------------------------------
\* Recorder.Upload up to the mapping of its memory.
PrepareUpload(r, size) ==
    /\ pc[r] = "recording"
    /\ status = "open"
    /\ Cardinality(held[r]) < MaxTransfers
    /\ \E x \in Resources :
          AcquireTransfer(r, "upload", size, x) /\ preparing' = preparing \cup {x}
    /\ Goto(r, "preparing")
    /\ UNCHANGED <<device, status, submissionErr, filled, notReusable, references, inFlight>>

\* The rest of Upload: the resource joins Recorder.transfers.
RecordUpload(r) ==
    /\ pc[r] = "preparing"
    /\ Goto(r, "recording")
    /\ preparing' = preparing \ held[r]
    /\ UNCHANGED <<device, status, submissionErr, native, held, idleTransferBytes, requested,
                   filled, notReusable, references, inFlight>>

\* Upload cannot map its memory, and discards what it has just acquired.
FailUpload(r) ==
    /\ pc[r] = "preparing"
    /\ \E x \in held[r] \cap preparing :
          /\ DiscardTransfer(r, x)
          /\ requested' = [requested EXCEPT ![x] = 0]
          /\ filled' = filled \ {x}
          /\ preparing' = preparing \ {x}
    /\ Goto(r, "recording")
    /\ UNCHANGED <<device, status, submissionErr, notReusable, references, inFlight>>

\* Recorder.Download has nothing that can fail once it has its memory.
RecordDownload(r, size) ==
    /\ pc[r] = "recording"
    /\ status = "open"
    /\ Cardinality(held[r]) < MaxTransfers
    /\ \E x \in Resources : AcquireTransfer(r, "download", size, x)
    /\ UNCHANGED <<device, status, submissionErr, filled, notReusable, pc, preparing, references,
                   inFlight>>

\* Recorder.Submit; a failure aborts the recording.
Submit(r) ==
    /\ pc[r] = "recording"
    /\ status = "open"
    /\ \/ ~submissionErr /\ Goto(r, "submitted") /\ inFlight' = [inFlight EXCEPT ![r] = held[r]]
       \/ Goto(r, "recycling") /\ UNCHANGED inFlight
    /\ UNCHANGED <<device, status, submissionErr, native, held, idleTransferBytes, requested,
                   filled, notReusable, preparing, references>>

\* Mutant: a recording whose submission may still execute can be aborted.
AbortAnyTime(r) == pc[r] \in {"recording", "submitted", "lost"}

Abortable(r) == pc[r] = "recording"

Abort(r) ==
    /\ Abortable(r)
    /\ status = "open"
    /\ Goto(r, "recycling")
    /\ UNCHANGED <<device, status, submissionErr, native, held, idleTransferBytes, requested,
                   filled, notReusable, preparing, references, inFlight>>

\* Submission.observe, which reads the downloads when the batch is known to be
\* complete, and leaves everything to Device.Close when it cannot know.
Observe(r) ==
    /\ pc[r] = "submitted"
    /\ status = "open"
    /\ \/ inFlight[r] = {} /\ Goto(r, "reading") /\ UNCHANGED submissionErr
       \/ Goto(r, "lost") /\ MarkUnknown
    /\ UNCHANGED <<device, status, native, held, idleTransferBytes, requested, filled,
                   notReusable, preparing, references, inFlight>>

Unread(r) == {x \in held[r] : native[x].direction = "download"} \ filled

\* readDownloads stops at the first failure, and that memory is not recycled.
ReadDownload(r) ==
    /\ pc[r] = "reading"
    /\ \E x \in Unread(r) :
          \/ filled' = filled \cup {x} /\ UNCHANGED <<notReusable, pc>>
          \/ notReusable' = notReusable \cup {x} /\ Goto(r, "recycling") /\ UNCHANGED filled
    /\ UNCHANGED <<device, status, submissionErr, native, held, idleTransferBytes, requested,
                   preparing, references, inFlight>>

EndRead(r) ==
    /\ pc[r] = "reading"
    /\ Unread(r) = {}
    /\ Goto(r, "recycling")
    /\ UNCHANGED <<device, status, submissionErr, native, held, idleTransferBytes, requested,
                   filled, notReusable, preparing, references, inFlight>>

\* Recorder.closeNative: which memory goes back to the pool.
Recycles(r, x) == pc[r] = "recycling" /\ x \notin notReusable

\* One transfer of Recorder.closeNative.
GiveUpTransfer(r) ==
    /\ pc[r] \in {"recycling", "discarding"}
    /\ \E x \in held[r] :
          /\ IF Recycles(r, x) THEN ReleaseTransfer(r, x) ELSE DiscardTransfer(r, x)
          /\ requested' = [requested EXCEPT ![x] = 0]
          /\ filled' = filled \ {x}
          /\ notReusable' = notReusable \ {x}
    /\ UNCHANGED <<device, status, submissionErr, pc, preparing, references, inFlight>>

FinishRecorder(r) ==
    /\ pc[r] \in {"recycling", "discarding"}
    /\ held[r] = {}
    /\ Goto(r, "done")
    /\ UNCHANGED <<device, status, submissionErr, native, held, idleTransferBytes, requested,
                   filled, notReusable, preparing, references, inFlight>>

----------------------------------------------------------------------------
Staging(b, direction) == {x \in held[b] : native[x].direction = direction}

\* UploadAt and DownloadAt up to the submission: ensureStaging keeps what it
\* creates until the buffer is closed, and an upload copies its data there.
BeginTransfer(b, direction, size) ==
    /\ pc[b] = "open"
    /\ status = "open"
    /\ size <= BufferSize
    /\ \E x \in Resources :
          /\ \/ x \in Staging(b, direction) /\ UNCHANGED <<native, held>>
             \/ /\ Staging(b, direction) = {}
                /\ Create(x, direction, BufferSize)
                /\ held' = [held EXCEPT ![b] = @ \cup {x}]
          /\ requested' = [requested EXCEPT ![x] = size]
    /\ Goto(b, direction)
    /\ filled' = filled \ Staging(b, direction)
    /\ UNCHANGED <<device, status, submissionErr, idleTransferBytes, notReusable, preparing,
                   references, inFlight>>

\* copyBufferAndWait up to the queue submission, for which it retains the buffer.
SubmitTransfer(b) ==
    /\ ~submissionErr
    /\ \E direction \in Directions :
          /\ pc[b] = direction
          /\ inFlight' = [inFlight EXCEPT ![b] = Staging(b, direction)]
          /\ Goto(b, IF direction = "upload" THEN "uploading" ELSE "downloading")
    /\ references' = [references EXCEPT ![b] = @ + 1]
    /\ UNCHANGED <<device, status, submissionErr, native, held, idleTransferBytes, requested,
                   filled, notReusable, preparing>>

\* It fails before, or releases the buffer again when it is refused the queue.
FailTransfer(b) ==
    /\ pc[b] \in Directions
    /\ Goto(b, "open")
    /\ UNCHANGED <<device, status, submissionErr, native, held, idleTransferBytes, requested,
                   filled, notReusable, preparing, references, inFlight>>

\* Mutant: the buffer of a transfer whose completion was lost is released as well.
ReleaseLost(b) == references' = [references EXCEPT ![b] = @ - 1]

\* retainUnknownTransientSubmission: the transfer keeps its reference until Device.Close.
RetainUnknown(b) == UNCHANGED references

\* The end of copyBufferAndWait, and of DownloadAt, whose read may fail.
EndTransfer(b) ==
    /\ pc[b] \in {"uploading", "downloading"}
    /\ \/ /\ inFlight[b] = {}
          /\ \/ UNCHANGED filled
             \/ pc[b] = "downloading" /\ filled' = filled \cup Staging(b, "download")
          /\ references' = [references EXCEPT ![b] = @ - 1]
          /\ UNCHANGED submissionErr
       \/ MarkUnknown /\ RetainUnknown(b) /\ UNCHANGED filled
    /\ Goto(b, "open")
    /\ UNCHANGED <<device, status, native, held, idleTransferBytes, requested, notReusable,
                   preparing, inFlight>>

Closeable(b) == pc[b] = "open" /\ references[b] = 0

\* Buffer.closeNative
CloseNative(b) ==
    /\ Discard(held[b])
    /\ held' = [held EXCEPT ![b] = {}]
    /\ requested' = [x \in Resources |-> IF x \in held[b] THEN 0 ELSE requested[x]]
    /\ filled' = filled \ held[b]
    /\ Goto(b, "closed")

CloseBuffer(b) ==
    /\ Closeable(b)
    /\ status = "open"
    /\ CloseNative(b)
    /\ UNCHANGED <<device, status, submissionErr, idleTransferBytes, notReusable, preparing,
                   references, inFlight>>

----------------------------------------------------------------------------
\* Device.Close
StartClose ==
    /\ status = "open"
    /\ status' = "closing"
    /\ UNCHANGED <<device, submissionErr, native, held, idleTransferBytes, requested, filled,
                   notReusable, pc, preparing, references, inFlight>>

\* The operations in progress have ended, and vkDeviceWaitIdle returns: the device
\* is idle or lost, and accesses no memory any more (external).  The transfers whose
\* completion was lost are cleaned up then, and release their buffers.
WaitIdle ==
    /\ status = "closing"
    /\ \A c \in Clients : pc[c] \in {"recording", "submitted", "lost", "done", "open", "closed"}
    /\ status' = "cleanup"
    /\ inFlight' = [c \in Clients |-> {}]
    /\ references' = [b \in Buffers |-> 0]
    /\ UNCHANGED <<device, submissionErr, native, held, idleTransferBytes, requested, filled,
                   notReusable, pc, preparing>>

\* Recorder.closeFromDevice
CloseRecorder(r) ==
    /\ status = "cleanup"
    /\ pc[r] \in {"recording", "submitted", "lost"}
    /\ Goto(r, IF pc[r] = "recording" THEN "recycling" ELSE "discarding")
    /\ UNCHANGED <<device, status, submissionErr, native, held, idleTransferBytes, requested,
                   filled, notReusable, preparing, references, inFlight>>

\* Buffer.closeFromDevice
CloseBufferFromDevice(b) ==
    /\ status = "cleanup"
    /\ pc[b] = "open"
    /\ CloseNative(b)
    /\ UNCHANGED <<device, status, submissionErr, idleTransferBytes, notReusable, preparing,
                   references, inFlight>>

\* Mutant: drainTransferPool forgets a direction.
DrainedUploads == held["upload"]

Drained == held["upload"] \cup held["download"]

\* drainTransferPool, after all children are closed.
DrainTransferPool ==
    /\ status = "cleanup"
    /\ \A r \in Recorders : pc[r] = "done"
    /\ \A b \in Buffers : pc[b] = "closed"
    /\ Discard(Drained)
    /\ held' = [h \in Holders |-> IF h \in Directions THEN {} ELSE held[h]]
    /\ idleTransferBytes' = 0
    /\ status' = "closed"
    /\ UNCHANGED <<device, submissionErr, requested, filled, notReusable, pc, preparing,
                   references, inFlight>>

\* The device finishes what was submitted for c (external).
Complete(c) ==
    /\ inFlight[c] # {}
    /\ inFlight' = [inFlight EXCEPT ![c] = {}]
    /\ UNCHANGED <<device, status, submissionErr, native, held, idleTransferBytes, requested,
                   filled, notReusable, pc, preparing, references>>

RecorderStep(r) ==
    \/ \E size \in Sizes : PrepareUpload(r, size) \/ RecordDownload(r, size)
    \/ RecordUpload(r) \/ FailUpload(r)
    \/ Submit(r) \/ Abort(r) \/ Observe(r)
    \/ ReadDownload(r) \/ EndRead(r) \/ GiveUpTransfer(r) \/ FinishRecorder(r)
    \/ CloseRecorder(r)

BufferStep(b) ==
    \/ \E direction \in Directions, size \in Sizes : BeginTransfer(b, direction, size)
    \/ SubmitTransfer(b) \/ FailTransfer(b) \/ EndTransfer(b)
    \/ CloseBuffer(b) \/ CloseBufferFromDevice(b)

Next ==
    \/ \E r \in Recorders : RecorderStep(r)
    \/ \E b \in Buffers : BufferStep(b)
    \/ StartClose \/ WaitIdle \/ DrainTransferPool
    \/ \E c \in Clients : Complete(c)

Spec == Init /\ [][Next]_vars

----------------------------------------------------------------------------
\* "transferResource is exclusively owned by a Buffer, an active Recorder, or the
\* device's matching-direction idle pool" (transfer_memory.go:37-38): no holder
\* refers to another's resource or to a destroyed one, and none is forgotten.
ExclusiveOwner ==
    /\ \A h, k \in Holders : h # k => held[h] \cap held[k] = {}
    /\ \A h \in Holders : \A x \in held[h] : native[x] # Destroyed
    /\ \A x \in Resources : native[x] # Destroyed => \E h \in Holders : x \in held[h]
    /\ \A direction \in Directions : \A x \in held[direction] : native[x].direction = direction

\* "It must not return to the pool while submitted commands may still reference
\* it" (transfer_memory.go:38-39), nor be destroyed or recorded again: it stays
\* with the recorder or buffer whose commands they are, on every outcome.
InFlightStaysHeld == \A c \in Clients : inFlight[c] \subseteq held[c]

\* The bytes that the idle resources retain, one by one.
Idle      == held["upload"] \cup held["download"]
IdleBytes == UNION {{x} \X (1..RetainedSize(x)) : x \in Idle}

\* The pool stays inside both limits, and its account is exactly what the idle
\* resources retain: one byte lost or counted twice would stop recycling, or wrap
\* the unsigned account around.
PoolAccount ==
    /\ Cardinality(Idle) <= MaxIdleTransferResources
    /\ idleTransferBytes <= MaxIdleTransferBytes
    /\ idleTransferBytes = Cardinality(IdleBytes)

\* A transfer fits the resource it was given, new or recycled, in the right
\* direction, and the bytes an upload writes are seen without a flush.
TransferFits ==
    \A c \in Clients : \A x \in held[c] :
        /\ requested[x] <= native[x].capacity
        /\ native[x].capacity <= native[x].allocationSize
        /\ native[x].direction = "upload" => native[x].coherent

\* The bytes a download delivers were invalidated before they were read, inside
\* the allocation and on atom boundaries (readTransferMemory, non-coherent memory).
ReadsAreInvalidated ==
    \A x \in filled :
        ~native[x].coherent =>
            InvalidatesRead(NonCoherentRange(0, requested[x], native[x].allocationSize, device.atom),
                            0, requested[x], native[x].allocationSize, device.atom)

\* UploadAt copies into its staging memory before it asks for the queue: the copy
\* never meets a submitted transfer of the same buffer, unless that one's
\* completion was lost and nothing can be submitted any more.
HostWritesIdleMemory ==
    [][\A b \in Buffers :
          pc[b] = "open" /\ pc'[b] = "upload" /\ ~submissionErr =>
              Staging(b, "upload") \cap inFlight[b] = {}]_vars

\* Device.Close leaves no transfer resource behind (transfer_pool.go:69-84).
CloseFreesAll == status = "closed" => \A x \in Resources : native[x] = Destroyed

=============================================================================
