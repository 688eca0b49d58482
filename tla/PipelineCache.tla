--------------------------- MODULE PipelineCache ---------------------------
(***************************************************************************)
(* The persistent pipeline cache (pipeline_cache.go): every open Device    *)
(* has a driver cache that grows with the kernels it creates, and saves it *)
(* in a file that later Devices, of this process or of others, load.  A    *)
(* Device may crash between any two steps, and the machine may lose what   *)
(* it did not write to disk.                                               *)
(*                                                                         *)
(* The data of a cache is the set of kernels compiled into it, its size    *)
(* their number: the driver's cache only grows (pipeline_cache.go:210).    *)
(***************************************************************************)
EXTENDS Naturals, FiniteSets

CONSTANTS
    Devices,       \* open at the same path, maybe at different times
    Identity,      \* the driver identity of each Device
    Kernels,
    MaxSize,       \* maxPipelineCacheDataSize
    MaxAttempts,   \* maxPipelineCacheDataAttempts
    MaxCalls       \* bound: NewKernel calls of a Device that will call persist

ASSUME CacheAssumption ==
    /\ IsFiniteSet(Kernels)
    /\ MaxSize \in Nat /\ MaxAttempts \in Nat \ {0} /\ MaxCalls \in Nat

VARIABLES
    file,       \* what is found at the path
    onDisk,     \* what will be found there after the machine stops
    open,       \* the Devices with a pipelineCacheState
    cache,      \* the data of the driver's cache
    last,       \* lastHash and lastSize, Unknown without hasLast
    waiting,    \* NewKernel calls that created a pipeline and will call persist
    pc,         \* where persist is, which holds pipelineCacheState.mu
    size,       \* the size retrievePipelineCacheData asked for
    attempts,   \* its attempts so far
    data,       \* the data persist retrieved
    temporary,  \* the temporary file of writePipelineCacheFile
    saved       \* did the last persist end with the data saved?

vars == <<file, onDisk, open, cache, last, waiting, pc, size, attempts, data, temporary, saved>>
stateVars   == <<open, cache, last, waiting>>
persistVars == <<size, attempts, data>>
diskVars    == <<file, onDisk>>

Unknown == [known |-> FALSE]
Known(d) == [known |-> TRUE, data |-> d]

\* A file: the identity in its header, the data behind it, whether all of the data
\* is there, and whether it survives a stop of the machine.
Absent == [here |-> FALSE]
File(id, d, whole, synced) ==
    [here |-> TRUE, id |-> id, data |-> d, whole |-> whole, synced |-> synced]

Identities == {Identity[p] : p \in Devices}
Files == {Absent} \cup
    {File(id, d, whole, synced) : id \in Identities, d \in SUBSET Kernels,
                                  whole \in BOOLEAN, synced \in BOOLEAN}

Places == {"idle", "size", "data", "create", "write", "sync", "rename"}

TypeOK ==
    /\ file \in Files /\ onDisk \in Files
    /\ open \subseteq Devices
    /\ cache \in [Devices -> SUBSET Kernels]
    /\ last \in [Devices -> {Unknown} \cup {Known(d) : d \in SUBSET Kernels}]
    /\ waiting \in [Devices -> 0..MaxCalls]
    /\ pc \in [Devices -> Places]
    /\ size \in [Devices -> 0..MaxSize]
    /\ attempts \in [Devices -> 0..MaxAttempts]
    /\ data \in [Devices -> SUBSET Kernels]
    /\ temporary \in [Devices -> Files]
    /\ saved \in [Devices -> BOOLEAN]

Init ==
    /\ file = Absent /\ onDisk = Absent
    /\ open = {}
    /\ cache = [p \in Devices |-> {}]
    /\ last = [p \in Devices |-> Unknown]
    /\ waiting = [p \in Devices |-> 0]
    /\ pc = [p \in Devices |-> "idle"]
    /\ size = [p \in Devices |-> 0]
    /\ attempts = [p \in Devices |-> 0]
    /\ data = [p \in Devices |-> {}]
    /\ temporary = [p \in Devices |-> Absent]
    /\ saved = [p \in Devices |-> FALSE]

----------------------------------------------------------------------------
\* readPipelineCacheFile
Readable(f) == f.here /\ Cardinality(f.data) <= MaxSize

\* Only the header and the length are looked at, so an incomplete file passes.
Valid(p, f) == Readable(f) /\ f.id = Identity[p]

\* Mutant: the data is remembered although the driver refused it.
RememberRefused(p) ==
    /\ p \notin open
    /\ open' = open \cup {p}
    /\ cache' = [cache EXCEPT ![p] = {}]
    /\ last' = [last EXCEPT ![p] = IF Valid(p, file) THEN Known(file.data) ELSE Unknown]
    /\ UNCHANGED <<diskVars, waiting, pc, persistVars, temporary, saved>>

\* newPipelineCacheState: a file that is not valid, cannot be read or is refused by
\* the driver is ignored.
Open(p) ==
    /\ p \notin open
    /\ open' = open \cup {p}
    /\ \/ /\ Valid(p, file)
          /\ cache' = [cache EXCEPT ![p] = file.data]
          /\ last' = [last EXCEPT ![p] = Known(file.data)]
       \/ /\ cache' = [cache EXCEPT ![p] = {}]
          /\ last' = [last EXCEPT ![p] = Unknown]
    /\ UNCHANGED <<diskVars, waiting, pc, persistVars, temporary, saved>>

\* NewKernel creates a pipeline, which the driver may have in its cache.  The
\* handle is used without the mutex, also while persist runs.
CreatePipeline(p, k) ==
    /\ p \in open
    /\ waiting[p] < MaxCalls
    /\ cache' = [cache EXCEPT ![p] = @ \cup {k}]
    /\ waiting' = [waiting EXCEPT ![p] = @ + 1]
    /\ UNCHANGED <<diskVars, open, last, pc, persistVars, temporary, saved>>

\* Device.Close, which waits for the NewKernel calls, destroys the driver's cache.
Close(p) ==
    /\ p \in open
    /\ pc[p] = "idle" /\ waiting[p] = 0
    /\ open' = open \ {p}
    /\ cache' = [cache EXCEPT ![p] = {}]
    /\ last' = [last EXCEPT ![p] = Unknown]
    /\ saved' = [saved EXCEPT ![p] = FALSE]
    /\ UNCHANGED <<diskVars, waiting, pc, persistVars, temporary>>

\* persist returns, and its variables are gone.
EndPersist(p, ok) ==
    /\ pc' = [pc EXCEPT ![p] = "idle"]
    /\ saved' = [saved EXCEPT ![p] = ok]
    /\ size' = [size EXCEPT ![p] = 0]
    /\ attempts' = [attempts EXCEPT ![p] = 0]
    /\ data' = [data EXCEPT ![p] = {}]

GoOn(p, place) == pc' = [pc EXCEPT ![p] = place] /\ UNCHANGED saved

\* The size query of persist that keeps the warm path short, unless it fails.
SameSize(p) == last[p].known /\ Cardinality(cache[p]) = Cardinality(last[p].data)

BeginPersist(p) ==
    /\ pc[p] = "idle" /\ waiting[p] > 0
    /\ waiting' = [waiting EXCEPT ![p] = @ - 1]
    /\ \/ SameSize(p) /\ EndPersist(p, TRUE)
       \/ GoOn(p, "size") /\ UNCHANGED persistVars
    /\ UNCHANGED <<diskVars, open, cache, last, temporary>>

\* Mutant: the size is not limited.
AnySize(p) ==
    /\ pc[p] = "size"
    /\ \/ EndPersist(p, FALSE)
       \/ /\ size' = [size EXCEPT ![p] = Cardinality(cache[p])]
          /\ GoOn(p, "data") /\ UNCHANGED <<attempts, data>>
    /\ UNCHANGED <<diskVars, stateVars, temporary>>

\* retrievePipelineCacheData asks for the size, which fails or may be too large, ...
QuerySize(p) ==
    /\ pc[p] = "size"
    /\ \/ EndPersist(p, FALSE)
       \/ /\ Cardinality(cache[p]) <= MaxSize
          /\ size' = [size EXCEPT ![p] = Cardinality(cache[p])]
          /\ GoOn(p, "data") /\ UNCHANGED <<attempts, data>>
    /\ UNCHANGED <<diskVars, stateVars, temporary>>

\* Mutant: what comes with VK_INCOMPLETE is taken for the data.
TakeIncomplete(p) ==
    /\ pc[p] = "data"
    /\ \E d \in SUBSET cache[p] :
          /\ Cardinality(d) = size[p]
          /\ data' = [data EXCEPT ![p] = d]
    /\ GoOn(p, "create")
    /\ UNCHANGED <<diskVars, stateVars, size, attempts, temporary>>

\* ... and for the data, which another NewKernel may have made larger since.
QueryData(p) ==
    /\ pc[p] = "data"
    /\ \/ EndPersist(p, FALSE)
       \/ /\ Cardinality(cache[p]) <= size[p]
          /\ \/ last[p] = Known(cache[p]) /\ EndPersist(p, TRUE)
             \/ /\ last[p] # Known(cache[p])
                /\ data' = [data EXCEPT ![p] = cache[p]]
                /\ GoOn(p, "create") /\ UNCHANGED <<size, attempts>>
       \/ /\ Cardinality(cache[p]) > size[p]
          /\ \/ attempts[p] + 1 = MaxAttempts /\ EndPersist(p, FALSE)
             \/ /\ attempts[p] + 1 < MaxAttempts
                /\ attempts' = [attempts EXCEPT ![p] = @ + 1]
                /\ GoOn(p, "size") /\ UNCHANGED <<size, data>>
    /\ UNCHANGED <<diskVars, stateVars, temporary>>

\* writePipelineCacheFile writes a temporary file, brings it to disk, ...
WriteStep(p, from, to, contents) ==
    /\ pc[p] = from
    /\ pc' = [pc EXCEPT ![p] = to]
    /\ temporary' = [temporary EXCEPT ![p] = contents]
    /\ UNCHANGED <<diskVars, stateVars, persistVars, saved>>

CreateTemporary(p) == WriteStep(p, "create", "write", File(Identity[p], {}, FALSE, FALSE))
WriteTemporary(p)  == WriteStep(p, "write", "sync", File(Identity[p], data[p], TRUE, FALSE))

\* Mutant: the temporary file is not synced.
SkipSync(p) == WriteStep(p, "sync", "rename", temporary[p])

SyncTemporary(p) == WriteStep(p, "sync", "rename", File(Identity[p], data[p], TRUE, TRUE))

\* Mutant: the data is remembered when it cannot be written.
RememberFailure(p) ==
    /\ pc[p] \in {"create", "write", "sync", "rename"}
    /\ temporary' = [temporary EXCEPT ![p] = Absent]
    /\ last' = [last EXCEPT ![p] = Known(data[p])]
    /\ EndPersist(p, FALSE)
    /\ UNCHANGED <<diskVars, open, cache, waiting>>

\* A step of writePipelineCacheFile fails: the temporary file is removed.
FailWrite(p) ==
    /\ pc[p] \in {"create", "write", "sync", "rename"}
    /\ temporary' = [temporary EXCEPT ![p] = Absent]
    /\ EndPersist(p, FALSE)
    /\ UNCHANGED <<diskVars, stateVars>>

\* ... and renames it.
Rename(p) ==
    /\ pc[p] = "rename"
    /\ file' = temporary[p]
    /\ temporary' = [temporary EXCEPT ![p] = Absent]
    /\ last' = [last EXCEPT ![p] = Known(data[p])]
    /\ EndPersist(p, TRUE)
    /\ UNCHANGED <<onDisk, open, cache, waiting>>

----------------------------------------------------------------------------
\* The system writes the directory to disk at any time (external).
FlushDirectory ==
    /\ onDisk # file
    /\ onDisk' = file
    /\ UNCHANGED <<file, stateVars, pc, persistVars, temporary, saved>>

\* The processes of some Devices end.  A temporary file they leave is never read,
\* and its name never used again.
Reset(f, stopped, value) == [p \in Devices |-> IF p \in stopped THEN value ELSE f[p]]

Stop(stopped) ==
    /\ open' = open \ stopped
    /\ cache' = Reset(cache, stopped, {})
    /\ last' = Reset(last, stopped, Unknown)
    /\ waiting' = Reset(waiting, stopped, 0)
    /\ pc' = Reset(pc, stopped, "idle")
    /\ size' = Reset(size, stopped, 0)
    /\ attempts' = Reset(attempts, stopped, 0)
    /\ data' = Reset(data, stopped, {})
    /\ temporary' = Reset(temporary, stopped, Absent)
    /\ saved' = Reset(saved, stopped, FALSE)

Crash(p) == p \in open /\ Stop({p}) /\ UNCHANGED diskVars

\* The machine stops: the old or the new name is found, and data that was not
\* synced may be gone in part (external).
PowerLoss ==
    /\ \E f \in {file, onDisk} :
          file' = IF f.here /\ ~f.synced THEN [f EXCEPT !.whole = FALSE] ELSE f
    /\ onDisk' = file'
    /\ Stop(Devices)

Next ==
    \/ \E p \in Devices :
          \/ Open(p)
          \/ \E k \in Kernels : CreatePipeline(p, k)
          \/ Close(p)
          \/ BeginPersist(p)
          \/ QuerySize(p)
          \/ QueryData(p)
          \/ CreateTemporary(p)
          \/ WriteTemporary(p)
          \/ SyncTemporary(p)
          \/ FailWrite(p)
          \/ Rename(p)
          \/ Crash(p)
    \/ FlushDirectory
    \/ PowerLoss

Spec == Init /\ [][Next]_vars

----------------------------------------------------------------------------
\* The file at the path is complete whenever it is there: no reader, concurrent or
\* after a crash of a process or of the machine, finds a part of the data.
\* validPipelineCacheData looks at the header only and would accept it.
FileIsWhole == file.here => file.whole

\* When persist returns with the data saved, or because the size query says so, and
\* no other NewKernel is still to call it, everything in the driver's cache has
\* been saved: no growth is missed, by the size query either, and a failed write
\* is not taken for a saved one.
NothingMissed ==
    \A p \in open :
        pc[p] = "idle" /\ waiting[p] = 0 /\ saved[p] => last[p] = Known(cache[p])

\* A Device only replaces the file by data that contains what it loaded or saved
\* before: alone at its path, it never loses a kernel.
SavesOnlyGrow ==
    [][\A p \in open \cap open' :
          last[p].known => last'[p].known /\ last[p].data \subseteq last'[p].data]_vars

\* What a Device remembers as saved is at the path when it starts to remember it,
\* loaded or saved: a failed or abandoned write is never remembered.
RememberedIsSaved ==
    [][\A p \in open' :
          last'[p].known /\ last'[p] # last[p] => file'.here /\ file'.data = last'[p].data]_vars

\* Both: what a Device takes for saved is at the path then, and nothing it had saved is
\* dropped from a later save, on every path of persist that fails (pipeline_cache.go:229).
SavesAreSound == SavesOnlyGrow /\ RememberedIsSaved


============================================================================
