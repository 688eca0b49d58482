------------------------ MODULE PipelineCache_proofs ------------------------
(* Theorems about PipelineCache, for any Devices, finite set of Kernels and limits. *)
EXTENDS PipelineCache, FiniteSetTheorems, TLAPS

Writing == {"create", "write", "sync", "rename"}

\* A file that is there is complete and survives a stop of the machine.
Sound(f) == f.here => f.whole /\ f.synced

\* Why FileIsWhole holds: what Rename moves to the path was written and synced, and
\* so was what the disk holds under the old name.
WriteInv ==
    /\ Sound(file)
    /\ Sound(onDisk)
    /\ \A p \in Devices : pc[p] \in {"write", "sync", "rename"} => temporary[p].here
    /\ \A p \in Devices : pc[p] \in {"sync", "rename"} => temporary[p].whole /\ temporary[p].data = data[p]
    /\ \A p \in Devices : pc[p] = "rename" => temporary[p].synced

\* Why NothingMissed holds: a cache that grew after persist retrieved its data has
\* a NewKernel that still is to call persist.
SaveInv ==
    \A p \in open :
        /\ last[p].known => last[p].data \subseteq cache[p]
        /\ pc[p] \in Writing =>
              /\ data[p] \subseteq cache[p]
              /\ last[p].known => last[p].data \subseteq data[p]
              /\ waiting[p] = 0 => data[p] = cache[p]

\* A Device that is not open does nothing, and a retrieval has attempts left.
ClosedInv ==
    /\ \A p \in Devices \ open : pc[p] = "idle" /\ waiting[p] = 0 /\ saved[p] = FALSE
    /\ \A p \in Devices : attempts[p] < MaxAttempts

CacheInv == TypeOK /\ WriteInv /\ SaveInv /\ ClosedInv /\ NothingMissed

LEMMA FileFields ==
    ASSUME NEW f \in Files, f.here
    PROVE  /\ f.id \in Identities /\ f.data \in SUBSET Kernels
           /\ f.whole \in BOOLEAN /\ f.synced \in BOOLEAN
           /\ f = File(f.id, f.data, f.whole, f.synced)
BY DEF Files, File, Absent

LEMMA FileIsFile ==
    ASSUME NEW p \in Devices, NEW d \in SUBSET Kernels,
           NEW whole \in BOOLEAN, NEW synced \in BOOLEAN
    PROVE  File(Identity[p], d, whole, synced) \in Files
BY DEF Files, Identities

LEMMA CacheSizes ==
    ASSUME NEW d \in SUBSET Kernels
    PROVE  /\ IsFiniteSet(d) /\ Cardinality(d) \in Nat
           /\ \A e \in SUBSET d : Cardinality(e) = Cardinality(d) => e = d
BY CacheAssumption, FS_Subset, FS_CardinalityType

LEMMA LastFields ==
    /\ ~Unknown.known
    /\ \A d : Known(d).known /\ Known(d).data = d
    /\ \A d, e \in SUBSET Kernels : Known(d) = Known(e) => d = e
    /\ TypeOK => \A p \in Devices :
          last[p] = Unknown \/ (last[p].data \in SUBSET Kernels /\ last[p] = Known(last[p].data))
<1>1. ~Unknown.known
  BY DEF Unknown
<1>2. \A d : Known(d).known /\ Known(d).data = d
  BY DEF Known
<1>3. ASSUME TypeOK, NEW p \in Devices
      PROVE  last[p] = Unknown \/ (last[p].data \in SUBSET Kernels /\ last[p] = Known(last[p].data))
  <2>1. last[p] \in {Unknown} \cup {Known(d) : d \in SUBSET Kernels}
    BY <1>3 DEF TypeOK
  <2> QED BY <2>1, <1>2
<1> QED BY <1>1, <1>2, <1>3

LEMMA CacheInit == Init => CacheInv
<1> SUFFICES ASSUME Init PROVE CacheInv OBVIOUS
<1>1. 0 \in 0..MaxCalls
  BY CacheAssumption
<1>2. TypeOK
  BY <1>1, CacheAssumption DEF Init, TypeOK, Files, Places
<1> QED
  BY <1>2, CacheAssumption DEF Init, CacheInv, WriteInv, SaveInv, ClosedInv, NothingMissed, Sound, Absent

----------------------------------------------------------------------------
LEMMA OpenStep ==
    ASSUME CacheInv, NEW p \in Devices, Open(p)
    PROVE  CacheInv'
<1> USE DEF CacheInv
<1>1. file.here => file.data \in SUBSET Kernels
  BY FileFields DEF TypeOK
<1>2. PICK d \in SUBSET Kernels, l \in {Unknown} \cup {Known(e) : e \in SUBSET Kernels} :
         /\ cache' = [cache EXCEPT ![p] = d]
         /\ last' = [last EXCEPT ![p] = l]
         /\ l = Known(d) \/ l = Unknown
  BY <1>1 DEF Open, Valid, Readable
<1>3. TypeOK'
  BY <1>2 DEF TypeOK, Open, diskVars, persistVars
<1>4. WriteInv' /\ ClosedInv'
  BY DEF TypeOK, Open, WriteInv, ClosedInv, diskVars, persistVars
<1>5. pc[p] = "idle" /\ waiting[p] = 0 /\ saved[p] = FALSE
  BY DEF Open, ClosedInv
<1>6. SaveInv' /\ NothingMissed'
  <2> SUFFICES ASSUME NEW q \in open'
               PROVE  /\ last'[q].known => last'[q].data \subseteq cache'[q]
                      /\ pc'[q] \in Writing =>
                            /\ data'[q] \subseteq cache'[q]
                            /\ last'[q].known => last'[q].data \subseteq data'[q]
                            /\ waiting'[q] = 0 => data'[q] = cache'[q]
                      /\ pc'[q] = "idle" /\ waiting'[q] = 0 /\ saved'[q] => last'[q] = Known(cache'[q])
    BY DEF SaveInv, NothingMissed
  <2>1. UNCHANGED <<pc, waiting, data, saved>> /\ open' = open \cup {p}
    BY DEF Open, persistVars
  <2>2. CASE q = p
    BY <1>2, <1>5, <2>1, <2>2, LastFields DEF TypeOK, Writing
  <2>3. CASE q # p
    <3>1. q \in open /\ last'[q] = last[q] /\ cache'[q] = cache[q]
      BY <1>2, <2>1, <2>3 DEF TypeOK
    <3> QED BY <2>1, <3>1 DEF SaveInv, NothingMissed
  <2> QED BY <2>2, <2>3
<1> QED BY <1>3, <1>4, <1>6

LEMMA CreatePipelineStep ==
    ASSUME CacheInv, NEW p \in Devices, NEW k \in Kernels, CreatePipeline(p, k)
    PROVE  CacheInv'
<1>1. MaxCalls \in Nat
  BY CacheAssumption
<1>2. TypeOK'
  BY <1>1 DEF CacheInv, TypeOK, CreatePipeline, diskVars, persistVars
<1>3. WriteInv' /\ ClosedInv'
  BY <1>1 DEF CacheInv, TypeOK, CreatePipeline, WriteInv, ClosedInv, diskVars, persistVars
<1>4. SaveInv' /\ NothingMissed'
  BY <1>1 DEF CacheInv, TypeOK, CreatePipeline, SaveInv, NothingMissed, Writing, diskVars, persistVars
<1> QED BY <1>2, <1>3, <1>4 DEF CacheInv

LEMMA CloseStep ==
    ASSUME CacheInv, NEW p \in Devices, Close(p)
    PROVE  CacheInv'
BY DEF CacheInv, TypeOK, WriteInv, SaveInv, ClosedInv, NothingMissed, Close, diskVars, persistVars, Writing

\* A cache of the size that was last saved is the one that was saved.
LEMMA BeginPersistStep ==
    ASSUME CacheInv, NEW p \in Devices, BeginPersist(p)
    PROVE  CacheInv'
<1>1. /\ waiting[p] - 1 \in 0..MaxCalls
      /\ 0 \in 0..MaxSize /\ 0 \in 0..MaxAttempts /\ 0 < MaxAttempts
  BY CacheAssumption DEF CacheInv, TypeOK, BeginPersist
<1>2. TypeOK'
  <2>1. /\ UNCHANGED <<file, onDisk, open, cache, last, temporary>>
        /\ waiting' = [waiting EXCEPT ![p] = @ - 1]
        /\ \E to \in Places : pc' = [pc EXCEPT ![p] = to]
        /\ \E ok \in BOOLEAN : saved' = [saved EXCEPT ![p] = ok] \/ saved' = saved
        /\ \/ UNCHANGED <<size, attempts, data>>
           \/ /\ size' = [size EXCEPT ![p] = 0] /\ attempts' = [attempts EXCEPT ![p] = 0]
              /\ data' = [data EXCEPT ![p] = {}]
    BY DEF BeginPersist, EndPersist, GoOn, persistVars, diskVars, Places
  <2>2. TypeOK
    BY DEF CacheInv
  <2> QED BY ONLY <1>1, <2>1, <2>2 DEF TypeOK
<1>3. WriteInv' /\ ClosedInv'
  BY <1>1 DEF CacheInv, TypeOK, BeginPersist, EndPersist, GoOn, persistVars, diskVars, WriteInv, ClosedInv
<1>4. SameSize(p) /\ p \in open => last[p] = Known(cache[p])
  BY CacheSizes DEF CacheInv, TypeOK, SaveInv, SameSize, Known, Unknown
<1>5. p \in open
  BY DEF CacheInv, ClosedInv, BeginPersist
<1>6. SaveInv' /\ NothingMissed'
  BY <1>4, <1>5 DEF CacheInv, TypeOK, BeginPersist, EndPersist, GoOn, persistVars, diskVars, SaveInv,
     NothingMissed, Writing
<1> QED BY <1>2, <1>3, <1>6 DEF CacheInv

\* How persist leaves one Device: where it is, what it has and what it will return.
PersistStep(p, to, ok, s, a, d) ==
    /\ pc' = [pc EXCEPT ![p] = to] /\ saved' = [saved EXCEPT ![p] = ok]
    /\ size' = [size EXCEPT ![p] = s] /\ attempts' = [attempts EXCEPT ![p] = a]
    /\ data' = [data EXCEPT ![p] = d]
    /\ UNCHANGED <<diskVars, stateVars, temporary>>

LEMMA RetrievalStep ==
    ASSUME CacheInv, NEW p \in Devices, pc[p] \in {"size", "data"},
           NEW to \in {"idle", "size", "data", "create"}, NEW ok \in BOOLEAN, NEW s \in 0..MaxSize,
           NEW a \in 0..MaxAttempts, NEW d \in SUBSET Kernels, PersistStep(p, to, ok, s, a, d),
           a < MaxAttempts,
           to = "create" => d = cache[p],
           to = "idle" /\ ok => last[p] = Known(cache[p])
    PROVE  CacheInv'
<1>1. TypeOK'
  BY DEF CacheInv, TypeOK, PersistStep, diskVars, stateVars, Places
<1>2. p \in open
  BY DEF CacheInv, ClosedInv
<1>3. WriteInv' /\ ClosedInv'
  BY <1>2 DEF CacheInv, TypeOK, PersistStep, diskVars, stateVars, WriteInv, ClosedInv
<1>4. SaveInv' /\ NothingMissed'
  BY DEF CacheInv, TypeOK, PersistStep, stateVars, SaveInv, NothingMissed, Writing
<1> QED BY <1>1, <1>3, <1>4 DEF CacheInv

LEMMA EndIsPersistStep ==
    ASSUME CacheInv, NEW p \in Devices, NEW ok \in BOOLEAN, EndPersist(p, ok),
           UNCHANGED <<diskVars, stateVars, temporary>>, pc[p] \in {"size", "data"},
           ok => last[p] = Known(cache[p])
    PROVE  CacheInv'
<1>1. 0 \in 0..MaxSize /\ 0 \in 0..MaxAttempts /\ 0 < MaxAttempts /\ {} \in SUBSET Kernels
  BY CacheAssumption
<1>2. PersistStep(p, "idle", ok, 0, 0, {})
  BY DEF EndPersist, PersistStep
<1> QED BY <1>1, <1>2, RetrievalStep

LEMMA QuerySizeStep ==
    ASSUME CacheInv, NEW p \in Devices, QuerySize(p)
    PROVE  CacheInv'
<1> DEFINE s == Cardinality(cache[p])
<1>1. CASE EndPersist(p, FALSE)
  BY <1>1, EndIsPersistStep DEF QuerySize
<1>2. CASE s <= MaxSize /\ size' = [size EXCEPT ![p] = s] /\ GoOn(p, "data") /\ UNCHANGED <<attempts, data>>
  <2>1. /\ s \in 0..MaxSize /\ saved[p] \in BOOLEAN /\ attempts[p] \in 0..MaxAttempts
        /\ attempts[p] < MaxAttempts /\ data[p] \in SUBSET Kernels
    BY <1>2, CacheSizes, CacheAssumption DEF CacheInv, TypeOK, ClosedInv
  <2>2. PersistStep(p, "data", saved[p], s, attempts[p], data[p])
    BY <1>2 DEF QuerySize, GoOn, PersistStep, CacheInv, TypeOK
  <2> HIDE DEF s
  <2> QED BY <2>1, <2>2, RetrievalStep DEF QuerySize
<1> QED BY <1>1, <1>2 DEF QuerySize

LEMMA QueryDataStep ==
    ASSUME CacheInv, NEW p \in Devices, QueryData(p)
    PROVE  CacheInv'
<1>1. /\ cache[p] \in SUBSET Kernels /\ saved[p] \in BOOLEAN
      /\ size[p] \in 0..MaxSize /\ attempts[p] \in 0..MaxAttempts /\ attempts[p] < MaxAttempts
      /\ data[p] \in SUBSET Kernels
  BY DEF CacheInv, TypeOK, ClosedInv
<1>2. ASSUME NEW ok \in BOOLEAN, EndPersist(p, ok), ok => last[p] = Known(cache[p])
      PROVE  CacheInv'
  BY <1>2, EndIsPersistStep DEF QueryData
<1>3. CASE data' = [data EXCEPT ![p] = cache[p]] /\ GoOn(p, "create") /\ UNCHANGED <<size, attempts>>
  <2>1. PersistStep(p, "create", saved[p], size[p], attempts[p], cache[p])
    BY <1>3 DEF QueryData, GoOn, PersistStep, CacheInv, TypeOK
  <2> QED BY <1>1, <2>1, RetrievalStep DEF QueryData
<1>4. CASE /\ attempts[p] + 1 < MaxAttempts /\ attempts' = [attempts EXCEPT ![p] = @ + 1]
           /\ GoOn(p, "size") /\ UNCHANGED <<size, data>>
  <2> DEFINE a == attempts[p] + 1
  <2>1. a \in 0..MaxAttempts /\ a < MaxAttempts
    BY <1>1, <1>4, CacheAssumption
  <2>2. PersistStep(p, "size", saved[p], size[p], a, data[p])
    BY <1>4 DEF QueryData, GoOn, PersistStep, CacheInv, TypeOK
  <2> HIDE DEF a
  <2> QED BY <1>1, <2>1, <2>2, RetrievalStep DEF QueryData
<1> QED BY <1>2, <1>3, <1>4 DEF QueryData

----------------------------------------------------------------------------
\* The steps of writePipelineCacheFile before the rename.
LEMMA WritingStep ==
    ASSUME CacheInv, NEW p \in Devices,
           CreateTemporary(p) \/ WriteTemporary(p) \/ SyncTemporary(p)
    PROVE  CacheInv'
<1>1. PICK from \in Writing, to \in Writing, f \in Files :
         /\ WriteStep(p, from, to, f)
         /\ f.here
         /\ \/ to = "write"
            \/ to = "sync" /\ f.whole /\ f.data = data[p]
            \/ to = "rename" /\ f.whole /\ f.data = data[p] /\ f.synced
  <2>1. CASE CreateTemporary(p)
    <3>1. File(Identity[p], {}, FALSE, FALSE) \in Files
      BY FileIsFile
    <3> QED BY <2>1, <3>1 DEF CreateTemporary, Writing, File
  <2>2. CASE WriteTemporary(p)
    <3>1. File(Identity[p], data[p], TRUE, FALSE) \in Files
      BY FileIsFile DEF CacheInv, TypeOK
    <3> QED BY <2>2, <3>1 DEF WriteTemporary, Writing, File
  <2>3. CASE SyncTemporary(p)
    <3>1. File(Identity[p], data[p], TRUE, TRUE) \in Files
      BY FileIsFile DEF CacheInv, TypeOK
    <3> QED BY <2>3, <3>1 DEF SyncTemporary, Writing, File
  <2> QED BY <2>1, <2>2, <2>3
<1>2. TypeOK'
  BY <1>1 DEF CacheInv, TypeOK, WriteStep, diskVars, stateVars, persistVars, Writing, Places
<1>3. WriteInv' /\ ClosedInv'
  BY <1>1 DEF CacheInv, TypeOK, WriteStep, diskVars, stateVars, persistVars, Writing, WriteInv, ClosedInv
<1>4. SaveInv' /\ NothingMissed'
  BY <1>1 DEF CacheInv, TypeOK, WriteStep, diskVars, stateVars, persistVars, Writing, SaveInv, NothingMissed
<1> QED BY <1>2, <1>3, <1>4 DEF CacheInv

LEMMA FailWriteStep ==
    ASSUME CacheInv, NEW p \in Devices, FailWrite(p)
    PROVE  CacheInv'
<1>1. 0 \in 0..MaxSize /\ 0 \in 0..MaxAttempts /\ 0 < MaxAttempts
  BY CacheAssumption
<1>2. TypeOK'
  BY <1>1 DEF CacheInv, TypeOK, FailWrite, EndPersist, diskVars, stateVars, Places, Files
<1>3. WriteInv' /\ ClosedInv'
  BY <1>1 DEF CacheInv, TypeOK, FailWrite, EndPersist, diskVars, stateVars, WriteInv, ClosedInv
<1>4. SaveInv' /\ NothingMissed'
  BY DEF CacheInv, TypeOK, FailWrite, EndPersist, diskVars, stateVars, SaveInv, NothingMissed, Writing
<1> QED BY <1>2, <1>3, <1>4 DEF CacheInv

LEMMA RenameStep ==
    ASSUME CacheInv, NEW p \in Devices, Rename(p)
    PROVE  CacheInv'
<1>1. 0 \in 0..MaxSize /\ 0 \in 0..MaxAttempts /\ 0 < MaxAttempts
  BY CacheAssumption
<1>2. TypeOK'
  BY <1>1 DEF CacheInv, TypeOK, Rename, EndPersist, Places, Files
<1>3. p \in open
  BY DEF CacheInv, ClosedInv, Rename
<1>4. WriteInv' /\ ClosedInv'
  BY <1>1 DEF CacheInv, TypeOK, Rename, EndPersist, WriteInv, ClosedInv, Sound
<1>5. SaveInv' /\ NothingMissed'
  BY <1>3, LastFields DEF CacheInv, TypeOK, Rename, EndPersist, SaveInv, NothingMissed, Writing
<1> QED BY <1>2, <1>4, <1>5 DEF CacheInv

----------------------------------------------------------------------------
\* A crash ends some Devices and leaves the files alone; a stop of the machine ends
\* all of them, and can only hurt a file that is not synced.
LEMMA StopStep ==
    ASSUME CacheInv, NEW stopped \in SUBSET Devices, Stop(stopped),
           file' \in Files, onDisk' \in Files, Sound(file'), Sound(onDisk')
    PROVE  CacheInv'
<1>1. /\ 0 \in 0..MaxCalls /\ 0 \in 0..MaxSize /\ 0 \in 0..MaxAttempts /\ 0 < MaxAttempts
      /\ Absent \in Files
  BY CacheAssumption DEF Files
<1>2. TypeOK'
  BY <1>1 DEF CacheInv, TypeOK, Stop, Reset, Places
<1>3. WriteInv' /\ ClosedInv'
  BY <1>1 DEF CacheInv, TypeOK, Stop, Reset, WriteInv, ClosedInv, Sound
<1>4. SaveInv' /\ NothingMissed'
  BY DEF CacheInv, TypeOK, Stop, Reset, SaveInv, NothingMissed, Writing
<1> QED BY <1>2, <1>3, <1>4 DEF CacheInv

LEMMA CacheStep == CacheInv /\ [Next]_vars => CacheInv'
<1> SUFFICES ASSUME CacheInv, [Next]_vars PROVE CacheInv' OBVIOUS
<1>1. CASE UNCHANGED vars
  BY <1>1 DEF CacheInv, TypeOK, WriteInv, SaveInv, ClosedInv, NothingMissed, Sound, vars
<1>2. ASSUME NEW p \in Devices, Crash(p) PROVE CacheInv'
  <2>1. file' = file /\ onDisk' = onDisk /\ Stop({p})
    BY <1>2 DEF Crash, diskVars
  <2>2. file' \in Files /\ onDisk' \in Files /\ Sound(file') /\ Sound(onDisk')
    BY <2>1 DEF CacheInv, TypeOK, WriteInv
  <2> QED BY <2>1, <2>2, StopStep
<1>3. CASE FlushDirectory
  <2>1. file' = file /\ onDisk' = file
    BY <1>3 DEF FlushDirectory
  <2> QED
    BY <1>3, <2>1 DEF FlushDirectory, CacheInv, TypeOK, WriteInv, SaveInv, ClosedInv, NothingMissed, Sound,
       stateVars, persistVars
<1>4. CASE PowerLoss
  <2>1. \A f \in {file, onDisk} : f \in Files /\ (f.here => f.synced)
    BY DEF CacheInv, TypeOK, WriteInv, Sound
  <2>2. file' \in {file, onDisk} /\ onDisk' = file'
    BY <1>4, <2>1 DEF PowerLoss
  <2>3. Sound(file') /\ Sound(onDisk')
    BY <2>2 DEF CacheInv, WriteInv
  <2> QED BY <1>4, <2>1, <2>2, <2>3, StopStep DEF PowerLoss
<1> QED
  BY <1>1, <1>2, <1>3, <1>4, OpenStep, CreatePipelineStep, CloseStep, BeginPersistStep, QuerySizeStep,
     QueryDataStep, WritingStep, FailWriteStep, RenameStep DEF Next

LEMMA CacheInvariant == Spec => []CacheInv
<1> QED BY CacheInit, CacheStep, PTL DEF Spec

\* What an open Device remembers is changed by its Open and its Rename.
LEMMA OthersRemember ==
    ASSUME CacheInv, Next, NEW p \in Devices, p \in open'
    PROVE  \/ \E q \in Devices : Open(q) \/ Rename(q)
           \/ last'[p] = last[p]
<1>1. ASSUME NEW q \in Devices, Close(q)
      PROVE  last'[p] = last[p]
  <2>1. p # q /\ last' = [last EXCEPT ![q] = Unknown]
    BY <1>1 DEF Close
  <2> QED BY <2>1 DEF CacheInv, TypeOK
<1>2. ASSUME NEW stopped, Stop(stopped)
      PROVE  last'[p] = last[p]
  BY <1>2 DEF Stop, Reset
<1>3. CASE UNCHANGED last
  BY <1>3
<1> QED BY <1>1, <1>2, <1>3 DEF Next, CreatePipeline, BeginPersist, QuerySize, QueryData, CreateTemporary,
      WriteTemporary, SyncTemporary, WriteStep, FailWrite, Crash, PowerLoss, FlushDirectory, stateVars

----------------------------------------------------------------------------
(* The variables of PipelineCache stay in their types.  The retries of          *)
(* retrievePipelineCacheData never exceed maxPipelineCacheDataAttempts.         *)
THEOREM TypeCorrect == Spec => []TypeOK
<1>1. CacheInv => TypeOK
  BY DEF CacheInv
<1> QED BY CacheInvariant, <1>1, PTL

(* Whatever the number of Devices that share the path, and whenever a process   *)
(* or the machine stops, the file at the path is complete                       *)
(* (writePipelineCacheFile).                                                    *)
THEOREM FileStaysWhole == Spec => []FileIsWhole
<1>1. CacheInv => FileIsWhole
  BY DEF CacheInv, WriteInv, Sound, FileIsWhole
<1> QED BY CacheInvariant, <1>1, PTL

(* persist misses no growth of the driver's cache, although its size query      *)
(* skips the retrieval and kernels are created while it runs (persist).         *)
THEOREM GrowthIsSaved == Spec => []NothingMissed
<1>1. CacheInv => NothingMissed
  BY DEF CacheInv
<1> QED BY CacheInvariant, <1>1, PTL

(* No save loses a kernel that the same Device loaded or saved before (persist). *)
THEOREM SavesGrow == Spec => SavesOnlyGrow
<1>1. CacheInv /\ [Next]_vars =>
         [\A p \in open \cap open' :
             last[p].known => last'[p].known /\ last[p].data \subseteq last'[p].data]_vars
  <2> SUFFICES ASSUME CacheInv, Next, NEW p \in open, p \in open', last[p].known
               PROVE  last'[p].known /\ last[p].data \subseteq last'[p].data
    OBVIOUS
  <2>1. ASSUME NEW q \in Devices, Open(q) PROVE last'[p] = last[p]
    BY <2>1 DEF CacheInv, TypeOK, Open
  <2>2. ASSUME NEW q \in Devices, Rename(q)
        PROVE  last'[p].known /\ last[p].data \subseteq last'[p].data
    <3>1. CASE q = p
      BY <2>2, <3>1, LastFields DEF CacheInv, TypeOK, SaveInv, Rename, Writing
    <3>2. CASE q # p
      BY <2>2, <3>2 DEF CacheInv, TypeOK, Rename
    <3> QED BY <3>1, <3>2
  <2>3. p \in Devices
    BY DEF CacheInv, TypeOK
  <2>4. CASE last'[p] = last[p]
    BY <2>4
  <2> QED BY <2>1, <2>2, <2>3, <2>4, OthersRemember
<1> QED BY CacheInvariant, <1>1, PTL DEF Spec, SavesOnlyGrow

(* Nothing is remembered as saved that is not at the path (remember, persist).   *)
THEOREM RememberedWasSaved == Spec => RememberedIsSaved
<1>1. CacheInv /\ [Next]_vars =>
         [\A p \in open' :
             last'[p].known /\ last'[p] # last[p] => file'.here /\ file'.data = last'[p].data]_vars
  <2> SUFFICES ASSUME CacheInv, Next, NEW p \in open', last'[p].known, last'[p] # last[p]
               PROVE  file'.here /\ file'.data = last'[p].data
    OBVIOUS
  <2>1. ASSUME NEW q \in Devices, Open(q) PROVE file'.here /\ file'.data = last'[p].data
    <3>1. q = p /\ last'[p] \in {Unknown, Known(file.data)} /\ (last'[p] = Known(file.data) => file.here)
      BY <2>1, LastFields DEF CacheInv, TypeOK, Open, Valid, Readable
    <3> QED BY <2>1, <3>1, LastFields DEF Open, diskVars
  <2>2. ASSUME NEW q \in Devices, Rename(q) PROVE file'.here /\ file'.data = last'[p].data
    <3>1. q = p /\ last'[p] = Known(data[p])
      BY <2>2 DEF CacheInv, TypeOK, Rename
    <3> QED BY <2>2, <3>1 DEF CacheInv, WriteInv, Rename, Known
  <2>3. p \in Devices
    BY CacheStep DEF CacheInv, TypeOK
  <2>4. CASE last'[p] = last[p]
    BY <2>4
  <2> QED BY <2>1, <2>2, <2>3, <2>4, OthersRemember
<1> QED BY CacheInvariant, <1>1, PTL DEF Spec, RememberedIsSaved

\* What a Device takes for saved was saved, and its saves only grow.
THEOREM SavesSound == Spec => SavesAreSound
  BY SavesGrow, RememberedWasSaved DEF SavesAreSound


=============================================================================
