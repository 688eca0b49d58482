----------------------------- MODULE Correlator -----------------------------
(***************************************************************************)
(* registration.Correlator over its life: the options of NewCorrelator and *)
(* its fallback (backend.go), vulki.Open (device.go), the resources on a   *)
(* device that the correlator owns or borrows, PhaseCorrelate on either    *)
(* backend (correlate.go, gpu.go, correlate_cpu.go) and Close.             *)
(*                                                                         *)
(* A Correlator is not safe for concurrent use (doc.go:14): one program    *)
(* calls it, and closes the device it lent between its calls.              *)
(***************************************************************************)
EXTENDS CorrelatorPipeline

CONSTANTS
    ImagePairs,         \* the images of a call, <<source, target>>
    MaxSizes,           \* [w, h] given to NewCorrelator
    CallSizes,          \* [w, h] of the images of a call
    OptionLists,        \* options given to NewCorrelator, "device" lends a device
    GroupLimits,        \* MaxComputeWorkGroupCount of the devices, 0 for none
    MaxShaderArea,      \* pixels that the shaders can index (MaxUint32)
    MaxExactIndex,      \* maxExactFloat32Index
    Numbers,            \* what the nine numbers of an answer can be (see Verdict)
    MaxCalls            \* bound: calls of PhaseCorrelate

ASSUME LimitsAssumption == MaxShaderArea \in Nat /\ MaxExactIndex \in Nat /\ MaxCalls \in Nat

VARIABLES
    pc,                 \* where the program is
    config,             \* correlatorConfig
    max,                \* maxW and maxH
    groupLimit,         \* of the device that is or will be opened
    natives,            \* deviceState: the native objects of each device
    live,               \* the buffers, kernels and binding sets of each device
    kept,               \* what recorders whose batch was lost keep in use
    backend,            \* Correlator.backend, "none" before NewCorrelator returns it
    recorder,           \* is there a recorder in the recording state
    at,                 \* resources created, or calls recorded, so far
    err,                \* gpuRecorder.err
    call,               \* the images and the size of the current call
    executed,           \* the calls the device executed
    calls,
    last                \* the outcome of the call that ends

deviceVars == <<groupLimit, natives, live, kept>>
callVars   == <<recorder, at, err, call, executed, last>>
vars == <<pc, config, max, deviceVars, backend, callVars, calls>>

Devices == {"own", "borrowed"}
NativeOrder == <<"loader", "instance", "device">>
IsOpen(d) == natives[d] = Range(NativeOrder)

BackendOptions == {"auto", "vulkan", "cpu"}
DeviceOf(c) == IF c.deviceSet THEN "borrowed" ELSE "own"
MyDevice == DeviceOf(config)
OwnsDevice == backend = "vulkan" /\ ~config.deviceSet

NoConfig == [backend |-> "auto", backendSet |-> FALSE, deviceSet |-> FALSE, failed |-> FALSE]
NoCall   == [images |-> << >>, size |-> [w |-> 0, h |-> 0]]
NoOutcome == [kind |-> "none", numbers |-> {}]

----------------------------------------------------------------------------
\* The resources of a Vulkan correlator in the order of newVulkanCorrelator and
\* createPipelines, where a kernel is created for the first pipeline that has its name.
BufferOf(b) == <<"buffer", b>>
KernelOf(p) == <<"kernel", p.kernel>>
SetOf(k)    == <<"set", k>>

KernelsAt(k) ==
    IF \A j \in 1..(k - 1) : PipelineOrder[j].kernel # PipelineOrder[k].kernel
    THEN <<KernelOf(PipelineOrder[k])>> ELSE << >>

BufferHandles == [k \in DOMAIN BufferOrder |-> BufferOf(BufferOrder[k])]
SetOrder      == [k \in DOMAIN PipelineOrder |-> SetOf(k)]
KernelOrder   == FlattenSeq([k \in DOMAIN PipelineOrder |-> KernelsAt(k)])

CreationOrder ==
    BufferHandles \o FlattenSeq([k \in DOMAIN PipelineOrder |-> Append(KernelsAt(k), SetOf(k))])

\* Mutant: the kernels go first.
CloseKernelsFirst ==
    Reverse(KernelOrder) \o Reverse(SetOrder) \o Reverse(BufferHandles)

CloseOrder ==
    Reverse(SetOrder) \o Reverse(KernelOrder) \o Reverse(BufferHandles)

\* maxPad of a correlator for each maximal size, computed once.
Pads == [size \in MaxSizes |-> NextPow2(Smaller(size.w, size.h))]
PadOf(size) == Pads[size]
PaddedFits(size) == PadOf(size) * PadOf(size) <= MaxExactIndex
AtLeastTwo(size) == size.w >= 2 /\ size.h >= 2

\* Constants of the model, computed once, for the correlators and calls that are accepted.
AcceptedMax   == {m \in MaxSizes : AtLeastTwo(m) /\ PaddedFits(m)}
AcceptedSizes == {s \in CallSizes : AtLeastTwo(s) /\ \E m \in AcceptedMax : s.w <= m.w /\ s.h <= m.h}
ScheduleAt == [size \in AcceptedSizes |-> [pad \in {PadOf(m) : m \in AcceptedMax} |-> Schedule(size, pad)]]
RacesAt    == [size \in AcceptedSizes |-> [pad \in {PadOf(m) : m \in AcceptedMax} |-> Races(Parts(size, pad))]]
MySchedule == ScheduleAt[call.size][PadOf(max)]

\* What the calls that were recorded keep in use: a dispatch its binding set, any other
\* call its buffers.
Keeps(c) ==
    CASE c.op = "launch"  -> {SetOf(k) : k \in {k \in DOMAIN PipelineOrder : PipelineOrder[k] = c.pipeline}}
      [] c.op = "update"  -> {BufferOf(Params)}
      [] c.op = "barrier" -> {BufferOf(b) : b \in c.buffers}
      [] OTHER            -> {BufferOf(c.buffer)}

Recorded == UNION {Keeps(MySchedule[k]) : k \in 1..at}
Retained(d) == kept[d] \cup (IF recorder /\ d = MyDevice THEN Recorded ELSE {})

\* Binding set k refers to kernel or buffer x.
Uses(k, x) ==
    \/ x = KernelOf(PipelineOrder[k])
    \/ \E b \in BoundBuffers(PipelineOrder[k]) : x = BufferOf(b)

\* Mutant: a resource that a recorder retains is closed all the same.
RefusesUsed(resources, retained, x) == \E k \in DOMAIN PipelineOrder : SetOf(k) \in resources /\ Uses(k, x)

\* Close refuses while a recorder retains the resource, or a binding set refers to it.
Refuses(resources, retained, x) ==
    x \in retained \/ \E k \in DOMAIN PipelineOrder : SetOf(k) \in resources /\ Uses(k, x)

\* Correlator.Close: what is left of its resources.
LeftByClose(resources, retained) ==
    FoldLeft(LAMBDA rs, x : CHOOSE left \in {IF Refuses(r, retained, x) THEN r ELSE r \ {x} : r \in {rs}} : TRUE,
             resources, CloseOrder)

----------------------------------------------------------------------------
TypeOK ==
    /\ pc \in {"start", "opening", "refused", "creating", "ready", "recording", "decoding", "returning",
               "failed", "closed"}
    /\ natives \in [Devices -> SUBSET Range(NativeOrder)]
    /\ \A d \in Devices : live[d] \subseteq Range(CreationOrder)
    /\ \A d \in Devices : kept[d] \subseteq Range(CreationOrder)
    /\ backend \in {"none", "cpu", "vulkan"}
    /\ recorder = (pc = "recording")
    /\ err \in BOOLEAN /\ (err => recorder)
    /\ calls \in 0..MaxCalls
    /\ last.kind \in {"none", "first", "second", "lowConfidence", "nonFinite"}

Init ==
    /\ pc = "start" /\ config = NoConfig /\ max \in MaxSizes /\ groupLimit \in GroupLimits
    /\ \E lent \in SUBSET {"borrowed"} :
          natives = [d \in Devices |-> IF d \in lent THEN Range(NativeOrder) ELSE {}]
    /\ live = [d \in Devices |-> {}]
    /\ kept = [d \in Devices |-> {}]
    /\ backend = "none"
    /\ recorder = FALSE /\ at = 0 /\ err = FALSE
    /\ call = NoCall /\ executed = << >> /\ calls = 0 /\ last = NoOutcome

----------------------------------------------------------------------------
\* WithBackend and WithDevice; NewCorrelator stops at the first option that fails.
ApplyOption(c, option) ==
    IF c.failed THEN c
    ELSE CASE option \in BackendOptions /\ ~c.deviceSet /\ ~c.backendSet ->
                  [c EXCEPT !.backend = option, !.backendSet = TRUE]
           [] option = "device" /\ ~c.backendSet /\ ~c.deviceSet /\ IsOpen("borrowed") ->
                  [c EXCEPT !.deviceSet = TRUE]
           [] OTHER -> [c EXCEPT !.failed = TRUE]

\* The arguments newCPUCorrelator and newVulkanCorrelator accept; the area that
\* overflows int is left out.
AcceptedByCPU(size)    == AtLeastTwo(size) /\ PaddedFits(size)
AcceptedByVulkan(size) == AtLeastTwo(size) /\ size.w * size.h <= MaxShaderArea /\ PaddedFits(size)

\* newCPUCorrelator, and newAutoCorrelator up to vulki.Open.
NewCorrelator(options) ==
    /\ pc = "start"
    /\ config' = FoldLeft(ApplyOption, NoConfig, options)
    /\ LET c == config'
           needsCPU == ~c.deviceSet /\ c.backend # "vulkan"
       IN  /\ pc' = CASE c.failed \/ (needsCPU /\ ~AcceptedByCPU(max)) -> "failed"
                       [] c.deviceSet -> IF AcceptedByVulkan(max) THEN "creating" ELSE "failed"
                       [] c.backend = "cpu" -> "ready"
                       [] OTHER -> "opening"
           /\ backend' = IF pc' = "ready" THEN "cpu" ELSE "none"
    /\ UNCHANGED <<max, deviceVars, callVars, calls>>

\* A Vulkan correlator that is not made: an automatic one falls back.
GiveUp ==
    IF config.backend = "auto" /\ ~config.deviceSet
    THEN pc' = "ready" /\ backend' = "cpu"
    ELSE pc' = "failed" /\ UNCHANGED backend

\* vulki.Open creates the next native object, or returns with all of them;
\* newVulkanCorrelator then checks its arguments with the device open.
OpenNext ==
    /\ pc = "opening"
    /\ \/ /\ ~IsOpen("own")
          /\ natives' = [natives EXCEPT !["own"] = @ \cup {NativeOrder[Cardinality(@) + 1]}]
          /\ UNCHANGED pc
       \/ /\ IsOpen("own")
          /\ pc' = IF AcceptedByVulkan(max) THEN "creating" ELSE "refused"
          /\ UNCHANGED natives
    /\ UNCHANGED <<config, max, groupLimit, live, kept, backend, callVars, calls>>

\* Open fails at any of its calls, also when the logical device exists: its functions do
\* not load, or it has no queue.  The deferred deviceState.release destroys what there is.
OpenFails ==
    /\ pc = "opening"
    /\ natives' = [natives EXCEPT !["own"] = {}]
    /\ GiveUp
    /\ UNCHANGED <<config, max, groupLimit, live, kept, callVars, calls>>

CreateNext ==
    /\ pc = "creating"
    /\ live' = [live EXCEPT ![MyDevice] = @ \cup {CreationOrder[at + 1]}]
    /\ IF at + 1 < Len(CreationOrder)
       THEN at' = at + 1 /\ UNCHANGED <<pc, backend>>
       ELSE at' = 0 /\ pc' = "ready" /\ backend' = "vulkan"
    /\ UNCHANGED <<config, max, groupLimit, natives, kept, recorder, err, call, executed, last, calls>>

\* Device.Close closes the children that are left.
DeviceClosed(d) ==
    /\ natives' = [natives EXCEPT ![d] = {}]
    /\ kept' = [kept EXCEPT ![d] = {}]

\* Mutant: the correlator is not closed.
AbandonCreated(resources) == resources

CloseCreated(resources) == LeftByClose(resources, {})

\* A creation fails, or the arguments were refused on the device just opened:
\* Correlator.Close, and Device.Close by whoever opened it.
CreateFails ==
    /\ pc \in {"creating", "refused"}
    /\ live' = [live EXCEPT ![MyDevice] = IF MyDevice = "own" THEN {} ELSE CloseCreated(@)]
    /\ IF MyDevice = "own" THEN DeviceClosed("own") ELSE UNCHANGED <<natives, kept>>
    /\ at' = 0
    /\ GiveUp
    /\ UNCHANGED <<config, max, groupLimit, recorder, err, call, executed, last, calls>>

----------------------------------------------------------------------------
\* PhaseCorrelate up to the backend.
AcceptsCall(sizes) ==
    /\ pc = "ready"
    /\ sizes[1] = sizes[2]
    /\ AtLeastTwo(sizes[1])
    /\ sizes[1].w <= max.w /\ sizes[1].h <= max.h
    /\ backend = "vulkan" => IsOpen(MyDevice)

\* An error before anything changes, the last of which is that of NewRecorder.
RejectCall(sizes) ==
    /\ pc \in {"ready", "closed"} /\ calls < MaxCalls
    /\ ~AcceptsCall(sizes) \/ backend = "vulkan"
    /\ calls' = calls + 1
    /\ UNCHANGED <<pc, config, max, deviceVars, backend, callVars>>

\* phaseCorrelateCPU, or newGPURecorder.
BeginCall(images, sizes) ==
    /\ calls < MaxCalls
    /\ AcceptsCall(sizes)
    /\ calls' = calls + 1
    /\ call' = [images |-> images, size |-> sizes[1]]
    /\ at' = 0
    /\ IF backend = "cpu"
       THEN pc' = "decoding" /\ UNCHANGED recorder
       ELSE pc' = "recording" /\ recorder' = TRUE
    /\ UNCHANGED <<config, max, deviceVars, backend, err, executed, last>>

\* Mutant: no deferred Abort.
ReturnUnaborted(done) ==
    /\ pc' = "ready" /\ at' = 0 /\ call' = NoCall /\ executed' = done
    /\ UNCHANGED <<config, max, groupLimit, natives, live, backend, recorder, err, calls, last>>

\* A call returns an error; the deferred Abort ends a recording, and keeps the
\* recorder of a lost batch.
ReturnError(done) ==
    /\ pc' = "ready" /\ recorder' = FALSE /\ err' = FALSE /\ at' = 0 /\ call' = NoCall
    /\ executed' = done
    /\ UNCHANGED <<config, max, groupLimit, natives, live, backend, calls, last>>

ReportsErrors(c) == c.op \in {"upload", "download"}

\* validateWorkgroups
TooManyGroups(c) == c.op = "launch" /\ groupLimit # 0 /\ c.groups > groupLimit

\* The next method of gpuRecorder: after an error only Upload and Download do anything.
RecordNext ==
    /\ pc = "recording" /\ at < Len(MySchedule)
    /\ LET c == MySchedule[at + 1]
       IN  /\ IF err THEN ~ReportsErrors(c) ELSE ~TooManyGroups(c)
           /\ at' = at + 1
    /\ UNCHANGED <<pc, config, max, deviceVars, backend, recorder, err, call, executed, last, calls>>

RecordFails ==
    /\ pc = "recording" /\ at < Len(MySchedule) /\ ~err
    /\ ~ReportsErrors(MySchedule[at + 1])
    /\ err' = TRUE /\ at' = at + 1
    /\ UNCHANGED <<pc, config, max, deviceVars, backend, recorder, call, executed, last, calls>>

\* Upload or Download fails, or returns the error of a method before it.
RecordReturnsError ==
    /\ pc = "recording" /\ at < Len(MySchedule)
    /\ ReportsErrors(MySchedule[at + 1])
    /\ ReturnError(executed)
    /\ UNCHANGED kept

\* SubmitAndWait, which Download left nothing to report to: its batch is executed,
\* refused, or lost (and then executed or not).  A device that lost one refuses the next.
SubmitAndWait(result) ==
    /\ pc = "recording" /\ at = Len(MySchedule)
    /\ result = "refused" \/ kept[MyDevice] = {}
    /\ CASE result = "done" ->
              /\ pc' = "decoding" /\ recorder' = FALSE /\ at' = 0
              /\ executed' = Append(executed, call)
              /\ UNCHANGED <<config, max, deviceVars, backend, err, call, last, calls>>
         [] result = "unread" -> ReturnError(Append(executed, call)) /\ UNCHANGED kept
         [] result = "refused" -> ReturnError(executed) /\ UNCHANGED kept
         [] result = "lost" -> ReturnError(executed) /\ kept' = [kept EXCEPT ![MyDevice] = Recorded]

----------------------------------------------------------------------------
\* The outcome of a call, from the confidences, the scale, whether the angle is finite,
\* and whether both coordinates of each translation are.  NaN compares with nothing.
NaN == -1
Infinite == 99
MinimumMatchConfidence == 1

\* Confidences and the scale, as far as their order decides; nothing exceeds Infinite.
ASSUME NumbersAssumption ==
    LET Quantity == {x \in Int : x <= Infinite}
        Try      == [confidence : Quantity, finite : BOOLEAN]
    IN  Numbers \subseteq [angleFinite : BOOLEAN, scale : Quantity, rotation : Quantity,
                          first : Try, second : Try]

Finite(x)     == x \notin {NaN, Infinite}
Greater(x, y) == NaN \notin {x, y} /\ x > y
AtMost(x, y)  == NaN \notin {x, y} /\ x <= y

FiniteRotation(n) == n.angleFinite /\ Finite(n.scale) /\ ~AtMost(n.scale, 0) /\ Finite(n.rotation)
FiniteTry(t) == t.finite /\ Finite(t.confidence)
Best(n) == IF Greater(n.second.confidence, n.first.confidence) THEN "second" ELSE "first"
LowConfidence(n, confidence) ==
    AtMost(n.rotation, MinimumMatchConfidence) \/ AtMost(confidence, MinimumMatchConfidence)

\* Mutant: the later of two equal peaks.
VerdictOfLater(n) ==
    CASE ~FiniteRotation(n) \/ ~FiniteTry(n.first) \/ ~FiniteTry(n.second) -> "nonFinite"
      [] LowConfidence(n, n[Best(n)].confidence) -> "lowConfidence"
      [] OTHER -> IF n.second.confidence = n.first.confidence THEN "second" ELSE Best(n)

\* PhaseCorrelate answers with the better translation.
VerdictVulkan(n) ==
    IF ~FiniteRotation(n) \/ ~FiniteTry(n.first) \/ ~FiniteTry(n.second) THEN "nonFinite"
    ELSE IF LowConfidence(n, n[Best(n)].confidence) THEN "lowConfidence"
    ELSE Best(n)

\* Mutant: the other translation's confidence is checked.
VerdictOfFirst(n) ==
    IF ~FiniteRotation(n) \/ ~FiniteTry(n[Best(n)]) THEN "nonFinite"
    ELSE IF LowConfidence(n, n.first.confidence) THEN "lowConfidence"
    ELSE Best(n)

\* phaseCorrelateCPU asks only the better translation.
VerdictCPU(n) ==
    IF ~FiniteRotation(n) \/ ~FiniteTry(n[Best(n)]) THEN "nonFinite"
    ELSE IF LowConfidence(n, n[Best(n)].confidence) THEN "lowConfidence"
    ELSE Best(n)

Decode(n) ==
    /\ pc = "decoding"
    /\ pc' = "returning"
    /\ last' = [kind |-> IF backend = "cpu" THEN VerdictCPU(n) ELSE VerdictVulkan(n), numbers |-> {n}]
    /\ UNCHANGED <<config, max, deviceVars, backend, recorder, at, err, call, executed, calls>>

Return ==
    /\ pc = "returning"
    /\ pc' = "ready" /\ last' = NoOutcome /\ call' = NoCall
    /\ UNCHANGED <<config, max, deviceVars, backend, recorder, at, err, executed, calls>>

----------------------------------------------------------------------------
\* Mutant: the device is closed whoever owns it.
ClosesItsDevice == backend = "vulkan"

ClosesDevice == OwnsDevice

\* Correlator.Close.  Of a lent device that is closed, nothing is left to close.
Close ==
    /\ pc = "ready"
    /\ pc' = "closed"
    /\ IF backend = "cpu" THEN UNCHANGED <<natives, live, kept>>
       ELSE IF ClosesDevice
       THEN DeviceClosed(MyDevice) /\ live' = [live EXCEPT ![MyDevice] = {}]
       ELSE /\ live' = [live EXCEPT ![MyDevice] = LeftByClose(@, Retained(MyDevice))]
            /\ UNCHANGED <<natives, kept>>
    /\ UNCHANGED <<config, max, groupLimit, backend, callVars, calls>>

\* The program closes the device it lent, or could have lent.
CloseLentDevice ==
    /\ pc \in {"start", "ready", "failed", "closed"}
    /\ natives["borrowed"] # {}
    /\ DeviceClosed("borrowed")
    /\ live' = [live EXCEPT !["borrowed"] = {}]
    /\ UNCHANGED <<pc, config, max, groupLimit, backend, callVars, calls>>

Next ==
    \/ \E options \in OptionLists : NewCorrelator(options)
    \/ OpenNext \/ OpenFails \/ CreateNext \/ CreateFails
    \/ \E sizes \in CallSizes \X CallSizes :
          RejectCall(sizes) \/ \E images \in ImagePairs : BeginCall(images, sizes)
    \/ RecordNext \/ RecordFails \/ RecordReturnsError
    \/ \E result \in {"done", "unread", "refused", "lost"} : SubmitAndWait(result)
    \/ \E n \in Numbers : Decode(n)
    \/ Return \/ Close \/ CloseLentDevice

Spec == Init /\ [][Next]_vars

----------------------------------------------------------------------------
\* A NewCorrelator that returns an error, or falls back to the CPU, keeps nothing of the
\* Vulkan device it opened or of what it created on a lent one, wherever it failed.
CreationLeavesNothing ==
    pc = "failed" \/ backend = "cpu" => natives["own"] = {} /\ \A d \in Devices : live[d] = {}

\* "A borrowed Device is never closed" (correlate.go:860): by nobody but the program.
LentDeviceStaysOpen ==
    [][natives'["borrowed"] # natives["borrowed"] => CloseLentDevice]_vars

\* What commands may access that use the resources rs: a binding set stands for its
\* kernel and buffers.
InUse(rs) == rs \cup {x \in Range(CreationOrder) : \E k \in DOMAIN PipelineOrder : SetOf(k) \in rs /\ Uses(k, x)}

\* Close leaves no resource on any device, also after calls that failed half-way, but
\* exactly what a lost batch on a lent device may still access: Close of each of those
\* refuses, and goes on with the others.  An owned device goes with all of it.
CloseReleasesAll ==
    pc = "closed" =>
        /\ natives["own"] = {} /\ live["own"] = {}
        /\ live["borrowed"] = InUse(kept["borrowed"])

\* Both: whoever is left without a correlator has none of its resources either.
NothingLeaks == CreationLeavesNothing /\ CloseReleasesAll

\* No two commands of a call's batch that conflict may overlap on the device, whatever
\* the size of the images and of the correlator.
PipelineOrdered ==
    pc = "recording" /\ at = Len(MySchedule) => RacesAt[call.size][PadOf(max)] = {}

\* The contents of the device's buffers after the batches it executed.
Contents ==
    FoldLeft(LAMBDA mem, c : Execute(mem, c.images, c.size, PadOf(max)), NewBuffers, executed)

\* "The CPU path is the portability and correctness reference" (doc.go:17): a call on
\* Vulkan takes its numbers from the reference's computation on its own images,
\* whatever the calls before it left in the buffers.
AnswerIsReference ==
    pc = "decoding" /\ backend = "vulkan" =>
        Answer(Contents[Result]) = PhaseCorrelateCPU(call.images, call.size, PadOf(max))

\* "A peak at or below 0.03 returns a nil Result" (correlate.go:544): an answer has a finite
\* transform and confident peaks, and the translation with the higher one; and no finite
\* transform with confident peaks is refused as ErrLowConfidence.
AnswersAreConfident ==
    \A n \in last.numbers :
        LET Confident(x) == x > MinimumMatchConfidence /\ Finite(x)
        IN  /\ last.kind \in {"first", "second"} =>
                  LET best == n[last.kind]
                  IN  /\ n.angleFinite /\ n.scale > 0 /\ Finite(n.scale) /\ best.finite
                      /\ Confident(n.rotation) /\ Confident(best.confidence)
                      /\ \A t \in {"first", "second"} : n[t].confidence <= best.confidence
            /\ last.kind = "lowConfidence" =>
                  ~Confident(n.rotation)
                  \/ \A t \in {"first", "second"} : ~Confident(n[t].confidence)

\* On the same numbers the backends agree, also on the translation, unless the one that
\* loses is not finite: only Vulkan then refuses to answer.
VerdictsAgree ==
    \A n \in last.numbers :
        VerdictCPU(n) # VerdictVulkan(n) =>
            /\ VerdictVulkan(n) = "nonFinite"
            /\ \E t \in {"first", "second"} \ {Best(n)} : ~FiniteTry(n[t])

\* Both: a verdict stands for confident, finite numbers, on either backend.
VerdictsAreSound == AnswersAreConfident /\ VerdictsAgree


=============================================================================
