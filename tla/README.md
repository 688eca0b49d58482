# Verification of vulki

vulki gives Go programs explicit GPU compute resources over Vulkan: a `Device`,
the `Buffer`s, `Kernel`s, `BindingSet`s and `Recorder`s created from it, and
`Submission`s that track batches on the queue. This directory holds TLA+ models
of its core, the TLC runs that check them on small instances, and proofs checked
by TLAPS. Line references such as `submission.go:96` are to the Go sources.

## The system

| Part | State | Operations | What is hard |
| --- | --- | --- | --- |
| Reservation monitor (`submission.go:11-161`) | `pendingSubmissions`, `activeSubmissions`, `submissionErr`, one condition variable | `acquireSubmission`, `releaseSubmission`, `markSubmissionUnknown` | arrival order against readiness, lost wakeups, calls asleep when the device fails |
| Device (`device.go`) | `active`, `closing`, `closed`, `children` | `Open`, `Close`, `beginOperation`, `endOperation`, `addChild`, `removeChild` | closing against operations in progress, concurrent `Close`, cleanup in an order that ownership allows |
| Submissions (`submission.go:175-486`) | `state`, `result`, fence, reservation, recorders; `unknownTransientSubmissions` | `Submit`, `Wait`, `Poll`, `closeFromDevice` | failed fence waits, observers that race, batches that cannot be tracked |
| Buffers (`buffer.go`) | `closed`, `references`, staging memory | `NewBuffer`, `UploadAt`, `DownloadAt`, `Close` | the mutex is held while a transfer waits; every error path must balance the counts |
| Recorders (`recorder.go`, `timestamp.go`) | `state`, retained buffers and binding sets, transfers, timestamps | `Upload`, `Download`, `Update`, `Barrier`, `Dispatch`, `Submit`, `Abort` | ownership passes to the Submission; recorded barriers must order the commands |
| Kernels and binding sets (`kernel.go`) | `closed`, `bindings`, `recorders` | `NewKernel`, `NewBindings`, `DispatchAndWait`, `Close` | partial creation, close order |
| Transfer memory (`transfer_pool.go`, `transfer_memory.go`) | retained staging resources | acquire, release, discard, drain | bounds of the pool, rounding of mapped ranges |
| Pipeline cache (`pipeline_cache.go`) | a file shared by processes | load, save | crash between steps, concurrent writers |
| Correlation (`registration/`) | FFT plans, GPU backend | `Correlate`, `Close` | choice and ownership of the backend, barriers between passes |
| Shader compilation (`shader/`), Vulkan bindings (`vk/`), commands (`cmd/`) | a module cache | `Compile` | vendored compiler, marshalling |

Components interact by calls and shared state. Every queue submission goes
through the monitor; every operation counts itself in `Device.active`; recorders
and transfers count themselves in `Buffer.references`; a `Submission` owns the
recorders and the reservation of its batch until it is observed or the device is
closed. There are five kinds of lock: `Device.mu`, `submissionMu`, `queueMu` and
`transferMu` are held for short critical sections, `Buffer.mu`, `Recorder.mu`,
`BindingSet.mu` and `Submission.mu` across waits.

The properties that make it correct:

* monitor: conflicting batches are never granted together, are granted in arrival
  order, and nobody waits for nothing or for ever;
* device, buffers, submissions: nothing the device may still use is released,
  every reference and reservation is given back exactly once on every path,
  `Close` runs alone, leaves nothing and returns, results are final;
* recorders: the recorded barriers order every pair of conflicting commands;
* transfer memory: one owner, nothing recycled while in flight, bounds hold, what the
  host reads is visible to it;
* pipeline cache: a crash never leaves a bad file, and growth is not missed;
* correlation: the device belongs to who opened it, nothing leaks where creation or a
  call fails, and the GPU pipeline computes what the CPU reference computes.

`PROJECT.json` lists the places where each of these is at risk (`hazards`).

## Modules

| Module | Role |
| --- | --- |
| `SubmissionResources` | the list of buffer uses of a recorder, a transfer or a batch |
| `SubmissionOrder` | what the monitor promises: a request waits for exactly the conflicting requests made before it, and nothing is granted after a failure |
| `SubmissionScheduler` | the monitor: one action per critical section of `submissionMu` |
| `DeviceQueue` | goroutines that use buffers, recorders, submissions and the device; instantiates `SubmissionScheduler` |
| `DeviceResources` | creation, use and closing of kernels, buffers, binding sets and recorders, and the order of `Device.Close` |
| `TransferMemory`, `TransferPool` | memory types and mapped ranges; the pool and everyone who owns transfer memory |
| `MemoryDependencies` | the execution and memory dependencies of a Vulkan queue, as an operator on a stream of accesses and barriers (external) |
| `RecordedCommands` | the accesses and barriers that each method of Recorder puts into its command buffer |
| `CommandStream` | recorders, what they record and reserve, timestamps, and the execution of their batches; extends the two above |
| `PipelineCache` | the cache file across Devices, crashes and stops of the machine |
| `CorrelatorPipeline` | the calls of the GPU correlation, what they leave in which buffer, and the CPU reference; extends `RecordedCommands` |
| `Correlator` | a `registration.Correlator` over its life, with `vulki.Open` |
| `SubmissionScheduler_proofs`, `DeviceQueue_proofs`, `TransferPool_proofs`, `PipelineCache_proofs`, `DeviceResources_proofs`, `CommandStream_proofs`, `Correlator_proofs` | theorems |
| `RecordedCommands_proofs` | lemmas on folds and joined sequences, and on what barriers and recorded commands do to a queue, for the last two |
| `MC...` | the finite instances |

### SubmissionScheduler

`pendingSubmissions` is the Go slice, `activeSubmissions` a set because its order
is never used. The list `submissionResources` is a function from buffers to
`"none"`, `"read"` or `"write"`. `caller[r]` says whether the goroutine inside
`acquireSubmission` for `r` sleeps in `submissionCond.Wait`, was woken and has to
take the mutex again, or is elsewhere. `Acquire` is the call up to its return or
first `Wait`, `Reacquire` one more turn of its loop, `Refuse` a call after
`submissionErr`, `Release` and `MarkUnknown` the other two functions.
`RemoveReservation` is written with the index shift of
`removeSubmissionReservation`.

### DeviceQueue

A step is what a goroutine does between two points where it can block or be seen.
`pc` and `op` are the goroutine's place and call. `Buffer.mu` (`bufMu`) and
`Submission.mu` (`subMu`) are variables, since they are held across steps; the
critical sections of the short locks are inside one step. `Recorder.mu` is left
out because a recorder is used by one goroutine at a time (`recorder.go:28-30`);
`Allowed` states that part of the contract and the one of `doc.go:20-21`, that no
child is used while its `Close` runs. `Device.Close` may run at any time.

A batch is named by its goroutine (blocking transfer) or by its first recorder,
and `batch` is its fence: `"executing"` until `GpuComplete`. Vulkan calls fail
according to the constant `Failures`: `"native"` any call before the submission
and the reading of a download, `"queue"` `vkQueueSubmit`, `"fence"`
`vkWaitForFences`, `"idle"` `vkDeviceWaitIdle`. A call of a blocking transfer is
`Call`, `BeginTransfer`, `AcquireReservation`, maybe `ReacquireReservation`,
`QueueSubmit`, `FinishTransfer`, `End`; of a submission `BeginRecorderCall`,
`AcquireReservation`, `QueueSubmit`, `TrackSubmission`, `End`; of an observer
`BeginObserve`, `ObserveFence`, `ReleaseReference` for each buffer,
`FinishRecorder` for each recorder, `FinishBatch`, `End`; of `Device.Close`
`StartClose`, `DrainOperations`, `WaitIdle`, `CleanupTransient`, `BeginChildren`,
`CloseSubmission`, `CloseRecorder`, `CloseBufferChild`, `FinishClose`.

Left out of this module: kernels and binding sets (in `DeviceResources`), the
staging memory of transfers (in `TransferPool`), the recorded commands and the
timestamps (in `CommandStream`), and the creation of buffers and recorders (all exist
at first, created in any order of `Creations`; `DeviceResources` creates them). A
failed `vkDeviceWaitIdle` lets cleanup go on while a batch may execute, as
device.go:362-363 documents; what was submitted then counts as executing until its
fence is destroyed.

### DeviceResources

The queue is reduced to what resources see of it: a batch sleeps in
`acquireSubmission` while it conflicts with one that is in flight or asked before it
(`waiting`, `CanActivate`, with the order of arrival that `SubmissionScheduler` is proved to
keep), is submitted, and is later observed or lost. `life` is where a resource is between `none` and `closed`,
`native` how many of its native objects exist, `references`, `bindingSets`,
`recorders` and `buffers` the fields of the same names. `BuffersOf[s]` is the buffer at
each binding of a set, one buffer as often as the caller binds it; `buffers[s]`, the
bindings whose buffer is retained, shrinks while `releaseReferences` runs. A creation is
`Create`, `CreateNative` once for every native object, `AddChild`, and fails at any of
them, also when the last native object exists and something after it fails on an open
device; of a binding set `NewBindings`, `RetainKernel`,
`RetainBuffer` for each buffer, `CreateNative`, `AddChild`, and on a failure
`ReleaseBuffer` and `EndRelease`, which also end `BindingSet.Close`.
`DispatchAndWait` is `DispatchAndWait`, `SubmitDispatch`, maybe `ReserveDispatch` after a
sleep, `WaitForDispatch`, `Cleanup`; a recorder is `Dispatch`, `Submit`, maybe
`ReserveBatch`, `FinishRecorder` or `LoseRecorder`, `ReleaseSet` for each set. `Device.Close` is `CloseDevice`, `Drain`, `CloseChild`,
`EndClose`. Calls that return an error and change nothing are not steps. A
Submission child is left out: closing it releases no resource.
`vkDeviceWaitIdle` does not fail here, for the reason given above.

### PipelineCache

The data is the set of kernels in it and its size their number, so that growth and
the size query are what they are in the code; the header is the `Identity`. A file
is `whole` when all its data is there and `synced` when that survives a stop of the
machine; `onDisk` is what the directory holds on disk, which `FlushDirectory`
brings up to date at any time, because the code does not sync the directory.
`NewKernel` is `CreatePipeline` and `BeginPersist`, then `QuerySize` and
`QueryData` (again while the cache grows), then `CreateTemporary`,
`WriteTemporary`, `SyncTemporary` and `Rename`, or `FailWrite`. `Open` loads the
file, or ignores it when it is invalid, unreadable or refused by the driver. The
mutex of the state is held from `BeginPersist` on and leaves the driver's cache
free to grow, by a `NewKernel` that has not called `persist` yet (`MaxCalls`). The choice of the path from the environment is left out.

### TransferMemory and TransferPool

`held[h]` are the resources that an idle list (its direction stands for it), a
recorder or a buffer refers to, `native[x]` what was created for resource `x`, and
`inFlight[c]` what submitted commands of `c` may still access. `Buffer.Close` cannot see
that: it looks at `references`, of which a transfer keeps one when its completion is lost
(`RetainUnknown`). `preparing` is the upload that is acquired and not yet in
`Recorder.transfers`, the only one that a failing Upload discards. A recorder's life is
`PrepareUpload` and `RecordUpload` or `FailUpload`, `RecordDownload`, `Submit` or
`Abort`, `Observe`, then `ReadDownload` for each download, and `GiveUpTransfer` for each
resource, which recycles or destroys it; a buffer's blocking transfer is
`BeginTransfer`, `SubmitTransfer`, `EndTransfer`, or `FailTransfer`. `Device.Close` is
`StartClose`, `WaitIdle`, `CloseRecorder`, `CloseBufferFromDevice`,
`DrainTransferPool`. The choice of the memory type (`SelectMemoryType`) and the rounding
of a mapped range (`NonCoherentRange`) are operators; a memory type's flags are the
three that decide. Which of several equal resources the best fit takes is left open.
Recorders are submitted alone here, since recorders that are submitted together share
nothing of this module but the completion.

### RecordedCommands, MemoryDependencies and CommandStream

A command is a sequence of `Touch`es (an access of a stage to a buffer) and
`Dependency`s (a barrier with its stage and access scopes). `Run` keeps, for each access
so far, the stages that wait for it and what its write is visible to, and yields the
pairs of commands that may overlap; it is the part of the Vulkan memory model that the
package relies on: only buffers, one queue, no subpass. A buffer of `CommandStream` is
the range of bytes that the commands share, since every transfer puts its barriers on
exactly its range. `Record` is any of the five methods, `FailRecord` what `Update` and
`Barrier` leave behind when they fail; `Submit` waits for batches in conflict, as
`SubmissionScheduler` grants it. `TimestampBegin`, `TimestampEnd` and `Resolve` are the
spans; ticks are counters of `validBits` bits that wrap around.

### CorrelatorPipeline and Correlator

`Schedule` is the list of the 200-odd calls that `PhaseCorrelate` makes of a
`gpuRecorder`, and has two readings. `CommandsOf` gives what they put on the queue, for
`MemoryDependencies`. `Perform` gives what they leave in the buffers, as terms: a term
names a kernel, the terms it read and the parameter words it read, so two terms are
equal when they are the same computation. A launch with too few threads leaves
`Undefined`. `PhaseCorrelateCPU` composes the same terms as correlate_cpu.go composes
its functions. A shader and its counterpart have one name: that they compute the same
numbers is outside the model, ties included. Of equal maxima findPeakCPU takes the first in
the order of the rows (correlate_cpu.go:250), peak_find.wgsl and peak_reduce.wgsl the one
of the thread with the lower index, which may be another place of the surface.

`Correlator` is `NewCorrelator` with any list of options, `OpenNext` for each native
object of `vulki.Open` or `OpenFails` (also after the last of them, where the functions do
not load or there is no queue, device.go:295-302), `CreateNext` for each of the 50-odd resources or
`CreateFails`; a call is `RejectCall`, which ends with the failure of `NewRecorder`, or
`BeginCall`, `RecordNext`, `RecordFails` or
`RecordReturnsError` for each call of the schedule (after an error the recorder skips
until one that reports it), `SubmitAndWait` with its four outcomes, `Decode`, `Return`;
then `Close`. `CloseLentDevice` is the program closing the device it lent. `Decode`
takes the numbers of an answer from a set with NaN and infinity: `VerdictVulkan` and
`VerdictCPU` are the decisions on them. Left out: areas that overflow `int`, images that
are nil, what `SubmitAndWait` does with an error that `Download` would have returned
before it, and the functions of peak.go that no correlator calls.

## Runs

| Run | Question and bounds |
| --- | --- |
| `scheduler` | safety of the monitor, refinement of `SubmissionOrder`, absence of starvation; 3 reservations and 2 buffers give a batch that waits behind an active and a queued one, and one that overtakes neither |
| `queue_safety` | every method but `SubmitAndWait`, which is `Submit` and `Wait`; 2 goroutines, 1 buffer, 2 recorders, every failure |
| `queue_live` | 3 goroutines with transfers, `SubmitAndWait` and a lost fence: every call returns, although a transfer holds `Buffer.mu` while it sleeps, and so does `Device.Close` when no Submission is pending |
| `resources` | counts, lifetimes and cleanup of failed creations; each call returns when every Submission is observed in the end; 3 goroutines, a set of a kernel that binds 2 buffers, the first of them twice, so that a buffer can be found closed after others are retained, 1 recorder |
| `transfers` | who owns transfer memory; 2 recorders, 1 buffer, 3 resources, a pool of 2 and of 6 bytes, on coherent memory and on memory with an atom of 3 that divides no allocation |
| `stream` | what barriers order; all sequences of 3 commands or spans over 2 recorders and 2 buffers, with a kernel from one buffer to the other and one in place |
| `cache` | 2 Devices at one path, 3 kernels of which 2 fit, 2 attempts, 1 `NewKernel` of a Device about to call `persist` |
| `correlator` | a correlator of every kind, 2 calls of changing size, a failure at any step |
| `close_deadlock`, `submit_blocks`, `close_leaks`, `update_races` | the disagreements below |

What a passing run says, property by property, is in the comments above them. Why the
bounds are enough:

* *Queue.* Two goroutines are enough for a conflict and its release, three for one that
  holds, one that waits and one that closes; one buffer makes every use conflict, which
  is the worst case, and two recorders let a batch fail in its second one and let one
  goroutine have two batches. Calls repeat without bound; the state is finite because
  recorders are used up. In `resources` every resource is created once.
* *Pool.* Three resources are one for each client, so that one can be idle while two
  are in use, or two be idle and the pool full; sizes 1 and 3 are rounded to 2 and 4 by
  the granule, so two of the larger exceed the 6 bytes that the pool may retain, and a
  resource of either size can be recycled for a transfer of 1.
* *Stream.* Whether two commands race is decided by them and the barriers between; three
  commands give every pair with each command between, in one batch, two recorders
  of a batch, or two batches. Three bits of a query with two valid ones wrap around.
* *Cache.* With `MaxSize` 2 the third kernel exceeds the limit, and a Device that loaded or
  saved one kernel can save a larger cache or, if the code were wrong, a smaller one. One
  `NewKernel` about to call `persist` is enough to make the driver's cache grow while
  another is inside it.
* *Correlator.* Padding to 2 and to 4 gives butterflies with one and two stages. With 3
  threads in a workgroup a launch has idle threads at its end; `GroupLimits` 5 is less
  than the padding to 4 needs. The maximal sizes are one that everything accepts, one
  that only the CPU accepts, and ones both refuse. Two calls, each of one of two images
  with the other, show what the first one leaves behind. Whether the commands of a call
  race is decided when all are recorded. `MaxHalvings` bounds the doublings of
  `nextPow2Checked` and the passes of a transform at 30, more than an accepted padding has.

TLC's deadlock check is off in the runs of the queue, the resources, the stream, the
transfers and the correlator: the program may finish there, and in those of the queue
may block in the ways reported below. It is on for `scheduler` and `cache`.

### Fairness

`SubmissionScheduler`: a woken goroutine runs (weak fairness of `Reacquire`), and
the owner of a granted batch learns how it ended (`Release` or `MarkUnknown`).
`DeviceQueue`: `SF_vars(Step(g))` for every goroutine, because Go schedules every
runnable goroutine and its mutexes hand over to a waiter that has been passed
over for a millisecond, and weak fairness of `GpuComplete`, because a device
finishes a batch or fails the fence wait. No goroutine has to start a call.
`DeviceResources`: weak fairness of `Step(g)`, the steps of a call that has begun. A call
that sleeps in `acquireSubmission` has no step until those before it are over, and since
the others that conflict with it queue behind it, it stays enabled from then on. That a
call ends is claimed under the condition that every submitted recorder is observed
(`AllObserved`), which no code in the package sees to: without it a `DispatchAndWait`
behind an unobserved Submission, and a `Device.Close` that waits for it, never return, as
`close_deadlock` shows. The other modules state safety only: their calls wait for
nothing but the queue, whose waits are those of `DeviceQueue`.

### Disagreements between code and documentation

1. `close_deadlock`. While `Device.Close` waits for `active` to become 0,
   `beginOperation` refuses `Wait` and `Poll` (submission.go:336). A transfer that
   sleeps behind the pending batch stays active, so `Close` never returns.
2. `submit_blocks`. A reservation is released only when its Submission is
   observed, so a goroutine that submits an overlapping batch before `Wait`
   sleeps for ever, although `Submit` is documented not to wait.
3. `close_leaks`. `Device.Close` closes children from the youngest to the oldest; a
   binding set refuses while a recorder holds it (kernel.go:484) and, when the
   recorder is the older of the two, is asked first. The set and its kernel stay,
   the native device is destroyed, and `Close` returns an error.
4. `update_races`. `Update` waits for shaders only (recorder.go:149-153), `Upload` for
   transfers too (recorder.go:230): an Update recorded after a Download of the same bytes
   may overwrite them before they are copied.

Seen while modelling, and not the subject of a run:

* `Poll` locks `Submission.mu`, which a concurrent `Wait` holds through its fence wait;
  recording on a buffer waits for `Buffer.mu`, which a transfer holds while it sleeps.
* `Submit` returns its early errors without aborting the recorders it was given.
* Nothing orders a Download before a later writing Dispatch either, and a `Barrier` between
  the two, which covers compute shaders only, cannot; `CommandsOrdered` excepts both cases.
* After a lost completion `UploadAt` still writes its staging memory, which the lost
  copy may be reading, before it is refused; `HostWritesIdleMemory` excepts this case.
* An automatic correlator falls back to the CPU when its creation fails, and not when
  its images need more workgroups than the device allows, which every call then reports.
* The CPU correlator answers although the translation that loses is NaN, the Vulkan one
  refuses; `VerdictsAgree` says that this is the only difference.

## Proofs

`SubmissionScheduler_proofs` proves, for every set of reservations, buffers and
requests with `RequestsAssumption`:

* `MonitorInvariant`: `Spec => []MonitorInv`, the inductive invariant: the types,
  the queue without repetitions, `QueueMatchesCallers`, `ActiveCompatible`,
  `NoLostWakeup`. `NoLostWakeup` alone is not inductive: to see that a release or
  a withdrawal wakes everybody one has to know that only sleepers are queued.
* `MonitorTypes`, `GrantsAreCompatible`, `WakeupsAreNotLost`: what follows of the run's
  invariants; and `QueueHoldsTheWaiting` and `ErrorIsSticky`, for `QueueMatchesCallers` and
  `NoGrantAfterError`, which the run does not check apart, since the one is a part of the
  inductive invariant and the other of what `SubmissionOrder` allows.
* `MonitorImplementsOrder`: the refinement. The mapping makes the requests a
  waiting call waits for the conflicting active ones and the conflicting ones
  ahead of it; the lemmas `AcquireIsRequest`, `ReacquireIsGrant` and
  `LeavingIsLeave` map the actions, with the two list lemmas
  `RemoveReservationKeepsOrder` and `AppendGoesLast`.

`DeviceQueue_proofs` proves, for any finite set of goroutines, buffers and recorders, any
orders of creation, kinds of calls and failures (`CreationsAssumption`; `QueueAssumption`: the
three sets are finite, and a recorder is neither a goroutine nor a buffer):

* `QueueInvariant`: `Spec => []QueueInv`. What the runs check says
  that something is held; that it stays so needs to know by whom, and that nobody else
  is about to release it. `Fitting` says what a call counts on after it gave up a lock
  (its buffer locked and open, its Submission locked and pending). `ClaimsApart` and
  `ClaimStates` say that a recorder is finished by one call, one Submission or
  Device.Close, and in which state each finds it. `Reserved` gives every reservation and
  every fence one owner: the call that asked for it, the Submission, or a retained
  transfer; so no path releases a reservation while its batch executes. `UsesHeld` gives
  each use of a batch a reference of that owner, and `HeldOpen` says that a buffer with a
  reference is open until Device.Close destroys the children: together, a batch in flight
  has all its buffers. `Account` and `OneCloser` give that this happens when nobody
  operates; `Registered` that Close then asks everything that is not closed, Submissions
  first, and `Emptied` that nothing is left in a finished recorder.
* The argument in two layers. `EveryStepMoves` replaces each action by its effect on the
  goroutine, buffer, recorder or batch it is about (`Moved`), so that the calls of helpers
  are expanded once; then there is one lemma for each part of the invariant
  (`ReservedKept`, `UsesHeldKept`, ...) over these effects. The counts go by one lemma,
  `CountsKeep`, for a change of one holder and of one reference.
* `QueueTypes`, `ReferencesAreCounted`, `BatchesAreProtected`, `CloseWaits`,
  `CloseLeavesNothing` and `ResultsAreFinal`: the invariants of `queue_safety`, and its
  action property.
* `QueueUsesMonitor`: a Device implements `SubmissionScheduler`, so that the theorems
  about the monitor hold of it. What has to be shown is that no call asks for a
  reservation twice, and releases none that it has not. `QueueImplementsOrder` follows
  with `MonitorImplementsOrder`.

`TransferPool_proofs` proves, for any recorders, buffers, resources, sizes, devices and
limits (`HoldersAssumption`, `BoundsAssumption`):

* `PoolInvariant`: `Spec => []PoolInv`. `MemoryInv` is about memory and its holders: types,
  `ExclusiveOwner`, that what exists has a direction and is coherent when it is for
  uploads (`Existing`), that a request fits (`Requests`), that a buffer's staging memory
  has the buffer's size (`StagingSize`, why a later transfer fits what an earlier one
  created), and that only held memory counts as read (`FilledHeld`). `PhaseInv` says
  where commands may be in flight: `InFlightStaysHeld`, `Quiet` (none outside the phases
  that submitted, unless a completion was lost), `Referred` (a buffer whose commands may be
  in flight has a reference, so that its Close refuses), `Ended` and `Closing` (who holds nothing
  any more when the pool is drained). The two are apart because each step changes
  one and reads the other.
* `OwnersAreExclusive`, `InFlightIsHeld`, `TransfersFit`, `ReadsInvalidated`,
  `HostWritesAreSafe`, `CloseFrees`, `AccountIsExact` and `PoolTypes`: the eight
  properties of `transfers`. The last two are from `AccountInv`: the account is the number of
  the bytes that the idle resources retain (`IdleBytes`, a set, so that it can be counted
  without a sum), which changes by one resource at a time (`OneMore`). That it is exact
  gives that it is never negative, where the code subtracts unsigned numbers.
* `RangeIsInvalidated`: the range of `nonCoherentRange` for all numbers, from the
  lemmas `Division` and `Multiple`.

`DeviceResources_proofs` proves, for any kernels and buffers, any finite number of goroutines,
sets and recorders, and any way the sets bind buffers, one buffer at several bindings
included (`ResourcesAssumption`):

* `ResourcesInvariant`: `Spec => []ResourcesInv`. The counts alone are not inductive. That
  a reference is released once needs that no two calls have the same resource in hand
  (`OneCall`) and find it as they left it (`CallsFit`); that a set releases what it
  bound needs at which bindings it has retained a buffer (`Bound`), since it gives a
  buffer back as often as it is bound; that Close may
  subtract at once the batches whose completion is unknown needs that a goroutine has
  lost at most one (`LostOnce`, from the sticky error). That a count is not zero for what is held
  gives that what is held is live (`HeldLive`), and that a live resource has all its
  native objects (`Built`) turns this into `UsedResourcesExist`. `Account`, `OneCloser`
  and `Listed` give that Close destroys when nobody operates and asks everyone.
  The module proves first the parts about the calls, then those about native objects
  and counts, then the theorems. A lemma of a part has one step per action; `Apart` says once what a step leaves alone that has its resource
  for itself.
* `ResourceTypes`, `NothingDestroyedInUse`, `CountsAreTheHolders` and `NothingEverLeaks`:
  the four invariants of `resources`. What `close_leaks` refutes is not among
  them: `NothingEverLeaks` is about a Close that returned no error.

`PipelineCache_proofs` proves, for any Devices with any identities, any finite set
of kernels and any limits (`CacheAssumption`), from one inductive invariant
`CacheInv`:

* `FileStaysWhole`: `WriteInv` adds that what is renamed was written and synced and
  that the name the disk still has belongs to such a file; without the second part
  a stop of the machine could bring back a bad one.
* `GrowthIsSaved`: `SaveInv` adds that a cache that grew since its data was
  retrieved has a `NewKernel` that is still to call `persist`, and that the data
  only grows, so that equal sizes mean equal data (`CacheSizes`, from `FS_Subset`).
* `SavesSound`, from `SavesGrow` and `RememberedWasSaved`: action properties, from the
  same invariant;
* `TypeCorrect`: the bound of `attempts` needs that a retrieval that goes on has
  attempts left (`ClosedInv`).

`CommandStream_proofs` proves, for any recorders, binding sets, devices and finite set of
buffers, and for command buffers and queues of any length (`StreamAssumption`):

* `UsesAreEnough`. `CoverInv` says of every place of a command buffer that the command
  there is covered by what its recorder reserves and retains: `CommandIsCovered` that a
  command is by what it adds, `CoveredStays` with `Above` and `UsesGrow` that it stays so
  when later commands, also failed ones, add more.
* `TimestampsCanBeTrusted`, from its two halves. `QueryInv` gives the queries a recorder
  has written so far for each number of spans, with the last one open or not, and that
  the pool exists with the first; so none is missing or written twice when `Submit`
  accepts it. `MaskedDifference` is the arithmetic of the wrap-around: the difference in
  a word of 64 bits and a mask gives the ticks that passed, wherever the counter was.
  `TicksAssumption` says that a power of two divides a larger one, which holds for all
  numbers but cannot be derived, since the provers know nothing of powers; TLC evaluates
  it for the widths of the run.
* `StreamTypes`: the types, and that the queue holds the submitted recorders, each in one
  batch (`BatchInv`).
* `ConflictsAreOrdered`, for `CommandsOrdered`. `Held` says of an access on the queue, after
  the first `n` commands of a stream, what waits for it and what sees it, from the barriers
  that were recorded since; so a later command races with it only where the property excuses
  the two (`Excused`). That commands of different batches never do is `FlightInv`: no two
  batches in flight have conflicting uses, since a submission with a conflict waits, and by
  `CoverInv` the uses cover the commands. It also says that `races` is
  what a run of the commands in flight gives.
* `DownloadsReachTheHost`, for `HostSeesDownloads`: by `Held`, an access to transfer memory
  is followed by the barrier of its own Download. That needs transfer memory not to be
  a Buffer (`StreamAssumption`).

The queue's contents, and the run of a correlation below, are folds over sequences, and
induction over data is out of the provers' reach. Each fold is unrolled instead for the
length it has: the recursive function it is defined by exists for every set of places up to
that length (`CommandFold` and its like), by an induction over a set of numbers
(`SetInduction`), which an ordinary theorem on well-founded sets gives. What is left is one
value for each place, and the step between two of them.

`Correlator_proofs` proves, for any options, sizes, images and devices:

* `BorrowedDeviceIsNeverClosed`: each action but `CloseLentDevice` leaves the lent device
  alone; `Close` and a failed creation ask whose device it is before they close it.
* `OwnDeviceIsReleased`, the part of `NothingLeaks` about the correlator's own device. The
  invariant (`OwnsWhatItUses`) is that something of its own is open only while it is made,
  or with a Vulkan backend that was not closed.
* `NothingIsLeaked`, for `NothingLeaks` on either device. `CloseOrder` closes every handle, and
  a binding set before the kernel and the buffers it refers to (`SetsFirst`), so that no
  Close in that order refuses where no batch was lost (`CloseLeavesNothing`), and where one
  was, those of exactly what it may still access (`CloseLeavesWhatIsUsed`,
  `CloseLeavesNothingElse`, by which `InUse` of what the recorder retains is left).
  `ResourceInv` says that a lost batch keeps only what the correlator created, and
  `LentInv` that on a lent device all of that is live when `Close` begins.
* `CorrelatorIsTyped`, for `TypeOK`: `StatusInv` and `NativeInv`; `PlaceInv`, where the
  recording is, and that an error not yet reported has a method still to come that reports
  it, since the last call of a schedule is the Download; `SizesInv`, that only sizes that
  were accepted get as far as a recorder.
* `PipelineIsOrdered`, for `PipelineOrdered`, for every size and padding and any number of
  workgroups. A stage takes the queue from `Quiet` (everything on it waits for nothing more)
  to `Quiet`, the launches that find a peak leave the result `Pending`, and the barrier
  on the result that follows settles it (`Takes`, `PhaseTakes`, `CallsAreOrdered`).
* `VulkanComputesTheReference`, for `AnswerIsReference`, for every size, padding, size of a
  workgroup and images. `Puts` says that a stage computes one term into one buffer and keeps
  the others, if its parameters are the ones it was given and its threads are enough
  (`GroupsSuffice`); `FFT2DPuts` that the passes of a transform compute the reference's;
  `RotationIsComputed` and `TranslationIsComputed` follow the buffers through the stages of
  a phase, and `Translated` keeps the slots of the phase before. Nothing is asked of the
  contents at the start but that the buffers are there (`IsMemory`), so a call's result does
  not depend on those before it (`LastCallAnswers`), and `ExecutedInv` says that the last
  batch the device executed is the call's own when it is decoded. The terms are those of the
  model: that two kernels of one name compute the same numbers is not claimed.
* `VerdictsCanBeTrusted`, for any numbers (`NumbersAssumption`: they are ordered like
  integers, with one that stands for NaN): `DecisionIsSound` for what both backends
  decide, `BestIsHigher` for the comparison with NaN, and `BackendsAgree`.

Only model-checked: `EveryCallReturns` of the three modules that state fairness, since
liveness is beyond the proof system, and that the properties of the four violation runs
fail. Every safety invariant and action property
that a passing run checks is stated by a theorem.

## Not modelled, and the plan

Next: the choice of a physical device and of a queue family in `Open`
(device.go:186-319).

Left out for good: the floating-point numerics of the correlation (out of TLC's reach);
the module cache of shader/compiler.go (a bounded map behind one mutex that copies what
it stores and returns; the compiler behind it is a function, so that no interleaving
of its two critical sections changes a result); the marshalling of `vk/`, without state
of its own; the choice of the cache path from the environment; the checks of arguments
that return an error and change nothing; the example programs of `cmd/`; the wrapping of
errors (`errors.go`); and the vendored compiler and loader.
