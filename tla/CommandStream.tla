--------------------------- MODULE CommandStream ----------------------------
(***************************************************************************)
(* What recorders put into their command buffers (recorder.go: Update,     *)
(* Upload, Download, Barrier, Dispatch; timestamp.go), and how the queue   *)
(* executes the batches of Device.Submit: commands start in submission     *)
(* order and overlap, except where the barriers between them order them.   *)
(*                                                                         *)
(* A Buffer stands for the bytes that two commands share: every recorded   *)
(* transfer puts its barriers on exactly the range it touches.  Batches    *)
(* with conflicting uses are not in flight together (SubmissionScheduler). *)
(***************************************************************************)
EXTENDS RecordedCommands, SubmissionResources, Integers, FiniteSets, Functions

CONSTANTS
    Recorders,
    BindingSets,        \* BindingSet.resources: the access of a dispatch to each buffer
    DeviceBits,         \* timestampValidBits of the devices, 0 without timestamps
    WordBits,           \* bits of a query result (64 in the code)
    MaxTimestampSpans,
    MaxCommands         \* bound: commands and spans of all recorders together

ASSUME StreamAssumption ==
    /\ IsFiniteSet(Buffers)
    /\ Buffers \cap ({"staging"} \X Nat) = {}       \* transfer memory is no Buffer
    /\ BindingSets \subseteq Resources
    /\ MaxTimestampSpans \in Nat
    /\ WordBits \in Nat /\ DeviceBits \subseteq 0..WordBits

\* A counter is the low bits of a query result.  (That is arithmetic, which the
\* provers do not have for powers.)
ASSUME TicksAssumption ==
    \A bits \in DeviceBits \ {0} :
        /\ 2^bits \in Nat /\ 2^bits > 1
        /\ 2^WordBits \in Nat /\ 2^WordBits > 0 /\ (2^WordBits) % (2^bits) = 0

VARIABLES
    validBits,          \* of the device that was opened
    state,              \* Recorder.state; "submitted" is completion unknown
    commands,           \* the command buffer
    retained,           \* Recorder.buffers
    uses,               \* Recorder.resources
    spans, tsOpen,      \* the length of Recorder.tsLabels, and tsOpen
    tsPool,             \* is there a query pool
    written,            \* the timestamp queries that the commands write, with repetitions
    timestamps,         \* what Timestamps returns
    batches,            \* submitted and not observed, in submission order
    races               \* conflicting commands of these that may overlap

recorderVars  == <<state, commands, retained, uses>>
timestampVars == <<spans, tsOpen, tsPool, written, timestamps>>
queueVars     == <<batches, races>>
vars == <<validBits, recorderVars, timestampVars, queueVars>>

Commands ==
    [op : {"update", "upload", "download"}, buffer : Buffers]
    \cup [op : {"barrier"}, buffers : SUBSET Buffers \ {{}}]
    \cup [op : {"dispatch"}, access : BindingSets]

----------------------------------------------------------------------------
\* What each method records.
DeviceCommands(c, i) ==
    CASE c.op = "update"   -> UpdateBuffer(c.buffer)
      [] c.op = "upload"   -> UploadBuffer(c.buffer)
      [] c.op = "download" -> DownloadBuffer(c.buffer, i)
      [] c.op = "barrier"  -> ComputeBarrier(c.buffers)
      [] c.op = "dispatch" -> DispatchKernel({b \in Buffers : c.access[b] = "read"},
                                            {b \in Buffers : c.access[b] = "write"})

\* Recorder.resources after a command; a barrier reads and writes nothing itself.
AddUses(u, c) ==
    CASE c.op \in {"update", "upload"} -> AddAccess(u, c.buffer, "write")
      [] c.op = "download"             -> AddAccess(u, c.buffer, "read")
      [] c.op = "barrier"              -> u
      [] c.op = "dispatch"             -> MergeUses({u, c.access})

\* The buffers a command retains itself: a binding set retains those of a dispatch.
Retains(c) ==
    IF c.op = "barrier" THEN c.buffers ELSE IF c.op = "dispatch" THEN {} ELSE {c.buffer}

----------------------------------------------------------------------------
\* What Device.Submit takes: one or more recorders, each once.
Arguments == UNION {Injection(1..n, Recorders) : n \in 1..Cardinality(Recorders)}

TypeOK ==
    /\ validBits \in DeviceBits
    /\ state \in [Recorders -> {"recording", "submitted", "done", "aborted"}]
    /\ \A r \in Recorders : Range(commands[r]) \subseteq Commands
    /\ retained \in [Recorders -> SUBSET Buffers]
    /\ uses \in [Recorders -> Resources]
    /\ spans \in [Recorders -> 0..MaxTimestampSpans]
    /\ tsOpen \in [Recorders -> BOOLEAN]
    /\ tsPool \in [Recorders -> BOOLEAN]
    /\ \A r \in Recorders : Range(written[r]) \subseteq 0..(2 * MaxTimestampSpans - 1)
    /\ timestamps \in [Recorders -> [kind : {"unresolved", "spans", "unsupported", "error"},
                                     elapsed : Nat, reported : Nat]]
    /\ batches \in Seq(Arguments)
    /\ \A i, j \in DOMAIN batches : i # j => Range(batches[i]) \cap Range(batches[j]) = {}
    /\ UNION {Range(batches[i]) : i \in DOMAIN batches} = {r \in Recorders : state[r] = "submitted"}

Resolved(kind, elapsed, reported) == [kind |-> kind, elapsed |-> elapsed, reported |-> reported]

Init ==
    /\ validBits \in DeviceBits
    /\ state = [r \in Recorders |-> "recording"]
    /\ commands = [r \in Recorders |-> << >>]
    /\ retained = [r \in Recorders |-> {}]
    /\ uses = [r \in Recorders |-> NoBuffers]
    /\ spans = [r \in Recorders |-> 0]
    /\ tsOpen = [r \in Recorders |-> FALSE]
    /\ tsPool = [r \in Recorders |-> FALSE]
    /\ written = [r \in Recorders |-> << >>]
    /\ timestamps = [r \in Recorders |-> Resolved("unresolved", 0, 0)]
    /\ batches = << >>
    /\ races = {}

----------------------------------------------------------------------------
Recorded == SumFunction([r \in Recorders |-> Len(commands[r]) + spans[r]])

\* Update, Upload, Download, Barrier or Dispatch.
Record(r, c) ==
    /\ state[r] = "recording"
    /\ Recorded < MaxCommands
    /\ commands' = [commands EXCEPT ![r] = Append(@, c)]
    /\ retained' = [retained EXCEPT ![r] = @ \cup Retains(c)]
    /\ uses' = [uses EXCEPT ![r] = AddUses(@, c)]
    /\ UNCHANGED <<validBits, state, timestampVars, queueVars>>

\* Update and Barrier retain, and Update adds its use, before they can fail.  (A
\* failed vkCmdUpdateBuffer leaves a barrier, which orders more.)
FailRecord(r, c) ==
    /\ state[r] = "recording"
    /\ Recorded < MaxCommands
    /\ \/ /\ c.op = "update"
          /\ retained' = [retained EXCEPT ![r] = @ \cup {c.buffer}]
          /\ uses' = [uses EXCEPT ![r] = AddUses(@, c)]
       \/ /\ c.op = "barrier"
          /\ \E bs \in SUBSET c.buffers : retained' = [retained EXCEPT ![r] = @ \cup bs]
          /\ UNCHANGED uses
    /\ UNCHANGED <<validBits, state, commands, timestampVars, queueVars>>

TimestampsSupported == validBits > 0

WriteTimestamp(r, query) == written' = [written EXCEPT ![r] = Append(@, query)]

\* The queries of the pool are reset in the command buffer when it is created.
TimestampBegin(r) ==
    /\ state[r] = "recording"
    /\ ~tsOpen[r]
    /\ spans[r] < MaxTimestampSpans
    /\ Recorded < MaxCommands
    /\ IF TimestampsSupported
       THEN /\ tsPool' = [tsPool EXCEPT ![r] = TRUE]
            /\ WriteTimestamp(r, 2 * spans[r])
       ELSE UNCHANGED <<tsPool, written>>
    /\ spans' = [spans EXCEPT ![r] = @ + 1]
    /\ tsOpen' = [tsOpen EXCEPT ![r] = TRUE]
    /\ UNCHANGED <<validBits, recorderVars, timestamps, queueVars>>

TimestampEnd(r) ==
    /\ state[r] = "recording"
    /\ tsOpen[r]
    /\ IF TimestampsSupported /\ tsPool[r] THEN WriteTimestamp(r, 2 * (spans[r] - 1) + 1)
       ELSE UNCHANGED written
    /\ tsOpen' = [tsOpen EXCEPT ![r] = FALSE]
    /\ UNCHANGED <<validBits, recorderVars, spans, tsPool, timestamps, queueVars>>

----------------------------------------------------------------------------
\* The commands in flight, in submission order, with the batch each belongs to.
InFlight(bs) ==
    FlattenSeq([i \in DOMAIN bs |->
        FlattenSeq([j \in DOMAIN bs[i] |->
            [k \in DOMAIN commands[bs[i][j]] |-> [batch |-> bs[i], command |-> commands[bs[i][j]][k]]]])])

Execute(bs) ==
    LET stream == InFlight(bs)
    IN  Run([i \in DOMAIN stream |-> DeviceCommands(stream[i].command, i)]).races

UsesOf(recs) == MergeUses({uses[r] : r \in Range(recs)})

\* Mutant: an open span is submitted.
RecordingOnly(recs) == \A r \in Range(recs) : state[r] = "recording"

Submittable(recs) == \A r \in Range(recs) : state[r] = "recording" /\ ~tsOpen[r]

\* Device.Submit, which waits while its uses conflict with a batch in flight.
Submit(recs) ==
    /\ Submittable(recs)
    /\ \A i \in DOMAIN batches : ~Conflict(UsesOf(recs), UsesOf(batches[i]))
    /\ state' = [r \in Recorders |-> IF r \in Range(recs) THEN "submitted" ELSE state[r]]
    /\ batches' = Append(batches, recs)
    /\ races' = Execute(batches')
    /\ UNCHANGED <<validBits, commands, retained, uses, timestampVars>>

\* Recorder.finish
Finish(rs, final) ==
    /\ state' = [r \in Recorders |-> IF r \in rs THEN final ELSE state[r]]
    /\ commands' = [r \in Recorders |-> IF r \in rs THEN << >> ELSE commands[r]]
    /\ retained' = [r \in Recorders |-> IF r \in rs THEN {} ELSE retained[r]]
    /\ uses' = [r \in Recorders |-> IF r \in rs THEN NoBuffers ELSE uses[r]]
    /\ tsPool' = [r \in Recorders |-> IF r \in rs THEN FALSE ELSE tsPool[r]]
    /\ written' = [r \in Recorders |-> IF r \in rs THEN << >> ELSE written[r]]

\* Mutant: Abort asks no state.
AbortSubmitted(recs) ==
    /\ Finish(Range(recs), "aborted")
    /\ UNCHANGED <<validBits, spans, tsOpen, timestamps, queueVars>>

\* Abort, or a Submit that fails after its checks.
AbortRecording(recs) ==
    /\ Submittable(recs) \/ (Len(recs) = 1 /\ RecordingOnly(recs))
    /\ Finish(Range(recs), "aborted")
    /\ UNCHANGED <<validBits, spans, tsOpen, timestamps, queueVars>>

\* Mutant: the difference is not masked.
UnmaskedDelta(first, last) == (last - first) % 2^WordBits

\* The ticks of a span from two query results of validBits bits.
Delta(first, last) == ((last - first) % 2^WordBits) % 2^validBits

\* Early and late counts of a counter of validBits bits (external).
Ticks == {1, 2^validBits - 1}

\* resolveTimestamps, with the same first tick and duration for all spans.
Resolve(r) ==
    IF spans[r] = 0 THEN {Resolved("spans", 0, 0)}
    ELSE IF ~TimestampsSupported \/ ~tsPool[r] THEN {Resolved("unsupported", 0, 0)}
    ELSE {Resolved("error", 0, 0)}
         \cup {Resolved("spans", elapsed, Delta(first, (first + elapsed) % 2^validBits)) :
                  first \in Ticks, elapsed \in Ticks}

\* The known completion of one batch: each of its recorders is resolved, read and
\* finished.
Observe(i) ==
    LET recs == Range(batches[i])
    IN  /\ \E results \in [recs -> UNION {Resolve(r) : r \in recs}] :
              /\ \A r \in recs : results[r] \in Resolve(r)
              /\ timestamps' = [r \in Recorders |-> IF r \in recs THEN results[r] ELSE timestamps[r]]
        /\ Finish(recs, "done")
        /\ batches' = RemoveAt(batches, i)
        /\ races' = Execute(batches')
        /\ UNCHANGED <<validBits, spans, tsOpen>>

Next ==
    \/ \E r \in Recorders : \/ \E c \in Commands : Record(r, c) \/ FailRecord(r, c)
                            \/ TimestampBegin(r) \/ TimestampEnd(r)
    \/ \E recs \in Arguments : Submit(recs) \/ AbortRecording(recs)
    \/ \E i \in DOMAIN batches : Observe(i)

Spec == Init /\ [][Next]_vars

----------------------------------------------------------------------------
\* Recorder.resources covers what the commands do, and Recorder.buffers what they
\* touch: the reservation of a batch is granted, and Buffer.Close refuses, by these
\* and not by the commands.
UsesCoverCommands ==
    \A r \in Recorders : \A i \in DOMAIN commands[r] :
        LET c == commands[r][i]
        IN  /\ \A t \in Range(DeviceCommands(c, i)) :
                  t.op = "touch" /\ t.buffer # Staging(i) =>
                      uses[r][t.buffer] \in (IF Writes(t.access) THEN {"write"} ELSE {"read", "write"})
            /\ Retains(c) \subseteq retained[r]

\* "Batches execute in submission order on the shared queue, observing the barriers
\* they recorded" (submission.go:202-203): two conflicting commands in flight
\* never overlap unless they are two dispatches of one Device.Submit without a
\* Barrier for the buffer between them, or the first is a Download and the second
\* an Update or a Dispatch of the same Device.Submit.
CommandsOrdered ==
    LET stream == InFlight(batches)
    IN  \A race \in races :
          LET i == race[1]
              j == race[2]
              first == stream[i].command
              then  == stream[j].command
          IN  /\ stream[i].batch = stream[j].batch
              /\ \/ first.op = "download" /\ then.op \in {"update", "dispatch"}
                 \/ /\ first.op = "dispatch" /\ then.op = "dispatch"
                    /\ \E b \in Buffers :
                          /\ first.access[b] # "none" /\ then.access[b] # "none"
                          /\ "write" \in {first.access[b], then.access[b]}
                          /\ ~\E k \in i..j : /\ stream[k].command.op = "barrier"
                                              /\ b \in stream[k].command.buffers

\* A recorded download's bytes are visible to the host once its batch completed,
\* whatever other commands the batch has.
HostSeesDownloads ==
    LET stream == InFlight(batches)
    IN  \A e \in Run([i \in DOMAIN stream |-> DeviceCommands(stream[i].command, i)]).past :
            e.buffer \notin Buffers => "host" \in e.after /\ "hostRead" \in e.visible

\* Every query that Timestamps will read is written exactly once, begin before end,
\* by the batch itself.
QueriesWritten ==
    \A r \in Recorders :
        state[r] = "submitted" /\ tsPool[r] =>
            written[r] = [i \in 1..(2 * spans[r]) |-> i - 1]

\* A span reports the ticks that passed, also when the counter wrapped around.
SpansAreExact ==
    \A r \in Recorders : timestamps[r].kind = "spans" => timestamps[r].reported = timestamps[r].elapsed

\* Both: Timestamps of a completed batch waits for no query nobody writes, and reports
\* the time of each span (timestamp.go:108-156).
TimestampsAreSound == QueriesWritten /\ SpansAreExact

\* "Batches execute in submission order on the shared queue, observing the barriers
\* they recorded" (submission.go:202-203): an Update does not overtake a Download
\* of the same bytes that was recorded before it.
UpdatesWaitForDownloads ==
    LET stream == InFlight(batches)
    IN  \A race \in races :
            ~(stream[race[1]].command.op = "download" /\ stream[race[2]].command.op = "update")

============================================================================
