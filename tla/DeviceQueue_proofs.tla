------------------------ MODULE DeviceQueue_proofs -------------------------
(***************************************************************************)
(* The invariant of DeviceQueue, for every set of goroutines, buffers and  *)
(* recorders; what each step does, goroutine by goroutine, buffer by       *)
(* buffer and batch by batch; the parts of the invariant that are about    *)
(* calls (types, the count of operations, who closes, and who disposes of  *)
(* which recorders), then those about reservations, children, uses and     *)
(* references; and the theorems: no batch in flight loses its reservation  *)
(* or a buffer, references count who refers, and Device.Close waits and    *)
(* leaves nothing behind.                                                  *)
(***************************************************************************)
EXTENDS DeviceQueue, SequenceTheorems, FiniteSetTheorems, TLAPS

Closing    == {"drain", "waitIdle", "transients", "children"}
Destroying == {"waitIdle", "transients", "children"}
Outside    == {"idle", "call", "awaitClose"} \cup Closing

----------------------------------------------------------------------------
\* The goroutines inside an operation of the Device, which active counts.
Operating == {g \in Goroutines : pc[g] \notin Outside}

Account == active = Cardinality(Operating)

\* One goroutine closes the Device, and cleans up when all operations are over.
OneCloser ==
    /\ \A g \in Goroutines : pc[g] \in Closing =>
          status = "closing" /\ \A h \in Goroutines : pc[h] \in Closing => h = g
    /\ \A g \in Goroutines : pc[g] \in Destroying => active = 0
    /\ status = "closed" => active = 0

----------------------------------------------------------------------------
\* The calls in progress, whose recorders become fewer as they are finished.
RecorderLists == {s \in Seq(Recorders) : IsInjective(s)}

TransferOps == [kind : {"transfer"}, buf : Buffers, acc : {"read", "write"}]
RecordOps   == [kind : {"record"}, rec : Recorders, recs : RecorderLists, buf : Buffers,
                acc : {"read", "write"}]
RecorderOps == [kind : SubmitKinds \cup {"abort"} \cup ObserverKinds, rec : Recorders,
                recs : RecorderLists]
CloseOps    == [kind : {"closeBuffer"}, buf : Buffers]
Ops == {NoOp} \cup TransferOps \cup RecordOps \cup RecorderOps \cup CloseOps
         \cup {[kind |-> "closeDevice"]}

Children == {"buffer"} \X Buffers \cup {"recorder", "submission"} \X Recorders

DeviceTypes ==
    /\ status \in {"open", "closing", "closed"}
    /\ active \in Nat
    /\ children \in Seq(Children) /\ closeList \in Seq(Children)
    /\ transients \in SUBSET (Batches \X (Buffers \cup {NoOne}))
BufferTypes ==
    /\ bufMu \in [Buffers -> Goroutines \cup {NoOne}]
    /\ references \in [Buffers -> Nat]
    /\ bufferClosed \in [Buffers -> BOOLEAN]
RecorderTypes ==
    /\ recState \in [Recorders -> {"recording", "submitted", "aborted", "unknown"}]
    /\ recBuffers \in [Recorders -> SUBSET Buffers]
    /\ recUses \in [Recorders -> S!Resources]
TrackingTypes ==
    /\ subState \in [Recorders -> {"none", "pending", "unknown", "done"}]
    /\ subRecorders \in [Recorders -> {<< >>} \cup SubmitArguments]
    /\ subMu \in [Recorders -> Goroutines \cup {NoOne}]
    /\ result \in [Recorders -> {"none", "ok", "readError", "lost", "closed"}]
    /\ batch \in [Batches -> {"none", "executing", "signaled"}]
CallTypes ==
    /\ pc \in [Goroutines -> Labels]
    /\ op \in [Goroutines -> Ops]
    /\ \A g \in Goroutines : (pc[g] = "idle") = (op[g] = NoOp)

Types == DeviceTypes /\ BufferTypes /\ RecorderTypes /\ TrackingTypes /\ CallTypes

\* Which calls get where.
Submitting == {"acquire", "parked", "queueSubmit", "track"}

CallFits(g) ==
    /\ pc[g] \in {"acquire", "parked", "queueSubmit"} => op[g].kind \in QueueKinds
    /\ pc[g] = "waitFence" => op[g].kind \in {"transfer"} \cup ObserverKinds
    /\ pc[g] = "track" => op[g].kind \in SubmitKinds
    /\ pc[g] = "releasing" => op[g].kind \in SubmitKinds \cup ObserverKinds \cup {"abort"}
    /\ pc[g] = "end" => op[g].kind \in QueueKinds \cup ObserverKinds \cup {"abort"}
    /\ pc[g] \in Closing \cup {"awaitClose"} => op[g].kind = "closeDevice"
    /\ pc[g] \in Submitting \cup {"call"} /\ op[g].kind \in SubmitKinds =>
          op[g].recs \in SubmitArguments /\ op[g].rec = op[g].recs[1]

CallsFit == \A g \in Goroutines : CallFits(g)

\* A transfer keeps its buffer locked and open.
TransferFits(g) ==
    op[g].kind = "transfer" /\ pc[g] \notin Outside =>
        bufMu[op[g].buf] = g /\ ~bufferClosed[op[g].buf]

\* Who observes a Submission keeps it locked.
ObserverFits(g) ==
    op[g].kind \in ObserverKinds /\ pc[g] \notin Outside =>
        LET r == op[g].rec IN
        /\ subMu[r] = g
        /\ pc[g] \in {"waitFence", "releasing"} => subState[r] = "pending"
        /\ pc[g] = "waitFence" => op[g].recs = subRecorders[r]
        /\ pc[g] = "releasing" => batch[r] = "signaled" /\ r \notin activeSubmissions

\* What is submitted has no Submission yet.
SubmitFits(g) ==
    op[g].kind \in SubmitKinds /\ pc[g] \in Submitting => subState[op[g].rec] = "none"

Fitting == \A g \in Goroutines : TransferFits(g) /\ ObserverFits(g) /\ SubmitFits(g)

----------------------------------------------------------------------------
\* Who disposes of which recorders: a goroutine that submits or finishes them, or a
\* Submission that nobody finishes.
Working(g) == pc[g] \in Submitting \cup {"releasing"} /\ op[g].kind # "transfer"

Tracked(x) == subState[x] \in {"pending", "unknown"}
Live(x) ==
    /\ Tracked(x)
    /\ \A h \in Goroutines : pc[h] = "releasing" /\ op[h].kind \in ObserverKinds => op[h].rec # x

RecsOf(g) == Range(op[g].recs)
SubRecs(x) == Range(subRecorders[x])

OneUser ==
    \A g, h \in Goroutines :
        op[g].kind \in RecorderKinds /\ op[h].kind \in RecorderKinds /\ g # h =>
            RecsOf(g) \cap RecsOf(h) = {}

ClaimsApart ==
    /\ \A g, h \in Goroutines : Working(g) /\ Working(h) /\ g # h => RecsOf(g) \cap RecsOf(h) = {}
    /\ \A g \in Goroutines, x \in Recorders : Working(g) /\ Live(x) => RecsOf(g) \cap SubRecs(x) = {}
    /\ \A x, y \in Recorders : Live(x) /\ Live(y) /\ x # y => SubRecs(x) \cap SubRecs(y) = {}

\* What state those recorders are in.
StateAt(g) == IF pc[g] = "track" \/ op[g].kind \in ObserverKinds THEN "unknown" ELSE "recording"

ClaimStates ==
    /\ \A g \in Goroutines : Working(g) => \A r \in RecsOf(g) : recState[r] = StateAt(g)
    /\ \A x \in Recorders : Live(x) => \A r \in SubRecs(x) : recState[r] = "unknown"
    /\ \A x \in Recorders : subState[x] # "none" => recState[x] # "recording"

----------------------------------------------------------------------------
\* Who answers for a reservation and its batch.
InTransients(x) == \E t \in transients : t[1] = x

Owner(x, labels) == \E g \in Goroutines : pc[g] \in labels /\ op[g].kind \in QueueKinds /\ Batch(g) = x

Kept(x) == InTransients(x) \/ (x \in Recorders /\ Tracked(x))

Owned ==
    \A x \in Batches :
        /\ caller[x] # "outside" => Owner(x, {"parked"})
        /\ x \in activeSubmissions => Owner(x, {"queueSubmit", "waitFence", "track"}) \/ Kept(x)
        /\ batch[x] # "none" => Owner(x, {"waitFence", "track"}) \/ Kept(x)

Granted(g) ==
    op[g].kind \in QueueKinds =>
        /\ pc[g] \in {"queueSubmit", "waitFence", "track"} =>
              Batch(g) \in activeSubmissions /\ ~InTransients(Batch(g))
        /\ pc[g] \in {"parked", "queueSubmit"} => batch[Batch(g)] = "none"

TransientsKept ==
    /\ \A t \in transients :
          /\ t[1] \in activeSubmissions
          /\ t[1] \in Recorders => subState[t[1]] = "none"
          /\ t[2] = NoOne => status # "open"
    /\ \A t, u \in transients : t[1] = u[1] => t = u

Reserved == Owned /\ (\A g \in Goroutines : Granted(g)) /\ TransientsKept /\ InFlightIsReserved

----------------------------------------------------------------------------
\* The buffers that a batch uses are held by who answers for it.
Released(r) == \E g \in Goroutines : Working(g) /\ pc[g] = "releasing" /\ r \in RecsOf(g)

RecordedUsesHeld ==
    \A r \in Recorders, b \in Buffers :
        recState[r] = "recording" /\ ~Released(r) /\ recUses[r][b] # "none" => b \in recBuffers[r]

\* A transfer holds its buffer itself, a submission through its recorders.
CallUsesHeld(g) ==
    \A b \in Buffers :
        /\ op[g].kind = "transfer" /\ pc[g] \in {"parked", "queueSubmit", "waitFence"}
              /\ resources[g][b] # "none" => b = op[g].buf
        /\ op[g].kind \in SubmitKinds /\ pc[g] \in {"parked", "queueSubmit", "track"}
              /\ resources[op[g].rec][b] # "none" => \E r \in RecsOf(g) : b \in recBuffers[r]

SubmittedUsesHeld ==
    \A x \in Recorders, b \in Buffers :
        Live(x) /\ resources[x][b] # "none" => \E r \in SubRecs(x) : b \in recBuffers[r]

RetainedUsesHeld ==
    \A t \in transients, b \in Buffers : t[2] # NoOne /\ resources[t[1]][b] # "none" => b = t[2]

UsesHeld ==
    /\ RecordedUsesHeld /\ (\A g \in Goroutines : CallUsesHeld(g))
    /\ SubmittedUsesHeld /\ RetainedUsesHeld

\* Until Device.Close destroys the children a buffer with references is open.
HeldOpen ==
    status # "closed" /\ (\A g \in Goroutines : pc[g] # "children") =>
        \A b \in Buffers : references[b] > 0 => ~bufferClosed[b]

----------------------------------------------------------------------------
\* What is not closed is among the children, and Device.Close comes to it.
Listed(list) ==
    /\ \A b \in Buffers : bufferClosed[b] \/ <<"buffer", b>> \in Range(list)
    /\ \A r \in Recorders : recState[r] \in {"submitted", "aborted"} \/ <<"recorder", r>> \in Range(list)
    /\ \A x \in Recorders : Tracked(x) => <<"submission", x>> \in Range(list)

\* Submissions are created after the buffers and recorders.
SubmissionsLast(list) ==
    \A i, j \in DOMAIN list : list[i][1] = "submission" /\ list[j][1] # "submission" => j < i

Registered ==
    /\ status # "closed" => Listed(children)
    /\ \A g \in Goroutines : pc[g] \in Destroying => Listed(closeList)
    /\ SubmissionsLast(children) /\ SubmissionsLast(closeList)
    /\ \A g \in Goroutines : pc[g] = "children" => transients = {}

Emptied == \A r \in Recorders : recState[r] \in {"submitted", "aborted"} => recBuffers[r] = {}

----------------------------------------------------------------------------
SchedulerInv == S!TypeOK /\ S!QueueMatchesCallers /\ S!ActiveCompatible /\ S!NoLostWakeup

QueueInv ==
    /\ Types /\ Account /\ OneCloser /\ CallsFit /\ Fitting /\ OneUser /\ ClaimsApart /\ ClaimStates
    /\ SchedulerInv /\ Reserved /\ UsesHeld /\ HeldOpen /\ Registered /\ Emptied
    /\ ReferencesCountHolders /\ InFlightBuffersLive /\ CloseReclaims

----------------------------------------------------------------------------
(* The steps, by what they do to each goroutine, buffer, recorder and batch. *)

Stay(g) == \A h \in Goroutines : h # g => pc'[h] = pc[h] /\ op'[h] = op[h]

Moves(g, from, kinds, to) ==
    pc[g] \in from /\ op[g].kind \in kinds /\ pc'[g] \in to /\ op'[g] = op[g] /\ Stay(g)
Leaves(g, from, kinds) ==
    pc[g] \in from /\ op[g].kind \in kinds /\ pc'[g] = "idle" /\ op'[g] = NoOp /\ Stay(g)

Unwound(g) == IF op[g].kind = "transfer" THEN "end" ELSE "releasing"

\* Changes of one place of a function.
Only(old, new, D, x) == \A y \in D : y # x => new[y] = old[y]

\* The reservations, without the order of the queue and who sleeps.
Waits(callers, x) == callers[x] # "outside"
SameWaiting == \A y \in Batches : Waits(caller', y) <=> Waits(caller, y)
Keeps == activeSubmissions' = activeSubmissions /\ resources' = resources /\ SameWaiting
Frees(x) ==
    /\ x \in activeSubmissions /\ activeSubmissions' = activeSubmissions \ {x}
    /\ Only(resources, resources', Batches, x) /\ SameWaiting

Drops(g) ==
    /\ op[g].kind = "transfer" =>
          /\ references'[op[g].buf] = Less(references[op[g].buf])
          /\ Only(references, references', Buffers, op[g].buf)
    /\ op[g].kind # "transfer" => references' = references

programVars == <<bufferVars, recorderVars, trackingVars, batch>>
quietVars   == <<schedulerVars, active, transients, programVars>>

StartsCall(g, call) ==
    /\ pc[g] = "idle" /\ pc'[g] = "call" /\ op'[g] = call /\ Stay(g)
    /\ call \in Calls /\ Allowed(call)
    /\ UNCHANGED <<quietVars, status, children, closeList>>
Returns(g) ==
    /\ pc[g] \in {"call", "awaitClose"} /\ pc'[g] = "idle" /\ op'[g] = NoOp /\ Stay(g)
    /\ UNCHANGED <<quietVars, status, children, closeList>>
BeginsClose(g) ==
    /\ Moves(g, {"call"}, {"closeDevice"}, {"awaitClose", "drain"})
    /\ UNCHANGED <<quietVars, children, closeList>>
    /\ status = IF pc'[g] = "drain" THEN "open" ELSE "closing"
    /\ status' = "closing"
Drains(g) ==
    /\ Moves(g, {"drain"}, {"closeDevice"}, {"waitIdle"})
    /\ active = 0 /\ closeList' = children
    /\ UNCHANGED <<quietVars, status, children>>
GoesOn(g) ==
    /\ Moves(g, {"waitIdle", "transients"}, {"closeDevice"}, {"transients", "children"})
    /\ pc'[g] = "children" => transients = {}
    /\ UNCHANGED <<quietVars, status, children, closeList>>
EndsClose(g) ==
    /\ Leaves(g, {"children"}, {"closeDevice"})
    /\ closeList = << >> /\ closeList' = << >> /\ children' = << >> /\ status' = "closed"
    /\ UNCHANGED quietVars

LocksBuffer(g) ==
    /\ Moves(g, {"call"}, {"transfer"}, {"acquire", "end"})
    /\ status = "open" /\ active' = active + 1
    /\ ~bufferClosed[op[g].buf] /\ bufMu[op[g].buf] = NoOne /\ bufMu'[op[g].buf] = g
    /\ Only(bufMu, bufMu', Buffers, op[g].buf)
    /\ UNCHANGED <<schedulerVars, status, children, transients, closeList, references,
                   bufferClosed, recorderVars, trackingVars, batch>>
Records(g) ==
    LET r == op[g].rec
        b == op[g].buf
    IN  /\ Leaves(g, {"call"}, {"record"})
        /\ recState[r] = "recording" /\ ~bufferClosed[b] /\ status = "open"
        /\ references'[b] = IF b \in recBuffers[r] THEN references[b] ELSE references[b] + 1
        /\ Only(references, references', Buffers, b)
        /\ recBuffers'[r] = recBuffers[r] \cup {b} /\ Only(recBuffers, recBuffers', Recorders, r)
        /\ Only(recUses[r], recUses'[r], Buffers, b) /\ Only(recUses, recUses', Recorders, r)
        /\ UNCHANGED <<schedulerVars, deviceVars, bufMu, bufferClosed, recState, trackingVars, batch>>
TakesRecorders(g) ==
    /\ Moves(g, {"call"}, SubmitKinds \cup {"abort"}, {"acquire", "releasing"})
    /\ op[g].kind = "abort" => pc'[g] = "releasing"
    /\ \A r \in RecsOf(g) : recState[r] = "recording"
    /\ status = "open" /\ active' = active + 1
    /\ UNCHANGED <<schedulerVars, status, children, transients, closeList, programVars>>

IsRefused(g) ==
    /\ Moves(g, {"acquire"}, QueueKinds, {Unwound(g)})
    /\ UNCHANGED <<schedulerVars, deviceVars, programVars>>
Reserves(g) ==
    LET x == Batch(g)
        b == op[g].buf
    IN  /\ Moves(g, {"acquire"}, QueueKinds, {"parked", "queueSubmit"})
        /\ ~Waits(caller, x) /\ x \notin activeSubmissions
        /\ resources'[x] = Uses(g) /\ Only(resources, resources', Batches, x)
        /\ \/ pc'[g] = "queueSubmit" /\ activeSubmissions' = activeSubmissions \cup {x} /\ ~Waits(caller', x)
           \/ pc'[g] = "parked" /\ activeSubmissions' = activeSubmissions /\ Waits(caller', x)
        /\ \A y \in Batches : y # x => (Waits(caller', y) <=> Waits(caller, y))
        /\ op[g].kind = "transfer" =>
              references'[b] = references[b] + 1 /\ Only(references, references', Buffers, b)
        /\ op[g].kind # "transfer" => references' = references
        /\ UNCHANGED <<deviceVars, bufMu, bufferClosed, recorderVars, trackingVars, batch>>
IsGranted(g) ==
    LET x == Batch(g) IN
    /\ Moves(g, {"parked"}, QueueKinds, {"queueSubmit"})
    /\ x \notin activeSubmissions /\ activeSubmissions' = activeSubmissions \cup {x}
    /\ ~Waits(caller', x) /\ \A y \in Batches : y # x => (Waits(caller', y) <=> Waits(caller, y))
    /\ UNCHANGED <<resources, deviceVars, programVars>>
SleepsOn(g) ==
    /\ pc[g] = "parked"
    /\ UNCHANGED <<pendingSubmissions, activeSubmissions, resources, submissionErr, deviceVars, programVars, threadVars>>
    /\ SameWaiting
Withdraws(g) ==
    LET x == Batch(g) IN
    /\ Moves(g, {"parked"}, QueueKinds, {Unwound(g)})
    /\ x \notin activeSubmissions /\ UNCHANGED activeSubmissions
    /\ ~Waits(caller', x) /\ \A y \in Batches : y # x => (Waits(caller', y) <=> Waits(caller, y))
    /\ Only(resources, resources', Batches, x)
    /\ Drops(g)
    /\ UNCHANGED <<deviceVars, bufMu, bufferClosed, recorderVars, trackingVars, batch>>

PutsOnQueue(g) ==
    LET x == Batch(g) IN
    /\ Moves(g, {"queueSubmit"}, QueueKinds, {"waitFence", "track"})
    /\ pc'[g] = IF op[g].kind = "transfer" THEN "waitFence" ELSE "track"
    /\ batch'[x] = "executing" /\ Only(batch, batch', Batches, x)
    /\ IF op[g].kind = "transfer" THEN recState' = recState
       ELSE \A r \in Recorders : recState'[r] = IF r \in RecsOf(g) THEN "unknown" ELSE recState[r]
    /\ UNCHANGED <<schedulerVars, deviceVars, bufferVars, recBuffers, recUses, trackingVars>>
FailsToSubmit(g) ==
    /\ Moves(g, {"queueSubmit"}, QueueKinds, {Unwound(g)})
    /\ Frees(Batch(g)) /\ Drops(g)
    /\ UNCHANGED <<deviceVars, bufMu, bufferClosed, recorderVars, trackingVars, batch>>

EndsTransfer(g) ==
    /\ Moves(g, {"waitFence"}, {"transfer"}, {"end"})
    /\ batch[g] = "signaled" /\ batch'[g] = "none" /\ Only(batch, batch', Batches, g)
    /\ Frees(g) /\ Drops(g)
    /\ UNCHANGED <<deviceVars, bufMu, bufferClosed, recorderVars, trackingVars>>
LosesTransfer(g) ==
    /\ Moves(g, {"waitFence"}, {"transfer"}, {"end"})
    /\ g \in activeSubmissions /\ Keeps
    /\ transients' = transients \cup {<<g, op[g].buf>>}
    /\ UNCHANGED <<status, active, children, closeList, programVars>>
Tracks(g) ==
    LET r == op[g].rec IN
    /\ Moves(g, {"track"}, SubmitKinds, {"end"})
    /\ status = "open" /\ children' = Append(children, <<"submission", r>>)
    /\ subState'[r] = "pending" /\ Only(subState, subState', Recorders, r)
    /\ subRecorders'[r] = op[g].recs /\ Only(subRecorders, subRecorders', Recorders, r)
    /\ UNCHANGED <<schedulerVars, status, active, transients, closeList, bufferVars, recorderVars,
                   subMu, result, batch>>
RetainsBatch(g) ==
    LET r == op[g].rec IN
    /\ Moves(g, {"track"}, SubmitKinds, {"end"})
    /\ status # "open" /\ r \in activeSubmissions /\ Keeps
    /\ transients' = transients \cup {<<r, NoOne>>}
    /\ UNCHANGED <<status, active, children, closeList, programVars>>

LocksSubmission(g) ==
    LET r == op[g].rec IN
    /\ pc[g] = "call" /\ op[g].kind \in ObserverKinds /\ pc'[g] = "waitFence" /\ Stay(g)
    /\ op'[g].kind = op[g].kind /\ op'[g].rec = r /\ op'[g].recs = subRecorders[r]
    /\ status = "open" /\ active' = active + 1 /\ subState[r] = "pending"
    /\ subMu[r] = NoOne /\ subMu'[r] = g /\ Only(subMu, subMu', Recorders, r)
    /\ UNCHANGED <<schedulerVars, status, children, transients, closeList, bufferVars,
                   recorderVars, subState, subRecorders, result, batch>>
SeesCompletion(g) ==
    LET r == op[g].rec IN
    /\ Moves(g, {"waitFence"}, ObserverKinds, {"releasing"})
    /\ batch[r] = "signaled" /\ Frees(r) /\ Only(result, result', Recorders, r)
    /\ UNCHANGED <<deviceVars, bufferVars, recorderVars, subState, subRecorders, subMu, batch>>
LosesSubmission(g) ==
    LET r == op[g].rec IN
    /\ Moves(g, {"waitFence"}, ObserverKinds, {"end"})
    /\ r \in activeSubmissions /\ Keeps
    /\ subState'[r] = "unknown" /\ Only(subState, subState', Recorders, r)
    /\ Only(result, result', Recorders, r)
    /\ UNCHANGED <<deviceVars, bufferVars, recorderVars, subRecorders, subMu, batch>>
PollsInVain(g) ==
    /\ Moves(g, {"waitFence"}, ObserverKinds, {"end"})
    /\ UNCHANGED <<schedulerVars, deviceVars, programVars>>

DropsReference(g, b) ==
    LET r == op[g].recs[1] IN
    /\ pc[g] = "releasing" /\ op[g].kind \in SubmitKinds \cup ObserverKinds \cup {"abort"}
    /\ op[g].recs # << >> /\ b \in recBuffers[r]
    /\ references'[b] = Less(references[b]) /\ Only(references, references', Buffers, b)
    /\ recBuffers'[r] = recBuffers[r] \ {b} /\ Only(recBuffers, recBuffers', Recorders, r)
    /\ UNCHANGED <<schedulerVars, deviceVars, bufMu, bufferClosed, recState, recUses,
                   trackingVars, batch, threadVars>>
Finishes(g) ==
    LET r == op[g].recs[1] IN
    /\ pc[g] = "releasing" /\ op[g].kind \in SubmitKinds \cup ObserverKinds \cup {"abort"}
    /\ op[g].recs # << >> /\ recBuffers[r] = {}
    /\ pc'[g] = pc[g] /\ Stay(g)
    /\ op'[g].kind = op[g].kind /\ op'[g].rec = op[g].rec /\ op'[g].recs = Tail(op[g].recs)
    /\ recState'[r] = IF op[g].kind \in ObserverKinds THEN "submitted" ELSE "aborted"
    /\ Only(recState, recState', Recorders, r) /\ Only(recUses, recUses', Recorders, r)
    /\ children' = Without(children, <<"recorder", r>>)
    /\ UNCHANGED <<schedulerVars, status, active, transients, closeList, bufferVars, recBuffers,
                   trackingVars, batch>>
FinishesSubmission(g) ==
    LET r == op[g].rec IN
    /\ Moves(g, {"releasing"}, ObserverKinds, {"end"})
    /\ op[g].recs = << >>
    /\ subState'[r] = "done" /\ Only(subState, subState', Recorders, r)
    /\ Only(subRecorders, subRecorders', Recorders, r)
    /\ batch'[r] = "none" /\ Only(batch, batch', Batches, r)
    /\ children' = Without(children, <<"submission", r>>)
    /\ UNCHANGED <<schedulerVars, status, active, transients, closeList, bufferVars, recorderVars,
                   subMu, result>>
FinishesCall(g) ==
    /\ Moves(g, {"releasing"}, SubmitKinds \cup {"abort"}, {"end"})
    /\ op[g].recs = << >>
    /\ UNCHANGED <<schedulerVars, deviceVars, programVars>>
EndsCall(g) ==
    /\ pc[g] = "end" /\ Stay(g)
    /\ \/ pc'[g] = "idle" /\ op'[g] = NoOp
       \/ /\ op[g].kind = "submitAndWait" /\ subState[op[g].rec] = "pending"
          /\ pc'[g] = "call" /\ op'[g].kind = "wait" /\ op'[g].rec = op[g].rec
          /\ op'[g].recs = op[g].recs
    /\ active' = Less(active)
    /\ IF op[g].kind = "transfer"
       THEN bufMu'[op[g].buf] = NoOne /\ Only(bufMu, bufMu', Buffers, op[g].buf)
       ELSE bufMu' = bufMu
    /\ IF op[g].kind \in ObserverKinds
       THEN subMu'[op[g].rec] = NoOne /\ Only(subMu, subMu', Recorders, op[g].rec)
       ELSE subMu' = subMu
    /\ UNCHANGED <<schedulerVars, status, children, transients, closeList, references,
                   bufferClosed, recorderVars, subState, subRecorders, result, batch>>
ClosesBuffer(g) ==
    LET b == op[g].buf IN
    /\ Leaves(g, {"call"}, {"closeBuffer"})
    /\ bufMu[b] = NoOne /\ references[b] = 0 /\ status = "open"
    /\ bufferClosed'[b] = TRUE /\ Only(bufferClosed, bufferClosed', Buffers, b)
    /\ children' = Without(children, <<"buffer", b>>)
    /\ UNCHANGED <<schedulerVars, status, active, transients, closeList, bufMu, references,
                   recorderVars, trackingVars, batch>>

CleansUp(g, t) ==
    /\ pc[g] = "transients" /\ t \in transients /\ transients' = transients \ {t}
    /\ batch'[t[1]] = "none" /\ Only(batch, batch', Batches, t[1])
    /\ Frees(t[1])
    /\ t[2] \in Buffers => references'[t[2]] = Less(references[t[2]])
    /\ Only(references, references', Buffers, t[2])
    /\ UNCHANGED <<status, active, children, closeList, bufMu, bufferClosed, recorderVars,
                   trackingVars, threadVars>>

\* The last child goes.
LastChild(g, child) ==
    /\ pc[g] = "children" /\ closeList # << >> /\ closeList[Len(closeList)] = child
    /\ closeList' = SubSeq(closeList, 1, Len(closeList) - 1)
ForgetsSubmission(g, r) ==
    /\ LastChild(g, <<"submission", r>>) /\ subState[r] = "done"
    /\ UNCHANGED <<schedulerVars, status, active, children, transients, programVars, threadVars>>
EndsSubmission(g, r) ==
    /\ LastChild(g, <<"submission", r>>) /\ subState[r] # "done"
    /\ Frees(r)
    /\ batch'[r] = "none" /\ Only(batch, batch', Batches, r)
    /\ subState'[r] = "done" /\ Only(subState, subState', Recorders, r)
    /\ Only(subRecorders, subRecorders', Recorders, r)
    /\ Only(result, result', Recorders, r) /\ (subState[r] # "pending" => result'[r] = result[r])
    /\ UNCHANGED <<status, active, children, transients, bufferVars, recorderVars, subMu, threadVars>>
ForgetsRecorder(g, r) ==
    /\ LastChild(g, <<"recorder", r>>) /\ recState[r] \in {"submitted", "aborted"}
    /\ UNCHANGED <<schedulerVars, status, active, children, transients, programVars, threadVars>>
EndsRecorder(g, r) ==
    /\ LastChild(g, <<"recorder", r>>) /\ recState[r] \in {"recording", "unknown"}
    /\ \A b \in Buffers : references'[b] = IF b \in recBuffers[r] THEN Less(references[b])
                                                               ELSE references[b]
    /\ recState'[r] \in {"submitted", "aborted"} /\ Only(recState, recState', Recorders, r)
    /\ recBuffers'[r] = {} /\ Only(recBuffers, recBuffers', Recorders, r)
    /\ Only(recUses, recUses', Recorders, r)
    /\ children' = Without(children, <<"recorder", r>>)
    /\ UNCHANGED <<schedulerVars, status, active, transients, bufMu, bufferClosed, trackingVars,
                   batch, threadVars>>
EndsBuffer(g, b) ==
    /\ LastChild(g, <<"buffer", b>>)
    /\ bufferClosed'[b] = TRUE /\ Only(bufferClosed, bufferClosed', Buffers, b)
    /\ UNCHANGED <<schedulerVars, status, active, children, transients, bufMu, references,
                   recorderVars, trackingVars, batch, threadVars>>

Completes(x) ==
    /\ batch[x] = "executing" /\ batch'[x] = "signaled" /\ Only(batch, batch', Batches, x)
    /\ UNCHANGED <<schedulerVars, deviceVars, bufferVars, recorderVars, trackingVars, threadVars>>

----------------------------------------------------------------------------
\* The parts of a call.
LEMMA OpFields ==
    ASSUME CallTypes, NEW g \in Goroutines
    PROVE  /\ op[g].kind = "transfer" => op[g].buf \in Buffers /\ op[g].acc \in {"read", "write"}
           /\ op[g].kind = "record" => op[g].buf \in Buffers /\ op[g].acc \in {"read", "write"}
           /\ op[g].kind = "closeBuffer" => op[g].buf \in Buffers
           /\ op[g].kind \in RecorderKinds \cup ObserverKinds =>
                 op[g].rec \in Recorders /\ op[g].recs \in RecorderLists
           /\ op[g].kind \in SubmitKinds \cup {"abort"} \cup ObserverKinds =>
                 op[g] = [kind |-> op[g].kind, rec |-> op[g].rec, recs |-> op[g].recs]
<1>1. op[g] \in Ops
  BY DEF CallTypes
<1>2. CASE op[g] = NoOp
  BY <1>2 DEF NoOp, RecorderKinds, SubmitKinds, ObserverKinds
<1>3. CASE op[g] \in TransferOps
  BY <1>3 DEF TransferOps, RecorderKinds, SubmitKinds, ObserverKinds
<1>4. CASE op[g] \in RecordOps
  BY <1>4 DEF RecordOps, RecorderKinds, SubmitKinds, ObserverKinds
<1>5. CASE op[g] \in RecorderOps
  BY <1>5 DEF RecorderOps, RecorderKinds, SubmitKinds, ObserverKinds
<1>6. CASE op[g] \in CloseOps
  BY <1>6 DEF CloseOps, RecorderKinds, SubmitKinds, ObserverKinds
<1>7. CASE op[g] = [kind |-> "closeDevice"]
  BY <1>7 DEF RecorderKinds, SubmitKinds, ObserverKinds
<1> QED BY <1>1, <1>2, <1>3, <1>4, <1>5, <1>6, <1>7 DEF Ops

\* The recorders given to Submit are a list without repetition, and not empty.
LEMMA SubmitLists ==
    \A s \in SubmitArguments :
        s \in RecorderLists /\ s # << >> /\ s[1] \in Recorders /\ s[1] \in Range(s)
<1> TAKE s \in SubmitArguments
<1>1. Cardinality(Recorders) \in Nat
  BY QueueAssumption, FS_CardinalityType
<1>2. PICK n \in 1..Cardinality(Recorders) : s \in [1..n -> Recorders] /\ IsInjective(s)
  BY DEF SubmitArguments, Injection
<1>3. n \in Nat /\ n > 0
  BY <1>1, <1>2
<1>4. s \in Seq(Recorders) /\ DOMAIN s = 1..n /\ 1 \in DOMAIN s
  BY <1>2, <1>3
<1>5. s # << >>
  BY <1>4
<1>6. s[1] \in Recorders /\ s[1] \in Range(s)
  BY <1>2, <1>4 DEF Range
<1> QED BY <1>2, <1>4, <1>5, <1>6 DEF RecorderLists

\* A call of the program, and the calls it may become.
LEMMA CallsAreOps ==
    \A call \in Calls :
        /\ call \in Ops /\ call # NoOp
        /\ call.kind \in RecorderKinds \cup ObserverKinds => call.recs # << >> /\ call.rec = call.recs[1]
        /\ call.kind \in SubmitKinds => call.recs \in SubmitArguments
<1> TAKE call \in Calls
<1> USE DEF Ops, NoOp, RecorderKinds, SubmitKinds, ObserverKinds
<1>1. \A r \in Recorders : << r >> \in RecorderLists /\ << r >> # << >> /\ << r >>[1] = r
  BY DEF RecorderLists, IsInjective
<1>2. CASE call \in TransferOps
  BY <1>2 DEF TransferOps
<1>3. ASSUME NEW r \in Recorders, NEW b \in Buffers, NEW a \in {"read", "write"},
             call = [kind |-> "record", rec |-> r, recs |-> <<r>>, buf |-> b, acc |-> a]
      PROVE  /\ call \in Ops /\ call # NoOp /\ call.recs # << >> /\ call.rec = call.recs[1]
             /\ call.kind = "record"
  BY <1>1, <1>3 DEF RecordOps
<1>4. ASSUME NEW recs \in SubmitArguments, call = RecorderCall("submit", recs)
      PROVE  /\ call \in Ops /\ call # NoOp /\ call.recs # << >> /\ call.rec = call.recs[1]
             /\ call.recs \in SubmitArguments
  BY <1>4, SubmitLists DEF RecorderOps, RecorderCall
<1>5. ASSUME NEW kind \in {"submitAndWait", "abort"} \cup ObserverKinds, NEW r \in Recorders,
             call = RecorderCall(kind, <<r>>)
      PROVE  /\ call \in Ops /\ call # NoOp /\ call.recs # << >> /\ call.rec = call.recs[1]
             /\ call.recs = << r >> /\ call.kind # "record"
  BY <1>1, <1>5 DEF RecorderOps, RecorderCall
<1>6. \A r \in Recorders : << r >> \in SubmitArguments
  <2> TAKE r \in Recorders
  <2>1. Recorders # {} /\ Cardinality(Recorders) \in Nat
    BY QueueAssumption, FS_CardinalityType
  <2>2. Cardinality(Recorders) # 0
    BY <2>1, QueueAssumption, FS_EmptySet
  <2>3. 1 \in 1..Cardinality(Recorders)
    BY <2>1, <2>2
  <2>4. << r >> \in Injection(1..1, Recorders)
    BY DEF Injection, IsInjective
  <2> QED BY <2>3, <2>4 DEF SubmitArguments
<1>7. CASE call \in CloseOps
  BY <1>7 DEF CloseOps
<1>8. CASE call = [kind |-> "closeDevice"]
  BY <1>8
<1> QED BY <1>2, <1>3, <1>4, <1>5, <1>6, <1>7, <1>8 DEF Calls, TransferOps, CloseOps, RecorderCall

----------------------------------------------------------------------------
\* What the monitor does, without its queue.
LEMMA ReleaseFrees ==
    ASSUME SchedulerInv, NEW x \in Batches
    PROVE  /\ S!Release(x) => Frees(x)
           /\ S!MarkUnknown(x) => x \in activeSubmissions /\ Keeps
<1> USE DEF SchedulerInv, S!TypeOK, S!CallerStates
<1>1. caller' = S!Broadcast(caller) => SameWaiting
  BY DEF S!Broadcast, SameWaiting, Waits
<1>2. S!Release(x) => Frees(x)
  BY <1>1 DEF S!Release, Frees, Only
<1>3. S!MarkUnknown(x) => x \in activeSubmissions /\ Keeps
  BY <1>1 DEF S!MarkUnknown, Keeps
<1> QED BY <1>2, <1>3

\* The batch of a call that goes to the queue is one the monitor knows.
LEMMA BatchIsBatch ==
    ASSUME CallTypes, NEW g \in Goroutines, op[g].kind \in QueueKinds
    PROVE  Batch(g) \in Batches
BY OpFields DEF Batch, Batches, QueueKinds, RecorderKinds

\* The types of the monitor's variables.
LEMMA SchedulerTypes ==
    SchedulerInv => /\ activeSubmissions \subseteq Batches
                    /\ resources \in [Batches -> S!Resources]
                    /\ caller \in [Batches -> {"outside", "asleep", "woken"}]
BY DEF SchedulerInv, S!TypeOK, S!CallerStates

\* Goto moves one goroutine, inside its call.
LEMMA Moving ==
    ASSUME CallTypes, NEW g \in Goroutines, NEW label, Goto(g, label)
    PROVE  pc'[g] = label /\ op'[g] = op[g] /\ Stay(g)
BY DEF Goto, CallTypes, Stay

\* Return ends the call of one goroutine.
LEMMA Leaving ==
    ASSUME CallTypes, NEW g \in Goroutines, Return(g)
    PROVE  pc'[g] = "idle" /\ op'[g] = NoOp /\ Stay(g)
BY DEF Return, CallTypes, Stay

\* Drop gives back the reference of a transfer, and no other.
LEMMA DropDrops ==
    ASSUME CallTypes, BufferTypes, NEW g \in Goroutines, Drop(g)
    PROVE  Drops(g)
BY OpFields DEF Drop, Drops, Only, BufferTypes

\* A call that is refused has no effect but to return.
LEMMA RejectedReturns ==
    ASSUME Types, NEW g \in Goroutines, pc[g] \in {"call", "awaitClose"}, Rejected(g)
    PROVE  Returns(g)
BY Leaving DEF Rejected, Returns, Types, schedulerVars, deviceVars, bufferVars, recorderVars, trackingVars, quietVars, programVars

\* What the first steps of a call do, and its last (BeginTransfer to BeginObserve,
\* CloseBuffer, End).
LEMMA EffectsOfCalls ==
    ASSUME Types, SchedulerInv, NEW g \in Goroutines
    PROVE  /\ \A call \in Calls : Call(g, call) => StartsCall(g, call)
           /\ BeginTransfer(g) => Returns(g) \/ LocksBuffer(g)
           /\ RecordTransfer(g) => Returns(g) \/ Records(g)
           /\ BeginRecorderCall(g) => Returns(g) \/ TakesRecorders(g)
           /\ BeginObserve(g) => Returns(g) \/ LocksSubmission(g)
           /\ CloseBuffer(g) => Returns(g) \/ ClosesBuffer(g)
           /\ End(g) => EndsCall(g)
<1> USE DEF schedulerVars, deviceVars, bufferVars, recorderVars, trackingVars, threadVars, quietVars, programVars
<1>0. CallTypes
  BY DEF Types
<1>1. ASSUME NEW call \in Calls, Call(g, call) PROVE StartsCall(g, call)
  BY <1>0, <1>1 DEF Call, StartsCall, CallTypes, Stay
<1>2. ASSUME BeginTransfer(g) PROVE Returns(g) \/ LocksBuffer(g)
  <2>1. pc[g] = "call" /\ op[g].kind \in {"transfer"} /\ op[g].buf \in Buffers
    BY <1>0, <1>2, OpFields DEF BeginTransfer, At
  <2>2. CASE Rejected(g)
    BY <2>1, <2>2, RejectedReturns
  <2>3. CASE ~Rejected(g)
    <3>1. /\ ~bufferClosed[op[g].buf] /\ bufMu[op[g].buf] = NoOne /\ BeginOperation
          /\ bufMu' = [bufMu EXCEPT ![op[g].buf] = g]
          /\ Goto(g, "acquire") \/ Goto(g, "end")
          /\ UNCHANGED <<schedulerVars, status, children, transients, closeList, references,
                         bufferClosed, recorderVars, trackingVars, batch>>
      BY <1>2, <2>3 DEF BeginTransfer
    <3>2. Moves(g, {"call"}, {"transfer"}, {"acquire", "end"})
      BY <1>0, <2>1, <3>1, Moving DEF Moves
    <3>3. bufMu'[op[g].buf] = g /\ Only(bufMu, bufMu', Buffers, op[g].buf)
      BY <2>1, <3>1 DEF Types, BufferTypes, Only
    <3> QED BY <3>1, <3>2, <3>3 DEF LocksBuffer, BeginOperation
  <2> QED BY <2>2, <2>3
<1>3. ASSUME RecordTransfer(g) PROVE Returns(g) \/ Records(g)
  <2>1. op[g].rec \in Recorders /\ op[g].buf \in Buffers
    BY <1>0, <1>3, OpFields DEF RecordTransfer, At, RecorderKinds
  <2>2. CASE Rejected(g)
    BY <1>3, <2>2, RejectedReturns DEF RecordTransfer, At
  <2>3. CASE ~Rejected(g)
    <3>1. S!AddAccess(recUses[op[g].rec], op[g].buf, op[g].acc) \in [Buffers -> {"none", "read", "write"}]
      BY <1>0, <1>3, <2>1, OpFields DEF Types, RecorderTypes, S!AddAccess, S!Resources, S!Access, RecordTransfer, At
    <3>2. Only(recUses[op[g].rec], S!AddAccess(recUses[op[g].rec], op[g].buf, op[g].acc), Buffers, op[g].buf)
      BY <2>1 DEF Types, RecorderTypes, S!AddAccess, S!Resources, Only
    <3>3. Leaves(g, {"call"}, {"record"})
      BY <1>0, <1>3, <2>3, Leaving DEF RecordTransfer, At, Leaves
    <3> QED BY <1>3, <2>1, <2>3, <3>2, <3>3 DEF RecordTransfer, Records, Types, RecorderTypes, BufferTypes, Only
  <2> QED BY <2>2, <2>3
<1>4. ASSUME BeginRecorderCall(g) PROVE Returns(g) \/ TakesRecorders(g)
  BY <1>0, <1>4, RejectedReturns, Moving DEF BeginRecorderCall, TakesRecorders, At, Moves, BeginOperation, RecsOf
<1>5. ASSUME BeginObserve(g) PROVE Returns(g) \/ LocksSubmission(g)
  <2>1. op[g].rec \in Recorders /\ op[g] = [kind |-> op[g].kind, rec |-> op[g].rec, recs |-> op[g].recs]
    BY <1>0, <1>5, OpFields DEF BeginObserve, At
  <2>2. CASE Rejected(g)
    BY <1>5, <2>2, RejectedReturns DEF BeginObserve, At
  <2>3. CASE ~Rejected(g)
    <3>1. op'[g] = [op[g] EXCEPT !.recs = subRecorders[op[g].rec]]
      BY <1>0, <1>5, <2>3 DEF BeginObserve, CallTypes
    <3>2. op'[g].kind = op[g].kind /\ op'[g].rec = op[g].rec /\ op'[g].recs = subRecorders[op[g].rec]
      BY <2>1, <3>1
    <3>3. pc'[g] = "waitFence" /\ Stay(g)
      BY <1>0, <1>5, <2>3 DEF BeginObserve, CallTypes, Stay
    <3> QED BY <1>5, <2>1, <2>3, <3>2, <3>3 DEF BeginObserve, LocksSubmission, At, BeginOperation, Types, TrackingTypes, Only
  <2> QED BY <2>2, <2>3
<1>6. ASSUME CloseBuffer(g) PROVE Returns(g) \/ ClosesBuffer(g)
  BY <1>0, <1>6, RejectedReturns, Leaving, OpFields DEF CloseBuffer, ClosesBuffer, At, Leaves, Types, BufferTypes, Only
<1>7. ASSUME End(g) PROVE EndsCall(g)
  <2>1. CASE op[g].kind = "submitAndWait" /\ subState[op[g].rec] = "pending"
    <3>1. op[g] = [kind |-> op[g].kind, rec |-> op[g].rec, recs |-> op[g].recs]
      BY <1>0, <2>1, OpFields DEF SubmitKinds
    <3>2. op'[g] = [op[g] EXCEPT !.kind = "wait"] /\ pc'[g] = "call" /\ Stay(g)
      BY <1>0, <1>7, <2>1 DEF End, CallTypes, Stay
    <3>3. op'[g].kind = "wait" /\ op'[g].rec = op[g].rec /\ op'[g].recs = op[g].recs
      BY <3>1, <3>2
    <3> QED BY <1>0, <1>7, <2>1, <3>2, <3>3, OpFields DEF End, EndsCall, EndOperation, Types, BufferTypes, TrackingTypes, Only, ObserverKinds
  <2>2. CASE ~(op[g].kind = "submitAndWait" /\ subState[op[g].rec] = "pending")
    <3>1. pc'[g] = "idle" /\ op'[g] = NoOp /\ Stay(g)
      BY <1>0, <1>7, <2>2, Leaving DEF End
    <3> QED BY <1>0, <1>7, <3>1, OpFields DEF End, EndsCall, EndOperation, Types, BufferTypes, TrackingTypes, Only, ObserverKinds
  <2> QED BY <2>1, <2>2
<1> QED BY <1>1, <1>2, <1>3, <1>4, <1>5, <1>6, <1>7

----------------------------------------------------------------------------
\* What the steps through acquireSubmission, submitQueue and the fence wait do.
LEMMA EffectsOfSubmissions ==
    ASSUME Types, CallsFit, SchedulerInv, NEW g \in Goroutines
    PROVE  /\ AcquireReservation(g) => IsRefused(g) \/ Reserves(g)
           /\ ReacquireReservation(g) => IsGranted(g) \/ SleepsOn(g) \/ Withdraws(g)
           /\ QueueSubmit(g) => PutsOnQueue(g) \/ FailsToSubmit(g)
           /\ FinishTransfer(g) => EndsTransfer(g) \/ LosesTransfer(g)
           /\ TrackSubmission(g) => Tracks(g) \/ RetainsBatch(g)
           /\ ObserveFence(g) => SeesCompletion(g) \/ LosesSubmission(g) \/ PollsInVain(g)
<1> USE DEF schedulerVars, deviceVars, bufferVars, recorderVars, trackingVars, threadVars, quietVars, programVars
<1>0. CallTypes /\ BufferTypes
  BY DEF Types
<1>a. ASSUME Unwind(g)
      PROVE  pc'[g] = Unwound(g) /\ op'[g] = op[g] /\ Stay(g)
  BY <1>0, <1>a, Moving DEF Unwind, Unwound
<1>b. \A x \in Batches : caller[x] # "outside" => x \notin activeSubmissions
  BY DEF SchedulerInv, S!QueueMatchesCallers, S!Waiting
<1>1. ASSUME AcquireReservation(g) PROVE IsRefused(g) \/ Reserves(g)
  <2>1. Batch(g) \in Batches
    BY <1>0, <1>1, BatchIsBatch DEF AcquireReservation, At
  <2>2. CASE S!Refuse(Batch(g)) /\ Unwind(g) /\ UNCHANGED references
    BY <1>1, <1>a, <2>2 DEF AcquireReservation, At, IsRefused, Moves, S!Refuse, S!schedulerVars
  <2>3. CASE S!Acquire(Batch(g), Uses(g)) /\ Retain(g)
             /\ Goto(g, IF Batch(g) \in activeSubmissions' THEN "queueSubmit" ELSE "parked")
    <3>1. PICK x \in Batches : x = Batch(g)
      BY <2>1
    <3>2. /\ ~Waits(caller, x) /\ x \notin activeSubmissions
          /\ resources'[x] = Uses(g) /\ Only(resources, resources', Batches, x)
          /\ \A y \in Batches : y # x => (Waits(caller', y) <=> Waits(caller, y))
      BY <2>3, <3>1, SchedulerTypes DEF S!Acquire, S!Activate, S!Park, Only, Waits
    <3>3. \/ activeSubmissions' = activeSubmissions \cup {x} /\ ~Waits(caller', x)
          \/ activeSubmissions' = activeSubmissions /\ Waits(caller', x)
      BY <2>3, <3>1, SchedulerTypes DEF S!Acquire, S!Activate, S!Park, Waits
    <3>4. /\ op[g].kind = "transfer" =>
                references'[op[g].buf] = references[op[g].buf] + 1 /\ Only(references, references', Buffers, op[g].buf)
          /\ op[g].kind # "transfer" => references' = references
      BY <1>0, <2>3, OpFields DEF Retain, BufferTypes, Only
    <3>5. /\ pc'[g] = IF x \in activeSubmissions' THEN "queueSubmit" ELSE "parked"
          /\ op'[g] = op[g] /\ Stay(g)
      BY <1>0, <2>3, <3>1, Moving
    <3> QED BY <1>1, <3>1, <3>2, <3>3, <3>4, <3>5 DEF AcquireReservation, At, Reserves, Moves
  <2> QED BY <1>1, <2>2, <2>3 DEF AcquireReservation
<1>2. ASSUME ReacquireReservation(g) PROVE IsGranted(g) \/ SleepsOn(g) \/ Withdraws(g)
  <2>1. PICK x \in Batches : x = Batch(g)
    BY <1>0, <1>2, BatchIsBatch DEF ReacquireReservation, At
  <2>2. x \notin activeSubmissions /\ caller[x] = "woken" /\ S!Reacquire(x)
    BY <1>2, <1>b, <2>1 DEF ReacquireReservation, S!Reacquire
  <2>3. pc[g] = "parked" /\ op[g].kind \in QueueKinds
        /\ UNCHANGED <<deviceVars, bufMu, bufferClosed, recorderVars, trackingVars, batch>>
    BY <1>2 DEF ReacquireReservation, At
  <2>4. CASE x \in activeSubmissions' /\ Goto(g, "queueSubmit") /\ UNCHANGED references
    <3>1. S!Activate(x, pendingSubmissions, resources) /\ UNCHANGED resources
      BY <2>2, <2>4 DEF S!Reacquire, S!Park, S!Withdraw
    <3>2. /\ activeSubmissions' = activeSubmissions \cup {x}
          /\ ~Waits(caller', x) /\ \A y \in Batches : y # x => (Waits(caller', y) <=> Waits(caller, y))
      BY <3>1, SchedulerTypes DEF S!Activate, Waits
    <3>3. pc'[g] = "queueSubmit" /\ op'[g] = op[g] /\ Stay(g)
      BY <1>0, <2>4, Moving
    <3> QED BY <2>1, <2>2, <2>3, <2>4, <3>1, <3>2, <3>3 DEF IsGranted, Moves
  <2>5. CASE caller'[x] = "asleep" /\ UNCHANGED <<threadVars, references>>
    <3>1. S!Park(x, pendingSubmissions, resources) /\ UNCHANGED <<resources, submissionErr>>
      BY <2>2, <2>5, SchedulerTypes DEF S!Reacquire, S!Activate, S!Withdraw, S!Broadcast
    <3>2. SameWaiting /\ UNCHANGED <<pendingSubmissions, activeSubmissions>>
      BY <2>2, <3>1, SchedulerTypes DEF S!Park, SameWaiting, Waits
    <3> QED BY <2>3, <2>5, <3>1, <3>2 DEF SleepsOn
  <2>6. CASE submissionErr /\ Drop(g) /\ Unwind(g)
    <3>1. S!Withdraw(x)
      BY <2>2, <2>6 DEF S!Reacquire
    <3>2. /\ UNCHANGED activeSubmissions /\ Only(resources, resources', Batches, x)
          /\ ~Waits(caller', x) /\ \A y \in Batches : y # x => (Waits(caller', y) <=> Waits(caller, y))
      BY <3>1, SchedulerTypes DEF S!Withdraw, S!Broadcast, Waits, Only
    <3> QED BY <1>0, <1>a, <2>1, <2>2, <2>3, <2>6, <3>2, DropDrops DEF Withdraws, Moves
  <2> QED BY <1>2, <2>1, <2>4, <2>5, <2>6 DEF ReacquireReservation
<1>3. ASSUME QueueSubmit(g) PROVE PutsOnQueue(g) \/ FailsToSubmit(g)
  <2>1. PICK x \in Batches : x = Batch(g)
    BY <1>0, <1>3, BatchIsBatch DEF QueueSubmit, At
  <2>2. pc[g] = "queueSubmit" /\ op[g].kind \in QueueKinds
        /\ UNCHANGED <<deviceVars, bufMu, bufferClosed, recBuffers, recUses, trackingVars>>
    BY <1>3 DEF QueueSubmit, At
  <2>3. CASE S!Release(Batch(g))
    <3>1. Frees(Batch(g))
      BY <2>1, <2>3, ReleaseFrees
    <3>2. ~UNCHANGED schedulerVars
      BY <2>3 DEF S!Release
    <3>3. Drop(g) /\ Unwind(g) /\ UNCHANGED <<batch, recState>>
      BY <1>3, <3>2 DEF QueueSubmit
    <3> QED BY <1>0, <1>a, <2>2, <3>1, <3>3, DropDrops DEF FailsToSubmit, Moves
  <2>4. CASE ~S!Release(Batch(g))
    <3>1. batch'[x] = "executing" /\ Only(batch, batch', Batches, x) /\ UNCHANGED <<schedulerVars, references>>
      BY <1>3, <2>1, <2>4 DEF QueueSubmit, Types, TrackingTypes, Only
    <3>2. /\ pc'[g] = IF op[g].kind = "transfer" THEN "waitFence" ELSE "track"
          /\ op'[g] = op[g] /\ Stay(g)
      BY <1>0, <1>3, <2>4, Moving DEF QueueSubmit
    <3>3. IF op[g].kind = "transfer" THEN recState' = recState
          ELSE \A r \in Recorders : recState'[r] = IF r \in RecsOf(g) THEN "unknown" ELSE recState[r]
      BY <1>3, <2>4 DEF QueueSubmit, RecsOf
    <3> QED BY <2>1, <2>2, <3>1, <3>2, <3>3 DEF PutsOnQueue, Moves
  <2> QED BY <2>3, <2>4
<1>4. ASSUME FinishTransfer(g) PROVE EndsTransfer(g) \/ LosesTransfer(g)
  <2>1. g \in Batches
    BY DEF Batches
  <2>2. pc[g] = "waitFence" /\ op[g].kind = "transfer" /\ pc'[g] = "end" /\ op'[g] = op[g] /\ Stay(g)
        /\ UNCHANGED <<status, active, children, closeList, bufMu, bufferClosed, recorderVars, trackingVars>>
    BY <1>0, <1>4, Moving DEF FinishTransfer, At
  <2>3. CASE batch[g] = "signaled" /\ batch' = [batch EXCEPT ![g] = "none"] /\ S!Release(g) /\ Drop(g)
             /\ UNCHANGED transients
    BY <1>0, <2>1, <2>2, <2>3, ReleaseFrees, DropDrops DEF EndsTransfer, Moves, Only, Types, TrackingTypes
  <2>4. CASE RetainUnknown(g, op[g].buf) /\ UNCHANGED <<batch, references>>
    BY <2>1, <2>2, <2>4, ReleaseFrees DEF LosesTransfer, Moves, RetainUnknown
  <2> QED BY <1>4, <2>3, <2>4 DEF FinishTransfer
<1>5. ASSUME TrackSubmission(g) PROVE Tracks(g) \/ RetainsBatch(g)
  <2>1. op[g].rec \in Recorders /\ op[g].rec \in Batches
    BY <1>0, <1>5, OpFields DEF TrackSubmission, At, RecorderKinds, Batches
  <2>2. pc[g] = "track" /\ op[g].kind \in SubmitKinds /\ pc'[g] = "end" /\ op'[g] = op[g] /\ Stay(g)
        /\ UNCHANGED <<status, active, closeList, bufferVars, recorderVars, subMu, result, batch>>
    BY <1>0, <1>5, Moving DEF TrackSubmission, At
  <2> QED BY <1>5, <2>1, <2>2, ReleaseFrees DEF TrackSubmission, Tracks, RetainsBatch, Moves, RetainUnknown,
        Only, Types, TrackingTypes
<1>6. ASSUME ObserveFence(g) PROVE SeesCompletion(g) \/ LosesSubmission(g) \/ PollsInVain(g)
  <2>1. op[g].rec \in Recorders /\ op[g].rec \in Batches
    BY <1>0, <1>6, OpFields DEF ObserveFence, At, Batches
  <2>2. pc[g] = "waitFence" /\ op[g].kind \in ObserverKinds
        /\ UNCHANGED <<deviceVars, bufferVars, recorderVars, subRecorders, subMu, batch>>
    BY <1>6 DEF ObserveFence, At
  <2>3. CASE batch[op[g].rec] = "signaled" /\ GiveUpReservation(op[g].rec) /\ Goto(g, "releasing")
             /\ (\E answer : result' = [result EXCEPT ![op[g].rec] = answer]) /\ UNCHANGED subState
    BY <1>0, <2>1, <2>2, <2>3, ReleaseFrees, Moving DEF SeesCompletion, Moves, Only, Types, TrackingTypes, GiveUpReservation
  <2>4. CASE /\ S!MarkUnknown(op[g].rec)
             /\ subState' = [subState EXCEPT ![op[g].rec] = "unknown"]
             /\ result' = [result EXCEPT ![op[g].rec] = "lost"]
             /\ Goto(g, "end")
    BY <1>0, <2>1, <2>2, <2>4, ReleaseFrees, Moving DEF LosesSubmission, Moves, Only, Types, TrackingTypes
  <2>5. CASE Goto(g, "end") /\ UNCHANGED <<schedulerVars, subState, result>>
    BY <1>0, <2>2, <2>5, Moving DEF PollsInVain, Moves
  <2> QED BY <1>6, <2>3, <2>4, <2>5 DEF ObserveFence
<1> QED BY <1>1, <1>2, <1>3, <1>4, <1>5, <1>6

----------------------------------------------------------------------------
\* What Recorder.finish does, reference by reference and recorder by recorder.
LEMMA EffectsOfFinishing ==
    ASSUME Types, NEW g \in Goroutines
    PROVE  /\ ReleaseReference(g) => \E b \in Buffers : DropsReference(g, b)
           /\ FinishRecorder(g) => Finishes(g)
           /\ FinishBatch(g) => FinishesSubmission(g) \/ FinishesCall(g)
<1> USE DEF schedulerVars, deviceVars, bufferVars, recorderVars, trackingVars, threadVars, quietVars, programVars
<1>0. CallTypes
  BY DEF Types
<1>a. ASSUME At(g, "releasing", SubmitKinds \cup ObserverKinds \cup {"abort"})
      PROVE  /\ pc[g] = "releasing" /\ op[g].kind \in SubmitKinds \cup ObserverKinds \cup {"abort"}
             /\ op[g].rec \in Recorders /\ op[g].rec \in Batches
             /\ op[g].recs # << >> => op[g].recs[1] \in Recorders
             /\ op[g] = [kind |-> op[g].kind, rec |-> op[g].rec, recs |-> op[g].recs]
  <2>1. pc[g] = "releasing" /\ op[g].kind \in SubmitKinds \cup ObserverKinds \cup {"abort"}
    BY <1>a DEF At
  <2>2. /\ op[g].rec \in Recorders /\ op[g].recs \in Seq(Recorders)
        /\ op[g] = [kind |-> op[g].kind, rec |-> op[g].rec, recs |-> op[g].recs]
    BY <1>0, <2>1, OpFields DEF RecorderKinds, RecorderLists
  <2> QED BY <2>1, <2>2 DEF Batches
<1>1. ASSUME ReleaseReference(g) PROVE \E b \in Buffers : DropsReference(g, b)
  <2>1. PICK b \in recBuffers[op[g].recs[1]] :
          /\ references' = [references EXCEPT ![b] = Less(@)]
          /\ recBuffers' = [recBuffers EXCEPT ![op[g].recs[1]] = @ \ {b}]
    BY <1>1 DEF ReleaseReference
  <2>2. op[g].recs[1] \in Recorders /\ op[g].recs # << >>
    BY <1>1, <1>a DEF ReleaseReference
  <2>3. b \in Buffers
    BY <2>1, <2>2 DEF Types, RecorderTypes
  <2>4. DropsReference(g, b)
    BY <1>1, <1>a, <2>1, <2>2, <2>3 DEF ReleaseReference, DropsReference, Types, BufferTypes, RecorderTypes, Only
  <2> QED BY <2>3, <2>4
<1>2. ASSUME FinishRecorder(g) PROVE Finishes(g)
  <2>1. op[g].recs[1] \in Recorders /\ op[g].recs # << >>
    BY <1>2, <1>a DEF FinishRecorder
  <2>2. op'[g] = [op[g] EXCEPT !.recs = Tail(op[g].recs)] /\ Stay(g) /\ pc'[g] = pc[g]
    BY <1>0, <1>2 DEF FinishRecorder, CallTypes, Stay
  <2>3. op'[g].kind = op[g].kind /\ op'[g].rec = op[g].rec /\ op'[g].recs = Tail(op[g].recs)
    BY <1>2, <1>a, <2>2 DEF FinishRecorder
  <2> QED BY <1>2, <1>a, <2>1, <2>2, <2>3 DEF FinishRecorder, Finishes, Types, RecorderTypes, Only
<1>3. ASSUME FinishBatch(g) PROVE FinishesSubmission(g) \/ FinishesCall(g)
  <2>1. pc'[g] = "end" /\ op'[g] = op[g] /\ Stay(g)
    BY <1>0, <1>3, Moving DEF FinishBatch
  <2>2. CASE op[g].kind \in ObserverKinds
    BY <1>3, <1>a, <2>1, <2>2 DEF FinishBatch, FinishesSubmission, Moves, Types, TrackingTypes, Only
  <2>3. CASE op[g].kind \notin ObserverKinds
    BY <1>3, <1>a, <2>1, <2>3 DEF FinishBatch, FinishesCall, Moves
  <2> QED BY <2>2, <2>3
<1> QED BY <1>1, <1>2, <1>3

\* What the steps of Device.Close do.
LEMMA EffectsOfClose ==
    ASSUME Types, CallsFit, SchedulerInv, NEW g \in Goroutines
    PROVE  /\ StartClose(g) => Returns(g) \/ BeginsClose(g)
           /\ AwaitClose(g) => Returns(g)
           /\ DrainOperations(g) => Drains(g)
           /\ WaitIdle(g) \/ BeginChildren(g) => GoesOn(g)
           /\ FinishClose(g) => EndsClose(g)
           /\ CleanupTransient(g) => \E t \in transients : CleansUp(g, t)
           /\ \A r \in Recorders : CloseSubmission(g, r) => ForgetsSubmission(g, r) \/ EndsSubmission(g, r)
           /\ \A r \in Recorders : CloseRecorder(g, r) => ForgetsRecorder(g, r) \/ EndsRecorder(g, r)
           /\ \A b \in Buffers : CloseBufferChild(g, b) => EndsBuffer(g, b)
<1> USE DEF schedulerVars, deviceVars, bufferVars, recorderVars, trackingVars, threadVars, quietVars, programVars
<1>0. CallTypes
  BY DEF Types
<1>a. pc[g] \in Closing \cup {"awaitClose"} => op[g].kind = "closeDevice"
  BY DEF CallsFit, CallFits
<1>1. ASSUME StartClose(g) PROVE Returns(g) \/ BeginsClose(g)
  BY <1>0, <1>1, RejectedReturns, Moving DEF StartClose, BeginsClose, Moves, At
<1>2. ASSUME AwaitClose(g) PROVE Returns(g)
  BY <1>2, RejectedReturns DEF AwaitClose
<1>3. ASSUME DrainOperations(g) PROVE Drains(g)
  BY <1>0, <1>3, <1>a, Moving DEF DrainOperations, Drains, Moves, Closing
<1>4. ASSUME WaitIdle(g) \/ BeginChildren(g) PROVE GoesOn(g)
  BY <1>0, <1>4, <1>a, Moving DEF WaitIdle, BeginChildren, GoesOn, Moves, Closing
<1>5. ASSUME FinishClose(g) PROVE EndsClose(g)
  BY <1>0, <1>5, <1>a, Leaving DEF FinishClose, EndsClose, Leaves, Closing
<1>6. ASSUME CleanupTransient(g) PROVE \E t \in transients : CleansUp(g, t)
  <2>1. PICK t \in transients :
          /\ transients' = transients \ {t}
          /\ batch' = [batch EXCEPT ![t[1]] = "none"]
          /\ S!Release(t[1])
          /\ references' = [b \in Buffers |-> IF b = t[2] THEN Less(references[b]) ELSE references[b]]
    BY <1>6 DEF CleanupTransient
  <2>2. t[1] \in Batches
    BY DEF Types, DeviceTypes
  <2>3. CleansUp(g, t)
    BY <1>6, <2>1, <2>2, ReleaseFrees DEF CleanupTransient, CleansUp, Types, BufferTypes, TrackingTypes, Only
  <2> QED BY <2>3
<1>7. ASSUME NEW r \in Recorders, CloseSubmission(g, r)
      PROVE  ForgetsSubmission(g, r) \/ EndsSubmission(g, r)
  <2>1. r \in Batches
    BY DEF Batches
  <2>2. /\ LastChild(g, <<"submission", r>>)
        /\ UNCHANGED <<children, bufferVars, recorderVars, status, active, transients, subMu, threadVars>>
    BY <1>7 DEF CloseSubmission, CloseChild, LastChild
  <2>3. CASE subState[r] = "done" /\ UNCHANGED <<schedulerVars, subState, subRecorders, result, batch>>
    BY <2>2, <2>3 DEF ForgetsSubmission
  <2>4. CASE subState[r] # "done" /\ S!Release(r)
    <3>1. subState[r] # "pending" => ResultOnClose(r) = result[r]
      BY DEF ResultOnClose
    <3> QED BY <1>7, <2>1, <2>2, <2>4, <3>1, ReleaseFrees DEF CloseSubmission, EndsSubmission, Types, TrackingTypes, Only
  <2> QED BY <1>7, <2>3, <2>4 DEF CloseSubmission
<1>8. ASSUME NEW r \in Recorders, CloseRecorder(g, r)
      PROVE  ForgetsRecorder(g, r) \/ EndsRecorder(g, r)
  <2>1. /\ LastChild(g, <<"recorder", r>>)
        /\ UNCHANGED <<schedulerVars, status, active, transients, bufMu, bufferClosed, trackingVars, batch, threadVars>>
    BY <1>8 DEF CloseRecorder, CloseChild, LastChild
  <2>2. CASE recState[r] \in {"submitted", "aborted"}
    BY <1>8, <2>1, <2>2 DEF CloseRecorder, ForgetsRecorder
  <2>3. CASE recState[r] \in {"recording", "unknown"}
    BY <1>8, <2>1, <2>3 DEF CloseRecorder, EndsRecorder, Types, RecorderTypes, Only
  <2> QED BY <1>8, <2>2, <2>3 DEF CloseRecorder
<1>9. ASSUME NEW b \in Buffers, CloseBufferChild(g, b) PROVE EndsBuffer(g, b)
  BY <1>9 DEF CloseBufferChild, CloseChild, LastChild, EndsBuffer, Types, BufferTypes, Only
<1> QED BY <1>1, <1>2, <1>3, <1>4, <1>5, <1>6, <1>7, <1>8, <1>9

\* What the device does when a batch completes.
LEMMA CompletionCompletes ==
    ASSUME Types, NEW x \in Batches, GpuComplete(x)
    PROVE  Completes(x)
BY DEF GpuComplete, Completes, Types, TrackingTypes, Only

\* Every step has one of these effects.
GoroutineMoves(g) ==
    \/ \E call \in Calls : StartsCall(g, call)
    \/ Returns(g) \/ BeginsClose(g) \/ Drains(g) \/ GoesOn(g) \/ EndsClose(g)
    \/ LocksBuffer(g) \/ Records(g) \/ TakesRecorders(g)
    \/ IsRefused(g) \/ Reserves(g) \/ IsGranted(g) \/ SleepsOn(g) \/ Withdraws(g)
    \/ PutsOnQueue(g) \/ FailsToSubmit(g) \/ EndsTransfer(g) \/ LosesTransfer(g)
    \/ Tracks(g) \/ RetainsBatch(g)
    \/ LocksSubmission(g) \/ SeesCompletion(g) \/ LosesSubmission(g) \/ PollsInVain(g)
    \/ (\E b \in Buffers : DropsReference(g, b)) \/ Finishes(g) \/ FinishesSubmission(g) \/ FinishesCall(g)
    \/ EndsCall(g) \/ ClosesBuffer(g) \/ \E t \in transients : CleansUp(g, t)
    \/ \E r \in Recorders : ForgetsSubmission(g, r) \/ EndsSubmission(g, r)
    \/ \E r \in Recorders : ForgetsRecorder(g, r) \/ EndsRecorder(g, r)
    \/ \E b \in Buffers : EndsBuffer(g, b)

Moved == UNCHANGED vars \/ (\E g \in Goroutines : GoroutineMoves(g)) \/ \E x \in Batches : Completes(x)

\* No step has another effect.
LEMMA EveryStepMoves ==
    ASSUME Types, CallsFit, SchedulerInv, [Next]_vars
    PROVE  Moved
<1>1. ASSUME NEW g \in Goroutines, Step(g) \/ \E call \in Calls : Call(g, call)
      PROVE  GoroutineMoves(g)
  BY <1>1, EffectsOfCalls, EffectsOfSubmissions, EffectsOfFinishing, EffectsOfClose DEF Step, GoroutineMoves
<1>2. ASSUME NEW x \in Batches, GpuComplete(x)
      PROVE  Completes(x)
  BY <1>2, CompletionCompletes
<1> QED BY <1>1, <1>2 DEF Next, Moved

----------------------------------------------------------------------------
\* The accesses of a buffer that a batch is submitted with.
Requests == [Buffers -> {"none", "read", "write"}]

\* What a batch asks of the monitor is a use of buffers.
LEMMA UsesAreRequests ==
    ASSUME Types, NEW g \in Goroutines, op[g].kind \in QueueKinds
    PROVE  Uses(g) \in Requests
<1>1. CASE op[g].kind = "transfer"
  <2>1. op[g].buf \in Buffers /\ op[g].acc \in {"read", "write"}
    BY <1>1, OpFields DEF Types
  <2>2. Uses(g) = [S!NoBuffers EXCEPT ![op[g].buf] = op[g].acc]
    BY <1>1 DEF Uses
  <2> QED BY <2>1, <2>2 DEF S!NoBuffers, Requests
<1>2. CASE op[g].kind # "transfer"
  BY <1>2 DEF Uses, S!MergeUses, Requests
<1> QED BY <1>1, <1>2

\* The reservations change only as the monitor changes them.
LEMMA MonitorSteps ==
    ASSUME Types, CallsFit, [Next]_vars
    PROVE  [S!Next]_schedulerVars
<1>0. CASE UNCHANGED vars
  BY <1>0 DEF vars
<1>1. ASSUME NEW x \in Batches, GpuComplete(x) PROVE [S!Next]_schedulerVars
  BY <1>1 DEF GpuComplete
<1>2. ASSUME NEW g \in Goroutines, NEW call \in Calls, Call(g, call) PROVE [S!Next]_schedulerVars
  BY <1>2 DEF Call
<1>3. ASSUME NEW g \in Goroutines, Step(g) PROVE [S!Next]_schedulerVars
  <2>0. CallTypes
    BY DEF Types
  <2>a. \A x \in Batches : S!Release(x) \/ S!MarkUnknown(x) \/ S!Refuse(x) \/ S!Reacquire(x) => S!Next
    BY DEF S!Next
  <2>b. op[g].kind \in QueueKinds => Batch(g) \in Batches /\ Uses(g) \in Requests
    BY <2>0, BatchIsBatch, UsesAreRequests
  <2>c. g \in Batches /\ \A r \in Recorders : r \in Batches
    BY DEF Batches
  <2>1. CASE UNCHANGED schedulerVars
    BY <2>1
  <2>2. ASSUME AcquireReservation(g) PROVE S!Next
    BY <2>2, <2>a, <2>b DEF AcquireReservation, At, S!Next, Requests
  <2>3. ASSUME ReacquireReservation(g) PROVE S!Next
    BY <2>3, <2>a, <2>b DEF ReacquireReservation, At
  <2>4. ASSUME QueueSubmit(g) PROVE [S!Next]_schedulerVars
    BY <2>4, <2>a, <2>b DEF QueueSubmit, At
  <2>5. ASSUME FinishTransfer(g) PROVE S!Next
    BY <2>5, <2>a, <2>c DEF FinishTransfer, RetainUnknown
  <2>6. ASSUME TrackSubmission(g) PROVE [S!Next]_schedulerVars
    <3>1. op[g].rec \in Batches
      BY <2>6, <2>0, OpFields DEF TrackSubmission, At, RecorderKinds, Batches
    <3> QED BY <2>6, <2>a, <3>1 DEF TrackSubmission, RetainUnknown
  <2>7. ASSUME ObserveFence(g) PROVE [S!Next]_schedulerVars
    <3>1. op[g].rec \in Batches
      BY <2>7, <2>0, OpFields DEF ObserveFence, At, Batches
    <3> QED BY <2>7, <2>a, <3>1 DEF ObserveFence, GiveUpReservation
  <2>8. ASSUME CleanupTransient(g) PROVE S!Next
    <3>1. \A t \in transients : t[1] \in Batches
      BY DEF Types, DeviceTypes
    <3> QED BY <2>8, <2>a, <3>1 DEF CleanupTransient
  <2>9. ASSUME NEW r \in Recorders, CloseSubmission(g, r) PROVE [S!Next]_schedulerVars
    BY <2>9, <2>a, <2>c DEF CloseSubmission
  <2>10. ASSUME NEW r \in Recorders, CloseRecorder(g, r) PROVE UNCHANGED schedulerVars
    BY <2>10 DEF CloseRecorder
  <2>11. ASSUME NEW b \in Buffers, CloseBufferChild(g, b) PROVE UNCHANGED schedulerVars
    BY <2>11 DEF CloseBufferChild
  <2>12. ASSUME BeginTransfer(g) \/ RecordTransfer(g) \/ BeginRecorderCall(g) \/ BeginObserve(g)
                \/ ReleaseReference(g) \/ FinishRecorder(g) \/ FinishBatch(g) \/ End(g) \/ CloseBuffer(g)
         PROVE  UNCHANGED schedulerVars
    BY <2>12 DEF BeginTransfer, RecordTransfer, BeginRecorderCall, BeginObserve, ReleaseReference,
        FinishRecorder, FinishBatch, End, CloseBuffer, Rejected
  <2>13. ASSUME StartClose(g) \/ AwaitClose(g) \/ DrainOperations(g) \/ WaitIdle(g) \/ BeginChildren(g)
                \/ FinishClose(g)
         PROVE  UNCHANGED schedulerVars
    BY <2>13 DEF StartClose, AwaitClose, DrainOperations, WaitIdle, BeginChildren, FinishClose, Rejected
  <2> QED BY <1>3, <2>1, <2>2, <2>3, <2>4, <2>5, <2>6, <2>7, <2>8, <2>9, <2>10, <2>11, <2>12, <2>13 DEF Step
<1> QED BY <1>0, <1>1, <1>2, <1>3 DEF Next

----------------------------------------------------------------------------
\* The theorems about the monitor, for the reservations of the batches.
P == INSTANCE SubmissionScheduler_proofs WITH Reservations <- Batches, Requests <- Requests

\* The invariant of the monitor's proofs, for the instance the Device uses.
LEMMA SchedulerInvIsMonitorInv == SchedulerInv <=> P!MonitorInv
<1>1. S!TypeOK <=> P!TypeOK
  BY DEF S!TypeOK, P!TypeOK, S!Range, P!Range, S!IsInjective, P!IsInjective, S!CallerStates, P!CallerStates,
      S!Resources, P!Resources, S!Access, P!Access
<1>2. S!QueueMatchesCallers <=> P!QueueMatchesCallers
  BY DEF S!QueueMatchesCallers, P!QueueMatchesCallers, S!Range, P!Range, S!Waiting, P!Waiting
<1>3. S!ActiveCompatible <=> P!ActiveCompatible
  BY DEF S!ActiveCompatible, P!ActiveCompatible, S!Conflict, P!Conflict
<1>4. S!NoLostWakeup <=> P!NoLostWakeup
  BY DEF S!NoLostWakeup, P!NoLostWakeup, S!CanActivate, P!CanActivate, S!Ahead, P!Ahead, S!Range, P!Range, S!Conflict, P!Conflict
<1> QED BY <1>1, <1>2, <1>3, <1>4 DEF SchedulerInv, P!MonitorInv

\* Its steps, likewise.
LEMMA MonitorNext == [S!Next]_schedulerVars => [P!Next]_(P!schedulerVars)
<1> USE DEF schedulerVars, P!schedulerVars, S!schedulerVars
<1>1. ASSUME NEW x \in Batches, S!Release(x) PROVE P!Release(x)
  BY <1>1 DEF S!Release, P!Release, S!Broadcast, P!Broadcast, S!NoBuffers, P!NoBuffers
<1>2. ASSUME NEW x \in Batches, S!MarkUnknown(x) PROVE P!MarkUnknown(x)
  BY <1>2 DEF S!MarkUnknown, P!MarkUnknown, S!Broadcast, P!Broadcast
<1>3. ASSUME NEW x \in Batches, S!Refuse(x) PROVE P!Refuse(x)
  BY <1>3 DEF S!Refuse, P!Refuse
<1>4. \A x, queue, uses :
        /\ S!CanActivate(x, queue, uses) <=> P!CanActivate(x, queue, uses)
        /\ S!RemoveReservation(queue, x) = P!RemoveReservation(queue, x)
  BY DEF S!CanActivate, P!CanActivate, S!RemoveReservation, P!RemoveReservation, S!Ahead, P!Ahead, S!Range, P!Range, S!Conflict, P!Conflict
<1>5. \A x, queue, uses :
        /\ S!Activate(x, queue, uses) => P!Activate(x, queue, uses)
        /\ S!Park(x, queue, uses) => P!Park(x, queue, uses)
  BY <1>4 DEF S!Activate, P!Activate, S!Park, P!Park
<1>6. ASSUME NEW x \in Batches, S!Withdraw(x) PROVE P!Withdraw(x)
  BY <1>4, <1>6 DEF S!Withdraw, P!Withdraw, S!Broadcast, P!Broadcast, S!NoBuffers, P!NoBuffers
<1>7. ASSUME NEW x \in Batches, S!Reacquire(x) PROVE P!Reacquire(x)
  BY <1>5, <1>6, <1>7 DEF S!Reacquire, P!Reacquire
<1>8. ASSUME NEW x \in Batches, NEW want \in Requests, S!Acquire(x, want) PROVE P!Acquire(x, want)
  BY <1>5, <1>8 DEF S!Acquire, P!Acquire
<1> QED BY <1>1, <1>2, <1>3, <1>7, <1>8 DEF S!Next, P!Next, Requests

\* The Device uses the monitor as its proofs assume, so the monitor's invariant is
\* kept.
LEMMA SchedulerInvKept ==
    ASSUME Types, CallsFit, SchedulerInv, [Next]_vars
    PROVE  SchedulerInv'
<1>1. Requests \subseteq P!Resources
  BY DEF Requests, P!Resources, P!Access
<1>2. P!MonitorInv /\ [P!Next]_(P!schedulerVars)
  BY SchedulerInvIsMonitorInv, MonitorSteps, MonitorNext
<1>3. P!MonitorInv'
  BY <1>1, <1>2, P!MonitorStep
<1>4. SchedulerInv' <=> P!MonitorInv'
  BY ONLY SchedulerInvIsMonitorInv, PTL
<1> QED BY <1>3, <1>4

----------------------------------------------------------------------------
\* removeChild keeps the other children and their order.
LEMMA WithoutKeeps ==
    ASSUME NEW D, NEW list \in Seq(D), NEW child
    PROVE  /\ Without(list, child) \in Seq(D)
           /\ \A y \in Range(list) : y # child => y \in Range(Without(list, child))
           /\ SubmissionsLast(list) => SubmissionsLast(Without(list, child))
<1>1. CASE child \notin Range(list)
  BY <1>1 DEF Without
<1>2. CASE child \in Range(list)
  <2> DEFINE at == CHOOSE i \in DOMAIN list : list[i] = child
             old(i) == IF i < at THEN i ELSE i + 1
             rest == [i \in 1..(Len(list) - 1) |-> list[old(i)]]
  <2>1. at \in 1..Len(list) /\ list[at] = child
    BY <1>2 DEF Range
  <2>2. Without(list, child) = rest
    BY <1>2 DEF Without
  <2> HIDE DEF at
  <2>3. /\ Len(list) - 1 \in Nat
        /\ \A i \in 1..(Len(list) - 1) : old(i) \in 1..Len(list)
        /\ \A i, j \in 1..(Len(list) - 1) : old(j) < old(i) => j < i
    BY <2>1
  <2>4. \A k \in 1..Len(list) : k # at => \E i \in 1..(Len(list) - 1) : k = old(i)
    <3> SUFFICES ASSUME NEW k \in 1..Len(list), k # at
                 PROVE  \E i \in 1..(Len(list) - 1) : k = old(i)
      OBVIOUS
    <3>1. CASE k < at
      <4>1. k \in 1..(Len(list) - 1) /\ k = old(k)
        BY <2>1, <3>1
      <4> QED BY <4>1
    <3>2. CASE k > at
      <4>1. k - 1 \in 1..(Len(list) - 1) /\ k = old(k - 1)
        BY <2>1, <3>2
      <4> QED BY <4>1
    <3> QED BY <2>1, <3>1, <3>2
  <2> HIDE DEF old
  <2>5. \A i \in 1..Len(list) : list[i] \in D
    OBVIOUS
  <2>6. rest \in [1..(Len(list) - 1) -> D] /\ \A i \in 1..(Len(list) - 1) : rest[i] = list[old(i)]
    BY <2>3, <2>5
  <2>7. rest \in Seq(D) /\ DOMAIN rest = 1..(Len(list) - 1)
    BY <2>3, <2>6
  <2> HIDE DEF rest
  <2>8. ASSUME NEW y \in Range(list), y # child PROVE y \in Range(rest)
    <3>1. PICK k \in 1..Len(list) : list[k] = y
      BY DEF Range
    <3>2. PICK i \in 1..(Len(list) - 1) : k = old(i)
      BY <2>1, <2>4, <2>8, <3>1
    <3> QED BY <2>6, <2>7, <3>1, <3>2 DEF Range
  <2>9. SubmissionsLast(list) => SubmissionsLast(rest)
    <3>1. DOMAIN list = 1..Len(list)
      OBVIOUS
    <3> QED BY <2>3, <2>6, <2>7, <3>1 DEF SubmissionsLast
  <2> QED BY <2>2, <2>7, <2>8, <2>9
<1> QED BY <1>1, <1>2

\* The new Submission is the last child.
LEMMA AppendKeeps ==
    ASSUME NEW list \in Seq(Children), NEW r \in Recorders
    PROVE  LET longer == Append(list, <<"submission", r>>) IN
           /\ longer \in Seq(Children)
           /\ <<"submission", r>> \in Range(longer)
           /\ Range(list) \subseteq Range(longer)
           /\ SubmissionsLast(list) => SubmissionsLast(longer)
<1> DEFINE child == <<"submission", r>>
           longer == Append(list, child)
<1>1. child \in Children /\ child[1] = "submission"
  BY DEF Children
<1> HIDE DEF child
<1>2. /\ longer \in Seq(Children) /\ Len(list) \in Nat
      /\ DOMAIN longer = 1..(Len(list) + 1) /\ DOMAIN list = 1..Len(list)
      /\ longer[Len(list) + 1] = child
      /\ \A i \in 1..Len(list) : longer[i] = list[i]
  BY <1>1
<1> HIDE DEF longer
<1>3. child \in Range(longer)
  BY <1>2 DEF Range
<1>4. Range(list) \subseteq Range(longer)
  BY <1>2 DEF Range
<1>5. SubmissionsLast(list) => SubmissionsLast(longer)
  BY <1>1, <1>2 DEF SubmissionsLast
<1> QED BY <1>2, <1>3, <1>4, <1>5 DEF longer, child

\* Device.Close takes the last child off its list.
LEMMA FrontKeeps ==
    ASSUME NEW D, NEW list \in Seq(D), list # << >>
    PROVE  LET front == SubSeq(list, 1, Len(list) - 1) IN
           /\ front \in Seq(D)
           /\ list[Len(list)] \in Range(list)
           /\ \A y \in Range(list) : y # list[Len(list)] => y \in Range(front)
           /\ SubmissionsLast(list) => SubmissionsLast(front)
<1> DEFINE front == SubSeq(list, 1, Len(list) - 1)
<1>1. Len(list) \in Nat \ {0} /\ DOMAIN list = 1..Len(list)
  OBVIOUS
<1>2. /\ front \in Seq(D) /\ DOMAIN front = 1..(Len(list) - 1)
      /\ \A i \in 1..(Len(list) - 1) : front[i] = list[i]
  <2>1. 1 \in Int /\ Len(list) - 1 \in Int /\ \A i \in 1..(Len(list) - 1) : list[i] \in D
    BY <1>1
  <2>2. /\ front \in Seq(D)
        /\ Len(front) = IF 1 <= Len(list) - 1 THEN (Len(list) - 1) - 1 + 1 ELSE 0
        /\ \A i \in 1..((Len(list) - 1) - 1 + 1) : front[i] = list[1 + i - 1]
    BY <2>1, SubSeqProperties
  <2>3. (Len(list) - 1) - 1 + 1 = Len(list) - 1 /\ \A i \in 1..(Len(list) - 1) : 1 + i - 1 = i
    BY <1>1
  <2>4. Len(front) = Len(list) - 1
    BY <1>1, <2>2
  <2> HIDE DEF front
  <2>5. DOMAIN front = 1..(Len(list) - 1)
    BY <2>2, <2>4
  <2>6. \A i \in 1..(Len(list) - 1) : front[i] = list[i]
    BY <1>1, <2>2, <2>3
  <2> QED BY <2>2, <2>5, <2>6
<1> HIDE DEF front
<1>3. list[Len(list)] \in Range(list)
  BY <1>1 DEF Range
<1>4. ASSUME NEW y \in Range(list), y # list[Len(list)]
      PROVE  y \in Range(front)
  <2>1. PICK i \in 1..Len(list) : list[i] = y
    BY <1>1 DEF Range
  <2>2. i \in 1..(Len(list) - 1)
    BY <1>1, <1>4, <2>1
  <2> QED BY <1>2, <2>1, <2>2 DEF Range
<1>5. SubmissionsLast(list) => SubmissionsLast(front)
  BY <1>1, <1>2 DEF SubmissionsLast
<1> QED BY <1>2, <1>3, <1>4, <1>5 DEF front

\* Nothing but Submissions are behind a Submission.
LEMMA LastIsNoSubmission ==
    ASSUME NEW D, NEW list \in Seq(D), list # << >>, SubmissionsLast(list),
           list[Len(list)][1] # "submission"
    PROVE  \A y \in Range(list) : y[1] # "submission"
<1>1. Len(list) \in Nat \ {0} /\ DOMAIN list = 1..Len(list)
  OBVIOUS
<1>2. \A i \in 1..Len(list) : list[i][1] # "submission"
  BY <1>1 DEF SubmissionsLast
<1> QED BY <1>1, <1>2 DEF Range

\* The types, by groups of variables.
LEMMA DeviceTypesKept ==
    ASSUME Types, CallsFit, Moved
    PROVE  DeviceTypes'
<1> USE DEF DeviceTypes
<1>0. DeviceTypes /\ CallTypes
  BY DEF Types
<1>1. CASE UNCHANGED deviceVars
  BY <1>0, <1>1 DEF deviceVars
<1>2. ASSUME NEW g \in Goroutines, GoroutineMoves(g), ~UNCHANGED deviceVars
      PROVE  DeviceTypes'
  <2> USE DEF deviceVars, quietVars, programVars
  <2>1. ASSUME Drains(g) \/ EndsClose(g) \/ BeginsClose(g) \/ LocksBuffer(g) \/ TakesRecorders(g)
               \/ LocksSubmission(g)
        PROVE  DeviceTypes'
    BY <1>0, <2>1 DEF Drains, EndsClose, BeginsClose, LocksBuffer, TakesRecorders, LocksSubmission
  <2>2. ASSUME LosesTransfer(g) PROVE DeviceTypes'
    <3>1. <<g, op[g].buf>> \in Batches \X (Buffers \cup {NoOne})
      BY <1>0, <2>2, OpFields DEF LosesTransfer, Moves, Batches
    <3> QED BY <1>0, <2>2, <3>1 DEF LosesTransfer
  <2>3. ASSUME Tracks(g) PROVE DeviceTypes'
    <3>1. op[g].rec \in Recorders
      BY <1>0, <2>3, OpFields DEF Tracks, Moves, RecorderKinds
    <3>2. Append(children, <<"submission", op[g].rec>>) \in Seq(Children)
      BY <1>0, <3>1, AppendKeeps
    <3> QED BY <1>0, <2>3, <3>2 DEF Tracks
  <2>4. ASSUME RetainsBatch(g) PROVE DeviceTypes'
    <3>1. <<op[g].rec, NoOne>> \in Batches \X (Buffers \cup {NoOne})
      BY <1>0, <2>4, OpFields DEF RetainsBatch, Moves, RecorderKinds, Batches
    <3> QED BY <1>0, <2>4, <3>1 DEF RetainsBatch
  <2>5. ASSUME Finishes(g) \/ FinishesSubmission(g) \/ ClosesBuffer(g) PROVE DeviceTypes'
    <3>1. \A child : Without(children, child) \in Seq(Children)
      BY <1>0, WithoutKeeps
    <3> QED BY <1>0, <2>5, <3>1 DEF Finishes, FinishesSubmission, ClosesBuffer
  <2>6. ASSUME EndsCall(g) PROVE DeviceTypes'
    BY <1>0, <2>6 DEF EndsCall, Less
  <2>7. ASSUME NEW t \in transients, CleansUp(g, t) PROVE DeviceTypes'
    BY <1>0, <2>7 DEF CleansUp
  <2>8. ASSUME NEW child, LastChild(g, child) PROVE closeList' \in Seq(Children)
    BY <1>0, <2>8, FrontKeeps DEF LastChild
  <2>9. ASSUME NEW r \in Recorders, ForgetsSubmission(g, r) \/ EndsSubmission(g, r) \/ ForgetsRecorder(g, r)
        PROVE  DeviceTypes'
    BY <1>0, <2>8, <2>9 DEF ForgetsSubmission, EndsSubmission, ForgetsRecorder
  <2>10. ASSUME NEW r \in Recorders, EndsRecorder(g, r) PROVE DeviceTypes'
    <3>1. Without(children, <<"recorder", r>>) \in Seq(Children)
      BY <1>0, WithoutKeeps
    <3> QED BY <1>0, <2>8, <2>10, <3>1 DEF EndsRecorder
  <2>11. ASSUME NEW b \in Buffers, EndsBuffer(g, b) PROVE DeviceTypes'
    BY <1>0, <2>8, <2>11 DEF EndsBuffer
  <2>12. ASSUME \/ \E call \in Calls : StartsCall(g, call)
                \/ Returns(g) \/ GoesOn(g) \/ Records(g) \/ IsRefused(g) \/ Reserves(g) \/ IsGranted(g)
                \/ SleepsOn(g) \/ Withdraws(g) \/ PutsOnQueue(g) \/ FailsToSubmit(g) \/ EndsTransfer(g)
         PROVE  FALSE
    BY <1>2, <2>12 DEF StartsCall, Returns, GoesOn, Records, IsRefused, Reserves, IsGranted,
        SleepsOn, Withdraws, PutsOnQueue, FailsToSubmit, EndsTransfer
  <2>13. ASSUME \/ SeesCompletion(g) \/ LosesSubmission(g) \/ PollsInVain(g)
                \/ (\E b \in Buffers : DropsReference(g, b)) \/ FinishesCall(g)
         PROVE  FALSE
    BY <1>2, <2>13 DEF SeesCompletion, LosesSubmission, PollsInVain, DropsReference, FinishesCall
  <2> QED BY <1>2, <2>1, <2>2, <2>3, <2>4, <2>5, <2>6, <2>7, <2>9, <2>10, <2>11, <2>12, <2>13 DEF GoroutineMoves
<1>3. CASE \E x \in Batches : Completes(x)
  BY <1>1, <1>3 DEF Completes
<1>4. CASE UNCHANGED vars
  BY <1>1, <1>4 DEF vars
<1> QED BY <1>1, <1>2, <1>3, <1>4 DEF Moved

----------------------------------------------------------------------------
\* Counters stay natural numbers.
LEMMA LessIsNat == \A n \in Nat : Less(n) \in Nat
BY DEF Less

\* The buffers' variables keep their types.
LEMMA BufferTypesKept ==
    ASSUME Types, [Next]_vars
    PROVE  BufferTypes'
<1> USE DEF BufferTypes
<1>0. BufferTypes /\ CallTypes
  BY DEF Types
<1>1. CASE UNCHANGED bufferVars
  BY <1>0, <1>1 DEF bufferVars
<1>2. ASSUME NEW g \in Goroutines, Step(g), ~UNCHANGED bufferVars
      PROVE  BufferTypes'
  <2> USE DEF bufferVars
  <2>a. Drop(g) => references' \in [Buffers -> Nat]
    BY <1>0, OpFields, LessIsNat DEF Drop
  <2>b. op[g].kind \in {"transfer", "record", "closeBuffer"} => op[g].buf \in Buffers
    BY <1>0, OpFields
  <2>1. ASSUME BeginTransfer(g) PROVE BufferTypes'
    BY <1>0, <1>2, <2>b, <2>1 DEF BeginTransfer, Rejected, At
  <2>2. ASSUME RecordTransfer(g) PROVE BufferTypes'
    BY <1>0, <1>2, <2>b, <2>2 DEF RecordTransfer, Rejected, At
  <2>3. ASSUME AcquireReservation(g) PROVE BufferTypes'
    BY <1>0, <2>b, <2>3 DEF AcquireReservation, Retain, At
  <2>4. ASSUME ReacquireReservation(g) \/ QueueSubmit(g) \/ FinishTransfer(g) PROVE BufferTypes'
    BY <1>0, <1>2, <2>a, <2>4 DEF ReacquireReservation, QueueSubmit, FinishTransfer
  <2>5. ASSUME ReleaseReference(g) PROVE BufferTypes'
    <3>1. PICK b : references' = [references EXCEPT ![b] = Less(@)]
      BY <2>5 DEF ReleaseReference
    <3>2. references' \in [Buffers -> Nat]
      BY <1>0, <3>1, LessIsNat
    <3> QED BY <1>0, <2>5, <3>2 DEF ReleaseReference
  <2>6. ASSUME End(g) PROVE BufferTypes'
    BY <1>0, <2>b, <2>6 DEF End
  <2>7. ASSUME CloseBuffer(g) PROVE BufferTypes'
    BY <1>0, <1>2, <2>b, <2>7 DEF CloseBuffer, Rejected, At
  <2>8. ASSUME CleanupTransient(g) PROVE BufferTypes'
    BY <1>0, <2>8, LessIsNat DEF CleanupTransient
  <2>9. ASSUME NEW r \in Recorders, CloseRecorder(g, r) PROVE BufferTypes'
    <3>1. references' = [b \in Buffers |-> IF b \in recBuffers[r] THEN Less(references[b]) ELSE references[b]]
      BY <1>2, <2>9 DEF CloseRecorder, CloseChild
    <3>2. references' \in [Buffers -> Nat]
      BY <1>0, <3>1, LessIsNat
    <3> QED BY <1>0, <2>9, <3>2 DEF CloseRecorder, CloseChild
  <2>10. ASSUME NEW b \in Buffers, CloseBufferChild(g, b) PROVE BufferTypes'
    BY <1>0, <2>10 DEF CloseBufferChild, CloseChild
  <2>11. ASSUME \/ BeginRecorderCall(g) \/ TrackSubmission(g) \/ BeginObserve(g) \/ ObserveFence(g)
                \/ FinishRecorder(g) \/ FinishBatch(g) \/ \E r \in Recorders : CloseSubmission(g, r)
         PROVE  FALSE
    BY <1>2, <2>11 DEF BeginRecorderCall, TrackSubmission, BeginObserve, ObserveFence, FinishRecorder,
        FinishBatch, CloseSubmission, CloseChild, Rejected
  <2>12. ASSUME \/ StartClose(g) \/ AwaitClose(g) \/ DrainOperations(g) \/ WaitIdle(g) \/ BeginChildren(g)
                \/ FinishClose(g)
         PROVE  FALSE
    BY <1>2, <2>12 DEF StartClose, AwaitClose, DrainOperations, WaitIdle, BeginChildren, FinishClose, Rejected,
        deviceVars
  <2> QED BY <1>2, <2>1, <2>2, <2>3, <2>4, <2>5, <2>6, <2>7, <2>8, <2>9, <2>10, <2>11, <2>12 DEF Step
<1>3. ASSUME NEW g \in Goroutines, NEW call \in Calls, Call(g, call) PROVE BufferTypes'
  BY <1>1, <1>3 DEF Call
<1>4. ASSUME NEW x \in Batches, GpuComplete(x) PROVE BufferTypes'
  BY <1>1, <1>4 DEF GpuComplete
<1>5. CASE UNCHANGED vars
  BY <1>1, <1>5 DEF vars
<1> QED BY <1>1, <1>2, <1>3, <1>4, <1>5 DEF Next

\* The recorders' variables keep their types.
LEMMA RecorderTypesKept ==
    ASSUME Types, [Next]_vars
    PROVE  RecorderTypes'
<1> USE DEF RecorderTypes
<1>0. RecorderTypes /\ CallTypes /\ S!NoBuffers \in S!Resources
  BY DEF Types, S!NoBuffers, S!Resources, S!Access
<1>1. CASE UNCHANGED recorderVars
  BY <1>0, <1>1 DEF recorderVars
<1>2. ASSUME NEW g \in Goroutines, Step(g), ~UNCHANGED recorderVars
      PROVE  RecorderTypes'
  <2> USE DEF recorderVars
  <2>1. ASSUME RecordTransfer(g) PROVE RecorderTypes'
    <3>1. op[g].rec \in Recorders /\ op[g].buf \in Buffers /\ op[g].acc \in {"read", "write"}
      BY <1>0, <2>1, OpFields DEF RecordTransfer, At, RecorderKinds
    <3>2. S!AddAccess(recUses[op[g].rec], op[g].buf, op[g].acc) \in S!Resources
      BY <1>0, <3>1 DEF S!AddAccess, S!Resources, S!Access
    <3> QED BY <1>0, <1>2, <2>1, <3>1, <3>2 DEF RecordTransfer, Rejected
  <2>2. ASSUME QueueSubmit(g) PROVE RecorderTypes'
    BY <1>0, <1>2, <2>2 DEF QueueSubmit
  <2>3. ASSUME ReleaseReference(g) PROVE RecorderTypes'
    <3>1. PICK b : recBuffers' = [recBuffers EXCEPT ![op[g].recs[1]] = @ \ {b}]
      BY <2>3 DEF ReleaseReference
    <3>2. recBuffers' \in [Recorders -> SUBSET Buffers]
      BY <1>0, <3>1
    <3> QED BY <1>0, <2>3, <3>2 DEF ReleaseReference
  <2>4. ASSUME FinishRecorder(g) PROVE RecorderTypes'
    BY <1>0, <2>4 DEF FinishRecorder
  <2>5. ASSUME NEW r \in Recorders, CloseRecorder(g, r) PROVE RecorderTypes'
    BY <1>0, <1>2, <2>5 DEF CloseRecorder
  <2>6. ASSUME \/ BeginTransfer(g) \/ BeginRecorderCall(g) \/ AcquireReservation(g) \/ ReacquireReservation(g)
               \/ FinishTransfer(g) \/ TrackSubmission(g) \/ BeginObserve(g) \/ ObserveFence(g)
               \/ FinishBatch(g) \/ End(g) \/ CloseBuffer(g) \/ CleanupTransient(g)
        PROVE  FALSE
    BY <1>2, <2>6 DEF BeginTransfer, BeginRecorderCall, AcquireReservation, ReacquireReservation,
        FinishTransfer, TrackSubmission, BeginObserve, ObserveFence, FinishBatch, End, CloseBuffer,
        CleanupTransient, Rejected
  <2>7. ASSUME \/ StartClose(g) \/ AwaitClose(g) \/ DrainOperations(g) \/ WaitIdle(g) \/ BeginChildren(g)
               \/ FinishClose(g) \/ (\E r \in Recorders : CloseSubmission(g, r))
               \/ \E b \in Buffers : CloseBufferChild(g, b)
        PROVE  FALSE
    BY <1>2, <2>7 DEF StartClose, AwaitClose, DrainOperations, WaitIdle, BeginChildren, FinishClose, Rejected,
        CloseSubmission, CloseBufferChild
  <2> QED BY <1>2, <2>1, <2>2, <2>3, <2>4, <2>5, <2>6, <2>7 DEF Step
<1>3. ASSUME NEW g \in Goroutines, NEW call \in Calls, Call(g, call) PROVE RecorderTypes'
  BY <1>1, <1>3 DEF Call
<1>4. ASSUME NEW x \in Batches, GpuComplete(x) PROVE RecorderTypes'
  BY <1>1, <1>4 DEF GpuComplete
<1>5. CASE UNCHANGED vars
  BY <1>1, <1>5 DEF vars
<1> QED BY <1>1, <1>2, <1>3, <1>4, <1>5 DEF Next

\* The Submissions' variables keep their types.
LEMMA TrackingTypesKept ==
    ASSUME Types, CallsFit, [Next]_vars
    PROVE  TrackingTypes'
<1> USE DEF TrackingTypes
<1>0. TrackingTypes /\ CallTypes
  BY DEF Types
<1>1. CASE UNCHANGED <<trackingVars, batch>>
  BY <1>0, <1>1 DEF trackingVars
<1>2. ASSUME NEW g \in Goroutines, Step(g), ~UNCHANGED <<trackingVars, batch>>
      PROVE  TrackingTypes'
  <2> USE DEF trackingVars
  <2>1. ASSUME QueueSubmit(g) \/ FinishTransfer(g) PROVE TrackingTypes'
    BY <1>0, <1>2, <2>1 DEF QueueSubmit, FinishTransfer
  <2>2. ASSUME TrackSubmission(g) PROVE TrackingTypes'
    <3>1. op[g].recs \in SubmitArguments
      BY <2>2 DEF TrackSubmission, At, CallsFit, CallFits, Submitting
    <3> QED BY <1>0, <2>2, <3>1 DEF TrackSubmission
  <2>3. ASSUME BeginObserve(g) PROVE TrackingTypes'
    BY <1>0, <1>2, <2>3 DEF BeginObserve, Rejected
  <2>4. ASSUME ObserveFence(g) PROVE TrackingTypes'
    BY <1>0, <2>4 DEF ObserveFence
  <2>5. ASSUME FinishBatch(g) PROVE TrackingTypes'
    BY <1>0, <2>5 DEF FinishBatch
  <2>6. ASSUME End(g) PROVE TrackingTypes'
    BY <1>0, <2>6 DEF End
  <2>7. ASSUME CleanupTransient(g) PROVE TrackingTypes'
    BY <1>0, <2>7 DEF CleanupTransient
  <2>8. ASSUME NEW r \in Recorders, CloseSubmission(g, r) PROVE TrackingTypes'
    <3>1. ResultOnClose(r) \in {"none", "ok", "readError", "lost", "closed"}
      BY <1>0 DEF ResultOnClose
    <3>2. /\ batch' = [batch EXCEPT ![r] = "none"]
          /\ subState' = [subState EXCEPT ![r] = "done"]
          /\ subRecorders' = [subRecorders EXCEPT ![r] = << >>]
          /\ result' = [result EXCEPT ![r] = ResultOnClose(r)]
          /\ UNCHANGED subMu
      BY <1>2, <2>8 DEF CloseSubmission, CloseChild
    <3> HIDE DEF TrackingTypes
    <3>3. subState' \in [Recorders -> {"none", "pending", "unknown", "done"}]
      BY <1>0, <3>2 DEF TrackingTypes
    <3>4. subRecorders' \in [Recorders -> {<< >>} \cup SubmitArguments]
      BY <1>0, <3>2 DEF TrackingTypes
    <3>5. result' \in [Recorders -> {"none", "ok", "readError", "lost", "closed"}]
      BY <1>0, <3>1, <3>2 DEF TrackingTypes
    <3>6. batch' \in [Batches -> {"none", "executing", "signaled"}]
      BY <1>0, <3>2 DEF TrackingTypes
    <3> QED BY <1>0, <3>2, <3>3, <3>4, <3>5, <3>6 DEF TrackingTypes
  <2>9. ASSUME \/ BeginTransfer(g) \/ RecordTransfer(g) \/ BeginRecorderCall(g) \/ AcquireReservation(g)
               \/ ReacquireReservation(g) \/ ReleaseReference(g) \/ FinishRecorder(g) \/ CloseBuffer(g)
        PROVE  FALSE
    BY <1>2, <2>9 DEF BeginTransfer, RecordTransfer, BeginRecorderCall, AcquireReservation,
        ReacquireReservation, ReleaseReference, FinishRecorder, CloseBuffer, Rejected
  <2>10. ASSUME \/ StartClose(g) \/ AwaitClose(g) \/ DrainOperations(g) \/ WaitIdle(g) \/ BeginChildren(g)
               \/ FinishClose(g) \/ (\E r \in Recorders : CloseRecorder(g, r))
               \/ \E b \in Buffers : CloseBufferChild(g, b)
        PROVE  FALSE
    BY <1>2, <2>10 DEF StartClose, AwaitClose, DrainOperations, WaitIdle, BeginChildren, FinishClose, Rejected,
        CloseRecorder, CloseBufferChild, CloseChild
  <2> QED BY <1>2, <2>1, <2>2, <2>3, <2>4, <2>5, <2>6, <2>7, <2>8, <2>9, <2>10 DEF Step
<1>3. ASSUME NEW g \in Goroutines, NEW call \in Calls, Call(g, call) PROVE TrackingTypes'
  BY <1>1, <1>3 DEF Call
<1>4. ASSUME NEW x \in Batches, GpuComplete(x) PROVE TrackingTypes'
  BY <1>0, <1>4 DEF GpuComplete, trackingVars
<1>5. CASE UNCHANGED vars
  BY <1>1, <1>5 DEF vars
<1> QED BY <1>1, <1>2, <1>3, <1>4, <1>5 DEF Next

\* Calls stay calls.
LEMMA TailOfList ==
    ASSUME NEW s \in RecorderLists, s # << >>
    PROVE  /\ Tail(s) \in RecorderLists
           /\ s[1] \in Recorders /\ s[1] \in Range(s)
           /\ Range(Tail(s)) = Range(s) \ {s[1]}
<1>1. s \in Seq(Recorders) /\ IsInjective(s)
  BY DEF RecorderLists
<1>2. /\ Len(s) \in Nat \ {0} /\ DOMAIN s = 1..Len(s)
      /\ Tail(s) \in Seq(Recorders) /\ DOMAIN Tail(s) = 1..(Len(s) - 1)
      /\ \A i \in 1..(Len(s) - 1) : Tail(s)[i] = s[i + 1]
  BY <1>1
<1>3. s[1] \in Recorders /\ s[1] \in Range(s)
  BY <1>1, <1>2 DEF Range
<1>4. IsInjective(Tail(s))
  BY <1>1, <1>2 DEF IsInjective
<1>5. \A i \in 2..Len(s) : i - 1 \in 1..(Len(s) - 1) /\ Tail(s)[i - 1] = s[i]
  BY <1>2
<1>6. Range(Tail(s)) \subseteq Range(s) \ {s[1]}
  BY <1>1, <1>2 DEF IsInjective, Range
<1>7. Range(s) \ {s[1]} \subseteq Range(Tail(s))
  <2> SUFFICES ASSUME NEW i \in 1..Len(s), s[i] # s[1] PROVE s[i] \in Range(Tail(s))
    BY <1>2 DEF Range
  <2>1. i \in 2..Len(s)
    BY <1>2
  <2> QED BY <1>2, <1>5, <2>1 DEF Range
<1> QED BY <1>2, <1>3, <1>4, <1>6, <1>7 DEF RecorderLists

\* Every goroutine stays in a call that exists, at a place that exists, and is idle
\* only outside of calls.
LEMMA CallTypesKept ==
    ASSUME Types, CallsFit, [Next]_vars
    PROVE  CallTypes'
<1>0. CallTypes
  BY DEF Types
<1>a. ASSUME NEW g \in Goroutines, NEW label \in Labels, Goto(g, label),
             (pc[g] = "idle") = (label = "idle")
      PROVE  CallTypes'
  BY <1>0, <1>a DEF Goto, CallTypes
<1>b. ASSUME NEW g \in Goroutines, Return(g)
      PROVE  CallTypes'
  BY <1>0, <1>b DEF Return, CallTypes, Ops, Labels
<1>c. ASSUME NEW g \in Goroutines, NEW label \in Labels \ {"idle"}, NEW call \in Ops \ {NoOp},
             pc' = [pc EXCEPT ![g] = label] /\ op' = [op EXCEPT ![g] = call]
      PROVE  CallTypes'
  BY <1>0, <1>c DEF CallTypes
<1>1. CASE UNCHANGED threadVars
  BY <1>0, <1>1 DEF threadVars, CallTypes
<1>2. ASSUME NEW g \in Goroutines, NEW call \in Calls, Call(g, call) PROVE CallTypes'
  BY <1>c, <1>2, CallsAreOps DEF Call, Labels
<1>3. ASSUME NEW g \in Goroutines, Step(g) PROVE CallTypes'
  <2>a. ASSUME Unwind(g), pc[g] # "idle" PROVE CallTypes'
    BY <1>a, <2>a DEF Unwind, Labels
  <2>b. ASSUME Rejected(g) PROVE CallTypes'
    BY <1>b, <2>b DEF Rejected
  <2>c. op[g].kind \in SubmitKinds \cup {"abort"} \cup ObserverKinds =>
            /\ op[g].rec \in Recorders /\ op[g].recs \in RecorderLists
            /\ op[g] = [kind |-> op[g].kind, rec |-> op[g].rec, recs |-> op[g].recs]
    BY <1>0, OpFields DEF RecorderKinds
  <2>d. \A kind \in SubmitKinds \cup {"abort"} \cup ObserverKinds, r \in Recorders, recs \in RecorderLists :
            [kind |-> kind, rec |-> r, recs |-> recs] \in Ops \ {NoOp}
    BY DEF Ops, RecorderOps, NoOp, SubmitKinds, ObserverKinds
  <2>1. ASSUME BeginTransfer(g) \/ BeginRecorderCall(g) \/ TrackSubmission(g) \/ FinishTransfer(g)
               \/ ObserveFence(g) \/ FinishBatch(g)
        PROVE  CallTypes'
    BY <1>a, <2>b, <2>1 DEF BeginTransfer, BeginRecorderCall, TrackSubmission, FinishTransfer, ObserveFence,
        FinishBatch, At, Labels
  <2>2. ASSUME RecordTransfer(g) \/ CloseBuffer(g) PROVE CallTypes'
    BY <1>b, <2>b, <2>2 DEF RecordTransfer, CloseBuffer
  <2>3. ASSUME AcquireReservation(g) \/ ReacquireReservation(g) \/ QueueSubmit(g) PROVE CallTypes'
    BY <1>1, <1>a, <2>a, <2>3 DEF AcquireReservation, ReacquireReservation, QueueSubmit, At, Labels
  <2>4. ASSUME BeginObserve(g) PROVE CallTypes'
    <3>1. CASE Rejected(g)
      BY <2>b, <3>1
    <3>2. CASE ~Rejected(g)
      <4>1. op[g].kind \in ObserverKinds /\ subRecorders[op[g].rec] \in RecorderLists
        <5>1. op[g].kind \in ObserverKinds /\ op[g].rec \in Recorders
          BY <2>c, <2>4 DEF BeginObserve, At
        <5>2. << >> \in RecorderLists
          BY DEF RecorderLists, IsInjective
        <5> QED BY <5>1, <5>2, SubmitLists DEF Types, TrackingTypes
      <4>2. /\ pc' = [pc EXCEPT ![g] = "waitFence"]
            /\ op' = [op EXCEPT ![g] = [op[g] EXCEPT !.recs = subRecorders[op[g].rec]]]
        BY <2>4, <3>2 DEF BeginObserve
      <4>3. [op[g] EXCEPT !.recs = subRecorders[op[g].rec]]
              = [kind |-> op[g].kind, rec |-> op[g].rec, recs |-> subRecorders[op[g].rec]]
        BY <2>c, <4>1
      <4> QED BY <1>c, <2>c, <2>d, <4>1, <4>2, <4>3 DEF Labels
    <3> QED BY <3>1, <3>2
  <2>5. ASSUME ReleaseReference(g) PROVE CallTypes'
    BY <1>1, <2>5 DEF ReleaseReference
  <2>6. ASSUME FinishRecorder(g) PROVE CallTypes'
    <3>1. op[g].kind \in SubmitKinds \cup {"abort"} \cup ObserverKinds /\ op[g].recs # << >> /\ pc[g] = "releasing"
      BY <2>6 DEF FinishRecorder, At
    <3>2. Tail(op[g].recs) \in RecorderLists
      BY <2>c, <3>1, TailOfList
    <3>3. /\ pc' = [pc EXCEPT ![g] = "releasing"]
          /\ op' = [op EXCEPT ![g] = [op[g] EXCEPT !.recs = Tail(op[g].recs)]]
      BY <1>0, <2>6, <3>1 DEF FinishRecorder, CallTypes
    <3>4. [op[g] EXCEPT !.recs = Tail(op[g].recs)]
            = [kind |-> op[g].kind, rec |-> op[g].rec, recs |-> Tail(op[g].recs)]
      BY <2>c, <3>1
    <3> QED BY <1>c, <2>c, <2>d, <3>1, <3>2, <3>3, <3>4 DEF Labels
  <2>7. ASSUME End(g) PROVE CallTypes'
    <3>1. CASE op[g].kind = "submitAndWait" /\ subState[op[g].rec] = "pending"
      <4>1. /\ pc' = [pc EXCEPT ![g] = "call"]
            /\ op' = [op EXCEPT ![g] = [op[g] EXCEPT !.kind = "wait"]]
        BY <2>7, <3>1 DEF End
      <4>2. [op[g] EXCEPT !.kind = "wait"] = [kind |-> "wait", rec |-> op[g].rec, recs |-> op[g].recs]
        BY <2>c, <3>1 DEF SubmitKinds
      <4> QED BY <1>c, <2>c, <2>d, <3>1, <4>1, <4>2 DEF Labels, SubmitKinds, ObserverKinds
    <3>2. CASE ~(op[g].kind = "submitAndWait" /\ subState[op[g].rec] = "pending")
      BY <1>b, <2>7, <3>2 DEF End
    <3> QED BY <3>1, <3>2
  <2>8. ASSUME StartClose(g) \/ AwaitClose(g) \/ DrainOperations(g) \/ WaitIdle(g) \/ BeginChildren(g)
        PROVE  CallTypes'
    BY <1>a, <2>b, <2>8 DEF StartClose, AwaitClose, DrainOperations, WaitIdle, BeginChildren, At, Labels
  <2>9. ASSUME FinishClose(g) PROVE CallTypes'
    BY <1>b, <2>9 DEF FinishClose
  <2>10. ASSUME \/ CleanupTransient(g) \/ (\E r \in Recorders : CloseSubmission(g, r) \/ CloseRecorder(g, r))
                \/ \E b \in Buffers : CloseBufferChild(g, b)
         PROVE  CallTypes'
    BY <1>1, <2>10 DEF CleanupTransient, CloseSubmission, CloseRecorder, CloseBufferChild, CloseChild
  <2> QED BY <1>3, <2>1, <2>2, <2>3, <2>4, <2>5, <2>6, <2>7, <2>8, <2>9, <2>10 DEF Step
<1>4. ASSUME NEW x \in Batches, GpuComplete(x) PROVE CallTypes'
  BY <1>1, <1>4 DEF GpuComplete
<1>5. CASE UNCHANGED vars
  BY <1>1, <1>5 DEF vars
<1> QED BY <1>2, <1>3, <1>4, <1>5 DEF Next

----------------------------------------------------------------------------
\* How operations begin and end.
Away == {"idle", "call", "awaitClose"}
Enters(g) == pc[g] = "call" /\ pc'[g] \notin Outside /\ active' = active + 1 /\ status = "open" /\ status' = "open"
Works(g)  == pc[g] \notin Outside /\ pc'[g] \notin Outside /\ active' = active /\ status' = status
Exits(g)  == pc[g] = "end" /\ pc'[g] \in Away /\ active' = Less(active) /\ status' = status
Idles(g)  == pc[g] \in Away /\ pc'[g] \in Away /\ active' = active /\ status' = status
Closes(g) ==
    /\ active' = active
    /\ \/ pc[g] = "call" /\ pc'[g] = "drain" /\ status = "open" /\ status' = "closing"
       \/ pc[g] = "drain" /\ pc'[g] = "waitIdle" /\ active = 0 /\ status' = status
       \/ /\ pc[g] \in Destroying /\ pc'[g] \in Destroying /\ status' = status
          /\ pc[g] = "children" => pc'[g] = "children"
       \/ pc[g] = "children" /\ pc'[g] = "idle" /\ status' = "closed"

\* A step enters an operation, leaves it, goes on in it, or is outside of all.
LEMMA EveryMove ==
    ASSUME Types, NEW g \in Goroutines, GoroutineMoves(g)
    PROVE  Stay(g) /\ (Enters(g) \/ Exits(g) \/ Works(g) \/ Idles(g) \/ Closes(g))
<1> USE DEF Outside, Closing, Destroying, Away, Moves, Leaves, quietVars, programVars, deviceVars, threadVars
<1>1. ASSUME LocksBuffer(g) \/ TakesRecorders(g) \/ LocksSubmission(g)
      PROVE  Stay(g) /\ Enters(g)
  BY <1>1 DEF LocksBuffer, TakesRecorders, LocksSubmission, Enters
<1>2. ASSUME EndsCall(g) PROVE Stay(g) /\ Exits(g)
  BY <1>2 DEF EndsCall, Exits
<1>3. ASSUME Returns(g) \/ (\E call \in Calls : StartsCall(g, call)) \/ Records(g) \/ ClosesBuffer(g)
      PROVE  Stay(g) /\ Idles(g)
  BY <1>3 DEF Returns, StartsCall, Records, ClosesBuffer, Idles
<1>4. ASSUME BeginsClose(g) \/ Drains(g) \/ GoesOn(g) \/ EndsClose(g)
      PROVE  Stay(g) /\ (Idles(g) \/ Closes(g))
  BY <1>4 DEF BeginsClose, Drains, GoesOn, EndsClose, Closes, Idles
<1>5. ASSUME \/ \E t \in transients : CleansUp(g, t)
             \/ \E r \in Recorders : ForgetsSubmission(g, r) \/ EndsSubmission(g, r)
             \/ \E r \in Recorders : ForgetsRecorder(g, r) \/ EndsRecorder(g, r)
             \/ \E b \in Buffers : EndsBuffer(g, b)
      PROVE  Stay(g) /\ Closes(g)
  <2>1. UNCHANGED <<active, status, threadVars>> /\ pc[g] \in Destroying
    BY <1>5 DEF CleansUp, ForgetsSubmission, EndsSubmission, ForgetsRecorder, EndsRecorder, EndsBuffer, LastChild
  <2> QED BY <2>1 DEF Stay, Closes
<1>6. ASSUME \/ IsRefused(g) \/ Reserves(g) \/ IsGranted(g) \/ Withdraws(g)
             \/ PutsOnQueue(g) \/ FailsToSubmit(g)
      PROVE  Stay(g) /\ Works(g)
  BY <1>6 DEF IsRefused, Reserves, IsGranted, Withdraws, PutsOnQueue, FailsToSubmit, Unwound, Works
<1>7. ASSUME \/ EndsTransfer(g) \/ LosesTransfer(g) \/ Tracks(g) \/ RetainsBatch(g)
             \/ SeesCompletion(g) \/ LosesSubmission(g) \/ PollsInVain(g)
      PROVE  Stay(g) /\ Works(g)
  BY <1>7 DEF EndsTransfer, LosesTransfer, Tracks, RetainsBatch, SeesCompletion, LosesSubmission,
      PollsInVain, Works
<1>8. ASSUME (\E b \in Buffers : DropsReference(g, b)) \/ Finishes(g) \/ FinishesSubmission(g) \/ FinishesCall(g)
      PROVE  Stay(g) /\ Works(g)
  BY <1>8 DEF DropsReference, Finishes, FinishesSubmission, FinishesCall, Works, Stay
<1>9. ASSUME SleepsOn(g) PROVE Stay(g) /\ Works(g)
  BY <1>9 DEF SleepsOn, Stay, Works
<1> QED BY <1>1, <1>2, <1>3, <1>4, <1>5, <1>6, <1>7, <1>8, <1>9 DEF GoroutineMoves

\* The operations in progress can be counted.
LEMMA OperatingIsFinite ==
    /\ IsFiniteSet(Operating) /\ Cardinality(Operating) \in Nat
    /\ \A g : Cardinality(Operating \ {g}) \in Nat /\ IsFiniteSet(Operating \ {g})
BY QueueAssumption, FS_Subset, FS_CardinalityType DEF Operating

\* beginOperation and endOperation come in pairs on every path: Device.active counts
\* the goroutines in operations.
LEMMA AccountKept ==
    ASSUME Types, CallsFit, Account, Moved
    PROVE  Account'
<1>1. ASSUME NEW g \in Goroutines, GoroutineMoves(g) PROVE Account'
  <2>1. Stay(g) /\ (Enters(g) \/ Exits(g) \/ Works(g) \/ Idles(g) \/ Closes(g))
    BY <1>1, EveryMove
  <2>2. CASE Enters(g)
    <3>1. g \notin Operating /\ Operating' = Operating \cup {g}
      BY <2>1, <2>2 DEF Operating, Enters, Stay, Outside
    <3>2. Cardinality(Operating \cup {g}) = Cardinality(Operating) + 1
      BY <3>1, OperatingIsFinite, FS_AddElement
    <3> QED BY <2>2, <3>1, <3>2 DEF Account, Enters
  <2>3. CASE Exits(g)
    <3>1. g \in Operating /\ Operating' = Operating \ {g}
      BY <2>1, <2>3 DEF Operating, Exits, Stay, Outside, Away, Closing
    <3>2. Cardinality(Operating \ {g}) = Cardinality(Operating) - 1 /\ Cardinality(Operating) \in Nat
          /\ Cardinality(Operating \ {g}) \in Nat
      BY <3>1, OperatingIsFinite, FS_RemoveElement
    <3> QED BY <2>3, <3>1, <3>2 DEF Account, Exits, Less
  <2>4. CASE Works(g) \/ Idles(g) \/ Closes(g)
    <3>1. Operating' = Operating /\ active' = active
      BY <2>1, <2>4 DEF Operating, Works, Idles, Closes, Stay, Outside, Away, Closing, Destroying
    <3> QED BY <3>1 DEF Account
  <2> QED BY <2>1, <2>2, <2>3, <2>4
<1>2. CASE UNCHANGED <<active, pc>>
  BY <1>2 DEF Account, Operating
<1> QED BY <1>1, <1>2 DEF Moved, Completes, vars, deviceVars, threadVars

\* active = 0 says that no operation is in progress.
LEMMA NobodyOperates ==
    ASSUME Account, active = 0
    PROVE  \A h \in Goroutines : pc[h] \in Outside
<1>1. Cardinality(Operating) = 0
  BY DEF Account
<1>2. Operating = {}
  BY <1>1, OperatingIsFinite, FS_EmptySet
<1> QED BY <1>2 DEF Operating

\* One goroutine closes the Device, and destroys only when active was zero, after which
\* no operation begins.
LEMMA OneCloserKept ==
    ASSUME Types, Account, OneCloser, Moved
    PROVE  OneCloser'
<1>1. ASSUME NEW g \in Goroutines, GoroutineMoves(g) PROVE OneCloser'
  <2>1. Stay(g) /\ (Enters(g) \/ Exits(g) \/ Works(g) \/ Idles(g) \/ Closes(g))
    BY <1>1, EveryMove
  <2> USE DEF Stay, Outside, Away, Closing, Destroying
  <2>2. CASE Enters(g)
    BY <2>1, <2>2 DEF OneCloser, Enters
  <2>3. CASE Exits(g)
    <3>1. active # 0
      BY <2>3, NobodyOperates DEF Exits
    <3> QED BY <2>1, <2>3, <3>1 DEF OneCloser, Exits
  <2>4. CASE Works(g) \/ Idles(g)
    BY <2>1, <2>4 DEF OneCloser, Works, Idles
  <2>5. CASE Closes(g)
    BY <2>1, <2>5 DEF OneCloser, Closes
  <2> QED BY <2>1, <2>2, <2>3, <2>4, <2>5
<1>2. CASE UNCHANGED <<active, status, pc>>
  BY <1>2 DEF OneCloser
<1> QED BY <1>1, <1>2 DEF Moved, Completes, vars, deviceVars, threadVars

----------------------------------------------------------------------------
\* A call takes only the steps of its kind.
LEMMA CallsFitKept ==
    ASSUME Types, CallsFit, Moved
    PROVE  CallsFit'
<1>1. ASSUME NEW g \in Goroutines, GoroutineMoves(g) PROVE CallsFit'
  <2>1. Stay(g)
    BY <1>1, EveryMove
  <2>2. \A h \in Goroutines : h # g => CallFits(h)'
    BY <2>1 DEF Stay, CallsFit, CallFits
  <2>3. CallFits(g)
    BY DEF CallsFit
  <2> USE DEF CallFits, Moves, Leaves, QueueKinds, SubmitKinds, ObserverKinds, Submitting, Closing, NoOp,
              quietVars, programVars, deviceVars, threadVars
  <2>4. ASSUME NEW call \in Calls, StartsCall(g, call) PROVE CallFits(g)'
    <3>1. /\ call.kind \in SubmitKinds => call.recs \in SubmitArguments /\ call.rec = call.recs[1]
          /\ pc'[g] = "call" /\ op'[g] = call
      BY <2>4, CallsAreOps DEF StartsCall, RecorderKinds
    <3> QED BY <3>1
  <2>5. ASSUME Returns(g) \/ Records(g) \/ ClosesBuffer(g) \/ EndsClose(g) \/ BeginsClose(g) \/ Drains(g) \/ GoesOn(g)
        PROVE  CallFits(g)'
    BY <2>5 DEF Returns, Records, ClosesBuffer, EndsClose, BeginsClose, Drains, GoesOn
  <2>6. ASSUME LocksBuffer(g) \/ TakesRecorders(g) \/ LocksSubmission(g)
        PROVE  CallFits(g)'
    BY <2>3, <2>6 DEF LocksBuffer, TakesRecorders, LocksSubmission
  <2>7. ASSUME \/ IsRefused(g) \/ Reserves(g) \/ IsGranted(g) \/ Withdraws(g)
               \/ PutsOnQueue(g) \/ FailsToSubmit(g)
        PROVE  CallFits(g)'
    BY <2>3, <2>7 DEF IsRefused, Reserves, IsGranted, Withdraws, PutsOnQueue, FailsToSubmit, Unwound
  <2>8. ASSUME \/ EndsTransfer(g) \/ LosesTransfer(g) \/ Tracks(g) \/ RetainsBatch(g)
               \/ SeesCompletion(g) \/ LosesSubmission(g) \/ PollsInVain(g)
               \/ Finishes(g) \/ FinishesSubmission(g) \/ FinishesCall(g)
        PROVE  CallFits(g)'
    BY <2>3, <2>8 DEF EndsTransfer, LosesTransfer, Tracks, RetainsBatch, SeesCompletion, LosesSubmission,
        PollsInVain, Finishes, FinishesSubmission, FinishesCall
  <2>9. ASSUME EndsCall(g) PROVE CallFits(g)'
    BY <2>3, <2>9 DEF EndsCall
  <2>10. ASSUME \/ SleepsOn(g) \/ (\E b \in Buffers : DropsReference(g, b)) \/ \E t \in transients : CleansUp(g, t)
                \/ \E r \in Recorders : ForgetsSubmission(g, r) \/ EndsSubmission(g, r)
                \/ \E r \in Recorders : ForgetsRecorder(g, r) \/ EndsRecorder(g, r)
                \/ \E b \in Buffers : EndsBuffer(g, b)
         PROVE  CallFits(g)'
    <3>1. UNCHANGED threadVars
      BY <2>10 DEF SleepsOn, DropsReference, CleansUp, ForgetsSubmission, EndsSubmission, ForgetsRecorder, EndsRecorder, EndsBuffer
    <3> QED BY <2>3, <3>1
  <2>11. CallFits(g)'
    BY <1>1, <2>4, <2>5, <2>6, <2>7, <2>8, <2>9, <2>10 DEF GoroutineMoves
  <2> HIDE DEF CallFits
  <2> QED BY <2>2, <2>11 DEF CallsFit
<1>2. CASE UNCHANGED threadVars
  BY <1>2 DEF CallsFit, CallFits, threadVars
<1> QED BY <1>1, <1>2 DEF Moved, Completes, vars

\* A locked buffer stays locked, and open: Buffer.Close and Device.Close lock it too.
LEMMA TransferFitsKept ==
    ASSUME Types, Account, OneCloser, CallsFit, (\A g \in Goroutines : TransferFits(g)), Moved
    PROVE  \A h \in Goroutines : TransferFits(h)'
<1>0. CallTypes /\ BufferTypes
  BY DEF Types
<1> USE DEF quietVars, programVars, deviceVars, threadVars, bufferVars
<1>1. ASSUME NEW g \in Goroutines, GoroutineMoves(g), NEW h \in Goroutines PROVE TransferFits(h)'
  <2>1. Stay(g)
    BY <1>1, EveryMove
  <2>2. op[h].kind = "transfer" => op[h].buf \in Buffers
    BY <1>0, OpFields
  <2>a. NoOne # h /\ NoOne # g
    BY QueueAssumption
  <2>3. CASE UNCHANGED <<bufMu, bufferClosed>> /\ pc[g] \notin Outside /\ op'[g].kind = op[g].kind
                /\ (op[g].kind = "transfer" => op'[g] = op[g])
    BY <2>1, <2>3 DEF Stay, TransferFits
  <2>4. CASE UNCHANGED <<bufMu, bufferClosed>> /\ pc'[g] \in Outside
    BY <2>1, <2>4 DEF Stay, TransferFits
  <2>5. CASE LocksBuffer(g)
    BY <1>0, <2>1, <2>2, <2>5, <2>a, OpFields DEF LocksBuffer, Moves, Stay, TransferFits, Only, Outside, Closing
  <2>6. CASE TakesRecorders(g) \/ LocksSubmission(g)
    BY <2>1, <2>6 DEF TakesRecorders, LocksSubmission, Moves, Stay, TransferFits, ObserverKinds, SubmitKinds
  <2>7. CASE EndsCall(g)
    <3>1. op[g].kind = "transfer" => bufMu[op[g].buf] = g
      BY <2>7 DEF EndsCall, TransferFits, Outside, Closing
    <3> QED BY <2>1, <2>2, <2>7, <3>1 DEF EndsCall, Stay, TransferFits, Only, Outside
  <2>8. CASE ClosesBuffer(g)
    BY <2>1, <2>2, <2>8, <2>a DEF ClosesBuffer, Leaves, Stay, TransferFits, Only, Outside
  <2>9. ASSUME NEW b \in Buffers, EndsBuffer(g, b) PROVE TransferFits(h)'
    <3>1. pc[h] \in Outside
      BY <2>9, NobodyOperates DEF EndsBuffer, LastChild, OneCloser, Destroying
    <3> QED BY <2>9, <3>1 DEF EndsBuffer, TransferFits
  <2>10. CASE Returns(g) \/ (\E call \in Calls : StartsCall(g, call)) \/ Records(g) \/ BeginsClose(g)
             \/ Drains(g) \/ GoesOn(g) \/ EndsClose(g)
    BY <2>4, <2>10 DEF Returns, StartsCall, Records, BeginsClose, Drains, GoesOn, EndsClose, Moves, Leaves, Outside, Closing
  <2>11. CASE \/ (\E t \in transients : CleansUp(g, t))
             \/ (\E r \in Recorders : ForgetsSubmission(g, r) \/ EndsSubmission(g, r))
             \/ (\E r \in Recorders : ForgetsRecorder(g, r) \/ EndsRecorder(g, r))
    BY <2>4, <2>11 DEF CleansUp, ForgetsSubmission, EndsSubmission, ForgetsRecorder, EndsRecorder, LastChild, Outside, Closing
  <2>12. CASE \/ IsRefused(g) \/ Reserves(g) \/ IsGranted(g) \/ SleepsOn(g) \/ Withdraws(g)
             \/ PutsOnQueue(g) \/ FailsToSubmit(g) \/ EndsTransfer(g) \/ LosesTransfer(g) \/ Tracks(g) \/ RetainsBatch(g)
    BY <2>3, <2>12 DEF IsRefused, Reserves, IsGranted, SleepsOn, Withdraws, PutsOnQueue, FailsToSubmit,
       EndsTransfer, LosesTransfer, Tracks, RetainsBatch, Moves, Outside, Closing
  <2>13. CASE \/ SeesCompletion(g) \/ LosesSubmission(g) \/ PollsInVain(g)
             \/ (\E b \in Buffers : DropsReference(g, b)) \/ Finishes(g) \/ FinishesSubmission(g) \/ FinishesCall(g)
    BY <2>3, <2>13 DEF SeesCompletion, LosesSubmission, PollsInVain, DropsReference, Finishes, FinishesSubmission,
       FinishesCall, Moves, Outside, Closing, ObserverKinds, SubmitKinds
  <2> QED BY <1>1, <2>5, <2>6, <2>7, <2>8, <2>9, <2>10, <2>11, <2>12, <2>13 DEF GoroutineMoves
<1>2. CASE UNCHANGED <<threadVars, bufMu, bufferClosed>>
  BY <1>2 DEF TransferFits
<1> QED BY <1>1, <1>2 DEF Moved, Completes, vars

----------------------------------------------------------------------------
\* A step outside of all operations, which changes at most the Device's status and lists.
Outer(g) ==
    pc[g] \in Outside /\ pc'[g] \in Outside /\ Stay(g) /\ UNCHANGED quietVars

\* The steps outside of operations.
LEMMA OuterSteps ==
    ASSUME NEW g \in Goroutines,
           (\E call \in Calls : StartsCall(g, call)) \/ Returns(g) \/ BeginsClose(g) \/ Drains(g)
              \/ GoesOn(g) \/ EndsClose(g)
    PROVE  Outer(g)
BY DEF StartsCall, Returns, BeginsClose, Drains, GoesOn, EndsClose, Outer, Outside, Closing, Moves, Leaves, quietVars

\* Device.Close destroys when nobody is in an operation.
LEMMA CloseIsAlone ==
    ASSUME Account, OneCloser, NEW g \in Goroutines, pc[g] \in Destroying
    PROVE  /\ active = 0 /\ status = "closing" /\ \A h \in Goroutines : pc[h] \in Outside
           /\ \A h \in Goroutines : pc[h] \in Closing => h = g
BY NobodyOperates DEF OneCloser, Closing, Destroying

\* The steps of the goroutine that destroys.
Destroys(g) ==
    \/ \E t \in transients : CleansUp(g, t)
    \/ \E r \in Recorders : ForgetsSubmission(g, r) \/ EndsSubmission(g, r)
    \/ \E r \in Recorders : ForgetsRecorder(g, r) \/ EndsRecorder(g, r)
    \/ \E b \in Buffers : EndsBuffer(g, b)

\* The goroutine that destroys is alone, and stays where it is.
LEMMA DestroyingSteps ==
    ASSUME Account, OneCloser, NEW g \in Goroutines, Destroys(g)
    PROVE  /\ pc[g] \in Destroying /\ UNCHANGED <<status, active, threadVars, subMu, bufMu>>
           /\ active = 0 /\ status = "closing" /\ \A h \in Goroutines : pc[h] \in Outside
<1>1. pc[g] \in Destroying /\ UNCHANGED <<status, active, threadVars, subMu, bufMu>>
  BY DEF Destroys, CleansUp, ForgetsSubmission, EndsSubmission, ForgetsRecorder, EndsRecorder, EndsBuffer,
      LastChild, Destroying, programVars, trackingVars, bufferVars
<1> QED BY <1>1, CloseIsAlone

\* A locked Submission stays locked, and only its observer changes it.
LEMMA ObserverFitsKept ==
    ASSUME Types, Account, OneCloser, CallsFit, Fitting, SchedulerInv, Reserved, Moved
    PROVE  \A h \in Goroutines : ObserverFits(h)'
<1>0. CallTypes /\ TrackingTypes
  BY DEF Types
<1>a. \A h \in Goroutines : ObserverFits(h)
  BY DEF Fitting
<1>b. \A h \in Goroutines : op[h].kind \in ObserverKinds => op[h].rec \in Recorders /\ op[h].rec \in Batches
  BY <1>0, OpFields DEF Batches
<1>c. /\ SubmitKinds \cap ObserverKinds = {} /\ "transfer" \notin ObserverKinds /\ QueueKinds \cap ObserverKinds = {}
      /\ RecorderKinds \cap ObserverKinds = {} /\ NoOp.kind \notin ObserverKinds
  BY DEF SubmitKinds, ObserverKinds, QueueKinds, RecorderKinds, NoOp
<1> USE DEF programVars, deviceVars, threadVars, trackingVars, Moves, Leaves, Only
<1>1. ASSUME NEW g \in Goroutines, GoroutineMoves(g), NEW h \in Goroutines, h # g,
             op[h].kind \in ObserverKinds, pc[h] \notin Outside
      PROVE  ObserverFits(h)'
  <2>1. Stay(g) /\ pc'[h] = pc[h] /\ op'[h] = op[h]
    BY <1>1, EveryMove DEF Stay
  <2>2. PICK r \in Recorders : r = op[h].rec
    BY <1>1, <1>b
  <2>3. /\ r \in Batches /\ subMu[r] = h /\ h # NoOne
        /\ pc[h] \in {"waitFence", "releasing"} => subState[r] = "pending"
        /\ pc[h] = "waitFence" => op[h].recs = subRecorders[r]
        /\ pc[h] = "releasing" => batch[r] = "signaled" /\ r \notin activeSubmissions
    BY <1>1, <1>a, <2>2, QueueAssumption DEF ObserverFits, Batches
  <2> SUFFICES /\ subMu'[r] = h
               /\ pc[h] \in {"waitFence", "releasing"} => subState'[r] = "pending"
               /\ pc[h] = "waitFence" => op[h].recs = subRecorders'[r]
               /\ pc[h] = "releasing" => batch'[r] = "signaled" /\ r \notin activeSubmissions'
    BY <2>1, <2>2 DEF ObserverFits
  <2>4. CASE UNCHANGED <<subMu, subState, subRecorders, batch>> /\ activeSubmissions' \subseteq activeSubmissions
    BY <2>3, <2>4
  <2>5. op[g].kind \in ObserverKinds /\ pc[g] \notin Outside => op[g].rec # r
    BY <1>1, <1>a, <2>3 DEF ObserverFits
  <2>6. CASE Reserves(g) \/ IsGranted(g)
    <3>1. subState[r] = "pending" => Batch(g) # r
      <4>1. pc[g] \in {"acquire", "parked"} /\ op[g].kind \in QueueKinds
        BY <2>6 DEF Reserves, IsGranted
      <4>2. CASE op[g].kind = "transfer"
        BY <2>2, <4>2, QueueAssumption DEF Batch
      <4>3. CASE op[g].kind \in SubmitKinds
        BY <4>1, <4>3 DEF Batch, SubmitKinds, Fitting, SubmitFits, Submitting
      <4> QED BY <4>1, <4>2, <4>3 DEF QueueKinds
    <3>2. /\ UNCHANGED <<subMu, subState, subRecorders, batch>>
          /\ activeSubmissions' \subseteq activeSubmissions \cup {Batch(g)}
      BY <2>6 DEF Reserves, IsGranted
    <3> QED BY <2>3, <3>1, <3>2
  <2>7. CASE PutsOnQueue(g)
    <3>1. batch[Batch(g)] = "none"
      BY <2>7 DEF PutsOnQueue, Reserved, Granted
    <3> QED BY <2>3, <2>7, <3>1 DEF PutsOnQueue, schedulerVars
  <2>8. CASE EndsTransfer(g)
    <3>1. g # r
      BY <2>2, QueueAssumption
    <3> QED BY <2>3, <2>8, <3>1 DEF EndsTransfer, Frees
  <2>9. CASE Tracks(g)
    <3>1. subState[op[g].rec] = "none"
      BY <2>9 DEF Tracks, Fitting, SubmitFits, Submitting
    <3>2. pc[h] \in {"waitFence", "releasing"} => op[g].rec # r
      BY <2>3, <3>1
    <3> QED BY <2>3, <2>9, <3>2 DEF Tracks, schedulerVars
  <2>10. CASE LocksSubmission(g)
    BY <2>3, <2>10 DEF LocksSubmission, schedulerVars
  <2>11. CASE LosesSubmission(g) \/ FinishesSubmission(g)
    BY <2>3, <2>5, <2>11 DEF LosesSubmission, FinishesSubmission, Outside, Closing, Keeps, schedulerVars
  <2>12. CASE EndsCall(g)
    BY <2>3, <2>5, <2>12 DEF EndsCall, Outside, Closing, schedulerVars
  <2>13. CASE Destroys(g)
    BY <1>1, <2>13, DestroyingSteps
  <2>14. CASE \/ (\E call \in Calls : StartsCall(g, call)) \/ Returns(g) \/ BeginsClose(g) \/ Drains(g)
              \/ GoesOn(g) \/ EndsClose(g)
    BY <2>4, <2>14, OuterSteps DEF Outer, quietVars, schedulerVars
  <2>15. CASE \/ LocksBuffer(g) \/ Records(g) \/ TakesRecorders(g) \/ ClosesBuffer(g)
              \/ IsRefused(g) \/ SleepsOn(g) \/ Withdraws(g) \/ FailsToSubmit(g)
    BY <2>4, <2>15 DEF LocksBuffer, Records, TakesRecorders, ClosesBuffer, IsRefused, SleepsOn, Withdraws,
        FailsToSubmit, schedulerVars, Frees
  <2>16. CASE LosesTransfer(g) \/ RetainsBatch(g) \/ SeesCompletion(g) \/ PollsInVain(g)
              \/ (\E b \in Buffers : DropsReference(g, b)) \/ Finishes(g) \/ FinishesCall(g)
    BY <2>4, <2>16 DEF LosesTransfer, RetainsBatch, SeesCompletion, PollsInVain, DropsReference, Finishes,
        FinishesCall, schedulerVars, Frees, Keeps
  <2> QED BY <1>1, <2>6, <2>7, <2>8, <2>9, <2>10, <2>11, <2>12, <2>13, <2>14, <2>15, <2>16 DEF GoroutineMoves, Destroys
<1>2. ASSUME NEW g \in Goroutines, GoroutineMoves(g), op'[g].kind \in ObserverKinds, pc'[g] \notin Outside
      PROVE  ObserverFits(g)'
  <2>1. ObserverFits(g)
    BY <1>a
  <2>2. CASE LocksSubmission(g)
    BY <1>0, <1>b, <2>2 DEF LocksSubmission, ObserverFits, schedulerVars
  <2>3. CASE SeesCompletion(g)
    BY <1>b, <2>1, <2>3 DEF SeesCompletion, ObserverFits, Frees, Outside, Closing
  <2>4. CASE LosesSubmission(g) \/ PollsInVain(g) \/ FinishesSubmission(g)
    BY <2>1, <2>4 DEF LosesSubmission, PollsInVain, FinishesSubmission, ObserverFits, Outside, Closing
  <2>5. CASE (\E b \in Buffers : DropsReference(g, b)) \/ Finishes(g)
    BY <1>2, <2>1, <2>5 DEF DropsReference, Finishes, ObserverFits, Outside, Closing, schedulerVars
  <2>6. CASE \/ (\E call \in Calls : StartsCall(g, call)) \/ Returns(g) \/ BeginsClose(g) \/ Drains(g)
              \/ GoesOn(g) \/ EndsClose(g)
    BY <1>2, <2>6, OuterSteps DEF Outer
  <2>7. CASE LocksBuffer(g) \/ Records(g) \/ TakesRecorders(g) \/ ClosesBuffer(g) \/ FinishesCall(g) \/ EndsCall(g)
    BY <1>2, <1>c, <2>7 DEF LocksBuffer, Records, TakesRecorders, ClosesBuffer, FinishesCall, RecorderKinds,
        EndsCall, Outside
  <2>8. CASE \/ IsRefused(g) \/ Reserves(g) \/ IsGranted(g) \/ SleepsOn(g) \/ Withdraws(g)
             \/ PutsOnQueue(g) \/ FailsToSubmit(g) \/ EndsTransfer(g) \/ LosesTransfer(g) \/ Tracks(g) \/ RetainsBatch(g)
    <3>1. op'[g] = op[g] /\ op[g].kind \in QueueKinds
      <4>1. SleepsOn(g) => op[g].kind \in QueueKinds /\ op'[g] = op[g]
        BY DEF SleepsOn, CallsFit, CallFits
      <4> QED BY <2>8, <4>1 DEF IsRefused, Reserves, IsGranted, Withdraws, PutsOnQueue, FailsToSubmit,
            EndsTransfer, LosesTransfer, Tracks, RetainsBatch, QueueKinds
    <3> QED BY <1>2, <1>c, <3>1
  <2>9. CASE Destroys(g)
    BY <1>2, <2>9, DestroyingSteps
  <2> QED BY <1>2, <2>2, <2>3, <2>4, <2>5, <2>6, <2>7, <2>8, <2>9 DEF GoroutineMoves, Destroys
<1>3. ASSUME NEW g \in Goroutines, GoroutineMoves(g), NEW h \in Goroutines PROVE ObserverFits(h)'
  <2>1. h # g => pc'[h] = pc[h] /\ op'[h] = op[h]
    BY <1>3, EveryMove DEF Stay
  <2>2. CASE op'[h].kind \in ObserverKinds /\ pc'[h] \notin Outside
    BY <1>1, <1>2, <1>3, <2>1, <2>2
  <2>3. CASE ~(op'[h].kind \in ObserverKinds /\ pc'[h] \notin Outside)
    BY <2>3 DEF ObserverFits, Outside, Closing, ObserverKinds
  <2> QED BY <2>2, <2>3
<1>4. CASE UNCHANGED <<pc, op, subMu, subState, subRecorders, batch, activeSubmissions>>
  BY <1>a, <1>4 DEF ObserverFits
<1>5. ASSUME NEW x \in Batches, Completes(x) PROVE \A h \in Goroutines : ObserverFits(h)'
  BY <1>a, <1>b, <1>5 DEF ObserverFits, Completes, schedulerVars
<1> QED BY <1>3, <1>4, <1>5 DEF Moved, vars, schedulerVars

----------------------------------------------------------------------------
\* Who submits disposes of the recorders in its call.
LEMMA SubmittedIsWork ==
    ASSUME Types, CallsFit, NEW g \in Goroutines, op[g].kind \in SubmitKinds, pc[g] \in Submitting
    PROVE  /\ Working(g) /\ op[g].rec \in Recorders /\ op[g].rec \in RecsOf(g)
           /\ RecsOf(g) \subseteq Recorders
<1>1. op[g].recs \in SubmitArguments /\ op[g].rec = op[g].recs[1]
  BY DEF CallsFit, CallFits
<1>2. op[g].recs \in Seq(Recorders) /\ op[g].rec \in Recorders /\ op[g].rec \in RecsOf(g)
  BY <1>1, SubmitLists DEF RecorderLists, RecsOf
<1>3. RecsOf(g) \subseteq Recorders
  BY <1>2 DEF RecsOf, Range
<1> QED BY <1>2, <1>3 DEF Working, SubmitKinds

\* A batch has no Submission before Submit tracks it.
LEMMA SubmitFitsKept ==
    ASSUME Types, Account, OneCloser, CallsFit, Fitting, ClaimsApart, ClaimStates, Moved
    PROVE  \A h \in Goroutines : SubmitFits(h)'
<1>0. CallTypes /\ TrackingTypes
  BY DEF Types
<1>a. \A h \in Goroutines : SubmitFits(h) /\ ObserverFits(h)
  BY DEF Fitting
<1> USE DEF programVars, deviceVars, threadVars, trackingVars, Moves, Leaves, Only
<1>1. ASSUME NEW g \in Goroutines, GoroutineMoves(g), NEW h \in Goroutines, h # g,
             op[h].kind \in SubmitKinds, pc[h] \in Submitting
      PROVE  SubmitFits(h)'
  <2>1. Stay(g) /\ pc'[h] = pc[h] /\ op'[h] = op[h]
    BY <1>1, EveryMove DEF Stay
  <2>2. subState[op[h].rec] = "none" /\ op[h].rec \in Recorders
    BY <1>1, <1>a, SubmittedIsWork DEF SubmitFits
  <2>3. CASE UNCHANGED subState
    BY <2>1, <2>2, <2>3 DEF SubmitFits
  <2>4. CASE Tracks(g)
    <3>1. op[g].rec # op[h].rec
      BY <1>1, <2>4, SubmittedIsWork DEF Tracks, ClaimsApart, Submitting
    <3> QED BY <2>1, <2>2, <2>4, <3>1 DEF Tracks, SubmitFits
  <2>5. CASE LosesSubmission(g) \/ FinishesSubmission(g)
    <3>1. subState[op[g].rec] = "pending"
      BY <1>a, <2>5 DEF LosesSubmission, FinishesSubmission, ObserverFits, Outside, Closing
    <3>2. op[g].rec # op[h].rec
      BY <2>2, <3>1
    <3> QED BY <2>1, <2>2, <2>5, <3>2 DEF LosesSubmission, FinishesSubmission, SubmitFits
  <2>6. CASE Destroys(g)
    BY <1>1, <2>6, DestroyingSteps DEF Submitting, Outside, Closing
  <2>7. CASE \/ (\E call \in Calls : StartsCall(g, call)) \/ Returns(g) \/ BeginsClose(g) \/ Drains(g)
              \/ GoesOn(g) \/ EndsClose(g)
    BY <2>3, <2>7, OuterSteps DEF Outer, quietVars
  <2>8. CASE \/ LocksBuffer(g) \/ Records(g) \/ TakesRecorders(g) \/ ClosesBuffer(g)
             \/ IsRefused(g) \/ Reserves(g) \/ IsGranted(g) \/ SleepsOn(g) \/ Withdraws(g)
             \/ PutsOnQueue(g) \/ FailsToSubmit(g)
    BY <2>3, <2>8 DEF LocksBuffer, Records, TakesRecorders, ClosesBuffer, IsRefused, Reserves, IsGranted, SleepsOn,
        Withdraws, PutsOnQueue, FailsToSubmit
  <2>9. CASE EndsTransfer(g) \/ LosesTransfer(g) \/ RetainsBatch(g) \/ LocksSubmission(g) \/ SeesCompletion(g)
              \/ PollsInVain(g) \/ (\E b \in Buffers : DropsReference(g, b)) \/ Finishes(g) \/ FinishesCall(g)
              \/ EndsCall(g)
    BY <2>3, <2>9 DEF EndsTransfer, LosesTransfer, RetainsBatch, LocksSubmission, SeesCompletion, PollsInVain,
        DropsReference, Finishes, FinishesCall, EndsCall
  <2> QED BY <1>1, <2>4, <2>5, <2>6, <2>7, <2>8, <2>9 DEF GoroutineMoves, Destroys
<1>2. ASSUME NEW g \in Goroutines, GoroutineMoves(g), op'[g].kind \in SubmitKinds, pc'[g] \in Submitting
      PROVE  SubmitFits(g)'
  <2>1. SubmitFits(g)
    BY <1>a
  <2>2. CASE TakesRecorders(g)
    <3>1. op[g].recs \in SubmitArguments /\ op[g].rec = op[g].recs[1]
      BY <1>2, <2>2 DEF CallsFit, CallFits, TakesRecorders
    <3>2. op[g].rec \in Recorders /\ recState[op[g].rec] = "recording"
      BY <2>2, <3>1, SubmitLists DEF TakesRecorders, RecsOf
    <3>3. subState[op[g].rec] = "none"
      BY <3>2 DEF ClaimStates
    <3> QED BY <2>2, <3>3 DEF TakesRecorders, SubmitFits
  <2>3. CASE Reserves(g) \/ IsGranted(g) \/ SleepsOn(g) \/ PutsOnQueue(g)
    <3>1. op'[g] = op[g] /\ pc[g] \in Submitting /\ UNCHANGED subState
      BY <2>3 DEF Reserves, IsGranted, SleepsOn, PutsOnQueue, Submitting
    <3> QED BY <2>1, <3>1 DEF SubmitFits
  <2>4. CASE \/ (\E call \in Calls : StartsCall(g, call)) \/ Returns(g) \/ BeginsClose(g) \/ Drains(g)
              \/ GoesOn(g) \/ EndsClose(g)
    BY <1>2, <2>4, OuterSteps DEF Outer, Outside, Closing, Submitting
  <2>5. CASE \/ LocksBuffer(g) \/ Records(g) \/ ClosesBuffer(g) \/ IsRefused(g) \/ Withdraws(g)
             \/ FailsToSubmit(g) \/ EndsTransfer(g) \/ LosesTransfer(g) \/ Tracks(g) \/ RetainsBatch(g)
    BY <1>2, <2>5 DEF LocksBuffer, Records, ClosesBuffer, IsRefused, Withdraws, FailsToSubmit,
        EndsTransfer, LosesTransfer, Tracks, RetainsBatch, Unwound, Submitting, SubmitKinds
  <2>6. CASE \/ LocksSubmission(g) \/ SeesCompletion(g) \/ LosesSubmission(g) \/ PollsInVain(g)
              \/ (\E b \in Buffers : DropsReference(g, b)) \/ Finishes(g) \/ FinishesSubmission(g)
              \/ FinishesCall(g) \/ EndsCall(g)
    BY <1>2, <2>6 DEF LocksSubmission, SeesCompletion, LosesSubmission, PollsInVain, DropsReference, Finishes,
        FinishesSubmission, FinishesCall, EndsCall, Submitting
  <2>7. CASE Destroys(g)
    BY <1>2, <2>7, DestroyingSteps DEF Submitting, Outside, Closing
  <2> QED BY <1>2, <2>2, <2>3, <2>4, <2>5, <2>6, <2>7 DEF GoroutineMoves, Destroys
<1>3. ASSUME NEW g \in Goroutines, GoroutineMoves(g), NEW h \in Goroutines PROVE SubmitFits(h)'
  <2>1. h # g => pc'[h] = pc[h] /\ op'[h] = op[h]
    BY <1>3, EveryMove DEF Stay
  <2>2. CASE op'[h].kind \in SubmitKinds /\ pc'[h] \in Submitting
    BY <1>1, <1>2, <1>3, <2>1, <2>2
  <2>3. CASE ~(op'[h].kind \in SubmitKinds /\ pc'[h] \in Submitting)
    BY <2>3 DEF SubmitFits, Submitting, SubmitKinds
  <2> QED BY <2>2, <2>3
<1>4. CASE UNCHANGED <<pc, op, subState>>
  BY <1>a, <1>4 DEF SubmitFits
<1> QED BY <1>3, <1>4 DEF Moved, vars, Completes

\* A recorder is used by one call at a time.
LEMMA OneUserKept ==
    ASSUME Types, Account, OneCloser, OneUser, Moved
    PROVE  OneUser'
<1>0. CallTypes
  BY DEF Types
<1> USE DEF programVars, deviceVars, threadVars, trackingVars, Moves, Leaves
<1>1. ASSUME NEW g \in Goroutines, GoroutineMoves(g) PROVE OneUser'
  <2>1. Stay(g)
    BY <1>1, EveryMove
  <2>2. CASE op'[g].kind \in RecorderKinds =>
                op[g].kind \in RecorderKinds /\ RecsOf(g)' \subseteq RecsOf(g)
    <3> SUFFICES ASSUME NEW f \in Goroutines, NEW h \in Goroutines, op'[f].kind \in RecorderKinds,
                        op'[h].kind \in RecorderKinds, f # h
                 PROVE  RecsOf(f)' \cap RecsOf(h)' = {}
      BY DEF OneUser
    <3>1. /\ op[f].kind \in RecorderKinds /\ RecsOf(f)' \subseteq RecsOf(f)
          /\ op[h].kind \in RecorderKinds /\ RecsOf(h)' \subseteq RecsOf(h)
      BY <2>1, <2>2 DEF Stay, RecsOf
    <3> QED BY <3>1 DEF OneUser
  <2>3. ASSUME NEW call \in Calls, StartsCall(g, call) PROVE OneUser'
    <3>1. ASSUME NEW h \in Goroutines, h # g, op[h].kind \in RecorderKinds, call.kind \in RecorderKinds
          PROVE  Range(call.recs) \cap RecsOf(h) = {}
      BY <2>3, <3>1 DEF StartsCall, Allowed, UsesRecorder, RecsOf
    <3>2. op'[g] = call
      BY <2>3 DEF StartsCall
    <3> SUFFICES ASSUME NEW f \in Goroutines, NEW h \in Goroutines, op'[f].kind \in RecorderKinds,
                        op'[h].kind \in RecorderKinds, f # h
                 PROVE  RecsOf(f)' \cap RecsOf(h)' = {}
      BY DEF OneUser
    <3>3. CASE f # g /\ h # g
      BY <2>1, <3>3 DEF Stay, RecsOf, OneUser
    <3>4. CASE f = g
      BY <2>1, <3>1, <3>2, <3>4 DEF Stay, RecsOf
    <3>5. CASE h = g
      BY <2>1, <3>1, <3>2, <3>5 DEF Stay, RecsOf
    <3> QED BY <3>3, <3>4, <3>5
  <2>4. CASE op'[g] = op[g] \/ op'[g].kind \notin RecorderKinds
    BY <2>2, <2>4 DEF RecsOf
  <2>5. CASE Finishes(g)
    <3>1. op[g].recs # << >> /\ op[g].recs \in RecorderLists
      BY <1>0, <2>5, OpFields DEF Finishes, RecorderKinds
    <3>2. RecsOf(g)' \subseteq RecsOf(g)
      BY <2>5, <3>1, TailOfList DEF Finishes, RecsOf
    <3> QED BY <2>2, <2>5, <3>2 DEF Finishes
  <2>6. CASE Returns(g) \/ EndsClose(g) \/ Records(g) \/ ClosesBuffer(g) \/ EndsCall(g) \/ LocksSubmission(g)
    BY <2>4, <2>6 DEF Returns, EndsClose, Records, ClosesBuffer, EndsCall, LocksSubmission, NoOp, RecorderKinds,
        SubmitKinds, ObserverKinds
  <2>7. CASE BeginsClose(g) \/ Drains(g) \/ GoesOn(g) \/ LocksBuffer(g) \/ TakesRecorders(g)
             \/ IsRefused(g) \/ Reserves(g) \/ IsGranted(g) \/ SleepsOn(g) \/ Withdraws(g)
             \/ PutsOnQueue(g) \/ FailsToSubmit(g)
    BY <2>4, <2>7 DEF BeginsClose, Drains, GoesOn, LocksBuffer, TakesRecorders, IsRefused, Reserves, IsGranted,
        SleepsOn, Withdraws, PutsOnQueue, FailsToSubmit
  <2>8. CASE EndsTransfer(g) \/ LosesTransfer(g) \/ Tracks(g) \/ RetainsBatch(g)
             \/ SeesCompletion(g) \/ LosesSubmission(g) \/ PollsInVain(g)
             \/ (\E b \in Buffers : DropsReference(g, b)) \/ FinishesSubmission(g) \/ FinishesCall(g)
    BY <2>4, <2>8 DEF EndsTransfer, LosesTransfer, Tracks, RetainsBatch, SeesCompletion, LosesSubmission,
        PollsInVain, DropsReference, FinishesSubmission, FinishesCall
  <2>9. CASE Destroys(g)
    BY <2>4, <2>9, DestroyingSteps
  <2> QED BY <1>1, <2>3, <2>5, <2>6, <2>7, <2>8, <2>9 DEF GoroutineMoves, Destroys
<1>2. CASE UNCHANGED op
  BY <1>2 DEF OneUser, RecsOf
<1> QED BY <1>1, <1>2 DEF Moved, vars, Completes

----------------------------------------------------------------------------
\* Nobody gets hold of a recorder: what every claim held it held before.
Shrinks ==
    /\ \A h \in Goroutines : Working(h)' => Working(h) /\ RecsOf(h)' \subseteq RecsOf(h) /\ StateAt(h)' = StateAt(h)
    /\ \A x \in Recorders : Live(x)' => Live(x) /\ SubRecs(x)' = SubRecs(x)
    /\ \A x \in Recorders : subState'[x] # "none" => subState[x] # "none"

\* What one goroutine's step has to show for that.
LEMMA ShrinkingStep ==
    ASSUME NEW g \in Goroutines, Stay(g),
           Working(g)' => Working(g) /\ RecsOf(g)' \subseteq RecsOf(g) /\ StateAt(g)' = StateAt(g),
           pc[g] = "releasing" /\ op[g].kind \in ObserverKinds =>
              \/ pc'[g] = "releasing" /\ op'[g].kind \in ObserverKinds /\ op'[g].rec = op[g].rec
              \/ subState'[op[g].rec] = "done",
           \A x \in Recorders :
              /\ Tracked(x)' => Tracked(x) /\ subRecorders'[x] = subRecorders[x]
              /\ subState'[x] # "none" => subState[x] # "none"
    PROVE  Shrinks
<1>1. \A h \in Goroutines : h # g => (Working(h)' <=> Working(h)) /\ RecsOf(h)' = RecsOf(h) /\ StateAt(h)' = StateAt(h)
  BY DEF Stay, Working, RecsOf, StateAt
<1>2. ASSUME NEW x \in Recorders, Live(x)' PROVE Live(x) /\ SubRecs(x)' = SubRecs(x)
  <2>1. Tracked(x)' /\ Tracked(x) /\ subRecorders'[x] = subRecorders[x]
    BY <1>2 DEF Live
  <2>2. ASSUME NEW h \in Goroutines, pc[h] = "releasing", op[h].kind \in ObserverKinds, op[h].rec = x
        PROVE  FALSE
    <3>1. CASE h # g
      BY <1>2, <2>2, <3>1 DEF Stay, Live
    <3>2. CASE h = g
      BY <1>2, <2>1, <2>2, <3>2 DEF Live, Tracked
    <3> QED BY <3>1, <3>2
  <2> QED BY <2>1, <2>2 DEF Live, SubRecs
<1> QED BY <1>1, <1>2 DEF Shrinks

\* Then the claims stay apart.
LEMMA ShrinkingClaims ==
    ASSUME ClaimsApart, Shrinks
    PROVE  ClaimsApart'
<1>1. ASSUME NEW g \in Goroutines, NEW h \in Goroutines, Working(g)', Working(h)', g # h
      PROVE  RecsOf(g)' \cap RecsOf(h)' = {}
  BY <1>1 DEF Shrinks, ClaimsApart
<1>2. ASSUME NEW g \in Goroutines, NEW x \in Recorders, Working(g)', Live(x)'
      PROVE  RecsOf(g)' \cap SubRecs(x)' = {}
  BY <1>2 DEF Shrinks, ClaimsApart
<1>3. ASSUME NEW x \in Recorders, NEW y \in Recorders, Live(x)', Live(y)', x # y
      PROVE  SubRecs(x)' \cap SubRecs(y)' = {}
  BY <1>3 DEF Shrinks, ClaimsApart
<1> QED BY <1>1, <1>2, <1>3 DEF ClaimsApart

\* Then the claimed recorders keep the state they are claimed in.
LEMMA ShrinkingStates ==
    ASSUME ClaimStates, Shrinks, UNCHANGED recState
    PROVE  ClaimStates'
<1>1. ASSUME NEW g \in Goroutines, Working(g)', NEW r \in RecsOf(g)'
      PROVE  recState'[r] = StateAt(g)'
  BY <1>1 DEF Shrinks, ClaimStates
<1>2. ASSUME NEW x \in Recorders, Live(x)', NEW r \in SubRecs(x)'
      PROVE  recState'[r] = "unknown"
  BY <1>2 DEF Shrinks, ClaimStates
<1>3. \A x \in Recorders : subState'[x] # "none" => recState'[x] # "recording"
  BY DEF Shrinks, ClaimStates
<1> QED BY <1>1, <1>2, <1>3 DEF ClaimStates

\* Who answers for a reservation when all operations are over.
LEMMA KeptAtTheEnd ==
    ASSUME Owned, \A h \in Goroutines : pc[h] \in Outside
    PROVE  \A x \in Batches : ~Waits(caller, x) /\ (x \in activeSubmissions \/ batch[x] # "none" => Kept(x))
BY DEF Owned, Owner, Outside, Closing, Waits

\* Only three steps hand over recorders, and three others change their state.
LEMMA MostStepsShrink ==
    ASSUME Types, Account, OneCloser, CallsFit, Fitting, Reserved, Registered,
           NEW g \in Goroutines, GoroutineMoves(g)
    PROVE  \/ Shrinks /\ UNCHANGED recState
           \/ TakesRecorders(g) \/ Tracks(g) \/ SeesCompletion(g)
           \/ PutsOnQueue(g) \/ Finishes(g) \/ \E r \in Recorders : EndsRecorder(g, r)
<1>0. CallTypes
  BY DEF Types
<1> USE DEF programVars, deviceVars, threadVars, trackingVars, recorderVars, Moves, Leaves, Only
<1>1. Stay(g)
  BY EveryMove
<1>2. CASE UNCHANGED <<recState, subState, subRecorders>> /\ UNCHANGED <<pc, op>>
  <2>1. Shrinks
    BY <1>1, <1>2, ShrinkingStep DEF Working, RecsOf, StateAt, Tracked
  <2> QED BY <1>2, <2>1
<1>3. CASE /\ UNCHANGED <<recState, subState, subRecorders>>
           /\ pc[g] = "releasing" => op[g].kind \notin ObserverKinds
           /\ Working(g)' => Working(g) /\ RecsOf(g)' \subseteq RecsOf(g) /\ StateAt(g)' = StateAt(g)
  <2>1. Shrinks
    BY <1>1, <1>3, ShrinkingStep DEF Tracked
  <2> QED BY <1>3, <2>1
<1>4. CASE \/ (\E call \in Calls : StartsCall(g, call)) \/ Returns(g) \/ BeginsClose(g) \/ Drains(g)
           \/ GoesOn(g) \/ EndsClose(g)
  BY <1>3, <1>4, OuterSteps DEF Outer, quietVars, Outside, Closing, Working, Submitting
<1>5. CASE LocksBuffer(g) \/ Records(g) \/ ClosesBuffer(g) \/ EndsCall(g) \/ EndsTransfer(g) \/ LosesTransfer(g)
           \/ LocksSubmission(g) \/ PollsInVain(g) \/ FinishesCall(g) \/ RetainsBatch(g)
  <2>1. ~Working(g)'
    BY <1>5 DEF LocksBuffer, Records, ClosesBuffer, EndsCall, EndsTransfer, LosesTransfer, LocksSubmission,
        PollsInVain, FinishesCall, RetainsBatch, Working, Submitting
  <2>2. pc[g] = "releasing" => op[g].kind \notin ObserverKinds
    BY <1>5 DEF LocksBuffer, Records, ClosesBuffer, EndsCall, EndsTransfer, LosesTransfer, LocksSubmission,
        PollsInVain, FinishesCall, RetainsBatch, SubmitKinds, ObserverKinds
  <2>3. UNCHANGED <<recState, subState, subRecorders>>
    BY <1>5 DEF LocksBuffer, Records, ClosesBuffer, EndsCall, EndsTransfer, LosesTransfer, LocksSubmission,
        PollsInVain, FinishesCall, RetainsBatch
  <2> QED BY <1>3, <2>1, <2>2, <2>3
<1>6. CASE IsRefused(g) \/ Reserves(g) \/ IsGranted(g) \/ Withdraws(g) \/ FailsToSubmit(g)
  <2>1. /\ UNCHANGED <<recState, subState, subRecorders>>
        /\ op'[g] = op[g] /\ pc[g] \in Submitting \ {"track"} /\ op[g].kind \in QueueKinds
        /\ pc'[g] \in {"parked", "queueSubmit", "end", "releasing"}
    BY <1>6 DEF IsRefused, Reserves, IsGranted, Withdraws, FailsToSubmit, Unwound, Submitting
  <2> QED BY <1>3, <2>1 DEF Working, RecsOf, StateAt, Submitting, QueueKinds, ObserverKinds, SubmitKinds
<1>7. CASE LosesSubmission(g)
  <2>1. subState[op[g].rec] = "pending"
    BY <1>7 DEF LosesSubmission, Fitting, ObserverFits, Outside, Closing
  <2>2. \A x \in Recorders : /\ Tracked(x)' => Tracked(x)
                             /\ subState'[x] # "none" => subState[x] # "none"
    BY <1>7, <2>1 DEF LosesSubmission, Tracked
  <2>3. ~Working(g)' /\ pc[g] # "releasing" /\ UNCHANGED <<recState, subRecorders>>
    BY <1>7 DEF LosesSubmission, Working, Submitting
  <2> QED BY <1>1, <2>2, <2>3, ShrinkingStep
<1>8. CASE FinishesSubmission(g)
  <2>0. op[g].rec \in Recorders /\ subState[op[g].rec] = "pending"
    BY <1>0, <1>8, OpFields DEF FinishesSubmission, Fitting, ObserverFits, Outside, Closing
  <2>1. \A x \in Recorders : /\ Tracked(x)' => Tracked(x) /\ subRecorders'[x] = subRecorders[x]
                             /\ subState'[x] # "none" => subState[x] # "none"
    BY <1>8, <2>0 DEF FinishesSubmission, Tracked
  <2>2. ~Working(g)' /\ subState'[op[g].rec] = "done" /\ UNCHANGED recState
    BY <1>8 DEF FinishesSubmission, Working, Submitting
  <2> QED BY <1>1, <2>1, <2>2, ShrinkingStep
<1>9. ASSUME NEW r \in Recorders, EndsSubmission(g, r) PROVE Shrinks /\ UNCHANGED recState
  <2>0. UNCHANGED <<pc, op, recState>>
    BY <1>9 DEF EndsSubmission
  <2>a. subState[r] # "none"
    <3>1. \A h \in Goroutines : pc[h] \in Outside
      BY <1>9, DestroyingSteps DEF Destroys
    <3>2. r \in Batches /\ r \in activeSubmissions
      BY <1>9 DEF EndsSubmission, Frees, Batches
    <3>3. transients = {}
      BY <1>9 DEF EndsSubmission, LastChild, Registered
    <3> QED BY <3>1, <3>2, <3>3, KeptAtTheEnd DEF Reserved, Kept, InTransients, Tracked
  <2>1. \A x \in Recorders : /\ Tracked(x)' => Tracked(x) /\ subRecorders'[x] = subRecorders[x]
                             /\ subState'[x] # "none" => subState[x] # "none"
    BY <1>9, <2>a DEF EndsSubmission, Tracked
  <2> QED BY <1>1, <2>0, <2>1, ShrinkingStep DEF Working, RecsOf, StateAt
<1>10. CASE SleepsOn(g) \/ (\E b \in Buffers : DropsReference(g, b)) \/ (\E t \in transients : CleansUp(g, t))
            \/ (\E r \in Recorders : ForgetsSubmission(g, r) \/ ForgetsRecorder(g, r))
            \/ \E b \in Buffers : EndsBuffer(g, b)
  BY <1>2, <1>10 DEF SleepsOn, DropsReference, CleansUp, ForgetsSubmission, ForgetsRecorder, EndsBuffer
<1> QED BY <1>4, <1>5, <1>6, <1>7, <1>8, <1>9, <1>10 DEF GoroutineMoves

----------------------------------------------------------------------------
\* The recorders of calls and Submissions are recorders, in lists without repetition.
LEMMA WorkersFit ==
    ASSUME Types, CallsFit
    PROVE  /\ \A h \in Goroutines :
                 Working(h) => /\ op[h].kind \in RecorderKinds \cup ObserverKinds
                               /\ op[h].recs \in RecorderLists /\ RecsOf(h) \subseteq Recorders
           /\ \A x \in Recorders : SubRecs(x) \subseteq Recorders
<1>0. CallTypes /\ TrackingTypes
  BY DEF Types
<1>1. ASSUME NEW h \in Goroutines, Working(h)
      PROVE  /\ op[h].kind \in RecorderKinds \cup ObserverKinds
             /\ op[h].recs \in RecorderLists /\ RecsOf(h) \subseteq Recorders
  <2>1. op[h].kind \in RecorderKinds \cup ObserverKinds
    BY <1>1 DEF Working, CallsFit, CallFits, Submitting, QueueKinds, RecorderKinds
  <2>2. op[h].recs \in RecorderLists
    BY <1>0, <2>1, OpFields
  <2>3. RecsOf(h) \subseteq Recorders
    BY <2>2 DEF RecsOf, RecorderLists, Range
  <2> QED BY <2>1, <2>2, <2>3
<1>2. ASSUME NEW x \in Recorders PROVE SubRecs(x) \subseteq Recorders
  <2>1. subRecorders[x] \in Seq(Recorders)
    <3>1. << >> \in Seq(Recorders) /\ \A s \in SubmitArguments : s \in Seq(Recorders)
      BY SubmitLists DEF RecorderLists
    <3> QED BY <1>0, <3>1 DEF TrackingTypes
  <2> QED BY <2>1 DEF SubRecs, Range
<1> QED BY <1>1, <1>2

\* What a batch on the queue does to the recorders it takes along.
LEMMA PutsOnQueueClaims ==
    ASSUME Types, CallsFit, ClaimsApart, ClaimStates, NEW g \in Goroutines, PutsOnQueue(g)
    PROVE  ClaimsApart' /\ ClaimStates'
<1> USE DEF Moves
<1>1. Stay(g) /\ op'[g] = op[g] /\ pc[g] = "queueSubmit" /\ UNCHANGED <<subState, subRecorders>>
  BY DEF PutsOnQueue, trackingVars
<1>2. CASE op[g].kind = "transfer"
  <2>1. ~Working(g)' /\ UNCHANGED recState /\ pc[g] # "releasing"
    BY <1>1, <1>2 DEF PutsOnQueue, Working
  <2>2. Shrinks
    BY <1>1, <2>1, ShrinkingStep DEF Tracked
  <2> QED BY <2>1, <2>2, ShrinkingClaims, ShrinkingStates
<1>3. CASE op[g].kind # "transfer"
  <2>1. /\ pc'[g] = "track" /\ op[g].kind \in SubmitKinds
        /\ \A r \in Recorders : recState'[r] = IF r \in RecsOf(g) THEN "unknown" ELSE recState[r]
    BY <1>3 DEF PutsOnQueue, QueueKinds
  <2>2. Working(g) /\ Working(g)' /\ RecsOf(g)' = RecsOf(g) /\ StateAt(g)' = "unknown" /\ RecsOf(g) \subseteq Recorders
    BY <1>1, <2>1, SubmittedIsWork DEF Working, Submitting, RecsOf, StateAt
  <2>3. \A h \in Goroutines : h # g => /\ Working(h)' <=> Working(h)
                                       /\ RecsOf(h)' = RecsOf(h) /\ StateAt(h)' = StateAt(h)
    BY <1>1 DEF Stay, Working, RecsOf, StateAt
  <2>4. \A x \in Recorders : SubRecs(x)' = SubRecs(x) /\ (Live(x)' => Live(x))
    BY <1>1, <2>1 DEF Stay, Live, Tracked, SubRecs
  <2>5. ClaimsApart'
    <3>1. ASSUME NEW f \in Goroutines, NEW h \in Goroutines, Working(f)', Working(h)', f # h
          PROVE  RecsOf(f)' \cap RecsOf(h)' = {}
      BY <2>2, <2>3, <3>1 DEF ClaimsApart
    <3>2. ASSUME NEW f \in Goroutines, NEW x \in Recorders, Working(f)', Live(x)'
          PROVE  RecsOf(f)' \cap SubRecs(x)' = {}
      BY <2>2, <2>3, <2>4, <3>2 DEF ClaimsApart
    <3>3. ASSUME NEW x \in Recorders, NEW y \in Recorders, Live(x)', Live(y)', x # y
          PROVE  SubRecs(x)' \cap SubRecs(y)' = {}
      BY <2>4, <3>3 DEF ClaimsApart
    <3> QED BY <3>1, <3>2, <3>3 DEF ClaimsApart
  <2>6. ClaimStates'
    <3>1. ASSUME NEW h \in Goroutines, Working(h)', NEW r \in RecsOf(h)' PROVE recState'[r] = StateAt(h)'
      <4>1. CASE h = g
        BY <2>1, <2>2, <3>1, <4>1
      <4>2. CASE h # g
        <5>1. Working(h) /\ r \in RecsOf(h) /\ r \in Recorders /\ StateAt(h)' = StateAt(h)
          BY <2>3, <3>1, <4>2, WorkersFit
        <5>2. r \notin RecsOf(g) /\ recState[r] = StateAt(h)
          BY <2>2, <4>2, <5>1 DEF ClaimsApart, ClaimStates
        <5> QED BY <2>1, <5>1, <5>2
      <4> QED BY <4>1, <4>2
    <3>2. ASSUME NEW x \in Recorders, Live(x)', NEW r \in SubRecs(x)' PROVE recState'[r] = "unknown"
      <4>1. Live(x) /\ r \in SubRecs(x) /\ r \in Recorders
        BY <2>4, <3>2, WorkersFit
      <4> QED BY <2>1, <4>1 DEF ClaimStates
    <3>3. \A x \in Recorders : subState'[x] # "none" => recState'[x] # "recording"
      BY <1>1, <2>1 DEF ClaimStates
    <3> QED BY <3>1, <3>2, <3>3 DEF ClaimStates
  <2> QED BY <2>5, <2>6
<1> QED BY <1>2, <1>3

\* A recorder leaves its call when it is finished.
LEMMA FinishesClaims ==
    ASSUME Types, CallsFit, ClaimsApart, ClaimStates, NEW g \in Goroutines, Finishes(g)
    PROVE  ClaimsApart' /\ ClaimStates'
<1>1. /\ Stay(g) /\ pc[g] = "releasing" /\ pc'[g] = "releasing"
      /\ op'[g].kind = op[g].kind /\ op'[g].rec = op[g].rec /\ op'[g].recs = Tail(op[g].recs)
      /\ op[g].recs # << >> /\ UNCHANGED <<subState, subRecorders>>
      /\ op[g].kind \in SubmitKinds \cup ObserverKinds \cup {"abort"}
  BY DEF Finishes, trackingVars
<1>2. Working(g) /\ op[g].recs \in RecorderLists
  BY <1>1, WorkersFit DEF Working, SubmitKinds, ObserverKinds
<1>3. PICK q \in Recorders : q = op[g].recs[1]
  BY <1>1, <1>2, TailOfList
<1>4. q \in RecsOf(g) /\ RecsOf(g)' = RecsOf(g) \ {q}
  BY <1>1, <1>2, <1>3, TailOfList DEF RecsOf
<1>5. recState'[q] \in {"submitted", "aborted"} /\ \A r \in Recorders : r # q => recState'[r] = recState[r]
  BY <1>3 DEF Finishes, Only
<1>6. Shrinks
  <2>1. Working(g)' => Working(g) /\ RecsOf(g)' \subseteq RecsOf(g) /\ StateAt(g)' = StateAt(g)
    BY <1>1, <1>2, <1>4 DEF StateAt
  <2> QED BY <1>1, <2>1, ShrinkingStep DEF Tracked
<1>7. ClaimStates'
  <2>1. ASSUME NEW h \in Goroutines, Working(h)', NEW r \in RecsOf(h)' PROVE recState'[r] = StateAt(h)'
    <3>1. Working(h) /\ r \in RecsOf(h) /\ StateAt(h)' = StateAt(h) /\ r \in Recorders
      BY <1>6, <2>1, WorkersFit DEF Shrinks
    <3>2. r # q
      BY <1>2, <1>4, <2>1, <3>1 DEF ClaimsApart
    <3> QED BY <1>5, <3>1, <3>2 DEF ClaimStates
  <2>2. ASSUME NEW x \in Recorders, Live(x)', NEW r \in SubRecs(x)' PROVE recState'[r] = "unknown"
    <3>1. Live(x) /\ r \in SubRecs(x) /\ r \in Recorders
      BY <1>6, <2>2, WorkersFit DEF Shrinks
    <3>2. r # q
      BY <1>2, <1>4, <3>1 DEF ClaimsApart
    <3> QED BY <1>5, <3>1, <3>2 DEF ClaimStates
  <2>3. \A x \in Recorders : subState'[x] # "none" => recState'[x] # "recording"
    BY <1>1, <1>5 DEF ClaimStates
  <2> QED BY <2>1, <2>2, <2>3 DEF ClaimStates
<1> QED BY <1>6, <1>7, ShrinkingClaims

\* When Device.Close comes to a recorder it has closed all Submissions.
LEMMA EndsRecorderIsLate ==
    ASSUME Types, Registered, NEW g \in Goroutines, NEW child, LastChild(g, child), child[1] # "submission"
    PROVE  \A x \in Recorders : ~Tracked(x)
<1>1. closeList \in Seq(Children) /\ Listed(closeList) /\ SubmissionsLast(closeList)
  BY DEF Types, DeviceTypes, Registered, LastChild, Destroying
<1>2. \A y \in Range(closeList) : y[1] # "submission"
  BY <1>1, LastIsNoSubmission DEF LastChild
<1>3. \A x \in Recorders : Tracked(x) => <<"submission", x>> \in Range(closeList)
  BY <1>1 DEF Listed
<1> QED BY <1>2, <1>3

\* Device.Close finishes recorders when nobody disposes of any.
LEMMA EndsRecorderClaims ==
    ASSUME Types, Account, OneCloser, ClaimStates, Registered,
           NEW g \in Goroutines, NEW r \in Recorders, EndsRecorder(g, r)
    PROVE  ClaimsApart' /\ ClaimStates'
<1>1. /\ UNCHANGED <<pc, op, subState>> /\ LastChild(g, <<"recorder", r>>)
      /\ recState'[r] \in {"submitted", "aborted"} /\ Only(recState, recState', Recorders, r)
  BY DEF EndsRecorder, trackingVars, threadVars
<1>2. \A h \in Goroutines : pc[h] \in Outside
  BY DestroyingSteps DEF Destroys
<1>3. \A h \in Goroutines : ~Working(h)'
  BY <1>1, <1>2 DEF Working, Submitting, Outside, Closing
<1>4. \A x \in Recorders : ~Live(x)'
  BY <1>1, EndsRecorderIsLate DEF Live, Tracked
<1>5. \A x \in Recorders : subState'[x] # "none" => recState'[x] # "recording"
  BY <1>1 DEF ClaimStates, Only
<1> QED BY <1>3, <1>4, <1>5 DEF ClaimsApart, ClaimStates

\* No recorder is in two calls, two Submissions, or a call and a Submission, on any
\* path through Submit, Wait, Poll, Abort and Device.Close, and each is in the state
\* that its owner counts on.
LEMMA ClaimsKept ==
    ASSUME Types, Account, OneCloser, CallsFit, Fitting, OneUser, ClaimsApart, ClaimStates, Reserved, Registered, Moved
    PROVE  ClaimsApart' /\ ClaimStates'
<1>0. CallTypes /\ RecorderTypes /\ TrackingTypes
  BY DEF Types
<1> USE DEF programVars, deviceVars, threadVars, trackingVars, recorderVars, Moves, Leaves, Only
<1>1. ASSUME NEW g \in Goroutines, GoroutineMoves(g) PROVE ClaimsApart' /\ ClaimStates'
  <2>1. Stay(g)
    BY <1>1, EveryMove
  <2>b. \A h \in Goroutines : h # g => /\ Working(h)' <=> Working(h)
                                       /\ RecsOf(h)' = RecsOf(h) /\ StateAt(h)' = StateAt(h)
    BY <2>1 DEF Stay, Working, RecsOf, StateAt
  <2>2. CASE Shrinks /\ UNCHANGED recState
    BY <2>2, ShrinkingClaims, ShrinkingStates
  <2>3. CASE TakesRecorders(g)
    <3>1. /\ RecsOf(g)' = RecsOf(g) /\ UNCHANGED <<recState, subState, subRecorders>>
          /\ op[g].kind \in RecorderKinds /\ \A r \in RecsOf(g) : recState[r] = "recording"
          /\ StateAt(g)' = "recording" /\ pc'[g] # "track"
      BY <2>3 DEF TakesRecorders, RecsOf, StateAt, RecorderKinds, SubmitKinds, ObserverKinds
    <3>2. \A x \in Recorders : SubRecs(x)' = SubRecs(x) /\ (Live(x)' => Live(x))
      BY <2>1, <2>3, <3>1 DEF TakesRecorders, Stay, Live, Tracked, SubRecs
    <3>3. ASSUME NEW h \in Goroutines, h # g, Working(h) PROVE RecsOf(g) \cap RecsOf(h) = {}
      <4>1. CASE op[h].kind \in RecorderKinds
        BY <3>1, <3>3, <4>1 DEF OneUser
      <4>2. CASE op[h].kind \in ObserverKinds
        BY <3>1, <3>3, <4>2 DEF ClaimStates, StateAt
      <4> QED BY <3>3, <4>1, <4>2, WorkersFit
    <3>4. ASSUME NEW x \in Recorders, Live(x) PROVE RecsOf(g) \cap SubRecs(x) = {}
      BY <3>1, <3>4 DEF ClaimStates
    <3>5. ClaimsApart'
      <4>1. ASSUME NEW f \in Goroutines, NEW h \in Goroutines, Working(f)', Working(h)', f # h
            PROVE  RecsOf(f)' \cap RecsOf(h)' = {}
        BY <2>b, <3>1, <3>3, <4>1 DEF ClaimsApart
      <4>2. ASSUME NEW f \in Goroutines, NEW x \in Recorders, Working(f)', Live(x)'
            PROVE  RecsOf(f)' \cap SubRecs(x)' = {}
        BY <2>b, <3>1, <3>2, <3>4, <4>2 DEF ClaimsApart
      <4>3. ASSUME NEW x \in Recorders, NEW y \in Recorders, Live(x)', Live(y)', x # y
            PROVE  SubRecs(x)' \cap SubRecs(y)' = {}
        BY <3>2, <4>3 DEF ClaimsApart
      <4> QED BY <4>1, <4>2, <4>3 DEF ClaimsApart
    <3>6. ClaimStates'
      <4>1. ASSUME NEW h \in Goroutines, Working(h)', NEW r \in RecsOf(h)' PROVE recState'[r] = StateAt(h)'
        <5>1. CASE h = g
          BY <3>1, <4>1, <5>1
        <5>2. CASE h # g
          BY <2>b, <3>1, <4>1, <5>2 DEF ClaimStates
        <5> QED BY <5>1, <5>2
      <4>2. ASSUME NEW x \in Recorders, Live(x)', NEW r \in SubRecs(x)' PROVE recState'[r] = "unknown"
        BY <3>1, <3>2, <4>2 DEF ClaimStates
      <4>3. \A x \in Recorders : subState'[x] # "none" => recState'[x] # "recording"
        BY <3>1 DEF ClaimStates
      <4> QED BY <4>1, <4>2, <4>3 DEF ClaimStates
    <3> QED BY <3>5, <3>6
  <2>4. CASE Tracks(g)
    <3>0. PICK q \in Recorders : q = op[g].rec
      BY <1>0, <2>4, OpFields DEF Tracks, RecorderKinds
    <3>1. /\ Working(g) /\ q \in RecsOf(g) /\ subState[q] = "none" /\ StateAt(g) = "unknown" /\ ~Working(g)'
          /\ op[g].kind \notin ObserverKinds
      BY <2>4, <3>0, SubmittedIsWork DEF Tracks, Submitting, Fitting, SubmitFits, StateAt, Working, SubmitKinds, ObserverKinds
    <3>2. /\ subState'[q] = "pending" /\ SubRecs(q)' = RecsOf(g) /\ UNCHANGED recState
          /\ \A x \in Recorders : x # q => subState'[x] = subState[x] /\ SubRecs(x)' = SubRecs(x)
      BY <2>4, <3>0 DEF Tracks, SubRecs, RecsOf
    <3>3. \A x \in Recorders : x # q /\ Live(x)' => Live(x)
      BY <2>1, <3>1, <3>2 DEF Stay, Live, Tracked
    <3>4. ClaimsApart'
      <4>1. ASSUME NEW f \in Goroutines, NEW h \in Goroutines, Working(f)', Working(h)', f # h
            PROVE  RecsOf(f)' \cap RecsOf(h)' = {}
        BY <2>b, <3>1, <4>1 DEF ClaimsApart
      <4>2. ASSUME NEW f \in Goroutines, NEW x \in Recorders, Working(f)', Live(x)'
            PROVE  RecsOf(f)' \cap SubRecs(x)' = {}
        <5>1. f # g /\ Working(f) /\ RecsOf(f)' = RecsOf(f)
          BY <2>b, <3>1, <4>2
        <5>2. CASE x = q
          BY <3>1, <3>2, <5>1, <5>2 DEF ClaimsApart
        <5>3. CASE x # q
          BY <3>2, <3>3, <4>2, <5>1, <5>3 DEF ClaimsApart
        <5> QED BY <5>2, <5>3
      <4>3. ASSUME NEW x \in Recorders, NEW y \in Recorders, Live(x)', Live(y)', x # y
            PROVE  SubRecs(x)' \cap SubRecs(y)' = {}
        <5>1. CASE x = q
          BY <3>1, <3>2, <3>3, <4>3, <5>1 DEF ClaimsApart
        <5>2. CASE y = q
          BY <3>1, <3>2, <3>3, <4>3, <5>2 DEF ClaimsApart
        <5>3. CASE x # q /\ y # q
          BY <3>2, <3>3, <4>3, <5>3 DEF ClaimsApart
        <5> QED BY <5>1, <5>2, <5>3
      <4> QED BY <4>1, <4>2, <4>3 DEF ClaimsApart
    <3>5. ClaimStates'
      <4>1. ASSUME NEW h \in Goroutines, Working(h)', NEW r \in RecsOf(h)' PROVE recState'[r] = StateAt(h)'
        BY <2>b, <3>1, <3>2, <4>1 DEF ClaimStates
      <4>2. ASSUME NEW x \in Recorders, Live(x)', NEW r \in SubRecs(x)' PROVE recState'[r] = "unknown"
        <5>1. CASE x = q
          BY <3>1, <3>2, <4>2, <5>1 DEF ClaimStates
        <5>2. CASE x # q
          BY <3>2, <3>3, <4>2, <5>2 DEF ClaimStates
        <5> QED BY <5>1, <5>2
      <4>3. \A x \in Recorders : subState'[x] # "none" => recState'[x] # "recording"
        <5>1. recState[q] = "unknown"
          BY <3>1 DEF ClaimStates
        <5> QED BY <3>2, <5>1 DEF ClaimStates
      <4> QED BY <4>1, <4>2, <4>3 DEF ClaimStates
    <3> QED BY <3>4, <3>5
  <2>5. CASE SeesCompletion(g)
    <3>0. PICK q \in Recorders : q = op[g].rec
      BY <1>0, <2>5, OpFields DEF SeesCompletion
    <3>1. /\ subMu[q] = g /\ subState[q] = "pending" /\ RecsOf(g) = SubRecs(q)
          /\ op[g].kind \in ObserverKinds /\ StateAt(g)' = "unknown"
      BY <2>5, <3>0 DEF SeesCompletion, Fitting, ObserverFits, Outside, Closing, RecsOf, SubRecs, StateAt
    <3>2. Live(q)
      <4>1. ASSUME NEW h \in Goroutines, pc[h] = "releasing", op[h].kind \in ObserverKinds, op[h].rec = q
            PROVE  FALSE
        <5>1. subMu[q] = h
          BY <4>1 DEF Fitting, ObserverFits, Outside, Closing
        <5>2. h = g
          BY <3>1, <5>1
        <5> QED BY <2>5, <4>1, <5>2 DEF SeesCompletion
      <4> QED BY <3>1, <4>1 DEF Live, Tracked
    <3>3. /\ UNCHANGED recState /\ RecsOf(g)' = RecsOf(g) /\ ~Live(q)'
          /\ \A x \in Recorders : SubRecs(x)' = SubRecs(x) /\ subState'[x] = subState[x] /\ (Live(x)' => Live(x))
      BY <2>1, <2>5, <3>0 DEF SeesCompletion, RecsOf, SubRecs, Live, Tracked, Stay
    <3>4. ClaimsApart'
      <4>1. ASSUME NEW f \in Goroutines, NEW h \in Goroutines, Working(f)', Working(h)', f # h
            PROVE  RecsOf(f)' \cap RecsOf(h)' = {}
        <5>1. CASE f = g
          BY <2>b, <3>1, <3>2, <3>3, <4>1, <5>1 DEF ClaimsApart
        <5>2. CASE h = g
          BY <2>b, <3>1, <3>2, <3>3, <4>1, <5>2 DEF ClaimsApart
        <5>3. CASE f # g /\ h # g
          BY <2>b, <4>1, <5>3 DEF ClaimsApart
        <5> QED BY <5>1, <5>2, <5>3
      <4>2. ASSUME NEW f \in Goroutines, NEW x \in Recorders, Working(f)', Live(x)'
            PROVE  RecsOf(f)' \cap SubRecs(x)' = {}
        <5>1. CASE f = g
          BY <3>1, <3>2, <3>3, <4>2, <5>1 DEF ClaimsApart
        <5>2. CASE f # g
          BY <2>b, <3>3, <4>2, <5>2 DEF ClaimsApart
        <5> QED BY <5>1, <5>2
      <4>3. ASSUME NEW x \in Recorders, NEW y \in Recorders, Live(x)', Live(y)', x # y
            PROVE  SubRecs(x)' \cap SubRecs(y)' = {}
        BY <3>3, <4>3 DEF ClaimsApart
      <4> QED BY <4>1, <4>2, <4>3 DEF ClaimsApart
    <3>5. ClaimStates'
      <4>1. ASSUME NEW h \in Goroutines, Working(h)', NEW r \in RecsOf(h)' PROVE recState'[r] = StateAt(h)'
        <5>1. CASE h = g
          BY <3>1, <3>2, <3>3, <4>1, <5>1 DEF ClaimStates
        <5>2. CASE h # g
          BY <2>b, <3>3, <4>1, <5>2 DEF ClaimStates
        <5> QED BY <5>1, <5>2
      <4>2. ASSUME NEW x \in Recorders, Live(x)', NEW r \in SubRecs(x)' PROVE recState'[r] = "unknown"
        BY <3>3, <4>2 DEF ClaimStates
      <4>3. \A x \in Recorders : subState'[x] # "none" => recState'[x] # "recording"
        BY <3>3 DEF ClaimStates
      <4> QED BY <4>1, <4>2, <4>3 DEF ClaimStates
    <3> QED BY <3>4, <3>5
  <2>6. CASE PutsOnQueue(g)
    BY <2>6, PutsOnQueueClaims
  <2>7. CASE Finishes(g)
    BY <2>7, FinishesClaims
  <2>8. ASSUME NEW r \in Recorders, EndsRecorder(g, r) PROVE ClaimsApart' /\ ClaimStates'
    BY <2>8, EndsRecorderClaims
  <2> QED BY <1>1, <2>2, <2>3, <2>4, <2>5, <2>6, <2>7, <2>8, MostStepsShrink
<1>2. CASE UNCHANGED <<pc, op, recState, subState, subRecorders>>
  BY <1>2 DEF ClaimsApart, ClaimStates, Working, RecsOf, Live, Tracked, SubRecs, StateAt
<1> QED BY <1>1, <1>2 DEF Moved, vars, Completes

----------------------------------------------------------------------------
(* Reservations, children, uses and references. *)

\* A goroutine with a place in the queue or a reservation, or about to ask for one.
Owning(g) == op[g].kind \in QueueKinds /\ pc[g] \in {"parked", "queueSubmit", "waitFence", "track"}
Reserving(g) == Owning(g) \/ (op[g].kind \in QueueKinds /\ pc[g] = "acquire")

Holds(g, x, labels) == pc[g] \in labels /\ op[g].kind \in QueueKinds /\ Batch(g) = x

\* No two goroutines have the same batch, and none has that of a Submission.
LEMMA BatchesDiffer ==
    ASSUME Types, CallsFit, Fitting, ClaimsApart, NEW g \in Goroutines, Reserving(g)
    PROVE  /\ Batch(g) \in Batches
           /\ op[g].kind = "transfer" => Batch(g) = g /\ g \notin Recorders
           /\ op[g].kind # "transfer" => Batch(g) = op[g].rec /\ Batch(g) \in Recorders
                                         /\ op[g].kind \in SubmitKinds /\ pc[g] \in Submitting
           /\ \A h \in Goroutines : Reserving(h) /\ h # g => Batch(h) # Batch(g)
           /\ Batch(g) \in Recorders => subState[Batch(g)] = "none"
<1>1. ASSUME NEW h \in Goroutines, Reserving(h)
      PROVE  \/ op[h].kind = "transfer" /\ Batch(h) = h /\ h \notin Recorders
             \/ /\ op[h].kind \in SubmitKinds /\ op[h].kind # "transfer" /\ pc[h] \in Submitting
                /\ Batch(h) = op[h].rec /\ Batch(h) \in Recorders /\ Working(h) /\ Batch(h) \in RecsOf(h)
                /\ subState[Batch(h)] = "none"
  <2>1. op[h].kind = "transfer" \/ (op[h].kind \in SubmitKinds /\ op[h].kind # "transfer" /\ pc[h] \in Submitting)
    BY <1>1 DEF Reserving, Owning, QueueKinds, SubmitKinds, Submitting, CallsFit, CallFits, ObserverKinds
  <2>2. CASE op[h].kind = "transfer"
    BY <2>2, QueueAssumption DEF Batch
  <2>3. CASE op[h].kind \in SubmitKinds /\ op[h].kind # "transfer" /\ pc[h] \in Submitting
    BY <2>3, SubmittedIsWork DEF Batch, Fitting, SubmitFits
  <2> QED BY <2>1, <2>2, <2>3
<1>2. ASSUME NEW h \in Goroutines, Reserving(h), h # g PROVE Batch(h) # Batch(g)
  <2>1. CASE op[h].kind = "transfer" \/ op[g].kind = "transfer"
    BY <1>1, <1>2, <2>1 DEF Batch
  <2>2. CASE op[h].kind # "transfer" /\ op[g].kind # "transfer"
    BY <1>1, <1>2, <2>2 DEF ClaimsApart
  <2> QED BY <2>1, <2>2
<1>3. op[g].kind = "transfer" \/ Batch(g) \in Recorders
  BY <1>1
<1> QED BY <1>1, <1>2, <1>3 DEF Batches

\* Most steps leave every reservation alone.
Rests(g) ==
    Stay(g) /\ ~Owning(g) /\ ~Owning(g)' /\ UNCHANGED <<schedulerVars, transients, subState, batch>>

\* The steps that do not leave them alone.
LEMMA RestingSteps ==
    ASSUME Types, CallsFit, Account, OneCloser, NEW g \in Goroutines, GoroutineMoves(g)
    PROVE  \/ Rests(g)
           \/ Reserves(g) \/ IsGranted(g) \/ SleepsOn(g) \/ Withdraws(g) \/ PutsOnQueue(g) \/ FailsToSubmit(g)
           \/ EndsTransfer(g) \/ LosesTransfer(g) \/ Tracks(g) \/ RetainsBatch(g)
           \/ SeesCompletion(g) \/ LosesSubmission(g) \/ FinishesSubmission(g)
           \/ (\E t \in transients : CleansUp(g, t)) \/ \E r \in Recorders : EndsSubmission(g, r)
<1> USE DEF programVars, trackingVars, deviceVars, Moves, Leaves, Owning
<1>1. Stay(g)
  BY EveryMove
<1>2. CASE \/ (\E call \in Calls : StartsCall(g, call)) \/ Returns(g) \/ BeginsClose(g) \/ Drains(g)
           \/ GoesOn(g) \/ EndsClose(g)
  BY <1>2, OuterSteps DEF Outer, quietVars, Outside, Closing, Rests
<1>3. CASE LocksBuffer(g) \/ Records(g) \/ TakesRecorders(g) \/ ClosesBuffer(g) \/ EndsCall(g) \/ IsRefused(g)
  BY <1>1, <1>3 DEF LocksBuffer, Records, TakesRecorders, ClosesBuffer, EndsCall, IsRefused, Unwound, Rests
<1>4. CASE LocksSubmission(g) \/ PollsInVain(g) \/ FinishesCall(g)
  BY <1>1, <1>4 DEF LocksSubmission, PollsInVain, FinishesCall, Rests, QueueKinds, SubmitKinds, ObserverKinds
<1>5. CASE (\E b \in Buffers : DropsReference(g, b)) \/ Finishes(g)
  BY <1>1, <1>5 DEF DropsReference, Finishes, Rests, threadVars
<1>6. CASE \/ (\E r \in Recorders : ForgetsSubmission(g, r) \/ ForgetsRecorder(g, r) \/ EndsRecorder(g, r))
           \/ \E b \in Buffers : EndsBuffer(g, b)
  BY <1>1, <1>6 DEF ForgetsSubmission, ForgetsRecorder, EndsRecorder, EndsBuffer, LastChild, Rests, threadVars
<1> QED BY <1>2, <1>3, <1>4, <1>5, <1>6 DEF GoroutineMoves

\* A Device that is not open stays so.
LEMMA StatusGoesOn ==
    ASSUME Types, Moved, status # "open"
    PROVE  status' # "open"
BY EveryMove DEF Moved, Completes, vars, deviceVars, Enters, Exits, Works, Idles, Closes

\* What a step of g has to show for the reservations and batches to keep an owner.
LEMMA OwnedStep ==
    ASSUME Owned, NEW g \in Goroutines, Stay(g),
           \A x \in Batches :
              /\ Waits(caller', x) => \/ Holds(g, x, {"parked"})'
                                      \/ Waits(caller, x) /\ ~Holds(g, x, {"parked"})
              /\ x \in activeSubmissions' =>
                    \/ Holds(g, x, {"queueSubmit", "waitFence", "track"})' \/ Kept(x)'
                    \/ /\ x \in activeSubmissions /\ ~Holds(g, x, {"queueSubmit", "waitFence", "track"})
                       /\ ~Kept(x)
              /\ batch'[x] # "none" =>
                    \/ Holds(g, x, {"waitFence", "track"})' \/ Kept(x)'
                    \/ batch[x] # "none" /\ ~Holds(g, x, {"waitFence", "track"}) /\ ~Kept(x)
    PROVE  Owned'
<1>1. ASSUME NEW x \in Batches, NEW labels, Owner(x, labels), ~Holds(g, x, labels)
      PROVE  Owner(x, labels)'
  <2>1. PICK h \in Goroutines : Holds(h, x, labels)
    BY <1>1 DEF Owner, Holds
  <2>2. h # g
    BY <1>1, <2>1
  <2>3. Holds(h, x, labels)'
    BY <2>1, <2>2 DEF Stay, Holds, Batch
  <2> QED BY <2>3 DEF Owner, Holds
<1>2. ASSUME NEW x \in Batches, NEW labels, Holds(g, x, labels)' PROVE Owner(x, labels)'
  BY <1>2 DEF Owner, Holds
<1>3. ASSUME NEW x \in Batches, Waits(caller', x) PROVE Owner(x, {"parked"})'
  BY <1>1, <1>2, <1>3 DEF Owned, Waits
<1>4. ASSUME NEW x \in Batches, x \in activeSubmissions'
      PROVE  Owner(x, {"queueSubmit", "waitFence", "track"})' \/ Kept(x)'
  BY <1>1, <1>2, <1>4 DEF Owned
<1>5. ASSUME NEW x \in Batches, batch'[x] # "none"
      PROVE  Owner(x, {"waitFence", "track"})' \/ Kept(x)'
  BY <1>1, <1>2, <1>5 DEF Owned
<1> QED BY <1>3, <1>4, <1>5 DEF Owned, Waits

\* The other goroutines' batches.
Others(g, y) == \E h \in Goroutines : h # g /\ Owning(h) /\ Batch(h) = y

\* They are not this goroutine's, and have no Submission.
LEMMA OthersDiffer ==
    ASSUME Types, CallsFit, Fitting, ClaimsApart, NEW g \in Goroutines
    PROVE  /\ Reserving(g) => ~Others(g, Batch(g))
           /\ \A y \in Recorders : Others(g, y) => subState[y] = "none"
           /\ ~Others(g, g)
<1>1. Reserving(g) => ~Others(g, Batch(g))
  BY BatchesDiffer DEF Others, Reserving
<1>2. ASSUME NEW h \in Goroutines, Owning(h)
      PROVE  /\ Batch(h) \in Recorders => subState[Batch(h)] = "none"
             /\ h # g => Batch(h) # g
  BY <1>2, BatchesDiffer, QueueAssumption DEF Reserving
<1> QED BY <1>1, <1>2 DEF Others, Batch

\* What it has to show for the other goroutines to keep their reservations.
LEMMA GrantedStep ==
    ASSUME Types, CallsFit, Fitting, ClaimsApart, \A h \in Goroutines : Granted(h),
           NEW g \in Goroutines, Stay(g), Granted(g)',
           \A y \in Batches : Others(g, y) => /\ y \in activeSubmissions => y \in activeSubmissions'
                                              /\ InTransients(y)' => InTransients(y)
                                              /\ batch'[y] = batch[y]
    PROVE  \A h \in Goroutines : Granted(h)'
<1>1. ASSUME NEW h \in Goroutines, h # g PROVE Granted(h)'
  <2>1. pc'[h] = pc[h] /\ op'[h] = op[h] /\ Batch(h)' = Batch(h)
    BY <1>1 DEF Stay, Batch
  <2>2. CASE Owning(h)
    <3>1. PICK y \in Batches : y = Batch(h) /\ Others(g, y)
      BY <1>1, <2>2, BatchesDiffer DEF Reserving, Others
    <3>2. Batch(h)' = y
      BY <2>1, <3>1
    <3>3. Granted(h)
      OBVIOUS
    <3> QED BY <2>1, <3>1, <3>2, <3>3 DEF Granted
  <2>3. CASE ~Owning(h)
    BY <2>1, <2>3 DEF Owning, Granted
  <2> QED BY <2>2, <2>3
<1> QED BY <1>1

----------------------------------------------------------------------------
\* A retained batch.
LEMMA RetainedBatch ==
    ASSUME NEW x, NEW b, transients' = transients \cup {<<x, b>>}
    PROVE  \A y : InTransients(y)' <=> InTransients(y) \/ y = x
<1>1. <<x, b>>[1] = x /\ <<x, b>> \in transients'
  OBVIOUS
<1>2. ASSUME NEW y, InTransients(y)' PROVE InTransients(y) \/ y = x
  <2>1. PICK t \in transients' : t[1] = y
    BY <1>2 DEF InTransients
  <2>2. CASE t \in transients
    BY <2>1, <2>2 DEF InTransients
  <2>3. CASE t = <<x, b>>
    BY <1>1, <2>1, <2>3
  <2> QED BY <2>1, <2>2, <2>3
<1>3. ASSUME NEW y, InTransients(y) PROVE InTransients(y)'
  BY <1>3 DEF InTransients
<1>4. InTransients(x)'
  BY <1>1 DEF InTransients
<1> QED BY <1>2, <1>3, <1>4

\* A reservation, and a batch, always has an owner.
LEMMA OwnedKept ==
    ASSUME Types, CallsFit, Account, OneCloser, Fitting, ClaimsApart, Reserved, Moved
    PROVE  Owned'
<1>0. Owned
  BY DEF Reserved
<1> USE DEF programVars, deviceVars, threadVars, trackingVars, Moves, Leaves, Only
<1>1. ASSUME NEW g \in Goroutines, GoroutineMoves(g) PROVE Owned'
  <2>1. Stay(g)
    BY <1>1, EveryMove
  <2>q. ASSUME Owning(g) \/ Reserving(g), op'[g] = op[g]
        PROVE  \E q \in Batches : q = Batch(g) /\ Batch(g)' = q
    BY <2>q, BatchesDiffer DEF Reserving, Batch
  <2> DEFINE Fits(y) ==
              /\ Waits(caller', y) => \/ Holds(g, y, {"parked"})'
                                      \/ Waits(caller, y) /\ ~Holds(g, y, {"parked"})
              /\ y \in activeSubmissions' =>
                    \/ Holds(g, y, {"queueSubmit", "waitFence", "track"})' \/ Kept(y)'
                    \/ /\ y \in activeSubmissions /\ ~Holds(g, y, {"queueSubmit", "waitFence", "track"})
                       /\ ~Kept(y)
              /\ batch'[y] # "none" =>
                    \/ Holds(g, y, {"waitFence", "track"})' \/ Kept(y)'
                    \/ batch[y] # "none" /\ ~Holds(g, y, {"waitFence", "track"}) /\ ~Kept(y)
  <2> SUFFICES ASSUME NEW y \in Batches PROVE Fits(y)
    BY <1>0, <2>1, OwnedStep
  <2>2. CASE Rests(g)
    BY <2>2 DEF Rests, Owning, Holds, Kept, InTransients, Tracked, schedulerVars, Waits
  <2>3. CASE Reserves(g) \/ IsGranted(g) \/ Withdraws(g)
    <3>1. PICK q \in Batches : q = Batch(g) /\ Batch(g)' = q
      BY <2>3, <2>q DEF Reserves, IsGranted, Withdraws, Owning, Reserving
    <3>2. /\ op'[g] = op[g] /\ op[g].kind \in QueueKinds /\ pc[g] \in {"acquire", "parked"}
          /\ UNCHANGED <<batch, transients, subState>>
      BY <2>3 DEF Reserves, IsGranted, Withdraws
    <3>3. CASE y # q
      BY <2>3, <3>1, <3>2, <3>3 DEF Reserves, IsGranted, Withdraws, Holds, Kept, InTransients, Tracked
    <3>4. CASE y = q
      <4>1. /\ Waits(caller', q) => pc'[g] = "parked"
            /\ q \in activeSubmissions' => pc'[g] = "queueSubmit"
        BY <2>3, <3>1 DEF Reserves, IsGranted, Withdraws
      <4> QED BY <3>1, <3>2, <3>4, <4>1 DEF Holds, Kept, InTransients, Tracked
    <3> QED BY <3>3, <3>4
  <2>4. CASE SleepsOn(g)
    <3>1. Batch(g)' = Batch(g) /\ op'[g] = op[g] /\ pc'[g] = pc[g] /\ UNCHANGED <<activeSubmissions, batch, transients, subState>>
      BY <2>4 DEF SleepsOn, Batch
    <3> QED BY <2>4, <3>1 DEF SleepsOn, SameWaiting, Holds, Kept, InTransients, Tracked
  <2>5. CASE PutsOnQueue(g)
    <3>1. PICK q \in Batches : q = Batch(g) /\ Batch(g)' = q
      BY <2>5, <2>q DEF PutsOnQueue, Owning
    <3>2. /\ op'[g] = op[g] /\ op[g].kind \in QueueKinds /\ pc[g] = "queueSubmit"
          /\ pc'[g] \in {"waitFence", "track"}
          /\ UNCHANGED <<caller, activeSubmissions, transients, subState>> /\ (y # q => batch'[y] = batch[y])
      BY <2>5, <3>1 DEF PutsOnQueue, schedulerVars
    <3> QED BY <3>1, <3>2 DEF Holds, Kept, InTransients, Tracked, Waits
  <2>6. CASE FailsToSubmit(g)
    <3>1. PICK q \in Batches : q = Batch(g) /\ Batch(g)' = q
      BY <2>6, <2>q DEF FailsToSubmit, Owning
    <3>2. /\ op[g].kind \in QueueKinds /\ pc[g] = "queueSubmit"
          /\ activeSubmissions' = activeSubmissions \ {q} /\ SameWaiting
          /\ UNCHANGED <<transients, subState, batch>>
      BY <2>6, <3>1 DEF FailsToSubmit, Frees
    <3> QED BY <3>1, <3>2 DEF Holds, Kept, InTransients, Tracked, SameWaiting
  <2>7. CASE EndsTransfer(g)
    <3>1. Batch(g) = g /\ pc[g] = "waitFence"
      BY <2>7 DEF EndsTransfer, Batch
    <3> QED BY <2>7, <3>1 DEF EndsTransfer, Frees, SameWaiting, Holds, Kept, InTransients, Tracked
  <2>8. CASE LosesTransfer(g)
    <3>1. Batch(g) = g /\ pc[g] = "waitFence"
      BY <2>8 DEF LosesTransfer, Batch
    <3>2. InTransients(y)' <=> InTransients(y) \/ y = g
      BY <2>8, RetainedBatch DEF LosesTransfer
    <3> QED BY <2>8, <3>1, <3>2 DEF LosesTransfer, Keeps, SameWaiting, Holds, Kept, Tracked
  <2>9. CASE Tracks(g)
    <3>1. PICK q \in Recorders : q = op[g].rec /\ Batch(g) = q
      BY <2>9, BatchesDiffer DEF Tracks, Owning, Reserving, QueueKinds, SubmitKinds, Batch
    <3>2. /\ pc[g] = "track" /\ UNCHANGED <<schedulerVars, batch, transients>>
          /\ subState'[q] = "pending" /\ \A r \in Recorders : r # q => subState'[r] = subState[r]
      BY <2>9, <3>1 DEF Tracks
    <3> QED BY <3>1, <3>2 DEF schedulerVars, Holds, Kept, InTransients, Tracked, Waits
  <2>10. CASE RetainsBatch(g)
    <3>1. PICK q \in Recorders : q = op[g].rec /\ Batch(g) = q
      BY <2>10, BatchesDiffer DEF RetainsBatch, Owning, Reserving, QueueKinds, SubmitKinds, Batch
    <3>2. InTransients(y)' <=> InTransients(y) \/ y = q
      BY <2>10, <3>1, RetainedBatch DEF RetainsBatch
    <3> QED BY <2>10, <3>1, <3>2 DEF RetainsBatch, Keeps, SameWaiting, Holds, Kept, Tracked
  <2>11. CASE SeesCompletion(g) \/ LosesSubmission(g) \/ FinishesSubmission(g)
    <3>1. PICK q \in Recorders : q = op[g].rec
      BY <2>11, OpFields DEF SeesCompletion, LosesSubmission, FinishesSubmission, Types
    <3>2. ~Owning(g) /\ ~Owning(g)'
      BY <2>11 DEF SeesCompletion, LosesSubmission, FinishesSubmission, Owning, QueueKinds, SubmitKinds, ObserverKinds
    <3>3. /\ subState[q] = "pending" /\ (FinishesSubmission(g) => q \notin activeSubmissions)
      BY <2>11, <3>1 DEF SeesCompletion, LosesSubmission, FinishesSubmission, Fitting, ObserverFits, Outside, Closing
    <3>4. /\ SameWaiting /\ activeSubmissions' \subseteq activeSubmissions /\ UNCHANGED transients
          /\ y # q => batch'[y] = batch[y]
          /\ \A r \in Recorders : r # q => subState'[r] = subState[r]
      BY <2>11, <3>1 DEF SeesCompletion, LosesSubmission, FinishesSubmission, Keeps, Frees, SameWaiting, schedulerVars
    <3>5. \/ subState'[q] \in {"pending", "unknown"}
          \/ q \notin activeSubmissions' /\ batch'[q] = "none"
      BY <2>11, <3>1, <3>3 DEF SeesCompletion, LosesSubmission, FinishesSubmission, schedulerVars
    <3> QED BY <3>1, <3>2, <3>3, <3>4, <3>5 DEF Owning, Holds, Kept, InTransients, Tracked, SameWaiting
  <2>12. ASSUME NEW t \in transients, CleansUp(g, t) PROVE Fits(y)
    <3>1. ~Owning(g) /\ ~Owning(g)'
      BY <2>12 DEF CleansUp, Owning
    <3>2. /\ SameWaiting /\ activeSubmissions' = activeSubmissions \ {t[1]} /\ transients' = transients \ {t}
          /\ batch'[t[1]] = "none" /\ (y # t[1] => batch'[y] = batch[y]) /\ UNCHANGED subState
      BY <2>12 DEF CleansUp, Frees
    <3> QED BY <3>1, <3>2 DEF Owning, Holds, Kept, InTransients, Tracked, SameWaiting
  <2>13. ASSUME NEW r \in Recorders, EndsSubmission(g, r) PROVE Fits(y)
    <3>1. ~Owning(g) /\ ~Owning(g)'
      BY <2>13 DEF EndsSubmission, LastChild, Owning
    <3>2. /\ SameWaiting /\ activeSubmissions' = activeSubmissions \ {r} /\ UNCHANGED transients
          /\ batch'[r] = "none" /\ (y # r => batch'[y] = batch[y])
          /\ \A x \in Recorders : x # r => subState'[x] = subState[x]
      BY <2>13 DEF EndsSubmission, Frees
    <3> QED BY <3>1, <3>2 DEF Owning, Holds, Kept, InTransients, Tracked, SameWaiting
  <2> HIDE DEF Fits
  <2> QED BY <1>1, <2>2, <2>3, <2>4, <2>5, <2>6, <2>7, <2>8, <2>9, <2>10, <2>11, <2>12, <2>13, RestingSteps
<1>2. CASE UNCHANGED <<caller, activeSubmissions, batch, transients, subState, pc, op>>
  BY <1>0, <1>2 DEF Owned, Owner, Batch, Kept, InTransients, Tracked
<1>3. ASSUME NEW x \in Batches, Completes(x) PROVE Owned'
  <2>1. UNCHANGED <<caller, activeSubmissions, transients, subState, pc, op>>
        /\ \A y \in Batches : batch'[y] # "none" => batch[y] # "none"
    BY <1>3 DEF Completes, schedulerVars
  <2> QED BY <1>0, <2>1 DEF Owned, Owner, Batch, Kept, InTransients, Tracked
<1> QED BY <1>1, <1>2, <1>3 DEF Moved, vars, schedulerVars

----------------------------------------------------------------------------
\* A reservation that is asked for is of a batch that nobody else has.
LEMMA NewBatchIsFree ==
    ASSUME Types, CallsFit, Fitting, ClaimsApart, Reserved,
           NEW g \in Goroutines, Reserving(g), ~Owning(g), Batch(g) \notin activeSubmissions
    PROVE  batch[Batch(g)] = "none"
<1>1. PICK q \in Batches : q = Batch(g)
  BY BatchesDiffer
<1>2. ASSUME NEW h \in Goroutines, Owning(h) PROVE Batch(h) # q
  BY <1>1, <1>2, BatchesDiffer DEF Reserving
<1>3. ~Owner(q, {"waitFence", "track"})
  BY <1>2 DEF Owner, Owning
<1>4. ~InTransients(q)
  BY <1>1 DEF Reserved, TransientsKept, InTransients
<1>5. ~(q \in Recorders /\ Tracked(q))
  BY <1>1, BatchesDiffer DEF Tracked
<1> QED BY <1>1, <1>3, <1>4, <1>5 DEF Reserved, Owned, Kept

\* Nobody takes away the reservation of a batch before it is over.
LEMMA GrantedKept ==
    ASSUME Types, CallsFit, Account, OneCloser, Fitting, ClaimsApart, Reserved, Moved
    PROVE  \A h \in Goroutines : Granted(h)'
<1>0. \A h \in Goroutines : Granted(h)
  BY DEF Reserved
<1>t. \A y : InTransients(y) => y \in activeSubmissions
  BY DEF Reserved, TransientsKept, InTransients
<1> USE DEF programVars, deviceVars, threadVars, trackingVars, Moves, Leaves, Only
<1>1. ASSUME NEW g \in Goroutines, GoroutineMoves(g) PROVE \A h \in Goroutines : Granted(h)'
  <2>1. Stay(g)
    BY <1>1, EveryMove
  <2> DEFINE Same(y) == /\ y \in activeSubmissions => y \in activeSubmissions'
                        /\ InTransients(y)' => InTransients(y)
                        /\ batch'[y] = batch[y]
             Fits == Granted(g)' /\ \A y \in Batches : Others(g, y) => Same(y)
  <2> SUFFICES Fits
    BY <1>0, <2>1, GrantedStep
  <2>2. CASE Rests(g) \/ SleepsOn(g)
    <3>1. /\ UNCHANGED <<transients, batch, activeSubmissions>>
          /\ ~Owning(g)' \/ UNCHANGED <<pc, op>>
      BY <2>2 DEF Rests, SleepsOn, schedulerVars
    <3>2. Granted(g)'
      BY <1>0, <3>1 DEF Owning, Granted, Batch, InTransients
    <3> QED BY <3>1, <3>2 DEF InTransients
  <2>3. CASE Reserves(g) \/ IsGranted(g)
    <3>1. PICK q \in Batches : q = Batch(g)
      BY <2>3, BatchesDiffer DEF Reserves, IsGranted, Reserving, Owning
    <3>2. /\ op'[g] = op[g] /\ op[g].kind \in QueueKinds /\ pc'[g] \in {"parked", "queueSubmit"} /\ Batch(g)' = q
          /\ q \notin activeSubmissions /\ activeSubmissions \subseteq activeSubmissions'
          /\ pc'[g] = "queueSubmit" => q \in activeSubmissions'
          /\ UNCHANGED <<transients, batch>>
      BY <2>3, <3>1 DEF Reserves, IsGranted, Batch
    <3>3. batch[q] = "none"
      BY <1>0, <2>3, <3>1, <3>2, NewBatchIsFree DEF Reserves, IsGranted, Reserving, Owning, Granted
    <3> QED BY <1>t, <3>2, <3>3 DEF Granted, InTransients
  <2>4. CASE PutsOnQueue(g)
    <3>1. PICK q \in Batches : q = Batch(g)
      BY <2>4, BatchesDiffer DEF PutsOnQueue, Reserving, Owning
    <3>2. /\ op'[g] = op[g] /\ op[g].kind \in QueueKinds /\ pc[g] = "queueSubmit" /\ Batch(g)' = q
          /\ pc'[g] \in {"waitFence", "track"}
          /\ UNCHANGED <<activeSubmissions, transients>> /\ \A y \in Batches : y # q => batch'[y] = batch[y]
      BY <2>4, <3>1 DEF PutsOnQueue, Batch, schedulerVars
    <3>3. ~Others(g, q)
      BY <3>1, <3>2, OthersDiffer DEF Reserving, Owning
    <3>4. q \in activeSubmissions /\ ~InTransients(q)
      BY <1>0, <3>1, <3>2 DEF Granted
    <3> QED BY <3>2, <3>3, <3>4 DEF Granted, InTransients
  <2>5. CASE Withdraws(g) \/ FailsToSubmit(g)
    <3>1. PICK q \in Batches : q = Batch(g)
      BY <2>5, BatchesDiffer DEF Withdraws, FailsToSubmit, Reserving, Owning
    <3>2. /\ ~Owning(g)' /\ UNCHANGED <<transients, batch>> /\ activeSubmissions \ {q} \subseteq activeSubmissions'
      BY <2>5, <3>1 DEF Withdraws, FailsToSubmit, Frees, Unwound, Owning
    <3>3. ~Others(g, q)
      BY <2>5, <3>1, OthersDiffer DEF Withdraws, FailsToSubmit, Reserving, Owning
    <3> QED BY <3>2, <3>3 DEF Granted, InTransients, Owning
  <2>6. CASE EndsTransfer(g) \/ LosesTransfer(g)
    <3>1. /\ ~Owning(g)' /\ activeSubmissions \ {g} \subseteq activeSubmissions'
          /\ \A y \in Batches : y # g => batch'[y] = batch[y]
      BY <2>6 DEF EndsTransfer, LosesTransfer, Frees, Keeps, Owning
    <3>2. \A y : y # g /\ InTransients(y)' => InTransients(y)
      BY <2>6, RetainedBatch DEF EndsTransfer, LosesTransfer, InTransients
    <3> QED BY <3>1, <3>2, OthersDiffer DEF Granted, Owning
  <2>7. CASE Tracks(g) \/ RetainsBatch(g)
    <3>1. PICK q \in Recorders : q = op[g].rec /\ Batch(g) = q
      BY <2>7, BatchesDiffer DEF Tracks, RetainsBatch, Owning, Reserving, QueueKinds, SubmitKinds, Batch
    <3>2. ~Owning(g)' /\ UNCHANGED <<activeSubmissions, batch>> /\ ~Others(g, q)
      BY <2>7, <3>1, OthersDiffer DEF Tracks, RetainsBatch, Owning, Keeps, schedulerVars, Reserving, QueueKinds
    <3>3. \A y : y # q /\ InTransients(y)' => InTransients(y)
      BY <2>7, <3>1, RetainedBatch DEF Tracks, RetainsBatch, InTransients
    <3> QED BY <3>2, <3>3 DEF Granted, Owning
  <2>8. CASE SeesCompletion(g) \/ LosesSubmission(g) \/ FinishesSubmission(g)
    <3>1. PICK q \in Recorders : q = op[g].rec
      BY <2>8, OpFields DEF SeesCompletion, LosesSubmission, FinishesSubmission, Types
    <3>2. ~Owning(g)' /\ UNCHANGED transients
      BY <2>8 DEF SeesCompletion, LosesSubmission, FinishesSubmission, Owning, QueueKinds, SubmitKinds, ObserverKinds
    <3>3. subState[q] = "pending"
      BY <2>8, <3>1 DEF SeesCompletion, LosesSubmission, FinishesSubmission, Fitting, ObserverFits, Outside, Closing
    <3>4. /\ activeSubmissions \ {q} \subseteq activeSubmissions'
          /\ \A y \in Batches : y # q => batch'[y] = batch[y]
      BY <2>8, <3>1 DEF SeesCompletion, LosesSubmission, FinishesSubmission, Keeps, Frees, schedulerVars
    <3>5. ~Others(g, q)
      BY <3>3, OthersDiffer
    <3> QED BY <3>2, <3>4, <3>5 DEF Granted, InTransients, Owning
  <2>9. CASE Destroys(g)
    <3>1. UNCHANGED threadVars /\ \A h \in Goroutines : ~Owning(h)
      BY <2>9, DestroyingSteps DEF Owning, Outside, Closing
    <3>2. ~Owning(g)'
      BY <3>1 DEF Owning
    <3> QED BY <3>1, <3>2 DEF Granted, Owning, Others
  <2> HIDE DEF Fits
  <2> QED BY <1>1, <2>2, <2>3, <2>4, <2>5, <2>6, <2>7, <2>8, <2>9, RestingSteps DEF Destroys
<1>2. CASE UNCHANGED <<activeSubmissions, batch, transients, pc, op>>
  BY <1>0, <1>2 DEF Granted, Batch, InTransients
<1>3. ASSUME NEW x \in Batches, Completes(x) PROVE \A h \in Goroutines : Granted(h)'
  <2>1. UNCHANGED <<activeSubmissions, transients, pc, op>>
        /\ \A y \in Batches : batch[y] = "none" => batch'[y] = "none"
    BY <1>3 DEF Completes, schedulerVars
  <2>2. ASSUME NEW h \in Goroutines PROVE Granted(h)'
    <3>1. CASE Owning(h)
      <4>1. PICK q \in Batches : q = Batch(h) /\ Batch(h)' = q
        BY <2>1, <3>1, BatchesDiffer DEF Reserving, Batch
      <4>2. Granted(h)
        BY <1>0
      <4> QED BY <2>1, <4>1, <4>2 DEF Granted, InTransients
    <3>2. CASE ~Owning(h)
      BY <2>1, <3>2 DEF Granted, Owning
    <3> QED BY <3>1, <3>2
  <2> QED BY <2>2
<1> QED BY <1>1, <1>2, <1>3 DEF Moved, vars, schedulerVars

\* A retained batch stays so until Device.Close.
LEMMA TransientsStay ==
    ASSUME Types, CallsFit, Account, OneCloser, Fitting, ClaimsApart, Reserved, Registered, Moved
    PROVE  TransientsKept'
<1>0. TransientsKept /\ \A h \in Goroutines : Granted(h)
  BY DEF Reserved
<1>s. status # "open" => status' # "open"
  BY StatusGoesOn
<1> USE DEF programVars, deviceVars, threadVars, trackingVars, Moves, Leaves, Only
<1>a. CASE /\ transients' \subseteq transients
           /\ \A t \in transients' : /\ t[1] \in activeSubmissions'
                                     /\ t[1] \in Recorders => subState'[t[1]] = subState[t[1]]
  BY <1>0, <1>s, <1>a DEF TransientsKept
<1>1. ASSUME NEW g \in Goroutines, GoroutineMoves(g) PROVE TransientsKept'
  <2>2. CASE \/ Rests(g) \/ SleepsOn(g) \/ Reserves(g) \/ IsGranted(g) \/ Withdraws(g) \/ PutsOnQueue(g)
    <3>1. UNCHANGED <<transients, subState>> /\ activeSubmissions \subseteq activeSubmissions'
      BY <2>2 DEF Rests, SleepsOn, Reserves, IsGranted, Withdraws, PutsOnQueue, schedulerVars
    <3> QED BY <1>0, <1>a, <3>1 DEF TransientsKept
  <2>3. CASE FailsToSubmit(g) \/ EndsTransfer(g)
    <3>1. PICK q \in Batches : q = Batch(g)
      BY <2>3, BatchesDiffer DEF FailsToSubmit, EndsTransfer, Reserving, Owning, QueueKinds
    <3>2. ~InTransients(q)
      BY <1>0, <2>3, <3>1 DEF Granted, FailsToSubmit, EndsTransfer, QueueKinds
    <3>3. UNCHANGED <<transients, subState>> /\ activeSubmissions' = activeSubmissions \ {q}
      BY <2>3, <3>1 DEF FailsToSubmit, EndsTransfer, Frees, Batch
    <3> QED BY <1>0, <1>a, <3>2, <3>3 DEF TransientsKept, InTransients
  <2>4. CASE LosesTransfer(g)
    <3>1. ~InTransients(g) /\ g \in activeSubmissions /\ g \notin Recorders
          /\ op[g].buf # NoOne
      BY <1>0, <2>4, OpFields, QueueAssumption DEF Granted, LosesTransfer, Batch, QueueKinds, Types
    <3>2. UNCHANGED <<subState, activeSubmissions, status>> /\ transients' = transients \cup {<<g, op[g].buf>>}
      BY <2>4 DEF LosesTransfer, Keeps
    <3>3. ASSUME NEW t \in transients'
          PROVE  \/ t \in transients /\ t[1] # g
                 \/ t = <<g, op[g].buf>> /\ t[1] = g /\ t[2] # NoOne
      BY <3>1, <3>2 DEF InTransients
    <3> QED BY <1>0, <3>1, <3>2, <3>3 DEF TransientsKept
  <2>5. CASE RetainsBatch(g)
    <3>1. PICK q \in Recorders : q = op[g].rec /\ Batch(g) = q
      BY <2>5, BatchesDiffer DEF RetainsBatch, Owning, Reserving, QueueKinds, SubmitKinds, Batch
    <3>2. subState[q] = "none" /\ ~InTransients(q) /\ q \in activeSubmissions /\ status # "open"
      BY <1>0, <2>5, <3>1 DEF RetainsBatch, Granted, QueueKinds, Fitting, SubmitFits, Submitting
    <3>3. UNCHANGED <<subState, activeSubmissions, status>> /\ transients' = transients \cup {<<q, NoOne>>}
      BY <2>5, <3>1 DEF RetainsBatch, Keeps
    <3>4. ASSUME NEW t \in transients'
          PROVE  \/ t \in transients /\ t[1] # q
                 \/ t = <<q, NoOne>> /\ t[1] = q
      BY <3>2, <3>3 DEF InTransients
    <3> QED BY <1>0, <3>2, <3>3, <3>4 DEF TransientsKept
  <2>6. CASE Tracks(g)
    <3>1. PICK q \in Recorders : q = op[g].rec /\ Batch(g) = q
      BY <2>6, BatchesDiffer DEF Tracks, Owning, Reserving, QueueKinds, SubmitKinds, Batch
    <3>2. ~InTransients(q)
      BY <1>0, <2>6, <3>1 DEF Tracks, Granted, QueueKinds
    <3>3. UNCHANGED <<transients, activeSubmissions>> /\ \A r \in Recorders : r # q => subState'[r] = subState[r]
      BY <2>6, <3>1 DEF Tracks, schedulerVars
    <3> QED BY <1>0, <1>a, <3>2, <3>3 DEF TransientsKept, InTransients
  <2>7. CASE SeesCompletion(g) \/ LosesSubmission(g) \/ FinishesSubmission(g)
    <3>1. PICK q \in Recorders : q = op[g].rec
      BY <2>7, OpFields DEF SeesCompletion, LosesSubmission, FinishesSubmission, Types
    <3>2. subState[q] = "pending"
      BY <2>7, <3>1 DEF SeesCompletion, LosesSubmission, FinishesSubmission, Fitting, ObserverFits, Outside, Closing
    <3>3. \A t \in transients : t[1] # q
      BY <1>0, <3>2 DEF TransientsKept
    <3>4. /\ UNCHANGED transients /\ activeSubmissions \ {q} \subseteq activeSubmissions'
          /\ \A r \in Recorders : r # q => subState'[r] = subState[r]
      BY <2>7, <3>1 DEF SeesCompletion, LosesSubmission, FinishesSubmission, Keeps, Frees, schedulerVars
    <3> QED BY <1>0, <1>a, <3>3, <3>4 DEF TransientsKept
  <2>8. ASSUME NEW t \in transients, CleansUp(g, t) PROVE TransientsKept'
    <3>1. /\ transients' = transients \ {t} /\ activeSubmissions' = activeSubmissions \ {t[1]} /\ UNCHANGED subState
      BY <2>8 DEF CleansUp, Frees
    <3> QED BY <1>0, <1>a, <3>1 DEF TransientsKept
  <2>9. ASSUME NEW r \in Recorders, EndsSubmission(g, r) PROVE TransientsKept'
    BY <1>a, <2>9 DEF EndsSubmission, LastChild, Registered
  <2> QED BY <1>1, <2>2, <2>3, <2>4, <2>5, <2>6, <2>7, <2>8, <2>9, RestingSteps
<1>2. CASE UNCHANGED <<activeSubmissions, transients, subState>>
  BY <1>0, <1>a, <1>2 DEF TransientsKept
<1> QED BY <1>1, <1>2 DEF Moved, vars, schedulerVars, Completes

\* A batch the device may still execute keeps its reservation: markSubmissionUnknown
\* and retainUnknownTransientSubmission do not release it.
LEMMA InFlightStaysReserved ==
    ASSUME Types, CallsFit, Account, OneCloser, Fitting, ClaimsApart, Reserved, Moved
    PROVE  InFlightIsReserved'
<1>0. InFlightIsReserved /\ \A h \in Goroutines : Granted(h)
  BY DEF Reserved
<1> USE DEF programVars, deviceVars, threadVars, trackingVars, Moves, Leaves, Only
<1>a. CASE \A y \in Batches : batch'[y] = "executing" =>
              batch[y] = "executing" /\ (y \in activeSubmissions => y \in activeSubmissions')
  BY <1>0, <1>a DEF InFlightIsReserved
<1>1. ASSUME NEW g \in Goroutines, GoroutineMoves(g) PROVE InFlightIsReserved'
  <2>1. CASE \/ Rests(g) \/ SleepsOn(g) \/ Reserves(g) \/ IsGranted(g) \/ Withdraws(g) \/ FinishesSubmission(g)
             \/ LosesTransfer(g) \/ LosesSubmission(g) \/ Tracks(g) \/ RetainsBatch(g)
    <3>1. activeSubmissions \subseteq activeSubmissions'
      BY <2>1 DEF Rests, SleepsOn, Reserves, IsGranted, Withdraws, FinishesSubmission, LosesTransfer,
          LosesSubmission, Tracks, RetainsBatch, Keeps, schedulerVars
    <3>2. \A y \in Batches : batch'[y] = batch[y] \/ batch'[y] = "none"
      BY <2>1 DEF Rests, SleepsOn, Reserves, IsGranted, Withdraws, FinishesSubmission, LosesTransfer,
          LosesSubmission, Tracks, RetainsBatch
    <3> QED BY <1>a, <3>1, <3>2
  <2>2. CASE PutsOnQueue(g)
    <3>1. PICK q \in Batches : q = Batch(g)
      BY <2>2, BatchesDiffer DEF PutsOnQueue, Reserving, Owning
    <3>2. q \in activeSubmissions
      BY <1>0, <2>2, <3>1 DEF PutsOnQueue, Granted
    <3>3. UNCHANGED activeSubmissions /\ \A y \in Batches : y # q => batch'[y] = batch[y]
      BY <2>2, <3>1 DEF PutsOnQueue, schedulerVars
    <3> QED BY <1>0, <3>2, <3>3 DEF InFlightIsReserved
  <2>3. CASE FailsToSubmit(g)
    <3>1. PICK q \in Batches : q = Batch(g)
      BY <2>3, BatchesDiffer DEF FailsToSubmit, Reserving, Owning
    <3>2. batch[q] = "none" /\ UNCHANGED batch /\ activeSubmissions' = activeSubmissions \ {q}
      BY <1>0, <2>3, <3>1 DEF FailsToSubmit, Granted, Frees
    <3> QED BY <1>a, <3>2
  <2>4. CASE EndsTransfer(g) \/ SeesCompletion(g)
    BY <1>a, <2>4 DEF EndsTransfer, SeesCompletion, Frees
  <2>5. CASE (\E t \in transients : CleansUp(g, t)) \/ \E r \in Recorders : EndsSubmission(g, r)
    BY <1>a, <2>5 DEF CleansUp, EndsSubmission, Frees
  <2> QED BY <1>1, <2>1, <2>2, <2>3, <2>4, <2>5, RestingSteps
<1>2. CASE (\E x \in Batches : Completes(x)) \/ UNCHANGED <<batch, activeSubmissions>>
  BY <1>a, <1>2 DEF Completes, schedulerVars
<1> QED BY <1>1, <1>2 DEF Moved, vars, schedulerVars

\* Reservations and batches keep their owners, on every path.
LEMMA ReservedKept ==
    ASSUME Types, CallsFit, Account, OneCloser, Fitting, ClaimsApart, Reserved, Registered, Moved
    PROVE  Reserved'
BY OwnedKept, GrantedKept, TransientsStay, InFlightStaysReserved DEF Reserved

----------------------------------------------------------------------------
\* Which steps change the recorders, the references, the buffers and the children.
LEMMA RecorderSteps ==
    ASSUME NEW g \in Goroutines, GoroutineMoves(g), ~UNCHANGED recorderVars
    PROVE  \/ Records(g) \/ PutsOnQueue(g) \/ (\E b \in Buffers : DropsReference(g, b)) \/ Finishes(g)
           \/ \E r \in Recorders : EndsRecorder(g, r)
<1> USE DEF programVars, quietVars
<1>1. CASE \/ (\E call \in Calls : StartsCall(g, call)) \/ Returns(g) \/ BeginsClose(g) \/ Drains(g)
           \/ GoesOn(g) \/ EndsClose(g)
  BY <1>1, OuterSteps DEF Outer
<1>2. CASE \/ LocksBuffer(g) \/ TakesRecorders(g) \/ IsRefused(g) \/ Reserves(g) \/ IsGranted(g) \/ SleepsOn(g)
           \/ Withdraws(g) \/ FailsToSubmit(g) \/ EndsTransfer(g) \/ LosesTransfer(g) \/ Tracks(g) \/ RetainsBatch(g)
  BY <1>2 DEF LocksBuffer, TakesRecorders, IsRefused, Reserves, IsGranted, SleepsOn, Withdraws, FailsToSubmit,
      EndsTransfer, LosesTransfer, Tracks, RetainsBatch
<1>3. CASE \/ LocksSubmission(g) \/ SeesCompletion(g) \/ LosesSubmission(g) \/ PollsInVain(g)
           \/ FinishesSubmission(g) \/ FinishesCall(g) \/ EndsCall(g) \/ ClosesBuffer(g)
           \/ (\E t \in transients : CleansUp(g, t))
           \/ (\E r \in Recorders : ForgetsSubmission(g, r) \/ EndsSubmission(g, r) \/ ForgetsRecorder(g, r))
           \/ \E b \in Buffers : EndsBuffer(g, b)
  BY <1>3 DEF LocksSubmission, SeesCompletion, LosesSubmission, PollsInVain, FinishesSubmission, FinishesCall,
      EndsCall, ClosesBuffer, CleansUp, ForgetsSubmission, EndsSubmission, ForgetsRecorder, EndsBuffer
<1> QED BY <1>1, <1>2, <1>3 DEF GoroutineMoves

\* Which steps change the references of buffers.
LEMMA ReferenceSteps ==
    ASSUME NEW g \in Goroutines, GoroutineMoves(g), ~UNCHANGED references
    PROVE  \/ Records(g) \/ (op[g].kind = "transfer" /\ Reserves(g))
           \/ (op[g].kind = "transfer" /\ (Withdraws(g) \/ FailsToSubmit(g) \/ EndsTransfer(g)))
           \/ (\E b \in Buffers : DropsReference(g, b)) \/ (\E t \in transients : CleansUp(g, t))
           \/ \E r \in Recorders : EndsRecorder(g, r)
<1> USE DEF programVars, quietVars, bufferVars
<1>1. CASE \/ (\E call \in Calls : StartsCall(g, call)) \/ Returns(g) \/ BeginsClose(g) \/ Drains(g)
           \/ GoesOn(g) \/ EndsClose(g)
  BY <1>1, OuterSteps DEF Outer
<1>2. CASE \/ LocksBuffer(g) \/ TakesRecorders(g) \/ IsRefused(g) \/ Reserves(g) \/ IsGranted(g) \/ SleepsOn(g)
           \/ Withdraws(g) \/ FailsToSubmit(g) \/ PutsOnQueue(g) \/ LosesTransfer(g) \/ Tracks(g) \/ RetainsBatch(g)
  BY <1>2 DEF LocksBuffer, TakesRecorders, IsRefused, Reserves, IsGranted, SleepsOn, Withdraws, FailsToSubmit,
      PutsOnQueue, LosesTransfer, Tracks, RetainsBatch, Drops
<1>3. CASE \/ LocksSubmission(g) \/ SeesCompletion(g) \/ LosesSubmission(g) \/ PollsInVain(g)
           \/ Finishes(g) \/ FinishesSubmission(g) \/ FinishesCall(g) \/ EndsCall(g) \/ ClosesBuffer(g)
           \/ (\E r \in Recorders : ForgetsSubmission(g, r) \/ EndsSubmission(g, r) \/ ForgetsRecorder(g, r))
           \/ \E b \in Buffers : EndsBuffer(g, b)
  BY <1>3 DEF LocksSubmission, SeesCompletion, LosesSubmission, PollsInVain, Finishes, FinishesSubmission, FinishesCall,
      EndsCall, ClosesBuffer, ForgetsSubmission, EndsSubmission, ForgetsRecorder, EndsBuffer
<1>4. CASE EndsTransfer(g)
  BY <1>4 DEF EndsTransfer, Moves
<1> QED BY <1>1, <1>2, <1>3, <1>4 DEF GoroutineMoves

\* Which steps destroy a buffer.
LEMMA BufferSteps ==
    ASSUME NEW g \in Goroutines, GoroutineMoves(g), ~UNCHANGED bufferClosed
    PROVE  ClosesBuffer(g) \/ \E b \in Buffers : EndsBuffer(g, b)
<1> USE DEF programVars, quietVars, bufferVars
<1>1. CASE \/ (\E call \in Calls : StartsCall(g, call)) \/ Returns(g) \/ BeginsClose(g) \/ Drains(g)
           \/ GoesOn(g) \/ EndsClose(g)
  BY <1>1, OuterSteps DEF Outer
<1>2. CASE \/ LocksBuffer(g) \/ Records(g) \/ TakesRecorders(g) \/ IsRefused(g) \/ Reserves(g) \/ IsGranted(g)
           \/ SleepsOn(g) \/ Withdraws(g) \/ FailsToSubmit(g) \/ PutsOnQueue(g) \/ EndsTransfer(g) \/ LosesTransfer(g)
           \/ Tracks(g) \/ RetainsBatch(g)
  BY <1>2 DEF LocksBuffer, Records, TakesRecorders, IsRefused, Reserves, IsGranted, SleepsOn, Withdraws, FailsToSubmit,
      PutsOnQueue, EndsTransfer, LosesTransfer, Tracks, RetainsBatch
<1>3. CASE \/ LocksSubmission(g) \/ SeesCompletion(g) \/ LosesSubmission(g) \/ PollsInVain(g)
           \/ (\E b \in Buffers : DropsReference(g, b)) \/ Finishes(g) \/ FinishesSubmission(g) \/ FinishesCall(g)
           \/ EndsCall(g) \/ (\E t \in transients : CleansUp(g, t))
           \/ \E r \in Recorders : ForgetsSubmission(g, r) \/ EndsSubmission(g, r) \/ ForgetsRecorder(g, r) \/ EndsRecorder(g, r)
  BY <1>3 DEF LocksSubmission, SeesCompletion, LosesSubmission, PollsInVain, DropsReference, Finishes,
      FinishesSubmission, FinishesCall, EndsCall, CleansUp, ForgetsSubmission, EndsSubmission, ForgetsRecorder, EndsRecorder
<1> QED BY <1>1, <1>2, <1>3 DEF GoroutineMoves

Finished(r) == recState[r] \in {"submitted", "aborted"}

\* A recorder that is finished stays so, and is not recorded again once it is not.
LEMMA RecorderStatesGoOn ==
    ASSUME Types, CallsFit, ClaimStates, Moved
    PROVE  \A r \in Recorders : /\ Finished(r) => Finished(r)'
                                /\ recState'[r] = "recording" => recState[r] = "recording"
                                /\ recState'[r] = "recording" => recUses'[r] = recUses[r]
                                                          \/ \E g \in Goroutines : Records(g) /\ op[g].rec = r
<1> USE DEF Only, Finished
<1>1. ASSUME NEW g \in Goroutines, GoroutineMoves(g), ~UNCHANGED recorderVars, NEW r \in Recorders
      PROVE  /\ Finished(r) => Finished(r)'
             /\ recState'[r] = "recording" => recState[r] = "recording"
             /\ recState'[r] = "recording" => recUses'[r] = recUses[r] \/ (Records(g) /\ op[g].rec = r)
  <2>1. CASE Records(g) \/ \E b \in Buffers : DropsReference(g, b)
    BY <2>1 DEF Records, DropsReference
  <2>2. CASE PutsOnQueue(g)
    <3>1. op[g].kind # "transfer" => /\ Working(g) /\ StateAt(g) = "recording"
                                     /\ \A x \in Recorders : recState'[x] = IF x \in RecsOf(g) THEN "unknown" ELSE recState[x]
      BY <2>2 DEF PutsOnQueue, Moves, Working, Submitting, StateAt, QueueKinds, SubmitKinds, ObserverKinds
    <3>2. /\ op[g].kind = "transfer" => UNCHANGED recState
          /\ UNCHANGED recUses
      BY <2>2 DEF PutsOnQueue
    <3> QED BY <3>1, <3>2 DEF ClaimStates
  <2>3. CASE Finishes(g)
    BY <2>3 DEF Finishes
  <2>4. ASSUME NEW x \in Recorders, EndsRecorder(g, x)
        PROVE  /\ Finished(r) => Finished(r)'
               /\ recState'[r] = "recording" => recState[r] = "recording"
               /\ recState'[r] = "recording" => recUses'[r] = recUses[r]
    BY <2>4 DEF EndsRecorder
  <2> QED BY <1>1, <2>1, <2>2, <2>3, <2>4, RecorderSteps
<1>2. CASE UNCHANGED recorderVars
  BY <1>2 DEF recorderVars
<1> QED BY <1>1, <1>2 DEF Moved, vars, Completes

\* A finished recorder uses no buffers.
LEMMA EmptiedKept ==
    ASSUME Types, CallsFit, ClaimStates, Emptied, Moved
    PROVE  Emptied'
<1>0. \A r \in Recorders : Finished(r) => recBuffers[r] = {}
  BY DEF Emptied, Finished
<1> USE DEF Only
<1>1. ASSUME NEW g \in Goroutines, GoroutineMoves(g), ~UNCHANGED recorderVars, NEW r \in Recorders, Finished(r)'
      PROVE  recBuffers'[r] = {}
  <2>1. CASE Records(g)
    BY <1>0, <1>1, <2>1 DEF Records, Finished
  <2>2. CASE PutsOnQueue(g)
    BY <1>0, <1>1, <2>2 DEF PutsOnQueue, Finished
  <2>3. ASSUME NEW b \in Buffers, DropsReference(g, b) PROVE recBuffers'[r] = {}
    <3>1. recBuffers[r] = {} /\ UNCHANGED recState
      BY <1>0, <1>1, <2>3 DEF DropsReference, Finished
    <3> QED BY <2>3, <3>1 DEF DropsReference
  <2>4. CASE Finishes(g)
    BY <1>0, <1>1, <2>4 DEF Finishes, Finished
  <2>5. ASSUME NEW x \in Recorders, EndsRecorder(g, x) PROVE recBuffers'[r] = {}
    BY <1>0, <1>1, <2>5 DEF EndsRecorder, Finished
  <2> QED BY <1>1, <2>1, <2>2, <2>3, <2>4, <2>5, RecorderSteps
<1>2. ASSUME UNCHANGED recorderVars, NEW r \in Recorders, Finished(r)'
      PROVE  recBuffers'[r] = {}
  BY <1>0, <1>2 DEF recorderVars, Finished
<1>3. \A r \in Recorders : Finished(r)' => recBuffers'[r] = {}
  BY <1>1, <1>2 DEF Moved, vars, Completes
<1> QED BY <1>3 DEF Emptied, Finished

\* Buffer.Close asks for the references, and nothing refers to a closed buffer.
LEMMA HeldOpenKept ==
    ASSUME Types, Account, OneCloser, CallsFit, Fitting, HeldOpen, Moved
    PROVE  HeldOpen'
<1>0. BufferTypes /\ CallTypes
  BY DEF Types
<1> USE DEF Only, Moves
<1>1. ASSUME NEW g \in Goroutines, GoroutineMoves(g), status' # "closed", \A h \in Goroutines : pc'[h] # "children",
             NEW b \in Buffers, references'[b] > 0
      PROVE  ~bufferClosed'[b]
  <2>1. Stay(g) /\ (Enters(g) \/ Exits(g) \/ Works(g) \/ Idles(g) \/ Closes(g))
    BY <1>1, EveryMove
  <2>2. status # "closed" /\ \A h \in Goroutines : pc[h] # "children"
    BY <1>1, <2>1 DEF Stay, Enters, Exits, Works, Idles, Closes, Away, Outside, Closing, Destroying
  <2>3. references[b] > 0 => ~bufferClosed[b]
    BY <2>2 DEF HeldOpen
  <2>4. references[b] > 0 \/ ~bufferClosed[b]
    <3>1. CASE Records(g)
      BY <1>1, <3>1 DEF Records
    <3>2. CASE op[g].kind = "transfer" /\ Reserves(g)
      <4>1. ~bufferClosed[op[g].buf]
        BY <3>2 DEF Reserves, Fitting, TransferFits, Outside, Closing
      <4> QED BY <1>1, <3>2, <4>1 DEF Reserves
    <3>3. CASE op[g].kind = "transfer" /\ (Withdraws(g) \/ FailsToSubmit(g) \/ EndsTransfer(g))
      <4>1. references'[op[g].buf] = Less(references[op[g].buf]) /\ Only(references, references', Buffers, op[g].buf)
        BY <3>3 DEF Withdraws, FailsToSubmit, EndsTransfer, Drops
      <4>2. op[g].buf \in Buffers
        BY <1>0, <3>3, OpFields
      <4> QED BY <1>0, <1>1, <4>1, <4>2 DEF BufferTypes, Less
    <3>4. ASSUME NEW d \in Buffers, DropsReference(g, d) PROVE references[b] > 0
      BY <1>0, <1>1, <3>4 DEF DropsReference, BufferTypes, Less
    <3>5. ASSUME NEW t \in transients, CleansUp(g, t) PROVE references[b] > 0
      BY <1>0, <1>1, <3>5 DEF CleansUp, BufferTypes, Less
    <3>6. ASSUME NEW r \in Recorders, EndsRecorder(g, r) PROVE references[b] > 0
      BY <1>0, <1>1, <3>6 DEF EndsRecorder, BufferTypes, Less
    <3>7. CASE UNCHANGED references
      BY <1>1, <3>7
    <3> QED BY <1>1, <3>1, <3>2, <3>3, <3>4, <3>5, <3>6, <3>7, ReferenceSteps
  <2>5. CASE UNCHANGED bufferClosed
    BY <2>3, <2>4, <2>5
  <2>6. CASE ClosesBuffer(g)
    <3>1. references[op[g].buf] = 0 /\ UNCHANGED references
      BY <2>6 DEF ClosesBuffer
    <3> QED BY <1>1, <2>3, <2>6, <3>1 DEF ClosesBuffer
  <2>7. CASE \E d \in Buffers : EndsBuffer(g, d)
    BY <2>2, <2>7 DEF EndsBuffer, LastChild
  <2> QED BY <1>1, <2>5, <2>6, <2>7, BufferSteps
<1>2. CASE UNCHANGED <<references, bufferClosed, status, pc>>
  BY <1>2 DEF HeldOpen
<1>3. CASE \E g \in Goroutines : GoroutineMoves(g)
  BY <1>1, <1>3 DEF HeldOpen
<1> QED BY <1>2, <1>3 DEF Moved, vars, Completes, bufferVars, deviceVars, threadVars

----------------------------------------------------------------------------
\* Steps that add children, or change the list of Device.Close.
LEMMA ChildrenSteps ==
    ASSUME NEW g \in Goroutines, GoroutineMoves(g)
    PROVE  /\ \/ UNCHANGED children
              \/ Tracks(g) \/ Finishes(g) \/ FinishesSubmission(g) \/ ClosesBuffer(g) \/ EndsClose(g)
              \/ \E r \in Recorders : EndsRecorder(g, r)
           /\ \/ UNCHANGED closeList
              \/ Drains(g) \/ EndsClose(g)
              \/ (\E r \in Recorders : ForgetsSubmission(g, r) \/ EndsSubmission(g, r) \/ ForgetsRecorder(g, r)
                                         \/ EndsRecorder(g, r))
              \/ \E b \in Buffers : EndsBuffer(g, b)
<1> USE DEF programVars, quietVars, deviceVars
<1>1. CASE \/ (\E call \in Calls : StartsCall(g, call)) \/ Returns(g) \/ BeginsClose(g) \/ Drains(g)
           \/ GoesOn(g) \/ EndsClose(g)
  BY <1>1 DEF StartsCall, Returns, BeginsClose, Drains, GoesOn
<1>2. CASE \/ LocksBuffer(g) \/ Records(g) \/ TakesRecorders(g) \/ IsRefused(g) \/ Reserves(g) \/ IsGranted(g)
           \/ SleepsOn(g) \/ Withdraws(g) \/ FailsToSubmit(g) \/ PutsOnQueue(g) \/ EndsTransfer(g) \/ LosesTransfer(g)
           \/ Tracks(g) \/ RetainsBatch(g)
  BY <1>2 DEF LocksBuffer, Records, TakesRecorders, IsRefused, Reserves, IsGranted, SleepsOn, Withdraws, FailsToSubmit,
      PutsOnQueue, EndsTransfer, LosesTransfer, Tracks, RetainsBatch
<1>3. CASE \/ LocksSubmission(g) \/ SeesCompletion(g) \/ LosesSubmission(g) \/ PollsInVain(g)
           \/ (\E b \in Buffers : DropsReference(g, b)) \/ Finishes(g) \/ FinishesSubmission(g) \/ FinishesCall(g)
           \/ EndsCall(g) \/ ClosesBuffer(g) \/ (\E t \in transients : CleansUp(g, t))
           \/ (\E r \in Recorders : ForgetsSubmission(g, r) \/ EndsSubmission(g, r) \/ ForgetsRecorder(g, r) \/ EndsRecorder(g, r))
           \/ \E b \in Buffers : EndsBuffer(g, b)
  BY <1>3 DEF LocksSubmission, SeesCompletion, LosesSubmission, PollsInVain, DropsReference, Finishes,
      FinishesSubmission, FinishesCall, EndsCall, ClosesBuffer, CleansUp, ForgetsSubmission, EndsSubmission,
      ForgetsRecorder, EndsBuffer
<1> QED BY <1>1, <1>2, <1>3 DEF GoroutineMoves

\* Nothing is opened again, and a Submission is only tracked by Submit.
LEMMA ClosedStays ==
    ASSUME Types, Account, OneCloser, CallsFit, Fitting, ClaimStates, NEW g \in Goroutines, GoroutineMoves(g)
    PROVE  /\ \A b \in Buffers : bufferClosed[b] => bufferClosed'[b]
           /\ \A r \in Recorders : Finished(r) => Finished(r)'
           /\ \A x \in Recorders : Tracked(x)' => Tracked(x) \/ (Tracks(g) /\ op[g].rec = x)
<1> USE DEF Only, Moves
<1>1. ASSUME NEW b \in Buffers, bufferClosed[b] PROVE bufferClosed'[b]
  BY <1>1, BufferSteps DEF ClosesBuffer, EndsBuffer
<1>2. ASSUME NEW x \in Recorders, Tracked(x)', ~(Tracks(g) /\ op[g].rec = x)
      PROVE  Tracked(x)
  <2>1. CASE \/ Rests(g) \/ Reserves(g) \/ IsGranted(g) \/ SleepsOn(g) \/ Withdraws(g) \/ PutsOnQueue(g) \/ FailsToSubmit(g)
             \/ EndsTransfer(g) \/ LosesTransfer(g) \/ RetainsBatch(g) \/ SeesCompletion(g)
             \/ (\E t \in transients : CleansUp(g, t))
    <3>1. UNCHANGED subState
      BY <2>1 DEF Rests, Reserves, IsGranted, SleepsOn, Withdraws, PutsOnQueue, FailsToSubmit, EndsTransfer,
          LosesTransfer, RetainsBatch, SeesCompletion, CleansUp, programVars, trackingVars
    <3> QED BY <1>2, <3>1 DEF Tracked
  <2>2. CASE Tracks(g)
    BY <1>2, <2>2 DEF Tracks, Tracked
  <2>3. CASE LosesSubmission(g)
    <3>1. subState[op[g].rec] = "pending"
      BY <2>3 DEF LosesSubmission, Fitting, ObserverFits, Outside, Closing
    <3> QED BY <1>2, <2>3, <3>1 DEF LosesSubmission, Tracked
  <2>4. CASE FinishesSubmission(g)
    BY <1>2, <2>4 DEF FinishesSubmission, Tracked
  <2>5. ASSUME NEW r \in Recorders, EndsSubmission(g, r) PROVE Tracked(x)
    BY <1>2, <2>5 DEF EndsSubmission, Tracked
  <2> QED BY <1>2, <2>1, <2>2, <2>3, <2>4, <2>5, RestingSteps
<1>3. \A r \in Recorders : Finished(r) => Finished(r)'
  BY RecorderStatesGoOn DEF Moved
<1> QED BY <1>1, <1>2, <1>3

\* A list loses what is closed, and gets what is submitted.
Follows(old, new, g) ==
    /\ \A b \in Buffers : <<"buffer", b>> \in Range(old) => <<"buffer", b>> \in Range(new) \/ bufferClosed'[b]
    /\ \A r \in Recorders : <<"recorder", r>> \in Range(old) => <<"recorder", r>> \in Range(new) \/ Finished(r)'
    /\ \A x \in Recorders : <<"submission", x>> \in Range(old) => <<"submission", x>> \in Range(new) \/ ~Tracked(x)'
    /\ Tracks(g) => <<"submission", op[g].rec>> \in Range(new)

ListedThen(list) ==
    /\ \A b \in Buffers : bufferClosed'[b] \/ <<"buffer", b>> \in Range(list)
    /\ \A r \in Recorders : Finished(r)' \/ <<"recorder", r>> \in Range(list)
    /\ \A x \in Recorders : Tracked(x)' => <<"submission", x>> \in Range(list)

\* Such a list still has everything that is not closed.
LEMMA ListedStays ==
    ASSUME Types, Account, OneCloser, CallsFit, Fitting, ClaimStates, NEW g \in Goroutines, GoroutineMoves(g),
           NEW old, NEW new, Listed(old), Follows(old, new, g)
    PROVE  ListedThen(new)
<1>1. \A b \in Buffers : bufferClosed'[b] \/ <<"buffer", b>> \in Range(new)
  BY ClosedStays DEF Listed, Follows
<1>2. \A r \in Recorders : Finished(r)' \/ <<"recorder", r>> \in Range(new)
  BY ClosedStays DEF Listed, Finished, Follows
<1>3. ASSUME NEW x \in Recorders, Tracked(x)' PROVE <<"submission", x>> \in Range(new)
  BY <1>3, ClosedStays DEF Listed, Follows
<1> QED BY <1>1, <1>2, <1>3 DEF ListedThen

\* Of a child that is closed.
Ended(child) ==
    \/ \E b \in Buffers : child = <<"buffer", b>> /\ bufferClosed'[b]
    \/ \E r \in Recorders : child = <<"recorder", r>> /\ Finished(r)'
    \/ \E x \in Recorders : child = <<"submission", x>> /\ ~Tracked(x)'

\* A list that loses a closed child is such a list.
LEMMA EndedFollows ==
    ASSUME NEW g \in Goroutines, NEW old, NEW new, NEW child, Ended(child), ~Tracks(g),
           \A y \in Range(old) : y # child => y \in Range(new)
    PROVE  Follows(old, new, g)
BY DEF Follows, Ended

\* The children of a Device that is not closed.
LEMMA ChildrenListed ==
    ASSUME Types, Account, OneCloser, CallsFit, Fitting, ClaimStates, Registered,
           NEW g \in Goroutines, GoroutineMoves(g)
    PROVE  (status' # "closed" => ListedThen(children')) /\ SubmissionsLast(children')
<1>0. children \in Seq(Children) /\ SubmissionsLast(children)
  BY DEF Types, DeviceTypes, Registered
<1>s. status' # "closed" => Listed(children)
  BY EveryMove DEF Registered, Enters, Exits, Works, Idles, Closes, OneCloser, Closing, Destroying
<1>a. ASSUME NEW child, children' = Without(children, child), ~Tracks(g), Ended(child)
      PROVE  (status' # "closed" => ListedThen(children')) /\ SubmissionsLast(children')
  <2>1. (\A y \in Range(children) : y # child => y \in Range(children')) /\ SubmissionsLast(children')
    BY <1>0, <1>a, WithoutKeeps
  <2>2. Follows(children, children', g)
    BY <1>a, <2>1, EndedFollows
  <2> QED BY <1>s, <2>1, <2>2, ListedStays
<1> USE DEF Moves, Leaves
<1>1. CASE Tracks(g)
  <2>1. PICK q \in Recorders : q = op[g].rec
    BY <1>1, OpFields DEF Tracks, Types, RecorderKinds
  <2>2. children' = Append(children, <<"submission", q>>)
    BY <1>1, <2>1 DEF Tracks
  <2>3. /\ <<"submission", q>> \in Range(children') /\ Range(children) \subseteq Range(children')
        /\ SubmissionsLast(children')
    BY <1>0, <2>2, AppendKeeps
  <2>4. Follows(children, children', g)
    BY <2>1, <2>3 DEF Follows
  <2> QED BY <1>s, <2>3, <2>4, ListedStays
<1>2. CASE Finishes(g)
  <2>1. PICK q \in Recorders : q = op[g].recs[1]
    <3>1. op[g].recs \in RecorderLists /\ op[g].recs # << >>
      BY <1>2, OpFields DEF Types, Finishes, RecorderKinds
    <3> QED BY <3>1, TailOfList
  <2>2. children' = Without(children, <<"recorder", q>>) /\ Finished(q)' /\ ~Tracks(g)
    BY <1>2, <2>1 DEF Finishes, Finished, Tracks
  <2> QED BY <1>a, <2>2 DEF Ended
<1>3. CASE FinishesSubmission(g)
  <2>1. PICK q \in Recorders : q = op[g].rec
    BY <1>3, OpFields DEF FinishesSubmission, Types
  <2>2. children' = Without(children, <<"submission", q>>) /\ ~Tracked(q)' /\ ~Tracks(g)
    BY <1>3, <2>1 DEF FinishesSubmission, Tracked, Tracks
  <2> QED BY <1>a, <2>2 DEF Ended
<1>4. CASE ClosesBuffer(g)
  <2>1. PICK q \in Buffers : q = op[g].buf
    BY <1>4, OpFields DEF ClosesBuffer, Types
  <2>2. children' = Without(children, <<"buffer", q>>) /\ bufferClosed'[q] /\ ~Tracks(g)
    BY <1>4, <2>1 DEF ClosesBuffer, Tracks
  <2> QED BY <1>a, <2>2 DEF Ended
<1>5. ASSUME NEW r \in Recorders, EndsRecorder(g, r)
      PROVE  (status' # "closed" => ListedThen(children')) /\ SubmissionsLast(children')
  <2>1. children' = Without(children, <<"recorder", r>>) /\ Finished(r)' /\ ~Tracks(g)
    BY <1>5 DEF EndsRecorder, LastChild, Finished, Tracks
  <2> QED BY <1>a, <2>1 DEF Ended
<1>6. CASE EndsClose(g)
  BY <1>6 DEF EndsClose, SubmissionsLast
<1>7. CASE UNCHANGED children /\ ~Tracks(g)
  <2>1. Follows(children, children', g)
    BY <1>7 DEF Follows
  <2> QED BY <1>0, <1>s, <1>7, <2>1, ListedStays
<1> QED BY <1>1, <1>2, <1>3, <1>4, <1>5, <1>6, <1>7, ChildrenSteps

\* The children that Device.Close is still to close.
LEMMA CloseListListed ==
    ASSUME Types, Account, OneCloser, CallsFit, Fitting, ClaimStates, Registered,
           NEW g \in Goroutines, GoroutineMoves(g)
    PROVE  ((\E h \in Goroutines : pc'[h] \in Destroying) => ListedThen(closeList')) /\ SubmissionsLast(closeList')
<1>0. closeList \in Seq(Children) /\ SubmissionsLast(closeList)
  BY DEF Types, DeviceTypes, Registered
<1>t. (\E h \in Goroutines : pc[h] \in Destroying) => ~Tracks(g)
  BY CloseIsAlone DEF Tracks, Moves, Outside, Closing
<1>s. (\E h \in Goroutines : pc'[h] \in Destroying) => Drains(g) \/ (Listed(closeList) /\ ~Tracks(g))
  <2>1. CASE \E h \in Goroutines : pc[h] \in Destroying
    BY <1>t, <2>1 DEF Registered
  <2>2. CASE Drains(g)
    BY <2>2
  <2>3. CASE ~Drains(g) /\ \A h \in Goroutines : pc[h] \notin Destroying
    <3>1. Stay(g) /\ (Enters(g) \/ Exits(g) \/ Works(g) \/ Idles(g) \/ Closes(g))
      BY EveryMove
    <3>2. pc[g] = "drain" => Drains(g)
      <4>1. CASE pc[g] = "drain"
        <5>1. CASE \/ (\E call \in Calls : StartsCall(g, call)) \/ Returns(g) \/ BeginsClose(g) \/ Drains(g)
                   \/ GoesOn(g) \/ EndsClose(g)
          BY <4>1, <5>1 DEF StartsCall, Returns, BeginsClose, GoesOn, EndsClose, Moves, Leaves
        <5>2. CASE \/ LocksBuffer(g) \/ Records(g) \/ TakesRecorders(g) \/ IsRefused(g) \/ Reserves(g) \/ IsGranted(g)
                   \/ SleepsOn(g) \/ Withdraws(g) \/ FailsToSubmit(g) \/ PutsOnQueue(g) \/ EndsTransfer(g)
                   \/ LosesTransfer(g) \/ Tracks(g) \/ RetainsBatch(g)
          BY <4>1, <5>2 DEF LocksBuffer, Records, TakesRecorders, IsRefused, Reserves, IsGranted, SleepsOn, Withdraws,
             FailsToSubmit, PutsOnQueue, EndsTransfer, LosesTransfer, Tracks, RetainsBatch, Moves, Leaves
        <5>3. CASE \/ LocksSubmission(g) \/ SeesCompletion(g) \/ LosesSubmission(g) \/ PollsInVain(g)
                   \/ (\E b \in Buffers : DropsReference(g, b)) \/ Finishes(g) \/ FinishesSubmission(g)
                   \/ FinishesCall(g) \/ EndsCall(g) \/ ClosesBuffer(g)
          BY <4>1, <5>3 DEF LocksSubmission, SeesCompletion, LosesSubmission, PollsInVain, DropsReference, Finishes,
             FinishesSubmission, FinishesCall, EndsCall, ClosesBuffer, Moves, Leaves
        <5>4. CASE Destroys(g)
          BY <4>1, <5>4, DestroyingSteps DEF Destroying
        <5> QED BY <5>1, <5>2, <5>3, <5>4 DEF GoroutineMoves, Destroys
      <4> QED BY <4>1
    <3> QED BY <2>3, <3>1, <3>2 DEF Stay, Enters, Exits, Works, Idles, Closes, Outside, Closing, Destroying, Away
  <2> QED BY <2>1, <2>2, <2>3
<1>a. ASSUME NEW child, LastChild(g, child), Ended(child)
      PROVE  ListedThen(closeList') /\ SubmissionsLast(closeList')
  <2>1. Listed(closeList) /\ ~Tracks(g)
    BY <1>a, <1>t DEF LastChild, Destroying, Registered
  <2>2. (\A y \in Range(closeList) : y # child => y \in Range(closeList')) /\ SubmissionsLast(closeList')
    BY <1>0, <1>a, FrontKeeps DEF LastChild
  <2>3. Follows(closeList, closeList', g)
    BY <1>a, <2>1, <2>2, EndedFollows
  <2> QED BY <2>1, <2>2, <2>3, ListedStays
<1>1. CASE Drains(g)
  <2>1. closeList' = children /\ status # "closed" /\ ~Tracks(g)
    BY <1>1 DEF Drains, Moves, OneCloser, Closing, Tracks
  <2>2. Listed(children) /\ SubmissionsLast(children) /\ Follows(children, closeList', g)
    BY <2>1 DEF Registered, Follows
  <2>3. ListedThen(closeList')
    BY <2>2, ListedStays
  <2> QED BY <2>1, <2>2, <2>3
<1>2. CASE EndsClose(g)
  <2>1. \A h \in Goroutines : pc'[h] \notin Destroying
    BY <1>2 DEF EndsClose, Leaves, Stay, OneCloser, Closing, Destroying
  <2> QED BY <1>2, <2>1 DEF EndsClose, SubmissionsLast
<1>3. ASSUME NEW r \in Recorders, ForgetsSubmission(g, r) \/ EndsSubmission(g, r)
      PROVE  ListedThen(closeList') /\ SubmissionsLast(closeList')
  <2>1. LastChild(g, <<"submission", r>>) /\ ~Tracked(r)'
    BY <1>3 DEF ForgetsSubmission, EndsSubmission, Tracked, programVars, trackingVars
  <2> QED BY <1>a, <2>1 DEF Ended
<1>4. ASSUME NEW r \in Recorders, ForgetsRecorder(g, r) \/ EndsRecorder(g, r)
      PROVE  ListedThen(closeList') /\ SubmissionsLast(closeList')
  <2>1. LastChild(g, <<"recorder", r>>) /\ Finished(r)'
    BY <1>4 DEF ForgetsRecorder, EndsRecorder, Finished, programVars, recorderVars
  <2> QED BY <1>a, <2>1 DEF Ended
<1>5. ASSUME NEW b \in Buffers, EndsBuffer(g, b)
      PROVE  ListedThen(closeList') /\ SubmissionsLast(closeList')
  <2>1. LastChild(g, <<"buffer", b>>) /\ bufferClosed'[b]
    BY <1>5 DEF EndsBuffer
  <2> QED BY <1>a, <2>1 DEF Ended
<1>6. CASE UNCHANGED closeList /\ ~Drains(g)
  <2>1. ~Tracks(g) => Follows(closeList, closeList', g)
    BY <1>6 DEF Follows
  <2> QED BY <1>0, <1>s, <1>6, <2>1, ListedStays
<1> QED BY <1>1, <1>2, <1>3, <1>4, <1>5, <1>6, ChildrenSteps

\* Device.Close cleaned the retained batches up before it closes the children.
LEMMA RegisteredKept ==
    ASSUME Types, Account, OneCloser, CallsFit, Fitting, ClaimStates, Registered, Moved
    PROVE  Registered'
<1>1. ASSUME NEW g \in Goroutines, GoroutineMoves(g) PROVE Registered'
  <2>1. \A h \in Goroutines : pc'[h] = "children" => transients' = {}
    <3>1. Stay(g)
      BY <1>1, EveryMove
    <3>2. CASE \E h \in Goroutines : pc[h] = "children"
      <4>1. transients = {} /\ \A h \in Goroutines : pc[h] \in Outside
        BY <3>2, CloseIsAlone DEF Registered, Destroying
      <4>2. ~LosesTransfer(g) /\ ~RetainsBatch(g)
        BY <4>1 DEF LosesTransfer, RetainsBatch, Moves, Outside, Closing
      <4>3. transients' \subseteq transients
        BY <1>1, <4>2, RestingSteps DEF Rests, Reserves, IsGranted, SleepsOn, Withdraws, PutsOnQueue, FailsToSubmit,
            EndsTransfer, Tracks, SeesCompletion, LosesSubmission, FinishesSubmission, CleansUp, EndsSubmission, deviceVars
      <4> QED BY <4>1, <4>3
    <3>3. CASE \A h \in Goroutines : pc[h] # "children"
      <4>1. ASSUME pc'[g] = "children" PROVE transients' = {}
        <5>1. CASE GoesOn(g)
          BY <4>1, <5>1 DEF GoesOn, quietVars
        <5>2. CASE \/ (\E call \in Calls : StartsCall(g, call)) \/ Returns(g) \/ BeginsClose(g) \/ Drains(g) \/ EndsClose(g)
          BY <4>1, <5>2 DEF StartsCall, Returns, BeginsClose, Drains, EndsClose, Moves, Leaves
        <5>3. CASE \/ LocksBuffer(g) \/ Records(g) \/ TakesRecorders(g) \/ IsRefused(g) \/ Reserves(g) \/ IsGranted(g)
                   \/ SleepsOn(g) \/ Withdraws(g) \/ FailsToSubmit(g) \/ PutsOnQueue(g) \/ EndsTransfer(g)
                   \/ LosesTransfer(g) \/ Tracks(g) \/ RetainsBatch(g)
          BY <3>3, <4>1, <5>3 DEF LocksBuffer, Records, TakesRecorders, IsRefused, Reserves, IsGranted, SleepsOn, Withdraws,
             FailsToSubmit, PutsOnQueue, EndsTransfer, LosesTransfer, Tracks, RetainsBatch, Moves, Leaves, Unwound, threadVars
        <5>4. CASE \/ LocksSubmission(g) \/ SeesCompletion(g) \/ LosesSubmission(g) \/ PollsInVain(g)
                   \/ (\E b \in Buffers : DropsReference(g, b)) \/ Finishes(g) \/ FinishesSubmission(g)
                   \/ FinishesCall(g) \/ EndsCall(g) \/ ClosesBuffer(g)
          BY <3>3, <4>1, <5>4 DEF LocksSubmission, SeesCompletion, LosesSubmission, PollsInVain, DropsReference, Finishes,
             FinishesSubmission, FinishesCall, EndsCall, ClosesBuffer, Moves, Leaves, threadVars
        <5>5. CASE Destroys(g)
          BY <3>3, <4>1, <5>5, DestroyingSteps DEF threadVars
        <5> QED BY <1>1, <5>1, <5>2, <5>3, <5>4, <5>5 DEF GoroutineMoves, Destroys
      <4> QED BY <3>1, <3>3, <4>1 DEF Stay
    <3> QED BY <3>2, <3>3
  <2>2. (status' # "closed" => Listed(children)') /\ SubmissionsLast(children')
    BY <1>1, ChildrenListed DEF Listed, ListedThen, Finished
  <2>3. ((\E h \in Goroutines : pc'[h] \in Destroying) => Listed(closeList)') /\ SubmissionsLast(closeList')
    BY <1>1, CloseListListed DEF Listed, ListedThen, Finished
  <2> QED BY <2>1, <2>2, <2>3 DEF Registered, SubmissionsLast
<1>2. CASE UNCHANGED <<status, pc, children, closeList, transients, bufferClosed, recState, subState>>
  BY <1>2 DEF Registered, Listed, SubmissionsLast, Tracked
<1> QED BY <1>1, <1>2 DEF Moved, vars, Completes, deviceVars, threadVars, bufferVars, recorderVars, trackingVars

----------------------------------------------------------------------------
\* What a goroutine does that finishes recorders.
LEMMA ReleasingSteps ==
    ASSUME Account, OneCloser, NEW g \in Goroutines, GoroutineMoves(g), pc[g] = "releasing"
    PROVE  (\E b \in Buffers : DropsReference(g, b)) \/ Finishes(g) \/ FinishesSubmission(g) \/ FinishesCall(g)
<1> USE DEF Moves, Leaves
<1>1. CASE \/ (\E call \in Calls : StartsCall(g, call)) \/ Returns(g) \/ BeginsClose(g) \/ Drains(g)
           \/ GoesOn(g) \/ EndsClose(g)
  BY <1>1, OuterSteps DEF Outer, Outside, Closing
<1>2. CASE \/ LocksBuffer(g) \/ Records(g) \/ TakesRecorders(g) \/ IsRefused(g) \/ Reserves(g) \/ IsGranted(g)
           \/ SleepsOn(g) \/ Withdraws(g) \/ FailsToSubmit(g) \/ PutsOnQueue(g) \/ EndsTransfer(g)
           \/ LosesTransfer(g) \/ Tracks(g) \/ RetainsBatch(g)
  BY <1>2 DEF LocksBuffer, Records, TakesRecorders, IsRefused, Reserves, IsGranted, SleepsOn, Withdraws,
      FailsToSubmit, PutsOnQueue, EndsTransfer, LosesTransfer, Tracks, RetainsBatch
<1>3. CASE LocksSubmission(g) \/ SeesCompletion(g) \/ LosesSubmission(g) \/ PollsInVain(g) \/ EndsCall(g) \/ ClosesBuffer(g)
  BY <1>3 DEF LocksSubmission, SeesCompletion, LosesSubmission, PollsInVain, EndsCall, ClosesBuffer
<1>4. CASE Destroys(g)
  BY <1>4, DestroyingSteps DEF Destroying
<1> QED BY <1>1, <1>2, <1>3, <1>4 DEF GoroutineMoves, Destroys

\* Who gives references back before its recorder is finished.
LEMMA ReleasedGoesOn ==
    ASSUME Types, CallsFit, Account, OneCloser, NEW g \in Goroutines, GoroutineMoves(g),
           NEW r \in Recorders, Released(r), recState'[r] = "recording"
    PROVE  Released(r)'
<1>1. PICK h \in Goroutines : Working(h) /\ pc[h] = "releasing" /\ r \in RecsOf(h)
  BY DEF Released
<1>2. CASE h # g
  <2>1. pc'[h] = pc[h] /\ op'[h] = op[h]
    BY <1>2, EveryMove DEF Stay
  <2> QED BY <1>1, <2>1 DEF Released, Working, RecsOf
<1>3. CASE h = g
  <2>1. CASE \E b \in Buffers : DropsReference(g, b)
    BY <1>1, <1>3, <2>1 DEF DropsReference, threadVars, Released, Working, RecsOf
  <2>2. CASE Finishes(g)
    <3>1. op[g].recs \in RecorderLists /\ op[g].recs # << >>
      BY <1>1, <1>3, <2>2, WorkersFit DEF Finishes
    <3>2. PICK q \in Recorders : q = op[g].recs[1]
      BY <3>1, TailOfList
    <3>3. recState'[q] # "recording" /\ RecsOf(g)' = RecsOf(g) \ {q} /\ pc'[g] = pc[g] /\ op'[g].kind = op[g].kind
      BY <2>2, <3>1, <3>2, TailOfList DEF Finishes, RecsOf
    <3> QED BY <1>1, <1>3, <3>2, <3>3 DEF Released, Working
  <2>3. CASE FinishesSubmission(g) \/ FinishesCall(g)
    <3>1. op[g].recs = << >>
      BY <2>3 DEF FinishesSubmission, FinishesCall
    <3> QED BY <1>1, <1>3, <3>1 DEF RecsOf, Range
  <2> QED BY <1>1, <1>3, <2>1, <2>2, <2>3, ReleasingSteps
<1> QED BY <1>2, <1>3

\* Only a recorder that is released or closed loses buffers.
LEMMA BuffersLost ==
    ASSUME Types, CallsFit, Account, OneCloser, NEW g \in Goroutines, GoroutineMoves(g),
           NEW r \in Recorders, ~(recBuffers[r] \subseteq recBuffers'[r])
    PROVE  \/ Working(g) /\ pc[g] = "releasing" /\ r \in RecsOf(g)
           \/ EndsRecorder(g, r)
<1> USE DEF Only, Moves, Leaves
<1>0. ~UNCHANGED recorderVars
  BY DEF recorderVars
<1>1. CASE Records(g) \/ PutsOnQueue(g) \/ Finishes(g)
  <2>1. \A x \in Recorders : recBuffers[x] \subseteq recBuffers'[x]
    BY <1>1 DEF Records, PutsOnQueue, Finishes
  <2> QED BY <2>1
<1>2. ASSUME NEW b \in Buffers, DropsReference(g, b)
      PROVE  Working(g) /\ pc[g] = "releasing" /\ r \in RecsOf(g)
  <2>1. Working(g) /\ pc[g] = "releasing" /\ op[g].recs # << >>
    BY <1>2 DEF DropsReference, Working, SubmitKinds, ObserverKinds
  <2>2. op[g].recs \in RecorderLists
    BY <2>1, WorkersFit
  <2>3. op[g].recs[1] \in RecsOf(g)
    BY <2>1, <2>2, TailOfList DEF RecsOf
  <2>4. r = op[g].recs[1]
    BY <1>2 DEF DropsReference
  <2> QED BY <2>1, <2>3, <2>4
<1>3. ASSUME NEW x \in Recorders, EndsRecorder(g, x) PROVE EndsRecorder(g, r)
  <2>1. x = r
    BY <1>3 DEF EndsRecorder
  <2> QED BY <1>3, <2>1
<1> QED BY <1>0, <1>1, <1>2, <1>3, RecorderSteps

\* What a recorder that is still recording uses it retains, as Upload and Download do
\* it.
LEMMA RecordedUsesKept ==
    ASSUME Types, CallsFit, Account, OneCloser, ClaimStates, RecordedUsesHeld, NEW g \in Goroutines, GoroutineMoves(g)
    PROVE  RecordedUsesHeld'
<1> SUFFICES ASSUME NEW r \in Recorders, NEW b \in Buffers, recState'[r] = "recording", ~Released(r)',
                    recUses'[r][b] # "none"
             PROVE  b \in recBuffers'[r]
  BY DEF RecordedUsesHeld
<1>1. recState[r] = "recording" /\ (recUses'[r] = recUses[r] \/ \E h \in Goroutines : Records(h) /\ op[h].rec = r)
  BY RecorderStatesGoOn DEF Moved
<1>2. ~Released(r)
  BY ReleasedGoesOn
<1>3. recBuffers[r] \subseteq recBuffers'[r]
  BY <1>2, BuffersLost DEF Released, EndsRecorder
<1>4. CASE recUses'[r] = recUses[r]
  BY <1>1, <1>2, <1>3, <1>4 DEF RecordedUsesHeld
<1>5. ASSUME NEW h \in Goroutines, Records(h), op[h].rec = r PROVE b \in recBuffers'[r]
  <2>1. op[h].buf \in recBuffers'[r] /\ \A d \in Buffers : d # op[h].buf => recUses'[r][d] = recUses[r][d]
    BY <1>5 DEF Records, Only
  <2> QED BY <1>1, <1>2, <1>3, <2>1 DEF RecordedUsesHeld
<1> QED BY <1>1, <1>4, <1>5

\* Where the uses of a batch change.
LEMMA ResourcesChange ==
    ASSUME Types, CallsFit, Account, OneCloser, Fitting, ClaimsApart, Reserved, NEW g \in Goroutines, GoroutineMoves(g),
           NEW y \in Batches, resources'[y] # resources[y]
    PROVE  \/ Reserving(g) /\ y = Batch(g) /\ ~InTransients(y) /\ UNCHANGED <<subState, transients>>
           \/ y \in Recorders /\ subState[y] = "pending" /\ ~Live(y)'
           \/ \E t \in transients : CleansUp(g, t) /\ y = t[1]
           \/ y \in Recorders /\ EndsSubmission(g, y)
<1> USE DEF Only, Moves, programVars, trackingVars, deviceVars
<1>t. y \notin activeSubmissions => ~InTransients(y)
  BY DEF Reserved, TransientsKept, InTransients
<1>1. CASE \/ Rests(g) \/ IsGranted(g) \/ SleepsOn(g) \/ PutsOnQueue(g) \/ LosesTransfer(g) \/ Tracks(g)
           \/ RetainsBatch(g) \/ LosesSubmission(g) \/ FinishesSubmission(g)
  BY <1>1 DEF Rests, IsGranted, SleepsOn, PutsOnQueue, LosesTransfer, Tracks, RetainsBatch, LosesSubmission,
      FinishesSubmission, Keeps, schedulerVars
<1>2. CASE Reserves(g) \/ Withdraws(g)
  BY <1>2, <1>t DEF Reserves, Withdraws, Reserving, Owning
<1>3. CASE FailsToSubmit(g) \/ EndsTransfer(g)
  <2>1. Reserving(g) /\ y = Batch(g) /\ UNCHANGED <<subState, transients>>
    BY <1>3 DEF FailsToSubmit, EndsTransfer, Frees, Batch, Reserving, Owning, QueueKinds
  <2>2. ~InTransients(Batch(g))
    BY <1>3 DEF FailsToSubmit, EndsTransfer, Reserved, Granted, QueueKinds
  <2> QED BY <2>1, <2>2
<1>4. CASE SeesCompletion(g)
  <2>1. y = op[g].rec /\ y \in Recorders
    BY <1>4, OpFields DEF SeesCompletion, Frees, Types
  <2>2. subState[y] = "pending"
    BY <1>4, <2>1 DEF SeesCompletion, Fitting, ObserverFits, Outside, Closing
  <2>3. ~Live(y)'
    BY <1>4, <2>1 DEF SeesCompletion, Live
  <2> QED BY <2>1, <2>2, <2>3
<1>5. ASSUME NEW t \in transients, CleansUp(g, t) PROVE y = t[1]
  BY <1>5 DEF CleansUp, Frees
<1>6. ASSUME NEW r \in Recorders, EndsSubmission(g, r) PROVE y = r
  BY <1>6 DEF EndsSubmission, Frees
<1> QED BY <1>1, <1>2, <1>3, <1>4, <1>5, <1>6, RestingSteps

\* The uses of other goroutines' batches, of live Submissions and of retained batches
\* do not change.
LEMMA ResourcesStay ==
    ASSUME Types, CallsFit, Account, OneCloser, Fitting, ClaimsApart, Reserved, Registered,
           NEW g \in Goroutines, GoroutineMoves(g), NEW y \in Batches,
           \/ Others(g, y)
           \/ y \in Recorders /\ Live(y)'
           \/ \E t \in transients : t \in transients' /\ t[1] = y
    PROVE  resources'[y] = resources[y]
<1> SUFFICES ASSUME resources'[y] # resources[y] PROVE FALSE
  OBVIOUS
<1>1. CASE Others(g, y)
  <2>1. ~Destroys(g)
    BY <1>1, DestroyingSteps DEF Others, Owning, Outside, Closing
  <2> QED BY <1>1, <2>1, ResourcesChange, OthersDiffer DEF Destroys
<1>2. CASE y \in Recorders /\ Live(y)'
  <2>1. CASE Reserving(g) /\ y = Batch(g) /\ UNCHANGED <<subState, transients>>
    BY <1>2, <2>1, BatchesDiffer DEF Live, Tracked
  <2>2. ASSUME NEW t \in transients, CleansUp(g, t), y = t[1] PROVE FALSE
    <3>1. subState[y] = "none"
      BY <1>2, <2>2 DEF Reserved, TransientsKept
    <3>2. UNCHANGED subState
      BY <2>2 DEF CleansUp, trackingVars
    <3> QED BY <1>2, <3>1, <3>2 DEF Live, Tracked
  <2>3. CASE EndsSubmission(g, y)
    BY <1>2, <2>3 DEF EndsSubmission, Live, Tracked
  <2> QED BY <1>2, <2>1, <2>2, <2>3, ResourcesChange
<1>3. ASSUME NEW t \in transients, t \in transients', t[1] = y PROVE FALSE
  <2>1. InTransients(y)
    BY <1>3 DEF InTransients
  <2>2. y \in Recorders => subState[y] = "none"
    BY <1>3 DEF Reserved, TransientsKept
  <2>3. ASSUME NEW u \in transients, CleansUp(g, u), y = u[1] PROVE FALSE
    <3>1. u = t
      BY <1>3, <2>3 DEF Reserved, TransientsKept
    <3> QED BY <1>3, <2>3, <3>1 DEF CleansUp
  <2>4. ~EndsSubmission(g, y)
    BY DEF EndsSubmission, LastChild, Registered
  <2> QED BY <2>1, <2>2, <2>3, <2>4, ResourcesChange
<1> QED BY <1>1, <1>2, <1>3

\* The uses of a transfer, and of a recorded batch.
LEMMA UsesOfCall ==
    ASSUME Types, CallsFit, ClaimsApart, ClaimStates, RecordedUsesHeld, NEW g \in Goroutines,
           pc[g] = "acquire", op[g].kind \in QueueKinds, NEW b \in Buffers, Uses(g)[b] # "none"
    PROVE  /\ op[g].kind = "transfer" => b = op[g].buf
           /\ op[g].kind # "transfer" => \E r \in RecsOf(g) : b \in recBuffers[r]
<1>1. CASE op[g].kind = "transfer"
  BY <1>1 DEF Uses, S!NoBuffers
<1>2. CASE op[g].kind # "transfer"
  <2>1. PICK r \in RecsOf(g) : recUses[r][b] # "none"
    BY <1>2 DEF Uses, S!MergeUses, RecsOf
  <2>2. Working(g) /\ r \in Recorders /\ StateAt(g) = "recording"
    BY <1>2, <2>1, SubmittedIsWork DEF QueueKinds, SubmitKinds, Submitting, StateAt, ObserverKinds
  <2>3. recState[r] = "recording"
    BY <2>1, <2>2 DEF ClaimStates
  <2>4. ~Released(r)
    BY <2>1, <2>2 DEF Released, ClaimsApart
  <2> QED BY <1>2, <2>1, <2>2, <2>3, <2>4 DEF RecordedUsesHeld
<1> QED BY <1>1, <1>2

----------------------------------------------------------------------------
\* The buffers of the recorders in a call, or of a Submission, are not given back.
LEMMA OtherBuffersStay ==
    ASSUME Types, CallsFit, Account, OneCloser, ClaimsApart, NEW g \in Goroutines, GoroutineMoves(g)
    PROVE  /\ \A h \in Goroutines : h # g /\ Working(h) => \A r \in RecsOf(h) : recBuffers[r] \subseteq recBuffers'[r]
           /\ pc[g] \in Submitting => \A r \in Recorders : recBuffers[r] \subseteq recBuffers'[r]
<1>1. ASSUME NEW h \in Goroutines, h # g, Working(h), NEW r \in RecsOf(h) PROVE recBuffers[r] \subseteq recBuffers'[r]
  <2>1. r \in Recorders
    BY <1>1, WorkersFit
  <2>2. ~(Working(g) /\ r \in RecsOf(g))
    BY <1>1 DEF ClaimsApart
  <2>3. ~EndsRecorder(g, r)
    <3>1. ~Destroys(g)
      BY <1>1, DestroyingSteps DEF Working, Submitting, Outside, Closing
    <3> QED BY <2>1, <3>1 DEF Destroys
  <2> QED BY <2>1, <2>2, <2>3, BuffersLost
<1>2. ASSUME pc[g] \in Submitting, NEW r \in Recorders PROVE recBuffers[r] \subseteq recBuffers'[r]
  BY <1>2, BuffersLost DEF Submitting, EndsRecorder, LastChild
<1> QED BY <1>1, <1>2

\* What a submitted batch uses is held by its call, from acquireSubmission to the end
\* of Submit or of the transfer.
LEMMA CallUsesKept ==
    ASSUME Types, CallsFit, Account, OneCloser, Fitting, ClaimsApart, ClaimStates, Reserved, Registered, UsesHeld,
           NEW g \in Goroutines, GoroutineMoves(g), NEW h \in Goroutines
    PROVE  CallUsesHeld(h)'
<1>0. CallUsesHeld(h)
  BY DEF UsesHeld
<1> USE DEF Moves, Leaves
<1>1. CASE h # g
  <2>1. pc'[h] = pc[h] /\ op'[h] = op[h]
    BY <1>1, EveryMove DEF Stay
  <2>2. CASE op[h].kind = "transfer" /\ pc[h] \in {"parked", "queueSubmit", "waitFence"}
    <3>1. Owning(h) /\ Batch(h) = h /\ h \in Batches /\ op[h].kind \notin SubmitKinds
      BY <2>2 DEF Owning, QueueKinds, Batch, Batches, SubmitKinds
    <3>2. resources'[h] = resources[h]
      BY <1>1, <3>1, ResourcesStay DEF Others
    <3> QED BY <1>0, <2>1, <2>2, <3>1, <3>2 DEF CallUsesHeld
  <2>3. CASE op[h].kind \in SubmitKinds /\ pc[h] \in {"parked", "queueSubmit", "track"}
    <3>1. Owning(h) /\ Working(h) /\ RecsOf(h)' = RecsOf(h) /\ op[h].kind # "transfer"
      BY <2>1, <2>3 DEF Owning, QueueKinds, SubmitKinds, Working, Submitting, RecsOf
    <3>2. PICK q \in Batches : q = op[h].rec /\ q = Batch(h)
      BY <3>1, BatchesDiffer DEF Reserving
    <3>3. resources'[q] = resources[q]
      BY <1>1, <3>1, <3>2, ResourcesStay DEF Others
    <3>4. \A r \in RecsOf(h) : recBuffers[r] \subseteq recBuffers'[r]
      BY <1>1, <3>1, OtherBuffersStay
    <3> QED BY <1>0, <2>1, <2>3, <3>1, <3>2, <3>3, <3>4 DEF CallUsesHeld
  <2> QED BY <2>1, <2>2, <2>3 DEF CallUsesHeld
<1>2. CASE h = g /\ Reserves(g)
  <2>1. PICK q \in Batches : q = Batch(g)
    BY <1>2, BatchesDiffer DEF Reserves, Reserving
  <2>2. /\ pc[g] = "acquire" /\ op[g].kind \in QueueKinds /\ op'[g] = op[g]
        /\ resources'[q] = Uses(g) /\ UNCHANGED recBuffers /\ RecsOf(g)' = RecsOf(g)
    BY <1>2, <2>1 DEF Reserves, recorderVars, RecsOf
  <2>3. /\ op[g].kind = "transfer" => q = g
        /\ op[g].kind \in SubmitKinds => q = op[g].rec /\ op[g].kind # "transfer"
    BY <2>1, <2>2 DEF Batch, SubmitKinds
  <2>4. RecordedUsesHeld
    BY DEF UsesHeld
  <2>5. \A b \in Buffers : Uses(g)[b] # "none" =>
           /\ op[g].kind = "transfer" => b = op[g].buf
           /\ op[g].kind # "transfer" => \E r \in RecsOf(g) : b \in recBuffers[r]
    BY <2>2, <2>4, UsesOfCall
  <2> QED BY <1>2, <2>2, <2>3, <2>5 DEF CallUsesHeld
<1>3. CASE h = g /\ (IsGranted(g) \/ SleepsOn(g) \/ PutsOnQueue(g))
  <2>1. /\ pc[g] \in {"parked", "queueSubmit"} /\ op'[g] = op[g] /\ UNCHANGED <<resources, recBuffers>>
        /\ pc'[g] = "track" => op[g].kind # "transfer"
    BY <1>3 DEF IsGranted, SleepsOn, PutsOnQueue, programVars, recorderVars, schedulerVars, threadVars
  <2>2. RecsOf(g)' = RecsOf(g)
    BY <2>1 DEF RecsOf
  <2> QED BY <1>0, <1>3, <2>1, <2>2 DEF CallUsesHeld
<1>4. CASE h = g /\ ~(Reserves(g) \/ IsGranted(g) \/ SleepsOn(g) \/ PutsOnQueue(g))
  <2>1. ~Owning(g)'
    <3>1. CASE Rests(g)
      BY <3>1 DEF Rests
    <3>2. CASE Withdraws(g) \/ FailsToSubmit(g) \/ EndsTransfer(g) \/ LosesTransfer(g) \/ Tracks(g) \/ RetainsBatch(g)
               \/ SeesCompletion(g) \/ LosesSubmission(g) \/ FinishesSubmission(g)
      BY <3>2 DEF Withdraws, FailsToSubmit, EndsTransfer, LosesTransfer, Tracks, RetainsBatch, SeesCompletion,
          LosesSubmission, FinishesSubmission, Unwound, Owning
    <3>3. CASE Destroys(g)
      BY <3>3, DestroyingSteps DEF threadVars, Owning, Outside, Closing
    <3> QED BY <1>4, <3>1, <3>2, <3>3, RestingSteps DEF Destroys
  <2> QED BY <1>4, <2>1 DEF CallUsesHeld, Owning, QueueKinds
<1> QED BY <1>1, <1>2, <1>3, <1>4

\* A Submission takes the recorders of its call over, and keeps them.
LEMMA LiveGoesOn ==
    ASSUME Types, Account, OneCloser, CallsFit, Fitting, Reserved, Registered,
           NEW g \in Goroutines, GoroutineMoves(g), NEW x \in Recorders, Live(x)'
    PROVE  \/ Live(x) /\ SubRecs(x)' = SubRecs(x)
           \/ Tracks(g) /\ op[g].rec = x /\ SubRecs(x)' = RecsOf(g)
<1> USE DEF Moves, Only, trackingVars
<1>1. Stay(g)
  BY EveryMove
<1>2. CASE Shrinks
  BY <1>2 DEF Shrinks
<1>3. CASE TakesRecorders(g) \/ SeesCompletion(g) \/ PutsOnQueue(g) \/ Finishes(g) \/ \E r \in Recorders : EndsRecorder(g, r)
  <2>1. UNCHANGED <<subState, subRecorders>>
    BY <1>3 DEF TakesRecorders, SeesCompletion, PutsOnQueue, Finishes, EndsRecorder, programVars
  <2>2. pc[g] = "releasing" => pc'[g] = "releasing" /\ op'[g].kind = op[g].kind /\ op'[g].rec = op[g].rec
    BY <1>3 DEF TakesRecorders, SeesCompletion, PutsOnQueue, Finishes, EndsRecorder, LastChild
  <2>3. Live(x)
    BY <1>1, <2>1, <2>2 DEF Stay, Live, Tracked
  <2> QED BY <2>1, <2>3 DEF SubRecs
<1>4. CASE Tracks(g) /\ op[g].rec = x
  BY <1>4 DEF Tracks, SubRecs, RecsOf
<1>5. CASE Tracks(g) /\ op[g].rec # x
  <2>1. subState'[x] = subState[x] /\ subRecorders'[x] = subRecorders[x] /\ pc[g] # "releasing"
    BY <1>5 DEF Tracks
  <2>2. Live(x)
    BY <1>1, <2>1 DEF Stay, Live, Tracked
  <2> QED BY <2>1, <2>2 DEF SubRecs
<1> QED BY <1>2, <1>3, <1>4, <1>5, MostStepsShrink

\* What the batch of a Submission uses is held by its recorders.
LEMMA SubmittedUsesKept ==
    ASSUME Types, CallsFit, Account, OneCloser, Fitting, ClaimsApart, ClaimStates, Reserved, Registered, UsesHeld,
           NEW g \in Goroutines, GoroutineMoves(g)
    PROVE  SubmittedUsesHeld'
<1> SUFFICES ASSUME NEW x \in Recorders, NEW b \in Buffers, Live(x)', resources'[x][b] # "none"
             PROVE  \E r \in SubRecs(x)' : b \in recBuffers'[r]
  BY DEF SubmittedUsesHeld
<1>1. x \in Batches /\ resources'[x] = resources[x]
  BY ResourcesStay DEF Batches
<1>2. CASE Live(x) /\ SubRecs(x)' = SubRecs(x)
  <2>1. PICK r \in SubRecs(x) : b \in recBuffers[r]
    BY <1>1, <1>2 DEF UsesHeld, SubmittedUsesHeld
  <2>2. r \in Recorders /\ ~(Working(g) /\ r \in RecsOf(g))
    BY <1>2, <2>1, WorkersFit DEF ClaimsApart
  <2>3. ~EndsRecorder(g, r)
    BY <1>2, <2>2, EndsRecorderIsLate DEF EndsRecorder, Live
  <2>4. b \in recBuffers'[r]
    BY <2>1, <2>2, <2>3, BuffersLost
  <2> QED BY <1>2, <2>1, <2>4
<1>3. CASE Tracks(g) /\ op[g].rec = x /\ SubRecs(x)' = RecsOf(g)
  <2>1. op[g].kind \in SubmitKinds /\ pc[g] = "track"
    BY <1>3 DEF Tracks, Moves
  <2>2. \E r \in RecsOf(g) : b \in recBuffers[r]
    BY <1>1, <1>3, <2>1 DEF UsesHeld, CallUsesHeld
  <2>3. UNCHANGED recBuffers
    BY <1>3 DEF Tracks, recorderVars
  <2> QED BY <1>3, <2>2, <2>3
<1> QED BY <1>2, <1>3, LiveGoesOn

\* What a retained transfer uses is the buffer it retains.
LEMMA RetainedUsesKept ==
    ASSUME Types, CallsFit, Account, OneCloser, Fitting, ClaimsApart, Reserved, Registered, UsesHeld,
           NEW g \in Goroutines, GoroutineMoves(g)
    PROVE  RetainedUsesHeld'
<1> SUFFICES ASSUME NEW t \in transients', NEW b \in Buffers, t[2] # NoOne, resources'[t[1]][b] # "none"
             PROVE  b = t[2]
  BY DEF RetainedUsesHeld
<1>1. CASE t \in transients
  <2>1. t[1] \in Batches
    BY <1>1 DEF Types, DeviceTypes
  <2>2. resources'[t[1]] = resources[t[1]]
    BY <1>1, <2>1, ResourcesStay
  <2> QED BY <1>1, <2>2 DEF UsesHeld, RetainedUsesHeld
<1>2. CASE t \notin transients
  <2>1. LosesTransfer(g) \/ RetainsBatch(g)
    <3>1. UNCHANGED transients \/ LosesTransfer(g) \/ RetainsBatch(g) \/ transients' \subseteq transients
      BY RestingSteps DEF Rests, Reserves, IsGranted, SleepsOn, Withdraws, PutsOnQueue, FailsToSubmit, EndsTransfer, Tracks,
         SeesCompletion, LosesSubmission, FinishesSubmission, CleansUp, EndsSubmission, deviceVars
    <3> QED BY <1>2, <3>1
  <2>2. CASE LosesTransfer(g)
    <3>1. t = <<g, op[g].buf>> /\ UNCHANGED resources /\ op[g].kind = "transfer" /\ pc[g] = "waitFence"
      BY <1>2, <2>2 DEF LosesTransfer, Keeps, Moves
    <3>2. t[1] = g /\ t[2] = op[g].buf
      BY <3>1
    <3> QED BY <3>1, <3>2 DEF UsesHeld, CallUsesHeld
  <2>3. CASE RetainsBatch(g)
    BY <1>2, <2>3 DEF RetainsBatch
  <2> QED BY <2>1, <2>2, <2>3
<1> QED BY <1>1, <1>2

\* Whatever a batch uses is retained by who answers for the batch.
LEMMA UsesHeldKept ==
    ASSUME Types, CallsFit, Account, OneCloser, Fitting, ClaimsApart, ClaimStates, Reserved, Registered, UsesHeld, Moved
    PROVE  UsesHeld'
<1>1. CASE \E g \in Goroutines : GoroutineMoves(g)
  <2>1. RecordedUsesHeld
    BY DEF UsesHeld
  <2>2. RecordedUsesHeld' /\ SubmittedUsesHeld' /\ RetainedUsesHeld' /\ \A h \in Goroutines : CallUsesHeld(h)'
    BY <1>1, <2>1, RecordedUsesKept, CallUsesKept, SubmittedUsesKept, RetainedUsesKept
  <2> QED BY <2>2 DEF UsesHeld
<1>2. CASE UNCHANGED <<pc, op, recState, recUses, recBuffers, resources, transients, subState, subRecorders>>
  BY <1>2 DEF UsesHeld, RecordedUsesHeld, CallUsesHeld, SubmittedUsesHeld, RetainedUsesHeld, Released, Working, RecsOf,
      Live, Tracked, SubRecs
<1> QED BY <1>1, <1>2 DEF Moved, vars, Completes, threadVars, recorderVars, schedulerVars, deviceVars, trackingVars

----------------------------------------------------------------------------
\* Who refers to a buffer: recorders, transfers in progress and retained transfers.
RecHolders(b)  == {r \in Recorders : b \in recBuffers[r]}
Bears(g, b)    == pc[g] \in {"parked", "queueSubmit", "waitFence"} /\ op[g].kind = "transfer" /\ op[g].buf = b
Bearers(b)     == {g \in Goroutines : Bears(g, b)}
KeptHolders(b) == {t \in transients : t[2] = b}

\* Their numbers are finite, and add up.
LEMMA HoldersAddUp ==
    ASSUME DeviceTypes, NEW b
    PROVE  /\ IsFiniteSet(RecHolders(b)) /\ IsFiniteSet(Bearers(b)) /\ IsFiniteSet(KeptHolders(b))
           /\ Holders(b) = Cardinality(RecHolders(b)) + Cardinality(Bearers(b)) + Cardinality(KeptHolders(b))
<1>1. IsFiniteSet(RecHolders(b))
  BY QueueAssumption, FS_Subset DEF RecHolders
<1>2. IsFiniteSet(Bearers(b))
  BY QueueAssumption, FS_Subset DEF Bearers
<1>3. IsFiniteSet(KeptHolders(b))
  <2>1. IsFiniteSet(Batches)
    BY QueueAssumption, FS_Union DEF Batches
  <2>2. IsFiniteSet(Buffers \cup {NoOne})
    BY QueueAssumption, FS_Singleton, FS_Union
  <2>3. IsFiniteSet(Batches \X (Buffers \cup {NoOne}))
    BY <2>1, <2>2, FS_Product
  <2>4. KeptHolders(b) \subseteq Batches \X (Buffers \cup {NoOne})
    BY DEF KeptHolders, DeviceTypes
  <2> QED BY <2>3, <2>4, FS_Subset
<1> QED BY <1>1, <1>2, <1>3 DEF Holders, RecHolders, Bearers, Bears, KeptHolders

\* A finite set with one element more or less.
LEMMA OneMoreOrLess ==
    ASSUME NEW D, IsFiniteSet(D), NEW x
    PROVE  /\ Cardinality(D) \in Nat
           /\ x \notin D => Cardinality(D \cup {x}) = Cardinality(D) + 1
           /\ x \in D => /\ Cardinality(D) > 0 /\ Cardinality(D \ {x}) = Cardinality(D) - 1
<1>1. Cardinality(D) \in Nat
  BY FS_CardinalityType
<1>2. x \notin D => Cardinality(D \cup {x}) = Cardinality(D) + 1
  BY FS_AddElement
<1>3. x \in D => Cardinality(D \ {x}) = Cardinality(D) - 1 /\ IsFiniteSet(D \ {x})
  BY FS_RemoveElement
<1>4. x \in D => Cardinality(D \ {x}) \in Nat
  BY <1>3, FS_CardinalityType
<1> QED BY <1>1, <1>2, <1>3, <1>4

\* What a step may do to who refers to a buffer and to its references.
SameRecs(b) == RecHolders(b)' = RecHolders(b)
SameBearers(b) == Bearers(b)' = Bearers(b)
SameKept(b) == KeptHolders(b)' = KeptHolders(b)

Counts(b) ==
    \/ SameRecs(b) /\ SameBearers(b) /\ SameKept(b) /\ references'[b] = references[b]
    \/ \E x : /\ x \notin RecHolders(b) /\ RecHolders(b)' = RecHolders(b) \cup {x} /\ SameBearers(b) /\ SameKept(b)
              /\ references'[b] = references[b] + 1
    \/ \E x : /\ x \in RecHolders(b) /\ RecHolders(b)' = RecHolders(b) \ {x} /\ SameBearers(b) /\ SameKept(b)
              /\ references'[b] = Less(references[b])
    \/ \E x : /\ x \notin Bearers(b) /\ Bearers(b)' = Bearers(b) \cup {x} /\ SameRecs(b) /\ SameKept(b)
              /\ references'[b] = references[b] + 1
    \/ \E x : /\ x \in Bearers(b) /\ Bearers(b)' = Bearers(b) \ {x} /\ SameRecs(b) /\ SameKept(b)
              /\ references'[b] = Less(references[b])
    \/ \E x : /\ x \in KeptHolders(b) /\ KeptHolders(b)' = KeptHolders(b) \ {x} /\ SameRecs(b) /\ SameBearers(b)
              /\ references'[b] = Less(references[b])
    \/ \E x, t : /\ x \in Bearers(b) /\ Bearers(b)' = Bearers(b) \ {x}
                 /\ t \notin KeptHolders(b) /\ KeptHolders(b)' = KeptHolders(b) \cup {t}
                 /\ SameRecs(b) /\ references'[b] = references[b]

\* Any of these changes keeps the count.
LEMMA CountsKeep ==
    ASSUME DeviceTypes, NEW b, references[b] = Holders(b), Counts(b)
    PROVE  references'[b] = Holders(b)'
<1>1. /\ Holders(b) = Cardinality(RecHolders(b)) + Cardinality(Bearers(b)) + Cardinality(KeptHolders(b))
      /\ Holders(b)' = Cardinality(RecHolders(b)') + Cardinality(Bearers(b)') + Cardinality(KeptHolders(b)')
  BY DEF Holders, RecHolders, Bearers, Bears, KeptHolders
<1>2. /\ IsFiniteSet(RecHolders(b)) /\ IsFiniteSet(Bearers(b)) /\ IsFiniteSet(KeptHolders(b))
      /\ Cardinality(RecHolders(b)) \in Nat /\ Cardinality(Bearers(b)) \in Nat /\ Cardinality(KeptHolders(b)) \in Nat
  BY HoldersAddUp, OneMoreOrLess
<1> USE DEF SameRecs, SameBearers, SameKept
<1>3. CASE SameRecs(b) /\ SameBearers(b) /\ SameKept(b) /\ references'[b] = references[b]
  BY <1>1, <1>3
<1>4. ASSUME NEW x, x \notin RecHolders(b), RecHolders(b)' = RecHolders(b) \cup {x}, SameBearers(b), SameKept(b),
             references'[b] = references[b] + 1
      PROVE  references'[b] = Holders(b)'
  BY <1>1, <1>2, <1>4, OneMoreOrLess
<1>5. ASSUME NEW x, x \in RecHolders(b), RecHolders(b)' = RecHolders(b) \ {x}, SameBearers(b), SameKept(b),
             references'[b] = Less(references[b])
      PROVE  references'[b] = Holders(b)'
  BY <1>1, <1>2, <1>5, OneMoreOrLess DEF Less
<1>6. ASSUME NEW x, x \notin Bearers(b), Bearers(b)' = Bearers(b) \cup {x}, SameRecs(b), SameKept(b),
             references'[b] = references[b] + 1
      PROVE  references'[b] = Holders(b)'
  BY <1>1, <1>2, <1>6, OneMoreOrLess
<1>7. ASSUME NEW x, x \in Bearers(b), Bearers(b)' = Bearers(b) \ {x}, SameRecs(b), SameKept(b),
             references'[b] = Less(references[b])
      PROVE  references'[b] = Holders(b)'
  BY <1>1, <1>2, <1>7, OneMoreOrLess DEF Less
<1>8. ASSUME NEW x, x \in KeptHolders(b), KeptHolders(b)' = KeptHolders(b) \ {x}, SameRecs(b), SameBearers(b),
             references'[b] = Less(references[b])
      PROVE  references'[b] = Holders(b)'
  BY <1>1, <1>2, <1>8, OneMoreOrLess DEF Less
<1>9. ASSUME NEW x, NEW t, x \in Bearers(b), Bearers(b)' = Bearers(b) \ {x},
             t \notin KeptHolders(b), KeptHolders(b)' = KeptHolders(b) \cup {t},
             SameRecs(b), references'[b] = references[b]
      PROVE  references'[b] = Holders(b)'
  <2>1. /\ Cardinality(Bearers(b) \ {x}) = Cardinality(Bearers(b)) - 1
        /\ Cardinality(KeptHolders(b) \cup {t}) = Cardinality(KeptHolders(b)) + 1
    BY <1>2, <1>9, OneMoreOrLess
  <2> QED BY <1>1, <1>2, <1>9, <2>1
<1> QED BY <1>3, <1>4, <1>5, <1>6, <1>7, <1>8, <1>9 DEF Counts

\* A buffer that something refers to has references.
LEMMA HoldersCount ==
    ASSUME DeviceTypes, ReferencesCountHolders, NEW b \in Buffers,
           RecHolders(b) # {} \/ Bearers(b) # {} \/ KeptHolders(b) # {}
    PROVE  references[b] > 0
<1>1. references[b] = Cardinality(RecHolders(b)) + Cardinality(Bearers(b)) + Cardinality(KeptHolders(b))
  BY HoldersAddUp DEF ReferencesCountHolders
<1>2. /\ IsFiniteSet(RecHolders(b)) /\ IsFiniteSet(Bearers(b)) /\ IsFiniteSet(KeptHolders(b))
      /\ Cardinality(RecHolders(b)) \in Nat /\ Cardinality(Bearers(b)) \in Nat /\ Cardinality(KeptHolders(b)) \in Nat
  BY HoldersAddUp, OneMoreOrLess
<1>3. \A D : IsFiniteSet(D) /\ D # {} => Cardinality(D) > 0
  BY OneMoreOrLess
<1> QED BY <1>1, <1>2, <1>3

----------------------------------------------------------------------------
\* Where the sets of those who refer to a buffer stay the same.
LEMMA BearersOf ==
    ASSUME NEW g \in Goroutines, Stay(g), NEW b
    PROVE  /\ (Bears(g, b)' <=> Bears(g, b)) => SameBearers(b)
           /\ ~Bears(g, b) /\ Bears(g, b)' => g \notin Bearers(b) /\ Bearers(b)' = Bearers(b) \cup {g}
           /\ Bears(g, b) /\ ~Bears(g, b)' => g \in Bearers(b) /\ Bearers(b)' = Bearers(b) \ {g}
<1>1. \A h \in Goroutines : h # g => (Bears(h, b)' <=> Bears(h, b))
  BY DEF Stay, Bears
<1>2. \A h \in Goroutines : h \in Bearers(b)' <=> Bears(h, b)'
  BY DEF Bearers
<1>3. Bearers(b)' \subseteq Goroutines /\ Bearers(b) \subseteq Goroutines
  BY DEF Bearers
<1>4. \A h \in Goroutines : h \in Bearers(b) <=> Bears(h, b)
  BY DEF Bearers
<1> QED BY <1>1, <1>2, <1>3, <1>4 DEF SameBearers

\* Recording, releaseReferences and Device.Close change a recorder's buffers and their
\* references together.
LEMMA RecordingCounts ==
    ASSUME Types, CallsFit, NEW g \in Goroutines, NEW b \in Buffers, SameBearers(b), SameKept(b),
           \/ Records(g) \/ (\E d \in Buffers : DropsReference(g, d)) \/ \E r \in Recorders : EndsRecorder(g, r)
    PROVE  Counts(b)
<1>0. CallTypes /\ RecorderTypes
  BY DEF Types
<1> USE DEF Only, Moves, Leaves
<1>1. CASE Records(g)
  <2>1. PICK q \in Recorders : q = op[g].rec
    BY <1>0, <1>1, OpFields DEF Records, RecorderKinds
  <2>2. op[g].buf \in Buffers
    BY <1>0, <1>1, OpFields DEF Records
  <2>3. CASE b # op[g].buf
    <3>1. SameRecs(b) /\ references'[b] = references[b]
      BY <1>1, <2>1, <2>3 DEF Records, SameRecs, RecHolders
    <3> QED BY <3>1 DEF Counts
  <2>4. CASE b = op[g].buf /\ b \in recBuffers[q]
    <3>1. SameRecs(b) /\ references'[b] = references[b]
      BY <1>1, <2>1, <2>4 DEF Records, SameRecs, RecHolders
    <3> QED BY <3>1 DEF Counts
  <2>5. CASE b = op[g].buf /\ b \notin recBuffers[q]
    <3>1. q \notin RecHolders(b) /\ RecHolders(b)' = RecHolders(b) \cup {q} /\ references'[b] = references[b] + 1
      BY <1>1, <2>1, <2>5 DEF Records, RecHolders
    <3> QED BY <3>1 DEF Counts
  <2> QED BY <2>3, <2>4, <2>5
<1>2. ASSUME NEW d \in Buffers, DropsReference(g, d) PROVE Counts(b)
  <2>1. op[g].recs \in RecorderLists /\ op[g].recs # << >>
    BY <1>0, <1>2, OpFields DEF DropsReference, RecorderKinds
  <2>2. PICK q \in Recorders : q = op[g].recs[1]
    BY <2>1, TailOfList
  <2>3. CASE b # d
    <3>1. SameRecs(b) /\ references'[b] = references[b]
      BY <1>2, <2>2, <2>3 DEF DropsReference, SameRecs, RecHolders
    <3> QED BY <3>1 DEF Counts
  <2>4. CASE b = d
    <3>1. q \in RecHolders(b) /\ RecHolders(b)' = RecHolders(b) \ {q} /\ references'[b] = Less(references[b])
      BY <1>2, <2>2, <2>4 DEF DropsReference, RecHolders
    <3> QED BY <3>1 DEF Counts
  <2> QED BY <2>3, <2>4
<1>3. ASSUME NEW r \in Recorders, EndsRecorder(g, r) PROVE Counts(b)
  <2>1. CASE b \notin recBuffers[r]
    <3>1. SameRecs(b) /\ references'[b] = references[b]
      BY <1>3, <2>1 DEF EndsRecorder, SameRecs, RecHolders
    <3> QED BY <3>1 DEF Counts
  <2>2. CASE b \in recBuffers[r]
    <3>1. r \in RecHolders(b) /\ RecHolders(b)' = RecHolders(b) \ {r} /\ references'[b] = Less(references[b])
      BY <1>3, <2>2 DEF EndsRecorder, RecHolders
    <3> QED BY <3>1 DEF Counts
  <2> QED BY <2>1, <2>2
<1> QED BY <1>1, <1>2, <1>3

\* retain and release come in pairs on every path: Buffer.references counts who refers
\* to the buffer.
LEMMA ReferencesKept ==
    ASSUME Types, CallsFit, Account, OneCloser, Fitting, ClaimsApart, Reserved, ReferencesCountHolders, Moved
    PROVE  ReferencesCountHolders'
<1>0. DeviceTypes /\ CallTypes
  BY DEF Types
<1> USE DEF Moves, Leaves, Only, programVars, recorderVars, bufferVars, deviceVars, threadVars
<1>1. ASSUME NEW g \in Goroutines, GoroutineMoves(g), NEW b \in Buffers PROVE Counts(b)
  <2>1. Stay(g)
    BY <1>1, EveryMove
  <2>r. UNCHANGED recBuffers => SameRecs(b)
    BY DEF SameRecs, RecHolders
  <2>k. UNCHANGED transients => SameKept(b)
    BY DEF SameKept, KeptHolders
  <2>s. (Bears(g, b)' <=> Bears(g, b)) => SameBearers(b)
    BY <2>1, BearersOf
  <2>2. CASE Rests(g)
    <3>1. SameBearers(b) /\ SameKept(b)
      BY <2>2, <2>k, <2>s DEF Rests, Owning, Bears, QueueKinds
    <3>2. CASE \/ Records(g) \/ (\E d \in Buffers : DropsReference(g, d)) \/ \E r \in Recorders : EndsRecorder(g, r)
      BY <3>1, <3>2, RecordingCounts
    <3>3. CASE ~(\/ Records(g) \/ (\E d \in Buffers : DropsReference(g, d)) \/ \E r \in Recorders : EndsRecorder(g, r))
      <4>1. UNCHANGED recBuffers
        BY <1>1, <3>3, RecorderSteps DEF PutsOnQueue, Finishes
      <4>2. ~(op[g].kind = "transfer" /\ Reserves(g))
            /\ ~(op[g].kind = "transfer" /\ (Withdraws(g) \/ FailsToSubmit(g) \/ EndsTransfer(g)))
        BY <2>2 DEF Rests, Owning, Reserves, Withdraws, FailsToSubmit, EndsTransfer, QueueKinds
      <4>3. \A t \in transients : ~CleansUp(g, t)
        BY <2>2 DEF Rests, CleansUp
      <4>4. UNCHANGED references
        BY <1>1, <3>3, <4>2, <4>3, ReferenceSteps
      <4> QED BY <2>r, <3>1, <4>1, <4>4 DEF Counts
    <3> QED BY <3>2, <3>3
  <2>3. CASE /\ UNCHANGED <<recBuffers, transients, references>>
             /\ Bears(g, b)' <=> Bears(g, b)
    BY <2>r, <2>k, <2>s, <2>3 DEF Counts
  <2>4. CASE Reserves(g)
    <3>1. UNCHANGED <<recBuffers, transients>> /\ ~Bears(g, b) /\ (Bears(g, b)' <=> op[g].kind = "transfer" /\ op[g].buf = b)
      BY <2>4 DEF Reserves, Bears
    <3>2. CASE op[g].kind = "transfer" /\ op[g].buf = b
      BY <2>1, <2>4, <2>r, <2>k, <3>1, <3>2, BearersOf DEF Reserves, Counts
    <3>3. CASE ~(op[g].kind = "transfer" /\ op[g].buf = b)
      <4>1. references'[b] = references[b]
        BY <2>4, <3>3 DEF Reserves
      <4> QED BY <2>r, <2>k, <2>s, <3>1, <3>3, <4>1 DEF Counts
    <3> QED BY <3>2, <3>3
  <2>5. CASE Withdraws(g) \/ FailsToSubmit(g) \/ EndsTransfer(g)
    <3>1. /\ UNCHANGED <<recBuffers, transients>> /\ Drops(g) /\ ~Bears(g, b)'
          /\ Bears(g, b) <=> op[g].kind = "transfer" /\ op[g].buf = b
      BY <2>5 DEF Withdraws, FailsToSubmit, EndsTransfer, Bears, Unwound
    <3>2. CASE Bears(g, b)
      BY <2>1, <2>r, <2>k, <3>1, <3>2, BearersOf DEF Drops, Counts
    <3>3. CASE ~Bears(g, b)
      <4>1. references'[b] = references[b]
        BY <3>1, <3>3 DEF Drops
      <4> QED BY <2>r, <2>k, <2>s, <3>1, <3>3, <4>1 DEF Counts
    <3> QED BY <3>2, <3>3
  <2>6. CASE IsGranted(g) \/ SleepsOn(g) \/ PutsOnQueue(g)
    <3>1. UNCHANGED <<recBuffers, transients, references>> /\ (Bears(g, b)' <=> Bears(g, b))
      BY <2>6 DEF IsGranted, SleepsOn, PutsOnQueue, Bears
    <3> QED BY <2>3, <3>1
  <2>7. CASE LosesTransfer(g)
    <3>1. /\ UNCHANGED <<recBuffers, references>> /\ ~Bears(g, b)' /\ (Bears(g, b) <=> op[g].buf = b)
          /\ transients' = transients \cup {<<g, op[g].buf>>}
      BY <2>7 DEF LosesTransfer, Bears
    <3>2. CASE Bears(g, b)
      <4>1. ~InTransients(g)
        BY <2>7 DEF LosesTransfer, Reserved, Granted, Batch, QueueKinds
      <4>2. <<g, b>> \notin KeptHolders(b) /\ KeptHolders(b)' = KeptHolders(b) \cup {<<g, b>>}
        BY <3>1, <3>2, <4>1 DEF KeptHolders, InTransients
      <4> QED BY <2>1, <2>r, <3>1, <3>2, <4>2, BearersOf DEF Counts
    <3>3. CASE ~Bears(g, b)
      <4>1. SameKept(b)
        BY <3>1, <3>3 DEF SameKept, KeptHolders
      <4> QED BY <2>r, <2>s, <3>1, <3>3, <4>1 DEF Counts
    <3> QED BY <3>2, <3>3
  <2>8. CASE RetainsBatch(g)
    <3>1. /\ UNCHANGED <<recBuffers, references>> /\ (Bears(g, b)' <=> Bears(g, b))
          /\ transients' = transients \cup {<<op[g].rec, NoOne>>}
      BY <2>8 DEF RetainsBatch, Bears
    <3>2. SameKept(b)
      BY <3>1, QueueAssumption DEF SameKept, KeptHolders
    <3> QED BY <2>r, <2>s, <3>1, <3>2 DEF Counts
  <2>9. CASE \/ Tracks(g) \/ SeesCompletion(g) \/ LosesSubmission(g) \/ FinishesSubmission(g)
             \/ \E r \in Recorders : EndsSubmission(g, r)
    <3>1. UNCHANGED <<recBuffers, transients, references>> /\ (Bears(g, b)' <=> Bears(g, b))
      <4>1. CASE Tracks(g)
        BY <4>1 DEF Tracks, Bears, SubmitKinds
      <4>2. CASE SeesCompletion(g) \/ LosesSubmission(g) \/ FinishesSubmission(g)
        BY <4>2 DEF SeesCompletion, LosesSubmission, FinishesSubmission, Bears, ObserverKinds
      <4>3. CASE \E r \in Recorders : EndsSubmission(g, r)
        BY <4>3 DEF EndsSubmission, Bears
      <4> QED BY <2>9, <4>1, <4>2, <4>3
    <3> QED BY <2>3, <3>1
  <2>10. ASSUME NEW t \in transients, CleansUp(g, t) PROVE Counts(b)
    <3>1. SameRecs(b) /\ SameBearers(b) /\ transients' = transients \ {t}
      BY <2>10, <2>r, <2>s DEF CleansUp, Bears
    <3>2. CASE t[2] = b
      <4>1. t \in KeptHolders(b) /\ KeptHolders(b)' = KeptHolders(b) \ {t} /\ references'[b] = Less(references[b])
        BY <2>10, <3>1, <3>2 DEF KeptHolders, CleansUp
      <4> QED BY <3>1, <4>1 DEF Counts
    <3>3. CASE t[2] # b
      <4>1. SameKept(b) /\ references'[b] = references[b]
        BY <2>10, <3>1, <3>3 DEF KeptHolders, SameKept, CleansUp
      <4> QED BY <3>1, <4>1 DEF Counts
    <3> QED BY <3>2, <3>3
  <2> QED BY <1>1, <2>2, <2>4, <2>5, <2>6, <2>7, <2>8, <2>9, <2>10, RestingSteps
<1>2. ASSUME UNCHANGED <<recBuffers, transients, references, pc, op>>, NEW b \in Buffers PROVE Counts(b)
  BY <1>2 DEF Counts, SameRecs, SameBearers, SameKept, RecHolders, Bearers, Bears, KeptHolders
<1>3. \A b \in Buffers : Counts(b)
  BY <1>1, <1>2 DEF Moved, vars, Completes
<1> QED BY <1>0, <1>3, CountsKeep DEF ReferencesCountHolders

----------------------------------------------------------------------------
\* A batch gets onto the queue in one way, and its uses do not change there.
LEMMA InFlightSteps ==
    ASSUME Types, CallsFit, Account, OneCloser, Fitting, ClaimsApart, Reserved, NEW g \in Goroutines, GoroutineMoves(g),
           NEW x \in Batches, batch'[x] = "executing"
    PROVE  /\ resources'[x] = resources[x]
           /\ batch[x] = "executing" \/ (PutsOnQueue(g) /\ x = Batch(g))
<1>0. \A h \in Goroutines : Granted(h)
  BY DEF Reserved
<1> USE DEF Moves, Only, schedulerVars
<1>1. CASE \/ Rests(g) \/ IsGranted(g) \/ SleepsOn(g) \/ LosesTransfer(g) \/ Tracks(g) \/ RetainsBatch(g) \/ LosesSubmission(g)
  BY <1>1 DEF Rests, IsGranted, SleepsOn, LosesTransfer, Tracks, RetainsBatch, LosesSubmission, Keeps, programVars
<1>2. CASE Reserves(g)
  <2>1. PICK q \in Batches : q = Batch(g)
    BY <1>2, BatchesDiffer DEF Reserves, Reserving
  <2>2. batch[q] = "none"
    BY <1>2, <2>1, NewBatchIsFree DEF Reserves, Reserving, Owning
  <2> QED BY <1>2, <2>1, <2>2 DEF Reserves
<1>3. CASE Withdraws(g) \/ FailsToSubmit(g)
  <2>1. PICK q \in Batches : q = Batch(g)
    BY <1>3, BatchesDiffer DEF Withdraws, FailsToSubmit, Reserving, Owning
  <2>2. batch[q] = "none"
    BY <1>0, <1>3, <2>1 DEF Withdraws, FailsToSubmit, Granted
  <2> QED BY <1>3, <2>1, <2>2 DEF Withdraws, FailsToSubmit, Frees
<1>4. CASE PutsOnQueue(g)
  BY <1>4 DEF PutsOnQueue
<1>5. CASE EndsTransfer(g)
  BY <1>5 DEF EndsTransfer, Frees
<1>6. CASE SeesCompletion(g) \/ FinishesSubmission(g)
  BY <1>6 DEF SeesCompletion, FinishesSubmission, Frees
<1>7. ASSUME NEW t \in transients, CleansUp(g, t)
      PROVE  resources'[x] = resources[x] /\ batch[x] = "executing"
  BY <1>7 DEF CleansUp, Frees
<1>8. ASSUME NEW r \in Recorders, EndsSubmission(g, r)
      PROVE  resources'[x] = resources[x] /\ batch[x] = "executing"
  BY <1>8 DEF EndsSubmission, Frees
<1> QED BY <1>1, <1>2, <1>3, <1>4, <1>5, <1>6, <1>7, <1>8, RestingSteps

\* While a goroutine is in an operation, a buffer with references is open.
LEMMA HolderKeepsOpen ==
    ASSUME Types, Account, OneCloser, HeldOpen, NEW g \in Goroutines, pc[g] \notin Outside,
           NEW b \in Buffers, references[b] > 0
    PROVE  ~bufferClosed[b]
<1>1. active # 0
  BY NobodyOperates
<1> QED BY <1>1 DEF HeldOpen, OneCloser, Destroying

\* What a batch in flight uses is referred to, unless a batch is retained that was not
\* tracked.
LEMMA InFlightIsHeld ==
    ASSUME Types, CallsFit, Fitting, Reserved, UsesHeld, ReferencesCountHolders,
           NEW x \in Batches, batch[x] = "executing", NEW b \in Buffers, resources[x][b] # "none"
    PROVE  references[b] > 0 \/ \E t \in transients : t[2] = NoOne
<1>0. DeviceTypes
  BY DEF Types
<1>1. Owner(x, {"waitFence", "track"}) \/ Kept(x)
  BY DEF Reserved, Owned
<1>r. ASSUME NEW r \in Recorders, b \in recBuffers[r] PROVE references[b] > 0
  BY <1>0, <1>r, HoldersCount DEF RecHolders
<1>2. ASSUME NEW h \in Goroutines, pc[h] \in {"waitFence", "track"}, op[h].kind \in QueueKinds, Batch(h) = x
      PROVE  references[b] > 0
  <2>1. CallUsesHeld(h)
    BY DEF UsesHeld
  <2>2. CASE op[h].kind = "transfer"
    <3>1. x = h /\ pc[h] = "waitFence"
      BY <1>2, <2>2 DEF Batch, CallsFit, CallFits, SubmitKinds
    <3>2. Bears(h, b)
      BY <2>1, <2>2, <3>1 DEF CallUsesHeld, Bears
    <3> QED BY <1>0, <3>2, HoldersCount DEF Bearers
  <2>3. CASE op[h].kind # "transfer"
    <3>1. x = op[h].rec /\ pc[h] = "track" /\ op[h].kind \in SubmitKinds
      BY <1>2, <2>3 DEF Batch, QueueKinds, CallsFit, CallFits, SubmitKinds, ObserverKinds
    <3>2. PICK r \in RecsOf(h) : b \in recBuffers[r]
      BY <2>1, <3>1 DEF CallUsesHeld
    <3>3. r \in Recorders
      BY <3>1, <3>2, SubmittedIsWork DEF Submitting
    <3> QED BY <1>r, <3>2, <3>3
  <2> QED BY <2>2, <2>3
<1>3. ASSUME NEW t \in transients, t[1] = x, t[2] # NoOne PROVE references[b] > 0
  <2>1. t[2] = b
    BY <1>3 DEF UsesHeld, RetainedUsesHeld
  <2> QED BY <1>0, <2>1, HoldersCount DEF KeptHolders
<1>4. ASSUME x \in Recorders, Tracked(x) PROVE references[b] > 0
  <2>1. Live(x)
    <3>1. ASSUME NEW h \in Goroutines, pc[h] = "releasing", op[h].kind \in ObserverKinds, op[h].rec = x PROVE FALSE
      BY <3>1 DEF Fitting, ObserverFits, Outside, Closing
    <3> QED BY <1>4, <3>1 DEF Live
  <2>2. PICK r \in SubRecs(x) : b \in recBuffers[r]
    BY <1>4, <2>1 DEF UsesHeld, SubmittedUsesHeld
  <2>3. r \in Recorders
    BY <1>4, <2>2, WorkersFit
  <2> QED BY <1>r, <2>2, <2>3
<1> QED BY <1>1, <1>2, <1>3, <1>4 DEF Owner, Kept, InTransients

\* Neither Buffer.Close nor Device.Close destroys a buffer that a batch in flight uses.
LEMMA InFlightLiveKept ==
    ASSUME Types, CallsFit, Account, OneCloser, Fitting, ClaimsApart, ClaimStates, Reserved, Registered, UsesHeld, HeldOpen,
           ReferencesCountHolders, InFlightBuffersLive, Moved
    PROVE  InFlightBuffersLive'
<1>0. DeviceTypes
  BY DEF Types
<1> USE DEF Moves, Leaves, Only
<1>1. ASSUME NEW g \in Goroutines, GoroutineMoves(g), NEW x \in Batches, NEW b \in Buffers,
             batch'[x] = "executing", resources'[x][b] # "none"
      PROVE  ~bufferClosed'[b]
  <2>1. /\ resources[x][b] # "none"
        /\ batch[x] = "executing" \/ (PutsOnQueue(g) /\ x = Batch(g))
    BY <1>1, InFlightSteps
  <2>2. CASE batch[x] = "executing"
    <3>1. ~bufferClosed[b] /\ (references[b] > 0 \/ \E t \in transients : t[2] = NoOne)
      BY <2>1, <2>2, InFlightIsHeld DEF InFlightBuffersLive
    <3>2. CASE ClosesBuffer(g)
      <4>1. references[op[g].buf] = 0 /\ status = "open"
        BY <3>2 DEF ClosesBuffer
      <4>2. \A t \in transients : t[2] # NoOne
        BY <4>1 DEF Reserved, TransientsKept
      <4>3. b # op[g].buf
        BY <3>1, <4>1, <4>2
      <4> QED BY <3>1, <3>2, <4>3 DEF ClosesBuffer
    <3>3. ASSUME NEW d \in Buffers, EndsBuffer(g, d) PROVE FALSE
      <4>1. pc[g] = "children" /\ transients = {} /\ \A h \in Goroutines : pc[h] \in Outside
        BY <3>3, CloseIsAlone DEF EndsBuffer, LastChild, Registered, Destroying
      <4>2. ~Kept(x)
        BY <1>0, <3>3, <4>1, EndsRecorderIsLate DEF EndsBuffer, Kept, InTransients
      <4> QED BY <2>2, <4>1, <4>2, KeptAtTheEnd DEF Reserved
    <3> QED BY <1>1, <3>1, <3>2, <3>3, BufferSteps
  <2>3. CASE PutsOnQueue(g) /\ x = Batch(g)
    <3>1. UNCHANGED bufferClosed /\ pc[g] = "queueSubmit" /\ op[g].kind \in QueueKinds
      BY <2>3 DEF PutsOnQueue, bufferVars
    <3>2. CallUsesHeld(g)
      BY DEF UsesHeld
    <3>3. CASE op[g].kind = "transfer"
      <4>1. b = op[g].buf
        BY <2>1, <2>3, <3>1, <3>2, <3>3 DEF CallUsesHeld, Batch
      <4> QED BY <3>1, <3>3, <4>1 DEF Fitting, TransferFits, Outside, Closing
    <3>4. CASE op[g].kind # "transfer"
      <4>1. op[g].kind \in SubmitKinds /\ x = op[g].rec
        BY <2>3, <3>1, <3>4 DEF QueueKinds, Batch
      <4>2. PICK r \in RecsOf(g) : b \in recBuffers[r]
        BY <2>1, <3>1, <3>2, <4>1 DEF CallUsesHeld
      <4>3. r \in Recorders
        BY <3>1, <4>1, SubmittedIsWork DEF Submitting
      <4>4. references[b] > 0
        BY <1>0, <4>2, <4>3, HoldersCount DEF RecHolders
      <4> QED BY <3>1, <4>4, HolderKeepsOpen DEF Outside, Closing
    <3> QED BY <3>3, <3>4
  <2> QED BY <2>1, <2>2, <2>3
<1>2. CASE UNCHANGED <<batch, resources, bufferClosed>>
  BY <1>2 DEF InFlightBuffersLive
<1>3. ASSUME NEW y \in Batches, Completes(y) PROVE InFlightBuffersLive'
  BY <1>3 DEF InFlightBuffersLive, Completes, schedulerVars, bufferVars
<1>4. CASE \E g \in Goroutines : GoroutineMoves(g)
  BY <1>1, <1>4 DEF InFlightBuffersLive
<1> QED BY <1>2, <1>3, <1>4 DEF Moved, vars, schedulerVars, bufferVars

----------------------------------------------------------------------------
\* Only Device.Close changes the status.
LEMMA StatusSteps ==
    ASSUME NEW g \in Goroutines, GoroutineMoves(g), ~UNCHANGED status
    PROVE  BeginsClose(g) \/ EndsClose(g)
<1> USE DEF deviceVars
<1>1. CASE (\E call \in Calls : StartsCall(g, call)) \/ Returns(g) \/ Drains(g) \/ GoesOn(g)
  BY <1>1 DEF StartsCall, Returns, Drains, GoesOn
<1>2. CASE \/ LocksBuffer(g) \/ Records(g) \/ TakesRecorders(g) \/ IsRefused(g) \/ Reserves(g) \/ IsGranted(g)
           \/ SleepsOn(g) \/ Withdraws(g) \/ FailsToSubmit(g) \/ PutsOnQueue(g) \/ EndsTransfer(g) \/ LosesTransfer(g)
           \/ Tracks(g) \/ RetainsBatch(g)
  BY <1>2 DEF LocksBuffer, Records, TakesRecorders, IsRefused, Reserves, IsGranted, SleepsOn, Withdraws, FailsToSubmit,
      PutsOnQueue, EndsTransfer, LosesTransfer, Tracks, RetainsBatch
<1>3. CASE \/ LocksSubmission(g) \/ SeesCompletion(g) \/ LosesSubmission(g) \/ PollsInVain(g)
           \/ (\E b \in Buffers : DropsReference(g, b)) \/ Finishes(g) \/ FinishesSubmission(g) \/ FinishesCall(g)
           \/ EndsCall(g) \/ ClosesBuffer(g)
  BY <1>3 DEF LocksSubmission, SeesCompletion, LosesSubmission, PollsInVain, DropsReference, Finishes,
      FinishesSubmission, FinishesCall, EndsCall, ClosesBuffer
<1>4. CASE \/ (\E t \in transients : CleansUp(g, t)) \/ (\E b \in Buffers : EndsBuffer(g, b))
           \/ \E r \in Recorders : ForgetsSubmission(g, r) \/ EndsSubmission(g, r) \/ ForgetsRecorder(g, r) \/ EndsRecorder(g, r)
  BY <1>4 DEF CleansUp, EndsBuffer, ForgetsSubmission, EndsSubmission, ForgetsRecorder, EndsRecorder
<1> QED BY <1>1, <1>2, <1>3, <1>4 DEF GoroutineMoves

\* On a closed Device calls only begin and return.
LEMMA ClosedRests ==
    ASSUME Types, Account, OneCloser, status = "closed", NEW g \in Goroutines, GoroutineMoves(g)
    PROVE  UNCHANGED <<quietVars, status>>
<1>1. pc[g] \in Away
  BY NobodyOperates DEF OneCloser, Outside, Away
<1> USE DEF Away, Closing, Destroying, Moves
<1>2. CASE (\E call \in Calls : StartsCall(g, call)) \/ Returns(g)
  BY <1>2 DEF StartsCall, Returns
<1>3. ~BeginsClose(g) /\ ~Drains(g) /\ ~GoesOn(g) /\ ~EndsClose(g)
  BY <1>1 DEF BeginsClose, Drains, GoesOn, EndsClose, Leaves
<1>4. ~LocksBuffer(g) /\ ~Records(g) /\ ~TakesRecorders(g) /\ ~LocksSubmission(g) /\ ~ClosesBuffer(g)
  BY DEF LocksBuffer, Records, TakesRecorders, LocksSubmission, ClosesBuffer
<1>5. /\ ~IsRefused(g) /\ ~Reserves(g) /\ ~IsGranted(g) /\ ~SleepsOn(g) /\ ~Withdraws(g) /\ ~PutsOnQueue(g)
      /\ ~FailsToSubmit(g) /\ ~EndsTransfer(g) /\ ~LosesTransfer(g) /\ ~Tracks(g) /\ ~RetainsBatch(g)
  BY <1>1 DEF IsRefused, Reserves, IsGranted, SleepsOn, Withdraws, PutsOnQueue, FailsToSubmit, EndsTransfer,
      LosesTransfer, Tracks, RetainsBatch
<1>6. /\ ~SeesCompletion(g) /\ ~LosesSubmission(g) /\ ~PollsInVain(g) /\ (\A b \in Buffers : ~DropsReference(g, b))
      /\ ~Finishes(g) /\ ~FinishesSubmission(g) /\ ~FinishesCall(g) /\ ~EndsCall(g)
  BY <1>1 DEF SeesCompletion, LosesSubmission, PollsInVain, DropsReference, Finishes, FinishesSubmission, FinishesCall, EndsCall
<1>7. ~Destroys(g)
  BY <1>1, DestroyingSteps
<1> QED BY <1>2, <1>3, <1>4, <1>5, <1>6, <1>7 DEF GoroutineMoves, Destroys

\* FinishClose comes when nothing is left, and after it nothing changes.
LEMMA CloseReclaimsKept ==
    ASSUME Types, CallsFit, Account, OneCloser, SchedulerInv, Reserved, Registered, Emptied,
           ReferencesCountHolders, CloseReclaims, Moved
    PROVE  CloseReclaims'
<1>0. DeviceTypes
  BY DEF Types
<1> USE DEF quietVars, programVars, schedulerVars, bufferVars, recorderVars, trackingVars
<1>1. ASSUME NEW g \in Goroutines, EndsClose(g) PROVE CloseReclaims'
  <2>1. /\ pc[g] = "children" /\ closeList = << >> /\ transients = {} /\ Listed(closeList)
        /\ \A h \in Goroutines : pc[h] \in Outside
    BY <1>1, CloseIsAlone DEF EndsClose, Leaves, Registered, Destroying
  <2>2. /\ \A b \in Buffers : bufferClosed[b]
        /\ \A r \in Recorders : recState[r] \in {"submitted", "aborted"} /\ ~Tracked(r)
    BY <2>1 DEF Listed, Range
  <2>3. \A x \in Batches : ~Kept(x)
    BY <2>1, <2>2 DEF Kept, InTransients
  <2>4. \A x \in Batches : ~Waits(caller, x) /\ x \notin activeSubmissions /\ batch[x] = "none"
    BY <2>1, <2>3, KeptAtTheEnd DEF Reserved
  <2>5. activeSubmissions = {}
    BY <2>4, SchedulerTypes
  <2>6. pendingSubmissions = << >>
    <3>1. S!Range(pendingSubmissions) = {}
      BY <2>4 DEF SchedulerInv, S!QueueMatchesCallers, S!Waiting, Waits
    <3>2. pendingSubmissions \in Seq(Batches)
      BY DEF SchedulerInv, S!TypeOK
    <3>3. ASSUME pendingSubmissions # << >> PROVE FALSE
      <4>1. 1 \in DOMAIN pendingSubmissions
        BY <3>2, <3>3
      <4> QED BY <3>1, <4>1 DEF S!Range
    <3> QED BY <3>3
  <2>7. ASSUME NEW b \in Buffers PROVE references[b] = 0
    <3>1. RecHolders(b) = {} /\ Bearers(b) = {} /\ KeptHolders(b) = {}
      BY <2>1, <2>2 DEF RecHolders, Emptied, Bearers, Bears, Outside, Closing, KeptHolders
    <3>2. Cardinality({}) = 0
      BY FS_EmptySet
    <3> QED BY <1>0, <3>1, <3>2, HoldersAddUp DEF ReferencesCountHolders
  <2>8. \A r \in Recorders : subState[r] \in {"none", "done"}
    BY <2>2 DEF Types, TrackingTypes, Tracked
  <2>9. UNCHANGED quietVars
    BY <1>1 DEF EndsClose
  <2> QED BY <2>1, <2>2, <2>4, <2>5, <2>6, <2>7, <2>8, <2>9 DEF CloseReclaims
<1>2. ASSUME NEW g \in Goroutines, GoroutineMoves(g), ~EndsClose(g) PROVE CloseReclaims'
  <2>1. CASE status = "closed"
    <3>1. UNCHANGED <<quietVars, status>>
      BY <1>2, <2>1, ClosedRests
    <3> QED BY <3>1 DEF CloseReclaims
  <2>2. CASE status # "closed"
    <3>1. status' # "closed"
      BY <1>2, <2>2, StatusSteps DEF BeginsClose
    <3> QED BY <3>1 DEF CloseReclaims
  <2> QED BY <2>1, <2>2
<1>3. ASSUME NEW x \in Batches, Completes(x) PROVE CloseReclaims'
  <2>1. status # "closed" /\ UNCHANGED status
    BY <1>3 DEF Completes, CloseReclaims, deviceVars
  <2> QED BY <2>1 DEF CloseReclaims
<1>4. CASE UNCHANGED vars
  BY <1>4 DEF vars, deviceVars, CloseReclaims
<1> QED BY <1>1, <1>2, <1>3, <1>4 DEF Moved

----------------------------------------------------------------------------
\* At first everything is open and listed, and nothing is in progress.
LEMMA InitialChildren ==
    ASSUME Init
    PROVE  children \in Seq(Children) /\ Listed(children) /\ SubmissionsLast(children)
<1>1. PICK order \in Creations :
        children = [i \in DOMAIN order |-> <<IF order[i] \in Buffers THEN "buffer" ELSE "recorder", order[i]>>]
  BY DEF Init
<1>2. PICK n \in Nat : n = Cardinality(Buffers \cup Recorders)
  BY QueueAssumption, FS_Union, FS_CardinalityType
<1>3. /\ order \in [1..n -> Buffers \cup Recorders]
      /\ \A y \in Buffers \cup Recorders : \E i \in 1..n : order[i] = y
  BY <1>2, CreationsAssumption DEF CreationOrders, Bijection, Injection, Surjection
<1>4. \A i \in 1..n : children[i] = <<IF order[i] \in Buffers THEN "buffer" ELSE "recorder", order[i]>>
  BY <1>1, <1>3
<1>5. \A i \in 1..n : children[i] \in Children /\ children[i][1] # "submission"
  <2> TAKE i \in 1..n
  <2>1. order[i] \in Buffers \cup Recorders
    BY <1>3
  <2>2. CASE order[i] \in Buffers
    <3>1. children[i] = <<"buffer", order[i]>>
      BY <1>4, <2>2
    <3> QED BY <2>2, <3>1 DEF Children
  <2>3. CASE order[i] \notin Buffers
    <3>1. children[i] = <<"recorder", order[i]>>
      BY <1>4, <2>3
    <3> QED BY <2>1, <2>3, <3>1 DEF Children
  <2> QED BY <2>2, <2>3
<1>6. children \in [1..n -> Children]
  BY <1>1, <1>3, <1>5
<1>7. children \in Seq(Children) /\ DOMAIN children = 1..n
  BY <1>6
<1>8. ASSUME NEW b \in Buffers PROVE <<"buffer", b>> \in Range(children)
  BY <1>3, <1>4, <1>7 DEF Range
<1>9. ASSUME NEW r \in Recorders PROVE <<"recorder", r>> \in Range(children)
  <2>1. r \notin Buffers
    BY QueueAssumption
  <2> QED BY <1>3, <1>4, <1>7, <2>1 DEF Range
<1>10. \A x \in Recorders : ~Tracked(x)
  BY DEF Init, Tracked
<1> QED BY <1>5, <1>7, <1>8, <1>9, <1>10 DEF Listed, SubmissionsLast

\* The invariant holds of a Device on which nothing has been called.
LEMMA QueueInit == Init => QueueInv
<1> SUFFICES ASSUME Init PROVE QueueInv
  OBVIOUS
<1> USE DEF Init
<1>1. Types
  <2>1. DeviceTypes
    BY InitialChildren DEF DeviceTypes
  <2>2. BufferTypes /\ TrackingTypes
    BY DEF BufferTypes, TrackingTypes
  <2>3. RecorderTypes
    BY DEF RecorderTypes, S!NoBuffers, S!Resources, S!Access
  <2>4. CallTypes
    BY DEF CallTypes, Labels, Ops
  <2> QED BY <2>1, <2>2, <2>3, <2>4 DEF Types
<1>2. Account /\ OneCloser
  <2>1. Operating = {} /\ Cardinality({}) = 0
    BY FS_EmptySet DEF Operating, Outside
  <2> QED BY <2>1 DEF Account, OneCloser, Closing, Destroying
<1>3. /\ CallsFit /\ Fitting /\ OneUser
      /\ \A g \in Goroutines : ~Working(g)
  BY DEF CallsFit, CallFits, Closing, Submitting, Fitting, TransferFits, ObserverFits, SubmitFits, Outside, OneUser, NoOp,
         RecorderKinds, SubmitKinds, Working
<1>4. ClaimsApart /\ ClaimStates
  BY <1>3 DEF ClaimsApart, ClaimStates, Live, Tracked
<1>5. SchedulerInv
  <2>1. P!Init
    BY DEF S!Init, P!Init, S!NoBuffers, P!NoBuffers
  <2>2. P!MonitorInv
    <3>1. Requests \subseteq P!Resources
      BY DEF Requests, P!Resources, P!Access
    <3> QED BY <2>1, <3>1, P!MonitorInit
  <2> QED BY <2>2, SchedulerInvIsMonitorInv
<1>6. Reserved
  <2>1. \A x \in Batches : caller[x] = "outside" /\ x \notin activeSubmissions /\ batch[x] = "none"
    BY DEF S!Init
  <2>2. \A g \in Goroutines : Granted(g)
    BY DEF Granted, NoOp, QueueKinds, SubmitKinds
  <2>3. TransientsKept
    BY DEF TransientsKept
  <2> QED BY <2>1, <2>2, <2>3 DEF Reserved, Owned, InFlightIsReserved
<1>7. UsesHeld
  <2>1. \A x \in Batches : \A b \in Buffers : resources[x][b] = "none"
    BY DEF S!Init, S!NoBuffers
  <2>2. \A r \in Recorders : \A b \in Buffers : recUses[r][b] = "none"
    BY DEF S!NoBuffers
  <2>3. RecordedUsesHeld /\ RetainedUsesHeld
    BY <2>2 DEF RecordedUsesHeld, RetainedUsesHeld
  <2>4. \A g \in Goroutines : CallUsesHeld(g)
    BY DEF CallUsesHeld, NoOp, SubmitKinds
  <2>5. SubmittedUsesHeld
    BY DEF SubmittedUsesHeld, Live, Tracked
  <2> QED BY <2>3, <2>4, <2>5 DEF UsesHeld
<1>8. HeldOpen /\ Emptied /\ InFlightBuffersLive /\ CloseReclaims
  BY DEF HeldOpen, Emptied, InFlightBuffersLive, CloseReclaims
<1>9. Registered
  <2>1. SubmissionsLast(closeList)
    BY DEF SubmissionsLast
  <2> QED BY <2>1, InitialChildren DEF Registered, Destroying
<1>10. ReferencesCountHolders
  <2>1. ASSUME NEW b \in Buffers PROVE references[b] = Holders(b)
    <3>1. RecHolders(b) = {} /\ Bearers(b) = {} /\ KeptHolders(b) = {}
      BY DEF RecHolders, Bearers, Bears, KeptHolders
    <3>2. Cardinality({}) = 0
      BY FS_EmptySet
    <3>3. references[b] = 0
      OBVIOUS
    <3>4. Holders(b) = Cardinality(RecHolders(b)) + Cardinality(Bearers(b)) + Cardinality(KeptHolders(b))
      <4>1. DeviceTypes
        BY <1>1 DEF Types
      <4> QED BY <4>1, HoldersAddUp
    <3> QED BY ONLY <3>1, <3>2, <3>3, <3>4
  <2> QED BY <2>1 DEF ReferencesCountHolders
<1> QED BY <1>1, <1>2, <1>3, <1>4, <1>5, <1>6, <1>7, <1>8, <1>9, <1>10 DEF QueueInv

----------------------------------------------------------------------------
\* Every step of every goroutine and of the device keeps it.
LEMMA QueueStep == QueueInv /\ [Next]_vars => QueueInv'
<1> SUFFICES ASSUME QueueInv, [Next]_vars PROVE QueueInv'
  OBVIOUS
<1>0. /\ Types /\ Account /\ OneCloser /\ CallsFit /\ Fitting /\ OneUser /\ ClaimsApart /\ ClaimStates
      /\ SchedulerInv /\ Reserved /\ UsesHeld /\ HeldOpen /\ Registered /\ Emptied
      /\ ReferencesCountHolders /\ InFlightBuffersLive /\ CloseReclaims
  BY DEF QueueInv
<1>m. Moved
  BY <1>0, EveryStepMoves
<1>1. Types'
  BY <1>0, <1>m, DeviceTypesKept, BufferTypesKept, RecorderTypesKept, TrackingTypesKept, CallTypesKept DEF Types
<1>2. Account' /\ OneCloser' /\ CallsFit' /\ OneUser'
  BY <1>0, <1>m, AccountKept, OneCloserKept, CallsFitKept, OneUserKept
<1>3. Fitting'
  BY <1>0, <1>m, TransferFitsKept, ObserverFitsKept, SubmitFitsKept DEF Fitting
<1>4. ClaimsApart' /\ ClaimStates'
  BY <1>0, <1>m, ClaimsKept
<1>5. SchedulerInv'
  BY <1>0, SchedulerInvKept
<1>6. Reserved'
  BY <1>0, <1>m, ReservedKept
<1>7. UsesHeld' /\ HeldOpen'
  BY <1>0, <1>m, UsesHeldKept, HeldOpenKept
<1>8. Registered' /\ Emptied'
  BY <1>0, <1>m, RegisteredKept, EmptiedKept
<1>9. ReferencesCountHolders' /\ InFlightBuffersLive' /\ CloseReclaims'
  BY <1>0, <1>m, ReferencesKept, InFlightLiveKept, CloseReclaimsKept
<1> QED BY <1>1, <1>2, <1>3, <1>4, <1>5, <1>6, <1>7, <1>8, <1>9 DEF QueueInv

\* The inductive invariant: who owns what at every point of every interleaving of
\* transfers, recordings, Submissions, Buffer.Close and Device.Close.
THEOREM QueueInvariant == Spec => []QueueInv
  BY QueueInit, QueueStep, PTL DEF Spec

\* It gives the types, with Device.active at most the number of goroutines.
LEMMA InvGivesTypes == QueueInv => TypeOK
<1> SUFFICES ASSUME QueueInv PROVE TypeOK
  OBVIOUS
<1>0. Types /\ SchedulerInv /\ Account
  BY DEF QueueInv
<1>1. active \in 0..Cardinality(Goroutines)
  <2>1. Operating \in SUBSET Goroutines
    BY DEF Operating
  <2>2. Cardinality(Operating) <= Cardinality(Goroutines) /\ Cardinality(Goroutines) \in Nat
    BY <2>1, QueueAssumption, FS_Subset, FS_CardinalityType
  <2> QED BY <1>0, <2>2, OperatingIsFinite DEF Account
<1>2. Range(children) \cup Range(closeList) \subseteq Children
  BY <1>0 DEF Types, DeviceTypes, Range
<1> QED BY <1>0, <1>1, <1>2 DEF TypeOK, SchedulerInv, Types, DeviceTypes, BufferTypes, RecorderTypes, TrackingTypes,
          CallTypes, Children

\* The variables of the Device keep their types.
THEOREM QueueTypes == Spec => []TypeOK
  BY QueueInvariant, InvGivesTypes, PTL

\* Buffer.references is the number of recorders, transfers and retained transfers that
\* use the buffer, on every error path, so that Buffer.Close refuses exactly while one
\* does.
THEOREM ReferencesAreCounted == Spec => []ReferencesCountHolders
<1>1. QueueInv => ReferencesCountHolders
  BY DEF QueueInv
<1> QED BY <1>1, QueueInvariant, PTL

\* While the device may execute a batch its reservation is held and none of its buffers
\* is destroyed, also after a failed fence wait, when Submit loses the race with
\* Device.Close, and while Close cleans up.
THEOREM BatchesAreProtected == Spec => []InFlightIsProtected
<1>1. QueueInv => InFlightIsProtected
  BY DEF QueueInv, Reserved, InFlightIsProtected
<1> QED BY <1>1, QueueInvariant, PTL

\* Device.Close cleans up only when no other goroutine is inside an operation.
THEOREM CloseWaits == Spec => []CloseIsExclusive
<1>1. QueueInv => CloseIsExclusive
  <2> SUFFICES ASSUME QueueInv PROVE CloseIsExclusive
    OBVIOUS
  <2>1. Account /\ OneCloser
    BY DEF QueueInv
  <2> QED BY <2>1, CloseIsAlone DEF CloseIsExclusive, Destroying, Outside, Closing
<1> QED BY <1>1, QueueInvariant, PTL

\* A closed Device has no reservation, reference, retained batch, fence or open child
\* left.
THEOREM CloseLeavesNothing == Spec => []CloseReclaims
<1>1. QueueInv => CloseReclaims
  BY DEF QueueInv
<1> QED BY <1>1, QueueInvariant, PTL

\* A step leaves the result of an observed Submission alone.
LEMMA ResultStays ==
    ASSUME QueueInv, [Next]_vars, NEW r \in Recorders, subState[r] \in {"unknown", "done"}
    PROVE  result'[r] = result[r]
<1>0. /\ Types /\ CallsFit /\ SchedulerInv /\ Fitting /\ Account /\ OneCloser
  BY DEF QueueInv
<1>m. Moved
  BY <1>0, EveryStepMoves
<1> USE DEF Moves, Only, trackingVars, programVars
<1>1. ASSUME NEW g \in Goroutines, GoroutineMoves(g) PROVE result'[r] = result[r]
  <2>1. CASE SeesCompletion(g) \/ LosesSubmission(g)
    <3>1. subState[op[g].rec] = "pending"
      BY <1>0, <2>1 DEF SeesCompletion, LosesSubmission, Fitting, ObserverFits, Outside, Closing
    <3>2. r # op[g].rec
      BY <3>1
    <3> QED BY <2>1, <3>2 DEF SeesCompletion, LosesSubmission
  <2>2. ASSUME NEW x \in Recorders, EndsSubmission(g, x) PROVE result'[r] = result[r]
    BY <2>2 DEF EndsSubmission
  <2>3. CASE (\E call \in Calls : StartsCall(g, call)) \/ Returns(g) \/ BeginsClose(g) \/ Drains(g) \/ GoesOn(g) \/ EndsClose(g)
    BY <2>3, OuterSteps DEF Outer, quietVars
  <2>4. CASE \/ LocksBuffer(g) \/ Records(g) \/ TakesRecorders(g) \/ IsRefused(g) \/ Reserves(g) \/ IsGranted(g)
             \/ SleepsOn(g) \/ Withdraws(g) \/ FailsToSubmit(g) \/ PutsOnQueue(g) \/ EndsTransfer(g) \/ LosesTransfer(g)
             \/ Tracks(g) \/ RetainsBatch(g)
    BY <2>4 DEF LocksBuffer, Records, TakesRecorders, IsRefused, Reserves, IsGranted, SleepsOn, Withdraws, FailsToSubmit,
        PutsOnQueue, EndsTransfer, LosesTransfer, Tracks, RetainsBatch
  <2>5. CASE \/ LocksSubmission(g) \/ PollsInVain(g) \/ (\E b \in Buffers : DropsReference(g, b)) \/ Finishes(g)
             \/ FinishesSubmission(g) \/ FinishesCall(g) \/ EndsCall(g) \/ ClosesBuffer(g)
    BY <2>5 DEF LocksSubmission, PollsInVain, DropsReference, Finishes, FinishesSubmission, FinishesCall, EndsCall, ClosesBuffer
  <2>6. CASE \/ (\E t \in transients : CleansUp(g, t)) \/ (\E b \in Buffers : EndsBuffer(g, b))
             \/ \E x \in Recorders : ForgetsSubmission(g, x) \/ ForgetsRecorder(g, x) \/ EndsRecorder(g, x)
    BY <2>6 DEF CleansUp, EndsBuffer, ForgetsSubmission, ForgetsRecorder, EndsRecorder
  <2> QED BY <1>1, <2>1, <2>2, <2>3, <2>4, <2>5, <2>6 DEF GoroutineMoves
<1>2. CASE UNCHANGED result
  BY <1>2
<1> QED BY <1>m, <1>1, <1>2 DEF Moved, vars, Completes

\* Once a Submission is done or unknown its result does not change, not by Device.Close
\* either.
THEOREM ResultsAreFinal == Spec => ResultIsFinal
<1> DEFINE Final == \A r \in Recorders : subState[r] \in {"unknown", "done"} => result'[r] = result[r]
<1>1. QueueInv /\ [Next]_vars => [Final]_vars
  BY ResultStays
<1> QED BY <1>1, QueueInvariant, PTL DEF Spec, ResultIsFinal

\* The Device drives the reservation monitor only through its operations: what is
\* proved of SubmissionScheduler holds of the Device.
THEOREM QueueUsesMonitor == Spec => S!Spec
<1>1. Init => S!Init
  BY DEF Init
<1>2. QueueInv /\ [Next]_vars => [S!Next]_(S!schedulerVars)
  BY MonitorSteps DEF QueueInv, schedulerVars, S!schedulerVars
<1> QED BY <1>1, <1>2, QueueInvariant, PTL DEF Spec, S!Spec

\* In particular conflicting batches of a Device are granted in the order they asked
\* for it, as SubmissionOrder says.
THEOREM QueueImplementsOrder == Spec => P!ImplementsOrder
<1>1. Init => P!Init
  BY DEF Init, S!Init, P!Init, S!NoBuffers, P!NoBuffers
<1>2. QueueInv /\ [Next]_vars => [P!Next]_(P!schedulerVars)
  BY MonitorSteps, MonitorNext DEF QueueInv
<1>3. P!Spec => P!ImplementsOrder
  <2>1. Requests \subseteq P!Resources
    BY DEF Requests, P!Resources, P!Access
  <2> QED BY <2>1, P!MonitorImplementsOrder
<1> QED BY <1>1, <1>2, <1>3, QueueInvariant, PTL DEF Spec, P!Spec

============================================================================
