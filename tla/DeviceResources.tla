-------------------------- MODULE DeviceResources --------------------------
(***************************************************************************)
(* The resources of a Device and what holds what: a BindingSet holds its   *)
(* Kernel and its Buffers, a Recorder or a DispatchAndWait holds its       *)
(* BindingSets.  Goroutines create, use and close them, and close the      *)
(* Device.                                                                 *)
(*                                                                         *)
(* A step is what a goroutine does between two points where another one    *)
(* can act on the same resource.  Two mutexes are held across steps: that  *)
(* of a BindingSet that drops its references, which whoever waits for it   *)
(* finds closed, as before, and that of a Recorder whose Submit sleeps in  *)
(* acquireSubmission, with all other calls on it kept out.  The condition  *)
(* variable behind that sleep and Submissions of several Recorders are     *)
(* those of DeviceQueue.                                                   *)
(***************************************************************************)
EXTENDS Naturals, Sequences, FiniteSets, Functions, SequencesExt

CONSTANTS
    Goroutines,
    Kernels, Buffers, Sets, Recorders,
    KernelOf,      \* the Kernel of each BindingSet
    BuffersOf,     \* the Buffer at each of its bindings
    WritesOf       \* the Buffers it binds read-write

Resources == Kernels \cup Buffers \cup Sets \cup Recorders

ASSUME ResourcesAssumption ==
    /\ IsFiniteSet(Goroutines) /\ IsFiniteSet(Sets) /\ IsFiniteSet(Recorders)
    /\ Kernels \cap (Buffers \cup Sets \cup Recorders) = {} /\ Buffers \cap (Sets \cup Recorders) = {}
    /\ Sets \cap Recorders = {}
    /\ KernelOf \in [Sets -> Kernels]
    /\ \A s \in Sets : BuffersOf[s] \in Seq(Buffers) /\ Len(BuffersOf[s]) > 0
    /\ WritesOf \in [Sets -> SUBSET Buffers]

VARIABLES
    status,        \* Device: "open", "closing" or "closed"
    active,        \* Device.active
    children,      \* Device.children, in creation order
    closeList,     \* the children Device.Close still has to close
    closeErr,      \* did a child refuse to close?
    transients,    \* Device.unknownTransientSubmissions: goroutine and BindingSet
    life,          \* of a resource: "none", "creating", "live", "closed" or "failed"
    native,        \* how many of its native objects exist
    references,    \* Buffer.references
    bindingSets,   \* Kernel.bindingSets
    recorders,     \* BindingSet.recorders
    buffers,       \* BindingSet.buffers: the bindings whose Buffer it has retained
    recState,      \* Recorder.state
    recSets,       \* Recorder.bindingSets
    waiting,       \* Device.pendingSubmissions: who sleeps in acquireSubmission
    pc, op         \* where each goroutine is, in which call on what

deviceVars == <<status, active, children, closeList, closeErr, transients>>
countVars  == <<references, bindingSets, recorders, buffers>>
recVars    == <<recState, recSets>>
vars == <<deviceVars, life, native, countVars, recVars, waiting, pc, op>>

\* Shader module, descriptor layout, pipeline layout and pipeline of a Kernel, buffer
\* and memory of a Buffer, descriptor pool or command pool of the others.
Natives(x) == CASE x \in Kernels -> 4
                [] x \in Buffers -> 2
                [] OTHER         -> 1

Labels == {"idle", "kernel", "buffers", "native", "addChild", "unwind", "record", "reserve",
           "fence", "cleanup", "submit", "sets", "drain", "children"}
Calls == {<< >>, <<"closeDevice">>}
         \cup {"create", "close", "dispatch", "submit", "finish"} \X Resources

TypeOK ==
    /\ status \in {"open", "closing", "closed"}
    /\ active \in 0..Cardinality(Goroutines)
    /\ children \in Seq(Resources) /\ closeList \in Seq(Resources)
    /\ closeErr \in BOOLEAN
    /\ transients \in SUBSET (Goroutines \X Sets)
    /\ life \in [Resources -> {"none", "creating", "live", "closed", "failed"}]
    /\ native \in [Resources -> Nat] /\ \A x \in Resources : native[x] <= Natives(x)
    /\ references \in [Buffers -> Nat]
    /\ bindingSets \in [Kernels -> Nat]
    /\ recorders \in [Sets -> Nat]
    /\ buffers \in [Sets -> SUBSET Nat] /\ \A s \in Sets : buffers[s] \subseteq DOMAIN BuffersOf[s]
    /\ recState \in [Recorders -> {"recording", "submitted", "unknown", "done"}]
    /\ recSets \in [Recorders -> SUBSET Sets]
    /\ waiting \in Seq(Goroutines)
    /\ pc \in [Goroutines -> Labels]
    /\ op \in [Goroutines -> Calls]
    /\ \A g \in Goroutines : (pc[g] = "idle") = (op[g] = << >>)

Init ==
    /\ status = "open" /\ active = 0 /\ children = << >> /\ closeList = << >>
    /\ closeErr = FALSE /\ transients = {}
    /\ life = [x \in Resources |-> "none"]
    /\ native = [x \in Resources |-> 0]
    /\ references = [b \in Buffers |-> 0]
    /\ bindingSets = [k \in Kernels |-> 0]
    /\ recorders = [s \in Sets |-> 0]
    /\ buffers = [s \in Sets |-> {}]
    /\ recState = [r \in Recorders |-> "recording"]
    /\ recSets = [r \in Recorders |-> {}]
    /\ waiting = << >>
    /\ pc = [g \in Goroutines |-> "idle"]
    /\ op = [g \in Goroutines |-> << >>]

----------------------------------------------------------------------------
\* beginOperation
Begin(g, label, call) ==
    /\ pc[g] = "idle" /\ status = "open"
    /\ active' = active + 1
    /\ pc' = [pc EXCEPT ![g] = label]
    /\ op' = [op EXCEPT ![g] = call]

Goto(g, label) == pc' = [pc EXCEPT ![g] = label] /\ UNCHANGED <<active, op>>

\* Mutant: an operation is never ended.
ForgetOperation(g) ==
    /\ pc' = [pc EXCEPT ![g] = "idle"]
    /\ op' = [op EXCEPT ![g] = << >>]
    /\ UNCHANGED active

\* endOperation and the return of the call.
End(g) ==
    /\ active' = active - 1
    /\ pc' = [pc EXCEPT ![g] = "idle"]
    /\ op' = [op EXCEPT ![g] = << >>]

\* A call that is over at once: its operation began and ended in between.
AtOnce(g) == pc[g] = "idle" /\ status = "open" /\ UNCHANGED <<active, pc, op>>

\* removeChild, where the children behind the one that goes move up.
Without(x) ==
    IF x \in Range(children)
    THEN LET i == CHOOSE i \in DOMAIN children : children[i] = x
         IN  [j \in 1..(Len(children) - 1) |-> children[IF j < i THEN j ELSE j + 1]]
    ELSE children

Become(x, how) == life' = [life EXCEPT ![x] = how]

\* closeNative
DestroyNatives(x) == native' = [native EXCEPT ![x] = 0]

\* A count never goes below zero.
LessBy(f, n) == [x \in DOMAIN f |-> IF f[x] > n[x] THEN f[x] - n[x] ELSE 0]
Less(f, x) == [f EXCEPT ![x] = IF @ > 0 THEN @ - 1 ELSE 0]

----------------------------------------------------------------------------
\* NewKernel, NewBuffer and NewRecorder create their native objects one by one.
Create(g, x) ==
    /\ x \notin Sets /\ life[x] = "none"
    /\ Begin(g, "native", <<"create", x>>)
    /\ Become(x, "creating")
    /\ UNCHANGED <<status, children, closeList, closeErr, transients, native, countVars,
                   recVars, waiting>>

\* Mutant: what was created before the failure is left.
LeaveNatives(g, x) ==
    /\ IF x \in Sets
       THEN Goto(g, "unwind") /\ UNCHANGED life
       ELSE End(g) /\ Become(x, "failed")
    /\ UNCHANGED <<native, children>>

\* When something fails, what was created is destroyed, and a BindingSet releases
\* what it holds.
FailCreation(g, x) ==
    /\ DestroyNatives(x)
    /\ IF x \in Sets
       THEN Goto(g, "unwind") /\ UNCHANGED life
       ELSE End(g) /\ Become(x, "failed")
    /\ UNCHANGED children

CreateNative(g) ==
    /\ pc[g] = "native"
    /\ LET x == op[g][2] IN
       \/ /\ native' = [native EXCEPT ![x] = @ + 1]
          /\ Goto(g, IF native[x] + 1 = Natives(x) THEN "addChild" ELSE "native")
          /\ UNCHANGED <<life, children>>
       \/ FailCreation(g, x)
    /\ UNCHANGED <<status, closeList, closeErr, transients, countVars, recVars, waiting>>

\* With all native objects there, the memory is bound, the descriptor set or the
\* command buffer allocated and begun, which may fail; a Kernel is complete.  addChild
\* refuses the resource when Device.Close has begun meanwhile.
AddChild(g) ==
    /\ pc[g] = "addChild"
    /\ LET x == op[g][2] IN
       \/ /\ status = "open"
          /\ children' = Append(children, x)
          /\ Become(x, "live")
          /\ End(g)
          /\ UNCHANGED native
       \/ /\ status # "open" \/ x \notin Kernels
          /\ FailCreation(g, x)
    /\ UNCHANGED <<status, closeList, closeErr, transients, countVars, recVars, waiting>>

----------------------------------------------------------------------------
\* Kernel.NewBindings
NewBindings(g, s) ==
    /\ life[s] = "none"
    /\ \A x \in {KernelOf[s]} \cup Range(BuffersOf[s]) : life[x] \in {"live", "closed"}
    /\ Begin(g, "kernel", <<"create", s>>)
    /\ Become(s, "creating")
    /\ UNCHANGED <<status, children, closeList, closeErr, transients, native, countVars,
                   recVars, waiting>>

RetainKernel(g) ==
    /\ pc[g] = "kernel"
    /\ LET s == op[g][2]
           k == KernelOf[s]
       IN
       \/ /\ life[k] = "closed"
          /\ End(g) /\ Become(s, "failed")
          /\ UNCHANGED bindingSets
       \/ /\ life[k] # "closed"
          /\ bindingSets' = [bindingSets EXCEPT ![k] = @ + 1]
          /\ Goto(g, "buffers") /\ UNCHANGED life
    /\ UNCHANGED <<status, children, closeList, closeErr, transients, native, references,
                   recorders,
                   buffers, recVars, waiting>>

\* The buffer of one binding after the other, until one is found closed.  A Buffer may
\* be at several bindings: it is then retained as often.
RetainBuffer(g) ==
    /\ pc[g] = "buffers"
    /\ LET s == op[g][2] IN
       \E n \in DOMAIN BuffersOf[s] :
          /\ buffers[s] = 1..(n - 1)
          /\ LET b == BuffersOf[s][n] IN
             \/ /\ life[b] = "closed"
                /\ Goto(g, "unwind")
                /\ UNCHANGED <<references, buffers>>
             \/ /\ life[b] # "closed"
                /\ references' = [references EXCEPT ![b] = @ + 1]
                /\ buffers' = [buffers EXCEPT ![s] = 1..n]
                /\ Goto(g, IF n = Len(BuffersOf[s]) THEN "native" ELSE "buffers")
    /\ UNCHANGED <<status, children, closeList, closeErr, transients, life, native,
                   bindingSets, recorders, recVars, waiting>>

\* Mutant: BindingSet.Close does not look at the Recorders.
CloseUsed(s) == TRUE

Unused(s) == recorders[s] = 0

\* BindingSet.Close destroys the pool and releases the references under its mutex.
CloseSet(g, s) ==
    /\ life[s] = "live" /\ Unused(s)
    /\ Begin(g, "unwind", <<"close", s>>)
    /\ DestroyNatives(s)
    /\ Become(s, "closed")
    /\ UNCHANGED <<status, children, closeList, closeErr, transients, countVars, recVars,
                   waiting>>

\* releaseReferences: the buffers one by one from the first, ...
ReleaseBuffer(g) ==
    /\ pc[g] = "unwind"
    /\ LET s == op[g][2] IN
       \E n \in buffers[s] :
          /\ \A m \in buffers[s] : n <= m
          /\ references' = Less(references, BuffersOf[s][n])
          /\ buffers' = [buffers EXCEPT ![s] = @ \ {n}]
    /\ UNCHANGED <<deviceVars, life, native, bindingSets, recorders, recVars, pc, op, waiting>>

\* Mutant: a NewBindings that failed keeps the kernel.
KeepKernel(s) == IF life[s] = "closed" THEN bindingSets' = Less(bindingSets, KernelOf[s])
                                       ELSE UNCHANGED bindingSets

ReleaseKernel(s) == bindingSets' = Less(bindingSets, KernelOf[s])

\* ... then the kernel; the end of a failed NewBindings or of BindingSet.Close.
EndRelease(g) ==
    /\ pc[g] = "unwind"
    /\ LET s == op[g][2] IN
       /\ buffers[s] = {}
       /\ ReleaseKernel(s)
       /\ Become(s, IF life[s] = "creating" THEN "failed" ELSE "closed")
       /\ children' = Without(s)
    /\ End(g)
    /\ UNCHANGED <<status, closeList, closeErr, transients, native, references, recorders,
                   buffers, recVars, waiting>>

\* Kernel.Close and Buffer.Close
CloseUnheld(g, x) ==
    /\ life[x] = "live"
    /\ \/ x \in Kernels /\ bindingSets[x] = 0
       \/ x \in Buffers /\ references[x] = 0
    /\ AtOnce(g)
    /\ DestroyNatives(x)
    /\ Become(x, "closed")
    /\ children' = Without(x)
    /\ UNCHANGED <<status, closeList, closeErr, transients, countVars, recVars, waiting>>

----------------------------------------------------------------------------
\* Device.DispatchAndWait: the set is retained under its mutex and used without it.
DispatchAndWait(g, s) ==
    /\ life[s] = "live"
    /\ Begin(g, "record", <<"dispatch", s>>)
    /\ recorders' = [recorders EXCEPT ![s] = @ + 1]
    /\ UNCHANGED <<status, children, closeList, closeErr, transients, life, native, references,
                   bindingSets, buffers, recVars, waiting>>

\* Once a completion is unknown no batch is submitted any more (DeviceQueue).
SubmissionErr == transients # {} \/ \E r \in Recorders : recState[r] = "unknown"

\* Two batches conflict over a buffer that one of them writes.
Conflict(left, right) ==
    \E s \in left, u \in right :
        Range(BuffersOf[s]) \cap Range(BuffersOf[u]) \cap (WritesOf[s] \cup WritesOf[u]) # {}

\* The sets of the batch that a goroutine wants to submit.
BatchOf(g) == IF op[g][2] \in Sets THEN {op[g][2]} ELSE recSets[op[g][2]]

\* The batches whose reservation is active.
InFlight == {BatchOf(g) : g \in {h \in Goroutines : pc[h] = "fence"}}
            \cup {recSets[r] : r \in {q \in Recorders : recState[q] = "submitted"}}

\* Mutant: every other sleeper is waited for, the later ones too.
EveryoneElse(g) == Range(waiting) \ {g}

\* The goroutines that came to acquireSubmission before g.
Earlier(g) ==
    {h \in Range(waiting) :
        \E i, j \in DOMAIN waiting : i < j /\ waiting[i] = h /\ waiting[j] = g}

\* canActivateSubmissionLocked
CanActivate(g) ==
    /\ \A batch \in InFlight : ~Conflict(batch, BatchOf(g))
    /\ \A h \in Earlier(g) : ~Conflict(BatchOf(h), BatchOf(g))

\* removeSubmissionReservation
NoLongerWaiting(g) ==
    LET at == CHOOSE i \in DOMAIN waiting : waiting[i] = g
    IN  waiting' = [i \in 1..(Len(waiting) - 1) |-> waiting[IF i < at THEN i ELSE i + 1]]

\* A command cannot be recorded, or acquireSubmission is called.
SubmitDispatch(g) ==
    /\ pc[g] = "record"
    /\ \/ Goto(g, "cleanup") /\ UNCHANGED waiting
       \/ ~SubmissionErr /\ waiting' = Append(waiting, g) /\ Goto(g, "reserve")
    /\ UNCHANGED <<status, children, closeList, closeErr, transients, life, native, countVars,
                   recVars>>

\* It sleeps until it is refused or its turn has come; the queue then takes the batch
\* or refuses it.
ReserveDispatch(g) ==
    /\ pc[g] = "reserve"
    /\ NoLongerWaiting(g)
    /\ \/ SubmissionErr /\ Goto(g, "cleanup")
       \/ ~SubmissionErr /\ CanActivate(g) /\ (Goto(g, "fence") \/ Goto(g, "cleanup"))
    /\ UNCHANGED <<status, children, closeList, closeErr, transients, life, native, countVars,
                   recVars>>

\* A batch whose completion cannot be established keeps the set until Device.Close.
WaitForDispatch(g) ==
    /\ pc[g] = "fence"
    /\ \/ Goto(g, "cleanup") /\ UNCHANGED transients
       \/ End(g) /\ transients' = transients \cup {<<g, op[g][2]>>}
    /\ UNCHANGED <<status, children, closeList, closeErr, life, native, countVars, recVars,
                   waiting>>

\* cleanup gives the set back last: the fence, the pool and the reservation are gone.
Cleanup(g) ==
    /\ pc[g] = "cleanup"
    /\ recorders' = Less(recorders, op[g][2])
    /\ End(g)
    /\ UNCHANGED <<status, children, closeList, closeErr, transients, life, native, references,
                   bindingSets, buffers, recVars, waiting>>

----------------------------------------------------------------------------
\* Recorder.mu is not held by a Submit that sleeps.
Unlocked(r) == \A g \in Goroutines : pc[g] = "submit" => op[g][2] # r

\* Recorder.Dispatch
Dispatch(g, r, s) ==
    /\ life[r] = "live" /\ recState[r] = "recording" /\ Unlocked(r)
    /\ life[s] = "live" /\ s \notin recSets[r]
    /\ AtOnce(g)
    /\ recSets' = [recSets EXCEPT ![r] = @ \cup {s}]
    /\ recorders' = [recorders EXCEPT ![s] = @ + 1]
    /\ UNCHANGED <<status, children, closeList, closeErr, transients, life, native, references,
                   bindingSets, buffers, recState, waiting>>

\* Device.Submit, up to acquireSubmission; it keeps the mutex of the recorder.
Submit(g, r) ==
    /\ life[r] = "live" /\ recState[r] = "recording" /\ Unlocked(r) /\ ~SubmissionErr
    /\ Begin(g, "submit", <<"submit", r>>)
    /\ waiting' = Append(waiting, g)
    /\ UNCHANGED <<status, children, closeList, closeErr, transients, life, native, countVars,
                   recVars>>

\* What is left is aborted when acquireSubmission or the queue refuses the batch.  One
\* that was submitted and that a closing Device does not track is lost.
ReserveBatch(g) ==
    /\ pc[g] = "submit"
    /\ NoLongerWaiting(g)
    /\ LET r == op[g][2] IN
       \/ /\ ~SubmissionErr /\ CanActivate(g)
          /\ recState' = [recState EXCEPT ![r] = IF status = "open" THEN "submitted" ELSE "unknown"]
          /\ End(g)
          /\ UNCHANGED native
       \/ /\ SubmissionErr \/ CanActivate(g)
          /\ DestroyNatives(r)
          /\ recState' = [recState EXCEPT ![r] = "done"]
          /\ pc' = [pc EXCEPT ![g] = "sets"]
          /\ op' = [op EXCEPT ![g] = <<"finish", r>>]
          /\ UNCHANGED active
    /\ UNCHANGED <<status, children, closeList, closeErr, transients, life, countVars, recSets>>

\* Recorder.Abort, a Submit that fails before it asks for a reservation, and a Wait or
\* Poll that observes completion: the recorder is finished, its native objects first.
FinishRecorder(g, r) ==
    /\ life[r] = "live" /\ recState[r] \in {"recording", "submitted"} /\ Unlocked(r)
    /\ Begin(g, "sets", <<"finish", r>>)
    /\ DestroyNatives(r)
    /\ recState' = [recState EXCEPT ![r] = "done"]
    /\ UNCHANGED <<status, children, closeList, closeErr, transients, life, countVars, recSets,
                   waiting>>

\* A Wait that cannot establish completion leaves it to Device.Close.
LoseRecorder(g, r) ==
    /\ life[r] = "live" /\ recState[r] = "submitted"
    /\ AtOnce(g)
    /\ recState' = [recState EXCEPT ![r] = "unknown"]
    /\ UNCHANGED <<status, children, closeList, closeErr, transients, life, native, countVars,
                   recSets, waiting>>

ReleaseSet(g) ==
    /\ pc[g] = "sets"
    /\ LET r == op[g][2] IN
       \/ \E s \in recSets[r] :
             /\ recorders' = Less(recorders, s)
             /\ recSets' = [recSets EXCEPT ![r] = @ \ {s}]
             /\ UNCHANGED <<active, children, life, pc, op>>
       \/ /\ recSets[r] = {}
          /\ children' = Without(r)
          /\ Become(r, "closed")
          /\ End(g)
          /\ UNCHANGED <<recorders, recSets>>
    /\ UNCHANGED <<status, closeList, closeErr, transients, native, references, bindingSets,
                   buffers, recState, waiting>>

----------------------------------------------------------------------------
\* Device.Close
CloseDevice(g) ==
    /\ pc[g] = "idle" /\ status = "open"
    /\ status' = "closing"
    /\ pc' = [pc EXCEPT ![g] = "drain"]
    /\ op' = [op EXCEPT ![g] = <<"closeDevice">>]
    /\ UNCHANGED <<active, children, closeList, closeErr, transients, life, native, countVars,
                   recVars, waiting>>

\* The operations are over and the device is idle: the batches whose completion was
\* unknown are cleaned up.
Drain(g) ==
    /\ pc[g] = "drain" /\ active = 0
    /\ closeList' = children
    /\ recorders' = LessBy(recorders, [s \in Sets |-> Cardinality({t \in transients : t[2] = s})])
    /\ transients' = {}
    /\ pc' = [pc EXCEPT ![g] = "children"]
    /\ UNCHANGED <<status, active, children, closeErr, life, native, references, bindingSets,
                   buffers, recVars, op, waiting>>

\* The bindings of a set that have retained a Buffer.
Bindings(s, b) == {n \in buffers[s] : BuffersOf[s][n] = b}

\* closeFromDevice refuses a child that another one still holds, except a Buffer.
Refuses(x) ==
    /\ life[x] = "live"
    /\ \/ x \in Sets /\ recorders[x] > 0
       \/ x \in Kernels /\ bindingSets[x] > 0

CloseSetFromDevice(s) ==
    /\ references' = LessBy(references, [b \in Buffers |-> Cardinality(Bindings(s, b))])
    /\ bindingSets' = Less(bindingSets, KernelOf[s])
    /\ buffers' = [buffers EXCEPT ![s] = {}]
    /\ UNCHANGED <<recorders, recVars>>

CloseRecorderFromDevice(r) ==
    /\ recState' = [recState EXCEPT ![r] = "done"]
    /\ recorders' = LessBy(recorders, [s \in Sets |-> IF s \in recSets[r] THEN 1 ELSE 0])
    /\ recSets' = [recSets EXCEPT ![r] = {}]
    /\ UNCHANGED <<references, bindingSets, buffers>>

CloseChild(g) ==
    /\ pc[g] = "children" /\ closeList # << >>
    /\ LET x == Last(closeList) IN
       /\ closeList' = Front(closeList)
       /\ IF life[x] # "live" \/ Refuses(x)
          THEN /\ closeErr' = (closeErr \/ Refuses(x))
               /\ UNCHANGED <<life, native, countVars, recVars>>
          ELSE /\ DestroyNatives(x)
               /\ Become(x, "closed")
               /\ CASE x \in Sets      -> CloseSetFromDevice(x)
                    [] x \in Recorders -> CloseRecorderFromDevice(x)
                    [] OTHER           -> UNCHANGED <<countVars, recVars>>
               /\ UNCHANGED closeErr
    /\ UNCHANGED <<status, active, children, transients, pc, op, waiting>>

EndClose(g) ==
    /\ pc[g] = "children" /\ closeList = << >>
    /\ status' = "closed" /\ children' = << >>
    /\ pc' = [pc EXCEPT ![g] = "idle"]
    /\ op' = [op EXCEPT ![g] = << >>]
    /\ UNCHANGED <<active, closeList, closeErr, transients, life, native, countVars, recVars,
                   waiting>>

Step(g) ==
    \/ CreateNative(g) \/ AddChild(g)
    \/ RetainKernel(g) \/ RetainBuffer(g) \/ ReleaseBuffer(g) \/ EndRelease(g)
    \/ SubmitDispatch(g) \/ ReserveDispatch(g) \/ WaitForDispatch(g) \/ Cleanup(g)
    \/ ReserveBatch(g) \/ ReleaseSet(g)
    \/ Drain(g) \/ CloseChild(g) \/ EndClose(g)

Call(g) ==
    \/ \E x \in Resources : Create(g, x) \/ CloseUnheld(g, x)
    \/ \E s \in Sets : NewBindings(g, s) \/ CloseSet(g, s) \/ DispatchAndWait(g, s)
    \/ \E r \in Recorders :
          \/ Submit(g, r) \/ FinishRecorder(g, r) \/ LoseRecorder(g, r)
          \/ \E s \in Sets : Dispatch(g, r, s)
    \/ CloseDevice(g)

Next == \E g \in Goroutines : Call(g) \/ Step(g)

Spec == Init /\ [][Next]_vars

\* A call that has begun goes on; no call ever has to be made.
FairSpec == Spec /\ \A g \in Goroutines : WF_vars(Step(g))

----------------------------------------------------------------------------
\* The BindingSets held by a recording, a batch that may execute or a goroutine.
Held == {s \in Sets :
            \/ \E r \in Recorders : s \in recSets[r]
            \/ \E g \in Goroutines : /\ pc[g] \in {"record", "reserve", "fence", "cleanup"}
                                    /\ op[g][2] = s
            \/ \E t \in transients : t[2] = s}

Intact(x) == native[x] = Natives(x)

Destroying == status = "closed" \/ \E g \in Goroutines : pc[g] = "children"

\* No one destroys a native object that a recorded command, a batch that may execute
\* or a descriptor refers to before Device.Close has made the device idle: a set in
\* use keeps its pool, a set that exists its kernel and buffers.
UsedResourcesExist ==
    Destroying \/ /\ \A s \in Held : Intact(s)
                  /\ \A s \in Sets : native[s] > 0 =>
                        Intact(KernelOf[s]) /\ \A b \in Range(BuffersOf[s]) : Intact(b)

\* The counts are those of the holders, on every path of every call that fails: a
\* Buffer is held once by every binding that has retained it.
CountsAreHolders ==
    /\ \A b \in Buffers :
          references[b] = Cardinality(UNION {{s} \X Bindings(s, b) : s \in Sets})
    /\ \A k \in Kernels :
          bindingSets[k] =
              Cardinality({s \in Sets : /\ KernelOf[s] = k
                                        /\ \/ life[s] = "live"
                                           \/ \E g \in Goroutines :
                                                 /\ pc[g] \in {"buffers", "native", "addChild", "unwind"}
                                                 /\ op[g][2] = s})
    /\ \A s \in Sets :
          recorders[s] =
              Cardinality({r \in Recorders : s \in recSets[r]})
              + Cardinality({t \in transients : t[2] = s})
              + Cardinality({g \in Goroutines : /\ pc[g] \in {"record", "reserve", "fence", "cleanup"}
                                                /\ op[g][2] = s})

\* A resource that could not be created, was closed or was refused by a closing
\* Device leaves no native object; after a Device.Close without error none is left.
NothingLeaks ==
    /\ \A x \in Resources : life[x] \in {"closed", "failed"} => native[x] = 0
    /\ status = "closed" /\ ~closeErr => \A x \in Resources : native[x] = 0

\* Every call returns, Device.Close included, unless a Submission stays unobserved: a
\* dispatch or a Submit that conflicts with it sleeps until it is, and Device.Close,
\* after which no one can observe it any more, waits for the sleepers.  No sleeper waits
\* for one that waits for it, and no operation is forgotten on any path.
AllObserved == \A r \in Recorders : []<>(recState[r] # "submitted")
EveryCallReturns == AllObserved => \A g \in Goroutines : pc[g] # "idle" ~> pc[g] = "idle"

\* "closing the Device closes any remaining children in reverse creation order"
\* (doc.go:5-6): a Recorder that is older than a set it holds makes the set and its
\* kernel refuse, and the native device is destroyed under them.
ClosesAllChildren == status = "closed" => \A x \in Resources : native[x] = 0

=============================================================================
