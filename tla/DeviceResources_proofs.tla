----------------------- MODULE DeviceResources_proofs -----------------------
(***************************************************************************)
(* Theorems about DeviceResources, for any goroutines and any resources:   *)
(* its inductive invariant, the parts about the calls in progress, those   *)
(* about native objects, counts and who holds what, and what follows.      *)
(***************************************************************************)
EXTENDS DeviceResources, FiniteSetTheorems, SequenceTheorems, TLAPS

----------------------------------------------------------------------------
(* The invariant, in parts that each relate a few variables. *)

Creating == {"kernel", "buffers", "native", "addChild"}
Binding  == {"buffers", "native", "addChild", "unwind"}
Using    == {"record", "reserve", "fence", "cleanup"}
Closing  == {"drain", "children"}

\* The goroutines inside an operation of the Device, which active counts.
Operating == {g \in Goroutines : pc[g] \notin {"idle"} \cup Closing}

Account == active = Cardinality(Operating)

\* One goroutine closes the Device, and destroys when all operations are over.
OneCloser ==
    /\ \A g \in Goroutines : pc[g] \in Closing => status = "closing"
    /\ \A g, h \in Goroutines : pc[g] \in Closing /\ pc[h] \in Closing => g = h
    /\ Destroying => active = 0

\* The resource of a call is in the state that the call has brought it to, and no two
\* calls create, close or finish the same one.
CallFits(g) ==
    LET x == op[g][2] IN
    /\ pc[g] \in Creating => x \in Resources /\ life[x] = "creating"
    /\ pc[g] \in {"kernel", "buffers"} \cup Using => x \in Sets
    /\ pc[g] = "unwind" => x \in Sets /\ life[x] \in {"creating", "closed"}
    /\ pc[g] = "sets" => x \in Recorders /\ life[x] = "live" /\ recState[x] = "done"
    /\ pc[g] = "submit" => x \in Recorders /\ life[x] = "live" /\ recState[x] = "recording"

CallsFit == \A g \in Goroutines : CallFits(g)

Exclusive == Creating \cup {"unwind", "sets", "submit"}
OneCall ==
    \A g, h \in Goroutines :
        pc[g] \in Exclusive /\ pc[h] \in Exclusive /\ op[g][2] = op[h][2] => g = h

\* Which native objects exist.
Finished(x) == x \in Recorders /\ recState[x] = "done"

BuiltAs(x) ==
    /\ life[x] \in {"none", "closed", "failed"} => native[x] = 0
    /\ life[x] = "live" /\ ~Finished(x) => Intact(x)
    /\ native[x] = 0 \/ life[x] = "live" \/ \E g \in Goroutines : pc[g] \in {"native", "addChild"} /\ op[g][2] = x

BuiltBy(g) ==
    LET x == op[g][2] IN
    /\ pc[g] = "native" => native[x] < Natives(x)
    /\ pc[g] = "addChild" => Intact(x)
    /\ pc[g] \in {"kernel", "buffers", "unwind", "sets"} => native[x] = 0

Built == (\A x \in Resources : BuiltAs(x)) /\ (\A g \in Goroutines : BuiltBy(g))

\* A finished recorder has no native object any more, and gets none.
FinishedIsFreed == \A r \in Recorders : recState[r] = "done" => native[r] = 0 /\ life[r] \in {"live", "closed"}

\* Which of its bindings a set has.
BoundTo(s) ==
    /\ buffers[s] \subseteq DOMAIN BuffersOf[s]
    /\ life[s] = "live" => buffers[s] = DOMAIN BuffersOf[s]

BoundBy(g) ==
    LET s == op[g][2] IN
    pc[g] \in {"native", "addChild"} /\ s \in Sets => buffers[s] = DOMAIN BuffersOf[s]

Bound == (\A s \in Sets : BoundTo(s)) /\ (\A g \in Goroutines : BoundBy(g))

\* Who holds what.
BindersOf(b) == UNION {{s} \X Bindings(s, b) : s \in Sets}
HoldsKernel(s) == life[s] = "live" \/ \E g \in Goroutines : pc[g] \in Binding /\ op[g][2] = s
KernelHolders(k) == {s \in Sets : KernelOf[s] = k /\ HoldsKernel(s)}
RecordersOf(s)  == {r \in Recorders : s \in recSets[r]}
LostOf(s)       == {t \in transients : t[2] = s}
DispatchersOf(s) == {g \in Goroutines : pc[g] \in Using /\ op[g][2] = s}

ReferencesCounted == \A b \in Buffers : references[b] = Cardinality(BindersOf(b))
KernelsCounted == \A k \in Kernels : bindingSets[k] = Cardinality(KernelHolders(k))
RecordersCounted ==
    \A s \in Sets : recorders[s] = Cardinality(RecordersOf(s)) + Cardinality(LostOf(s))
                                   + Cardinality(DispatchersOf(s))

\* A goroutine whose batch is lost submits no other one.
LostOnce == \A g \in Goroutines : pc[g] = "fence" => \A t \in transients : t[1] # g

\* What is held is live until Device.Close destroys, and was there when it was bound.
BuffersLive ==
    ~Destroying => \A s \in Sets : \A n \in buffers[s] : life[BuffersOf[s][n]] = "live"
KernelsLive == ~Destroying => \A s \in Sets : HoldsKernel(s) => life[KernelOf[s]] = "live"
SetsLive    == ~Destroying => \A s \in Held : life[s] = "live"
Offered(g) ==
    /\ pc[g] = "kernel" => life[KernelOf[op[g][2]]] \in {"live", "closed"}
    /\ pc[g] \in {"kernel", "buffers"} =>
          \A b \in Range(BuffersOf[op[g][2]]) : life[b] \in {"live", "closed"}

HeldLive == BuffersLive /\ KernelsLive /\ SetsLive /\ \A g \in Goroutines : Offered(g)

\* Device.Close asks every live resource.
Listed ==
    /\ ~Destroying => \A x \in Resources : life[x] = "live" => x \in Range(children)
    /\ \A g \in Goroutines : pc[g] = "children" =>
          \A x \in Resources : life[x] = "live" => closeErr \/ x \in Range(closeList)
    /\ status = "closed" => \A x \in Resources : life[x] = "live" => closeErr

DeviceTypes ==
    /\ status \in {"open", "closing", "closed"}
    /\ children \in Seq(Resources) /\ closeList \in Seq(Resources)
    /\ closeErr \in BOOLEAN
    /\ transients \in SUBSET (Goroutines \X Sets)
LifeTypes ==
    /\ life \in [Resources -> {"none", "creating", "live", "closed", "failed"}]
    /\ native \in [Resources -> Nat]
CountTypes ==
    /\ references \in [Buffers -> Nat]
    /\ bindingSets \in [Kernels -> Nat]
    /\ recorders \in [Sets -> Nat]
    /\ buffers \in [Sets -> SUBSET Nat]
RecorderTypes ==
    /\ recState \in [Recorders -> {"recording", "submitted", "unknown", "done"}]
    /\ recSets \in [Recorders -> SUBSET Sets]
CallTypes ==
    /\ pc \in [Goroutines -> Labels]
    /\ op \in [Goroutines -> Calls]
    /\ \A g \in Goroutines : (pc[g] = "idle") = (op[g] = << >>)
    /\ waiting \in Seq(Goroutines)
Types == DeviceTypes /\ LifeTypes /\ CountTypes /\ RecorderTypes /\ CallTypes

ResourcesInv ==
    /\ Types /\ Account /\ OneCloser /\ CallsFit /\ OneCall /\ Built /\ FinishedIsFreed /\ Bound
    /\ ReferencesCounted /\ KernelsCounted /\ RecordersCounted /\ LostOnce /\ HeldLive /\ Listed

LEMMA NativesCount == \A x \in Resources : Natives(x) \in Nat /\ Natives(x) > 0
BY DEF Natives, Resources


\* Counts that go down.
LEMMA LessProperties ==
    ASSUME NEW S, NEW f \in [S -> Nat], NEW x
    PROVE  /\ Less(f, x) \in [S -> Nat]
           /\ \A y \in S : Less(f, x)[y] = IF y = x /\ f[y] > 0 THEN f[y] - 1 ELSE f[y]
<1>1. \A y \in S : Less(f, x)[y] = IF y = x /\ f[y] > 0 THEN f[y] - 1 ELSE f[y]
  BY DEF Less
<1>2. \A y \in S : Less(f, x)[y] \in Nat
  BY <1>1
<1> QED BY <1>1, <1>2 DEF Less

LEMMA LessByProperties ==
    ASSUME NEW S, NEW f \in [S -> Nat], NEW n \in [S -> Nat]
    PROVE  /\ LessBy(f, n) \in [S -> Nat]
           /\ \A y \in S : LessBy(f, n)[y] = IF f[y] > n[y] THEN f[y] - n[y] ELSE 0
BY DEF LessBy

\* removeChild keeps the other children, and closing the last of them leaves the rest.
LEMMA WithoutKeeps ==
    ASSUME children \in Seq(Resources), NEW x
    PROVE  /\ Without(x) \in Seq(Resources)
           /\ \A y \in Range(children) : y # x => y \in Range(Without(x))
<1>1. CASE x \notin Range(children)
  BY <1>1 DEF Without
<1>2. CASE x \in Range(children)
  <2> DEFINE i == CHOOSE i \in DOMAIN children : children[i] = x
             rest == [j \in 1..(Len(children) - 1) |-> children[IF j < i THEN j ELSE j + 1]]
  <2>1. i \in 1..Len(children) /\ children[i] = x
    BY <1>2 DEF Range
  <2>2. Without(x) = rest
    BY <1>2 DEF Without
  <2> HIDE DEF i
  <2>3. Len(children) - 1 \in Nat /\ rest \in [1..(Len(children) - 1) -> Resources]
    BY <2>1
  <2>4. rest \in Seq(Resources)
    BY <2>3
  <2>5. ASSUME NEW y \in Range(children), y # x
        PROVE  y \in Range(rest)
    <3>1. PICK k \in 1..Len(children) : children[k] = y
      BY DEF Range
    <3>2. CASE k < i
      <4>1. k \in DOMAIN rest /\ rest[k] = y
        BY <2>1, <3>1, <3>2
      <4> QED BY <4>1 DEF Range
    <3>3. CASE k > i
      <4>1. k - 1 \in DOMAIN rest /\ rest[k - 1] = y
        BY <2>1, <3>1, <3>3
      <4> QED BY <4>1 DEF Range
    <3> QED BY <2>1, <2>5, <3>1, <3>2, <3>3
  <2> QED BY <2>2, <2>4, <2>5
<1> QED BY <1>1, <1>2

\* removeSubmissionReservation keeps the others.
LEMMA SleepersLeave ==
    ASSUME waiting \in Seq(Goroutines), NEW g, NoLongerWaiting(g)
    PROVE  waiting' \in Seq(Goroutines)
<1> DEFINE at == CHOOSE i \in DOMAIN waiting : waiting[i] = g
           rest == [i \in 1..(Len(waiting) - 1) |-> waiting[IF i < at THEN i ELSE i + 1]]
<1>1. waiting' = rest
  BY DEF NoLongerWaiting
<1> HIDE DEF at
<1>2. CASE Len(waiting) = 0
  BY <1>1, <1>2
<1>3. CASE Len(waiting) # 0
  <2>1. Len(waiting) - 1 \in Nat /\ rest \in [1..(Len(waiting) - 1) -> Goroutines]
    BY <1>3
  <2> QED BY <1>1, <2>1
<1> QED BY <1>2, <1>3

LEMMA LastAndFront ==
    ASSUME NEW S, NEW s \in Seq(S), s # << >>
    PROVE  /\ Front(s) \in Seq(S) /\ Last(s) \in S
           /\ \A y \in Range(s) : y # Last(s) => y \in Range(Front(s))
<1>1. Len(s) \in Nat \ {0}
  OBVIOUS
<1>2. /\ Front(s) \in Seq(S) /\ Len(Front(s)) = Len(s) - 1
      /\ \A i \in 1..(Len(s) - 1) : Front(s)[i] = s[i]
  <2>1. 1 \in Int /\ Len(s) - 1 \in Int /\ \A i \in 1..(Len(s) - 1) : s[i] \in S
    BY <1>1
  <2>2. /\ SubSeq(s, 1, Len(s) - 1) \in Seq(S)
        /\ Len(SubSeq(s, 1, Len(s) - 1)) = IF 1 <= Len(s) - 1 THEN (Len(s) - 1) - 1 + 1 ELSE 0
        /\ \A i \in 1..((Len(s) - 1) - 1 + 1) : SubSeq(s, 1, Len(s) - 1)[i] = s[1 + i - 1]
    BY <2>1, SubSeqProperties
  <2>3. (Len(s) - 1) - 1 + 1 = Len(s) - 1 /\ \A i \in 1..(Len(s) - 1) : 1 + i - 1 = i
    BY <1>1
  <2> QED BY <1>1, <2>2, <2>3 DEF Front
<1>3. Last(s) \in S
  BY <1>1 DEF Last
<1>4. ASSUME NEW y \in Range(s), y # Last(s)
      PROVE  y \in Range(Front(s))
  <2>1. PICK i \in 1..Len(s) : s[i] = y
    BY DEF Range
  <2>2. i \in 1..(Len(s) - 1)
    BY <1>1, <1>4, <2>1 DEF Last
  <2>3. i \in DOMAIN Front(s) /\ Front(s)[i] = y
    BY <1>1, <1>2, <2>1, <2>2
  <2> QED BY <2>3 DEF Range
<1> QED BY <1>2, <1>3, <1>4

\* Only goroutines have lost a batch.
LEMMA LostIsFinite ==
    ASSUME DeviceTypes, NEW s \in Sets
    PROVE  IsFiniteSet(LostOf(s)) /\ Cardinality(LostOf(s)) \in Nat
<1>1. IsFiniteSet(Goroutines \X Sets)
  BY FS_Product, ResourcesAssumption
<1>2. LostOf(s) \in SUBSET (Goroutines \X Sets)
  BY DEF DeviceTypes, LostOf
<1> QED BY <1>1, <1>2, FS_Subset, FS_CardinalityType

\* A set has finitely many bindings.
LEMMA PlacesAreFinite ==
    ASSUME NEW s \in Sets
    PROVE  IsFiniteSet(DOMAIN BuffersOf[s])
<1> DEFINE first == 1
<1>1. DOMAIN BuffersOf[s] = first..Len(BuffersOf[s]) /\ first \in Int /\ Len(BuffersOf[s]) \in Int
  BY ResourcesAssumption
<1> HIDE DEF first
<1> QED BY <1>1, FS_Interval

LEMMA BindingsAreFinite ==
    ASSUME Bound, NEW s \in Sets, NEW b
    PROVE  IsFiniteSet(Bindings(s, b)) /\ Cardinality(Bindings(s, b)) \in Nat
<1>1. Bindings(s, b) \subseteq DOMAIN BuffersOf[s]
  BY DEF Bindings, Bound, BoundTo
<1> QED BY <1>1, PlacesAreFinite, FS_Subset, FS_CardinalityType

\* NewBindings retains the buffer of its next binding.
BindsAt(s, n) ==
    /\ buffers[s] = 1..(n - 1) /\ buffers' = [buffers EXCEPT ![s] = 1..n]
    /\ references' = [references EXCEPT ![BuffersOf[s][n]] = @ + 1]
    /\ life[BuffersOf[s][n]] # "closed"

LEMMA BindsNext ==
    ASSUME ResourcesInv, NEW g \in Goroutines, RetainBuffer(g)
    PROVE  \/ UNCHANGED <<references, buffers>> /\ Goto(g, "unwind")
           \/ \E s \in Sets : \E n \in DOMAIN BuffersOf[s] :
                 /\ s = op[g][2] /\ BindsAt(s, n)
                 /\ Goto(g, IF n = Len(BuffersOf[s]) THEN "native" ELSE "buffers")
<1>1. op[g][2] \in Sets
  BY DEF RetainBuffer, ResourcesInv, CallsFit, CallFits
<1> QED BY <1>1 DEF RetainBuffer, BindsAt

\* Who releases buffers gives back that of the first binding left.
UnbindsAt(s, n) ==
    /\ n \in buffers[s] /\ buffers' = [buffers EXCEPT ![s] = @ \ {n}]
    /\ references' = Less(references, BuffersOf[s][n])

LEMMA UnbindsFirst ==
    ASSUME ResourcesInv, NEW g \in Goroutines, ReleaseBuffer(g)
    PROVE  \E s \in Sets : \E n \in buffers[s] : s = op[g][2] /\ UnbindsAt(s, n)
<1>1. op[g][2] \in Sets
  BY DEF ReleaseBuffer, ResourcesInv, CallsFit, CallFits
<1> QED BY <1>1 DEF ReleaseBuffer, UnbindsAt

\* The types, by groups of variables.
LEMMA DeviceTypesKept ==
    ASSUME ResourcesInv, [Next]_vars
    PROVE  DeviceTypes'
<1> USE DEF ResourcesInv, deviceVars, countVars, recVars, Types, DeviceTypes
<1>0. CASE UNCHANGED vars
  BY <1>0 DEF vars
<1> SUFFICES ASSUME NEW g \in Goroutines, Call(g) \/ Step(g) PROVE DeviceTypes'
  BY <1>0 DEF Next
<1>1. ASSUME NEW x \in Resources, Create(g, x) PROVE DeviceTypes'
  BY <1>1 DEF Create, Begin, Become
<1>2. ASSUME NEW x \in Resources, CloseUnheld(g, x) PROVE DeviceTypes'
  BY <1>2, WithoutKeeps DEF CloseUnheld, AtOnce, DestroyNatives, Become
<1>3. ASSUME NEW s \in Sets, NewBindings(g, s) PROVE DeviceTypes'
  BY <1>3 DEF NewBindings, Begin, Become
<1>4. ASSUME NEW s \in Sets, CloseSet(g, s) PROVE DeviceTypes'
  BY <1>4 DEF CloseSet, Unused, Begin, DestroyNatives, Become
<1>5. ASSUME NEW s \in Sets, DispatchAndWait(g, s) PROVE DeviceTypes'
  BY <1>5 DEF DispatchAndWait, Begin
<1>6. ASSUME NEW r \in Recorders, Submit(g, r) PROVE DeviceTypes'
  BY <1>6 DEF Submit, Begin
<1>7. ASSUME NEW r \in Recorders, FinishRecorder(g, r) PROVE DeviceTypes'
  BY <1>7 DEF FinishRecorder, Begin, DestroyNatives
<1>8. ASSUME NEW r \in Recorders, LoseRecorder(g, r) PROVE DeviceTypes'
  BY <1>8 DEF LoseRecorder, AtOnce
<1>9. ASSUME NEW r \in Recorders, NEW s \in Sets, Dispatch(g, r, s) PROVE DeviceTypes'
  BY <1>9 DEF Dispatch, AtOnce
<1>10. ASSUME CloseDevice(g) PROVE DeviceTypes'
  BY <1>10 DEF CloseDevice
<1>11. ASSUME CreateNative(g) PROVE DeviceTypes'
  BY <1>11 DEF CreateNative, FailCreation, Goto, End, DestroyNatives, Become
<1>12. ASSUME AddChild(g) PROVE DeviceTypes'
  <2>1. op[g][2] \in Resources
    BY <1>12 DEF AddChild, CallsFit, CallFits, Creating
  <2>2. Append(children, op[g][2]) \in Seq(Resources)
    BY <2>1
  <2> QED BY <1>12, <2>2 DEF AddChild, FailCreation
<1>13. ASSUME RetainKernel(g) PROVE DeviceTypes'
  BY <1>13 DEF RetainKernel, Goto, End, Become
<1>14. ASSUME RetainBuffer(g) PROVE DeviceTypes'
  BY <1>14 DEF RetainBuffer, Goto
<1>15. ASSUME ReleaseBuffer(g) PROVE DeviceTypes'
  BY <1>15 DEF ReleaseBuffer
<1>16. ASSUME EndRelease(g) PROVE DeviceTypes'
  BY <1>16, WithoutKeeps DEF EndRelease, ReleaseKernel, Become, End
<1>17. ASSUME SubmitDispatch(g) PROVE DeviceTypes'
  BY <1>17 DEF SubmitDispatch, Goto
<1>18. ASSUME WaitForDispatch(g) PROVE DeviceTypes'
  BY <1>18 DEF WaitForDispatch, Goto, End, CallsFit, CallFits, Using
<1>19. ASSUME Cleanup(g) PROVE DeviceTypes'
  BY <1>19 DEF Cleanup, End
<1>20. ASSUME ReleaseSet(g) PROVE DeviceTypes'
  BY <1>20, WithoutKeeps DEF ReleaseSet, Become, End
<1>21. ASSUME Drain(g) PROVE DeviceTypes'
  BY <1>21 DEF Drain
<1>22. ASSUME CloseChild(g) PROVE DeviceTypes'
  BY <1>22, LastAndFront DEF CloseChild, CloseSetFromDevice, CloseRecorderFromDevice,
      DestroyNatives, Become
<1>23. ASSUME EndClose(g) PROVE DeviceTypes'
  BY <1>23 DEF EndClose
<1>24. ASSUME ReserveDispatch(g) PROVE DeviceTypes'
  BY <1>24 DEF ReserveDispatch, Goto
<1>25. ASSUME ReserveBatch(g) PROVE DeviceTypes'
  BY <1>25 DEF ReserveBatch, End, DestroyNatives
<1> QED BY <1>1, <1>2, <1>3, <1>4, <1>5, <1>6, <1>7, <1>8, <1>9, <1>10, <1>11, <1>12, <1>13,
    <1>14, <1>15, <1>16, <1>17, <1>18, <1>19, <1>20, <1>21, <1>22, <1>23, <1>24, <1>25
        DEF Call, Step

LEMMA LifeTypesKept ==
    ASSUME ResourcesInv, [Next]_vars
    PROVE  LifeTypes'
<1> USE DEF ResourcesInv, deviceVars, countVars, recVars, Types, LifeTypes
<1>0. CASE UNCHANGED vars
  BY <1>0 DEF vars
<1> SUFFICES ASSUME NEW g \in Goroutines, Call(g) \/ Step(g) PROVE LifeTypes'
  BY <1>0 DEF Next
<1>1. ASSUME NEW x \in Resources, Create(g, x) PROVE LifeTypes'
  BY <1>1 DEF Create, Begin, Become
<1>2. ASSUME NEW x \in Resources, CloseUnheld(g, x) PROVE LifeTypes'
  BY <1>2 DEF CloseUnheld, AtOnce, DestroyNatives, Become
<1>3. ASSUME NEW s \in Sets, NewBindings(g, s) PROVE LifeTypes'
  BY <1>3 DEF NewBindings, Begin, Become, Resources
<1>4. ASSUME NEW s \in Sets, CloseSet(g, s) PROVE LifeTypes'
  BY <1>4 DEF CloseSet, Unused, Begin, DestroyNatives, Become, Resources
<1>5. ASSUME NEW s \in Sets, DispatchAndWait(g, s) PROVE LifeTypes'
  BY <1>5 DEF DispatchAndWait, Begin
<1>6. ASSUME NEW r \in Recorders, Submit(g, r) PROVE LifeTypes'
  BY <1>6 DEF Submit, Begin
<1>7. ASSUME NEW r \in Recorders, FinishRecorder(g, r) PROVE LifeTypes'
  BY <1>7 DEF FinishRecorder, Begin, DestroyNatives
<1>8. ASSUME NEW r \in Recorders, LoseRecorder(g, r) PROVE LifeTypes'
  BY <1>8 DEF LoseRecorder, AtOnce
<1>9. ASSUME NEW r \in Recorders, NEW s \in Sets, Dispatch(g, r, s) PROVE LifeTypes'
  BY <1>9 DEF Dispatch, AtOnce
<1>10. ASSUME CloseDevice(g) PROVE LifeTypes'
  BY <1>10 DEF CloseDevice
<1>11. ASSUME CreateNative(g) PROVE LifeTypes'
  BY <1>11 DEF CreateNative, FailCreation, Goto, End, DestroyNatives, Become
<1>12. ASSUME AddChild(g) PROVE LifeTypes'
  BY <1>12 DEF AddChild, FailCreation, Goto, End, DestroyNatives, Become
<1>13. ASSUME RetainKernel(g) PROVE LifeTypes'
  BY <1>13 DEF RetainKernel, Goto, End, Become
<1>14. ASSUME RetainBuffer(g) PROVE LifeTypes'
  BY <1>14 DEF RetainBuffer, Goto
<1>15. ASSUME ReleaseBuffer(g) PROVE LifeTypes'
  BY <1>15 DEF ReleaseBuffer
<1>16. ASSUME EndRelease(g) PROVE LifeTypes'
  BY <1>16 DEF EndRelease, ReleaseKernel, Become, End
<1>17. ASSUME SubmitDispatch(g) PROVE LifeTypes'
  BY <1>17 DEF SubmitDispatch, Goto
<1>18. ASSUME WaitForDispatch(g) PROVE LifeTypes'
  BY <1>18 DEF WaitForDispatch, Goto, End
<1>19. ASSUME Cleanup(g) PROVE LifeTypes'
  BY <1>19 DEF Cleanup, End
<1>20. ASSUME ReleaseSet(g) PROVE LifeTypes'
  BY <1>20 DEF ReleaseSet, Become, End
<1>21. ASSUME Drain(g) PROVE LifeTypes'
  BY <1>21 DEF Drain
<1>22. ASSUME CloseChild(g) PROVE LifeTypes'
  <2>1. closeList # << >> /\ Last(closeList) \in Resources
    BY <1>22, LastAndFront DEF CloseChild, DeviceTypes
  <2> QED BY <1>22, <2>1 DEF CloseChild, DestroyNatives, Become
<1>23. ASSUME EndClose(g) PROVE LifeTypes'
  BY <1>23 DEF EndClose
<1>24. ASSUME ReserveDispatch(g) PROVE LifeTypes'
  BY <1>24 DEF ReserveDispatch, Goto
<1>25. ASSUME ReserveBatch(g) PROVE LifeTypes'
  BY <1>25 DEF ReserveBatch, End, DestroyNatives
<1> QED BY <1>1, <1>2, <1>3, <1>4, <1>5, <1>6, <1>7, <1>8, <1>9, <1>10, <1>11, <1>12, <1>13,
    <1>14, <1>15, <1>16, <1>17, <1>18, <1>19, <1>20, <1>21, <1>22, <1>23, <1>24, <1>25
        DEF Call, Step

LEMMA CountTypesKept ==
    ASSUME ResourcesInv, [Next]_vars
    PROVE  CountTypes'
<1> USE DEF ResourcesInv, deviceVars, countVars, recVars, Types, CountTypes
<1>0. CASE UNCHANGED vars
  BY <1>0 DEF vars
<1> SUFFICES ASSUME NEW g \in Goroutines, Call(g) \/ Step(g) PROVE CountTypes'
  BY <1>0 DEF Next
<1>1. ASSUME NEW x \in Resources, Create(g, x) PROVE CountTypes'
  BY <1>1 DEF Create, Begin, Become
<1>2. ASSUME NEW x \in Resources, CloseUnheld(g, x) PROVE CountTypes'
  BY <1>2 DEF CloseUnheld, AtOnce, DestroyNatives, Become
<1>3. ASSUME NEW s \in Sets, NewBindings(g, s) PROVE CountTypes'
  BY <1>3 DEF NewBindings, Begin, Become
<1>4. ASSUME NEW s \in Sets, CloseSet(g, s) PROVE CountTypes'
  BY <1>4 DEF CloseSet, Unused, Begin, DestroyNatives, Become
<1>5. ASSUME NEW s \in Sets, DispatchAndWait(g, s) PROVE CountTypes'
  BY <1>5 DEF DispatchAndWait, Begin
<1>6. ASSUME NEW r \in Recorders, Submit(g, r) PROVE CountTypes'
  BY <1>6 DEF Submit, Begin
<1>7. ASSUME NEW r \in Recorders, FinishRecorder(g, r) PROVE CountTypes'
  BY <1>7 DEF FinishRecorder, Begin, DestroyNatives
<1>8. ASSUME NEW r \in Recorders, LoseRecorder(g, r) PROVE CountTypes'
  BY <1>8 DEF LoseRecorder, AtOnce
<1>9. ASSUME NEW r \in Recorders, NEW s \in Sets, Dispatch(g, r, s) PROVE CountTypes'
  BY <1>9 DEF Dispatch, AtOnce
<1>10. ASSUME CloseDevice(g) PROVE CountTypes'
  BY <1>10 DEF CloseDevice
<1>11. ASSUME CreateNative(g) PROVE CountTypes'
  BY <1>11 DEF CreateNative, FailCreation, Goto, End, DestroyNatives, Become
<1>12. ASSUME AddChild(g) PROVE CountTypes'
  BY <1>12 DEF AddChild, FailCreation, Goto, End, DestroyNatives, Become
<1>13. ASSUME RetainKernel(g) PROVE CountTypes'
  BY <1>13, ResourcesAssumption DEF RetainKernel, Goto, End, Become, CallsFit, CallFits, Using
<1>14. ASSUME RetainBuffer(g) PROVE CountTypes'
  <2>1. UNCHANGED <<bindingSets, recorders>>
    BY <1>14 DEF RetainBuffer
  <2>2. CASE UNCHANGED <<references, buffers>>
    BY <2>1, <2>2
  <2>3. ASSUME NEW s \in Sets, NEW n \in DOMAIN BuffersOf[s], BindsAt(s, n)
        PROVE  CountTypes'
    <3>1. 1..n \in SUBSET Nat
      OBVIOUS
    <3>2. /\ references' = [references EXCEPT ![BuffersOf[s][n]] = @ + 1]
          /\ buffers' = [buffers EXCEPT ![s] = 1..n]
      BY <2>3 DEF BindsAt
    <3>3. PICK b \in Buffers : b = BuffersOf[s][n]
      BY ResourcesAssumption
    <3>4. references' \in [Buffers -> Nat]
      BY <3>2, <3>3
    <3>5. buffers' \in [Sets -> SUBSET Nat]
      BY <3>1, <3>2
    <3> QED BY <2>1, <3>4, <3>5
  <2> QED BY <1>14, <2>2, <2>3, BindsNext
<1>15. ASSUME ReleaseBuffer(g) PROVE CountTypes'
  <2>1. references' \in [Buffers -> Nat]
    BY <1>15, LessProperties DEF ReleaseBuffer
  <2> QED BY <1>15, <2>1 DEF ReleaseBuffer
<1>16. ASSUME EndRelease(g) PROVE CountTypes'
  <2>1. bindingSets' \in [Kernels -> Nat]
    BY <1>16, LessProperties DEF EndRelease, ReleaseKernel
  <2> QED BY <1>16, <2>1 DEF EndRelease
<1>17. ASSUME SubmitDispatch(g) PROVE CountTypes'
  BY <1>17 DEF SubmitDispatch, Goto
<1>18. ASSUME WaitForDispatch(g) PROVE CountTypes'
  BY <1>18 DEF WaitForDispatch, Goto, End
<1>19. ASSUME Cleanup(g) PROVE CountTypes'
  BY <1>19, LessProperties DEF Cleanup, End
<1>20. ASSUME ReleaseSet(g) PROVE CountTypes'
  <2>1. /\ UNCHANGED <<references, bindingSets, buffers>>
        /\ UNCHANGED recorders \/ \E s : recorders' = Less(recorders, s)
    BY <1>20 DEF ReleaseSet
  <2>2. CountTypes
    OBVIOUS
  <2> QED BY ONLY <2>1, <2>2, LessProperties DEF CountTypes
<1>21. ASSUME Drain(g) PROVE CountTypes'
  <2> DEFINE lost == [s \in Sets |-> Cardinality(LostOf(s))]
  <2>1. lost \in [Sets -> Nat]
    BY LostIsFinite
  <2>2. recorders' = LessBy(recorders, lost)
    BY <1>21 DEF Drain, LostOf
  <2> HIDE DEF lost
  <2>3. recorders' \in [Sets -> Nat]
    BY <2>1, <2>2, LessByProperties
  <2> QED BY <1>21, <2>3 DEF Drain
<1>22. ASSUME CloseChild(g) PROVE CountTypes'
  <2>1. CASE UNCHANGED countVars
    BY <2>1
  <2>2. ASSUME NEW s \in Sets, CloseSetFromDevice(s)
        PROVE  CountTypes'
    <3>1. references' \in [Buffers -> Nat]
      <4> DEFINE held == [b \in Buffers |-> Cardinality(Bindings(s, b))]
      <4>1. held \in [Buffers -> Nat]
        BY BindingsAreFinite
      <4>2. references' = LessBy(references, held)
        BY <2>2 DEF CloseSetFromDevice
      <4> HIDE DEF held
      <4> QED BY <4>1, <4>2, LessByProperties
    <3>2. bindingSets' \in [Kernels -> Nat]
      BY <2>2, LessProperties DEF CloseSetFromDevice
    <3> QED BY <2>2, <3>1, <3>2 DEF CloseSetFromDevice
  <2>3. ASSUME NEW r \in Recorders, CloseRecorderFromDevice(r)
        PROVE  CountTypes'
    <3>1. recorders' \in [Sets -> Nat]
      BY <2>3, LessByProperties DEF CloseRecorderFromDevice
    <3> QED BY <2>3, <3>1 DEF CloseRecorderFromDevice
  <2> QED BY <1>22, <2>1, <2>2, <2>3 DEF CloseChild
<1>23. ASSUME EndClose(g) PROVE CountTypes'
  BY <1>23 DEF EndClose
<1>24. ASSUME ReserveDispatch(g) PROVE CountTypes'
  BY <1>24 DEF ReserveDispatch, Goto
<1>25. ASSUME ReserveBatch(g) PROVE CountTypes'
  BY <1>25 DEF ReserveBatch, End, DestroyNatives
<1> QED BY <1>1, <1>2, <1>3, <1>4, <1>5, <1>6, <1>7, <1>8, <1>9, <1>10, <1>11, <1>12, <1>13,
    <1>14, <1>15, <1>16, <1>17, <1>18, <1>19, <1>20, <1>21, <1>22, <1>23, <1>24, <1>25
        DEF Call, Step

LEMMA RecorderTypesKept ==
    ASSUME ResourcesInv, [Next]_vars
    PROVE  RecorderTypes'
<1> USE DEF ResourcesInv, deviceVars, countVars, recVars, Types, RecorderTypes
<1>0. CASE UNCHANGED vars
  BY <1>0 DEF vars
<1> SUFFICES ASSUME NEW g \in Goroutines, Call(g) \/ Step(g) PROVE RecorderTypes'
  BY <1>0 DEF Next
<1>1. ASSUME NEW x \in Resources, Create(g, x) PROVE RecorderTypes'
  BY <1>1 DEF Create, Begin, Become
<1>2. ASSUME NEW x \in Resources, CloseUnheld(g, x) PROVE RecorderTypes'
  BY <1>2 DEF CloseUnheld, AtOnce, DestroyNatives, Become
<1>3. ASSUME NEW s \in Sets, NewBindings(g, s) PROVE RecorderTypes'
  BY <1>3 DEF NewBindings, Begin, Become
<1>4. ASSUME NEW s \in Sets, CloseSet(g, s) PROVE RecorderTypes'
  BY <1>4 DEF CloseSet, Unused, Begin, DestroyNatives, Become
<1>5. ASSUME NEW s \in Sets, DispatchAndWait(g, s) PROVE RecorderTypes'
  BY <1>5 DEF DispatchAndWait, Begin
<1>6. ASSUME NEW r \in Recorders, Submit(g, r) PROVE RecorderTypes'
  BY <1>6 DEF Submit, Begin
<1>7. ASSUME NEW r \in Recorders, FinishRecorder(g, r) PROVE RecorderTypes'
  BY <1>7 DEF FinishRecorder, Begin, DestroyNatives
<1>8. ASSUME NEW r \in Recorders, LoseRecorder(g, r) PROVE RecorderTypes'
  BY <1>8 DEF LoseRecorder, AtOnce
<1>9. ASSUME NEW r \in Recorders, NEW s \in Sets, Dispatch(g, r, s) PROVE RecorderTypes'
  BY <1>9 DEF Dispatch, AtOnce
<1>10. ASSUME CloseDevice(g) PROVE RecorderTypes'
  BY <1>10 DEF CloseDevice
<1>11. ASSUME CreateNative(g) PROVE RecorderTypes'
  BY <1>11 DEF CreateNative, FailCreation, Goto, End, DestroyNatives, Become
<1>12. ASSUME AddChild(g) PROVE RecorderTypes'
  BY <1>12 DEF AddChild, FailCreation, Goto, End, DestroyNatives, Become
<1>13. ASSUME RetainKernel(g) PROVE RecorderTypes'
  BY <1>13 DEF RetainKernel, Goto, End, Become
<1>14. ASSUME RetainBuffer(g) PROVE RecorderTypes'
  BY <1>14 DEF RetainBuffer, Goto
<1>15. ASSUME ReleaseBuffer(g) PROVE RecorderTypes'
  BY <1>15 DEF ReleaseBuffer
<1>16. ASSUME EndRelease(g) PROVE RecorderTypes'
  BY <1>16 DEF EndRelease, ReleaseKernel, Become, End
<1>17. ASSUME SubmitDispatch(g) PROVE RecorderTypes'
  BY <1>17 DEF SubmitDispatch, Goto
<1>18. ASSUME WaitForDispatch(g) PROVE RecorderTypes'
  BY <1>18 DEF WaitForDispatch, Goto, End
<1>19. ASSUME Cleanup(g) PROVE RecorderTypes'
  BY <1>19 DEF Cleanup, End
<1>20. ASSUME ReleaseSet(g) PROVE RecorderTypes'
  BY <1>20 DEF ReleaseSet, Become, End
<1>21. ASSUME Drain(g) PROVE RecorderTypes'
  BY <1>21 DEF Drain
<1>22. ASSUME CloseChild(g) PROVE RecorderTypes'
  BY <1>22 DEF CloseChild, CloseSetFromDevice, CloseRecorderFromDevice, DestroyNatives, Become
<1>23. ASSUME EndClose(g) PROVE RecorderTypes'
  BY <1>23 DEF EndClose
<1>24. ASSUME ReserveDispatch(g) PROVE RecorderTypes'
  BY <1>24 DEF ReserveDispatch, Goto
<1>25. ASSUME ReserveBatch(g) PROVE RecorderTypes'
  BY <1>25 DEF ReserveBatch, End, DestroyNatives
<1> QED BY <1>1, <1>2, <1>3, <1>4, <1>5, <1>6, <1>7, <1>8, <1>9, <1>10, <1>11, <1>12, <1>13,
    <1>14, <1>15, <1>16, <1>17, <1>18, <1>19, <1>20, <1>21, <1>22, <1>23, <1>24, <1>25
        DEF Call, Step

LEMMA CallTypesKept ==
    ASSUME ResourcesInv, [Next]_vars
    PROVE  CallTypes'
<1> USE DEF ResourcesInv, deviceVars, countVars, recVars, Types, CallTypes, Labels, Calls
<1>0. CASE UNCHANGED vars
  BY <1>0 DEF vars
<1> SUFFICES ASSUME NEW g \in Goroutines, Call(g) \/ Step(g) PROVE CallTypes'
  BY <1>0 DEF Next
<1>1. ASSUME NEW x \in Resources, Create(g, x) PROVE CallTypes'
  BY <1>1 DEF Create, Begin, Become
<1>2. ASSUME NEW x \in Resources, CloseUnheld(g, x) PROVE CallTypes'
  BY <1>2 DEF CloseUnheld, AtOnce, DestroyNatives, Become
<1>3. ASSUME NEW s \in Sets, NewBindings(g, s) PROVE CallTypes'
  BY <1>3 DEF NewBindings, Begin, Become, Resources
<1>4. ASSUME NEW s \in Sets, CloseSet(g, s) PROVE CallTypes'
  BY <1>4 DEF CloseSet, Unused, Begin, DestroyNatives, Become, Resources
<1>5. ASSUME NEW s \in Sets, DispatchAndWait(g, s) PROVE CallTypes'
  BY <1>5 DEF DispatchAndWait, Begin, Resources
<1>6. ASSUME NEW r \in Recorders, Submit(g, r) PROVE CallTypes'
  <2>1. waiting' \in Seq(Goroutines)
    BY <1>6, AppendProperties DEF Submit
  <2>2. <<"submit", r>> \in Calls /\ <<"submit", r>> # << >>
    BY DEF Resources
  <2> QED BY <1>6, <2>1, <2>2 DEF Submit, Begin
<1>7. ASSUME NEW r \in Recorders, FinishRecorder(g, r) PROVE CallTypes'
  BY <1>7 DEF FinishRecorder, Begin, DestroyNatives, Resources
<1>8. ASSUME NEW r \in Recorders, LoseRecorder(g, r) PROVE CallTypes'
  BY <1>8 DEF LoseRecorder, AtOnce
<1>9. ASSUME NEW r \in Recorders, NEW s \in Sets, Dispatch(g, r, s) PROVE CallTypes'
  BY <1>9 DEF Dispatch, AtOnce
<1>10. ASSUME CloseDevice(g) PROVE CallTypes'
  BY <1>10 DEF CloseDevice
<1>11. ASSUME CreateNative(g) PROVE CallTypes'
  <2>1. waiting' = waiting /\ pc[g] = "native"
    BY <1>11 DEF CreateNative
  <2>2. \/ \E l \in {"native", "addChild", "unwind"} : op' = op /\ pc' = [pc EXCEPT ![g] = l]
        \/ pc' = [pc EXCEPT ![g] = "idle"] /\ op' = [op EXCEPT ![g] = << >>]
    BY <1>11 DEF CreateNative, FailCreation, Goto, End
  <2>3. CallTypes
    OBVIOUS
  <2> QED BY ONLY <2>1, <2>2, <2>3 DEF CallTypes, Labels, Calls
<1>12. ASSUME AddChild(g) PROVE CallTypes'
  <2>1. waiting' = waiting /\ pc[g] = "addChild"
    BY <1>12 DEF AddChild
  <2>2. \/ op' = op /\ pc' = [pc EXCEPT ![g] = "unwind"]
        \/ pc' = [pc EXCEPT ![g] = "idle"] /\ op' = [op EXCEPT ![g] = << >>]
    BY <1>12 DEF AddChild, FailCreation, Goto, End
  <2>3. CallTypes
    OBVIOUS
  <2> QED BY ONLY <2>1, <2>2, <2>3 DEF CallTypes, Labels, Calls
<1>13. ASSUME RetainKernel(g) PROVE CallTypes'
  <2>1. waiting' = waiting /\ pc[g] = "kernel"
    BY <1>13 DEF RetainKernel
  <2>2. \/ op' = op /\ pc' = [pc EXCEPT ![g] = "buffers"]
        \/ pc' = [pc EXCEPT ![g] = "idle"] /\ op' = [op EXCEPT ![g] = << >>]
    BY <1>13 DEF RetainKernel, Goto, End
  <2>3. CallTypes
    OBVIOUS
  <2> QED BY ONLY <2>1, <2>2, <2>3 DEF CallTypes, Labels, Calls
<1>14. ASSUME RetainBuffer(g) PROVE CallTypes'
  <2>1. /\ op' = op /\ waiting' = waiting /\ pc[g] = "buffers"
        /\ \E l \in {"unwind", "native", "buffers"} : pc' = [pc EXCEPT ![g] = l]
    BY <1>14 DEF RetainBuffer, Goto
  <2>2. CallTypes
    OBVIOUS
  <2> QED BY ONLY <2>1, <2>2 DEF CallTypes, Labels
<1>15. ASSUME ReleaseBuffer(g) PROVE CallTypes'
  BY <1>15 DEF ReleaseBuffer
<1>16. ASSUME EndRelease(g) PROVE CallTypes'
  BY <1>16 DEF EndRelease, ReleaseKernel, Become, End
<1>17. ASSUME SubmitDispatch(g) PROVE CallTypes'
  <2>1. waiting' \in Seq(Goroutines)
    BY <1>17, AppendProperties DEF SubmitDispatch
  <2> QED BY <1>17, <2>1 DEF SubmitDispatch, Goto
<1>18. ASSUME WaitForDispatch(g) PROVE CallTypes'
  BY <1>18 DEF WaitForDispatch, Goto, End
<1>19. ASSUME Cleanup(g) PROVE CallTypes'
  BY <1>19 DEF Cleanup, End
<1>20. ASSUME ReleaseSet(g) PROVE CallTypes'
  BY <1>20 DEF ReleaseSet, Become, End
<1>21. ASSUME Drain(g) PROVE CallTypes'
  BY <1>21 DEF Drain
<1>22. ASSUME CloseChild(g) PROVE CallTypes'
  BY <1>22 DEF CloseChild, CloseSetFromDevice, CloseRecorderFromDevice, DestroyNatives, Become
<1>23. ASSUME EndClose(g) PROVE CallTypes'
  BY <1>23 DEF EndClose
<1>24. ASSUME ReserveDispatch(g) PROVE CallTypes'
  <2>1. waiting' \in Seq(Goroutines)
    BY <1>24, SleepersLeave DEF ReserveDispatch
  <2> QED BY <1>24, <2>1 DEF ReserveDispatch, Goto
<1>25. ASSUME ReserveBatch(g) PROVE CallTypes'
  <2>1. waiting' \in Seq(Goroutines)
    BY <1>25, SleepersLeave DEF ReserveBatch
  <2>2. op[g][2] \in Recorders
    BY <1>25 DEF ReserveBatch, CallsFit, CallFits
  <2>3. <<"finish", op[g][2]>> \in Calls /\ <<"finish", op[g][2]>> # << >>
    BY <2>2 DEF Resources
  <2>4. \/ pc' = [pc EXCEPT ![g] = "idle"] /\ op' = [op EXCEPT ![g] = << >>]
        \/ pc' = [pc EXCEPT ![g] = "sets"] /\ op' = [op EXCEPT ![g] = <<"finish", op[g][2]>>]
    BY <1>25 DEF ReserveBatch, End
  <2>5. CallTypes
    OBVIOUS
  <2> QED BY ONLY <2>1, <2>3, <2>4, <2>5 DEF CallTypes, Labels, Calls
<1> QED BY <1>1, <1>2, <1>3, <1>4, <1>5, <1>6, <1>7, <1>8, <1>9, <1>10, <1>11, <1>12, <1>13,
    <1>14, <1>15, <1>16, <1>17, <1>18, <1>19, <1>20, <1>21, <1>22, <1>23, <1>24, <1>25
        DEF Call, Step

\* How a step of goroutine g moves it, and what becomes of the operations in progress.
Moves(g) ==
    \E l \in Labels :
        /\ pc' = [pc EXCEPT ![g] = l]
        /\ \/ l = pc[g] /\ UNCHANGED <<active, status>>
           \/ /\ pc[g] = "idle" /\ l \notin {"idle"} \cup Closing /\ status = "open"
              /\ active' = active + 1 /\ UNCHANGED status
           \/ /\ pc[g] \notin {"idle"} \cup Closing /\ l \notin {"idle"} \cup Closing
              /\ UNCHANGED <<active, status>>
           \/ /\ pc[g] \notin {"idle"} \cup Closing /\ l = "idle"
              /\ active' = active - 1 /\ UNCHANGED status
           \/ pc[g] = "idle" /\ l = "drain" /\ status = "open" /\ status' = "closing" /\ UNCHANGED active
           \/ pc[g] = "drain" /\ l = "children" /\ active = 0 /\ UNCHANGED <<active, status>>
           \/ pc[g] = "children" /\ l = "idle" /\ status' = "closed" /\ UNCHANGED active

\* Every step is one of these moves.
LEMMA EveryStepMoves ==
    ASSUME ResourcesInv, NEW g \in Goroutines, Call(g) \/ Step(g)
    PROVE  Moves(g)
<1> USE DEF ResourcesInv, Types, CallTypes, Moves, Labels, Closing, deviceVars
<1>1. ASSUME NEW x \in Resources, Create(g, x) PROVE Moves(g)
  BY <1>1 DEF Create, Begin, Become
<1>2. ASSUME NEW x \in Resources, CloseUnheld(g, x) PROVE Moves(g)
  BY <1>2 DEF CloseUnheld, AtOnce, DestroyNatives, Become
<1>3. ASSUME NEW s \in Sets, NewBindings(g, s) PROVE Moves(g)
  BY <1>3 DEF NewBindings, Begin, Become
<1>4. ASSUME NEW s \in Sets, CloseSet(g, s) PROVE Moves(g)
  BY <1>4 DEF CloseSet, Unused, Begin, DestroyNatives, Become
<1>5. ASSUME NEW s \in Sets, DispatchAndWait(g, s) PROVE Moves(g)
  BY <1>5 DEF DispatchAndWait, Begin
<1>6. ASSUME NEW r \in Recorders, Submit(g, r) PROVE Moves(g)
  BY <1>6 DEF Submit, Begin
<1>7. ASSUME NEW r \in Recorders, FinishRecorder(g, r) PROVE Moves(g)
  BY <1>7 DEF FinishRecorder, Begin, DestroyNatives
<1>8. ASSUME NEW r \in Recorders, LoseRecorder(g, r) PROVE Moves(g)
  BY <1>8 DEF LoseRecorder, AtOnce
<1>9. ASSUME NEW r \in Recorders, NEW s \in Sets, Dispatch(g, r, s) PROVE Moves(g)
  BY <1>9 DEF Dispatch, AtOnce
<1>10. ASSUME CloseDevice(g) PROVE Moves(g)
  BY <1>10 DEF CloseDevice
<1>11. ASSUME CreateNative(g) PROVE Moves(g)
  BY <1>11 DEF CreateNative, FailCreation, Goto, End, DestroyNatives, Become
<1>12. ASSUME AddChild(g) PROVE Moves(g)
  BY <1>12 DEF AddChild, FailCreation, Goto, End, DestroyNatives, Become
<1>13. ASSUME RetainKernel(g) PROVE Moves(g)
  BY <1>13 DEF RetainKernel, Goto, End, Become
<1>14. ASSUME RetainBuffer(g) PROVE Moves(g)
  BY <1>14 DEF RetainBuffer, Goto
<1>15. ASSUME ReleaseBuffer(g) PROVE Moves(g)
  BY <1>15 DEF ReleaseBuffer
<1>16. ASSUME EndRelease(g) PROVE Moves(g)
  BY <1>16 DEF EndRelease, ReleaseKernel, Become, End
<1>17. ASSUME SubmitDispatch(g) PROVE Moves(g)
  BY <1>17 DEF SubmitDispatch, Goto
<1>18. ASSUME WaitForDispatch(g) PROVE Moves(g)
  BY <1>18 DEF WaitForDispatch, Goto, End
<1>19. ASSUME Cleanup(g) PROVE Moves(g)
  BY <1>19 DEF Cleanup, End
<1>20. ASSUME ReleaseSet(g) PROVE Moves(g)
  BY <1>20 DEF ReleaseSet, Become, End
<1>21. ASSUME Drain(g) PROVE Moves(g)
  BY <1>21 DEF Drain
<1>22. ASSUME CloseChild(g) PROVE Moves(g)
  BY <1>22 DEF CloseChild, CloseSetFromDevice, CloseRecorderFromDevice, DestroyNatives, Become
<1>23. ASSUME EndClose(g) PROVE Moves(g)
  BY <1>23 DEF EndClose
<1>24. ASSUME ReserveDispatch(g) PROVE Moves(g)
  BY <1>24 DEF ReserveDispatch, Goto
<1>25. ASSUME ReserveBatch(g) PROVE Moves(g)
  BY <1>25 DEF ReserveBatch, End, DestroyNatives
<1> QED BY <1>1, <1>2, <1>3, <1>4, <1>5, <1>6, <1>7, <1>8, <1>9, <1>10, <1>11, <1>12, <1>13,
    <1>14, <1>15, <1>16, <1>17, <1>18, <1>19, <1>20, <1>21, <1>22, <1>23, <1>24, <1>25
        DEF Call, Step

LEMMA OperatingIsFinite ==
    /\ IsFiniteSet(Operating) /\ Cardinality(Operating) \in Nat
    /\ Cardinality(Operating) <= Cardinality(Goroutines)
BY FS_Subset, FS_CardinalityType, ResourcesAssumption DEF Operating

\* Every operation that begins is counted, and ends once.
LEMMA AccountKept ==
    ASSUME ResourcesInv, [Next]_vars
    PROVE  Account'
<1>1. CASE UNCHANGED vars
  BY <1>1 DEF ResourcesInv, Account, Operating, vars, deviceVars
<1>2. ASSUME NEW g \in Goroutines, Call(g) \/ Step(g)
      PROVE  Account'
  <2> USE DEF Operating, Account
  <2>1. pc \in [Goroutines -> Labels] /\ active = Cardinality(Operating)
    BY DEF ResourcesInv, Types, CallTypes
  <2>2. PICK l \in Labels :
            /\ pc' = [pc EXCEPT ![g] = l]
            /\ \/ /\ active' = active
                  /\ pc[g] \in {"idle"} \cup Closing <=> l \in {"idle"} \cup Closing
               \/ /\ active' = active + 1
                  /\ pc[g] \in {"idle"} \cup Closing /\ l \notin {"idle"} \cup Closing
               \/ /\ active' = active - 1
                  /\ pc[g] \notin {"idle"} \cup Closing /\ l \in {"idle"} \cup Closing
    BY <1>2, EveryStepMoves DEF Moves, Closing
  <2>3. CASE active' = active /\ (pc[g] \in {"idle"} \cup Closing <=> l \in {"idle"} \cup Closing)
    <3>1. Operating' = Operating
      BY <2>1, <2>2, <2>3
    <3> QED BY <2>1, <2>3, <3>1
  <2>4. CASE active' = active + 1 /\ pc[g] \in {"idle"} \cup Closing /\ l \notin {"idle"} \cup Closing
    <3>1. Operating' = Operating \cup {g} /\ g \notin Operating
      BY <2>1, <2>2, <2>4
    <3> QED BY <2>1, <2>4, <3>1, OperatingIsFinite, FS_AddElement
  <2>5. CASE active' = active - 1 /\ pc[g] \notin {"idle"} \cup Closing /\ l \in {"idle"} \cup Closing
    <3>1. Operating' = Operating \ {g} /\ g \in Operating
      BY <2>1, <2>2, <2>5
    <3> HIDE DEF Operating
    <3>2. Cardinality(Operating \ {g}) = Cardinality(Operating) - 1
      BY ONLY <3>1, OperatingIsFinite, FS_RemoveElement
    <3> QED BY <2>1, <2>5, <3>1, <3>2
  <2> QED BY <2>2, <2>3, <2>4, <2>5
<1> QED BY <1>1, <1>2 DEF Next

\* Device.Close goes on when no operation is left.
LEMMA NobodyOperates ==
    ASSUME Account, active = 0, NEW g \in Goroutines
    PROVE  pc[g] \in {"idle"} \cup Closing
<1>1. Operating = {}
  BY OperatingIsFinite, FS_EmptySet DEF Account
<1> QED BY <1>1 DEF Operating

\* Only one call of Device.Close passes its test of the state, and it waits.
LEMMA OneCloserKept ==
    ASSUME ResourcesInv, [Next]_vars
    PROVE  OneCloser'
<1>1. CASE UNCHANGED vars
  BY <1>1 DEF ResourcesInv, OneCloser, Destroying, vars, deviceVars
<1>2. ASSUME NEW g \in Goroutines, Call(g) \/ Step(g)
      PROVE  OneCloser'
  <2>1. pc \in [Goroutines -> Labels] /\ OneCloser
    BY DEF ResourcesInv, Types, CallTypes
  <2>2. Moves(g)
    BY <1>2, EveryStepMoves
  <2>3. active = 0 => pc[g] \in {"idle"} \cup Closing
    BY NobodyOperates DEF ResourcesInv
  <2> QED BY <2>1, <2>2, <2>3 DEF Moves, OneCloser, Closing, Destroying
<1> QED BY <1>1, <1>2 DEF Next

LEMMA NobodyCalls ==
    ASSUME Account, OneCloser, Destroying
    PROVE  \A g \in Goroutines : pc[g] \in {"idle"} \cup Closing
BY NobodyOperates DEF OneCloser

\* A step of a call that has its resource for itself changes nothing for the others.
Apart(g) ==
    /\ pc[g] \in Exclusive
    /\ \A h \in Goroutines \ {g} : pc'[h] = pc[h] /\ op'[h] = op[h]
    /\ \A x \in Resources \ {op[g][2]} : life'[x] = life[x] /\ native'[x] = native[x]
    /\ \A s \in Sets \ {op[g][2]} : buffers'[s] = buffers[s]
    /\ UNCHANGED recState

LEMMA OthersGoOn ==
    ASSUME ResourcesInv, NEW g \in Goroutines, Apart(g), NEW h \in Goroutines \ {g}
    PROVE  CallFits(h)' /\ BuiltBy(h)' /\ BoundBy(h)'
<1> USE DEF Apart, ResourcesInv, CallsFit, Creating, Using, Exclusive
<1>1. pc[h] \in Exclusive => op[h][2] # op[g][2]
  BY DEF OneCall
<1>2. pc'[h] = pc[h] /\ op'[h] = op[h]
  OBVIOUS
<1>3. CallFits(h)'
  BY <1>1, <1>2 DEF CallFits, Resources
<1>4. CallFits(h) /\ BuiltBy(h) /\ BoundBy(h)
  BY DEF Built, Bound
<1>5. pc[h] \in Exclusive => op[h][2] \in Resources
  BY <1>4 DEF CallFits, Resources
<1>6. BuiltBy(h)'
  BY <1>1, <1>2, <1>4, <1>5 DEF BuiltBy, Intact, Natives
<1>7. BoundBy(h)'
  BY <1>1, <1>2, <1>4 DEF BoundBy, CallFits
<1> QED BY <1>3, <1>6, <1>7

\* A call finds its resource as it left it.
LEMMA CallsFitKept ==
    ASSUME ResourcesInv, [Next]_vars
    PROVE  CallsFit'
<1> USE DEF ResourcesInv, deviceVars, countVars, recVars, Types, LifeTypes, CallTypes,
    RecorderTypes, CallsFit, CallFits, Creating, Using, Closing, OneCall, Exclusive
<1>0. CASE UNCHANGED vars
  BY <1>0 DEF vars
<1> SUFFICES ASSUME NEW g \in Goroutines, Call(g) \/ Step(g) PROVE CallsFit'
  BY <1>0 DEF Next
<1>1. ASSUME NEW x \in Resources, Create(g, x) PROVE CallsFit'
  BY <1>1, ResourcesAssumption DEF Create, Begin, Become
<1>2. ASSUME NEW x \in Resources, CloseUnheld(g, x) PROVE CallsFit'
  BY <1>2, ResourcesAssumption DEF CloseUnheld, AtOnce, DestroyNatives, Become
<1>3. ASSUME NEW s \in Sets, NewBindings(g, s) PROVE CallsFit'
  BY <1>3, ResourcesAssumption DEF NewBindings, Begin, Become, Resources
<1>4. ASSUME NEW s \in Sets, CloseSet(g, s) PROVE CallsFit'
  BY <1>4, ResourcesAssumption DEF CloseSet, Unused, Begin, DestroyNatives, Become, Resources
<1>5. ASSUME NEW s \in Sets, DispatchAndWait(g, s) PROVE CallsFit'
  BY <1>5, ResourcesAssumption DEF DispatchAndWait, Begin
<1>6. ASSUME NEW r \in Recorders, Submit(g, r) PROVE CallsFit'
  BY <1>6, ResourcesAssumption DEF Submit, Begin
<1>7. ASSUME NEW r \in Recorders, FinishRecorder(g, r) PROVE CallsFit'
  <2>1. /\ life[r] = "live" /\ \A h \in Goroutines : pc[h] = "submit" => op[h][2] # r
        /\ recState' = [recState EXCEPT ![r] = "done"] /\ life' = life
        /\ pc' = [pc EXCEPT ![g] = "sets"] /\ op' = [op EXCEPT ![g] = <<"finish", r>>]
    BY <1>7 DEF FinishRecorder, Begin, Unlocked
  <2>2. CallFits(g)'
    BY <2>1 DEF CallFits
  <2>3. ASSUME NEW h \in Goroutines \ {g}
        PROVE  CallFits(h)'
    <3>1. CallFits(h) /\ pc'[h] = pc[h] /\ op'[h] = op[h]
      BY <2>1
    <3>2. recState \in [Recorders -> {"recording", "submitted", "unknown", "done"}]
      OBVIOUS
    <3> QED BY ONLY <2>1, <3>1, <3>2 DEF CallFits
  <2> QED BY <2>2, <2>3
<1>8. ASSUME NEW r \in Recorders, LoseRecorder(g, r) PROVE CallsFit'
  BY <1>8, ResourcesAssumption DEF LoseRecorder, AtOnce
<1>9. ASSUME NEW r \in Recorders, NEW s \in Sets, Dispatch(g, r, s) PROVE CallsFit'
  BY <1>9, ResourcesAssumption DEF Dispatch, AtOnce
<1>10. ASSUME CloseDevice(g) PROVE CallsFit'
  BY <1>10, ResourcesAssumption DEF CloseDevice
<1>11. ASSUME CreateNative(g) PROVE CallsFit'
  <2>1. Apart(g)
    BY <1>11 DEF CreateNative, FailCreation, Goto, End, DestroyNatives, Become, Apart,
        Exclusive, CountTypes
  <2>2. CallFits(g)'
    BY <1>11, ResourcesAssumption DEF CreateNative, FailCreation, Goto, End, DestroyNatives,
        Become
  <2> QED BY <2>1, <2>2, OthersGoOn
<1>12. ASSUME AddChild(g) PROVE CallsFit'
  <2>1. Apart(g)
    BY <1>12 DEF AddChild, FailCreation, Goto, End, DestroyNatives, Become, Apart, Exclusive,
        CountTypes
  <2>2. CallFits(g)'
    BY <1>12, ResourcesAssumption DEF AddChild, FailCreation, Goto, End, DestroyNatives, Become
  <2> QED BY <2>1, <2>2, OthersGoOn
<1>13. ASSUME RetainKernel(g) PROVE CallsFit'
  <2>1. Apart(g)
    BY <1>13 DEF RetainKernel, Goto, End, Become, Apart, Exclusive, CountTypes
  <2>2. CallFits(g)'
    BY <1>13, ResourcesAssumption DEF RetainKernel, Goto, End, Become
  <2> QED BY <2>1, <2>2, OthersGoOn
<1>14. ASSUME RetainBuffer(g) PROVE CallsFit'
  <2>1. /\ UNCHANGED <<op, life, recState>> /\ pc[g] = "buffers"
        /\ \E l \in {"unwind", "native", "buffers"} : pc' = [pc EXCEPT ![g] = l]
    BY <1>14 DEF RetainBuffer, Goto
  <2>2. CallsFit /\ pc \in [Goroutines -> Labels]
    OBVIOUS
  <2> QED BY ONLY <2>1, <2>2 DEF CallsFit, CallFits, Creating, Using
<1>15. ASSUME ReleaseBuffer(g) PROVE CallsFit'
  BY <1>15, ResourcesAssumption DEF ReleaseBuffer
<1>16. ASSUME EndRelease(g) PROVE CallsFit'
  BY <1>16, ResourcesAssumption DEF EndRelease, ReleaseKernel, Become, End
<1>17. ASSUME SubmitDispatch(g) PROVE CallsFit'
  BY <1>17, ResourcesAssumption DEF SubmitDispatch, Goto
<1>18. ASSUME WaitForDispatch(g) PROVE CallsFit'
  BY <1>18, ResourcesAssumption DEF WaitForDispatch, Goto, End
<1>19. ASSUME Cleanup(g) PROVE CallsFit'
  BY <1>19, ResourcesAssumption DEF Cleanup, End
<1>20. ASSUME ReleaseSet(g) PROVE CallsFit'
  <2>1. Apart(g)
    BY <1>20 DEF ReleaseSet, Become, End, Apart, Exclusive, CountTypes
  <2>2. CallFits(g)'
    BY <1>20, ResourcesAssumption DEF ReleaseSet, Become, End
  <2> QED BY <2>1, <2>2, OthersGoOn
<1>21. ASSUME Drain(g) PROVE CallsFit'
  BY <1>21, ResourcesAssumption DEF Drain
<1>22. ASSUME CloseChild(g) PROVE CallsFit'
  <2>1. pc' = pc /\ \A h \in Goroutines : pc[h] \in {"idle"} \cup Closing
    BY <1>22, NobodyCalls DEF CloseChild, Destroying
  <2> QED BY <2>1
<1>23. ASSUME EndClose(g) PROVE CallsFit'
  BY <1>23, ResourcesAssumption DEF EndClose
<1>24. ASSUME ReserveDispatch(g) PROVE CallsFit'
  BY <1>24, ResourcesAssumption DEF ReserveDispatch, Goto
<1>25. ASSUME ReserveBatch(g) PROVE CallsFit'
  <2>1. PICK r \in Recorders : r = op[g][2] /\ life[r] = "live" /\ pc[g] = "submit"
    BY <1>25 DEF ReserveBatch
  <2>2. /\ life' = life
        /\ \/ /\ pc' = [pc EXCEPT ![g] = "idle"]
              /\ \E q \in {"submitted", "unknown"} : recState' = [recState EXCEPT ![r] = q]
           \/ /\ pc' = [pc EXCEPT ![g] = "sets"] /\ op'[g] = <<"finish", r>>
              /\ recState' = [recState EXCEPT ![r] = "done"]
        /\ \A h \in Goroutines \ {g} : pc'[h] = pc[h] /\ op'[h] = op[h]
    BY <1>25, <2>1 DEF ReserveBatch, End
  <2>3. CallFits(g)'
    BY <2>1, <2>2 DEF CallFits
  <2>4. ASSUME NEW h \in Goroutines \ {g}
        PROVE  CallFits(h)'
    <3>1. CallFits(h) /\ (pc[h] \in Exclusive => op[h][2] # r)
      BY <2>1
    <3>2. recState \in [Recorders -> {"recording", "submitted", "unknown", "done"}]
      OBVIOUS
    <3> QED BY ONLY <2>2, <3>1, <3>2 DEF CallFits, Exclusive
  <2> QED BY <2>3, <2>4
<1> QED BY <1>1, <1>2, <1>3, <1>4, <1>5, <1>6, <1>7, <1>8, <1>9, <1>10, <1>11, <1>12, <1>13,
    <1>14, <1>15, <1>16, <1>17, <1>18, <1>19, <1>20, <1>21, <1>22, <1>23, <1>24, <1>25
        DEF Call, Step

\* A resource is created, closed or finished by one call at a time: its state says so to the others.
LEMMA OneCallKept ==
    ASSUME ResourcesInv, [Next]_vars
    PROVE  OneCall'
<1> USE DEF ResourcesInv, deviceVars, countVars, recVars, Types, LifeTypes, CallTypes,
    RecorderTypes, CallsFit, CallFits, Creating, Using, Closing, OneCall, Exclusive
<1>0. CASE UNCHANGED vars
  BY <1>0 DEF vars
<1> SUFFICES ASSUME NEW g \in Goroutines, Call(g) \/ Step(g) PROVE OneCall'
  BY <1>0 DEF Next
<1>1. ASSUME NEW x \in Resources, Create(g, x) PROVE OneCall'
  BY <1>1, ResourcesAssumption DEF Create, Begin, Become
<1>2. ASSUME NEW x \in Resources, CloseUnheld(g, x) PROVE OneCall'
  BY <1>2, ResourcesAssumption DEF CloseUnheld, AtOnce, DestroyNatives, Become
<1>3. ASSUME NEW s \in Sets, NewBindings(g, s) PROVE OneCall'
  <2>1. /\ life[s] = "none" /\ s \notin Recorders
        /\ pc' = [pc EXCEPT ![g] = "kernel"] /\ op' = [op EXCEPT ![g] = <<"create", s>>]
    BY <1>3, ResourcesAssumption DEF NewBindings, Begin
  <2>2. \A h \in Goroutines : pc[h] \in Exclusive => op[h][2] # s
    BY <2>1
  <2>3. /\ op'[g][2] = s
        /\ \A h \in Goroutines \ {g} : pc'[h] = pc[h] /\ op'[h] = op[h]
    BY <2>1
  <2>4. OneCall
    OBVIOUS
  <2> QED BY ONLY <2>2, <2>3, <2>4 DEF OneCall
<1>4. ASSUME NEW s \in Sets, CloseSet(g, s) PROVE OneCall'
  <2>1. /\ life[s] = "live" /\ s \notin Recorders
        /\ pc' = [pc EXCEPT ![g] = "unwind"] /\ op' = [op EXCEPT ![g] = <<"close", s>>]
    BY <1>4, ResourcesAssumption DEF CloseSet, Begin
  <2>2. \A h \in Goroutines : pc[h] \in Exclusive => op[h][2] # s
    BY <2>1
  <2>3. /\ op'[g][2] = s
        /\ \A h \in Goroutines \ {g} : pc'[h] = pc[h] /\ op'[h] = op[h]
    BY <2>1
  <2>4. OneCall
    OBVIOUS
  <2> QED BY ONLY <2>2, <2>3, <2>4 DEF OneCall
<1>5. ASSUME NEW s \in Sets, DispatchAndWait(g, s) PROVE OneCall'
  BY <1>5, ResourcesAssumption DEF DispatchAndWait, Begin
<1>6. ASSUME NEW r \in Recorders, Submit(g, r) PROVE OneCall'
  <2>1. /\ recState[r] # "done" /\ life[r] = "live" /\ r \notin Sets /\ Unlocked(r)
        /\ pc' = [pc EXCEPT ![g] = "submit"] /\ op' = [op EXCEPT ![g] = <<"submit", r>>]
    BY <1>6, ResourcesAssumption DEF Submit, Begin
  <2>2. \A h \in Goroutines : pc[h] \in Exclusive => op[h][2] # r
    BY <2>1 DEF Unlocked
  <2>3. /\ op'[g][2] = r
        /\ \A h \in Goroutines \ {g} : pc'[h] = pc[h] /\ op'[h] = op[h]
    BY <2>1
  <2>4. OneCall
    OBVIOUS
  <2> QED BY ONLY <2>2, <2>3, <2>4 DEF OneCall
<1>7. ASSUME NEW r \in Recorders, FinishRecorder(g, r) PROVE OneCall'
  <2>1. /\ recState[r] # "done" /\ life[r] = "live" /\ r \notin Sets /\ Unlocked(r)
        /\ pc' = [pc EXCEPT ![g] = "sets"] /\ op' = [op EXCEPT ![g] = <<"finish", r>>]
    BY <1>7, ResourcesAssumption DEF FinishRecorder, Begin
  <2>2. \A h \in Goroutines : pc[h] \in Exclusive => op[h][2] # r
    BY <2>1 DEF Unlocked
  <2>3. /\ op'[g][2] = r
        /\ \A h \in Goroutines \ {g} : pc'[h] = pc[h] /\ op'[h] = op[h]
    BY <2>1
  <2>4. OneCall
    OBVIOUS
  <2> QED BY ONLY <2>2, <2>3, <2>4 DEF OneCall
<1>8. ASSUME NEW r \in Recorders, LoseRecorder(g, r) PROVE OneCall'
  BY <1>8, ResourcesAssumption DEF LoseRecorder, AtOnce
<1>9. ASSUME NEW r \in Recorders, NEW s \in Sets, Dispatch(g, r, s) PROVE OneCall'
  BY <1>9, ResourcesAssumption DEF Dispatch, AtOnce
<1>10. ASSUME CloseDevice(g) PROVE OneCall'
  BY <1>10, ResourcesAssumption DEF CloseDevice
<1>11. ASSUME CreateNative(g) PROVE OneCall'
  BY <1>11, ResourcesAssumption DEF CreateNative, FailCreation, Goto, End, DestroyNatives,
      Become
<1>12. ASSUME AddChild(g) PROVE OneCall'
  BY <1>12, ResourcesAssumption DEF AddChild, FailCreation, Goto, End, DestroyNatives, Become
<1>13. ASSUME RetainKernel(g) PROVE OneCall'
  BY <1>13, ResourcesAssumption DEF RetainKernel, Goto, End, Become
<1>14. ASSUME RetainBuffer(g) PROVE OneCall'
  <2>1. op' = op /\ pc[g] = "buffers" /\ \A h \in Goroutines \ {g} : pc'[h] = pc[h]
    BY <1>14 DEF RetainBuffer, Goto
  <2>2. OneCall
    OBVIOUS
  <2> QED BY ONLY <2>1, <2>2 DEF OneCall, Exclusive
<1>15. ASSUME ReleaseBuffer(g) PROVE OneCall'
  BY <1>15, ResourcesAssumption DEF ReleaseBuffer
<1>16. ASSUME EndRelease(g) PROVE OneCall'
  BY <1>16, ResourcesAssumption DEF EndRelease, ReleaseKernel, Become, End
<1>17. ASSUME SubmitDispatch(g) PROVE OneCall'
  BY <1>17, ResourcesAssumption DEF SubmitDispatch, Goto
<1>18. ASSUME WaitForDispatch(g) PROVE OneCall'
  BY <1>18, ResourcesAssumption DEF WaitForDispatch, Goto, End
<1>19. ASSUME Cleanup(g) PROVE OneCall'
  BY <1>19, ResourcesAssumption DEF Cleanup, End
<1>20. ASSUME ReleaseSet(g) PROVE OneCall'
  BY <1>20, ResourcesAssumption DEF ReleaseSet, Become, End
<1>21. ASSUME Drain(g) PROVE OneCall'
  BY <1>21, ResourcesAssumption DEF Drain
<1>22. ASSUME CloseChild(g) PROVE OneCall'
  BY <1>22, ResourcesAssumption DEF CloseChild, CloseSetFromDevice, CloseRecorderFromDevice,
      DestroyNatives, Become
<1>23. ASSUME EndClose(g) PROVE OneCall'
  BY <1>23, ResourcesAssumption DEF EndClose
<1>24. ASSUME ReserveDispatch(g) PROVE OneCall'
  BY <1>24, ResourcesAssumption DEF ReserveDispatch, Goto
<1>25. ASSUME ReserveBatch(g) PROVE OneCall'
  BY <1>25, ResourcesAssumption DEF ReserveBatch, End, DestroyNatives
<1> QED BY <1>1, <1>2, <1>3, <1>4, <1>5, <1>6, <1>7, <1>8, <1>9, <1>10, <1>11, <1>12, <1>13,
    <1>14, <1>15, <1>16, <1>17, <1>18, <1>19, <1>20, <1>21, <1>22, <1>23, <1>24, <1>25
        DEF Call, Step

----------------------------------------------------------------------------
(* Native objects, and the counts. *)

\* Nor for the other resources.
LEMMA OthersStay ==
    ASSUME ResourcesInv, NEW g \in Goroutines, Apart(g)
    PROVE  /\ \A x \in Resources \ {op[g][2]} : BuiltAs(x)'
           /\ \A s \in Sets \ {op[g][2]} : BoundTo(s)'
<1> USE DEF Apart, ResourcesInv
<1>1. ASSUME NEW x \in Resources \ {op[g][2]}
      PROVE  BuiltAs(x)'
  <2>1. BuiltAs(x)
    BY DEF Built
  <2>2. ASSUME NEW h \in Goroutines, pc[h] \in {"native", "addChild"}, op[h][2] = x
        PROVE  pc'[h] = pc[h] /\ op'[h] = op[h]
    BY <2>2
  <2> QED BY <2>1, <2>2 DEF BuiltAs, Finished, Intact, Natives
<1>2. ASSUME NEW s \in Sets \ {op[g][2]}
      PROVE  BoundTo(s)'
  BY DEF Bound, BoundTo, Resources
<1> QED BY <1>1, <1>2

\* So what its own resource becomes is all there is to see.
LEMMA BuiltAround ==
    ASSUME ResourcesInv, NEW g \in Goroutines, Apart(g), BuiltBy(g)',
           NEW x \in Resources, x = op[g][2], BuiltAs(x)'
    PROVE  Built'
<1>1. \A y \in Resources : BuiltAs(y)'
  BY OthersStay
<1>2. \A h \in Goroutines : BuiltBy(h)'
  BY OthersGoOn
<1> QED BY <1>1, <1>2 DEF Built

\* A creation that fails leaves nothing.
LEMMA FailureBuilt ==
    ASSUME ResourcesInv, NEW g \in Goroutines, pc[g] \in {"native", "addChild"},
           FailCreation(g, op[g][2]), UNCHANGED <<buffers, recState>>
    PROVE  Built'
<1> USE DEF ResourcesInv, Types, LifeTypes, CallTypes
<1>1. PICK x \in Resources : x = op[g][2] /\ life[x] = "creating"
  BY DEF CallsFit, CallFits, Creating
<1>2. /\ native' = [native EXCEPT ![x] = 0]
      /\ \/ life' = life /\ pc' = [pc EXCEPT ![g] = "unwind"] /\ op' = op
         \/ /\ life' = [life EXCEPT ![x] = "failed"]
            /\ pc' = [pc EXCEPT ![g] = "idle"] /\ op' = [op EXCEPT ![g] = << >>]
  BY <1>1 DEF FailCreation, Goto, End, DestroyNatives, Become
<1>3. Apart(g)
  BY <1>1, <1>2 DEF Apart, Exclusive, Creating
<1>4. native'[x] = 0 /\ life'[x] \in {"creating", "failed"}
  BY <1>1, <1>2
<1>5. BuiltAs(x)'
  BY <1>4 DEF BuiltAs
<1>6. BuiltBy(g)'
  BY <1>1, <1>2, <1>4 DEF BuiltBy
<1> QED BY <1>1, <1>3, <1>5, <1>6, BuiltAround

\* What other calls do with their resources.
LEMMA NothingBuilt ==
    ASSUME ResourcesInv, NEW g \in Goroutines, UNCHANGED <<life, native, recState>>,
           pc[g] \notin Exclusive, pc'[g] \notin Exclusive,
           \A h \in Goroutines \ {g} : pc'[h] = pc[h] /\ op'[h] = op[h]
    PROVE  Built'
<1> USE DEF ResourcesInv, Built, Exclusive, Creating
<1>1. ASSUME NEW x \in Resources
      PROVE  BuiltAs(x)'
  <2>1. BuiltAs(x)
    OBVIOUS
  <2>2. ASSUME NEW h \in Goroutines, pc[h] \in {"native", "addChild"}
        PROVE  pc'[h] = pc[h] /\ op'[h] = op[h]
    BY <2>2
  <2> QED BY <2>1, <2>2 DEF BuiltAs, Finished, Intact
<1>2. ASSUME NEW h \in Goroutines
      PROVE  BuiltBy(h)'
  BY DEF BuiltBy, Intact
<1> QED BY <1>1, <1>2

\* A native object exists for a live resource or for one that a goroutine is creating.
LEMMA BuiltKept ==
    ASSUME ResourcesInv, [Next]_vars
    PROVE  Built'
<1> USE DEF ResourcesInv, deviceVars, countVars, recVars, Types, LifeTypes, CallTypes,
    RecorderTypes, CallsFit, CallFits, Creating, Using, Closing, Exclusive, Built, BuiltAs,
    BuiltBy, Intact, Finished
<1>0. CASE UNCHANGED vars
  BY <1>0 DEF vars
<1> SUFFICES ASSUME NEW g \in Goroutines, Call(g) \/ Step(g) PROVE Built'
  BY <1>0 DEF Next
<1>1. ASSUME NEW x \in Resources, Create(g, x) PROVE Built'
  <2> HIDE DEF Built, BuiltAs, BuiltBy, CallsFit, CallFits
  <2>1. /\ life[x] = "none" /\ native[x] = 0 /\ pc[g] = "idle" /\ UNCHANGED <<native, recState>>
        /\ life' = [life EXCEPT ![x] = "creating"] /\ pc' = [pc EXCEPT ![g] = "native"]
        /\ op' = [op EXCEPT ![g] = <<"create", x>>]
    BY <1>1 DEF Create, Begin, Become, Built, BuiltAs
  <2>2. ASSUME NEW h \in Goroutines \ {g} PROVE BuiltBy(h)'
    BY <2>1 DEF Built, BuiltBy, Intact, Natives
  <2>3. BuiltBy(g)'
    BY <2>1, NativesCount DEF BuiltBy, Natives
  <2>4. \A y \in Resources : BuiltAs(y)'
    BY <2>1 DEF Built, BuiltAs, Finished, Intact, Natives
  <2> QED BY <2>2, <2>3, <2>4 DEF Built
<1>2. ASSUME NEW x \in Resources, CloseUnheld(g, x) PROVE Built'
  BY <1>2, ResourcesAssumption, NativesCount DEF CloseUnheld, AtOnce, DestroyNatives, Become
<1>3. ASSUME NEW s \in Sets, NewBindings(g, s) PROVE Built'
  <2> HIDE DEF Built, BuiltAs, BuiltBy, CallsFit, CallFits
  <2>1. s \in Resources /\ life[s] = "none" /\ pc[g] = "idle"
    BY <1>3 DEF NewBindings, Begin, Become, Resources
  <2>2. \A h \in Goroutines : BuiltBy(h)'
    BY <1>3, <2>1, ResourcesAssumption DEF NewBindings, Begin, Become, Built, BuiltBy, BuiltAs,
        Intact, CallsFit, CallFits
  <2>3. \A x \in Resources : BuiltAs(x)'
    BY <1>3, <2>1 DEF NewBindings, Begin, Become, Built, BuiltAs, Intact, Natives
  <2> QED BY <2>2, <2>3 DEF Built
<1>4. ASSUME NEW s \in Sets, CloseSet(g, s) PROVE Built'
  <2> HIDE DEF Built, BuiltAs, BuiltBy, CallsFit, CallFits
  <2>1. s \in Resources /\ life[s] = "live" /\ pc[g] = "idle"
    BY <1>4 DEF CloseSet, Begin, Become, DestroyNatives, Resources
  <2>2. \A h \in Goroutines : BuiltBy(h)'
    BY <1>4, <2>1, ResourcesAssumption DEF CloseSet, Begin, Become, DestroyNatives, Built,
        BuiltBy, BuiltAs, Intact, CallsFit, CallFits
  <2>3. \A x \in Resources : BuiltAs(x)'
    BY <1>4, <2>1 DEF CloseSet, Begin, Become, DestroyNatives, Built, BuiltAs, Intact, Natives
  <2> QED BY <2>2, <2>3 DEF Built
<1>5. ASSUME NEW s \in Sets, DispatchAndWait(g, s) PROVE Built'
  BY <1>5, ResourcesAssumption, NativesCount DEF DispatchAndWait, Begin
<1>6. ASSUME NEW r \in Recorders, Submit(g, r) PROVE Built'
  BY <1>6, ResourcesAssumption, NativesCount DEF Submit, Begin
<1>7. ASSUME NEW r \in Recorders, FinishRecorder(g, r) PROVE Built'
  <2> HIDE DEF Built, BuiltAs, BuiltBy, CallsFit, CallFits
  <2>1. r \in Resources /\ pc[g] = "idle"
    BY <1>7 DEF FinishRecorder, Begin, Resources
  <2>2. \A h \in Goroutines : BuiltBy(h)'
    BY <1>7, <2>1 DEF FinishRecorder, Begin, DestroyNatives, Built, BuiltBy, Intact, CallsFit,
        CallFits
  <2>3. \A x \in Resources : BuiltAs(x)'
    BY <1>7, <2>1 DEF FinishRecorder, Begin, DestroyNatives, Built, BuiltAs, Intact
  <2> QED BY <2>2, <2>3 DEF Built
<1>8. ASSUME NEW r \in Recorders, LoseRecorder(g, r) PROVE Built'
  BY <1>8, ResourcesAssumption, NativesCount DEF LoseRecorder, AtOnce
<1>9. ASSUME NEW r \in Recorders, NEW s \in Sets, Dispatch(g, r, s) PROVE Built'
  BY <1>9, ResourcesAssumption, NativesCount DEF Dispatch, AtOnce
<1>10. ASSUME CloseDevice(g) PROVE Built'
  BY <1>10, ResourcesAssumption, NativesCount DEF CloseDevice
<1>11. ASSUME CreateNative(g) PROVE Built'
  <2>1. PICK x \in Resources :
        /\ x = op[g][2] /\ life[x] = "creating" /\ pc[g] = "native"
        /\ native[x] < Natives(x) /\ Natives(x) \in Nat
    BY <1>11, NativesCount DEF CreateNative
  <2>2. CASE FailCreation(g, op[g][2])
    BY <1>11, <2>1, <2>2, FailureBuilt DEF CreateNative
  <2>3. CASE /\ native' = [native EXCEPT ![op[g][2]] = @ + 1]
             /\ Goto(g, IF native[op[g][2]] + 1 = Natives(op[g][2]) THEN "addChild" ELSE "native")
             /\ UNCHANGED <<life, children>>
    <3> HIDE DEF Built, BuiltAs, BuiltBy, CallsFit, CallFits
    <3>1. /\ native'[x] = native[x] + 1 /\ life'[x] = "creating"
          /\ pc'[g] = IF native[x] + 1 = Natives(x) THEN "addChild" ELSE "native"
          /\ op'[g][2] = x
      BY <2>1, <2>3 DEF Goto
    <3>2. Apart(g)
      BY <1>11, <2>1, <2>3 DEF CreateNative, Goto, Apart
    <3>3. BuiltAs(x)'
      BY <3>1 DEF BuiltAs
    <3>4. BuiltBy(g)'
      BY <2>1, <3>1 DEF BuiltBy, Natives
    <3> QED BY <3>2, <3>3, <3>4, <2>1, BuiltAround
  <2> QED BY <1>11, <2>2, <2>3 DEF CreateNative
<1>12. ASSUME AddChild(g) PROVE Built'
  <2>1. PICK x \in Resources : x = op[g][2] /\ life[x] = "creating" /\ pc[g] = "addChild" /\ Intact(x)
    BY <1>12 DEF AddChild
  <2>2. CASE FailCreation(g, op[g][2])
    BY <1>12, <2>1, <2>2, FailureBuilt DEF AddChild
  <2>3. CASE Become(op[g][2], "live") /\ End(g) /\ UNCHANGED native
    <3> HIDE DEF Built, BuiltAs, BuiltBy, CallsFit, CallFits
    <3>1. Apart(g)
      BY <1>12, <2>1, <2>3 DEF AddChild, Become, End, Apart
    <3>2. life'[x] = "live" /\ Intact(x)' /\ pc'[g] = "idle"
      BY <2>1, <2>3 DEF Become, End, Natives
    <3>3. BuiltAs(x)' /\ BuiltBy(g)'
      BY <3>2 DEF BuiltAs, BuiltBy
    <3> QED BY <3>1, <3>3, <2>1, BuiltAround
  <2> QED BY <1>12, <2>2, <2>3 DEF AddChild
<1>13. ASSUME RetainKernel(g) PROVE Built'
  <2>1. PICK s \in Resources : s = op[g][2] /\ s \in Sets /\ life[s] = "creating" /\ pc[g] = "kernel" /\ native[s] = 0
    BY <1>13 DEF RetainKernel
  <2> HIDE DEF Built, BuiltAs, BuiltBy, CallsFit, CallFits
  <2>2. /\ native' = native /\ life'[s] \in {"creating", "failed"}
        /\ pc'[g] \in {"idle", "buffers"} /\ (pc'[g] = "buffers" => op'[g][2] = s)
    BY <1>13, <2>1 DEF RetainKernel, Become, End, Goto
  <2>3. Apart(g)
    BY <1>13, <2>1 DEF RetainKernel, Become, End, Goto, Apart
  <2>4. BuiltAs(s)' /\ BuiltBy(g)'
    BY <2>1, <2>2 DEF BuiltAs, BuiltBy
  <2> QED BY <2>3, <2>4, <2>1, BuiltAround
<1>14. ASSUME RetainBuffer(g) PROVE Built'
  <2>1. PICK s \in Resources : s = op[g][2] /\ s \in Sets /\ life[s] = "creating" /\ pc[g] = "buffers" /\ native[s] = 0
    BY <1>14 DEF RetainBuffer
  <2> HIDE DEF Built, BuiltAs, BuiltBy, CallsFit, CallFits
  <2>2. native' = native /\ life' = life /\ pc'[g] \in {"unwind", "native", "buffers"} /\ op' = op
    BY <1>14, <2>1 DEF RetainBuffer, Goto
  <2>3. Apart(g)
    BY <1>14, <2>1 DEF RetainBuffer, Goto, Apart, CountTypes
  <2>4. BuiltAs(s)'
    BY <2>1, <2>2 DEF BuiltAs
  <2>5. native[s] < Natives(s)
    BY <2>1, NativesCount
  <2>6. BuiltBy(g)'
    BY <2>1, <2>2, <2>5 DEF BuiltBy, Natives
  <2> QED BY <2>3, <2>4, <2>6, <2>1, BuiltAround
<1>15. ASSUME ReleaseBuffer(g) PROVE Built'
  BY <1>15, ResourcesAssumption, NativesCount DEF ReleaseBuffer
<1>16. ASSUME EndRelease(g) PROVE Built'
  BY <1>16, ResourcesAssumption, NativesCount DEF EndRelease, ReleaseKernel, Become, End
<1>17. ASSUME SubmitDispatch(g) PROVE Built'
  <2>1. /\ UNCHANGED <<life, native, recState>> /\ pc[g] \notin Exclusive /\ pc'[g] \notin Exclusive
        /\ \A h \in Goroutines \ {g} : pc'[h] = pc[h] /\ op'[h] = op[h]
    BY <1>17 DEF SubmitDispatch, Goto
  <2>2. ResourcesInv
    OBVIOUS
  <2> QED BY ONLY <2>1, <2>2, NothingBuilt
<1>18. ASSUME WaitForDispatch(g) PROVE Built'
  <2>1. /\ UNCHANGED <<life, native, recState>> /\ pc[g] \notin Exclusive /\ pc'[g] \notin Exclusive
        /\ \A h \in Goroutines \ {g} : pc'[h] = pc[h] /\ op'[h] = op[h]
    BY <1>18 DEF WaitForDispatch, Goto, End
  <2>2. ResourcesInv
    OBVIOUS
  <2> QED BY ONLY <2>1, <2>2, NothingBuilt
<1>19. ASSUME Cleanup(g) PROVE Built'
  BY <1>19, ResourcesAssumption, NativesCount DEF Cleanup, End
<1>20. ASSUME ReleaseSet(g) PROVE Built'
  <2>1. PICK r \in Resources : r = op[g][2] /\ r \in Recorders /\ recState[r] = "done" /\ native[r] = 0 /\ pc[g] = "sets"
    BY <1>20 DEF ReleaseSet, Resources
  <2> HIDE DEF Built, BuiltAs, BuiltBy, CallsFit, CallFits
  <2>2. native' = native /\ recState' = recState /\ (End(g) \/ UNCHANGED <<pc, op>>)
    BY <1>20 DEF ReleaseSet
  <2>3. Apart(g)
    BY <1>20, <2>1 DEF ReleaseSet, Become, End, Apart
  <2>4. BuiltAs(r)' /\ BuiltBy(g)'
    BY <2>1, <2>2 DEF BuiltAs, BuiltBy, Finished, End
  <2> QED BY <2>3, <2>4, <2>1, BuiltAround
<1>21. ASSUME Drain(g) PROVE Built'
  BY <1>21, ResourcesAssumption, NativesCount DEF Drain
<1>22. ASSUME CloseChild(g) PROVE Built'
  <2> HIDE DEF Built, BuiltAs, BuiltBy, CallsFit, CallFits
  <2> DEFINE c == Last(closeList)
  <2>1. pc' = pc /\ op' = op /\ \A h \in Goroutines : pc[h] \in {"idle"} \cup Closing
    BY <1>22, NobodyCalls DEF CloseChild, Destroying
  <2>2. c \in Resources
    BY <1>22, LastAndFront DEF CloseChild, DeviceTypes
  <2>3. \/ UNCHANGED <<life, native, recState>>
        \/ /\ native' = [native EXCEPT ![c] = 0] /\ life' = [life EXCEPT ![c] = "closed"]
           /\ \A r \in Recorders \ {c} : recState'[r] = recState[r]
    BY <1>22, <2>2 DEF CloseChild, CloseSetFromDevice, CloseRecorderFromDevice, DestroyNatives,
        Become
  <2> HIDE DEF c
  <2>4. \A h \in Goroutines : BuiltBy(h)'
    BY <2>1 DEF BuiltBy
  <2>5. \A x \in Resources : BuiltAs(x)'
    BY <2>1, <2>2, <2>3 DEF Built, BuiltAs, Finished, Intact, Natives
  <2> QED BY <2>4, <2>5 DEF Built
<1>23. ASSUME EndClose(g) PROVE Built'
  BY <1>23, ResourcesAssumption, NativesCount DEF EndClose
<1>24. ASSUME ReserveDispatch(g) PROVE Built'
  <2>1. /\ UNCHANGED <<life, native, recState>> /\ pc[g] \notin Exclusive /\ pc'[g] \notin Exclusive
        /\ \A h \in Goroutines \ {g} : pc'[h] = pc[h] /\ op'[h] = op[h]
    BY <1>24 DEF ReserveDispatch, Goto
  <2>2. ResourcesInv
    OBVIOUS
  <2> QED BY ONLY <2>1, <2>2, NothingBuilt
<1>25. ASSUME ReserveBatch(g) PROVE Built'
  <2>1. PICK r \in Recorders :
            r = op[g][2] /\ pc[g] = "submit" /\ life[r] = "live" /\ recState[r] = "recording"
    BY <1>25 DEF ReserveBatch
  <2> HIDE DEF Built, BuiltAs, BuiltBy, CallsFit, CallFits
  <2>2. /\ life' = life /\ r \in Resources
        /\ \/ /\ native' = native /\ pc' = [pc EXCEPT ![g] = "idle"]
              /\ recState' \in {[recState EXCEPT ![r] = "submitted"], [recState EXCEPT ![r] = "unknown"]}
           \/ /\ native' = [native EXCEPT ![r] = 0] /\ pc' = [pc EXCEPT ![g] = "sets"]
              /\ recState' = [recState EXCEPT ![r] = "done"]
        /\ op'[g] = <<"finish", r>> \/ pc'[g] = "idle"
        /\ \A h \in Goroutines \ {g} : op'[h] = op[h]
    BY <1>25, <2>1 DEF ReserveBatch, End, DestroyNatives, Resources
  <2>3. ASSUME NEW h \in Goroutines \ {g}
        PROVE  BuiltBy(h)'
    <3>1. BuiltBy(h) /\ pc'[h] = pc[h] /\ op'[h] = op[h]
      BY <2>2 DEF Built
    <3>2. pc[h] \in Exclusive => op[h][2] # r /\ op[h][2] \in Resources
      BY <2>1 DEF OneCall, CallsFit, CallFits, Resources
    <3>3. pc[h] \in Exclusive => native'[op[h][2]] = native[op[h][2]]
      BY <2>2, <3>2
    <3> QED BY ONLY <3>1, <3>3 DEF BuiltBy, Intact, Natives, Exclusive, Creating
  <2>4. BuiltBy(g)'
    BY <2>1, <2>2 DEF BuiltBy
  <2>5. ASSUME NEW x \in Resources \ {r}
        PROVE  BuiltAs(x)'
    <3>1. /\ BuiltAs(x) /\ life'[x] = life[x] /\ native'[x] = native[x]
          /\ (x \in Recorders => recState'[x] = recState[x])
      BY <2>2 DEF Built
    <3>2. \A h \in Goroutines : pc[h] \in {"native", "addChild"} => pc'[h] = pc[h] /\ op'[h] = op[h]
      BY <2>1, <2>2
    <3> QED BY ONLY <3>1, <3>2 DEF BuiltAs, Finished, Intact, Natives
  <2>6. BuiltAs(r)'
    <3>1. native[r] = Natives(r)
      BY <2>1, <2>2 DEF Built, BuiltAs, Finished, Intact
    <3> QED BY ONLY <2>1, <2>2, <3>1, Types DEF BuiltAs, Finished, Intact, Natives, Types, LifeTypes, RecorderTypes
  <2> QED BY <2>3, <2>4, <2>5, <2>6 DEF Built
<1> QED BY <1>1, <1>2, <1>3, <1>4, <1>5, <1>6, <1>7, <1>8, <1>9, <1>10, <1>11, <1>12, <1>13,
    <1>14, <1>15, <1>16, <1>17, <1>18, <1>19, <1>20, <1>21, <1>22, <1>23, <1>24, <1>25
        DEF Call, Step

\* A sequence has what is appended.
LEMMA RangeOfAppend ==
    ASSUME NEW S, NEW s \in Seq(S), NEW b \in S
    PROVE  Range(Append(s, b)) = Range(s) \cup {b}
<1> DEFINE t == Append(s, b)
<1>1. /\ t \in Seq(S) /\ Len(s) \in Nat /\ Len(t) = Len(s) + 1 /\ t[Len(s) + 1] = b
      /\ \A i \in 1..Len(s) : t[i] = s[i]
  OBVIOUS
<1> HIDE DEF t
<1>2. Range(t) = Range(s) \cup {b}
  BY <1>1 DEF Range
<1> QED BY <1>2 DEF t

\* The same for what a set binds.
LEMMA BoundAround ==
    ASSUME ResourcesInv, NEW g \in Goroutines, Apart(g), BoundBy(g)',
           NEW x, x = op[g][2], x \in Sets => BoundTo(x)'
    PROVE  Bound'
<1>1. \A s \in Sets : BoundTo(s)'
  BY OthersStay
<1>2. \A h \in Goroutines : BoundBy(h)'
  BY OthersGoOn
<1> QED BY <1>1, <1>2 DEF Bound

LEMMA NothingBound ==
    ASSUME ResourcesInv, NEW g \in Goroutines, UNCHANGED <<life, buffers>>,
           pc'[g] \notin {"native", "addChild"},
           \A h \in Goroutines \ {g} : pc'[h] = pc[h] /\ op'[h] = op[h]
    PROVE  Bound'
<1>1. \A s \in Sets : BoundTo(s)'
  BY DEF ResourcesInv, Bound, BoundTo
<1>2. ASSUME NEW h \in Goroutines
      PROVE  BoundBy(h)'
  <2>1. BoundBy(h)
    BY DEF ResourcesInv, Bound
  <2>2. CASE h = g
    BY <2>2 DEF BoundBy
  <2>3. CASE h # g
    BY <2>1, <2>3 DEF BoundBy
  <2> QED BY <2>2, <2>3
<1> QED BY <1>1, <1>2 DEF Bound

\* A set that is complete has all its bindings.
LEMMA BoundKept ==
    ASSUME ResourcesInv, [Next]_vars
    PROVE  Bound'
<1> USE DEF ResourcesInv, deviceVars, countVars, recVars, Types, LifeTypes, CallTypes,
    RecorderTypes, CallsFit, CallFits, Creating, Using, Closing, Exclusive, CountTypes, Bound,
    BoundTo, BoundBy
<1>0. CASE UNCHANGED vars
  BY <1>0 DEF vars
<1> SUFFICES ASSUME NEW g \in Goroutines, Call(g) \/ Step(g) PROVE Bound'
  BY <1>0 DEF Next
<1>1. ASSUME NEW x \in Resources, Create(g, x) PROVE Bound'
  BY <1>1, ResourcesAssumption DEF Create, Begin, Become
<1>2. ASSUME NEW x \in Resources, CloseUnheld(g, x) PROVE Bound'
  BY <1>2, ResourcesAssumption DEF CloseUnheld, AtOnce, DestroyNatives, Become
<1>3. ASSUME NEW s \in Sets, NewBindings(g, s) PROVE Bound'
  <2> HIDE DEF Bound, BoundTo, BoundBy, CallsFit, CallFits
  <2>1. s \in Resources /\ life[s] = "none" /\ pc[g] = "idle"
    BY <1>3 DEF NewBindings, Begin, Resources
  <2>2. \A h \in Goroutines : BoundBy(h)'
    <3>1. /\ buffers' = buffers /\ pc'[g] = "kernel"
          /\ \A h \in Goroutines \ {g} : pc'[h] = pc[h] /\ op'[h] = op[h]
      BY <1>3, <2>1 DEF NewBindings, Begin
    <3>2. \A h \in Goroutines : BoundBy(h)
      BY DEF Bound
    <3>3. BoundBy(g)'
      BY ONLY <3>1 DEF BoundBy
    <3>4. ASSUME NEW h \in Goroutines \ {g}
          PROVE  BoundBy(h)'
      <4>1. BoundBy(h) /\ pc'[h] = pc[h] /\ op'[h] = op[h]
        BY <3>1, <3>2
      <4> QED BY ONLY <3>1, <4>1 DEF BoundBy
    <3> QED BY <3>3, <3>4
  <2>3. \A t \in Sets : BoundTo(t)'
    BY <1>3, <2>1 DEF NewBindings, Become, Bound, BoundTo
  <2> QED BY <2>2, <2>3 DEF Bound
<1>4. ASSUME NEW s \in Sets, CloseSet(g, s) PROVE Bound'
  BY <1>4, ResourcesAssumption DEF CloseSet, Unused, Begin, DestroyNatives, Become
<1>5. ASSUME NEW s \in Sets, DispatchAndWait(g, s) PROVE Bound'
  BY <1>5, ResourcesAssumption DEF DispatchAndWait, Begin
<1>6. ASSUME NEW r \in Recorders, Submit(g, r) PROVE Bound'
  BY <1>6, ResourcesAssumption DEF Submit, Begin
<1>7. ASSUME NEW r \in Recorders, FinishRecorder(g, r) PROVE Bound'
  BY <1>7, ResourcesAssumption DEF FinishRecorder, Begin, DestroyNatives
<1>8. ASSUME NEW r \in Recorders, LoseRecorder(g, r) PROVE Bound'
  BY <1>8, ResourcesAssumption DEF LoseRecorder, AtOnce
<1>9. ASSUME NEW r \in Recorders, NEW s \in Sets, Dispatch(g, r, s) PROVE Bound'
  BY <1>9, ResourcesAssumption DEF Dispatch, AtOnce
<1>10. ASSUME CloseDevice(g) PROVE Bound'
  BY <1>10, ResourcesAssumption DEF CloseDevice
<1>11. ASSUME CreateNative(g) PROVE Bound'
  <2>1. PICK x \in Resources : x = op[g][2] /\ life[x] = "creating" /\ pc[g] = "native"
    BY <1>11 DEF CreateNative
  <2>2. x \in Sets => BoundTo(x) /\ buffers[x] = DOMAIN BuffersOf[x]
    BY <2>1
  <2> HIDE DEF Bound, BoundTo, BoundBy, CallsFit, CallFits
  <2>3. Apart(g)
    BY <1>11, <2>1 DEF CreateNative, FailCreation, Goto, End, Become, DestroyNatives, Apart
  <2>4. /\ buffers' = buffers /\ life'[x] \in {"creating", "failed"}
        /\ pc'[g] \in {"native", "addChild", "unwind", "idle"} /\ (pc'[g] # "idle" => op'[g] = op[g])
    BY <1>11, <2>1 DEF CreateNative, FailCreation, Goto, End, Become
  <2>5. (x \in Sets => BoundTo(x)') /\ BoundBy(g)'
    BY <2>1, <2>2, <2>4 DEF BoundTo, BoundBy
  <2> QED BY <2>1, <2>3, <2>5, BoundAround
<1>12. ASSUME AddChild(g) PROVE Bound'
  <2>1. PICK x \in Resources : x = op[g][2] /\ life[x] = "creating" /\ pc[g] = "addChild"
    BY <1>12 DEF AddChild
  <2>2. x \in Sets => BoundTo(x) /\ buffers[x] = DOMAIN BuffersOf[x]
    BY <2>1
  <2> HIDE DEF Bound, BoundTo, BoundBy, CallsFit, CallFits
  <2>3. Apart(g)
    BY <1>12, <2>1 DEF AddChild, FailCreation, Goto, End, Become, DestroyNatives, Apart
  <2>4. /\ buffers' = buffers /\ life'[x] \in {"creating", "failed", "live"}
        /\ pc'[g] \in {"unwind", "idle"}
    BY <1>12, <2>1 DEF AddChild, FailCreation, Goto, End, Become
  <2>5. (x \in Sets => BoundTo(x)') /\ BoundBy(g)'
    BY <2>1, <2>2, <2>4 DEF BoundTo, BoundBy
  <2> QED BY <2>1, <2>3, <2>5, BoundAround
<1>13. ASSUME RetainKernel(g) PROVE Bound'
  <2>1. PICK s \in Sets : s = op[g][2] /\ life[s] = "creating" /\ pc[g] = "kernel"
    BY <1>13 DEF RetainKernel
  <2>2. BoundTo(s)
    BY <2>1
  <2> HIDE DEF Bound, BoundTo, BoundBy, CallsFit, CallFits
  <2>3. Apart(g)
    BY <1>13, <2>1 DEF RetainKernel, Goto, End, Become, Apart, Resources
  <2>4. /\ buffers' = buffers /\ life'[s] \in {"creating", "failed"}
        /\ pc'[g] \in {"buffers", "idle"} /\ (pc'[g] # "idle" => op'[g] = op[g])
    BY <1>13, <2>1 DEF RetainKernel, Goto, End, Become, Resources
  <2>5. BoundTo(s)' /\ BoundBy(g)'
    BY <2>1, <2>2, <2>4 DEF BoundTo, BoundBy
  <2> QED BY <2>1, <2>3, <2>5, BoundAround
<1>14. ASSUME RetainBuffer(g) PROVE Bound'
  <2>1. PICK s \in Sets : s = op[g][2] /\ life[s] = "creating" /\ pc[g] = "buffers"
    <3>1. pc[g] = "buffers" /\ CallFits(g)
      BY <1>14 DEF RetainBuffer
    <3> QED BY ONLY <3>1 DEF CallFits, Creating
  <2>2. BoundTo(s)
    BY <2>1
  <2> HIDE DEF Bound, BoundTo, BoundBy, CallsFit, CallFits
  <2>3. Apart(g) /\ life' = life
    BY <1>14, <2>1 DEF RetainBuffer, Goto, Apart
  <2>4. CASE Goto(g, "unwind") /\ UNCHANGED buffers
    <3>1. pc'[g] = "unwind"
      BY <2>4 DEF Goto
    <3>2. BoundTo(s)' /\ BoundBy(g)'
      BY <2>2, <2>3, <2>4, <3>1 DEF BoundTo, BoundBy
    <3> QED BY <2>1, <2>3, <3>2, BoundAround
  <2>5. ASSUME NEW n \in DOMAIN BuffersOf[s], buffers' = [buffers EXCEPT ![s] = 1..n],
               Goto(g, IF n = Len(BuffersOf[s]) THEN "native" ELSE "buffers")
        PROVE  Bound'
    <3>1. BuffersOf[s] \in Seq(Buffers)
      BY ResourcesAssumption
    <3>2. 1..n \subseteq DOMAIN BuffersOf[s] /\ (n = Len(BuffersOf[s]) => 1..n = DOMAIN BuffersOf[s])
      BY <3>1
    <3>3. /\ buffers'[s] = 1..n /\ life'[s] = "creating" /\ op'[g][2] = s
          /\ pc'[g] = IF n = Len(BuffersOf[s]) THEN "native" ELSE "buffers"
      BY <2>1, <2>3, <2>5 DEF Goto
    <3>4. BoundTo(s)' /\ BoundBy(g)'
      BY ONLY <3>2, <3>3 DEF BoundTo, BoundBy
    <3> QED BY <2>1, <2>3, <3>4, BoundAround
  <2>6. \/ Goto(g, "unwind") /\ UNCHANGED buffers
        \/ \E n \in DOMAIN BuffersOf[s] :
              /\ buffers' = [buffers EXCEPT ![s] = 1..n]
              /\ Goto(g, IF n = Len(BuffersOf[s]) THEN "native" ELSE "buffers")
    BY <1>14, <2>1 DEF RetainBuffer
  <2> QED BY <2>4, <2>5, <2>6
<1>15. ASSUME ReleaseBuffer(g) PROVE Bound'
  <2>1. PICK s \in Sets : s = op[g][2] /\ pc[g] = "unwind" /\ life[s] \in {"creating", "closed"}
    BY <1>15 DEF ReleaseBuffer
  <2>2. BoundTo(s)
    OBVIOUS
  <2> HIDE DEF Bound, BoundTo, BoundBy, CallsFit, CallFits
  <2>3. buffers'[s] \subseteq buffers[s] /\ life' = life /\ UNCHANGED <<pc, op>>
    BY <1>15, <2>1 DEF ReleaseBuffer
  <2>4. Apart(g)
    BY <1>15, <2>1, <2>3 DEF ReleaseBuffer, Apart
  <2>5. BoundTo(s)'
    BY <2>1, <2>2, <2>3 DEF BoundTo
  <2>6. BoundBy(g)'
    BY <2>1, <2>3 DEF BoundBy
  <2> QED BY <2>1, <2>4, <2>5, <2>6, BoundAround
<1>16. ASSUME EndRelease(g) PROVE Bound'
  <2>1. PICK s \in Sets : s = op[g][2] /\ life[s] \in {"creating", "closed"} /\ pc[g] = "unwind"
    <3>1. pc[g] = "unwind" /\ CallFits(g)
      BY <1>16 DEF EndRelease
    <3> QED BY ONLY <3>1 DEF CallFits, Creating
  <2>2. /\ UNCHANGED <<buffers, native, recState>> /\ pc'[g] = "idle"
        /\ life' = [life EXCEPT ![s] = IF life[s] = "creating" THEN "failed" ELSE "closed"]
        /\ \A h \in Goroutines \ {g} : pc'[h] = pc[h] /\ op'[h] = op[h]
    BY <1>16, <2>1 DEF EndRelease, ReleaseKernel, Become, End
  <2> HIDE DEF Bound, BoundTo, BoundBy, CallsFit, CallFits
  <2>3. Apart(g)
    BY <2>1, <2>2 DEF Apart
  <2>4. BoundTo(s)
    BY DEF Bound
  <2>5. life'[s] \in {"failed", "closed"} /\ buffers' = buffers
    BY <2>1, <2>2 DEF Resources
  <2>6. BoundTo(s)'
    BY ONLY <2>4, <2>5 DEF BoundTo
  <2>7. BoundBy(g)'
    BY ONLY <2>2 DEF BoundBy
  <2> QED BY <2>1, <2>3, <2>6, <2>7, BoundAround
<1>17. ASSUME SubmitDispatch(g) PROVE Bound'
  <2>1. /\ UNCHANGED <<life, buffers>> /\ pc'[g] \notin {"native", "addChild"}
        /\ \A h \in Goroutines \ {g} : pc'[h] = pc[h] /\ op'[h] = op[h]
    BY <1>17 DEF SubmitDispatch, Goto
  <2>2. ResourcesInv
    OBVIOUS
  <2> QED BY ONLY <2>1, <2>2, NothingBound
<1>18. ASSUME WaitForDispatch(g) PROVE Bound'
  <2>1. /\ UNCHANGED <<life, buffers>> /\ pc'[g] \notin {"native", "addChild"}
        /\ \A h \in Goroutines \ {g} : pc'[h] = pc[h] /\ op'[h] = op[h]
    BY <1>18 DEF WaitForDispatch, Goto, End
  <2>2. ResourcesInv
    OBVIOUS
  <2> QED BY ONLY <2>1, <2>2, NothingBound
<1>19. ASSUME Cleanup(g) PROVE Bound'
  BY <1>19, ResourcesAssumption DEF Cleanup, End
<1>20. ASSUME ReleaseSet(g) PROVE Bound'
  <2>1. PICK r \in Recorders : r = op[g][2] /\ pc[g] = "sets"
    BY <1>20 DEF ReleaseSet
  <2> HIDE DEF Bound, BoundTo, BoundBy, CallsFit, CallFits
  <2>2. buffers' = buffers /\ (End(g) \/ UNCHANGED <<pc, op>>) /\ life' \in {life, [life EXCEPT ![r] = "closed"]}
    BY <1>20, <2>1 DEF ReleaseSet, Become
  <2>3. \A s \in Sets : life'[s] = life[s]
    BY <2>1, <2>2, ResourcesAssumption DEF Resources
  <2>4. \A s \in Sets : BoundTo(s)'
    BY <2>2, <2>3 DEF Bound, BoundTo
  <2>5. ASSUME NEW h \in Goroutines \ {g}
        PROVE  BoundBy(h)'
    <3>1. pc'[h] = pc[h] /\ op'[h] = op[h]
      BY <2>2 DEF End
    <3> QED BY <2>2, <3>1 DEF Bound, BoundBy
  <2>6. BoundBy(g)'
    BY <2>1, <2>2 DEF End, BoundBy
  <2> QED BY <2>4, <2>5, <2>6 DEF Bound
<1>21. ASSUME Drain(g) PROVE Bound'
  BY <1>21, ResourcesAssumption DEF Drain
<1>22. ASSUME CloseChild(g) PROVE Bound'
  <2> HIDE DEF Bound, BoundTo, BoundBy, CallsFit, CallFits
  <2> DEFINE c == Last(closeList)
  <2>1. pc' = pc /\ op' = op /\ \A h \in Goroutines : pc[h] \in {"idle"} \cup Closing
    BY <1>22, NobodyCalls DEF CloseChild, Destroying
  <2>2. c \in Resources
    BY <1>22, LastAndFront DEF CloseChild, DeviceTypes
  <2>3. \/ UNCHANGED <<life, buffers>>
        \/ life' = [life EXCEPT ![c] = "closed"] /\ (buffers' = buffers \/ buffers' = [buffers EXCEPT ![c] = {}])
    BY <1>22, <2>2 DEF CloseChild, CloseSetFromDevice, CloseRecorderFromDevice, Become
  <2> HIDE DEF c
  <2>4. \A h \in Goroutines : BoundBy(h)'
    BY <2>1 DEF BoundBy
  <2>5. ASSUME NEW s \in Sets
        PROVE  BoundTo(s)'
    <3>1. BoundTo(s)
      BY DEF Bound
    <3>2. CASE life'[s] = life[s] /\ buffers'[s] = buffers[s]
      BY <3>1, <3>2 DEF BoundTo
    <3>3. CASE s = c /\ life'[s] = "closed" /\ buffers'[s] = buffers[s]
      BY <3>1, <3>3 DEF BoundTo
    <3>4. CASE s = c /\ life'[s] = "closed" /\ buffers'[s] = {}
      BY <3>4 DEF BoundTo
    <3>5. CASE s # c
      BY <2>2, <2>3, <3>2, <3>5 DEF Resources
    <3>6. CASE s = c
      BY <2>2, <2>3, <3>2, <3>3, <3>4, <3>6
    <3> QED BY <3>5, <3>6
  <2> QED BY <2>4, <2>5 DEF Bound
<1>23. ASSUME EndClose(g) PROVE Bound'
  BY <1>23, ResourcesAssumption DEF EndClose
<1>24. ASSUME ReserveDispatch(g) PROVE Bound'
  <2>1. /\ UNCHANGED <<life, buffers>> /\ pc'[g] \notin {"native", "addChild"}
        /\ \A h \in Goroutines \ {g} : pc'[h] = pc[h] /\ op'[h] = op[h]
    BY <1>24 DEF ReserveDispatch, Goto
  <2>2. ResourcesInv
    OBVIOUS
  <2> QED BY ONLY <2>1, <2>2, NothingBound
<1>25. ASSUME ReserveBatch(g) PROVE Bound'
  <2>1. /\ UNCHANGED <<life, buffers>> /\ pc'[g] \notin {"native", "addChild"}
        /\ \A h \in Goroutines \ {g} : pc'[h] = pc[h] /\ op'[h] = op[h]
    BY <1>25 DEF ReserveBatch, End
  <2>2. ResourcesInv
    OBVIOUS
  <2> QED BY ONLY <2>1, <2>2, NothingBound
<1> QED BY <1>1, <1>2, <1>3, <1>4, <1>5, <1>6, <1>7, <1>8, <1>9, <1>10, <1>11, <1>12, <1>13,
    <1>14, <1>15, <1>16, <1>17, <1>18, <1>19, <1>20, <1>21, <1>22, <1>23, <1>24, <1>25
        DEF Call, Step

\* Cardinalities of holders.
LEMMA HoldersAreFinite ==
    /\ \A k : IsFiniteSet(KernelHolders(k)) /\ Cardinality(KernelHolders(k)) \in Nat
    /\ \A s : IsFiniteSet(RecordersOf(s)) /\ Cardinality(RecordersOf(s)) \in Nat
    /\ \A s : IsFiniteSet(DispatchersOf(s)) /\ Cardinality(DispatchersOf(s)) \in Nat
BY FS_Subset, FS_CardinalityType, ResourcesAssumption
   DEF KernelHolders, RecordersOf, DispatchersOf

LEMMA BindersOfAre ==
    ASSUME NEW b
    PROVE  /\ \A s, n : <<s, n>> \in BindersOf(b) <=> s \in Sets /\ n \in buffers[s] /\ BuffersOf[s][n] = b
           /\ \A p \in BindersOf(b) : p = <<p[1], p[2]>>
BY DEF BindersOf, Bindings

LEMMA BindersAreFinite ==
    ASSUME Bound, NEW b
    PROVE  IsFiniteSet(BindersOf(b)) /\ Cardinality(BindersOf(b)) \in Nat
<1> DEFINE all == [s \in Sets |-> {s} \X DOMAIN BuffersOf[s]]
           sets == {all[s] : s \in Sets}
<1>1. ASSUME NEW s \in Sets
      PROVE  IsFiniteSet(all[s])
  BY PlacesAreFinite, FS_Singleton, FS_Product
<1>2. IsFiniteSet(sets)
  <2>1. all \in Surjection(Sets, sets)
    BY DEF Surjection
  <2> HIDE DEF all, sets
  <2> QED BY <2>1, FS_Surjection, ResourcesAssumption
<1>3. IsFiniteSet(UNION sets)
  <2>1. \A T \in sets : IsFiniteSet(T)
    BY <1>1
  <2> HIDE DEF all, sets
  <2> QED BY <1>2, <2>1, FS_UNION
<1>4. BindersOf(b) \subseteq UNION sets
  <2>1. ASSUME NEW p \in BindersOf(b)
        PROVE  p \in UNION sets
    <3>1. PICK s \in Sets : p \in {s} \X Bindings(s, b)
      BY DEF BindersOf
    <3>2. Bindings(s, b) \subseteq DOMAIN BuffersOf[s]
      BY DEF Bindings, Bound, BoundTo
    <3>3. p \in all[s]
      BY <3>1, <3>2
    <3> QED BY <3>3
  <2> QED BY <2>1
<1> QED BY <1>3, <1>4, FS_Subset, FS_CardinalityType

LEMMA OneMore ==
    ASSUME NEW S, IsFiniteSet(S), NEW x, x \notin S
    PROVE  Cardinality(S \cup {x}) = Cardinality(S) + 1
BY FS_AddElement

LEMMA OneLess ==
    ASSUME NEW S, IsFiniteSet(S), NEW x \in S
    PROVE  Cardinality(S \ {x}) = Cardinality(S) - 1 /\ Cardinality(S) > 0
BY FS_RemoveElement, FS_EmptySet, FS_CardinalityType

\* A set retains or gives back the buffer of one binding.
LEMMA BinderAdded ==
    ASSUME NEW s \in Sets, NEW n, \A t \in Sets \ {s} : buffers'[t] = buffers[t],
           n \notin buffers[s], buffers'[s] = buffers[s] \cup {n}
    PROVE  LET b == BuffersOf[s][n] IN
           /\ BindersOf(b)' = BindersOf(b) \cup {<<s, n>>} /\ <<s, n>> \notin BindersOf(b)
           /\ \A c : c # b => BindersOf(c)' = BindersOf(c)
<1>1. ASSUME NEW c, c # BuffersOf[s][n]
      PROVE  BindersOf(c)' = BindersOf(c)
  <2>1. \A t \in Sets : Bindings(t, c)' = Bindings(t, c)
    BY <1>1 DEF Bindings
  <2> QED BY <2>1 DEF BindersOf
<1> QED BY <1>1 DEF BindersOf, Bindings

LEMMA BinderRemoved ==
    ASSUME NEW s \in Sets, NEW n \in buffers[s], \A t \in Sets \ {s} : buffers'[t] = buffers[t],
           buffers'[s] = buffers[s] \ {n}, NEW b
    PROVE  /\ b = BuffersOf[s][n] => /\ BindersOf(b)' = BindersOf(b) \ {<<s, n>>}
                                     /\ <<s, n>> \in BindersOf(b)
           /\ b # BuffersOf[s][n] => BindersOf(b)' = BindersOf(b)
BY DEF BindersOf, Bindings

\* Device.Close gives back those of all bindings of a set.
LEMMA BindersDropped ==
    ASSUME Bound, NEW s \in Sets, buffers' = [buffers EXCEPT ![s] = {}], Types, NEW b
    PROVE  /\ Cardinality(Bindings(s, b)) \in Nat
           /\ Cardinality(BindersOf(b)') = Cardinality(BindersOf(b)) - Cardinality(Bindings(s, b))
           /\ Cardinality(Bindings(s, b)) <= Cardinality(BindersOf(b))
<1> DEFINE own == {s} \X Bindings(s, b)
<1>1. own \subseteq BindersOf(b) /\ BindersOf(b)' = BindersOf(b) \ own
  <2>1. own \subseteq BindersOf(b)
    BY DEF BindersOf
  <2>2. buffers'[s] = {} /\ \A t \in Sets \ {s} : buffers'[t] = buffers[t]
    BY DEF Types, CountTypes
  <2>3. BindersOf(b)' = BindersOf(b) \ own
    BY <2>2 DEF BindersOf, Bindings
  <2> QED BY <2>1, <2>3
<1>2. IsFiniteSet(Bindings(s, b)) /\ Cardinality(Bindings(s, b)) \in Nat
  BY BindingsAreFinite
<1>3. Cardinality(own) = Cardinality(Bindings(s, b))
  <2>1. IsFiniteSet({s}) /\ Cardinality({s}) = 1
    BY FS_Singleton
  <2>2. Cardinality(own) = 1 * Cardinality(Bindings(s, b))
    BY <1>2, <2>1, FS_Product
  <2> QED BY <1>2, <2>2
<1> HIDE DEF own
<1>4. IsFiniteSet(BindersOf(b)) /\ Cardinality(BindersOf(b)) \in Nat
  BY BindersAreFinite
<1>5. BindersOf(b) \cap own = own
  BY <1>1
<1>6. Cardinality(BindersOf(b) \ own) = Cardinality(BindersOf(b)) - Cardinality(own)
  BY <1>4, <1>5, FS_Difference
<1>7. Cardinality(own) <= Cardinality(BindersOf(b))
  BY <1>1, <1>4, FS_Subset
<1> QED BY <1>1, <1>2, <1>3, <1>6, <1>7

LEMMA SameReferences ==
    ASSUME ReferencesCounted, UNCHANGED <<references, buffers>>
    PROVE  ReferencesCounted'
BY DEF ReferencesCounted, BindersOf, Bindings

\* Buffer.references is the number of bindings that hold the buffer.
LEMMA ReferencesCountedKept ==
    ASSUME ResourcesInv, [Next]_vars
    PROVE  ReferencesCounted'
<1> USE DEF ResourcesInv, deviceVars, countVars, recVars, Types, CountTypes
<1>0. CASE UNCHANGED vars
  BY <1>0, SameReferences DEF vars
<1> SUFFICES ASSUME NEW g \in Goroutines, Call(g) \/ Step(g) PROVE ReferencesCounted'
  BY <1>0 DEF Next
<1>1. ASSUME NEW x \in Resources, Create(g, x) PROVE ReferencesCounted'
  BY <1>1, SameReferences DEF Create
<1>2. ASSUME NEW x \in Resources, CloseUnheld(g, x) PROVE ReferencesCounted'
  BY <1>2, SameReferences DEF CloseUnheld
<1>3. ASSUME NEW s \in Sets, NewBindings(g, s) PROVE ReferencesCounted'
  BY <1>3, SameReferences DEF NewBindings
<1>4. ASSUME NEW s \in Sets, CloseSet(g, s) PROVE ReferencesCounted'
  BY <1>4, SameReferences DEF CloseSet
<1>5. ASSUME NEW s \in Sets, DispatchAndWait(g, s) PROVE ReferencesCounted'
  BY <1>5, SameReferences DEF DispatchAndWait
<1>6. ASSUME NEW r \in Recorders, Submit(g, r) PROVE ReferencesCounted'
  BY <1>6, SameReferences DEF Submit
<1>7. ASSUME NEW r \in Recorders, FinishRecorder(g, r) PROVE ReferencesCounted'
  BY <1>7, SameReferences DEF FinishRecorder
<1>8. ASSUME NEW r \in Recorders, LoseRecorder(g, r) PROVE ReferencesCounted'
  BY <1>8, SameReferences DEF LoseRecorder
<1>9. ASSUME NEW r \in Recorders, NEW s \in Sets, Dispatch(g, r, s) PROVE ReferencesCounted'
  BY <1>9, SameReferences DEF Dispatch
<1>10. ASSUME CloseDevice(g) PROVE ReferencesCounted'
  BY <1>10, SameReferences DEF CloseDevice
<1>11. ASSUME CreateNative(g) PROVE ReferencesCounted'
  BY <1>11, SameReferences DEF CreateNative
<1>12. ASSUME AddChild(g) PROVE ReferencesCounted'
  BY <1>12, SameReferences DEF AddChild
<1>13. ASSUME RetainKernel(g) PROVE ReferencesCounted'
  BY <1>13, SameReferences DEF RetainKernel
<1>14. ASSUME RetainBuffer(g) PROVE ReferencesCounted'
  <2>1. ASSUME NEW s \in Sets, NEW n \in DOMAIN BuffersOf[s], BindsAt(s, n)
        PROVE  ReferencesCounted'
    <3>1. PICK b \in Buffers : b = BuffersOf[s][n]
      BY ResourcesAssumption
    <3>2. n \in Nat \ {0}
      BY ResourcesAssumption
    <3>3. /\ buffers'[s] = buffers[s] \cup {n} /\ n \notin buffers[s]
          /\ \A t \in Sets \ {s} : buffers'[t] = buffers[t]
      BY <2>1, <3>2 DEF BindsAt
    <3>4. \A c \in Buffers \ {b} : BindersOf(c)' = BindersOf(c)
      BY <3>1, <3>3, BinderAdded
    <3>5. BindersOf(b)' = BindersOf(b) \cup {<<s, n>>} /\ <<s, n>> \notin BindersOf(b)
      BY <3>1, <3>3, BinderAdded
    <3>6. Cardinality(BindersOf(b)') = Cardinality(BindersOf(b)) + 1
      BY <3>5, OneMore, BindersAreFinite
    <3>7. references'[b] = references[b] + 1 /\ \A c \in Buffers \ {b} : references'[c] = references[c]
      BY <2>1, <3>1 DEF BindsAt
    <3> QED BY <3>4, <3>6, <3>7 DEF ReferencesCounted
  <2> QED BY <1>14, <2>1, BindsNext, SameReferences
<1>15. ASSUME ReleaseBuffer(g) PROVE ReferencesCounted'
  <2>0. PICK s \in Sets : \E n \in buffers[s] : UnbindsAt(s, n)
    BY <1>15, UnbindsFirst
  <2>1. PICK n \in buffers[s] : UnbindsAt(s, n)
    BY <2>0
  <2>2. PICK b \in Buffers : b = BuffersOf[s][n]
    BY ResourcesAssumption DEF Bound, BoundTo
  <2>3. buffers'[s] = buffers[s] \ {n} /\ \A t \in Sets \ {s} : buffers'[t] = buffers[t]
    BY <2>1 DEF UnbindsAt
  <2>4. \A c \in Buffers \ {b} : BindersOf(c)' = BindersOf(c)
    BY <2>2, <2>3, BinderRemoved
  <2>5. BindersOf(b)' = BindersOf(b) \ {<<s, n>>} /\ <<s, n>> \in BindersOf(b)
    BY <2>2, <2>3, BinderRemoved
  <2>6. Cardinality(BindersOf(b)') = Cardinality(BindersOf(b)) - 1 /\ Cardinality(BindersOf(b)) > 0
    BY <2>5, OneLess, BindersAreFinite
  <2>7. references \in [Buffers -> Nat]
    OBVIOUS
  <2>8. references' = Less(references, b)
    BY <2>1, <2>2 DEF UnbindsAt
  <2>9. /\ references'[b] = IF references[b] > 0 THEN references[b] - 1 ELSE 0
        /\ \A c \in Buffers \ {b} : references'[c] = references[c]
    BY ONLY <2>2, <2>7, <2>8, LessProperties
  <2> QED BY <2>4, <2>6, <2>9 DEF ReferencesCounted
<1>16. ASSUME EndRelease(g) PROVE ReferencesCounted'
  BY <1>16, SameReferences DEF EndRelease
<1>17. ASSUME SubmitDispatch(g) PROVE ReferencesCounted'
  BY <1>17, SameReferences DEF SubmitDispatch
<1>18. ASSUME WaitForDispatch(g) PROVE ReferencesCounted'
  BY <1>18, SameReferences DEF WaitForDispatch
<1>19. ASSUME Cleanup(g) PROVE ReferencesCounted'
  BY <1>19, SameReferences DEF Cleanup
<1>20. ASSUME ReleaseSet(g) PROVE ReferencesCounted'
  BY <1>20, SameReferences DEF ReleaseSet
<1>21. ASSUME Drain(g) PROVE ReferencesCounted'
  BY <1>21, SameReferences DEF Drain
<1>22. ASSUME CloseChild(g) PROVE ReferencesCounted'
  <2>1. CASE UNCHANGED <<references, buffers>>
    BY <2>1, SameReferences
  <2>2. ASSUME NEW s \in Sets, CloseSetFromDevice(s)
        PROVE  ReferencesCounted'
    <3> DEFINE own == [b \in Buffers |-> Cardinality(Bindings(s, b))]
    <3>1. references' = LessBy(references, own) /\ buffers' = [buffers EXCEPT ![s] = {}]
      BY <2>2 DEF CloseSetFromDevice
    <3>2. Bound /\ Types
      OBVIOUS
    <3>3. \A b \in Buffers :
             /\ own[b] \in Nat /\ own[b] <= Cardinality(BindersOf(b))
             /\ Cardinality(BindersOf(b)') = Cardinality(BindersOf(b)) - own[b]
      BY ONLY <3>1, <3>2, BindersDropped
    <3>4. own \in [Buffers -> Nat] /\ references \in [Buffers -> Nat]
      BY <3>3
    <3> HIDE DEF own
    <3>5. \A b \in Buffers : references'[b] = IF references[b] > own[b] THEN references[b] - own[b] ELSE 0
      BY ONLY <3>1, <3>4, LessByProperties
    <3>6. \A b \in Buffers : references[b] = Cardinality(BindersOf(b)) /\ references[b] \in Nat
      BY DEF ReferencesCounted
    <3>7. \A b \in Buffers : references'[b] = Cardinality(BindersOf(b)')
      BY ONLY <3>3, <3>5, <3>6
    <3> QED BY <3>7 DEF ReferencesCounted
  <2>3. \/ UNCHANGED <<references, buffers>>
        \/ \E s \in Sets : CloseSetFromDevice(s)
    BY <1>22 DEF CloseChild, CloseRecorderFromDevice
  <2> QED BY <2>1, <2>2, <2>3
<1>23. ASSUME EndClose(g) PROVE ReferencesCounted'
  BY <1>23, SameReferences DEF EndClose
<1>24. ASSUME ReserveDispatch(g) PROVE ReferencesCounted'
  BY <1>24, SameReferences DEF ReserveDispatch
<1>25. ASSUME ReserveBatch(g) PROVE ReferencesCounted'
  BY <1>25, SameReferences DEF ReserveBatch
<1> QED BY <1>1, <1>2, <1>3, <1>4, <1>5, <1>6, <1>7, <1>8, <1>9, <1>10, <1>11, <1>12, <1>13,
    <1>14, <1>15, <1>16, <1>17, <1>18, <1>19, <1>20, <1>21, <1>22, <1>23, <1>24, <1>25
        DEF Call, Step

\* The other sets hold their kernels as before.
LEMMA OthersHold ==
    ASSUME ResourcesInv, NEW g \in Goroutines, Apart(g), NEW s \in Sets, s # op[g][2],
           pc'[g] \in Binding => op'[g] = op[g]
    PROVE  HoldsKernel(s)' <=> HoldsKernel(s)
<1>1. life'[s] = life[s]
  BY DEF Apart, Resources
<1>2. ASSUME NEW h \in Goroutines, h # g
      PROVE  pc'[h] = pc[h] /\ op'[h] = op[h]
  BY <1>2 DEF Apart
<1> QED BY <1>1, <1>2 DEF HoldsKernel

LEMMA SameKernels ==
    ASSUME KernelsCounted, UNCHANGED bindingSets, \A s \in Sets : HoldsKernel(s)' <=> HoldsKernel(s)
    PROVE  KernelsCounted'
<1>1. \A k : KernelHolders(k)' = KernelHolders(k)
  BY DEF KernelHolders
<1> QED BY <1>1 DEF KernelsCounted

\* A set begins or ends to hold its kernel.
LEMMA KernelRetained ==
    ASSUME ResourcesInv, NEW s \in Sets, ~HoldsKernel(s), HoldsKernel(s)',
           \A t \in Sets \ {s} : HoldsKernel(t)' <=> HoldsKernel(t),
           bindingSets' = [bindingSets EXCEPT ![KernelOf[s]] = @ + 1]
    PROVE  KernelsCounted'
<1>1. PICK k \in Kernels : k = KernelOf[s]
  BY ResourcesAssumption
<1>2. bindingSets \in [Kernels -> Nat] /\ KernelsCounted
  BY DEF ResourcesInv, Types, CountTypes
<1>3. bindingSets'[k] = bindingSets[k] + 1 /\ \A j \in Kernels \ {k} : bindingSets'[j] = bindingSets[j]
  BY <1>1, <1>2
<1>4. \A j \in Kernels \ {k} : KernelHolders(j)' = KernelHolders(j)
  BY <1>1 DEF KernelHolders
<1>5. KernelHolders(k)' = KernelHolders(k) \cup {s} /\ s \notin KernelHolders(k)
  BY <1>1 DEF KernelHolders
<1>6. Cardinality(KernelHolders(k)') = Cardinality(KernelHolders(k)) + 1
  BY <1>5, OneMore, HoldersAreFinite
<1> QED BY <1>2, <1>3, <1>4, <1>6 DEF KernelsCounted

LEMMA KernelReleased ==
    ASSUME ResourcesInv, NEW s \in Sets, HoldsKernel(s), ~HoldsKernel(s)',
           \A t \in Sets \ {s} : HoldsKernel(t)' <=> HoldsKernel(t),
           bindingSets' = Less(bindingSets, KernelOf[s])
    PROVE  KernelsCounted'
<1>1. PICK k \in Kernels : k = KernelOf[s]
  BY ResourcesAssumption
<1>2. bindingSets \in [Kernels -> Nat] /\ KernelsCounted
  BY DEF ResourcesInv, Types, CountTypes
<1>3. /\ bindingSets'[k] = IF bindingSets[k] > 0 THEN bindingSets[k] - 1 ELSE 0
      /\ \A j \in Kernels \ {k} : bindingSets'[j] = bindingSets[j]
  BY <1>1, <1>2, LessProperties
<1>4. \A j \in Kernels \ {k} : KernelHolders(j)' = KernelHolders(j)
  BY <1>1 DEF KernelHolders
<1>5. KernelHolders(k)' = KernelHolders(k) \ {s} /\ s \in KernelHolders(k)
  BY <1>1 DEF KernelHolders
<1>6. Cardinality(KernelHolders(k)') = Cardinality(KernelHolders(k)) - 1 /\ Cardinality(KernelHolders(k)) > 0
  BY <1>5, OneLess, HoldersAreFinite
<1> QED BY <1>2, <1>3, <1>4, <1>6 DEF KernelsCounted

\* Kernel.bindingSets is the number of sets that hold the kernel.
LEMMA KernelsCountedKept ==
    ASSUME ResourcesInv, [Next]_vars
    PROVE  KernelsCounted'
<1> USE DEF ResourcesInv, deviceVars, countVars, recVars, Types, LifeTypes, CallTypes,
    RecorderTypes, CallsFit, CallFits, Creating, Using, Closing
<1>0. CASE UNCHANGED vars
  BY <1>0, SameKernels DEF vars, HoldsKernel
<1> SUFFICES ASSUME NEW g \in Goroutines, Call(g) \/ Step(g) PROVE KernelsCounted'
  BY <1>0 DEF Next
<1>1. ASSUME NEW x \in Resources, Create(g, x) PROVE KernelsCounted'
  <2>1. ASSUME NEW t \in Sets
        PROVE  HoldsKernel(t)' <=> HoldsKernel(t)
    BY <1>1, ResourcesAssumption DEF Create, Begin, Become, HoldsKernel, Binding, Exclusive,
        Resources
  <2>2. KernelsCounted /\ UNCHANGED bindingSets
    BY <1>1 DEF Create, Begin, Become
  <2> QED BY <2>1, <2>2, SameKernels
<1>2. ASSUME NEW x \in Resources, CloseUnheld(g, x) PROVE KernelsCounted'
  <2>1. ASSUME NEW t \in Sets
        PROVE  HoldsKernel(t)' <=> HoldsKernel(t)
    BY <1>2, ResourcesAssumption DEF CloseUnheld, AtOnce, DestroyNatives, Become, HoldsKernel,
        Binding, Exclusive, Resources
  <2>2. KernelsCounted /\ UNCHANGED bindingSets
    BY <1>2 DEF CloseUnheld, AtOnce, DestroyNatives, Become
  <2> QED BY <2>1, <2>2, SameKernels
<1>3. ASSUME NEW s \in Sets, NewBindings(g, s) PROVE KernelsCounted'
  <2>1. ASSUME NEW t \in Sets
        PROVE  HoldsKernel(t)' <=> HoldsKernel(t)
    BY <1>3, ResourcesAssumption DEF NewBindings, Begin, Become, HoldsKernel, Binding,
        Exclusive, Resources
  <2>2. KernelsCounted /\ UNCHANGED bindingSets
    BY <1>3 DEF NewBindings, Begin, Become
  <2> QED BY <2>1, <2>2, SameKernels
<1>4. ASSUME NEW s \in Sets, CloseSet(g, s) PROVE KernelsCounted'
  <2>1. ASSUME NEW t \in Sets
        PROVE  HoldsKernel(t)' <=> HoldsKernel(t)
    BY <1>4, ResourcesAssumption DEF CloseSet, Unused, Begin, DestroyNatives, Become,
        HoldsKernel, Binding, Exclusive, Resources
  <2>2. KernelsCounted /\ UNCHANGED bindingSets
    BY <1>4 DEF CloseSet, Unused, Begin, DestroyNatives, Become
  <2> QED BY <2>1, <2>2, SameKernels
<1>5. ASSUME NEW s \in Sets, DispatchAndWait(g, s) PROVE KernelsCounted'
  <2>1. ASSUME NEW t \in Sets
        PROVE  HoldsKernel(t)' <=> HoldsKernel(t)
    BY <1>5, ResourcesAssumption DEF DispatchAndWait, Begin, HoldsKernel, Binding, Exclusive
  <2>2. KernelsCounted /\ UNCHANGED bindingSets
    BY <1>5 DEF DispatchAndWait, Begin
  <2> QED BY <2>1, <2>2, SameKernels
<1>6. ASSUME NEW r \in Recorders, Submit(g, r) PROVE KernelsCounted'
  <2>1. ASSUME NEW t \in Sets
        PROVE  HoldsKernel(t)' <=> HoldsKernel(t)
    BY <1>6, ResourcesAssumption DEF Submit, Begin, HoldsKernel, Binding, Exclusive
  <2>2. KernelsCounted /\ UNCHANGED bindingSets
    BY <1>6 DEF Submit, Begin
  <2> QED BY <2>1, <2>2, SameKernels
<1>7. ASSUME NEW r \in Recorders, FinishRecorder(g, r) PROVE KernelsCounted'
  <2>1. ASSUME NEW t \in Sets
        PROVE  HoldsKernel(t)' <=> HoldsKernel(t)
    BY <1>7, ResourcesAssumption DEF FinishRecorder, Begin, DestroyNatives, HoldsKernel,
        Binding, Exclusive
  <2>2. KernelsCounted /\ UNCHANGED bindingSets
    BY <1>7 DEF FinishRecorder, Begin, DestroyNatives
  <2> QED BY <2>1, <2>2, SameKernels
<1>8. ASSUME NEW r \in Recorders, LoseRecorder(g, r) PROVE KernelsCounted'
  <2>1. ASSUME NEW t \in Sets
        PROVE  HoldsKernel(t)' <=> HoldsKernel(t)
    BY <1>8, ResourcesAssumption DEF LoseRecorder, AtOnce, HoldsKernel, Binding, Exclusive
  <2>2. KernelsCounted /\ UNCHANGED bindingSets
    BY <1>8 DEF LoseRecorder, AtOnce
  <2> QED BY <2>1, <2>2, SameKernels
<1>9. ASSUME NEW r \in Recorders, NEW s \in Sets, Dispatch(g, r, s) PROVE KernelsCounted'
  <2>1. ASSUME NEW t \in Sets
        PROVE  HoldsKernel(t)' <=> HoldsKernel(t)
    BY <1>9, ResourcesAssumption DEF Dispatch, AtOnce, HoldsKernel, Binding, Exclusive
  <2>2. KernelsCounted /\ UNCHANGED bindingSets
    BY <1>9 DEF Dispatch, AtOnce
  <2> QED BY <2>1, <2>2, SameKernels
<1>10. ASSUME CloseDevice(g) PROVE KernelsCounted'
  <2>1. ASSUME NEW t \in Sets
        PROVE  HoldsKernel(t)' <=> HoldsKernel(t)
    BY <1>10, ResourcesAssumption DEF CloseDevice, HoldsKernel, Binding, Exclusive
  <2>2. KernelsCounted /\ UNCHANGED bindingSets
    BY <1>10 DEF CloseDevice
  <2> QED BY <2>1, <2>2, SameKernels
<1>11. ASSUME CreateNative(g) PROVE KernelsCounted'
  <2>1. PICK x \in Resources : x = op[g][2] /\ life[x] = "creating" /\ pc[g] = "native"
    BY <1>11 DEF CreateNative
  <2>2. /\ UNCHANGED bindingSets /\ (pc'[g] \in Binding => op'[g] = op[g])
        /\ x \in Sets => pc'[g] \in Binding
    BY <1>11, <2>1 DEF CreateNative, FailCreation, Goto, End, DestroyNatives, Become, Binding
  <2>3. Apart(g)
    BY <1>11, <2>1 DEF CreateNative, FailCreation, Goto, End, DestroyNatives, Become, Apart,
        Exclusive, CountTypes
  <2>4. x \in Sets => (HoldsKernel(x)' <=> HoldsKernel(x))
    BY <2>1, <2>2 DEF HoldsKernel, Binding
  <2>5. \A t \in Sets : HoldsKernel(t)' <=> HoldsKernel(t)
    BY <2>1, <2>2, <2>3, <2>4, OthersHold
  <2>6. KernelsCounted
    OBVIOUS
  <2> QED BY <2>2, <2>5, <2>6, SameKernels
<1>12. ASSUME AddChild(g) PROVE KernelsCounted'
  <2>1. PICK x \in Resources : x = op[g][2] /\ life[x] = "creating" /\ pc[g] = "addChild"
    BY <1>12 DEF AddChild
  <2>2. /\ UNCHANGED bindingSets /\ (pc'[g] \in Binding => op'[g] = op[g])
        /\ x \in Sets => pc'[g] = "unwind" \/ life'[x] = "live"
    BY <1>12, <2>1 DEF AddChild, FailCreation, Goto, End, DestroyNatives, Become, Binding
  <2>3. Apart(g)
    BY <1>12, <2>1 DEF AddChild, FailCreation, Goto, End, DestroyNatives, Become, Apart,
        Exclusive, CountTypes
  <2>4. x \in Sets => (HoldsKernel(x)' <=> HoldsKernel(x))
    BY <2>1, <2>2 DEF HoldsKernel, Binding
  <2>5. \A t \in Sets : HoldsKernel(t)' <=> HoldsKernel(t)
    BY <2>1, <2>2, <2>3, <2>4, OthersHold
  <2>6. KernelsCounted
    OBVIOUS
  <2> QED BY <2>2, <2>5, <2>6, SameKernels
<1>13. ASSUME RetainKernel(g) PROVE KernelsCounted'
  <2>1. PICK s \in Sets : s = op[g][2] /\ life[s] = "creating" /\ pc[g] = "kernel"
    BY <1>13 DEF RetainKernel
  <2>2. KernelsCounted /\ ~HoldsKernel(s)
    BY <2>1 DEF HoldsKernel, Binding, OneCall, Exclusive
  <2>3. CASE End(g) /\ Become(op[g][2], "failed") /\ UNCHANGED bindingSets
    <3>1. \A t \in Sets : HoldsKernel(t)' <=> HoldsKernel(t)
      BY <2>1, <2>3, ResourcesAssumption DEF End, Become, HoldsKernel, Binding, Resources
    <3> QED BY <2>2, <2>3, <3>1, SameKernels
  <2>4. CASE /\ bindingSets' = [bindingSets EXCEPT ![KernelOf[op[g][2]]] = @ + 1]
             /\ Goto(g, "buffers") /\ UNCHANGED life
    <3>1. HoldsKernel(s)' /\ \A t \in Sets \ {s} : HoldsKernel(t)' <=> HoldsKernel(t)
      BY <2>1, <2>4 DEF Goto, HoldsKernel, Binding
    <3> QED BY <2>1, <2>2, <2>4, <3>1, KernelRetained
  <2> QED BY <1>13, <2>3, <2>4 DEF RetainKernel
<1>14. ASSUME RetainBuffer(g) PROVE KernelsCounted'
  <2>1. ASSUME NEW t \in Sets
        PROVE  HoldsKernel(t)' <=> HoldsKernel(t)
    BY <1>14, ResourcesAssumption DEF RetainBuffer, Goto, HoldsKernel, Binding, Exclusive
  <2>2. KernelsCounted /\ UNCHANGED bindingSets
    BY <1>14 DEF RetainBuffer, Goto
  <2> QED BY <2>1, <2>2, SameKernels
<1>15. ASSUME ReleaseBuffer(g) PROVE KernelsCounted'
  <2>1. ASSUME NEW t \in Sets
        PROVE  HoldsKernel(t)' <=> HoldsKernel(t)
    BY <1>15, ResourcesAssumption DEF ReleaseBuffer, HoldsKernel, Binding, Exclusive
  <2>2. KernelsCounted /\ UNCHANGED bindingSets
    BY <1>15 DEF ReleaseBuffer
  <2> QED BY <2>1, <2>2, SameKernels
<1>16. ASSUME EndRelease(g) PROVE KernelsCounted'
  <2>1. PICK s \in Sets : s = op[g][2] /\ life[s] \in {"creating", "closed"} /\ pc[g] = "unwind"
    BY <1>16 DEF EndRelease
  <2>2. /\ pc' = [pc EXCEPT ![g] = "idle"] /\ op' = [op EXCEPT ![g] = << >>]
        /\ life' \in {[life EXCEPT ![s] = "failed"], [life EXCEPT ![s] = "closed"]}
        /\ bindingSets' = Less(bindingSets, KernelOf[s])
    BY <1>16, <2>1 DEF EndRelease, ReleaseKernel, End, Become
  <2>3. HoldsKernel(s) /\ ~HoldsKernel(s)'
    BY <2>1, <2>2 DEF HoldsKernel, Binding, OneCall, Exclusive, Resources
  <2>4. \A t \in Sets \ {s} : HoldsKernel(t)' <=> HoldsKernel(t)
    <3>1. Apart(g)
      BY <1>16, <2>1, <2>2 DEF EndRelease, Apart, Exclusive
    <3> QED BY <2>1, <2>2, <3>1, OthersHold DEF Binding
  <2> QED BY <2>2, <2>3, <2>4, KernelReleased
<1>17. ASSUME SubmitDispatch(g) PROVE KernelsCounted'
  <2>1. ASSUME NEW t \in Sets
        PROVE  HoldsKernel(t)' <=> HoldsKernel(t)
    BY <1>17, ResourcesAssumption DEF SubmitDispatch, Goto, HoldsKernel, Binding, Exclusive
  <2>2. KernelsCounted /\ UNCHANGED bindingSets
    BY <1>17 DEF SubmitDispatch, Goto
  <2> QED BY <2>1, <2>2, SameKernels
<1>18. ASSUME WaitForDispatch(g) PROVE KernelsCounted'
  <2>1. ASSUME NEW t \in Sets
        PROVE  HoldsKernel(t)' <=> HoldsKernel(t)
    <3>1. /\ life' = life /\ pc[g] \notin Binding /\ pc'[g] \notin Binding
          /\ \A h \in Goroutines \ {g} : pc'[h] = pc[h] /\ op'[h] = op[h]
      BY <1>18 DEF WaitForDispatch, Goto, End, Binding
    <3> QED BY ONLY <3>1 DEF HoldsKernel
  <2>2. KernelsCounted /\ UNCHANGED bindingSets
    BY <1>18 DEF WaitForDispatch, Goto, End
  <2> QED BY <2>1, <2>2, SameKernels
<1>19. ASSUME Cleanup(g) PROVE KernelsCounted'
  <2>1. ASSUME NEW t \in Sets
        PROVE  HoldsKernel(t)' <=> HoldsKernel(t)
    BY <1>19, ResourcesAssumption DEF Cleanup, End, HoldsKernel, Binding, Exclusive
  <2>2. KernelsCounted /\ UNCHANGED bindingSets
    BY <1>19 DEF Cleanup, End
  <2> QED BY <2>1, <2>2, SameKernels
<1>20. ASSUME ReleaseSet(g) PROVE KernelsCounted'
  <2>1. pc[g] = "sets" /\ UNCHANGED bindingSets /\ (pc'[g] \in Binding => op'[g] = op[g])
    BY <1>20 DEF ReleaseSet, End, Binding
  <2>2. Apart(g) /\ op[g][2] \notin Sets
    BY <1>20, ResourcesAssumption DEF ReleaseSet, End, Become, Apart, Exclusive
  <2>3. KernelsCounted
    OBVIOUS
  <2> QED BY <2>1, <2>2, <2>3, OthersHold, SameKernels
<1>21. ASSUME Drain(g) PROVE KernelsCounted'
  <2>1. ASSUME NEW t \in Sets
        PROVE  HoldsKernel(t)' <=> HoldsKernel(t)
    BY <1>21, ResourcesAssumption DEF Drain, HoldsKernel, Binding, Exclusive
  <2>2. KernelsCounted /\ UNCHANGED bindingSets
    BY <1>21 DEF Drain
  <2> QED BY <2>1, <2>2, SameKernels
<1>22. ASSUME CloseChild(g) PROVE KernelsCounted'
  <2> DEFINE c == Last(closeList)
  <2>1. pc' = pc /\ op' = op /\ \A h \in Goroutines : pc[h] \in {"idle"} \cup Closing
    BY <1>22, NobodyCalls DEF CloseChild, Destroying
  <2>2. c \in Resources
    BY <1>22, LastAndFront DEF CloseChild, DeviceTypes
  <2>3. \A t \in Sets : (HoldsKernel(t) <=> life[t] = "live") /\ (HoldsKernel(t)' <=> life'[t] = "live")
    BY <2>1 DEF HoldsKernel, Binding
  <2>4. KernelsCounted
    OBVIOUS
  <2>5. CASE UNCHANGED <<life, bindingSets>>
    BY <2>3, <2>4, <2>5, SameKernels
  <2>6. ASSUME life[c] = "live", Become(c, "closed"), c \in Sets, CloseSetFromDevice(c)
        PROVE  KernelsCounted'
    <3>1. PICK s \in Sets : s = c
      BY <2>6
    <3>2. life' = [life EXCEPT ![s] = "closed"] /\ bindingSets' = Less(bindingSets, KernelOf[s])
      BY <2>6, <3>1 DEF Become, CloseSetFromDevice
    <3> HIDE DEF c
    <3>3. HoldsKernel(s) /\ ~HoldsKernel(s)' /\ \A t \in Sets \ {s} : HoldsKernel(t)' <=> HoldsKernel(t)
      BY <2>3, <2>6, <3>1, <3>2 DEF Resources
    <3> QED BY <3>2, <3>3, KernelReleased
  <2>7. ASSUME Become(c, "closed"), c \notin Sets, UNCHANGED bindingSets
        PROVE  KernelsCounted'
    <3>1. \A t \in Sets : life'[t] = life[t]
      BY <2>2, <2>7 DEF Become
    <3> QED BY <2>3, <2>4, <2>7, <3>1, SameKernels
  <2> QED BY <1>22, <2>5, <2>6, <2>7, ResourcesAssumption DEF CloseChild,
      CloseRecorderFromDevice
<1>23. ASSUME EndClose(g) PROVE KernelsCounted'
  <2>1. ASSUME NEW t \in Sets
        PROVE  HoldsKernel(t)' <=> HoldsKernel(t)
    BY <1>23, ResourcesAssumption DEF EndClose, HoldsKernel, Binding, Exclusive
  <2>2. KernelsCounted /\ UNCHANGED bindingSets
    BY <1>23 DEF EndClose
  <2> QED BY <2>1, <2>2, SameKernels
<1>24. ASSUME ReserveDispatch(g) PROVE KernelsCounted'
  <2>1. ASSUME NEW t \in Sets
        PROVE  HoldsKernel(t)' <=> HoldsKernel(t)
    BY <1>24, ResourcesAssumption DEF ReserveDispatch, Goto, HoldsKernel, Binding, Exclusive
  <2>2. KernelsCounted /\ UNCHANGED bindingSets
    BY <1>24 DEF ReserveDispatch, Goto
  <2> QED BY <2>1, <2>2, SameKernels
<1>25. ASSUME ReserveBatch(g) PROVE KernelsCounted'
  <2>1. ASSUME NEW t \in Sets
        PROVE  HoldsKernel(t)' <=> HoldsKernel(t)
    <3>1. /\ life' = life /\ pc[g] \notin Binding /\ pc'[g] \notin Binding
          /\ \A h \in Goroutines \ {g} : pc'[h] = pc[h] /\ op'[h] = op[h]
      BY <1>25 DEF ReserveBatch, End, Binding
    <3> QED BY ONLY <3>1 DEF HoldsKernel
  <2>2. KernelsCounted /\ UNCHANGED bindingSets
    BY <1>25 DEF ReserveBatch, End, DestroyNatives
  <2> QED BY <2>1, <2>2, SameKernels
<1> QED BY <1>1, <1>2, <1>3, <1>4, <1>5, <1>6, <1>7, <1>8, <1>9, <1>10, <1>11, <1>12, <1>13,
    <1>14, <1>15, <1>16, <1>17, <1>18, <1>19, <1>20, <1>21, <1>22, <1>23, <1>24, <1>25
        DEF Call, Step

\* After a lost batch no other one is submitted until Device.Close has cleaned up.
LEMMA LostOnceKept ==
    ASSUME ResourcesInv, [Next]_vars
    PROVE  LostOnce'
<1> USE DEF ResourcesInv, deviceVars, countVars, recVars, Types, CallTypes, LostOnce
<1>0. CASE UNCHANGED vars
  BY <1>0 DEF vars
<1> SUFFICES ASSUME NEW g \in Goroutines, Call(g) \/ Step(g) PROVE LostOnce'
  BY <1>0 DEF Next
<1>1. ASSUME NEW x \in Resources, Create(g, x) PROVE LostOnce'
  BY <1>1 DEF Create, Begin, Become
<1>2. ASSUME NEW x \in Resources, CloseUnheld(g, x) PROVE LostOnce'
  BY <1>2 DEF CloseUnheld, AtOnce, DestroyNatives, Become
<1>3. ASSUME NEW s \in Sets, NewBindings(g, s) PROVE LostOnce'
  BY <1>3 DEF NewBindings, Begin, Become
<1>4. ASSUME NEW s \in Sets, CloseSet(g, s) PROVE LostOnce'
  BY <1>4 DEF CloseSet, Unused, Begin, DestroyNatives, Become
<1>5. ASSUME NEW s \in Sets, DispatchAndWait(g, s) PROVE LostOnce'
  BY <1>5 DEF DispatchAndWait, Begin
<1>6. ASSUME NEW r \in Recorders, Submit(g, r) PROVE LostOnce'
  BY <1>6 DEF Submit, Begin
<1>7. ASSUME NEW r \in Recorders, FinishRecorder(g, r) PROVE LostOnce'
  BY <1>7 DEF FinishRecorder, Begin, DestroyNatives
<1>8. ASSUME NEW r \in Recorders, LoseRecorder(g, r) PROVE LostOnce'
  BY <1>8 DEF LoseRecorder, AtOnce
<1>9. ASSUME NEW r \in Recorders, NEW s \in Sets, Dispatch(g, r, s) PROVE LostOnce'
  BY <1>9 DEF Dispatch, AtOnce
<1>10. ASSUME CloseDevice(g) PROVE LostOnce'
  BY <1>10 DEF CloseDevice
<1>11. ASSUME CreateNative(g) PROVE LostOnce'
  BY <1>11 DEF CreateNative, FailCreation, Goto, End, DestroyNatives, Become
<1>12. ASSUME AddChild(g) PROVE LostOnce'
  BY <1>12 DEF AddChild, FailCreation, Goto, End, DestroyNatives, Become
<1>13. ASSUME RetainKernel(g) PROVE LostOnce'
  BY <1>13 DEF RetainKernel, Goto, End, Become
<1>14. ASSUME RetainBuffer(g) PROVE LostOnce'
  BY <1>14 DEF RetainBuffer, Goto
<1>15. ASSUME ReleaseBuffer(g) PROVE LostOnce'
  BY <1>15 DEF ReleaseBuffer
<1>16. ASSUME EndRelease(g) PROVE LostOnce'
  BY <1>16 DEF EndRelease, ReleaseKernel, Become, End
<1>17. ASSUME SubmitDispatch(g) PROVE LostOnce'
  <2>1. pc \in [Goroutines -> Labels] /\ LostOnce /\ UNCHANGED transients
    BY <1>17 DEF SubmitDispatch
  <2>2. \E l \in {"cleanup", "reserve"} : pc' = [pc EXCEPT ![g] = l]
    BY <1>17 DEF SubmitDispatch, Goto
  <2> QED BY <2>1, <2>2 DEF LostOnce
<1>18. ASSUME WaitForDispatch(g) PROVE LostOnce'
  <2>1. pc \in [Goroutines -> Labels] /\ LostOnce
    OBVIOUS
  <2>2. \/ pc' = [pc EXCEPT ![g] = "cleanup"] /\ UNCHANGED transients
        \/ pc' = [pc EXCEPT ![g] = "idle"] /\ transients' = transients \cup {<<g, op[g][2]>>}
    BY <1>18 DEF WaitForDispatch, Goto, End
  <2> QED BY <2>1, <2>2 DEF LostOnce
<1>19. ASSUME Cleanup(g) PROVE LostOnce'
  BY <1>19 DEF Cleanup, End
<1>20. ASSUME ReleaseSet(g) PROVE LostOnce'
  BY <1>20 DEF ReleaseSet, Become, End
<1>21. ASSUME Drain(g) PROVE LostOnce'
  BY <1>21 DEF Drain
<1>22. ASSUME CloseChild(g) PROVE LostOnce'
  BY <1>22 DEF CloseChild, CloseSetFromDevice, CloseRecorderFromDevice, DestroyNatives, Become
<1>23. ASSUME EndClose(g) PROVE LostOnce'
  BY <1>23 DEF EndClose
<1>24. ASSUME ReserveDispatch(g) PROVE LostOnce'
  <2>1. pc \in [Goroutines -> Labels] /\ LostOnce /\ UNCHANGED transients
    BY <1>24 DEF ReserveDispatch
  <2>2. pc' = [pc EXCEPT ![g] = "cleanup"] \/ (pc' = [pc EXCEPT ![g] = "fence"] /\ transients = {})
    BY <1>24 DEF ReserveDispatch, Goto, SubmissionErr
  <2> QED BY <2>1, <2>2 DEF LostOnce
<1>25. ASSUME ReserveBatch(g) PROVE LostOnce'
  BY <1>25 DEF ReserveBatch, End, DestroyNatives
<1> QED BY <1>1, <1>2, <1>3, <1>4, <1>5, <1>6, <1>7, <1>8, <1>9, <1>10, <1>11, <1>12, <1>13,
    <1>14, <1>15, <1>16, <1>17, <1>18, <1>19, <1>20, <1>21, <1>22, <1>23, <1>24, <1>25
        DEF Call, Step

\* A step that changes nothing that holds a set.
LEMMA SameDispatchers ==
    ASSUME \A h \in Goroutines : pc'[h] \in Using <=> pc[h] \in Using,
           \A h \in Goroutines : pc[h] \in Using => op'[h] = op[h]
    PROVE  \A s : DispatchersOf(s)' = DispatchersOf(s)
BY DEF DispatchersOf

LEMMA SameRecorders ==
    ASSUME RecordersCounted, UNCHANGED <<recorders, recSets, transients>>,
           \A h \in Goroutines : pc'[h] \in Using <=> pc[h] \in Using,
           \A h \in Goroutines : pc[h] \in Using => op'[h] = op[h]
    PROVE  RecordersCounted'
<1>1. \A s : DispatchersOf(s)' = DispatchersOf(s)
  BY SameDispatchers
<1>2. \A s : RecordersOf(s)' = RecordersOf(s) /\ LostOf(s)' = LostOf(s)
  BY DEF RecordersOf, LostOf
<1> QED BY <1>1, <1>2 DEF RecordersCounted

\* BindingSet.recorders is the number of recordings and dispatches that hold the set.
LEMMA RecordersCountedKept ==
    ASSUME ResourcesInv, [Next]_vars
    PROVE  RecordersCounted'
<1> USE DEF ResourcesInv, deviceVars, countVars, recVars, Types, DeviceTypes, CountTypes,
    RecorderTypes, CallTypes, CallsFit, CallFits
<1>0. CASE UNCHANGED vars
  BY <1>0, SameRecorders DEF vars
<1> SUFFICES ASSUME NEW g \in Goroutines, Call(g) \/ Step(g) PROVE RecordersCounted'
  BY <1>0 DEF Next
<1>1. ASSUME NEW x \in Resources, Create(g, x) PROVE RecordersCounted'
  <2>1. /\ RecordersCounted /\ UNCHANGED <<recorders, recSets, transients>>
        /\ \A h \in Goroutines : pc'[h] \in Using <=> pc[h] \in Using
        /\ \A h \in Goroutines : pc[h] \in Using => op'[h] = op[h]
    BY <1>1 DEF Create, Begin, Become, Using
  <2> QED BY <2>1, SameRecorders
<1>2. ASSUME NEW x \in Resources, CloseUnheld(g, x) PROVE RecordersCounted'
  <2>1. /\ RecordersCounted /\ UNCHANGED <<recorders, recSets, transients>>
        /\ \A h \in Goroutines : pc'[h] \in Using <=> pc[h] \in Using
        /\ \A h \in Goroutines : pc[h] \in Using => op'[h] = op[h]
    BY <1>2 DEF CloseUnheld, AtOnce, DestroyNatives, Become, Using
  <2> QED BY <2>1, SameRecorders
<1>3. ASSUME NEW s \in Sets, NewBindings(g, s) PROVE RecordersCounted'
  <2>1. /\ RecordersCounted /\ UNCHANGED <<recorders, recSets, transients>>
        /\ \A h \in Goroutines : pc'[h] \in Using <=> pc[h] \in Using
        /\ \A h \in Goroutines : pc[h] \in Using => op'[h] = op[h]
    BY <1>3 DEF NewBindings, Begin, Become, Using
  <2> QED BY <2>1, SameRecorders
<1>4. ASSUME NEW s \in Sets, CloseSet(g, s) PROVE RecordersCounted'
  <2>1. /\ RecordersCounted /\ UNCHANGED <<recorders, recSets, transients>>
        /\ \A h \in Goroutines : pc'[h] \in Using <=> pc[h] \in Using
        /\ \A h \in Goroutines : pc[h] \in Using => op'[h] = op[h]
    BY <1>4 DEF CloseSet, Unused, Begin, DestroyNatives, Become, Using
  <2> QED BY <2>1, SameRecorders
<1>5. ASSUME NEW s \in Sets, DispatchAndWait(g, s) PROVE RecordersCounted'
  <2>1. /\ pc[g] = "idle" /\ pc' = [pc EXCEPT ![g] = "record"] /\ op' = [op EXCEPT ![g] = <<"dispatch", s>>]
        /\ recorders' = [recorders EXCEPT ![s] = @ + 1] /\ UNCHANGED <<recSets, transients>>
    BY <1>5 DEF DispatchAndWait, Begin
  <2>2. DispatchersOf(s)' = DispatchersOf(s) \cup {g} /\ g \notin DispatchersOf(s)
    BY <2>1 DEF DispatchersOf, Using
  <2>3. Cardinality(DispatchersOf(s)') = Cardinality(DispatchersOf(s)) + 1
    BY <2>2, OneMore, HoldersAreFinite
  <2>4. \A t \in Sets \ {s} : DispatchersOf(t)' = DispatchersOf(t)
    BY <2>1 DEF DispatchersOf, Using
  <2>5. \A t : RecordersOf(t)' = RecordersOf(t) /\ LostOf(t)' = LostOf(t)
    BY <2>1 DEF RecordersOf, LostOf
  <2>6. recorders'[s] = recorders[s] + 1 /\ \A t \in Sets \ {s} : recorders'[t] = recorders[t]
    BY <2>1
  <2>20. RecordersCounted /\ \A t \in Sets : Cardinality(LostOf(t)) \in Nat
    BY LostIsFinite
  <2> QED BY ONLY <2>3, <2>4, <2>5, <2>6, <2>20, HoldersAreFinite DEF RecordersCounted
<1>6. ASSUME NEW r \in Recorders, Submit(g, r) PROVE RecordersCounted'
  <2>1. /\ RecordersCounted /\ UNCHANGED <<recorders, recSets, transients>>
        /\ \A h \in Goroutines : pc'[h] \in Using <=> pc[h] \in Using
        /\ \A h \in Goroutines : pc[h] \in Using => op'[h] = op[h]
    BY <1>6 DEF Submit, Begin, Using
  <2> QED BY <2>1, SameRecorders
<1>7. ASSUME NEW r \in Recorders, FinishRecorder(g, r) PROVE RecordersCounted'
  <2>1. /\ RecordersCounted /\ UNCHANGED <<recorders, recSets, transients>>
        /\ \A h \in Goroutines : pc'[h] \in Using <=> pc[h] \in Using
        /\ \A h \in Goroutines : pc[h] \in Using => op'[h] = op[h]
    BY <1>7 DEF FinishRecorder, Begin, DestroyNatives, Using
  <2> QED BY <2>1, SameRecorders
<1>8. ASSUME NEW r \in Recorders, LoseRecorder(g, r) PROVE RecordersCounted'
  <2>1. /\ RecordersCounted /\ UNCHANGED <<recorders, recSets, transients>>
        /\ \A h \in Goroutines : pc'[h] \in Using <=> pc[h] \in Using
        /\ \A h \in Goroutines : pc[h] \in Using => op'[h] = op[h]
    BY <1>8 DEF LoseRecorder, AtOnce, Using
  <2> QED BY <2>1, SameRecorders
<1>9. ASSUME NEW r \in Recorders, NEW s \in Sets, Dispatch(g, r, s) PROVE RecordersCounted'
  <2>1. /\ s \notin recSets[r] /\ recSets' = [recSets EXCEPT ![r] = @ \cup {s}]
        /\ recorders' = [recorders EXCEPT ![s] = @ + 1] /\ UNCHANGED <<transients, pc, op>>
    BY <1>9 DEF Dispatch, AtOnce
  <2>2. RecordersOf(s)' = RecordersOf(s) \cup {r} /\ r \notin RecordersOf(s)
    BY <2>1 DEF RecordersOf
  <2>3. Cardinality(RecordersOf(s)') = Cardinality(RecordersOf(s)) + 1
    BY <2>2, OneMore, HoldersAreFinite
  <2>4. \A t \in Sets \ {s} : RecordersOf(t)' = RecordersOf(t)
    BY <2>1 DEF RecordersOf
  <2>5. \A t : DispatchersOf(t)' = DispatchersOf(t) /\ LostOf(t)' = LostOf(t)
    BY <2>1 DEF DispatchersOf, LostOf
  <2>6. recorders'[s] = recorders[s] + 1 /\ \A t \in Sets \ {s} : recorders'[t] = recorders[t]
    BY <2>1
  <2>20. RecordersCounted /\ \A t \in Sets : Cardinality(LostOf(t)) \in Nat
    BY LostIsFinite
  <2> QED BY ONLY <2>3, <2>4, <2>5, <2>6, <2>20, HoldersAreFinite DEF RecordersCounted
<1>10. ASSUME CloseDevice(g) PROVE RecordersCounted'
  <2>1. /\ RecordersCounted /\ UNCHANGED <<recorders, recSets, transients>>
        /\ \A h \in Goroutines : pc'[h] \in Using <=> pc[h] \in Using
        /\ \A h \in Goroutines : pc[h] \in Using => op'[h] = op[h]
    BY <1>10 DEF CloseDevice, Using
  <2> QED BY <2>1, SameRecorders
<1>11. ASSUME CreateNative(g) PROVE RecordersCounted'
  <2>1. /\ RecordersCounted /\ UNCHANGED <<recorders, recSets, transients>>
        /\ \A h \in Goroutines : pc'[h] \in Using <=> pc[h] \in Using
        /\ \A h \in Goroutines : pc[h] \in Using => op'[h] = op[h]
    BY <1>11 DEF CreateNative, FailCreation, Goto, End, DestroyNatives, Become, Using
  <2> QED BY <2>1, SameRecorders
<1>12. ASSUME AddChild(g) PROVE RecordersCounted'
  <2>1. /\ RecordersCounted /\ UNCHANGED <<recorders, recSets, transients>>
        /\ \A h \in Goroutines : pc'[h] \in Using <=> pc[h] \in Using
        /\ \A h \in Goroutines : pc[h] \in Using => op'[h] = op[h]
    BY <1>12 DEF AddChild, FailCreation, Goto, End, DestroyNatives, Become, Using
  <2> QED BY <2>1, SameRecorders
<1>13. ASSUME RetainKernel(g) PROVE RecordersCounted'
  <2>1. /\ RecordersCounted /\ UNCHANGED <<recorders, recSets, transients>>
        /\ \A h \in Goroutines : pc'[h] \in Using <=> pc[h] \in Using
        /\ \A h \in Goroutines : pc[h] \in Using => op'[h] = op[h]
    BY <1>13 DEF RetainKernel, Goto, End, Become, Using
  <2> QED BY <2>1, SameRecorders
<1>14. ASSUME RetainBuffer(g) PROVE RecordersCounted'
  <2>1. /\ RecordersCounted /\ UNCHANGED <<recorders, recSets, transients>>
        /\ \A h \in Goroutines : pc'[h] \in Using <=> pc[h] \in Using
        /\ \A h \in Goroutines : pc[h] \in Using => op'[h] = op[h]
    BY <1>14 DEF RetainBuffer, Goto, Using
  <2> QED BY <2>1, SameRecorders
<1>15. ASSUME ReleaseBuffer(g) PROVE RecordersCounted'
  <2>1. /\ RecordersCounted /\ UNCHANGED <<recorders, recSets, transients>>
        /\ \A h \in Goroutines : pc'[h] \in Using <=> pc[h] \in Using
        /\ \A h \in Goroutines : pc[h] \in Using => op'[h] = op[h]
    BY <1>15 DEF ReleaseBuffer, Using
  <2> QED BY <2>1, SameRecorders
<1>16. ASSUME EndRelease(g) PROVE RecordersCounted'
  <2>1. /\ RecordersCounted /\ UNCHANGED <<recorders, recSets, transients>>
        /\ \A h \in Goroutines : pc'[h] \in Using <=> pc[h] \in Using
        /\ \A h \in Goroutines : pc[h] \in Using => op'[h] = op[h]
    BY <1>16 DEF EndRelease, ReleaseKernel, Become, End, Using
  <2> QED BY <2>1, SameRecorders
<1>17. ASSUME SubmitDispatch(g) PROVE RecordersCounted'
  <2>1. /\ RecordersCounted /\ UNCHANGED <<recorders, recSets, transients>>
        /\ \A h \in Goroutines : pc'[h] \in Using <=> pc[h] \in Using
        /\ \A h \in Goroutines : pc[h] \in Using => op'[h] = op[h]
    BY <1>17 DEF SubmitDispatch, Goto, Using
  <2> QED BY <2>1, SameRecorders
<1>18. ASSUME WaitForDispatch(g) PROVE RecordersCounted'
  <2>1. PICK s \in Sets : s = op[g][2] /\ pc[g] = "fence"
    BY <1>18 DEF WaitForDispatch, CallsFit, CallFits, Using
  <2>2. CASE Goto(g, "cleanup") /\ UNCHANGED transients
    <3>1. /\ RecordersCounted /\ UNCHANGED <<recorders, recSets, transients>>
          /\ \A h \in Goroutines : pc'[h] \in Using <=> pc[h] \in Using
          /\ \A h \in Goroutines : pc[h] \in Using => op'[h] = op[h]
      BY <1>18, <2>2 DEF WaitForDispatch, Goto, Using
    <3> QED BY <3>1, SameRecorders
  <2>3. CASE End(g) /\ transients' = transients \cup {<<g, op[g][2]>>}
    <3>1. /\ pc' = [pc EXCEPT ![g] = "idle"] /\ op' = [op EXCEPT ![g] = << >>]
          /\ transients' = transients \cup {<<g, s>>} /\ UNCHANGED <<recorders, recSets>>
      BY <1>18, <2>1, <2>3 DEF WaitForDispatch, End
    <3>2. DispatchersOf(s)' = DispatchersOf(s) \ {g} /\ g \in DispatchersOf(s)
      BY <2>1, <3>1 DEF DispatchersOf, Using
    <3>3. /\ Cardinality(DispatchersOf(s)') = Cardinality(DispatchersOf(s)) - 1
          /\ Cardinality(DispatchersOf(s)) > 0
      BY <3>2, OneLess, HoldersAreFinite
    <3>4. LostOf(s)' = LostOf(s) \cup {<<g, s>>} /\ <<g, s>> \notin LostOf(s)
      BY <2>1, <3>1 DEF LostOf, LostOnce
    <3>5. Cardinality(LostOf(s)') = Cardinality(LostOf(s)) + 1
      BY <3>4, OneMore, LostIsFinite
    <3>6. \A t \in Sets \ {s} : DispatchersOf(t)' = DispatchersOf(t)
      BY <2>1, <3>1 DEF DispatchersOf, Using
    <3>7. \A t \in Sets \ {s} : LostOf(t)' = LostOf(t)
      BY <3>1 DEF LostOf
    <3>8. \A t : RecordersOf(t)' = RecordersOf(t)
      BY <3>1 DEF RecordersOf
    <3>9. recorders' = recorders
      BY <3>1
    <3>20. RecordersCounted /\ \A t \in Sets : Cardinality(LostOf(t)) \in Nat
      BY LostIsFinite
    <3> QED BY ONLY <3>3, <3>5, <3>6, <3>7, <3>8, <3>9, <3>20,
        HoldersAreFinite DEF RecordersCounted
  <2> QED BY <1>18, <2>2, <2>3 DEF WaitForDispatch
<1>19. ASSUME Cleanup(g) PROVE RecordersCounted'
  <2>1. PICK s \in Sets : s = op[g][2] /\ pc[g] = "cleanup"
    BY <1>19 DEF Cleanup, CallsFit, CallFits, Using
  <2>2. /\ pc' = [pc EXCEPT ![g] = "idle"] /\ op' = [op EXCEPT ![g] = << >>]
        /\ recorders' = Less(recorders, s) /\ UNCHANGED <<recSets, transients>>
    BY <1>19, <2>1 DEF Cleanup, End
  <2>3. DispatchersOf(s)' = DispatchersOf(s) \ {g} /\ g \in DispatchersOf(s)
    BY <2>1, <2>2 DEF DispatchersOf, Using
  <2>4. Cardinality(DispatchersOf(s)') = Cardinality(DispatchersOf(s)) - 1 /\ Cardinality(DispatchersOf(s)) > 0
    BY <2>3, OneLess, HoldersAreFinite
  <2>5. \A t \in Sets \ {s} : DispatchersOf(t)' = DispatchersOf(t)
    BY <2>1, <2>2 DEF DispatchersOf, Using
  <2>6. \A t : RecordersOf(t)' = RecordersOf(t) /\ LostOf(t)' = LostOf(t)
    BY <2>2 DEF RecordersOf, LostOf
  <2>7. recorders \in [Sets -> Nat]
    OBVIOUS
  <2>8. /\ recorders'[s] = IF recorders[s] > 0 THEN recorders[s] - 1 ELSE 0
        /\ \A t \in Sets \ {s} : recorders'[t] = recorders[t]
    BY ONLY <2>1, <2>2, <2>7, LessProperties
  <2>20. RecordersCounted /\ \A t \in Sets : Cardinality(LostOf(t)) \in Nat
    BY LostIsFinite
  <2> QED BY ONLY <2>4, <2>5, <2>6, <2>8, <2>20, HoldersAreFinite DEF RecordersCounted
<1>20. ASSUME ReleaseSet(g) PROVE RecordersCounted'
  <2>1. PICK r \in Recorders : r = op[g][2] /\ pc[g] = "sets"
    BY <1>20 DEF ReleaseSet, CallsFit, CallFits
  <2>2. CASE UNCHANGED <<recorders, recSets>>
    <3>1. /\ RecordersCounted /\ UNCHANGED <<recorders, recSets, transients>>
          /\ \A h \in Goroutines : pc'[h] \in Using <=> pc[h] \in Using
          /\ \A h \in Goroutines : pc[h] \in Using => op'[h] = op[h]
      BY <1>20, <2>1, <2>2 DEF ReleaseSet, End, Using
    <3> QED BY <3>1, SameRecorders
  <2>3. ASSUME NEW s \in recSets[r], recorders' = Less(recorders, s),
               recSets' = [recSets EXCEPT ![r] = @ \ {s}], UNCHANGED <<transients, pc, op>>
        PROVE  RecordersCounted'
    <3>1. s \in Sets /\ RecordersOf(s)' = RecordersOf(s) \ {r} /\ r \in RecordersOf(s)
      BY <2>3 DEF RecordersOf
    <3>2. Cardinality(RecordersOf(s)') = Cardinality(RecordersOf(s)) - 1 /\ Cardinality(RecordersOf(s)) > 0
      BY <3>1, OneLess, HoldersAreFinite
    <3>3. \A t \in Sets \ {s} : RecordersOf(t)' = RecordersOf(t)
      BY <2>3 DEF RecordersOf
    <3>4. \A t : DispatchersOf(t)' = DispatchersOf(t) /\ LostOf(t)' = LostOf(t)
      BY <2>3 DEF DispatchersOf, LostOf
    <3>5. recorders \in [Sets -> Nat]
      OBVIOUS
    <3>6. /\ recorders'[s] = IF recorders[s] > 0 THEN recorders[s] - 1 ELSE 0
          /\ \A t \in Sets \ {s} : recorders'[t] = recorders[t]
      BY ONLY <2>3, <3>1, <3>5, LessProperties
    <3>20. RecordersCounted /\ \A t \in Sets : Cardinality(LostOf(t)) \in Nat
      BY LostIsFinite
    <3> QED BY ONLY <3>1, <3>2, <3>3, <3>4, <3>6, <3>20, HoldersAreFinite DEF RecordersCounted
  <2> QED BY <1>20, <2>1, <2>2, <2>3 DEF ReleaseSet
<1>21. ASSUME Drain(g) PROVE RecordersCounted'
  <2> DEFINE lost == [s \in Sets |-> Cardinality(LostOf(s))]
  <2>1. /\ recorders' = LessBy(recorders, lost) /\ transients' = {} /\ UNCHANGED recSets
        /\ op' = op /\ pc' = [pc EXCEPT ![g] = "children"] /\ pc[g] = "drain"
    BY <1>21 DEF Drain, LostOf
  <2>2. lost \in [Sets -> Nat] /\ recorders \in [Sets -> Nat]
    BY LostIsFinite
  <2>3. \A s \in Sets : recorders'[s] = IF recorders[s] > lost[s] THEN recorders[s] - lost[s] ELSE 0
    <3> HIDE DEF lost
    <3> QED BY ONLY <2>1, <2>2, LessByProperties
  <2>4. \A s : RecordersOf(s)' = RecordersOf(s) /\ DispatchersOf(s)' = DispatchersOf(s)
    BY <2>1 DEF RecordersOf, DispatchersOf, Using
  <2>5. \A s : LostOf(s)' = {} /\ Cardinality(LostOf(s)') = 0
    BY <2>1, FS_EmptySet DEF LostOf
  <2>20. RecordersCounted /\ \A t \in Sets : Cardinality(LostOf(t)) \in Nat
    BY LostIsFinite
  <2> QED BY ONLY <2>3, <2>4, <2>5, <2>20, HoldersAreFinite DEF RecordersCounted
<1>22. ASSUME CloseChild(g) PROVE RecordersCounted'
  <2>0. UNCHANGED <<pc, op, transients>>
    BY <1>22 DEF CloseChild
  <2>1. CASE UNCHANGED <<recorders, recSets>>
    BY <2>0, <2>1, SameRecorders
  <2>2. ASSUME NEW r \in Recorders, CloseRecorderFromDevice(r)
        PROVE  RecordersCounted'
    <3> DEFINE own == [s \in Sets |-> IF s \in recSets[r] THEN 1 ELSE 0]
    <3>1. recorders' = LessBy(recorders, own) /\ recSets' = [recSets EXCEPT ![r] = {}]
      BY <2>2 DEF CloseRecorderFromDevice
    <3>2. own \in [Sets -> Nat] /\ recorders \in [Sets -> Nat]
      OBVIOUS
    <3>3. \A s \in Sets : recorders'[s] = IF recorders[s] > own[s] THEN recorders[s] - own[s] ELSE 0
      <4> HIDE DEF own
      <4> QED BY ONLY <3>1, <3>2, LessByProperties
    <3>4. \A s : DispatchersOf(s)' = DispatchersOf(s) /\ LostOf(s)' = LostOf(s)
      BY <2>0 DEF DispatchersOf, LostOf
    <3>5. ASSUME NEW s \in Sets
          PROVE  recorders'[s] = Cardinality(RecordersOf(s)') + Cardinality(LostOf(s)) + Cardinality(DispatchersOf(s))
      <4>0. RecordersOf(s)' = RecordersOf(s) \ {r}
        BY <3>1 DEF RecordersOf
      <4>1. CASE r \in RecordersOf(s)
        <5>1. own[s] = 1
          BY <4>1 DEF RecordersOf
        <5>2. Cardinality(RecordersOf(s)') = Cardinality(RecordersOf(s)) - 1 /\ Cardinality(RecordersOf(s)) > 0
          BY <4>0, <4>1, OneLess, HoldersAreFinite
        <5>20. RecordersCounted /\ \A t \in Sets : Cardinality(LostOf(t)) \in Nat
          BY LostIsFinite
        <5> QED BY ONLY <3>3, <5>1, <5>2, <5>20, HoldersAreFinite DEF RecordersCounted
      <4>2. CASE r \notin RecordersOf(s)
        <5>1. own[s] = 0 /\ RecordersOf(s)' = RecordersOf(s)
          BY <4>0, <4>2 DEF RecordersOf
        <5>20. RecordersCounted /\ \A t \in Sets : Cardinality(LostOf(t)) \in Nat
          BY LostIsFinite
        <5> QED BY ONLY <3>3, <5>1, <5>20, HoldersAreFinite DEF RecordersCounted
      <4> QED BY <4>1, <4>2
    <3> QED BY <3>4, <3>5 DEF RecordersCounted
  <2>3. \/ UNCHANGED <<recorders, recSets>>
        \/ \E r \in Recorders : CloseRecorderFromDevice(r)
    BY <1>22 DEF CloseChild, CloseSetFromDevice
  <2> QED BY <2>1, <2>2, <2>3
<1>23. ASSUME EndClose(g) PROVE RecordersCounted'
  <2>1. /\ RecordersCounted /\ UNCHANGED <<recorders, recSets, transients>>
        /\ \A h \in Goroutines : pc'[h] \in Using <=> pc[h] \in Using
        /\ \A h \in Goroutines : pc[h] \in Using => op'[h] = op[h]
    BY <1>23 DEF EndClose, Using
  <2> QED BY <2>1, SameRecorders
<1>24. ASSUME ReserveDispatch(g) PROVE RecordersCounted'
  <2>1. /\ RecordersCounted /\ UNCHANGED <<recorders, recSets, transients>>
        /\ \A h \in Goroutines : pc'[h] \in Using <=> pc[h] \in Using
        /\ \A h \in Goroutines : pc[h] \in Using => op'[h] = op[h]
    BY <1>24 DEF ReserveDispatch, Goto, Using
  <2> QED BY <2>1, SameRecorders
<1>25. ASSUME ReserveBatch(g) PROVE RecordersCounted'
  <2>1. /\ RecordersCounted /\ UNCHANGED <<recorders, recSets, transients>>
        /\ \A h \in Goroutines : pc'[h] \in Using <=> pc[h] \in Using
        /\ \A h \in Goroutines : pc[h] \in Using => op'[h] = op[h]
    BY <1>25 DEF ReserveBatch, End, DestroyNatives, Using
  <2> QED BY <2>1, SameRecorders
<1> QED BY <1>1, <1>2, <1>3, <1>4, <1>5, <1>6, <1>7, <1>8, <1>9, <1>10, <1>11, <1>12, <1>13,
    <1>14, <1>15, <1>16, <1>17, <1>18, <1>19, <1>20, <1>21, <1>22, <1>23, <1>24, <1>25
        DEF Call, Step

----------------------------------------------------------------------------
(* The theorems. *)

\* Once Device.Close destroys, it does for good.
LEMMA DestroyingStays ==
    ASSUME ResourcesInv, [Next]_vars, Destroying
    PROVE  Destroying'
<1>1. CASE UNCHANGED vars
  BY <1>1 DEF Destroying, vars, deviceVars
<1>2. ASSUME NEW g \in Goroutines, Call(g) \/ Step(g)
      PROVE  Destroying'
  <2>1. pc \in [Goroutines -> Labels] /\ OneCloser
    BY DEF ResourcesInv, Types, CallTypes
  <2>2. Moves(g)
    BY <1>2, EveryStepMoves
  <2> QED BY <2>1, <2>2 DEF Moves, Destroying, Closing, OneCloser
<1> QED BY <1>1, <1>2 DEF Next

\* Nothing but Device.Close goes on once it destroys.
LEMMA OnlyCloses ==
    ASSUME ResourcesInv, Destroying, NEW g \in Goroutines, Call(g) \/ Step(g)
    PROVE  CloseChild(g) \/ EndClose(g)
<1>1. pc[g] \in {"idle", "drain", "children"}
  BY NobodyCalls DEF ResourcesInv, Closing
<1>2. status # "open" /\ pc[g] # "drain"
  BY DEF ResourcesInv, OneCloser, Destroying, Closing
<1>3. ~Call(g)
  BY <1>2 DEF Call, Create, CloseUnheld, NewBindings, CloseSet, DispatchAndWait, Submit,
      FinishRecorder,
              LoseRecorder, Dispatch, CloseDevice, Begin, AtOnce
<1> QED BY <1>1, <1>2, <1>3 DEF Step, CreateNative, AddChild, RetainKernel, RetainBuffer,
    ReleaseBuffer,
              EndRelease, SubmitDispatch, ReserveDispatch, ReserveBatch, WaitForDispatch, Cleanup, ReleaseSet, Drain

Unheld(x) ==
    /\ x \in Kernels => bindingSets[x] = 0
    /\ x \in Buffers => references[x] = 0
    /\ x \in Sets => recorders[x] = 0

\* A count of zero means that nothing holds the resource.
LEMMA UnheldIsFree ==
    ASSUME ResourcesInv, NEW x \in Resources, Unheld(x)
    PROVE  /\ x \in Buffers => \A s \in Sets : \A n \in buffers[s] : BuffersOf[s][n] # x
           /\ x \in Kernels => \A s \in Sets : KernelOf[s] = x => ~HoldsKernel(s)
           /\ x \in Sets => x \notin Held
<1>1. x \in Buffers => BindersOf(x) = {}
  BY BindersAreFinite, FS_EmptySet DEF Unheld, ResourcesInv, ReferencesCounted
<1>2. x \in Kernels => KernelHolders(x) = {}
  BY HoldersAreFinite, FS_EmptySet DEF Unheld, ResourcesInv, KernelsCounted
<1>3. ASSUME x \in Sets
      PROVE  x \notin Held
  <2>1. recorders[x] = 0 /\ RecordersCounted /\ DeviceTypes
    BY <1>3 DEF Unheld, ResourcesInv, Types
  <2>2. Cardinality(RecordersOf(x)) = 0 /\ Cardinality(LostOf(x)) = 0 /\ Cardinality(DispatchersOf(x)) = 0
    BY <1>3, <2>1, HoldersAreFinite, LostIsFinite DEF RecordersCounted
  <2>3. RecordersOf(x) = {} /\ LostOf(x) = {} /\ DispatchersOf(x) = {}
    BY <1>3, <2>1, <2>2, HoldersAreFinite, LostIsFinite, FS_EmptySet
  <2> QED BY <2>3 DEF Held, RecordersOf, LostOf, DispatchersOf, Using
<1> QED BY <1>1, <1>2, <1>3, BindersOfAre DEF KernelHolders

LifeLasts ==
    \A x \in Resources : life[x] \in {"live", "closed"} => life'[x] \in {"live", "closed"}

\* What has been live never goes back to a state before.
LEMMA LifeGoesOn ==
    ASSUME ResourcesInv, [Next]_vars
    PROVE  LifeLasts
<1> USE DEF ResourcesInv, deviceVars, countVars, recVars, Types, LifeTypes, CallTypes,
    RecorderTypes, CallsFit, CallFits, Creating, Using, Closing, LifeLasts
<1>0. CASE UNCHANGED vars
  BY <1>0 DEF vars
<1> SUFFICES ASSUME NEW g \in Goroutines, Call(g) \/ Step(g)
             PROVE  LifeLasts
  BY <1>0 DEF Next
<1>1. ASSUME NEW x \in Resources, Create(g, x) PROVE LifeLasts
  BY <1>1 DEF Create, Begin, Become
<1>2. ASSUME NEW x \in Resources, CloseUnheld(g, x) PROVE LifeLasts
  BY <1>2 DEF CloseUnheld, AtOnce, DestroyNatives, Become
<1>3. ASSUME NEW s \in Sets, NewBindings(g, s) PROVE LifeLasts
  BY <1>3 DEF NewBindings, Begin, Become, Resources
<1>4. ASSUME NEW s \in Sets, CloseSet(g, s) PROVE LifeLasts
  BY <1>4 DEF CloseSet, Unused, Begin, DestroyNatives, Become, Resources
<1>5. ASSUME NEW s \in Sets, DispatchAndWait(g, s) PROVE LifeLasts
  BY <1>5 DEF DispatchAndWait, Begin
<1>6. ASSUME NEW r \in Recorders, Submit(g, r) PROVE LifeLasts
  BY <1>6 DEF Submit, Begin
<1>7. ASSUME NEW r \in Recorders, FinishRecorder(g, r) PROVE LifeLasts
  BY <1>7 DEF FinishRecorder, Begin, DestroyNatives
<1>8. ASSUME NEW r \in Recorders, LoseRecorder(g, r) PROVE LifeLasts
  BY <1>8 DEF LoseRecorder, AtOnce
<1>9. ASSUME NEW r \in Recorders, NEW s \in Sets, Dispatch(g, r, s) PROVE LifeLasts
  BY <1>9 DEF Dispatch, AtOnce
<1>10. ASSUME CloseDevice(g) PROVE LifeLasts
  BY <1>10 DEF CloseDevice
<1>11. ASSUME CreateNative(g) PROVE LifeLasts
  BY <1>11 DEF CreateNative, FailCreation, Goto, End, DestroyNatives, Become
<1>12. ASSUME AddChild(g) PROVE LifeLasts
  BY <1>12 DEF AddChild, FailCreation, Goto, End, DestroyNatives, Become
<1>13. ASSUME RetainKernel(g) PROVE LifeLasts
  BY <1>13 DEF RetainKernel, Goto, End, Become
<1>14. ASSUME RetainBuffer(g) PROVE LifeLasts
  BY <1>14 DEF RetainBuffer, Goto
<1>15. ASSUME ReleaseBuffer(g) PROVE LifeLasts
  BY <1>15 DEF ReleaseBuffer
<1>16. ASSUME EndRelease(g) PROVE LifeLasts
  BY <1>16 DEF EndRelease, ReleaseKernel, Become, End
<1>17. ASSUME SubmitDispatch(g) PROVE LifeLasts
  BY <1>17 DEF SubmitDispatch, Goto
<1>18. ASSUME WaitForDispatch(g) PROVE LifeLasts
  BY <1>18 DEF WaitForDispatch, Goto, End
<1>19. ASSUME Cleanup(g) PROVE LifeLasts
  BY <1>19 DEF Cleanup, End
<1>20. ASSUME ReleaseSet(g) PROVE LifeLasts
  BY <1>20 DEF ReleaseSet, Become, End
<1>21. ASSUME Drain(g) PROVE LifeLasts
  BY <1>21 DEF Drain
<1>22. ASSUME CloseChild(g) PROVE LifeLasts
  BY <1>22 DEF CloseChild, CloseSetFromDevice, CloseRecorderFromDevice, DestroyNatives, Become
<1>23. ASSUME EndClose(g) PROVE LifeLasts
  BY <1>23 DEF EndClose
<1>24. ASSUME ReserveDispatch(g) PROVE LifeLasts
  BY <1>24 DEF ReserveDispatch, Goto
<1>25. ASSUME ReserveBatch(g) PROVE LifeLasts
  BY <1>25 DEF ReserveBatch, End, DestroyNatives
<1> QED BY <1>1, <1>2, <1>3, <1>4, <1>5, <1>6, <1>7, <1>8, <1>9, <1>10, <1>11, <1>12, <1>13,
    <1>14, <1>15, <1>16, <1>17, <1>18, <1>19, <1>20, <1>21, <1>22, <1>23, <1>24, <1>25
        DEF Call, Step

OnlyUnheldClosed ==
    \A x \in Resources : life[x] = "live" => life'[x] = "live" \/ Unheld(x)

\* Only what nothing holds is closed before Device.Close destroys.
LEMMA LiveGoesOn ==
    ASSUME ResourcesInv, ~Destroying, [Next]_vars
    PROVE  OnlyUnheldClosed
<1> USE DEF ResourcesInv, deviceVars, countVars, recVars, Types, LifeTypes, CallTypes,
    RecorderTypes, CallsFit, CallFits, Creating, Using, Closing, Unheld, OnlyUnheldClosed
<1>0. CASE UNCHANGED vars
  BY <1>0 DEF vars
<1> SUFFICES ASSUME NEW g \in Goroutines, Call(g) \/ Step(g)
             PROVE  OnlyUnheldClosed
  BY <1>0 DEF Next
<1>1. ASSUME NEW x \in Resources, Create(g, x) PROVE OnlyUnheldClosed
  BY <1>1 DEF Create, Begin, Become
<1>2. ASSUME NEW x \in Resources, CloseUnheld(g, x) PROVE OnlyUnheldClosed
  BY <1>2, ResourcesAssumption DEF CloseUnheld, AtOnce, DestroyNatives, Become, Resources
<1>3. ASSUME NEW s \in Sets, NewBindings(g, s) PROVE OnlyUnheldClosed
  BY <1>3, ResourcesAssumption DEF NewBindings, Begin, Become, Resources
<1>4. ASSUME NEW s \in Sets, CloseSet(g, s) PROVE OnlyUnheldClosed
  BY <1>4, ResourcesAssumption DEF CloseSet, Unused, Begin, DestroyNatives, Become, Resources
<1>5. ASSUME NEW s \in Sets, DispatchAndWait(g, s) PROVE OnlyUnheldClosed
  BY <1>5 DEF DispatchAndWait, Begin
<1>6. ASSUME NEW r \in Recorders, Submit(g, r) PROVE OnlyUnheldClosed
  BY <1>6 DEF Submit, Begin
<1>7. ASSUME NEW r \in Recorders, FinishRecorder(g, r) PROVE OnlyUnheldClosed
  BY <1>7 DEF FinishRecorder, Begin, DestroyNatives
<1>8. ASSUME NEW r \in Recorders, LoseRecorder(g, r) PROVE OnlyUnheldClosed
  BY <1>8 DEF LoseRecorder, AtOnce
<1>9. ASSUME NEW r \in Recorders, NEW s \in Sets, Dispatch(g, r, s) PROVE OnlyUnheldClosed
  BY <1>9 DEF Dispatch, AtOnce
<1>10. ASSUME CloseDevice(g) PROVE OnlyUnheldClosed
  BY <1>10 DEF CloseDevice
<1>11. ASSUME CreateNative(g) PROVE OnlyUnheldClosed
  BY <1>11 DEF CreateNative, FailCreation, Goto, End, DestroyNatives, Become
<1>12. ASSUME AddChild(g) PROVE OnlyUnheldClosed
  BY <1>12 DEF AddChild, FailCreation, Goto, End, DestroyNatives, Become
<1>13. ASSUME RetainKernel(g) PROVE OnlyUnheldClosed
  BY <1>13, ResourcesAssumption DEF RetainKernel, Goto, End, Become, Resources
<1>14. ASSUME RetainBuffer(g) PROVE OnlyUnheldClosed
  BY <1>14 DEF RetainBuffer, Goto
<1>15. ASSUME ReleaseBuffer(g) PROVE OnlyUnheldClosed
  BY <1>15 DEF ReleaseBuffer
<1>16. ASSUME EndRelease(g) PROVE OnlyUnheldClosed
  BY <1>16, ResourcesAssumption DEF EndRelease, ReleaseKernel, Become, End, Resources
<1>17. ASSUME SubmitDispatch(g) PROVE OnlyUnheldClosed
  BY <1>17 DEF SubmitDispatch, Goto
<1>18. ASSUME WaitForDispatch(g) PROVE OnlyUnheldClosed
  BY <1>18 DEF WaitForDispatch, Goto, End
<1>19. ASSUME Cleanup(g) PROVE OnlyUnheldClosed
  BY <1>19 DEF Cleanup, End
<1>20. ASSUME ReleaseSet(g) PROVE OnlyUnheldClosed
  BY <1>20, ResourcesAssumption DEF ReleaseSet, Become, End, Resources
<1>21. ASSUME Drain(g) PROVE OnlyUnheldClosed
  BY <1>21 DEF Drain
<1>22. ASSUME CloseChild(g) PROVE OnlyUnheldClosed
  BY <1>22 DEF CloseChild, Destroying
<1>23. ASSUME EndClose(g) PROVE OnlyUnheldClosed
  BY <1>23 DEF EndClose
<1>24. ASSUME ReserveDispatch(g) PROVE OnlyUnheldClosed
  BY <1>24 DEF ReserveDispatch, Goto
<1>25. ASSUME ReserveBatch(g) PROVE OnlyUnheldClosed
  BY <1>25 DEF ReserveBatch, End, DestroyNatives
<1> QED BY <1>1, <1>2, <1>3, <1>4, <1>5, <1>6, <1>7, <1>8, <1>9, <1>10, <1>11, <1>12, <1>13,
    <1>14, <1>15, <1>16, <1>17, <1>18, <1>19, <1>20, <1>21, <1>22, <1>23, <1>24, <1>25
        DEF Call, Step

OnlyLiveBound ==
    \A t \in Sets : \A n \in buffers'[t] : n \in buffers[t] \/ life'[BuffersOf[t][n]] = "live"

\* What is bound, kept or held anew is live.
LEMMA NewlyBound ==
    ASSUME ResourcesInv, ~Destroying, [Next]_vars
    PROVE  OnlyLiveBound
<1> USE DEF ResourcesInv, deviceVars, countVars, recVars, Types, LifeTypes, CallTypes,
    RecorderTypes, CallsFit, CallFits, Creating, Using, Closing, CountTypes, OnlyLiveBound
<1>0. CASE UNCHANGED vars
  BY <1>0 DEF vars
<1> SUFFICES ASSUME NEW g \in Goroutines, Call(g) \/ Step(g)
             PROVE  OnlyLiveBound
  BY <1>0 DEF Next
<1>1. ASSUME NEW x \in Resources, Create(g, x) PROVE OnlyLiveBound
  BY <1>1 DEF Create, Begin, Become
<1>2. ASSUME NEW x \in Resources, CloseUnheld(g, x) PROVE OnlyLiveBound
  BY <1>2 DEF CloseUnheld, AtOnce, DestroyNatives, Become
<1>3. ASSUME NEW s \in Sets, NewBindings(g, s) PROVE OnlyLiveBound
  BY <1>3 DEF NewBindings, Begin, Become
<1>4. ASSUME NEW s \in Sets, CloseSet(g, s) PROVE OnlyLiveBound
  BY <1>4 DEF CloseSet, Unused, Begin, DestroyNatives, Become
<1>5. ASSUME NEW s \in Sets, DispatchAndWait(g, s) PROVE OnlyLiveBound
  BY <1>5 DEF DispatchAndWait, Begin
<1>6. ASSUME NEW r \in Recorders, Submit(g, r) PROVE OnlyLiveBound
  BY <1>6 DEF Submit, Begin
<1>7. ASSUME NEW r \in Recorders, FinishRecorder(g, r) PROVE OnlyLiveBound
  BY <1>7 DEF FinishRecorder, Begin, DestroyNatives
<1>8. ASSUME NEW r \in Recorders, LoseRecorder(g, r) PROVE OnlyLiveBound
  BY <1>8 DEF LoseRecorder, AtOnce
<1>9. ASSUME NEW r \in Recorders, NEW s \in Sets, Dispatch(g, r, s) PROVE OnlyLiveBound
  BY <1>9 DEF Dispatch, AtOnce
<1>10. ASSUME CloseDevice(g) PROVE OnlyLiveBound
  BY <1>10 DEF CloseDevice
<1>11. ASSUME CreateNative(g) PROVE OnlyLiveBound
  BY <1>11 DEF CreateNative, FailCreation, Goto, End, DestroyNatives, Become
<1>12. ASSUME AddChild(g) PROVE OnlyLiveBound
  BY <1>12 DEF AddChild, FailCreation, Goto, End, DestroyNatives, Become
<1>13. ASSUME RetainKernel(g) PROVE OnlyLiveBound
  BY <1>13 DEF RetainKernel, Goto, End, Become
<1>14. ASSUME RetainBuffer(g) PROVE OnlyLiveBound
  <2>1. pc[g] = "buffers" /\ Offered(g) /\ life' = life
    BY <1>14 DEF RetainBuffer, HeldLive
  <2>2. ASSUME NEW s \in Sets, NEW n \in DOMAIN BuffersOf[s], s = op[g][2], BindsAt(s, n)
        PROVE  OnlyLiveBound
    <3>1. n \in Nat \ {0} /\ BuffersOf[s][n] \in Range(BuffersOf[s])
      BY ResourcesAssumption DEF Range
    <3>2. life'[BuffersOf[s][n]] = "live"
      BY <2>1, <2>2, <3>1 DEF Offered, BindsAt
    <3>3. buffers'[s] = buffers[s] \cup {n} /\ \A t \in Sets \ {s} : buffers'[t] = buffers[t]
      BY <2>2, <3>1 DEF BindsAt
    <3> QED BY <3>2, <3>3
  <2> QED BY <1>14, <2>2, BindsNext
<1>15. ASSUME ReleaseBuffer(g) PROVE OnlyLiveBound
  <2>0. PICK s \in Sets : \E n \in buffers[s] : UnbindsAt(s, n)
    BY <1>15, UnbindsFirst
  <2>1. PICK n \in buffers[s] : UnbindsAt(s, n)
    BY <2>0
  <2>2. \A t \in Sets : buffers'[t] \subseteq buffers[t]
    BY <2>1 DEF UnbindsAt
  <2> QED BY <2>2
<1>16. ASSUME EndRelease(g) PROVE OnlyLiveBound
  BY <1>16 DEF EndRelease, ReleaseKernel, Become, End
<1>17. ASSUME SubmitDispatch(g) PROVE OnlyLiveBound
  BY <1>17 DEF SubmitDispatch, Goto
<1>18. ASSUME WaitForDispatch(g) PROVE OnlyLiveBound
  BY <1>18 DEF WaitForDispatch, Goto, End
<1>19. ASSUME Cleanup(g) PROVE OnlyLiveBound
  BY <1>19 DEF Cleanup, End
<1>20. ASSUME ReleaseSet(g) PROVE OnlyLiveBound
  BY <1>20 DEF ReleaseSet, Become, End
<1>21. ASSUME Drain(g) PROVE OnlyLiveBound
  BY <1>21 DEF Drain
<1>22. ASSUME CloseChild(g) PROVE OnlyLiveBound
  BY <1>22 DEF CloseChild, Destroying
<1>23. ASSUME EndClose(g) PROVE OnlyLiveBound
  BY <1>23 DEF EndClose
<1>24. ASSUME ReserveDispatch(g) PROVE OnlyLiveBound
  BY <1>24 DEF ReserveDispatch, Goto
<1>25. ASSUME ReserveBatch(g) PROVE OnlyLiveBound
  BY <1>25 DEF ReserveBatch, End, DestroyNatives
<1> QED BY <1>1, <1>2, <1>3, <1>4, <1>5, <1>6, <1>7, <1>8, <1>9, <1>10, <1>11, <1>12, <1>13,
    <1>14, <1>15, <1>16, <1>17, <1>18, <1>19, <1>20, <1>21, <1>22, <1>23, <1>24, <1>25
        DEF Call, Step

OnlyLiveKept ==
    \A t \in Sets : HoldsKernel(t)' => HoldsKernel(t) \/ life'[KernelOf[t]] = "live"

LEMMA NewlyKept ==
    ASSUME ResourcesInv, ~Destroying, [Next]_vars
    PROVE  OnlyLiveKept
<1> USE DEF ResourcesInv, deviceVars, countVars, recVars, Types, LifeTypes, CallTypes,
    RecorderTypes, CallsFit, CallFits, Creating, Using, Closing, OnlyLiveKept
<1>0. CASE UNCHANGED vars
  BY <1>0 DEF vars, HoldsKernel
<1> SUFFICES ASSUME NEW g \in Goroutines, Call(g) \/ Step(g)
             PROVE  OnlyLiveKept
  BY <1>0 DEF Next
<1>1. ASSUME NEW x \in Resources, Create(g, x) PROVE OnlyLiveKept
  <2>1. ASSUME NEW t \in Sets
        PROVE  HoldsKernel(t)' => HoldsKernel(t)
    BY <1>1, ResourcesAssumption DEF Create, Begin, Become, HoldsKernel, Binding, Exclusive,
        Resources
  <2> QED BY <2>1
<1>2. ASSUME NEW x \in Resources, CloseUnheld(g, x) PROVE OnlyLiveKept
  <2>1. ASSUME NEW t \in Sets
        PROVE  HoldsKernel(t)' => HoldsKernel(t)
    BY <1>2, ResourcesAssumption DEF CloseUnheld, AtOnce, DestroyNatives, Become, HoldsKernel,
        Binding, Exclusive, Resources
  <2> QED BY <2>1
<1>3. ASSUME NEW s \in Sets, NewBindings(g, s) PROVE OnlyLiveKept
  <2>1. ASSUME NEW t \in Sets
        PROVE  HoldsKernel(t)' => HoldsKernel(t)
    BY <1>3, ResourcesAssumption DEF NewBindings, Begin, Become, HoldsKernel, Binding,
        Exclusive, Resources
  <2> QED BY <2>1
<1>4. ASSUME NEW s \in Sets, CloseSet(g, s) PROVE OnlyLiveKept
  <2>1. ASSUME NEW t \in Sets
        PROVE  HoldsKernel(t)' => HoldsKernel(t)
    BY <1>4, ResourcesAssumption DEF CloseSet, Unused, Begin, DestroyNatives, Become,
        HoldsKernel, Binding, Exclusive, Resources
  <2> QED BY <2>1
<1>5. ASSUME NEW s \in Sets, DispatchAndWait(g, s) PROVE OnlyLiveKept
  <2>1. ASSUME NEW t \in Sets
        PROVE  HoldsKernel(t)' => HoldsKernel(t)
    BY <1>5, ResourcesAssumption DEF DispatchAndWait, Begin, HoldsKernel, Binding, Exclusive
  <2> QED BY <2>1
<1>6. ASSUME NEW r \in Recorders, Submit(g, r) PROVE OnlyLiveKept
  <2>1. ASSUME NEW t \in Sets
        PROVE  HoldsKernel(t)' => HoldsKernel(t)
    BY <1>6, ResourcesAssumption DEF Submit, Begin, HoldsKernel, Binding, Exclusive
  <2> QED BY <2>1
<1>7. ASSUME NEW r \in Recorders, FinishRecorder(g, r) PROVE OnlyLiveKept
  <2>1. ASSUME NEW t \in Sets
        PROVE  HoldsKernel(t)' => HoldsKernel(t)
    BY <1>7, ResourcesAssumption DEF FinishRecorder, Begin, DestroyNatives, HoldsKernel,
        Binding, Exclusive
  <2> QED BY <2>1
<1>8. ASSUME NEW r \in Recorders, LoseRecorder(g, r) PROVE OnlyLiveKept
  <2>1. ASSUME NEW t \in Sets
        PROVE  HoldsKernel(t)' => HoldsKernel(t)
    BY <1>8, ResourcesAssumption DEF LoseRecorder, AtOnce, HoldsKernel, Binding, Exclusive
  <2> QED BY <2>1
<1>9. ASSUME NEW r \in Recorders, NEW s \in Sets, Dispatch(g, r, s) PROVE OnlyLiveKept
  <2>1. ASSUME NEW t \in Sets
        PROVE  HoldsKernel(t)' => HoldsKernel(t)
    BY <1>9, ResourcesAssumption DEF Dispatch, AtOnce, HoldsKernel, Binding, Exclusive
  <2> QED BY <2>1
<1>10. ASSUME CloseDevice(g) PROVE OnlyLiveKept
  <2>1. ASSUME NEW t \in Sets
        PROVE  HoldsKernel(t)' => HoldsKernel(t)
    BY <1>10, ResourcesAssumption DEF CloseDevice, HoldsKernel, Binding, Exclusive
  <2> QED BY <2>1
<1>11. ASSUME CreateNative(g) PROVE OnlyLiveKept
  <2>1. PICK x \in Resources : x = op[g][2] /\ life[x] = "creating" /\ pc[g] = "native"
    BY <1>11 DEF CreateNative
  <2>2. pc'[g] \in Binding => op'[g] = op[g]
    BY <1>11, <2>1 DEF CreateNative, FailCreation, Goto, End, DestroyNatives, Become, Binding
  <2>3. Apart(g)
    BY <1>11, <2>1 DEF CreateNative, FailCreation, Goto, End, DestroyNatives, Become, Apart,
        Exclusive, CountTypes
  <2>4. x \in Sets => HoldsKernel(x)
    BY <2>1 DEF HoldsKernel, Binding
  <2> QED BY <2>1, <2>2, <2>3, <2>4, OthersHold
<1>12. ASSUME AddChild(g) PROVE OnlyLiveKept
  <2>1. PICK x \in Resources : x = op[g][2] /\ life[x] = "creating" /\ pc[g] = "addChild"
    BY <1>12 DEF AddChild
  <2>2. pc'[g] \in Binding => op'[g] = op[g]
    BY <1>12, <2>1 DEF AddChild, FailCreation, Goto, End, DestroyNatives, Become, Binding
  <2>3. Apart(g)
    BY <1>12, <2>1 DEF AddChild, FailCreation, Goto, End, DestroyNatives, Become, Apart,
        Exclusive, CountTypes
  <2>4. x \in Sets => HoldsKernel(x)
    BY <2>1 DEF HoldsKernel, Binding
  <2> QED BY <2>1, <2>2, <2>3, <2>4, OthersHold
<1>13. ASSUME RetainKernel(g) PROVE OnlyLiveKept
  <2>1. PICK s \in Sets : s = op[g][2] /\ life[s] = "creating" /\ pc[g] = "kernel"
    BY <1>13 DEF RetainKernel
  <2>2. CASE End(g) /\ Become(op[g][2], "failed")
    BY <2>1, <2>2, ResourcesAssumption DEF End, Become, HoldsKernel, Binding, Resources
  <2>3. CASE life[KernelOf[s]] # "closed" /\ Goto(g, "buffers") /\ UNCHANGED life
    <3>1. life'[KernelOf[s]] = "live"
      BY <2>1, <2>3 DEF HeldLive, Offered
    <3>2. \A t \in Sets \ {s} : HoldsKernel(t)' => HoldsKernel(t)
      BY <2>1, <2>3 DEF Goto, HoldsKernel, Binding
    <3> QED BY <3>1, <3>2
  <2> QED BY <1>13, <2>1, <2>2, <2>3 DEF RetainKernel
<1>14. ASSUME RetainBuffer(g) PROVE OnlyLiveKept
  <2>1. ASSUME NEW t \in Sets
        PROVE  HoldsKernel(t)' => HoldsKernel(t)
    BY <1>14, ResourcesAssumption DEF RetainBuffer, Goto, HoldsKernel, Binding, Exclusive
  <2> QED BY <2>1
<1>15. ASSUME ReleaseBuffer(g) PROVE OnlyLiveKept
  <2>1. ASSUME NEW t \in Sets
        PROVE  HoldsKernel(t)' => HoldsKernel(t)
    BY <1>15, ResourcesAssumption DEF ReleaseBuffer, HoldsKernel, Binding, Exclusive
  <2> QED BY <2>1
<1>16. ASSUME EndRelease(g) PROVE OnlyLiveKept
  <2>1. ASSUME NEW t \in Sets
        PROVE  HoldsKernel(t)' => HoldsKernel(t)
    BY <1>16, ResourcesAssumption DEF EndRelease, ReleaseKernel, Become, End, HoldsKernel,
        Binding, Exclusive, Resources
  <2> QED BY <2>1
<1>17. ASSUME SubmitDispatch(g) PROVE OnlyLiveKept
  <2>1. ASSUME NEW t \in Sets
        PROVE  HoldsKernel(t)' => HoldsKernel(t)
    BY <1>17, ResourcesAssumption DEF SubmitDispatch, Goto, HoldsKernel, Binding, Exclusive
  <2> QED BY <2>1
<1>18. ASSUME WaitForDispatch(g) PROVE OnlyLiveKept
  <2>1. ASSUME NEW t \in Sets
        PROVE  HoldsKernel(t)' => HoldsKernel(t)
    <3>1. /\ life' = life /\ pc[g] \notin Binding /\ pc'[g] \notin Binding
          /\ \A h \in Goroutines \ {g} : pc'[h] = pc[h] /\ op'[h] = op[h]
      BY <1>18 DEF WaitForDispatch, Goto, End, Binding
    <3> QED BY ONLY <3>1 DEF HoldsKernel
  <2> QED BY <2>1
<1>19. ASSUME Cleanup(g) PROVE OnlyLiveKept
  <2>1. ASSUME NEW t \in Sets
        PROVE  HoldsKernel(t)' => HoldsKernel(t)
    BY <1>19, ResourcesAssumption DEF Cleanup, End, HoldsKernel, Binding, Exclusive
  <2> QED BY <2>1
<1>20. ASSUME ReleaseSet(g) PROVE OnlyLiveKept
  <2>1. PICK r \in Recorders : r = op[g][2] /\ pc[g] = "sets"
    BY <1>20 DEF ReleaseSet
  <2>2. /\ UNCHANGED <<pc, op>> \/ End(g)
        /\ UNCHANGED life \/ Become(r, "closed")
    BY <1>20, <2>1 DEF ReleaseSet
  <2>3. /\ pc'[g] \in {"sets", "idle"}
        /\ \A h \in Goroutines \ {g} : pc'[h] = pc[h] /\ op'[h] = op[h]
    BY <2>1, <2>2 DEF End
  <2>4. \A t \in Sets : life'[t] = life[t]
    <3>1. \A t \in Sets : t # r /\ t \in Resources
      BY ONLY <2>1, ResourcesAssumption DEF Resources
    <3>2. life \in [Resources -> {"none", "creating", "live", "closed", "failed"}]
      OBVIOUS
    <3> QED BY ONLY <2>2, <3>1, <3>2 DEF Become
  <2>5. \A t \in Sets : HoldsKernel(t)' => HoldsKernel(t)
    BY ONLY <2>3, <2>4 DEF HoldsKernel, Binding
  <2> QED BY <2>5
<1>21. ASSUME Drain(g) PROVE OnlyLiveKept
  <2>1. ASSUME NEW t \in Sets
        PROVE  HoldsKernel(t)' => HoldsKernel(t)
    BY <1>21, ResourcesAssumption DEF Drain, HoldsKernel, Binding, Exclusive
  <2> QED BY <2>1
<1>22. ASSUME CloseChild(g) PROVE OnlyLiveKept
  BY <1>22 DEF CloseChild, Destroying
<1>23. ASSUME EndClose(g) PROVE OnlyLiveKept
  <2>1. ASSUME NEW t \in Sets
        PROVE  HoldsKernel(t)' => HoldsKernel(t)
    BY <1>23, ResourcesAssumption DEF EndClose, HoldsKernel, Binding, Exclusive
  <2> QED BY <2>1
<1>24. ASSUME ReserveDispatch(g) PROVE OnlyLiveKept
  <2>1. ASSUME NEW t \in Sets
        PROVE  HoldsKernel(t)' => HoldsKernel(t)
    BY <1>24, ResourcesAssumption DEF ReserveDispatch, Goto, HoldsKernel, Binding, Exclusive
  <2> QED BY <2>1
<1>25. ASSUME ReserveBatch(g) PROVE OnlyLiveKept
  <2>1. ASSUME NEW t \in Sets
        PROVE  HoldsKernel(t)' => HoldsKernel(t)
    <3>1. /\ life' = life /\ pc[g] \notin Binding /\ pc'[g] \notin Binding
          /\ \A h \in Goroutines \ {g} : pc'[h] = pc[h] /\ op'[h] = op[h]
      BY <1>25 DEF ReserveBatch, End, Binding
    <3> QED BY ONLY <3>1 DEF HoldsKernel
  <2> QED BY <2>1
<1> QED BY <1>1, <1>2, <1>3, <1>4, <1>5, <1>6, <1>7, <1>8, <1>9, <1>10, <1>11, <1>12, <1>13,
    <1>14, <1>15, <1>16, <1>17, <1>18, <1>19, <1>20, <1>21, <1>22, <1>23, <1>24, <1>25
        DEF Call, Step

OnlyLiveHeld ==
    \A t \in Sets : t \in Held' => t \in Held \/ life'[t] = "live"

LEMMA NewlyHeld ==
    ASSUME ResourcesInv, ~Destroying, [Next]_vars
    PROVE  OnlyLiveHeld
<1> USE DEF ResourcesInv, deviceVars, countVars, recVars, Types, CallTypes, RecorderTypes,
    CallsFit, CallFits, Using, Held, LifeTypes, Resources, OnlyLiveHeld
<1>0. CASE UNCHANGED vars
  BY <1>0 DEF vars
<1> SUFFICES ASSUME NEW g \in Goroutines, Call(g) \/ Step(g)
             PROVE  OnlyLiveHeld
  BY <1>0 DEF Next
<1>1. ASSUME NEW x \in Resources, Create(g, x) PROVE OnlyLiveHeld
  BY <1>1 DEF Create, Begin, Become
<1>2. ASSUME NEW x \in Resources, CloseUnheld(g, x) PROVE OnlyLiveHeld
  BY <1>2 DEF CloseUnheld, AtOnce, DestroyNatives, Become
<1>3. ASSUME NEW s \in Sets, NewBindings(g, s) PROVE OnlyLiveHeld
  BY <1>3 DEF NewBindings, Begin, Become
<1>4. ASSUME NEW s \in Sets, CloseSet(g, s) PROVE OnlyLiveHeld
  BY <1>4 DEF CloseSet, Unused, Begin, DestroyNatives, Become
<1>5. ASSUME NEW s \in Sets, DispatchAndWait(g, s) PROVE OnlyLiveHeld
  BY <1>5 DEF DispatchAndWait, Begin
<1>6. ASSUME NEW r \in Recorders, Submit(g, r) PROVE OnlyLiveHeld
  BY <1>6 DEF Submit, Begin
<1>7. ASSUME NEW r \in Recorders, FinishRecorder(g, r) PROVE OnlyLiveHeld
  BY <1>7 DEF FinishRecorder, Begin, DestroyNatives
<1>8. ASSUME NEW r \in Recorders, LoseRecorder(g, r) PROVE OnlyLiveHeld
  BY <1>8 DEF LoseRecorder, AtOnce
<1>9. ASSUME NEW r \in Recorders, NEW s \in Sets, Dispatch(g, r, s) PROVE OnlyLiveHeld
  BY <1>9 DEF Dispatch, AtOnce
<1>10. ASSUME CloseDevice(g) PROVE OnlyLiveHeld
  BY <1>10 DEF CloseDevice
<1>11. ASSUME CreateNative(g) PROVE OnlyLiveHeld
  BY <1>11 DEF CreateNative, FailCreation, Goto, End, DestroyNatives, Become
<1>12. ASSUME AddChild(g) PROVE OnlyLiveHeld
  BY <1>12 DEF AddChild, FailCreation, Goto, End, DestroyNatives, Become
<1>13. ASSUME RetainKernel(g) PROVE OnlyLiveHeld
  <2>1. /\ UNCHANGED <<recSets, transients>> /\ pc'[g] \notin {"record", "reserve", "fence", "cleanup"}
        /\ \A h \in Goroutines \ {g} : pc'[h] = pc[h] /\ op'[h] = op[h]
    BY <1>13 DEF RetainKernel, Goto, End
  <2> QED BY ONLY <2>1 DEF OnlyLiveHeld, Held
<1>14. ASSUME RetainBuffer(g) PROVE OnlyLiveHeld
  <2>1. /\ UNCHANGED <<recSets, transients>> /\ pc'[g] \notin {"record", "reserve", "fence", "cleanup"}
        /\ \A h \in Goroutines \ {g} : pc'[h] = pc[h] /\ op'[h] = op[h]
    BY <1>14 DEF RetainBuffer, Goto
  <2> QED BY ONLY <2>1 DEF OnlyLiveHeld, Held
<1>15. ASSUME ReleaseBuffer(g) PROVE OnlyLiveHeld
  BY <1>15 DEF ReleaseBuffer
<1>16. ASSUME EndRelease(g) PROVE OnlyLiveHeld
  BY <1>16 DEF EndRelease, ReleaseKernel, Become, End
<1>17. ASSUME SubmitDispatch(g) PROVE OnlyLiveHeld
  BY <1>17 DEF SubmitDispatch, Goto
<1>18. ASSUME WaitForDispatch(g) PROVE OnlyLiveHeld
  BY <1>18 DEF WaitForDispatch, Goto, End
<1>19. ASSUME Cleanup(g) PROVE OnlyLiveHeld
  BY <1>19 DEF Cleanup, End
<1>20. ASSUME ReleaseSet(g) PROVE OnlyLiveHeld
  <2>1. PICK r \in Recorders : r = op[g][2] /\ pc[g] = "sets"
    BY <1>20 DEF ReleaseSet
  <2>2. /\ UNCHANGED <<pc, op>> \/ End(g)
        /\ UNCHANGED transients
        /\ UNCHANGED recSets \/ \E s \in recSets[r] : recSets' = [recSets EXCEPT ![r] = @ \ {s}]
    BY <1>20, <2>1 DEF ReleaseSet
  <2>3. /\ pc'[g] \notin {"record", "reserve", "fence", "cleanup"} /\ UNCHANGED transients
        /\ \A h \in Goroutines \ {g} : pc'[h] = pc[h] /\ op'[h] = op[h]
    BY <2>1, <2>2 DEF End
  <2>4. \A q \in Recorders : recSets'[q] \subseteq recSets[q]
    <3>1. recSets \in [Recorders -> SUBSET Sets]
      OBVIOUS
    <3> QED BY ONLY <2>2, <3>1
  <2> QED BY ONLY <2>3, <2>4 DEF OnlyLiveHeld, Held
<1>21. ASSUME Drain(g) PROVE OnlyLiveHeld
  BY <1>21 DEF Drain
<1>22. ASSUME CloseChild(g) PROVE OnlyLiveHeld
  BY <1>22 DEF CloseChild, Destroying
<1>23. ASSUME EndClose(g) PROVE OnlyLiveHeld
  BY <1>23 DEF EndClose
<1>24. ASSUME ReserveDispatch(g) PROVE OnlyLiveHeld
  BY <1>24 DEF ReserveDispatch, Goto
<1>25. ASSUME ReserveBatch(g) PROVE OnlyLiveHeld
  <2>1. /\ UNCHANGED <<recSets, transients>> /\ pc'[g] \notin {"record", "reserve", "fence", "cleanup"}
        /\ \A h \in Goroutines \ {g} : pc'[h] = pc[h] /\ op'[h] = op[h]
    BY <1>25 DEF ReserveBatch, End
  <2> QED BY ONLY <2>1 DEF OnlyLiveHeld, Held
<1> QED BY <1>1, <1>2, <1>3, <1>4, <1>5, <1>6, <1>7, <1>8, <1>9, <1>10, <1>11, <1>12, <1>13,
    <1>14, <1>15, <1>16, <1>17, <1>18, <1>19, <1>20, <1>21, <1>22, <1>23, <1>24, <1>25
        DEF Call, Step

\* The kernel and the buffers given to NewBindings have been created.
LEMMA OfferedGoesOn ==
    ASSUME ResourcesInv, [Next]_vars, NEW h \in Goroutines,
           \/ pc'[h] \in {"kernel", "buffers"} => pc'[h] = pc[h] /\ op'[h] = op[h]
           \/ pc[h] = "kernel" /\ pc'[h] = "buffers" /\ op'[h] = op[h]
    PROVE  Offered(h)'
<1>1. Offered(h) /\ CallFits(h)
  BY DEF ResourcesInv, HeldLive, CallsFit
<1>2. CASE pc'[h] \notin {"kernel", "buffers"}
  BY <1>2 DEF Offered
<1>3. CASE pc'[h] \in {"kernel", "buffers"}
  <2>1. op'[h] = op[h] /\ (pc'[h] = "kernel" => pc[h] = "kernel") /\ pc[h] \in {"kernel", "buffers"}
    BY <1>3
  <2>2. PICK s \in Sets : s = op[h][2]
    BY <1>1, <2>1 DEF CallFits
  <2>3. KernelOf[s] \in Resources /\ \A b \in Range(BuffersOf[s]) : b \in Resources
    BY ResourcesAssumption DEF Resources, Range
  <2>4. pc'[h] = "kernel" => life'[KernelOf[s]] \in {"live", "closed"}
    BY <1>1, <2>1, <2>2, <2>3, LifeGoesOn DEF Offered, LifeLasts
  <2>5. \A b \in Range(BuffersOf[s]) : life'[b] \in {"live", "closed"}
    BY <1>1, <2>1, <2>2, <2>3, LifeGoesOn DEF Offered, LifeLasts
  <2> QED BY <2>1, <2>2, <2>4, <2>5 DEF Offered
<1> QED BY <1>2, <1>3

LEMMA OfferedStays ==
    ASSUME ResourcesInv, [Next]_vars
    PROVE  \A h \in Goroutines : Offered(h)'
<1> USE DEF ResourcesInv, deviceVars, countVars, recVars, Types, CallTypes, LifeTypes
<1>0. CASE UNCHANGED vars
  BY <1>0, OfferedGoesOn DEF vars
<1> SUFFICES ASSUME NEW g \in Goroutines, Call(g) \/ Step(g)
             PROVE  \A h \in Goroutines : Offered(h)'
  BY <1>0 DEF Next
<1>1. ASSUME NEW x \in Resources, Create(g, x) PROVE \A h \in Goroutines : Offered(h)'
  <2>1. \A h \in Goroutines :
            pc'[h] \in {"kernel", "buffers"} => pc'[h] = pc[h] /\ op'[h] = op[h]
    BY <1>1 DEF Create, Begin, Become
  <2> QED BY <2>1, OfferedGoesOn
<1>2. ASSUME NEW x \in Resources, CloseUnheld(g, x) PROVE \A h \in Goroutines : Offered(h)'
  <2>1. \A h \in Goroutines :
            pc'[h] \in {"kernel", "buffers"} => pc'[h] = pc[h] /\ op'[h] = op[h]
    BY <1>2 DEF CloseUnheld, AtOnce, DestroyNatives, Become
  <2> QED BY <2>1, OfferedGoesOn
<1>3. ASSUME NEW s \in Sets, NewBindings(g, s) PROVE \A h \in Goroutines : Offered(h)'
  <2>1. \A h \in Goroutines \ {g} :
            pc'[h] \in {"kernel", "buffers"} => pc'[h] = pc[h] /\ op'[h] = op[h]
    BY <1>3 DEF NewBindings, Begin, Become
  <2>2. pc' = [pc EXCEPT ![g] = "kernel"] /\ op' = [op EXCEPT ![g] = <<"create", s>>] /\ life' = [life EXCEPT ![s] = "creating"]
    BY <1>3 DEF NewBindings, Begin, Become
  <2>3. /\ life[s] = "none" /\ life[KernelOf[s]] \in {"live", "closed"}
        /\ \A b \in Range(BuffersOf[s]) : life[b] \in {"live", "closed"}
    BY <1>3 DEF NewBindings
  <2>4. life'[KernelOf[s]] \in {"live", "closed"} /\ \A b \in Range(BuffersOf[s]) : life'[b] \in {"live", "closed"}
    BY <2>2, <2>3
  <2>5. op'[g][2] = s
    BY <2>2
  <2>6. Offered(g)'
    BY <2>4, <2>5 DEF Offered
  <2> QED BY <2>1, <2>6, OfferedGoesOn
<1>4. ASSUME NEW s \in Sets, CloseSet(g, s) PROVE \A h \in Goroutines : Offered(h)'
  <2>1. \A h \in Goroutines :
            pc'[h] \in {"kernel", "buffers"} => pc'[h] = pc[h] /\ op'[h] = op[h]
    BY <1>4 DEF CloseSet, Unused, Begin, DestroyNatives, Become
  <2> QED BY <2>1, OfferedGoesOn
<1>5. ASSUME NEW s \in Sets, DispatchAndWait(g, s) PROVE \A h \in Goroutines : Offered(h)'
  <2>1. \A h \in Goroutines :
            pc'[h] \in {"kernel", "buffers"} => pc'[h] = pc[h] /\ op'[h] = op[h]
    BY <1>5 DEF DispatchAndWait, Begin
  <2> QED BY <2>1, OfferedGoesOn
<1>6. ASSUME NEW r \in Recorders, Submit(g, r) PROVE \A h \in Goroutines : Offered(h)'
  <2>1. \A h \in Goroutines :
            pc'[h] \in {"kernel", "buffers"} => pc'[h] = pc[h] /\ op'[h] = op[h]
    BY <1>6 DEF Submit, Begin
  <2> QED BY <2>1, OfferedGoesOn
<1>7. ASSUME NEW r \in Recorders, FinishRecorder(g, r) PROVE \A h \in Goroutines : Offered(h)'
  <2>1. \A h \in Goroutines :
            pc'[h] \in {"kernel", "buffers"} => pc'[h] = pc[h] /\ op'[h] = op[h]
    BY <1>7 DEF FinishRecorder, Begin, DestroyNatives
  <2> QED BY <2>1, OfferedGoesOn
<1>8. ASSUME NEW r \in Recorders, LoseRecorder(g, r) PROVE \A h \in Goroutines : Offered(h)'
  <2>1. \A h \in Goroutines :
            pc'[h] \in {"kernel", "buffers"} => pc'[h] = pc[h] /\ op'[h] = op[h]
    BY <1>8 DEF LoseRecorder, AtOnce
  <2> QED BY <2>1, OfferedGoesOn
<1>9. ASSUME NEW r \in Recorders, NEW s \in Sets, Dispatch(g, r, s) PROVE \A h \in Goroutines : Offered(h)'
  <2>1. \A h \in Goroutines :
            pc'[h] \in {"kernel", "buffers"} => pc'[h] = pc[h] /\ op'[h] = op[h]
    BY <1>9 DEF Dispatch, AtOnce
  <2> QED BY <2>1, OfferedGoesOn
<1>10. ASSUME CloseDevice(g) PROVE \A h \in Goroutines : Offered(h)'
  <2>1. \A h \in Goroutines :
            pc'[h] \in {"kernel", "buffers"} => pc'[h] = pc[h] /\ op'[h] = op[h]
    BY <1>10 DEF CloseDevice
  <2> QED BY <2>1, OfferedGoesOn
<1>11. ASSUME CreateNative(g) PROVE \A h \in Goroutines : Offered(h)'
  <2>1. \A h \in Goroutines :
            pc'[h] \in {"kernel", "buffers"} => pc'[h] = pc[h] /\ op'[h] = op[h]
    BY <1>11 DEF CreateNative, FailCreation, Goto, End, DestroyNatives, Become
  <2> QED BY <2>1, OfferedGoesOn
<1>12. ASSUME AddChild(g) PROVE \A h \in Goroutines : Offered(h)'
  <2>1. \A h \in Goroutines :
            pc'[h] \in {"kernel", "buffers"} => pc'[h] = pc[h] /\ op'[h] = op[h]
    BY <1>12 DEF AddChild, FailCreation, Goto, End, DestroyNatives, Become
  <2> QED BY <2>1, OfferedGoesOn
<1>13. ASSUME RetainKernel(g) PROVE \A h \in Goroutines : Offered(h)'
  <2>1. \A h \in Goroutines \ {g} :
            pc'[h] \in {"kernel", "buffers"} => pc'[h] = pc[h] /\ op'[h] = op[h]
    BY <1>13 DEF RetainKernel, Goto, End, Become
  <2>2. pc[g] = "kernel" /\ (pc'[g] \in {"kernel", "buffers"} => pc'[g] = "buffers" /\ op'[g] = op[g])
    BY <1>13 DEF RetainKernel, Goto, End, Become
  <2> QED BY <2>1, <2>2, OfferedGoesOn
<1>14. ASSUME RetainBuffer(g) PROVE \A h \in Goroutines : Offered(h)'
  <2>1. \A h \in Goroutines :
            pc'[h] \in {"kernel", "buffers"} => pc'[h] = pc[h] /\ op'[h] = op[h]
    BY <1>14 DEF RetainBuffer, Goto
  <2> QED BY <2>1, OfferedGoesOn
<1>15. ASSUME ReleaseBuffer(g) PROVE \A h \in Goroutines : Offered(h)'
  <2>1. \A h \in Goroutines :
            pc'[h] \in {"kernel", "buffers"} => pc'[h] = pc[h] /\ op'[h] = op[h]
    BY <1>15 DEF ReleaseBuffer
  <2> QED BY <2>1, OfferedGoesOn
<1>16. ASSUME EndRelease(g) PROVE \A h \in Goroutines : Offered(h)'
  <2>1. \A h \in Goroutines :
            pc'[h] \in {"kernel", "buffers"} => pc'[h] = pc[h] /\ op'[h] = op[h]
    BY <1>16 DEF EndRelease, ReleaseKernel, Become, End
  <2> QED BY <2>1, OfferedGoesOn
<1>17. ASSUME SubmitDispatch(g) PROVE \A h \in Goroutines : Offered(h)'
  <2>1. \A h \in Goroutines :
            pc'[h] \in {"kernel", "buffers"} => pc'[h] = pc[h] /\ op'[h] = op[h]
    BY <1>17 DEF SubmitDispatch, Goto
  <2> QED BY <2>1, OfferedGoesOn
<1>18. ASSUME WaitForDispatch(g) PROVE \A h \in Goroutines : Offered(h)'
  <2>1. \A h \in Goroutines :
            pc'[h] \in {"kernel", "buffers"} => pc'[h] = pc[h] /\ op'[h] = op[h]
    BY <1>18 DEF WaitForDispatch, Goto, End
  <2> QED BY <2>1, OfferedGoesOn
<1>19. ASSUME Cleanup(g) PROVE \A h \in Goroutines : Offered(h)'
  <2>1. \A h \in Goroutines :
            pc'[h] \in {"kernel", "buffers"} => pc'[h] = pc[h] /\ op'[h] = op[h]
    BY <1>19 DEF Cleanup, End
  <2> QED BY <2>1, OfferedGoesOn
<1>20. ASSUME ReleaseSet(g) PROVE \A h \in Goroutines : Offered(h)'
  <2>1. \A h \in Goroutines :
            pc'[h] \in {"kernel", "buffers"} => pc'[h] = pc[h] /\ op'[h] = op[h]
    BY <1>20 DEF ReleaseSet, Become, End
  <2> QED BY <2>1, OfferedGoesOn
<1>21. ASSUME Drain(g) PROVE \A h \in Goroutines : Offered(h)'
  <2>1. \A h \in Goroutines :
            pc'[h] \in {"kernel", "buffers"} => pc'[h] = pc[h] /\ op'[h] = op[h]
    BY <1>21 DEF Drain
  <2> QED BY <2>1, OfferedGoesOn
<1>22. ASSUME CloseChild(g) PROVE \A h \in Goroutines : Offered(h)'
  <2>1. \A h \in Goroutines :
            pc'[h] \in {"kernel", "buffers"} => pc'[h] = pc[h] /\ op'[h] = op[h]
    BY <1>22 DEF CloseChild, CloseSetFromDevice, CloseRecorderFromDevice, DestroyNatives, Become
  <2> QED BY <2>1, OfferedGoesOn
<1>23. ASSUME EndClose(g) PROVE \A h \in Goroutines : Offered(h)'
  <2>1. \A h \in Goroutines :
            pc'[h] \in {"kernel", "buffers"} => pc'[h] = pc[h] /\ op'[h] = op[h]
    BY <1>23 DEF EndClose
  <2> QED BY <2>1, OfferedGoesOn
<1>24. ASSUME ReserveDispatch(g) PROVE \A h \in Goroutines : Offered(h)'
  <2>1. \A h \in Goroutines :
            pc'[h] \in {"kernel", "buffers"} => pc'[h] = pc[h] /\ op'[h] = op[h]
    BY <1>24 DEF ReserveDispatch, Goto
  <2> QED BY <2>1, OfferedGoesOn
<1>25. ASSUME ReserveBatch(g) PROVE \A h \in Goroutines : Offered(h)'
  <2>1. \A h \in Goroutines :
            pc'[h] \in {"kernel", "buffers"} => pc'[h] = pc[h] /\ op'[h] = op[h]
    BY <1>25 DEF ReserveBatch, End, DestroyNatives
  <2> QED BY <2>1, OfferedGoesOn
<1> QED BY <1>1, <1>2, <1>3, <1>4, <1>5, <1>6, <1>7, <1>8, <1>9, <1>10, <1>11, <1>12, <1>13,
    <1>14, <1>15, <1>16, <1>17, <1>18, <1>19, <1>20, <1>21, <1>22, <1>23, <1>24, <1>25
        DEF Call, Step

\* What is held is live: it was when it was taken, and is not closed while its count says so.
LEMMA HeldLiveKept ==
    ASSUME ResourcesInv, [Next]_vars
    PROVE  HeldLive'
<1>1. \A g \in Goroutines : Offered(g)'
  BY OfferedStays
<1>2. ASSUME ~Destroying'
      PROVE  ~Destroying
  BY <1>2, DestroyingStays
<1>3. ASSUME NEW x \in Resources, life[x] = "live", ~Destroying
      PROVE  life'[x] = "live" \/ Unheld(x)
  BY <1>3, LiveGoesOn DEF OnlyUnheldClosed
<1>4. BuffersLive'
  <2> SUFFICES ASSUME ~Destroying', NEW s \in Sets, NEW n \in buffers'[s]
               PROVE  life'[BuffersOf[s][n]] = "live"
    BY DEF BuffersLive
  <2>1. n \in buffers[s] \/ life'[BuffersOf[s][n]] = "live"
    BY <1>2, NewlyBound DEF OnlyLiveBound
  <2>2. CASE n \in buffers[s]
    <3>1. life[BuffersOf[s][n]] = "live"
      BY <1>2, <2>2 DEF ResourcesInv, HeldLive, BuffersLive
    <3>2. PICK b \in Buffers : b = BuffersOf[s][n]
      BY <2>2, ResourcesAssumption DEF ResourcesInv, Bound, BoundTo
    <3>3. b \in Resources
      BY DEF Resources
    <3> QED BY <1>2, <1>3, <2>2, <3>1, <3>2, <3>3, UnheldIsFree
  <2> QED BY <2>1, <2>2
<1>5. KernelsLive'
  <2> SUFFICES ASSUME ~Destroying', NEW s \in Sets, HoldsKernel(s)'
               PROVE  life'[KernelOf[s]] = "live"
    BY DEF KernelsLive
  <2>1. HoldsKernel(s) \/ life'[KernelOf[s]] = "live"
    BY <1>2, NewlyKept DEF OnlyLiveKept
  <2>2. CASE HoldsKernel(s)
    <3>1. life[KernelOf[s]] = "live"
      BY <1>2, <2>2 DEF ResourcesInv, HeldLive, KernelsLive
    <3>2. KernelOf[s] \in Kernels /\ KernelOf[s] \in Resources
      BY ResourcesAssumption DEF Resources
    <3> QED BY <1>2, <1>3, <2>2, <3>1, <3>2, UnheldIsFree
  <2> QED BY <2>1, <2>2
<1>6. SetsLive'
  <2> SUFFICES ASSUME ~Destroying', NEW s \in Held'
               PROVE  life'[s] = "live"
    BY DEF SetsLive
  <2>0. s \in Sets /\ s \in Resources
    BY DEF Held, Resources
  <2>1. s \in Held \/ life'[s] = "live"
    BY <1>2, <2>0, NewlyHeld DEF OnlyLiveHeld
  <2>2. CASE s \in Held
    <3>1. life[s] = "live"
      BY <1>2, <2>2 DEF ResourcesInv, HeldLive, SetsLive
    <3> QED BY <1>2, <1>3, <2>0, <2>2, <3>1, UnheldIsFree
  <2> QED BY <2>1, <2>2
<1> QED BY <1>1, <1>4, <1>5, <1>6 DEF HeldLive

LiveAreListed ==
    \A x \in Resources : life'[x] = "live" => x \in Range(children')

\* The children are the live resources.
LEMMA ChildrenListed ==
    ASSUME ResourcesInv, ~Destroying, [Next]_vars
    PROVE  LiveAreListed
<1> USE DEF ResourcesInv, deviceVars, countVars, recVars, Types, LifeTypes, CallTypes,
    RecorderTypes, CallsFit, CallFits, Creating, Using, Closing, DeviceTypes, Listed,
    LiveAreListed
<1>0. CASE UNCHANGED vars
  BY <1>0 DEF vars
<1> SUFFICES ASSUME NEW g \in Goroutines, Call(g) \/ Step(g)
             PROVE  LiveAreListed
  BY <1>0 DEF Next
<1>1. ASSUME NEW x \in Resources, Create(g, x) PROVE LiveAreListed
  <2>1. \A y \in Resources : life'[y] = "live" => life[y] = "live"
    BY <1>1, ResourcesAssumption DEF Create, Begin, Become
  <2>2. children' = children
    BY <1>1 DEF Create, Begin, Become
  <2> QED BY <2>1, <2>2
<1>2. ASSUME NEW x \in Resources, CloseUnheld(g, x) PROVE LiveAreListed
  <2>1. children' = Without(x) /\ life'[x] # "live" /\ \A y \in Resources \ {x} : life'[y] = life[y]
    BY <1>2, ResourcesAssumption DEF CloseUnheld, AtOnce, DestroyNatives, Become, Resources
  <2> QED BY <2>1, WithoutKeeps
<1>3. ASSUME NEW s \in Sets, NewBindings(g, s) PROVE LiveAreListed
  <2>1. \A y \in Resources : life'[y] = "live" => life[y] = "live"
    BY <1>3, ResourcesAssumption DEF NewBindings, Begin, Become, Resources
  <2>2. children' = children
    BY <1>3 DEF NewBindings, Begin, Become
  <2> QED BY <2>1, <2>2
<1>4. ASSUME NEW s \in Sets, CloseSet(g, s) PROVE LiveAreListed
  <2>1. \A y \in Resources : life'[y] = "live" => life[y] = "live"
    BY <1>4, ResourcesAssumption DEF CloseSet, Unused, Begin, DestroyNatives, Become, Resources
  <2>2. children' = children
    BY <1>4 DEF CloseSet, Unused, Begin, DestroyNatives, Become
  <2> QED BY <2>1, <2>2
<1>5. ASSUME NEW s \in Sets, DispatchAndWait(g, s) PROVE LiveAreListed
  <2>1. \A y \in Resources : life'[y] = "live" => life[y] = "live"
    BY <1>5, ResourcesAssumption DEF DispatchAndWait, Begin
  <2>2. children' = children
    BY <1>5 DEF DispatchAndWait, Begin
  <2> QED BY <2>1, <2>2
<1>6. ASSUME NEW r \in Recorders, Submit(g, r) PROVE LiveAreListed
  <2>1. \A y \in Resources : life'[y] = "live" => life[y] = "live"
    BY <1>6, ResourcesAssumption DEF Submit, Begin
  <2>2. children' = children
    BY <1>6 DEF Submit, Begin
  <2> QED BY <2>1, <2>2
<1>7. ASSUME NEW r \in Recorders, FinishRecorder(g, r) PROVE LiveAreListed
  <2>1. \A y \in Resources : life'[y] = "live" => life[y] = "live"
    BY <1>7, ResourcesAssumption DEF FinishRecorder, Begin, DestroyNatives
  <2>2. children' = children
    BY <1>7 DEF FinishRecorder, Begin, DestroyNatives
  <2> QED BY <2>1, <2>2
<1>8. ASSUME NEW r \in Recorders, LoseRecorder(g, r) PROVE LiveAreListed
  <2>1. \A y \in Resources : life'[y] = "live" => life[y] = "live"
    BY <1>8, ResourcesAssumption DEF LoseRecorder, AtOnce
  <2>2. children' = children
    BY <1>8 DEF LoseRecorder, AtOnce
  <2> QED BY <2>1, <2>2
<1>9. ASSUME NEW r \in Recorders, NEW s \in Sets, Dispatch(g, r, s) PROVE LiveAreListed
  <2>1. \A y \in Resources : life'[y] = "live" => life[y] = "live"
    BY <1>9, ResourcesAssumption DEF Dispatch, AtOnce
  <2>2. children' = children
    BY <1>9 DEF Dispatch, AtOnce
  <2> QED BY <2>1, <2>2
<1>10. ASSUME CloseDevice(g) PROVE LiveAreListed
  <2>1. \A y \in Resources : life'[y] = "live" => life[y] = "live"
    BY <1>10, ResourcesAssumption DEF CloseDevice
  <2>2. children' = children
    BY <1>10 DEF CloseDevice
  <2> QED BY <2>1, <2>2
<1>11. ASSUME CreateNative(g) PROVE LiveAreListed
  <2>1. PICK x \in Resources : x = op[g][2] /\ life[x] = "creating"
    BY <1>11 DEF CreateNative
  <2>2. CASE FailCreation(g, x)
    <3>1. children' = children /\ \A y \in Resources : life'[y] = "live" => life[y] = "live"
      BY <2>1, <2>2 DEF FailCreation, Become
    <3> QED BY <3>1
  <2>3. CASE UNCHANGED <<life, children>>
    BY <2>3
  <2> QED BY <1>11, <2>1, <2>2, <2>3 DEF CreateNative
<1>12. ASSUME AddChild(g) PROVE LiveAreListed
  <2>1. PICK x \in Resources : x = op[g][2] /\ life[x] = "creating"
    BY <1>12 DEF AddChild
  <2>2. CASE FailCreation(g, x)
    <3>1. children' = children /\ \A y \in Resources : life'[y] = "live" => life[y] = "live"
      BY <2>1, <2>2 DEF FailCreation, Become
    <3> QED BY <3>1
  <2>3. CASE children' = Append(children, x) /\ Become(x, "live")
    <3>1. Range(children') = Range(children) \cup {x} /\ \A y \in Resources \ {x} : life'[y] = life[y]
      <4>4. Range(children') = Range(children) \cup {x}
        BY ONLY <2>1, <2>3, children \in Seq(Resources), RangeOfAppend
      <4> QED BY <2>3, <4>4 DEF Become
    <3> QED BY <3>1
  <2> QED BY <1>12, <2>1, <2>2, <2>3 DEF AddChild
<1>13. ASSUME RetainKernel(g) PROVE LiveAreListed
  <2>1. \A y \in Resources : life'[y] = "live" => life[y] = "live"
    BY <1>13, ResourcesAssumption DEF RetainKernel, Goto, End, Become
  <2>2. children' = children
    BY <1>13 DEF RetainKernel, Goto, End, Become
  <2> QED BY <2>1, <2>2
<1>14. ASSUME RetainBuffer(g) PROVE LiveAreListed
  <2>1. \A y \in Resources : life'[y] = "live" => life[y] = "live"
    BY <1>14, ResourcesAssumption DEF RetainBuffer, Goto
  <2>2. children' = children
    BY <1>14 DEF RetainBuffer, Goto
  <2> QED BY <2>1, <2>2
<1>15. ASSUME ReleaseBuffer(g) PROVE LiveAreListed
  <2>1. \A y \in Resources : life'[y] = "live" => life[y] = "live"
    BY <1>15, ResourcesAssumption DEF ReleaseBuffer
  <2>2. children' = children
    BY <1>15 DEF ReleaseBuffer
  <2> QED BY <2>1, <2>2
<1>16. ASSUME EndRelease(g) PROVE LiveAreListed
  <2>1. children' = Without(op[g][2]) /\ life'[op[g][2]] # "live" /\ \A y \in Resources \ {op[g][2]} : life'[y] = life[y]
    BY <1>16, ResourcesAssumption DEF EndRelease, ReleaseKernel, Become, End, Resources
  <2> QED BY <2>1, WithoutKeeps
<1>17. ASSUME SubmitDispatch(g) PROVE LiveAreListed
  <2>1. \A y \in Resources : life'[y] = "live" => life[y] = "live"
    BY <1>17, ResourcesAssumption DEF SubmitDispatch, Goto
  <2>2. children' = children
    BY <1>17 DEF SubmitDispatch, Goto
  <2> QED BY <2>1, <2>2
<1>18. ASSUME WaitForDispatch(g) PROVE LiveAreListed
  <2>1. \A y \in Resources : life'[y] = "live" => life[y] = "live"
    BY <1>18, ResourcesAssumption DEF WaitForDispatch, Goto, End
  <2>2. children' = children
    BY <1>18 DEF WaitForDispatch, Goto, End
  <2> QED BY <2>1, <2>2
<1>19. ASSUME Cleanup(g) PROVE LiveAreListed
  <2>1. \A y \in Resources : life'[y] = "live" => life[y] = "live"
    BY <1>19, ResourcesAssumption DEF Cleanup, End
  <2>2. children' = children
    BY <1>19 DEF Cleanup, End
  <2> QED BY <2>1, <2>2
<1>20. ASSUME ReleaseSet(g) PROVE LiveAreListed
  <2>1. CASE UNCHANGED <<children, life>>
    BY <2>1
  <2>2. ASSUME children' = Without(op[g][2]), Become(op[g][2], "closed")
        PROVE  \A x \in Resources : life'[x] = "live" => x \in Range(children')
    <3>1. PICK r \in Resources : r = op[g][2]
      BY <1>20 DEF ReleaseSet, Resources
    <3>2. children' = Without(r) /\ life'[r] # "live" /\ \A y \in Resources \ {r} : life'[y] = life[y]
      BY <2>2, <3>1 DEF Become
    <3> QED BY <3>2, WithoutKeeps
  <2> QED BY <1>20, <2>1, <2>2 DEF ReleaseSet
<1>21. ASSUME Drain(g) PROVE LiveAreListed
  <2>1. \A y \in Resources : life'[y] = "live" => life[y] = "live"
    BY <1>21, ResourcesAssumption DEF Drain
  <2>2. children' = children
    BY <1>21 DEF Drain
  <2> QED BY <2>1, <2>2
<1>22. ASSUME CloseChild(g) PROVE LiveAreListed
  BY <1>22 DEF CloseChild, Destroying
<1>23. ASSUME EndClose(g) PROVE LiveAreListed
  BY <1>23 DEF EndClose, Destroying
<1>24. ASSUME ReserveDispatch(g) PROVE LiveAreListed
  <2>1. \A y \in Resources : life'[y] = "live" => life[y] = "live"
    BY <1>24, ResourcesAssumption DEF ReserveDispatch, Goto
  <2>2. children' = children
    BY <1>24 DEF ReserveDispatch, Goto
  <2> QED BY <2>1, <2>2
<1>25. ASSUME ReserveBatch(g) PROVE LiveAreListed
  <2>1. \A y \in Resources : life'[y] = "live" => life[y] = "live"
    BY <1>25, ResourcesAssumption DEF ReserveBatch, End, DestroyNatives
  <2>2. children' = children
    BY <1>25 DEF ReserveBatch, End, DestroyNatives
  <2> QED BY <2>1, <2>2
<1> QED BY <1>1, <1>2, <1>3, <1>4, <1>5, <1>6, <1>7, <1>8, <1>9, <1>10, <1>11, <1>12, <1>13,
    <1>14, <1>15, <1>16, <1>17, <1>18, <1>19, <1>20, <1>21, <1>22, <1>23, <1>24, <1>25
        DEF Call, Step

\* Device.Close asks every live resource, or has noted that one refused.
LEMMA ListedKept ==
    ASSUME ResourcesInv, [Next]_vars
    PROVE  Listed'
<1> USE DEF Listed
<1>0. Types /\ DeviceTypes /\ pc \in [Goroutines -> Labels] /\ Listed /\ OneCloser
  BY DEF ResourcesInv, Types, CallTypes
<1>1. CASE UNCHANGED vars
  BY <1>0, <1>1 DEF vars, deviceVars, Destroying
<1>2. ASSUME NEW g \in Goroutines, Call(g) \/ Step(g), Destroying
      PROVE  Listed'
  <2>0. Destroying'
    BY <1>2, DestroyingStays
  <2>1. CASE CloseChild(g)
    <3>1. PICK x \in Resources : x = Last(closeList)
      BY <1>0, <2>1, LastAndFront DEF CloseChild, DeviceTypes
    <3>2. /\ closeList # << >> /\ closeList' = Front(closeList) /\ pc' = pc /\ status' = status
          /\ pc[g] = "children"
          /\ \/ life' = life /\ (life[x] = "live" => closeErr') /\ (closeErr => closeErr')
             \/ life' = [life EXCEPT ![x] = "closed"] /\ closeErr' = closeErr
      BY <2>1, <3>1 DEF CloseChild, Become
    <3>3. \A y \in Range(closeList) : y # x => y \in Range(closeList')
      BY <1>0, <3>1, <3>2, LastAndFront DEF DeviceTypes
    <3>4. \A y \in Resources : life'[y] = "live" => closeErr' \/ (y # x /\ life[y] = "live")
      BY <1>0, <3>2 DEF Types, LifeTypes
    <3>5. \A y \in Resources : life[y] = "live" => closeErr \/ y \in Range(closeList)
      BY <1>0, <3>2
    <3>6. \A y \in Resources : life'[y] = "live" => closeErr' \/ y \in Range(closeList')
      BY <3>2, <3>3, <3>4, <3>5
    <3>7. status # "closed"
      BY <1>0, <3>2 DEF OneCloser, Closing
    <3> QED BY <2>0, <3>2, <3>6, <3>7
  <2>2. CASE EndClose(g)
    <3>1. pc[g] = "children" /\ closeList = << >> /\ UNCHANGED <<life, closeErr>> /\ pc' = [pc EXCEPT ![g] = "idle"]
      BY <2>2 DEF EndClose
    <3>2. Range(closeList) = {}
      BY <3>1 DEF Range
    <3>3. \A x \in Resources : life'[x] = "live" => closeErr'
      BY <1>0, <3>1, <3>2
    <3> QED BY <2>0, <3>3
  <2> QED BY <1>2, <2>1, <2>2, OnlyCloses
<1>3. ASSUME NEW g \in Goroutines, Call(g) \/ Step(g), ~Destroying
      PROVE  Listed'
  <2>1. \A x \in Resources : life'[x] = "live" => x \in Range(children')
    <3>1. [Next]_vars
      OBVIOUS
    <3> QED BY <1>3, <3>1, ChildrenListed DEF LiveAreListed
  <2>2. Moves(g)
    BY <1>3, EveryStepMoves
  <2>3. status' # "closed"
    BY <1>0, <1>3, <2>2 DEF Moves, Destroying
  <2>4. ASSUME NEW h \in Goroutines, pc'[h] = "children"
        PROVE  closeList' = children'
    <3>1. pc[h] # "children"
      BY <1>3 DEF Destroying
    <3>2. h = g /\ pc[g] = "drain"
      BY <1>0, <2>2, <2>4, <3>1 DEF Moves, Closing
    <3>3. Drain(g)
      <4>1. ~Call(g)
        BY <3>2 DEF Call, Create, CloseUnheld, NewBindings, CloseSet, DispatchAndWait, Submit,
            FinishRecorder,
                    LoseRecorder, Dispatch, CloseDevice, Begin, AtOnce
      <4> QED BY <1>3, <3>2, <4>1 DEF Step, CreateNative, AddChild, RetainKernel, RetainBuffer,
          ReleaseBuffer,
                    EndRelease, SubmitDispatch, ReserveDispatch, ReserveBatch, WaitForDispatch, Cleanup, ReleaseSet, CloseChild, EndClose
    <3> QED BY <3>3 DEF Drain
  <2> QED BY <2>1, <2>3, <2>4
<1> QED BY <1>1, <1>2, <1>3 DEF Next

\* A recorder that is finished stays so.
LEMMA FinishedIsFreedKept ==
    ASSUME ResourcesInv, [Next]_vars
    PROVE  FinishedIsFreed'
<1> USE DEF ResourcesInv, deviceVars, countVars, recVars, Types, LifeTypes, CallTypes,
    RecorderTypes, CallsFit, CallFits, Creating, Using, Closing, FinishedIsFreed
<1>0. CASE UNCHANGED vars
  BY <1>0 DEF vars
<1> SUFFICES ASSUME NEW g \in Goroutines, Call(g) \/ Step(g) PROVE FinishedIsFreed'
  BY <1>0 DEF Next
<1>1. ASSUME NEW x \in Resources, Create(g, x) PROVE FinishedIsFreed'
  BY <1>1, ResourcesAssumption DEF Create, Begin, Become
<1>2. ASSUME NEW x \in Resources, CloseUnheld(g, x) PROVE FinishedIsFreed'
  BY <1>2, ResourcesAssumption DEF CloseUnheld, AtOnce, DestroyNatives, Become, Resources
<1>3. ASSUME NEW s \in Sets, NewBindings(g, s) PROVE FinishedIsFreed'
  BY <1>3, ResourcesAssumption DEF NewBindings, Begin, Become, Resources
<1>4. ASSUME NEW s \in Sets, CloseSet(g, s) PROVE FinishedIsFreed'
  BY <1>4, ResourcesAssumption DEF CloseSet, Unused, Begin, DestroyNatives, Become, Resources
<1>5. ASSUME NEW s \in Sets, DispatchAndWait(g, s) PROVE FinishedIsFreed'
  BY <1>5, ResourcesAssumption DEF DispatchAndWait, Begin
<1>6. ASSUME NEW r \in Recorders, Submit(g, r) PROVE FinishedIsFreed'
  BY <1>6, ResourcesAssumption DEF Submit, Begin
<1>7. ASSUME NEW r \in Recorders, FinishRecorder(g, r) PROVE FinishedIsFreed'
  BY <1>7, ResourcesAssumption DEF FinishRecorder, Begin, DestroyNatives, Resources
<1>8. ASSUME NEW r \in Recorders, LoseRecorder(g, r) PROVE FinishedIsFreed'
  BY <1>8, ResourcesAssumption DEF LoseRecorder, AtOnce
<1>9. ASSUME NEW r \in Recorders, NEW s \in Sets, Dispatch(g, r, s) PROVE FinishedIsFreed'
  BY <1>9, ResourcesAssumption DEF Dispatch, AtOnce
<1>10. ASSUME CloseDevice(g) PROVE FinishedIsFreed'
  BY <1>10, ResourcesAssumption DEF CloseDevice
<1>11. ASSUME CreateNative(g) PROVE FinishedIsFreed'
  <2>1. PICK x \in Resources : x = op[g][2] /\ life[x] = "creating"
    BY <1>11 DEF CreateNative
  <2>2. Apart(g)
    BY <1>11, <2>1 DEF CreateNative, FailCreation, DestroyNatives, Become, Goto, End, Apart,
        Exclusive, CountTypes
  <2>3. x \in Recorders => recState[x] # "done"
    BY <2>1
  <2> QED BY <2>1, <2>2, <2>3 DEF Apart, Resources
<1>12. ASSUME AddChild(g) PROVE FinishedIsFreed'
  <2>1. PICK x \in Resources : x = op[g][2] /\ life[x] = "creating"
    BY <1>12 DEF AddChild
  <2>2. Apart(g)
    BY <1>12, <2>1 DEF AddChild, FailCreation, DestroyNatives, Become, Goto, End, Apart,
        Exclusive, CountTypes
  <2>3. x \in Recorders => recState[x] # "done"
    BY <2>1
  <2> QED BY <2>1, <2>2, <2>3 DEF Apart, Resources
<1>13. ASSUME RetainKernel(g) PROVE FinishedIsFreed'
  <2>1. PICK x \in Sets : x = op[g][2]
    BY <1>13 DEF RetainKernel
  <2>2. UNCHANGED <<native, recState>> /\ (life' = life \/ life' = [life EXCEPT ![x] = "failed"])
    BY <1>13, <2>1 DEF RetainKernel, Become
  <2> QED BY <2>1, <2>2, ResourcesAssumption DEF Resources
<1>14. ASSUME RetainBuffer(g) PROVE FinishedIsFreed'
  BY <1>14, ResourcesAssumption DEF RetainBuffer, Goto
<1>15. ASSUME ReleaseBuffer(g) PROVE FinishedIsFreed'
  BY <1>15, ResourcesAssumption DEF ReleaseBuffer
<1>16. ASSUME EndRelease(g) PROVE FinishedIsFreed'
  BY <1>16, ResourcesAssumption DEF EndRelease, ReleaseKernel, Become, End
<1>17. ASSUME SubmitDispatch(g) PROVE FinishedIsFreed'
  BY <1>17, ResourcesAssumption DEF SubmitDispatch, Goto
<1>18. ASSUME WaitForDispatch(g) PROVE FinishedIsFreed'
  BY <1>18, ResourcesAssumption DEF WaitForDispatch, Goto, End
<1>19. ASSUME Cleanup(g) PROVE FinishedIsFreed'
  BY <1>19, ResourcesAssumption DEF Cleanup, End
<1>20. ASSUME ReleaseSet(g) PROVE FinishedIsFreed'
  <2>1. PICK x \in Recorders : x = op[g][2] /\ life[x] = "live"
    BY <1>20 DEF ReleaseSet
  <2>2. UNCHANGED <<native, recState>> /\ (life' = life \/ life' = [life EXCEPT ![x] = "closed"])
    BY <1>20, <2>1 DEF ReleaseSet, Become
  <2> QED BY <2>1, <2>2 DEF Resources
<1>21. ASSUME Drain(g) PROVE FinishedIsFreed'
  BY <1>21, ResourcesAssumption DEF Drain
<1>22. ASSUME CloseChild(g) PROVE FinishedIsFreed'
  <2>1. PICK x \in Resources : x = Last(closeList)
    BY <1>22, LastAndFront DEF CloseChild, DeviceTypes
  <2>2. \/ UNCHANGED <<life, native, recState>>
        \/ /\ native' = [native EXCEPT ![x] = 0] /\ life' = [life EXCEPT ![x] = "closed"]
           /\ \A r \in Recorders \ {x} : recState'[r] = recState[r]
    BY <1>22, <2>1 DEF CloseChild, CloseSetFromDevice, CloseRecorderFromDevice, DestroyNatives,
        Become
  <2> QED BY <2>1, <2>2 DEF Resources
<1>23. ASSUME EndClose(g) PROVE FinishedIsFreed'
  BY <1>23, ResourcesAssumption DEF EndClose
<1>24. ASSUME ReserveDispatch(g) PROVE FinishedIsFreed'
  BY <1>24, ResourcesAssumption DEF ReserveDispatch, Goto
<1>25. ASSUME ReserveBatch(g) PROVE FinishedIsFreed'
  BY <1>25, ResourcesAssumption DEF ReserveBatch, End, DestroyNatives, Resources
<1> QED BY <1>1, <1>2, <1>3, <1>4, <1>5, <1>6, <1>7, <1>8, <1>9, <1>10, <1>11, <1>12, <1>13,
    <1>14, <1>15, <1>16, <1>17, <1>18, <1>19, <1>20, <1>21, <1>22, <1>23, <1>24, <1>25
        DEF Call, Step

----------------------------------------------------------------------------
LEMMA InvInit ==
    ASSUME Init
    PROVE  ResourcesInv
<1> USE DEF Init
<1>1. \A g \in Goroutines : pc[g] = "idle" /\ op[g] = << >>
  OBVIOUS
<1>2. Types
  <2>1. DeviceTypes
    <3>1. << >> \in Seq(Resources)
      OBVIOUS
    <3>2. status = "open" /\ children = << >> /\ closeList = << >> /\ closeErr = FALSE /\ transients = {}
      OBVIOUS
    <3> QED BY ONLY <3>1, <3>2 DEF DeviceTypes
  <2>2. LifeTypes
    BY DEF LifeTypes
  <2>3. CountTypes
    BY DEF CountTypes
  <2>4. RecorderTypes
    BY DEF RecorderTypes
  <2>5. CallTypes
    BY DEF CallTypes, Labels, Calls
  <2> QED BY <2>1, <2>2, <2>3, <2>4, <2>5 DEF Types
<1>3. Account
  <2>1. Operating = {}
    BY <1>1 DEF Operating
  <2> QED BY <2>1, FS_EmptySet DEF Account
<1>4. OneCloser /\ ~Destroying
  BY <1>1 DEF OneCloser, Closing, Destroying
<1>5. CallsFit /\ OneCall
  BY <1>1 DEF CallsFit, CallFits, OneCall, Exclusive, Creating, Using
<1>6. Built /\ FinishedIsFreed
  BY <1>1 DEF Built, BuiltAs, BuiltBy, FinishedIsFreed, Intact
<1>7. \A s \in Sets : life[s] = "none" /\ buffers[s] = {}
  BY DEF Resources
<1>8. Bound
  BY <1>1, <1>7 DEF Bound, BoundTo, BoundBy
<1>9. \A b : BindersOf(b) = {}
  BY <1>7 DEF BindersOf, Bindings
<1>10. \A s \in Sets : ~HoldsKernel(s)
  BY <1>1, <1>7 DEF HoldsKernel, Binding
<1>11. \A k : KernelHolders(k) = {}
  BY <1>10 DEF KernelHolders
<1>12. \A s : RecordersOf(s) = {} /\ LostOf(s) = {} /\ DispatchersOf(s) = {}
  BY <1>1 DEF RecordersOf, LostOf, DispatchersOf, Using
<1>13. ReferencesCounted /\ KernelsCounted /\ RecordersCounted
  <2>1. Cardinality({}) = 0
    BY FS_EmptySet
  <2>2. ReferencesCounted
    BY <1>9, <2>1 DEF ReferencesCounted
  <2>3. KernelsCounted
    BY <1>11, <2>1 DEF KernelsCounted
  <2>4. RecordersCounted
    <3>1. \A s \in Sets : recorders[s] = 0
      OBVIOUS
    <3> QED BY ONLY <1>12, <2>1, <3>1 DEF RecordersCounted
  <2> QED BY <2>2, <2>3, <2>4
<1>14. LostOnce
  BY <1>1 DEF LostOnce
<1>15. HeldLive
  <2>1. Held = {}
    BY <1>1 DEF Held
  <2> QED BY <1>1, <1>7, <1>10, <2>1 DEF HeldLive, BuffersLive, KernelsLive, SetsLive, Offered
<1>16. Listed
  BY <1>1 DEF Listed
<1> QED BY <1>2, <1>3, <1>4, <1>5, <1>6, <1>8, <1>13, <1>14, <1>15, <1>16 DEF ResourcesInv

LEMMA InvKept ==
    ASSUME ResourcesInv, [Next]_vars
    PROVE  ResourcesInv'
<1>1. Types'
  BY DeviceTypesKept, LifeTypesKept, CountTypesKept, RecorderTypesKept, CallTypesKept DEF Types
<1>2. Account' /\ OneCloser' /\ CallsFit' /\ OneCall'
  BY AccountKept, OneCloserKept, CallsFitKept, OneCallKept
<1>3. Built' /\ FinishedIsFreed' /\ Bound'
  BY BuiltKept, FinishedIsFreedKept, BoundKept
<1>4. ReferencesCounted' /\ KernelsCounted' /\ RecordersCounted' /\ LostOnce'
  BY ReferencesCountedKept, KernelsCountedKept, RecordersCountedKept, LostOnceKept
<1>5. HeldLive' /\ Listed'
  BY HeldLiveKept, ListedKept
<1> QED BY <1>1, <1>2, <1>3, <1>4, <1>5 DEF ResourcesInv

\* The parts of the invariant hold together, whoever calls what and wherever a call
\* fails.
THEOREM ResourcesInvariant == Spec => []ResourcesInv
<1>1. Init => ResourcesInv
  BY InvInit
<1>2. ResourcesInv /\ [Next]_vars => ResourcesInv'
  BY InvKept
<1> QED BY <1>1, <1>2, PTL DEF Spec

LEMMA NativesBounded ==
    ASSUME ResourcesInv, NEW x \in Resources
    PROVE  native[x] <= Natives(x)
<1>1. BuiltAs(x) /\ (Finished(x) => native[x] = 0)
  BY DEF ResourcesInv, Built, FinishedIsFreed, Finished
<1>2. native[x] \in Nat /\ Natives(x) \in Nat
  BY NativesCount DEF ResourcesInv, Types, LifeTypes
<1>3. ASSUME NEW g \in Goroutines, pc[g] \in {"native", "addChild"}, op[g][2] = x
      PROVE  native[x] <= Natives(x)
  BY <1>2, <1>3 DEF ResourcesInv, Built, BuiltBy, Intact
<1> QED BY <1>1, <1>2, <1>3 DEF BuiltAs, Intact

\* active never exceeds the goroutines, and no resource gets a native object twice.
THEOREM ResourceTypes == Spec => []TypeOK
<1>1. ASSUME ResourcesInv
      PROVE  TypeOK
  <2>1. active \in 0..Cardinality(Goroutines)
    <3>1. Cardinality(Goroutines) \in Nat
      BY FS_CardinalityType, ResourcesAssumption
    <3> QED BY <1>1, <3>1, OperatingIsFinite DEF ResourcesInv, Account
  <2>2. \A x \in Resources : native[x] <= Natives(x)
    BY <1>1, NativesBounded
  <2> QED BY <1>1, <2>1, <2>2
          DEF TypeOK, ResourcesInv, Types, DeviceTypes, LifeTypes, CountTypes, RecorderTypes,
              CallTypes, Bound, BoundTo
<1> QED BY <1>1, ResourcesInvariant, PTL

\* Until Device.Close destroys, a set in use has its pool, and one that has its pool
\* has its kernel and its buffers.
THEOREM NothingDestroyedInUse == Spec => []UsedResourcesExist
<1>1. ASSUME ResourcesInv, ~Destroying
      PROVE  /\ \A s \in Held : Intact(s)
             /\ \A s \in Sets : native[s] > 0 =>
                   Intact(KernelOf[s]) /\ \A b \in Range(BuffersOf[s]) : Intact(b)
  <2>1. ASSUME NEW x \in Resources, life[x] = "live", x \notin Recorders
        PROVE  Intact(x)
    BY <1>1, <2>1 DEF ResourcesInv, Built, BuiltAs, Finished
  <2>2. ASSUME NEW s \in Held
        PROVE  Intact(s)
    <3>1. s \in Sets /\ life[s] = "live"
      BY <1>1 DEF Held, ResourcesInv, HeldLive, SetsLive
    <3> QED BY <2>1, <3>1, ResourcesAssumption DEF Resources
  <2>3. ASSUME NEW s \in Sets, native[s] > 0
        PROVE  Intact(KernelOf[s]) /\ \A b \in Range(BuffersOf[s]) : Intact(b)
    <3>1. life[s] = "live" \/ \E g \in Goroutines : pc[g] \in {"native", "addChild"} /\ op[g][2] = s
      BY <1>1, <2>3 DEF ResourcesInv, Built, BuiltAs, Resources
    <3>2. HoldsKernel(s) /\ buffers[s] = DOMAIN BuffersOf[s]
      BY <1>1, <3>1 DEF ResourcesInv, Bound, BoundTo, BoundBy, HoldsKernel, Binding
    <3>3. life[KernelOf[s]] = "live" /\ \A b \in Range(BuffersOf[s]) : life[b] = "live"
      BY <1>1, <3>2 DEF ResourcesInv, HeldLive, KernelsLive, BuffersLive, Range
    <3>4. KernelOf[s] \in Kernels /\ \A b \in Range(BuffersOf[s]) : b \in Buffers
      BY ResourcesAssumption DEF Range
    <3> QED BY <2>1, <3>3, <3>4, ResourcesAssumption DEF Resources
  <2> QED BY <2>2, <2>3
<1>2. ResourcesInv => UsedResourcesExist
  BY <1>1 DEF UsedResourcesExist
<1> QED BY <1>2, ResourcesInvariant, PTL

\* Every count is the number of its holders on every path, those of the calls that
\* fail included: no reference is lost and none is released twice.
THEOREM CountsAreTheHolders == Spec => []CountsAreHolders
<1>1. ASSUME ResourcesInv
      PROVE  CountsAreHolders
  <2>1. \A b \in Buffers :
           references[b] = Cardinality(UNION {{s} \X Bindings(s, b) : s \in Sets})
    BY <1>1 DEF ResourcesInv, ReferencesCounted, BindersOf
  <2>2. \A k \in Kernels :
           bindingSets[k] =
               Cardinality({s \in Sets : /\ KernelOf[s] = k
                                         /\ \/ life[s] = "live"
                                            \/ \E g \in Goroutines :
                                                  /\ pc[g] \in {"buffers", "native", "addChild", "unwind"}
                                                  /\ op[g][2] = s})
    BY <1>1 DEF ResourcesInv, KernelsCounted, KernelHolders, HoldsKernel, Binding
  <2>3. \A s \in Sets :
           recorders[s] =
               Cardinality({r \in Recorders : s \in recSets[r]})
               + Cardinality({t \in transients : t[2] = s})
               + Cardinality({g \in Goroutines : pc[g] \in {"record", "reserve", "fence", "cleanup"} /\ op[g][2] = s})
    BY <1>1 DEF ResourcesInv, RecordersCounted, RecordersOf, LostOf, DispatchersOf, Using
  <2> QED BY <2>1, <2>2, <2>3 DEF CountsAreHolders
<1> QED BY <1>1, ResourcesInvariant, PTL

\* A creation that fails and a close leave no native object, and neither does a
\* Device.Close without error.
THEOREM NothingEverLeaks == Spec => []NothingLeaks
<1>1. ASSUME ResourcesInv
      PROVE  NothingLeaks
  <2>1. ASSUME NEW x \in Resources, life[x] \in {"closed", "failed"}
        PROVE  native[x] = 0
    BY <1>1, <2>1 DEF ResourcesInv, Built, BuiltAs
  <2>2. ASSUME status = "closed", ~closeErr, NEW x \in Resources
        PROVE  native[x] = 0
    <3>1. life[x] # "live"
      BY <1>1, <2>2 DEF ResourcesInv, Listed
    <3>2. \A g \in Goroutines : pc[g] \in {"idle"} \cup Closing
      BY <1>1, <2>2, NobodyCalls DEF ResourcesInv, Destroying
    <3>3. \A g \in Goroutines : pc[g] \notin {"native", "addChild"}
      BY <3>2 DEF Closing
    <3> QED BY <1>1, <3>1, <3>3 DEF ResourcesInv, Built, BuiltAs
  <2> QED BY <2>1, <2>2 DEF NothingLeaks
<1> QED BY <1>1, ResourcesInvariant, PTL

=============================================================================
