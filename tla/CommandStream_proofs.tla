------------------------ MODULE CommandStream_proofs ------------------------
(***************************************************************************)
(* Theorems about what recorders reserve and retain, which timestamp       *)
(* queries their commands write, and what their barriers order on the      *)
(* queue, for any recorders, buffers, binding sets and devices, and        *)
(* command buffers of any length.                                          *)
(***************************************************************************)
EXTENDS CommandStream, RecordedCommands_proofs

----------------------------------------------------------------------------
(* The uses of a recorder cover its commands. *)

RecordTypes ==
    /\ commands \in [Recorders -> Seq(Commands)]
    /\ retained \in [Recorders -> SUBSET Buffers]
    /\ uses \in [Recorders -> Resources]

\* The access that a use grants.
Grants(use, access) == use \in (IF Writes(access) THEN {"write"} ELSE {"read", "write"})

\* What command c, at place i of its command buffer, needs of its recorder: uses u
\* and buffers held.
Covered(c, i, u, held) ==
    /\ \A t \in Range(DeviceCommands(c, i)) :
          t.op = "touch" /\ t.buffer # Staging(i) => t.buffer \in Buffers /\ Grants(u[t.buffer], t.access)
    /\ Retains(c) \subseteq held

CoverInv ==
    /\ RecordTypes
    /\ \A r \in Recorders : \A i \in DOMAIN commands[r] : Covered(commands[r][i], i, uses[r], retained[r])

\* Uses only grow: v grants what u does.
Above(v, u) ==
    \A b \in Buffers : /\ u[b] = "write" => v[b] = "write"
                       /\ u[b] = "read" => v[b] \in {"read", "write"}

\* A kernel touches the buffers of its binding set, as they are bound.
LEMMA DispatchTouches ==
    ASSUME NEW access \in Resources, NEW touches,
           touches = DispatchKernel({b \in Buffers : access[b] = "read"}, {b \in Buffers : access[b] = "write"})
    PROVE  /\ \E n \in Nat : DOMAIN touches = 1..n
           /\ \A t \in Range(touches) :
                 /\ t.op = "touch" /\ t.stage = "compute" /\ t.access \in ShaderAccess
                 /\ t.buffer \in Buffers /\ Grants(access[t.buffer], t.access)
<1> DEFINE read == {b \in Buffers : access[b] = "read"}
           changed == {b \in Buffers : access[b] = "write"}
<1>1. IsFiniteSet(read) /\ IsFiniteSet(changed)
  BY FS_Subset, StreamAssumption DEF StreamAssumption
<1>2. touches = DispatchKernel(read, changed)
  OBVIOUS
<1>3. \A b \in read : b \in Buffers /\ Grants(access[b], "shaderRead")
  BY DEF Grants, Writes
<1>4. \A b \in changed : b \in Buffers /\ Grants(access[b], "shaderRead") /\ Grants(access[b], "shaderWrite")
  BY DEF Grants, Writes
<1> HIDE DEF read, changed
<1>5. /\ \E n \in Nat : DOMAIN touches = 1..n
      /\ \A t \in Range(touches) :
            /\ t.op = "touch" /\ t.stage = "compute"
            /\ \/ t.access = "shaderRead" /\ t.buffer \in read \cup changed
               \/ t.access = "shaderWrite" /\ t.buffer \in changed
  <2> DEFINE kernel == DispatchKernel(read, changed)
  <2>1. /\ \E n \in Nat : DOMAIN kernel = 1..n
        /\ \A t \in Range(kernel) :
              /\ t.op = "touch" /\ t.stage = "compute"
              /\ \/ t.access = "shaderRead" /\ t.buffer \in read \cup changed
                 \/ t.access = "shaderWrite" /\ t.buffer \in changed
    BY <1>1, KernelTouches
  <2>2. touches = kernel
    BY <1>2
  <2> HIDE DEF kernel
  <2> QED BY <2>1, <2>2
<1> QED BY <1>3, <1>4, <1>5 DEF ShaderAccess

\* A command adds its own uses to those of the commands before it.
LEMMA UsesGrow ==
    ASSUME NEW u \in Resources, NEW c \in Commands
    PROVE  AddUses(u, c) \in Resources /\ Above(AddUses(u, c), u)
<1>1. CASE c.op \in {"update", "upload", "download"}
  <2>1. c.buffer \in Buffers
    BY <1>1 DEF Commands
  <2> QED BY <1>1, <2>1 DEF AddUses, AddAccess, Above, Resources, Access
<1>2. CASE c.op = "barrier"
  BY <1>2 DEF AddUses, Above
<1>3. CASE c.op = "dispatch"
  <2>1. c.access \in Resources
    BY <1>3, StreamAssumption DEF Commands, StreamAssumption
  <2>2. AddUses(u, c) = MergeUses({u, c.access})
    BY <1>3 DEF AddUses
  <2> QED BY <2>1, <2>2 DEF MergeUses, Above, Resources, Access
<1> QED BY <1>1, <1>2, <1>3 DEF Commands

\* The uses it adds, and the buffers it retains, are those it needs.
LEMMA CommandIsCovered ==
    ASSUME NEW u \in Resources, NEW c \in Commands, NEW i, NEW held, Retains(c) \subseteq held
    PROVE  Covered(c, i, AddUses(u, c), held)
<1> SUFFICES ASSUME NEW t \in Range(DeviceCommands(c, i)), t.op = "touch", t.buffer # Staging(i)
             PROVE  t.buffer \in Buffers /\ Grants(AddUses(u, c)[t.buffer], t.access)
  BY DEF Covered
<1>1. CASE c.op = "update"
  <2>1. c.buffer \in Buffers
    BY <1>1 DEF Commands
  <2>2. t = Touch("transfer", "transferWrite", c.buffer)
    BY <1>1 DEF DeviceCommands, UpdateBuffer, Range, Dependency
  <2>3. AddUses(u, c)[c.buffer] = "write"
    BY <1>1, <2>1 DEF AddUses, AddAccess, Resources
  <2> QED BY <2>1, <2>2, <2>3 DEF Touch, Grants, Writes
<1>2. CASE c.op = "upload"
  <2>1. c.buffer \in Buffers
    BY <1>2 DEF Commands
  <2>2. t = Touch("transfer", "transferWrite", c.buffer)
    BY <1>2 DEF DeviceCommands, UploadBuffer, Range, Dependency
  <2>3. AddUses(u, c)[c.buffer] = "write"
    BY <1>2, <2>1 DEF AddUses, AddAccess, Resources
  <2> QED BY <2>1, <2>2, <2>3 DEF Touch, Grants, Writes
<1>3. CASE c.op = "download"
  <2>1. c.buffer \in Buffers
    BY <1>3 DEF Commands
  <2>2. t = Touch("transfer", "transferRead", c.buffer)
    BY <1>3 DEF DeviceCommands, DownloadBuffer, Range, Dependency, Touch
  <2>3. AddUses(u, c)[c.buffer] \in {"read", "write"}
    BY <1>3, <2>1 DEF AddUses, AddAccess, Resources
  <2> QED BY <2>1, <2>2, <2>3 DEF Touch, Grants, Writes
<1>4. CASE c.op = "barrier"
  BY <1>4 DEF DeviceCommands, ComputeBarrier, Range, Dependency
<1>5. CASE c.op = "dispatch"
  <2>1. c.access \in Resources
    BY <1>5, StreamAssumption DEF Commands, StreamAssumption
  <2>2. DeviceCommands(c, i)
          = DispatchKernel({b \in Buffers : c.access[b] = "read"}, {b \in Buffers : c.access[b] = "write"})
    BY <1>5 DEF DeviceCommands
  <2>3. t.buffer \in Buffers /\ Grants(c.access[t.buffer], t.access)
    BY <2>1, <2>2, DispatchTouches
  <2>4. AddUses(u, c) = MergeUses({u, c.access})
    BY <1>5 DEF AddUses
  <2> QED BY <2>1, <2>3, <2>4 DEF Grants, MergeUses
<1> QED BY <1>1, <1>2, <1>3, <1>4, <1>5 DEF Commands

\* What was covered stays covered while uses and buffers are added.
LEMMA CoveredStays ==
    ASSUME NEW c, NEW i, NEW u, NEW v, NEW held, NEW more,
           Covered(c, i, u, held), Above(v, u), held \subseteq more
    PROVE  Covered(c, i, v, more)
BY DEF Covered, Above, Grants

\* A step that records no command, and takes nothing from the recorder, keeps it covered.
LEMMA CoverGrows ==
    ASSUME CoverInv, RecordTypes', UNCHANGED commands,
           \A r \in Recorders : Above(uses'[r], uses[r]) /\ retained[r] \subseteq retained'[r]
    PROVE  CoverInv'
BY CoveredStays DEF CoverInv

LEMMA AboveItself == \A u : Above(u, u)
BY DEF Above

LEMMA CoverRecord ==
    ASSUME CoverInv, NEW r \in Recorders, NEW c \in Commands, Record(r, c)
    PROVE  CoverInv'
<1> USE DEF CoverInv, RecordTypes
<1>1. Retains(c) \subseteq Buffers
  BY DEF Retains, Commands
<1>2. AddUses(uses[r], c) \in Resources /\ Above(AddUses(uses[r], c), uses[r])
  BY UsesGrow
<1>3. RecordTypes'
  <2>1. Append(commands[r], c) \in Seq(Commands)
    OBVIOUS
  <2> QED BY <1>1, <1>2, <2>1 DEF Record
<1>4. ASSUME NEW k \in Recorders, NEW i \in DOMAIN commands'[k]
      PROVE  Covered(commands'[k][i], i, uses'[k], retained'[k])
  <2>1. CASE k # r
    BY <2>1 DEF Record
  <2>2. CASE k = r
    <3>1. commands'[r] = Append(commands[r], c) /\ uses'[r] = AddUses(uses[r], c)
          /\ retained'[r] = retained[r] \cup Retains(c)
      BY DEF Record
    <3>2. CASE i \in DOMAIN commands[r]
      <4>1. commands'[r][i] = commands[r][i]
        BY <3>1, <3>2
      <4> QED BY <1>2, <2>2, <3>1, <3>2, <4>1, CoveredStays
    <3>3. CASE i \notin DOMAIN commands[r]
      <4>1. commands'[r][i] = c
        BY <2>2, <3>1, <3>3
      <4> QED BY <2>2, <3>1, <4>1, CommandIsCovered
    <3> QED BY <3>2, <3>3
  <2> QED BY <2>1, <2>2
<1> QED BY <1>3, <1>4

LEMMA CoverFailRecord ==
    ASSUME CoverInv, NEW r \in Recorders, NEW c \in Commands, FailRecord(r, c)
    PROVE  CoverInv'
<1> USE DEF CoverInv, RecordTypes
<1>1. CASE /\ c.op = "update"
           /\ retained' = [retained EXCEPT ![r] = @ \cup {c.buffer}]
           /\ uses' = [uses EXCEPT ![r] = AddUses(@, c)]
  <2>1. c.buffer \in Buffers
    BY <1>1 DEF Commands
  <2>2. AddUses(uses[r], c) \in Resources /\ Above(AddUses(uses[r], c), uses[r])
    BY UsesGrow
  <2>3. RecordTypes' /\ UNCHANGED commands
    BY <1>1, <2>1, <2>2 DEF FailRecord
  <2>4. \A k \in Recorders : Above(uses'[k], uses[k]) /\ retained[k] \subseteq retained'[k]
    BY <1>1, <2>2, AboveItself
  <2> QED BY <2>3, <2>4, CoverGrows
<1>2. CASE /\ c.op = "barrier"
           /\ \E bs \in SUBSET c.buffers : retained' = [retained EXCEPT ![r] = @ \cup bs]
           /\ UNCHANGED uses
  <2>1. PICK bs \in SUBSET c.buffers : retained' = [retained EXCEPT ![r] = @ \cup bs]
    BY <1>2
  <2>2. bs \subseteq Buffers
    BY <1>2, <2>1 DEF Commands
  <2>3. RecordTypes' /\ UNCHANGED commands
    BY <1>2, <2>1, <2>2 DEF FailRecord
  <2>4. \A k \in Recorders : Above(uses'[k], uses[k]) /\ retained[k] \subseteq retained'[k]
    BY <1>2, <2>1, AboveItself
  <2> QED BY <2>3, <2>4, CoverGrows
<1> QED BY <1>1, <1>2 DEF FailRecord

LEMMA CoverFinish ==
    ASSUME CoverInv, NEW rs, NEW final, Finish(rs, final)
    PROVE  CoverInv'
<1> USE DEF CoverInv, RecordTypes
<1>1. RecordTypes'
  <2>1. NoBuffers \in Resources
    BY DEF NoBuffers, Resources, Access
  <2>2. << >> \in Seq(Commands)
    OBVIOUS
  <2> QED BY <2>1, <2>2 DEF Finish
<1>2. ASSUME NEW k \in Recorders, NEW i \in DOMAIN commands'[k]
      PROVE  Covered(commands'[k][i], i, uses'[k], retained'[k])
  BY <1>2 DEF Finish
<1> QED BY <1>1, <1>2

LEMMA CoverInit == Init => CoverInv
<1> SUFFICES ASSUME Init PROVE CoverInv
  OBVIOUS
<1>1. NoBuffers \in Resources
  BY DEF NoBuffers, Resources, Access
<1>2. << >> \in Seq(Commands)
  OBVIOUS
<1>3. RecordTypes
  BY <1>1, <1>2 DEF Init, RecordTypes
<1>4. \A r \in Recorders : DOMAIN commands[r] = {}
  BY DEF Init
<1> QED BY <1>3, <1>4 DEF CoverInv

LEMMA CoverStep == CoverInv /\ [Next]_vars => CoverInv'
<1> SUFFICES ASSUME CoverInv, [Next]_vars
             PROVE  CoverInv'
  OBVIOUS
<1>1. CASE UNCHANGED recorderVars
  BY <1>1, AboveItself, CoverGrows DEF recorderVars, CoverInv, RecordTypes
<1>2. CASE UNCHANGED <<commands, retained, uses>>
  BY <1>2, AboveItself, CoverGrows DEF CoverInv, RecordTypes
<1>3. ASSUME NEW r \in Recorders,
             (\E c \in Commands : Record(r, c) \/ FailRecord(r, c)) \/ TimestampBegin(r) \/ TimestampEnd(r)
      PROVE  CoverInv'
  BY <1>1, <1>3, CoverRecord, CoverFailRecord DEF TimestampBegin, TimestampEnd
<1>4. ASSUME NEW recs \in Arguments, Submit(recs) \/ AbortRecording(recs)
      PROVE  CoverInv'
  BY <1>2, <1>4, CoverFinish DEF Submit, AbortRecording
<1>5. ASSUME NEW i \in DOMAIN batches, Observe(i)
      PROVE  CoverInv'
  BY <1>5, CoverFinish DEF Observe
<1>6. CASE UNCHANGED vars
  BY <1>1, <1>6 DEF vars, recorderVars
<1> QED BY <1>3, <1>4, <1>5, <1>6 DEF Next

LEMMA CoverInvariant == Spec => []CoverInv
BY CoverInit, CoverStep, PTL DEF Spec

\* The uses of a recorder grant every access of its commands, and its buffers are
\* retained, whatever was recorded and whatever failed (Recorder.Update, Upload,
\* Download, Barrier, Dispatch and finish): a reservation that is granted by the uses
\* covers what the device will do.
THEOREM UsesAreEnough == Spec => []UsesCoverCommands
<1>1. CoverInv => UsesCoverCommands
  BY DEF CoverInv, Covered, UsesCoverCommands, Grants
<1> QED BY <1>1, CoverInvariant, PTL

----------------------------------------------------------------------------
(* The timestamp queries. *)

\* The queries 0, 1, ... of the first n timestamps.
Queries(n) == [i \in 1..n |-> i - 1]

QueryTypes ==
    /\ validBits \in Nat
    /\ state \in [Recorders -> {"recording", "submitted", "done", "aborted"}]
    /\ spans \in [Recorders -> 0..MaxTimestampSpans]
    /\ tsOpen \in [Recorders -> BOOLEAN]
    /\ tsPool \in [Recorders -> BOOLEAN]
    /\ written \in [Recorders -> Seq(Int)]

\* A recorder that can still be executed has written both queries of each span, the
\* second of an open one excepted, and has a pool as soon as it has a span.
QueriesOf(r) ==
    /\ state[r] \in {"recording", "submitted"} =>
          /\ tsOpen[r] => spans[r] > 0
          /\ TimestampsSupported =>
                /\ tsPool[r] <=> spans[r] > 0
                /\ written[r] = Queries(IF tsOpen[r] THEN 2 * spans[r] - 1 ELSE 2 * spans[r])
          /\ ~TimestampsSupported => ~tsPool[r]
    /\ state[r] = "submitted" => ~tsOpen[r]
    /\ ~TimestampsSupported \/ state[r] \notin {"recording", "submitted"} => written[r] = << >>

QueryInv ==
    /\ QueryTypes
    /\ \A r \in Recorders : QueriesOf(r)

LEMMA NextQuery ==
    ASSUME NEW n \in Nat
    PROVE  Append(Queries(n), n) = Queries(n + 1)
<1>1. Queries(n) \in Seq(Int) /\ Len(Queries(n)) = n
  BY DEF Queries
<1>2. Append(Queries(n), n) \in Seq(Int) /\ Len(Append(Queries(n), n)) = n + 1
  BY <1>1
<1>3. Queries(n + 1) \in Seq(Int) /\ Len(Queries(n + 1)) = n + 1
  BY DEF Queries
<1>4. ASSUME NEW i \in 1..(n + 1)
      PROVE  Append(Queries(n), n)[i] = Queries(n + 1)[i]
  BY <1>1 DEF Queries
<1> QED BY <1>2, <1>3, <1>4, SeqEqual

LEMMA QueryInit == Init => QueryInv
<1> SUFFICES ASSUME Init PROVE QueryInv
  OBVIOUS
<1>1. validBits \in Nat
  BY StreamAssumption DEF Init, StreamAssumption
<1>2. << >> \in Seq(Int) /\ << >> = Queries(0)
  BY DEF Queries
<1>3. QueryTypes
  <2>1. 0 \in 0..MaxTimestampSpans
    BY StreamAssumption DEF StreamAssumption
  <2> QED BY <1>1, <1>2, <2>1 DEF Init, QueryTypes
<1>4. ASSUME NEW r \in Recorders
      PROVE  QueriesOf(r)
  <2>1. ~tsOpen[r] /\ spans[r] = 0 /\ ~tsPool[r] /\ written[r] = << >> /\ state[r] = "recording"
    BY DEF Init
  <2>2. written[r] = Queries(2 * spans[r])
    <3>1. 2 * spans[r] = 0
      BY <2>1
    <3> QED BY <1>2, <2>1, <3>1
  <2>3. ~(spans[r] > 0)
    BY <2>1
  <2> QED BY <2>1, <2>2, <2>3 DEF QueriesOf
<1> QED BY <1>3, <1>4 DEF QueryInv

LEMMA QueriesBegin ==
    ASSUME QueryInv, NEW r \in Recorders, TimestampBegin(r)
    PROVE  QueryInv'
<1> USE DEF QueryInv, QueryTypes
<1>1. state[r] = "recording" /\ ~tsOpen[r] /\ spans[r] \in Nat
  BY DEF TimestampBegin
<1>2. /\ spans'[r] = spans[r] + 1 /\ tsOpen'[r] /\ UNCHANGED <<validBits, state>>
      /\ \A k \in Recorders \ {r} : spans'[k] = spans[k] /\ tsOpen'[k] = tsOpen[k]
  BY DEF TimestampBegin, recorderVars
<1>3. spans' \in [Recorders -> 0..MaxTimestampSpans] /\ tsOpen' \in [Recorders -> BOOLEAN]
  <2>1. spans[r] + 1 \in 0..MaxTimestampSpans
    BY StreamAssumption DEF TimestampBegin, StreamAssumption
  <2> QED BY <2>1 DEF TimestampBegin
<1>4. CASE TimestampsSupported
  <2>1. tsPool' = [tsPool EXCEPT ![r] = TRUE]
        /\ written' = [written EXCEPT ![r] = Append(written[r], 2 * spans[r])]
    BY <1>4 DEF TimestampBegin, WriteTimestamp
  <2>2. written[r] = Queries(2 * spans[r])
    BY <1>1, <1>4 DEF QueriesOf
  <2>3. written'[r] = Queries(2 * spans'[r] - 1)
    <3>1. Append(Queries(2 * spans[r]), 2 * spans[r]) = Queries(2 * spans[r] + 1)
      <4>1. 2 * spans[r] \in Nat
        BY <1>1
      <4> QED BY <4>1, NextQuery
    <3>2. 2 * spans'[r] - 1 = 2 * spans[r] + 1
      BY <1>1, <1>2
    <3> QED BY <2>1, <2>2, <3>1, <3>2
  <2>4. QueryTypes'
    BY <1>1, <1>2, <1>3, <2>1
  <2>5. QueriesOf(r)'
    <3>1. tsPool'[r] /\ spans'[r] > 0 /\ tsOpen'[r] /\ state'[r] = "recording" /\ validBits' > 0
      BY <1>1, <1>2, <1>4, <2>1 DEF TimestampsSupported
    <3> QED BY <2>3, <3>1 DEF QueriesOf, TimestampsSupported
  <2>6. ASSUME NEW k \in Recorders \ {r}
        PROVE  QueriesOf(k)'
    <3>1. tsPool'[k] = tsPool[k] /\ written'[k] = written[k]
      BY <2>1
    <3>2. QueriesOf(k)
      OBVIOUS
    <3> QED BY <1>2, <3>1, <3>2 DEF QueriesOf, TimestampsSupported
  <2> QED BY <2>4, <2>5, <2>6
<1>5. CASE ~TimestampsSupported
  <2>1. UNCHANGED <<tsPool, written>>
    BY <1>5 DEF TimestampBegin
  <2>2. QueryTypes'
    BY <1>2, <1>3, <2>1
  <2>3. QueriesOf(r)'
    BY <1>1, <1>2, <1>5, <2>1 DEF QueriesOf, TimestampsSupported
  <2>4. ASSUME NEW k \in Recorders \ {r}
        PROVE  QueriesOf(k)'
    BY <1>2, <2>1 DEF QueriesOf, TimestampsSupported
  <2> QED BY <2>2, <2>3, <2>4
<1> QED BY <1>4, <1>5

LEMMA QueriesEnd ==
    ASSUME QueryInv, NEW r \in Recorders, TimestampEnd(r)
    PROVE  QueryInv'
<1> USE DEF QueryInv, QueryTypes
<1>1. state[r] = "recording" /\ tsOpen[r] /\ spans[r] \in Nat /\ spans[r] > 0
  BY DEF TimestampEnd, QueriesOf
<1>2. /\ ~tsOpen'[r] /\ UNCHANGED <<validBits, state, spans, tsPool>>
      /\ \A k \in Recorders \ {r} : tsOpen'[k] = tsOpen[k]
  BY DEF TimestampEnd, recorderVars
<1>3. CASE TimestampsSupported
  <2>1. tsPool[r] /\ written[r] = Queries(2 * spans[r] - 1)
    BY <1>1, <1>3 DEF QueriesOf
  <2>2. written' = [written EXCEPT ![r] = Append(written[r], 2 * (spans[r] - 1) + 1)]
    BY <1>3, <2>1 DEF TimestampEnd, WriteTimestamp
  <2>3. written'[r] = Queries(2 * spans'[r])
    <3> DEFINE n == 2 * spans[r] - 1
    <3>1. n \in Nat /\ n + 1 = 2 * spans[r] /\ 2 * (spans[r] - 1) + 1 = n
      BY <1>1
    <3>2. Append(Queries(n), n) = Queries(n + 1)
      BY <3>1, NextQuery
    <3> QED BY <1>2, <2>1, <2>2, <3>1, <3>2
  <2>4. QueryTypes'
    BY <1>2, <1>1, <2>2 DEF TimestampEnd
  <2>5. QueriesOf(r)'
    BY <1>1, <1>2, <1>3, <2>1, <2>3 DEF QueriesOf, TimestampsSupported
  <2>6. ASSUME NEW k \in Recorders \ {r}
        PROVE  QueriesOf(k)'
    <3>1. written'[k] = written[k]
      BY <2>2
    <3>2. QueriesOf(k)
      OBVIOUS
    <3> QED BY <1>2, <3>1, <3>2 DEF QueriesOf, TimestampsSupported
  <2> QED BY <2>4, <2>5, <2>6
<1>4. CASE ~TimestampsSupported
  <2>1. UNCHANGED written
    BY <1>4 DEF TimestampEnd
  <2>2. QueryTypes'
    BY <1>2, <2>1 DEF TimestampEnd
  <2>3. ASSUME NEW k \in Recorders
        PROVE  QueriesOf(k)'
    BY <1>1, <1>2, <1>4, <2>1 DEF QueriesOf, TimestampsSupported
  <2> QED BY <2>2, <2>3
<1> QED BY <1>3, <1>4

LEMMA QueriesSubmit ==
    ASSUME QueryInv, NEW recs, Submit(recs)
    PROVE  QueryInv'
<1> USE DEF QueryInv, QueryTypes
<1>1. UNCHANGED <<validBits, spans, tsOpen, tsPool, written>>
  BY DEF Submit, timestampVars
<1>2. \A k \in Recorders : IF k \in Range(recs) THEN state[k] = "recording" /\ ~tsOpen[k] /\ state'[k] = "submitted"
                                                ELSE state'[k] = state[k]
  BY DEF Submit, Submittable
<1>3. QueryTypes'
  BY <1>1 DEF Submit
<1>4. ASSUME NEW k \in Recorders
      PROVE  QueriesOf(k)'
  BY <1>1, <1>2 DEF QueriesOf, TimestampsSupported
<1> QED BY <1>3, <1>4

LEMMA QueriesFinish ==
    ASSUME QueryInv, NEW rs, NEW final \in {"done", "aborted"}, Finish(rs, final),
           UNCHANGED <<validBits, spans, tsOpen>>
    PROVE  QueryInv'
<1> USE DEF QueryInv, QueryTypes
<1>1. QueryTypes'
  <2>1. << >> \in Seq(Int)
    OBVIOUS
  <2> QED BY <2>1 DEF Finish
<1>2. ASSUME NEW k \in Recorders
      PROVE  QueriesOf(k)'
  <2>1. CASE k \in rs
    BY <2>1 DEF Finish, QueriesOf
  <2>2. CASE k \notin rs
    <3>1. state'[k] = state[k] /\ tsPool'[k] = tsPool[k] /\ written'[k] = written[k]
      BY <2>2 DEF Finish
    <3> QED BY <3>1 DEF QueriesOf, TimestampsSupported
  <2> QED BY <2>1, <2>2
<1> QED BY <1>1, <1>2

LEMMA QueryStep == QueryInv /\ [Next]_vars => QueryInv'
<1> SUFFICES ASSUME QueryInv, [Next]_vars
             PROVE  QueryInv'
  OBVIOUS
<1>1. CASE UNCHANGED <<validBits, state, spans, tsOpen, tsPool, written>>
  BY <1>1 DEF QueryInv, QueryTypes, QueriesOf, TimestampsSupported
<1>2. ASSUME NEW r \in Recorders, NEW c \in Commands, Record(r, c) \/ FailRecord(r, c)
      PROVE  QueryInv'
  BY <1>1, <1>2 DEF Record, FailRecord, timestampVars
<1>3. ASSUME NEW r \in Recorders, TimestampBegin(r) \/ TimestampEnd(r)
      PROVE  QueryInv'
  BY <1>3, QueriesBegin, QueriesEnd
<1>4. ASSUME NEW recs \in Arguments, Submit(recs) \/ AbortRecording(recs)
      PROVE  QueryInv'
  BY <1>4, QueriesSubmit, QueriesFinish DEF AbortRecording
<1>5. ASSUME NEW i \in DOMAIN batches, Observe(i)
      PROVE  QueryInv'
  BY <1>5, QueriesFinish DEF Observe
<1>6. CASE UNCHANGED vars
  BY <1>1, <1>6 DEF vars, recorderVars, timestampVars
<1> QED BY <1>2, <1>3, <1>4, <1>5, <1>6 DEF Next

\* Each query that Timestamps of a submitted recorder reads is written exactly once, and
\* in the order of the spans, whatever else was recorded (Recorder.TimestampBegin,
\* TimestampEnd and beginSubmit, which refuses an open span): the wait for the results
\* ends.  It is the first half of TimestampsAreSound.
THEOREM QueriesAreWrittenOnce == Spec => []QueriesWritten
<1>1. QueryInv => QueriesWritten
  <2> SUFFICES ASSUME QueryInv, NEW r \in Recorders, state[r] = "submitted", tsPool[r]
               PROVE  written[r] = Queries(2 * spans[r])
    BY DEF QueriesWritten, Queries
  <2> QED BY DEF QueryInv, QueriesOf
<1> QED BY <1>1, QueryInit, QueryStep, PTL DEF Spec

----------------------------------------------------------------------------
(* The time of a span. *)

LEMMA ModUnique ==
    ASSUME NEW n \in Nat, n > 0, NEW q \in Int, NEW r \in 0..(n - 1)
    PROVE  (q * n + r) % n = r
OBVIOUS

LEMMA DivMod ==
    ASSUME NEW n \in Nat, n > 0, NEW a \in Int
    PROVE  \E q \in Int : a = q * n + (a % n)
<1>1. a = (a \div n) * n + (a % n) /\ a \div n \in Int
  OBVIOUS
<1> QED BY <1>1

\* Two readings of a counter of n ticks, whose difference is taken in a word of which n
\* is a divisor, and masked: the ticks that passed, if the counter went around at most
\* once.
LEMMA MaskedDifference ==
    ASSUME NEW n \in Nat, NEW w \in Nat, n > 0, w > 0, w % n = 0,
           NEW first \in 0..(n - 1), NEW elapsed \in 0..(n - 1)
    PROVE  ((((first + elapsed) % n) - first) % w) % n = elapsed
<1> DEFINE last == (first + elapsed) % n
           delta == (last - first) % w
<1>1. PICK k \in Int : w = k * n
  BY DivMod
<1>2. PICK p \in Int : first + elapsed = p * n + last
  BY DivMod
<1>3. last \in Int
  OBVIOUS
<1> HIDE DEF last
<1>4. PICK q \in Int : last - first = q * w + delta
  <2>1. last - first \in Int
    BY <1>3
  <2> QED BY <2>1, DivMod
<1>5. delta \in Int
  BY <1>3
<1> HIDE DEF delta
<1>6. q * w = (q * k) * n /\ q * k \in Int
  BY <1>1
<1>7. delta = (-(p + q * k)) * n + elapsed /\ -(p + q * k) \in Int
  <2>1. p * n = first + elapsed - last
    BY <1>2, <1>3
  <2>2. (-(p + q * k)) * n = -(p * n) - (q * k) * n /\ -(p + q * k) \in Int
    BY <1>6
  <2> QED BY <1>3, <1>4, <1>5, <1>6, <2>1, <2>2
<1>8. delta % n = elapsed
  BY <1>7, ModUnique
<1> QED BY <1>8 DEF delta, last

SpanTimes == [kind : {"unresolved", "spans", "unsupported", "error"}, elapsed : Nat, reported : Nat]

SpansInv ==
    /\ validBits \in DeviceBits
    /\ timestamps \in [Recorders -> SpanTimes]
    /\ SpansAreExact

\* resolveTimestamps reports what passed, whatever the counter was at.
LEMMA ResolvesExactly ==
    ASSUME validBits \in DeviceBits, NEW r \in Recorders, NEW result \in Resolve(r)
    PROVE  result \in SpanTimes /\ (result.kind = "spans" => result.reported = result.elapsed)
<1> USE DEF SpanTimes
<1>1. CASE spans[r] = 0
  BY <1>1 DEF Resolve, Resolved
<1>2. CASE spans[r] # 0 /\ result.kind # "spans"
  BY <1>2 DEF Resolve, Resolved
<1>3. CASE spans[r] # 0 /\ result.kind = "spans"
  <2> DEFINE n == 2^validBits
             w == 2^WordBits
  <2>1. TimestampsSupported
    BY <1>3 DEF Resolve, Resolved
  <2>2. validBits \in DeviceBits \ {0}
    BY <2>1, StreamAssumption DEF TimestampsSupported, StreamAssumption
  <2>3. n \in Nat /\ n > 1 /\ n > 0 /\ w \in Nat /\ w > 0 /\ w % n = 0
    BY <2>2, TicksAssumption DEF TicksAssumption
  <2>4. PICK first \in Ticks, elapsed \in Ticks :
           result = Resolved("spans", elapsed, Delta(first, (first + elapsed) % n))
    BY <1>3 DEF Resolve, Resolved
  <2>5. Ticks = {1, n - 1}
    BY DEF Ticks
  <2>6. Delta(first, (first + elapsed) % n) = ((((first + elapsed) % n) - first) % w) % n
    BY DEF Delta
  <2> HIDE DEF n, w
  <2>7. first \in 0..(n - 1) /\ elapsed \in 0..(n - 1)
    BY <2>3, <2>5
  <2>8. ((((first + elapsed) % n) - first) % w) % n = elapsed
    BY <2>3, <2>7, MaskedDifference
  <2>9. elapsed \in Nat
    BY <2>7
  <2> QED BY <2>4, <2>6, <2>8, <2>9 DEF Resolved
<1> QED BY <1>1, <1>2, <1>3

LEMMA SpansInit == Init => SpansInv
BY DEF Init, SpansInv, SpansAreExact, Resolved, SpanTimes

LEMMA SpansStep == SpansInv /\ [Next]_vars => SpansInv'
<1> SUFFICES ASSUME SpansInv, [Next]_vars
             PROVE  SpansInv'
  OBVIOUS
<1> USE DEF SpansInv, SpansAreExact
<1>1. CASE UNCHANGED <<validBits, timestamps>>
  BY <1>1
<1>2. ASSUME NEW r \in Recorders,
             (\E c \in Commands : Record(r, c) \/ FailRecord(r, c)) \/ TimestampBegin(r) \/ TimestampEnd(r)
      PROVE  SpansInv'
  BY <1>1, <1>2 DEF Record, FailRecord, TimestampBegin, TimestampEnd, timestampVars
<1>3. ASSUME NEW recs \in Arguments, Submit(recs) \/ AbortRecording(recs)
      PROVE  SpansInv'
  BY <1>1, <1>3 DEF Submit, AbortRecording, timestampVars
<1>4. ASSUME NEW i \in DOMAIN batches, Observe(i)
      PROVE  SpansInv'
  <2> DEFINE recs == Range(batches[i])
  <2>1. PICK results \in [recs -> UNION {Resolve(r) : r \in recs}] :
           /\ \A r \in recs : results[r] \in Resolve(r)
           /\ timestamps' = [r \in Recorders |-> IF r \in recs THEN results[r] ELSE timestamps[r]]
    BY <1>4 DEF Observe
  <2>2. validBits' = validBits
    BY <1>4 DEF Observe
  <2>3. ASSUME NEW r \in Recorders
        PROVE  timestamps'[r] \in SpanTimes
               /\ (timestamps'[r].kind = "spans" => timestamps'[r].reported = timestamps'[r].elapsed)
    <3>1. CASE r \in recs
      BY <2>1, <3>1, ResolvesExactly
    <3>2. CASE r \notin recs
      BY <2>1, <3>2
    <3> QED BY <3>1, <3>2
  <2>4. timestamps' \in [Recorders -> SpanTimes]
    BY <2>1, <2>3
  <2> QED BY <2>2, <2>3, <2>4
<1>5. CASE UNCHANGED vars
  BY <1>1, <1>5 DEF vars, timestampVars
<1> QED BY <1>2, <1>3, <1>4, <1>5 DEF Next

\* The time that Timestamps reports of a span is the time that passed, also when the
\* counter of the device wrapped around in between (timestamp.go, resolveTimestamps).
THEOREM SpansReportWhatPassed == Spec => []SpansAreExact
<1>1. SpansInv => SpansAreExact
  BY DEF SpansInv
<1> QED BY <1>1, SpansInit, SpansStep, PTL DEF Spec

\* Both halves: the wait for the results of a completed batch ends, and they are the times
\* of its spans (timestamp.go:108-156).
THEOREM TimestampsCanBeTrusted == Spec => []TimestampsAreSound
<1>1. QueriesWritten /\ SpansAreExact => TimestampsAreSound
  BY DEF TimestampsAreSound
<1> QED BY <1>1, QueriesAreWrittenOnce, SpansReportWhatPassed, PTL

----------------------------------------------------------------------------
(* The batches. *)

\* A submitted recorder is in one batch, and only a submitted one.
BatchInv ==
    /\ state \in [Recorders -> {"recording", "submitted", "done", "aborted"}]
    /\ batches \in Seq(Arguments)
    /\ \A i, j \in DOMAIN batches : i # j => Range(batches[i]) \cap Range(batches[j]) = {}
    /\ \A r : (\E i \in DOMAIN batches : r \in Range(batches[i])) <=> r \in Recorders /\ state[r] = "submitted"

LEMMA RangeOfArguments == \A recs \in Arguments : Range(recs) \subseteq Recorders
BY DEF Arguments, Injection, Range

\* RemoveAt keeps the others, in their order.
LEMMA Removed ==
    ASSUME NEW S, NEW s \in Seq(S), NEW i \in DOMAIN s
    PROVE  /\ RemoveAt(s, i) \in Seq(S)
           /\ DOMAIN RemoveAt(s, i) = 1..(Len(s) - 1)
           /\ \A j \in 1..(Len(s) - 1) : RemoveAt(s, i)[j] = s[IF j < i THEN j ELSE j + 1]
<1> DEFINE front == SubSeq(s, 1, i - 1)
           back  == SubSeq(s, i + 1, Len(s))
<1>1. front \in Seq(S) /\ Len(front) = i - 1 /\ \A j \in 1..(i - 1) : front[j] = s[j]
  OBVIOUS
<1>2. back \in Seq(S) /\ Len(back) = Len(s) - i /\ \A j \in 1..(Len(s) - i) : back[j] = s[i + j]
  OBVIOUS
<1>3. RemoveAt(s, i) = front \o back
  BY DEF RemoveAt
<1> HIDE DEF front, back
<1>4. front \o back \in Seq(S) /\ Len(front \o back) = Len(s) - 1
  BY <1>1, <1>2
<1>5. ASSUME NEW j \in 1..(Len(s) - 1)
      PROVE  (front \o back)[j] = s[IF j < i THEN j ELSE j + 1]
  <2>1. CASE j < i
    BY <1>1, <1>2, <2>1
  <2>2. CASE j >= i
    <3>1. (front \o back)[j] = back[j - (i - 1)]
      BY <1>1, <1>2, <2>2
    <3>2. j - (i - 1) \in 1..(Len(s) - i)
      BY <2>2
    <3>3. i + (j - (i - 1)) = j + 1
      OBVIOUS
    <3> QED BY <1>2, <2>2, <3>1, <3>2, <3>3
  <2>3. j < i \/ j >= i
    <3>1. i \in Int /\ j \in Int
      OBVIOUS
    <3> QED BY ONLY <3>1
  <2> QED BY ONLY <2>1, <2>2, <2>3
<1> QED BY <1>3, <1>4, <1>5

LEMMA BatchInit == Init => BatchInv
<1> SUFFICES ASSUME Init PROVE BatchInv
  OBVIOUS
<1>1. batches \in Seq(Arguments) /\ DOMAIN batches = {}
  BY DEF Init
<1> QED BY <1>1 DEF Init, BatchInv

LEMMA BatchSubmit ==
    ASSUME BatchInv, NEW recs \in Arguments, Submit(recs)
    PROVE  BatchInv'
<1> USE DEF BatchInv
<1>1. Range(recs) \subseteq {r \in Recorders : state[r] = "recording"}
  BY RangeOfArguments DEF Submit, Submittable
<1>2. /\ batches' \in Seq(Arguments) /\ DOMAIN batches' = DOMAIN batches \cup {Len(batches) + 1}
      /\ batches'[Len(batches) + 1] = recs
      /\ \A i \in DOMAIN batches : batches'[i] = batches[i]
  BY DEF Submit
<1>3. state' = [r \in Recorders |-> IF r \in Range(recs) THEN "submitted" ELSE state[r]]
  BY DEF Submit
<1>4. \A i \in DOMAIN batches : Range(batches[i]) \subseteq {r \in Recorders : state[r] = "submitted"}
  OBVIOUS
<1>5. ASSUME NEW i \in DOMAIN batches', NEW j \in DOMAIN batches', i # j
      PROVE  Range(batches'[i]) \cap Range(batches'[j]) = {}
  BY <1>1, <1>2, <1>4, <1>5
<1>6. ASSUME NEW r
      PROVE  (\E i \in DOMAIN batches' : r \in Range(batches'[i])) <=> r \in Recorders /\ state'[r] = "submitted"
  <2>1. (\E i \in DOMAIN batches' : r \in Range(batches'[i]))
          <=> (\E i \in DOMAIN batches : r \in Range(batches[i])) \/ r \in Range(recs)
    BY <1>2
  <2>2. r \in Recorders /\ state'[r] = "submitted"
          <=> (r \in Recorders /\ state[r] = "submitted") \/ r \in Range(recs)
    BY <1>1, <1>3
  <2> QED BY <2>1, <2>2
<1>7. state' \in [Recorders -> {"recording", "submitted", "done", "aborted"}]
  BY <1>3
<1> QED BY <1>2, <1>5, <1>6, <1>7

LEMMA BatchObserve ==
    ASSUME BatchInv, NEW i \in DOMAIN batches, Observe(i)
    PROVE  BatchInv'
<1> USE DEF BatchInv
<1> DEFINE old(j) == IF j < i THEN j ELSE j + 1
           n == Len(batches)
<1>1. /\ batches' \in Seq(Arguments) /\ DOMAIN batches' = 1..(n - 1)
      /\ \A j \in 1..(n - 1) : batches'[j] = batches[old(j)]
  <2>1. batches' = RemoveAt(batches, i)
    BY DEF Observe
  <2>2. batches \in Seq(Arguments)
    OBVIOUS
  <2>3. /\ RemoveAt(batches, i) \in Seq(Arguments)
        /\ DOMAIN RemoveAt(batches, i) = 1..(Len(batches) - 1)
        /\ \A j \in 1..(Len(batches) - 1) : RemoveAt(batches, i)[j] = batches[IF j < i THEN j ELSE j + 1]
    <3>1. i \in DOMAIN batches
      OBVIOUS
    <3> HIDE DEF BatchInv
    <3> QED BY <2>2, <3>1, Removed
  <2> QED BY <2>1, <2>3
<1>2. state' = [r \in Recorders |-> IF r \in Range(batches[i]) THEN "done" ELSE state[r]]
  BY DEF Observe, Finish
<1>3. DOMAIN batches = 1..n /\ n \in Nat
  OBVIOUS
<1>4. \A j \in 1..(n - 1) : old(j) \in DOMAIN batches \ {i}
  BY <1>3
<1>5. \A j, k \in 1..(n - 1) : j # k => old(j) # old(k)
  BY <1>3
<1>6. \A k \in DOMAIN batches \ {i} : \E j \in 1..(n - 1) : old(j) = k
  <2> TAKE k \in DOMAIN batches \ {i}
  <2>1. CASE k < i
    BY <1>3, <2>1
  <2>2. CASE k > i
    <3>1. k - 1 \in 1..(n - 1) /\ old(k - 1) = k
      BY <1>3, <2>2
    <3> QED BY <3>1
  <2> QED BY <1>3, <2>1, <2>2
<1> HIDE DEF old, n
<1>7. \A j, k \in DOMAIN batches' : j # k => Range(batches'[j]) \cap Range(batches'[k]) = {}
  BY <1>1, <1>4, <1>5
<1>8. ASSUME NEW r
      PROVE  (\E j \in DOMAIN batches' : r \in Range(batches'[j])) <=> r \in Recorders /\ state'[r] = "submitted"
  <2>1. (\E j \in DOMAIN batches' : r \in Range(batches'[j]))
          <=> \E k \in DOMAIN batches \ {i} : r \in Range(batches[k])
    BY <1>1, <1>4, <1>6
  <2>2. (\E k \in DOMAIN batches \ {i} : r \in Range(batches[k]))
          <=> (\E k \in DOMAIN batches : r \in Range(batches[k])) /\ r \notin Range(batches[i])
    OBVIOUS
  <2>3. r \in Recorders /\ state'[r] = "submitted"
          <=> (r \in Recorders /\ state[r] = "submitted") /\ r \notin Range(batches[i])
    BY <1>2
  <2> QED BY <2>1, <2>2, <2>3
<1>9. state' \in [Recorders -> {"recording", "submitted", "done", "aborted"}]
  BY <1>2
<1> QED BY <1>1, <1>7, <1>8, <1>9

LEMMA BatchAbort ==
    ASSUME BatchInv, NEW recs \in Arguments, AbortRecording(recs)
    PROVE  BatchInv'
<1> USE DEF BatchInv
<1>1. \A r \in Range(recs) : state[r] = "recording"
  BY DEF AbortRecording, Submittable, RecordingOnly
<1>2. state' = [r \in Recorders |-> IF r \in Range(recs) THEN "aborted" ELSE state[r]] /\ batches' = batches
  BY DEF AbortRecording, Finish, queueVars
<1>3. \A r \in Recorders : state'[r] = "submitted" <=> state[r] = "submitted"
  BY <1>1, <1>2
<1>4. state' \in [Recorders -> {"recording", "submitted", "done", "aborted"}]
  BY <1>2
<1> QED BY <1>2, <1>3, <1>4

LEMMA BatchStep == BatchInv /\ [Next]_vars => BatchInv'
<1> SUFFICES ASSUME BatchInv, [Next]_vars
             PROVE  BatchInv'
  OBVIOUS
<1>1. CASE UNCHANGED <<state, batches>>
  BY <1>1 DEF BatchInv
<1>2. ASSUME NEW r \in Recorders,
             (\E c \in Commands : Record(r, c) \/ FailRecord(r, c)) \/ TimestampBegin(r) \/ TimestampEnd(r)
      PROVE  BatchInv'
  BY <1>1, <1>2 DEF Record, FailRecord, TimestampBegin, TimestampEnd, recorderVars, queueVars
<1>3. ASSUME NEW recs \in Arguments, Submit(recs) \/ AbortRecording(recs)
      PROVE  BatchInv'
  BY <1>3, BatchSubmit, BatchAbort
<1>4. ASSUME NEW i \in DOMAIN batches, Observe(i)
      PROVE  BatchInv'
  BY <1>4, BatchObserve
<1>5. CASE UNCHANGED vars
  BY <1>1, <1>5 DEF vars, recorderVars, queueVars
<1> QED BY <1>2, <1>3, <1>4, <1>5 DEF Next

LEMMA WrittenQueries ==
    ASSUME QueryInv, NEW r \in Recorders
    PROVE  Range(written[r]) \subseteq 0..(2 * MaxTimestampSpans - 1)
<1> USE DEF QueryInv, QueryTypes
<1>1. MaxTimestampSpans \in Nat /\ spans[r] \in 0..MaxTimestampSpans
  BY StreamAssumption DEF StreamAssumption
<1>2. CASE written[r] = << >>
  BY <1>2 DEF Range
<1>3. CASE written[r] # << >>
  <2>1. PICK n \in {2 * spans[r] - 1, 2 * spans[r]} : written[r] = Queries(n)
    BY <1>3 DEF QueriesOf
  <2>2. n - 1 <= 2 * MaxTimestampSpans - 1
    BY <1>1
  <2>3. \A i \in 1..n : i - 1 \in 0..(2 * MaxTimestampSpans - 1)
    BY <1>1, <2>2
  <2> QED BY <2>1, <2>3 DEF Queries, Range
<1> QED BY <1>2, <1>3

\* The variables have their types, and the batches in flight hold exactly the submitted
\* recorders, each once.
THEOREM StreamTypes == Spec => []TypeOK
<1>1. CoverInv /\ QueryInv /\ SpansInv /\ BatchInv => TypeOK
  <2> SUFFICES ASSUME CoverInv, QueryInv, SpansInv, BatchInv
               PROVE  TypeOK
    OBVIOUS
  <2>1. \A r \in Recorders : Range(commands[r]) \subseteq Commands
    BY DEF CoverInv, RecordTypes, Range
  <2>2. \A r \in Recorders : Range(written[r]) \subseteq 0..(2 * MaxTimestampSpans - 1)
    BY WrittenQueries
  <2>3. retained \in [Recorders -> SUBSET Buffers] /\ uses \in [Recorders -> Resources]
    BY DEF CoverInv, RecordTypes
  <2>4. /\ spans \in [Recorders -> 0..MaxTimestampSpans]
        /\ tsOpen \in [Recorders -> BOOLEAN] /\ tsPool \in [Recorders -> BOOLEAN]
    BY DEF QueryInv, QueryTypes
  <2>5. validBits \in DeviceBits /\ timestamps \in [Recorders -> SpanTimes]
    BY DEF SpansInv
  <2>6. UNION {Range(batches[i]) : i \in DOMAIN batches} = {r \in Recorders : state[r] = "submitted"}
    BY DEF BatchInv
  <2> QED BY <2>1, <2>2, <2>3, <2>4, <2>5, <2>6 DEF BatchInv, SpanTimes, TypeOK
<1> QED BY <1>1, CoverInvariant, QueryInit, QueryStep, SpansInit, SpansStep, BatchInit, BatchStep, PTL DEF Spec

----------------------------------------------------------------------------
(* The stream, unrolled. *)

\* The states of the queue after each of n commands.
StreamTrace(F, stream, n) ==
    /\ F[0] = NothingRun
    /\ \A k \in 1..n : F[k] = RunCommand(F[k - 1], stream[k], k)
    /\ F[n] = Run(stream)

LEMMA StreamFold ==
    ASSUME NEW stream, NEW n \in Nat, DOMAIN stream = 1..n
    PROVE  \E F : StreamTrace(F, stream, n)
<1> DEFINE places == [i \in DOMAIN stream |-> i]
           Rhs(g, s) == IF s = {} THEN NothingRun ELSE RunCommand(g[s \ {Max(s)}], stream[places[Max(s)]], places[Max(s)])
           S == {k \in 0..n : \E g : g = [s \in SUBSET (1..k) |-> Rhs(g, s)]}
<1>1. 0 \in S
  <2> DEFINE g == [s \in SUBSET (1..0) |-> NothingRun]
  <2>1. \A s \in SUBSET (1..0) : s = {}
    OBVIOUS
  <2>2. g = [s \in SUBSET (1..0) |-> Rhs(g, s)]
    BY <2>1
  <2> HIDE DEF g
  <2>3. \E f : f = [s \in SUBSET (1..0) |-> Rhs(f, s)]
    BY <2>2
  <2>4. 0 \in 0..n
    OBVIOUS
  <2> QED BY <2>3, <2>4
<1>2. ASSUME NEW k \in 1..n, k - 1 \in S
      PROVE  k \in S
  <2>1. places[k] = k
    OBVIOUS
  <2>2. PICK g : g = [s \in SUBSET (1..(k - 1)) |-> Rhs(g, s)]
    BY <1>2
  <2> DEFINE h == [s \in SUBSET (1..k) |-> IF k \in s THEN RunCommand(g[s \ {k}], stream[k], k) ELSE g[s]]
  <2>3. \A s \in SUBSET (1..(k - 1)) : g[s] = Rhs(g, s)
    BY <2>2
  <2>4. ASSUME NEW s \in SUBSET (1..k)
        PROVE  h[s] = Rhs(h, s)
    <3>1. CASE k \in s
      <4>1. Max(s) = k /\ s # {}
        BY <3>1, MaxOfInterval
      <4>2. s \ {k} \in SUBSET (1..k) /\ h[s \ {k}] = g[s \ {k}]
        OBVIOUS
      <4> QED BY <2>1, <3>1, <4>1, <4>2
    <3>2. CASE k \notin s
      <4>1. s \in SUBSET (1..(k - 1)) /\ h[s] = g[s]
        BY <3>2
      <4>2. s \ {Max(s)} \in SUBSET (1..k) /\ h[s \ {Max(s)}] = g[s \ {Max(s)}]
        BY <3>2
      <4> QED BY <2>3, <4>1, <4>2
    <3> QED BY <3>1, <3>2
  <2>5. h = [s \in SUBSET (1..k) |-> Rhs(h, s)]
    BY <2>4
  <2> HIDE DEF h
  <2>6. \E f : f = [s \in SUBSET (1..k) |-> Rhs(f, s)]
    BY <2>5
  <2>7. k \in 0..n
    OBVIOUS
  <2> QED BY <2>6, <2>7
<1>3. n \in S
  <2> HIDE DEF S
  <2> QED BY <1>1, <1>2, SetInduction
<1>4. PICK g : /\ g = [s \in SUBSET (1..n) |-> Rhs(g, s)]
               /\ Run(stream) = g[1..n]
  <2> DEFINE iter == CHOOSE g : g = [s \in SUBSET (1..n) |-> Rhs(g, s)]
  <2>1. iter = [s \in SUBSET (1..n) |-> Rhs(iter, s)]
    <3>1. \E g : g = [s \in SUBSET (1..n) |-> Rhs(g, s)]
      BY <1>3
    <3> QED BY <3>1
  <2>2. Run(stream) = iter[1..n]
    BY DEF Run, FoldLeft, MapThenFoldSet
  <2> QED BY <2>1, <2>2
<1> DEFINE F == [k \in 0..n |-> g[1..k]]
<1>5. F[0] = NothingRun
  <2>1. 1..0 = {}
    OBVIOUS
  <2> QED BY <1>4, <2>1
<1>6. ASSUME NEW k \in 1..n
      PROVE  F[k] = RunCommand(F[k - 1], stream[k], k)
  <2>1. places[k] = k
    OBVIOUS
  <2>2. Max(1..k) = k
    BY MaxOfInterval
  <2>3. (1..k) \ {k} = 1..(k - 1)
    OBVIOUS
  <2>4. 1..k # {} /\ 1..k \in SUBSET (1..n)
    <3>1. k \in 1..k
      OBVIOUS
    <3>2. \A j \in 1..k : j \in 1..n
      OBVIOUS
    <3> QED BY <3>1, <3>2
  <2>5. g[1..k] = RunCommand(g[1..(k - 1)], stream[k], k)
    BY <1>4, <2>1, <2>2, <2>3, <2>4
  <2>6. F[k] = g[1..k] /\ F[k - 1] = g[1..(k - 1)]
    OBVIOUS
  <2> QED BY <2>5, <2>6
<1>7. F[n] = g[1..n]
  OBVIOUS
<1> HIDE DEF F
<1>8. StreamTrace(F, stream, n)
  BY <1>4, <1>5, <1>6, <1>7 DEF StreamTrace
<1> QED BY <1>8

----------------------------------------------------------------------------
(* What the commands of a stream do to the queue. *)

\* The memory that commands access.
Places == Buffers \cup ({"staging"} \X Nat)

Touches(c, i) == {t \in Range(DeviceCommands(c, i)) : t.op = "touch"}

\* What a command with a place in the stream touches.
LEMMA TouchesOfCommand ==
    ASSUME NEW c \in Commands, NEW i \in Nat, NEW t \in Touches(c, i)
    PROVE  /\ t.stage \in Names /\ t.access \in Names /\ t.buffer \in Places
           /\ c.op \in {"update", "upload"} => /\ t.stage = "transfer" /\ t.access = "transferWrite"
                                               /\ t.buffer = c.buffer
           /\ c.op = "download" => /\ t.stage = "transfer"
                                   /\ \/ t.access = "transferRead" /\ t.buffer = c.buffer
                                      \/ t.access = "transferWrite" /\ t.buffer = Staging(i)
           /\ c.op # "barrier"
           /\ c.op = "dispatch" => /\ t.stage = "compute" /\ t.access \in ShaderAccess /\ t.buffer \in Buffers
                                   /\ Grants(c.access[t.buffer], t.access)
<1>1. CASE c.op = "update"
  <2>1. t = Touch("transfer", "transferWrite", c.buffer)
    BY <1>1 DEF Touches, DeviceCommands, UpdateBuffer, Range, Dependency
  <2>2. c.buffer \in Buffers
    BY <1>1 DEF Commands
  <2>3. t.stage = "transfer" /\ t.access = "transferWrite" /\ t.buffer = c.buffer
    BY <2>1 DEF Touch
  <2> QED BY <1>1, <2>2, <2>3 DEF Names, Places
<1>2. CASE c.op = "upload"
  <2>1. t = Touch("transfer", "transferWrite", c.buffer)
    BY <1>2 DEF Touches, DeviceCommands, UploadBuffer, Range, Dependency
  <2>2. c.buffer \in Buffers
    BY <1>2 DEF Commands
  <2>3. t.stage = "transfer" /\ t.access = "transferWrite" /\ t.buffer = c.buffer
    BY <2>1 DEF Touch
  <2> QED BY <1>2, <2>2, <2>3 DEF Names, Places
<1>3. CASE c.op = "download"
  <2>1. t = Touch("transfer", "transferRead", c.buffer) \/ t = Touch("transfer", "transferWrite", Staging(i))
    BY <1>3 DEF Touches, DeviceCommands, DownloadBuffer, Range, Dependency
  <2>2. c.buffer \in Buffers
    BY <1>3 DEF Commands
  <2>3. Staging(i) \in {"staging"} \X Nat
    BY DEF Staging
  <2>4. /\ t.stage = "transfer"
        /\ \/ t.access = "transferRead" /\ t.buffer = c.buffer
           \/ t.access = "transferWrite" /\ t.buffer = Staging(i)
    BY <2>1 DEF Touch
  <2> QED BY <1>3, <2>2, <2>3, <2>4 DEF Names, Places
<1>4. CASE c.op = "barrier"
  BY <1>4 DEF Touches, DeviceCommands, ComputeBarrier, Range, Dependency
<1>5. CASE c.op = "dispatch"
  <2>1. c.access \in Resources
    BY <1>5, StreamAssumption DEF Commands, StreamAssumption
  <2>2. DeviceCommands(c, i)
          = DispatchKernel({b \in Buffers : c.access[b] = "read"}, {b \in Buffers : c.access[b] = "write"})
    BY <1>5 DEF DeviceCommands
  <2>3. t.buffer \in Buffers /\ Grants(c.access[t.buffer], t.access) /\ t.stage = "compute" /\ t.access \in ShaderAccess
    BY <2>1, <2>2, DispatchTouches DEF Touches
  <2>4. t.access \in Names
    BY <2>3 DEF ShaderAccess, Names
  <2> QED BY <1>5, <2>3, <2>4 DEF Names, Places
<1> QED BY <1>1, <1>2, <1>3, <1>4, <1>5 DEF Commands

\* Access e of a queue that ran the first n commands of stream st: what it waits for.
Held(e, st, n) ==
    LET c == st[e.by].command
    IN  /\ e.by \in 1..n
        /\ \E t \in Touches(c, e.by) : e.stage = t.stage /\ e.access = t.access /\ e.buffer = t.buffer
        /\ c.op \in {"update", "upload"} =>
              e.available /\ "compute" \in e.after /\ ShaderAccess \subseteq e.visible
        /\ e.buffer \notin Buffers => "host" \in e.after /\ "hostRead" \in e.visible
        /\ c.op = "dispatch" =>
              \A k \in e.by..n :
                  st[k].command.op = "barrier" /\ e.buffer \in st[k].command.buffers =>
                      "compute" \in e.after /\ (Writes(e.access) => ShaderAccess \subseteq e.visible)

\* Two commands that no barrier has to order (CommandsOrdered).
Excused(i, j, st) ==
    LET first == st[i].command
        then  == st[j].command
    IN  \/ first.op = "download" /\ then.op \in {"update", "dispatch"}
        \/ /\ first.op = "dispatch" /\ then.op = "dispatch"
           /\ \E b \in Buffers :
                 /\ first.access[b] # "none" /\ then.access[b] # "none"
                 /\ "write" \in {first.access[b], then.access[b]}
                 /\ ~\E k \in i..j : /\ st[k].command.op = "barrier"
                                     /\ b \in st[k].command.buffers

\* They touch the same bytes, one of them to write.
Clash(i, j, st) ==
    \E t1 \in Touches(st[i].command, i), t2 \in Touches(st[j].command, j) :
        /\ t1.buffer = t2.buffer /\ t1.buffer \in Buffers
        /\ Writes(t1.access) \/ Writes(t2.access)

Allowed(i, j, st) == i \in DOMAIN st /\ j \in DOMAIN st /\ Clash(i, j, st) /\ Excused(i, j, st)

QueueInv(q, st, n) ==
    /\ q \in Queues(Places)
    /\ \A e \in q.past : Held(e, st, n)
    /\ \A race \in q.races : Allowed(race[1], race[2], st)

\* A stream of n commands or more.
IsStream(st, n) ==
    n \in Nat /\ 1..n \subseteq DOMAIN st /\ \A i \in 1..n : st[i].command \in Commands

LEMMA HeldLater ==
    ASSUME NEW st, NEW n \in Nat \ {0}, NEW e \in Accesses(Places), Held(e, st, n - 1),
           st[n].command.op # "barrier", NEW w \in Accesses(Places), Later(w, e)
    PROVE  Held(w, st, n)
<1>1. e.by \in 1..(n - 1) /\ w.by = e.by
  BY DEF Held, Later
<1>2. e.by \in 1..n /\ e.by..n = (e.by..(n - 1)) \cup {n}
  BY <1>1
<1> QED BY <1>1, <1>2 DEF Held, Later

LEMMA HeldIsTouched ==
    ASSUME NEW st, NEW n \in Nat, \A i \in 1..n : st[i].command \in Commands,
           NEW e, Held(e, st, n)
    PROVE  LET c == st[e.by].command
           IN  /\ c \in Commands /\ e.by \in 1..n
               /\ c.op # "barrier"
               /\ c.op \in {"update", "upload"} => e.stage = "transfer" /\ e.access = "transferWrite"
               /\ c.op = "download" => /\ e.stage = "transfer"
                                       /\ e.access \in {"transferRead", "transferWrite"}
               /\ c.op = "dispatch" => /\ e.stage = "compute" /\ e.access \in ShaderAccess
                                       /\ Grants(c.access[e.buffer], e.access)
<1>1. e.by \in 1..n /\ st[e.by].command \in Commands /\ e.by \in Nat
  BY DEF Held
<1>2. PICK t \in Touches(st[e.by].command, e.by) : e.stage = t.stage /\ e.access = t.access /\ e.buffer = t.buffer
  BY DEF Held
<1> QED BY <1>1, <1>2, TouchesOfCommand

----------------------------------------------------------------------------
\* The touch that an access is, and its clash with a later one.
LEMMA AllowedRace ==
    ASSUME NEW st, NEW n \in Nat, IsStream(st, n), NEW m \in 1..n,
           NEW e, Held(e, st, m - 1), NEW w, Later(w, e),
           NEW t \in Touches(st[m].command, m), t.buffer \in Buffers, MayOverlap(w, t),
           NEW race, race = <<w.by, m>>, Excused(e.by, m, st)
    PROVE  Allowed(race[1], race[2], st)
<1>1. race[1] = e.by /\ race[2] = m /\ e.by \in DOMAIN st /\ m \in DOMAIN st
  BY DEF Later, Held, IsStream
<1>2. PICK s \in Touches(st[e.by].command, e.by) : e.access = s.access /\ e.buffer = s.buffer
  BY DEF Held
<1>3. s.buffer = t.buffer /\ (Writes(s.access) \/ Writes(t.access))
  BY <1>2 DEF MayOverlap, Later
<1> QED BY <1>1, <1>2, <1>3 DEF Allowed, Clash

\* The write of an Update or Upload, ordered before later shaders.
LEMMA TransferIsHeld ==
    ASSUME NEW st, NEW n \in Nat \ {0}, IsStream(st, n), st[n].command.op \in {"update", "upload"},
           NEW b, b = st[n].command.buffer,
           NEW w, w = Waited(Started(Touch("transfer", "transferWrite", b), n),
                             Dependency({"transfer"}, {"compute"}, {"transferWrite"}, ShaderAccess, {b})),
           NEW t \in Touches(st[n].command, n)
    PROVE  Held(w, st, n)
<1> DEFINE d == Dependency({"transfer"}, {"compute"}, {"transferWrite"}, ShaderAccess, {b})
           e == Started(Touch("transfer", "transferWrite", b), n)
<1>1. st[n].command \in Commands /\ b \in Buffers /\ n \in 1..n
  BY DEF IsStream, Commands
<1>2. t.stage = "transfer" /\ t.access = "transferWrite" /\ t.buffer = b
  BY <1>1, TouchesOfCommand
<1>3. /\ e \in Accesses(Places) /\ e.by = n /\ e.stage = "transfer" /\ e.access = "transferWrite" /\ e.buffer = b
  BY <1>1 DEF Started, Touch, Accesses, Names, Places
<1>4. /\ IsBarrier(d) /\ d.srcStages = {"transfer"} /\ d.dstStages = {"compute"}
      /\ d.srcAccess = {"transferWrite"} /\ d.dstAccess = ShaderAccess /\ d.buffers = {b}
  BY DEF IsBarrier, Dependency, Names, ShaderAccess
<1> HIDE DEF d, e
<1>5. w = Waited(e, d) /\ e.stage \in d.srcStages /\ e.access \in d.srcAccess /\ e.buffer \in d.buffers
  BY <1>3, <1>4 DEF d, e
<1>6. Later(w, e) /\ d.dstStages \subseteq w.after /\ w.available /\ d.dstAccess \subseteq w.visible
  <2>1. Later(w, e)
    BY <1>3, <1>4, <1>5, BarrierGrows
  <2>2. d.dstStages \subseteq w.after
    BY <1>3, <1>4, <1>5, BarrierOrders
  <2>3. w.available /\ d.dstAccess \subseteq w.visible
    BY <1>3, <1>4, <1>5, BarrierShows
  <2> QED BY <2>1, <2>2, <2>3
<1>7. w.by = n /\ w.stage = "transfer" /\ w.access = "transferWrite" /\ w.buffer = b
  BY <1>3, <1>6 DEF Later
<1>8. "compute" \in w.after /\ ShaderAccess \subseteq w.visible /\ w.available
  BY <1>4, <1>6
<1> QED BY <1>1, <1>2, <1>7, <1>8 DEF Held

\* What is before an access of a Buffer b, at the barrier of an Update or Upload of b.
LEMMA BeforeUpdate ==
    ASSUME NEW st, NEW n \in Nat \ {0}, IsStream(st, n),
           NEW b \in Buffers, NEW e \in Accesses(Places), Held(e, st, n - 1),
           NEW t, t.stage = "transfer", t.access = "transferWrite", t.buffer = b,
           NEW w, w = Waited(e, Dependency({"compute"}, {"transfer"}, ShaderAccess, {"transferWrite"}, {b})),
           MayOverlap(w, t)
    PROVE  st[e.by].command.op = "download"
<1> DEFINE d == Dependency({"compute"}, {"transfer"}, ShaderAccess, {"transferWrite"}, {b})
           c == st[e.by].command
<1>1. /\ d.srcStages = {"compute"} /\ d.dstStages = {"transfer"} /\ d.srcAccess = ShaderAccess
      /\ d.dstAccess = {"transferWrite"} /\ d.buffers = {b} /\ IsBarrier(d)
  BY DEF Dependency, Names, ShaderAccess, IsBarrier
<1>2. w = Waited(e, d)
  OBVIOUS
<1> HIDE DEF d
<1>3. Later(w, e)
  BY <1>2, <1>1, BarrierGrows
<1>4. e.buffer = b /\ e.buffer \in d.buffers /\ t.access \in d.dstAccess /\ t.stage \in d.dstStages
  BY <1>1, <1>3 DEF MayOverlap, Later
<1>5. \A i \in 1..(n - 1) : st[i].command \in Commands
  BY DEF IsStream
<1>6. /\ c \in Commands /\ c.op # "barrier"
      /\ c.op = "dispatch" => e.stage = "compute" /\ e.access \in ShaderAccess
  <2>1. n - 1 \in Nat
    OBVIOUS
  <2> QED BY <1>5, <2>1, HeldIsTouched
<1>7. CASE c.op \in {"update", "upload"}
  <2>1. e.available /\ \E s \in e.after : s \in d.srcStages
    BY <1>1, <1>7 DEF Held
  <2>2. d.dstStages \subseteq w.after /\ d.dstAccess \subseteq w.visible
    BY <1>2, <1>1, <1>4, <2>1, BarrierOrders, BarrierShows
  <2> QED BY <1>4, <2>2 DEF MayOverlap
<1>8. CASE c.op = "dispatch"
  <2>1. e.stage \in d.srcStages /\ e.access \in d.srcAccess
    BY <1>1, <1>6, <1>8
  <2>2. d.dstStages \subseteq w.after /\ d.dstAccess \subseteq w.visible
    BY <1>2, <1>1, <1>4, <2>1, BarrierOrders, BarrierShows
  <2> QED BY <1>4, <2>2 DEF MayOverlap
<1> QED BY <1>6, <1>7, <1>8 DEF Commands

\* A barrier that waits for shaders and copies orders everything before an access of b.
LEMMA NothingBefore ==
    ASSUME NEW st, NEW n \in Nat \ {0}, IsStream(st, n),
           NEW b \in Buffers, NEW e \in Accesses(Places), Held(e, st, n - 1),
           NEW d, IsBarrier(d), d.srcStages = {"compute", "transfer"}, d.dstStages = {"transfer"},
           {"shaderWrite", "transferWrite"} \subseteq d.srcAccess, d.buffers = {b},
           NEW t, t.stage = "transfer", t.access \in d.dstAccess, t.buffer = b,
           NEW w, w = Waited(e, d), MayOverlap(w, t)
    PROVE  FALSE
<1>1. Later(w, e)
  BY BarrierGrows
<1>2. e.buffer = b
  BY <1>1 DEF MayOverlap, Later
<1>3. e.stage \in d.srcStages
  <2>1. n - 1 \in Nat /\ \A i \in 1..(n - 1) : st[i].command \in Commands
    BY DEF IsStream
  <2> DEFINE c == st[e.by].command
  <2>2. /\ c \in Commands /\ c.op # "barrier"
        /\ c.op \in {"update", "upload", "download"} => e.stage = "transfer"
        /\ c.op = "dispatch" => e.stage = "compute"
    BY <2>1, HeldIsTouched
  <2>3. c.op \in {"update", "upload", "download", "dispatch"}
    BY <2>2 DEF Commands
  <2> QED BY <2>2, <2>3
<1>4. d.dstStages \subseteq w.after
  BY <1>3, BarrierOrders
<1>5. Writes(e.access) => d.dstAccess \subseteq w.visible
  <2>1. Writes(e.access) => e.access \in d.srcAccess
    BY DEF Writes
  <2> QED BY <1>2, <1>3, <2>1, BarrierShows
<1> QED BY <1>1, <1>4, <1>5 DEF MayOverlap, Later

\* The accesses before a command, after its barriers.
LEMMA HeldBefore ==
    ASSUME NEW st, NEW n \in Nat \ {0}, NEW q, QueueInv(q, st, n - 1),
           st[n].command.op # "barrier", NEW e \in q.past, NEW w \in Accesses(Places), Later(w, e)
    PROVE  Held(w, st, n)
BY HeldLater DEF QueueInv, Queues

\* A Buffer's place in an Update or an Upload.
LEMMA TransferTouches ==
    ASSUME NEW c \in Commands, NEW i \in Nat, c.op \in {"update", "upload"}
    PROVE  /\ c.buffer \in Buffers
           /\ Touch("transfer", "transferWrite", c.buffer) \in Touches(c, i)
<1> DEFINE t == Touch("transfer", "transferWrite", c.buffer)
<1>1. c.buffer \in Buffers /\ t.op = "touch"
  BY DEF Commands, Touch
<1>2. CASE c.op = "update"
  <2>1. DeviceCommands(c, i)[2] = t /\ 2 \in DOMAIN DeviceCommands(c, i)
    BY <1>2 DEF DeviceCommands, UpdateBuffer
  <2> QED BY <1>1, <2>1 DEF Touches, Range
<1>3. CASE c.op = "upload"
  <2>1. DeviceCommands(c, i)[2] = t /\ 2 \in DOMAIN DeviceCommands(c, i)
    BY <1>3 DEF DeviceCommands, UploadBuffer
  <2> QED BY <1>1, <2>1 DEF Touches, Range
<1> QED BY <1>2, <1>3

\* An Update or an Upload, when all that may overlap it are Downloads before an Update.
LEMMA TransferStep ==
    ASSUME NEW st, NEW n \in Nat \ {0}, IsStream(st, n), NEW q, QueueInv(q, st, n - 1),
           NEW c, c = st[n].command, c.op \in {"update", "upload"}, NEW d1, IsBarrier(d1),
           NEW t, t = Touch("transfer", "transferWrite", c.buffer),
           NEW d2, d2 = Dependency({"transfer"}, {"compute"}, {"transferWrite"}, ShaderAccess, {c.buffer}),
           DeviceCommands(c, n) = <<d1, t, d2>>,
           \A e \in Accesses(Places) : Held(e, st, n - 1) /\ MayOverlap(Waited(e, d1), t)
              => c.op = "update" /\ st[e.by].command.op = "download"
    PROVE  QueueInv(RunCommand(q, DeviceCommands(st[n].command, n), n), st, n)
<1> DEFINE b == c.buffer
           p == RunCommand(q, <<d1, t, d2>>, n)
<1>1. c \in Commands /\ n \in 1..n /\ n \in Nat /\ b \in Buffers /\ t \in Touches(c, n)
  <2>1. c \in Commands
    BY DEF IsStream
  <2> QED BY <2>1, TransferTouches
<1>2. /\ t.op = "touch" /\ t.stage = "transfer" /\ t.access = "transferWrite" /\ t.buffer = b
      /\ t.stage \in Names /\ t.access \in Names /\ t.buffer \in Places
  BY <1>1 DEF Touch, Names, Places
<1>3. IsBarrier(d2)
  BY DEF IsBarrier, Dependency, Names, ShaderAccess
<1>4. q \in Queues(Places)
  BY DEF QueueInv
<1>5. \A w : w = Waited(Started(t, n), d2) => Held(w, st, n)
  BY <1>1, TransferIsHeld
<1> HIDE DEF b
<1>6. RanTransfer(Places, p, q, n, d1, t, d2)
  BY <1>1, <1>2, <1>3, <1>4, RunTransfer
<1>7. /\ p \in Queues(Places)
      /\ \A w \in p.past : \/ w = Waited(Started(t, n), d2)
                           \/ \E e \in q.past : w = Waited(Waited(e, d1), d2)
      /\ \A race \in p.races :
            \/ race \in q.races
            \/ \E e \in q.past : race = <<Waited(e, d1).by, n>> /\ MayOverlap(Waited(e, d1), t)
  BY <1>6 DEF RanTransfer
<1> HIDE DEF p
<1>8. \A e \in q.past : e \in Accesses(Places) /\ Held(e, st, n - 1)
  BY DEF QueueInv, Queues
<1>9. \A e \in q.past : Waited(e, d1) \in Accesses(Places) /\ Later(Waited(e, d1), e)
  BY <1>3, <1>8, BarrierGrows
<1>10. ASSUME NEW w \in p.past
       PROVE  Held(w, st, n)
  <2>1. CASE w = Waited(Started(t, n), d2)
    BY <1>5, <2>1
  <2>2. ASSUME NEW e \in q.past, w = Waited(Waited(e, d1), d2)
        PROVE  Held(w, st, n)
    <3>1. w \in Accesses(Places) /\ Later(w, e)
      BY <1>3, <1>9, <2>2, BarrierGrows, LaterTwice
    <3> QED BY <3>1, HeldBefore
  <2> QED BY <1>7, <2>1, <2>2
<1>11. ASSUME NEW race \in p.races
       PROVE  Allowed(race[1], race[2], st)
  <2>1. CASE race \in q.races
    BY <2>1 DEF QueueInv
  <2>2. ASSUME NEW e \in q.past, race = <<Waited(e, d1).by, n>>, MayOverlap(Waited(e, d1), t)
        PROVE  Allowed(race[1], race[2], st)
    <3>1. c.op = "update" /\ st[e.by].command.op = "download"
      BY <1>8, <2>2
    <3>2. Excused(e.by, n, st)
      BY <3>1 DEF Excused
    <3>3. Held(e, st, n - 1) /\ Later(Waited(e, d1), e)
      BY <1>8, <1>9
    <3>4. t \in Touches(st[n].command, n) /\ t.buffer \in Buffers
      BY <1>1, <1>2
    <3> QED BY <1>1, <2>2, <3>2, <3>3, <3>4, AllowedRace
  <2> QED BY <1>7, <2>1, <2>2
<1>12. QueueInv(p, st, n)
  BY <1>7, <1>10, <1>11 DEF QueueInv
<1> QED BY <1>12 DEF p

LEMMA UpdateStep ==
    ASSUME NEW st, NEW n \in Nat \ {0}, IsStream(st, n), NEW q, QueueInv(q, st, n - 1),
           st[n].command.op = "update"
    PROVE  QueueInv(RunCommand(q, DeviceCommands(st[n].command, n), n), st, n)
<1> DEFINE c == st[n].command
           d1 == Dependency({"compute"}, {"transfer"}, ShaderAccess, {"transferWrite"}, {c.buffer})
           d2 == Dependency({"transfer"}, {"compute"}, {"transferWrite"}, ShaderAccess, {c.buffer})
           t == Touch("transfer", "transferWrite", c.buffer)
<1>1. c \in Commands /\ c.buffer \in Buffers
  BY DEF IsStream, Commands
<1>2. DeviceCommands(c, n) = <<d1, t, d2>>
  BY DEF DeviceCommands, UpdateBuffer
<1>3. t.stage = "transfer" /\ t.access = "transferWrite" /\ t.buffer = c.buffer
  BY DEF Touch
<1>4. IsBarrier(d1)
  BY DEF IsBarrier, Dependency, Names
<1>5. \A e \in Accesses(Places) : Held(e, st, n - 1) /\ MayOverlap(Waited(e, d1), t)
         => c.op = "update" /\ st[e.by].command.op = "download"
  BY <1>1, <1>3, BeforeUpdate
<1> HIDE DEF d1
<1> QED BY <1>2, <1>4, <1>5, TransferStep

LEMMA UploadStep ==
    ASSUME NEW st, NEW n \in Nat \ {0}, IsStream(st, n), NEW q, QueueInv(q, st, n - 1),
           st[n].command.op = "upload"
    PROVE  QueueInv(RunCommand(q, DeviceCommands(st[n].command, n), n), st, n)
<1> DEFINE c == st[n].command
           d1 == Dependency({"compute", "transfer"}, {"transfer"}, ShaderAccess \cup {"transferWrite"},
                            {"transferWrite"}, {c.buffer})
           d2 == Dependency({"transfer"}, {"compute"}, {"transferWrite"}, ShaderAccess, {c.buffer})
           t == Touch("transfer", "transferWrite", c.buffer)
<1>1. c \in Commands /\ c.buffer \in Buffers
  BY DEF IsStream, Commands
<1>2. DeviceCommands(c, n) = <<d1, t, d2>>
  BY DEF DeviceCommands, UploadBuffer
<1>3. t.stage = "transfer" /\ t.access = "transferWrite" /\ t.buffer = c.buffer
  BY DEF Touch
<1>4. /\ IsBarrier(d1) /\ d1.srcStages = {"compute", "transfer"} /\ d1.dstStages = {"transfer"}
      /\ {"shaderWrite", "transferWrite"} \subseteq d1.srcAccess /\ d1.buffers = {c.buffer}
      /\ t.access \in d1.dstAccess
  BY <1>3 DEF IsBarrier, Dependency, Names, ShaderAccess
<1> HIDE DEF d1
<1>5. \A e \in Accesses(Places) : Held(e, st, n - 1) /\ MayOverlap(Waited(e, d1), t)
         => c.op = "update" /\ st[e.by].command.op = "download"
  <2> HIDE DEF c, t
  <2> QED BY <1>1, <1>3, <1>4, NothingBefore
<1> QED BY <1>2, <1>4, <1>5, TransferStep

----------------------------------------------------------------------------
\* Only the download at a place touches the transfer memory of that place.
LEMMA StagingIsOwn ==
    ASSUME NEW st, NEW n \in Nat, IsStream(st, n), NEW e, Held(e, st, n - 1)
    PROVE  e.buffer # Staging(n)
<1>1. PICK t \in Touches(st[e.by].command, e.by) : e.buffer = t.buffer
  BY DEF Held
<1>2. e.by \in 1..(n - 1)
  BY DEF Held
<1>3. st[e.by].command \in Commands /\ e.by \in Nat /\ e.by # n
  BY <1>2 DEF IsStream
<1>4. t.buffer \in Buffers \/ t.buffer = Staging(e.by)
  <2>1. /\ st[e.by].command.op \in {"update", "upload"} => t.buffer = st[e.by].command.buffer
        /\ st[e.by].command.op = "download" => t.buffer = st[e.by].command.buffer \/ t.buffer = Staging(e.by)
        /\ st[e.by].command.op # "barrier"
        /\ st[e.by].command.op = "dispatch" => t.buffer \in Buffers
    BY <1>3, TouchesOfCommand
  <2>2. st[e.by].command.op \in {"update", "upload", "download"} => st[e.by].command.buffer \in Buffers
    BY <1>3 DEF Commands
  <2>3. st[e.by].command.op \in {"update", "upload", "download", "barrier", "dispatch"}
    BY <1>3 DEF Commands
  <2> QED BY <2>1, <2>2, <2>3
<1>5. Staging(n) \notin Buffers
  BY StreamAssumption DEF StreamAssumption, Staging
<1>6. Staging(n) # Staging(e.by)
  BY <1>3 DEF Staging
<1> QED BY <1>1, <1>4, <1>5, <1>6

LEMMA DownloadStep ==
    ASSUME NEW st, NEW n \in Nat \ {0}, IsStream(st, n), NEW q, QueueInv(q, st, n - 1),
           st[n].command.op = "download"
    PROVE  QueueInv(RunCommand(q, DeviceCommands(st[n].command, n), n), st, n)
<1> DEFINE c == st[n].command
           b == c.buffer
           d1 == Dependency({"compute", "transfer"}, {"transfer"}, {"shaderWrite", "transferWrite"},
                            {"transferRead"}, {b})
           t1 == Touch("transfer", "transferRead", b)
           t2 == Touch("transfer", "transferWrite", Staging(n))
           d2 == Dependency({"transfer"}, {"host"}, {"transferWrite"}, {"hostRead"}, {Staging(n)})
           touches == <<d1, t1, t2, d2>>
           p == RunCommand(q, touches, n)
<1>1. c \in Commands /\ n \in 1..n /\ n \in Nat /\ b \in Buffers
  BY DEF IsStream, Commands
<1>2. DeviceCommands(c, n) = touches
  BY DEF DeviceCommands, DownloadBuffer
<1>3. /\ t1.op = "touch" /\ t1.stage = "transfer" /\ t1.access = "transferRead" /\ t1.buffer = b
      /\ t2.op = "touch" /\ t2.stage = "transfer" /\ t2.access = "transferWrite" /\ t2.buffer = Staging(n)
  BY DEF Touch
<1>4. t1 \in Touches(c, n) /\ t2 \in Touches(c, n)
  <2>1. DOMAIN touches = 1..4 /\ touches[2] = t1 /\ touches[3] = t2
    OBVIOUS
  <2> HIDE DEF touches
  <2> QED BY <1>2, <1>3, <2>1 DEF Touches, Range
<1>5. Staging(n) \in {"staging"} \X Nat
  BY DEF Staging
<1>6. /\ IsBarrier(d1) /\ d1.srcStages = {"compute", "transfer"} /\ d1.dstStages = {"transfer"}
      /\ {"shaderWrite", "transferWrite"} \subseteq d1.srcAccess /\ d1.dstAccess = {"transferRead"}
      /\ d1.buffers = {b}
  BY DEF IsBarrier, Dependency, Names
<1>7. /\ IsBarrier(d2) /\ d2.srcStages = {"transfer"} /\ d2.dstStages = {"host"}
      /\ d2.srcAccess = {"transferWrite"} /\ d2.dstAccess = {"hostRead"} /\ d2.buffers = {Staging(n)}
  BY DEF IsBarrier, Dependency, Names
<1>8. /\ Started(t1, n) \in Accesses(Places) /\ Started(t1, n).by = n /\ Started(t1, n).stage = t1.stage
      /\ Started(t1, n).access = t1.access /\ Started(t1, n).buffer = t1.buffer
      /\ Started(t2, n) \in Accesses(Places) /\ Started(t2, n).by = n /\ Started(t2, n).stage = t2.stage
      /\ Started(t2, n).access = t2.access /\ Started(t2, n).buffer = t2.buffer
  BY <1>1, <1>3, <1>5 DEF Started, Accesses, Names, Places
<1>9. \A e \in q.past : e \in Accesses(Places) /\ Held(e, st, n - 1)
  BY DEF QueueInv, Queues
<1> HIDE DEF d1, d2, t1, t2, b
<1>10. RanDownload(Places, p, q, n, d1, t1, t2, d2)
  <2>1. q \in Queues(Places)
    BY DEF QueueInv
  <2>2. /\ t1.stage \in Names /\ t1.access \in Names /\ t1.buffer \in Places
        /\ t2.stage \in Names /\ t2.access \in Names /\ t2.buffer \in Places
    BY <1>1, <1>3, <1>5 DEF Names, Places
  <2> QED BY <1>1, <1>3, <1>6, <1>7, <2>1, <2>2, RunDownload
<1> HIDE DEF p, c, touches
<1>11. \A e \in q.past : Waited(e, d1) \in Accesses(Places) /\ Later(Waited(e, d1), e)
  BY <1>6, <1>9, BarrierGrows
<1>12. ASSUME NEW w \in p.past
       PROVE  Held(w, st, n)
  <2>1. CASE w = Waited(Started(t1, n), d2)
    <3>1. Later(w, Started(t1, n))
      BY <1>7, <1>8, <2>1, BarrierGrows
    <3>2. w.by = n /\ w.stage = t1.stage /\ w.access = t1.access /\ w.buffer = t1.buffer
      BY <1>8, <3>1 DEF Later
    <3>3. st[n].command.op = "download" /\ t1 \in Touches(st[n].command, n) /\ w.buffer \in Buffers
      BY <1>1, <1>3, <1>4, <3>2 DEF c
    <3> QED BY <1>1, <3>2, <3>3 DEF Held
  <2>2. CASE w = Waited(Started(t2, n), d2)
    <3>1. Later(w, Started(t2, n)) /\ d2.dstStages \subseteq w.after /\ d2.dstAccess \subseteq w.visible
      <4>1. /\ Started(t2, n).stage \in d2.srcStages /\ Started(t2, n).access \in d2.srcAccess
            /\ Started(t2, n).buffer \in d2.buffers
        BY <1>3, <1>7, <1>8
      <4> QED BY <1>7, <1>8, <2>2, <4>1, BarrierGrows, BarrierOrders, BarrierShows
    <3>2. w.by = n /\ w.stage = t2.stage /\ w.access = t2.access /\ w.buffer = t2.buffer
      BY <1>8, <3>1 DEF Later
    <3>3. st[n].command.op = "download" /\ t2 \in Touches(st[n].command, n)
      BY <1>4 DEF c
    <3>4. "host" \in w.after /\ "hostRead" \in w.visible
      BY <1>7, <3>1
    <3> QED BY <1>1, <3>2, <3>3, <3>4 DEF Held
  <2>3. ASSUME NEW e \in q.past, w = Waited(Waited(e, d1), d2)
        PROVE  Held(w, st, n)
    <3>1. w \in Accesses(Places) /\ Later(w, e)
      BY <1>7, <1>11, <2>3, BarrierGrows, LaterTwice
    <3> QED BY <3>1, HeldBefore
  <2> QED BY <1>10, <2>1, <2>2, <2>3 DEF RanDownload
<1>13. \A e \in q.past : ~ MayOverlap(Waited(e, d1), t1)
  BY <1>1, <1>3, <1>6, <1>9, NothingBefore
<1>14. \A e \in q.past : ~ MayOverlap(Waited(e, d1), t2)
  BY <1>1, <1>3, <1>9, <1>11, StagingIsOwn DEF MayOverlap, Later
<1>15. \A race \in p.races : Allowed(race[1], race[2], st)
  <2>1. p.races \subseteq q.races
    BY <1>10, <1>13, <1>14 DEF RanDownload
  <2> QED BY <2>1 DEF QueueInv
<1>16. QueueInv(p, st, n)
  BY <1>10, <1>12, <1>15 DEF QueueInv, RanDownload
<1> QED BY <1>2, <1>16 DEF p, c

LEMMA BarrierStep ==
    ASSUME NEW st, NEW n \in Nat \ {0}, IsStream(st, n), NEW q, QueueInv(q, st, n - 1),
           st[n].command.op = "barrier"
    PROVE  QueueInv(RunCommand(q, DeviceCommands(st[n].command, n), n), st, n)
<1> DEFINE c == st[n].command
           d == Dependency({"compute"}, {"compute"}, ShaderAccess, ShaderAccess, c.buffers)
           touches == <<d>>
           m == 1
           p == RunCommand(q, touches, n)
<1>1. c \in Commands /\ n \in 1..n /\ n \in Nat
  BY DEF IsStream
<1>2. DeviceCommands(c, n) = touches
  BY DEF DeviceCommands, ComputeBarrier
<1>3. /\ IsBarrier(d) /\ d.srcStages = {"compute"} /\ d.dstStages = {"compute"}
      /\ d.srcAccess = ShaderAccess /\ d.dstAccess = ShaderAccess /\ d.buffers = c.buffers
  BY DEF IsBarrier, Dependency, Names, ShaderAccess
<1>4. m \in Nat /\ DOMAIN touches = 1..m /\ touches[1] = d
  OBVIOUS
<1>5. p = RunCommand(q, touches, n)
  OBVIOUS
<1> HIDE DEF touches, m, d, p
<1>6. PICK F : CommandTrace(F, q, touches, n, m)
  BY <1>4, CommandFold
<1>7. p = RunOne(q, d, n)
  <2>1. m = 1 /\ 1 \in 1..m /\ 1 - 1 = 0
    BY DEF m
  <2> QED BY <1>4, <1>5, <1>6, <2>1 DEF CommandTrace
<1>8. p \in Queues(Places) /\ p.past = {Waited(e, d) : e \in q.past} /\ p.races = q.races
  BY <1>1, <1>3, <1>7, RunDependency DEF QueueInv, IsBarrier
<1>9. ASSUME NEW e \in q.past, NEW w, w = Waited(e, d)
      PROVE  Held(w, st, n)
  <2>1. e \in Accesses(Places) /\ Held(e, st, n - 1)
    BY DEF QueueInv, Queues
  <2>2. w \in Accesses(Places) /\ Later(w, e)
    BY <1>3, <1>9, <2>1, BarrierGrows
  <2>3. e.by \in 1..n /\ e.by..n = (e.by..(n - 1)) \cup {n} /\ w.by = e.by
    <3>1. e.by \in 1..(n - 1)
      BY <2>1 DEF Held
    <3> QED BY <2>2, <3>1 DEF Later
  <2>4. ASSUME st[e.by].command.op = "dispatch", e.buffer \in c.buffers
        PROVE  "compute" \in w.after /\ (Writes(e.access) => ShaderAccess \subseteq w.visible)
    <3>1. n - 1 \in Nat /\ \A i \in 1..(n - 1) : st[i].command \in Commands
      BY DEF IsStream
    <3>2. e.stage = "compute" /\ e.access \in ShaderAccess
      BY <2>1, <2>4, <3>1, HeldIsTouched
    <3>3. e.stage \in d.srcStages /\ e.access \in d.srcAccess /\ e.buffer \in d.buffers
      BY <1>3, <2>4, <3>2
    <3>4. d.dstStages \subseteq w.after /\ d.dstAccess \subseteq w.visible
      BY <1>3, <1>9, <2>1, <3>3, BarrierOrders, BarrierShows
    <3> QED BY <1>3, <3>4
  <2> HIDE DEF c
  <2> QED BY <2>1, <2>2, <2>3, <2>4 DEF Held, Later, c
<1>10. \A race \in p.races : Allowed(race[1], race[2], st)
  BY <1>8 DEF QueueInv
<1>11. QueueInv(p, st, n)
  BY <1>8, <1>9, <1>10 DEF QueueInv
<1> QED BY <1>2, <1>5, <1>11

----------------------------------------------------------------------------
LEMMA RunDispatch ==
    ASSUME NEW c \in Commands, c.op = "dispatch", NEW n \in Nat, NEW q \in Queues(Places)
    PROVE  Dispatching(Places, RunCommand(q, DeviceCommands(c, n), n), q, Touches(c, n), n)
<1> DEFINE touches == DeviceCommands(c, n)
<1>1. touches = DispatchKernel({b \in Buffers : c.access[b] = "read"}, {b \in Buffers : c.access[b] = "write"})
  BY DEF DeviceCommands
<1>2. c.access \in Resources
  BY StreamAssumption DEF Commands, StreamAssumption
<1> HIDE DEF touches
<1>3. PICK m \in Nat : DOMAIN touches = 1..m
  BY <1>1, <1>2, DispatchTouches
<1>4. \A t \in Range(touches) : t \in Touches(c, n)
  BY <1>1, <1>2, DispatchTouches DEF Touches, touches
<1>5. \A k \in 1..m : touches[k] \in Touches(c, n)
  BY <1>3, <1>4 DEF Range
<1>6. \A t \in Touches(c, n) : IsTouch(Places, t)
  BY TouchesOfCommand DEF IsTouch, Touches
<1> DEFINE ts == Touches(c, n)
<1>7. \A k \in 1..m : touches[k] \in ts /\ IsTouch(Places, touches[k])
  BY <1>5, <1>6
<1> HIDE DEF ts
<1>8. Dispatching(Places, RunCommand(q, touches, n), q, ts, n)
  BY <1>3, <1>7, RunTouches
<1> QED BY <1>8 DEF touches, ts

\* A dispatch overlaps only what it may.
LEMMA BeforeDispatch ==
    ASSUME NEW st, NEW n \in Nat \ {0}, IsStream(st, n), st[n].command.op = "dispatch",
           NEW e, Held(e, st, n - 1), NEW t \in Touches(st[n].command, n), MayOverlap(e, t)
    PROVE  Excused(e.by, n, st)
<1> DEFINE c == st[n].command
           d == st[e.by].command
           b == e.buffer
<1>1. c \in Commands /\ n \in 1..n /\ n \in Nat
  BY DEF IsStream
<1>2. /\ t.stage = "compute" /\ t.access \in ShaderAccess /\ t.buffer \in Buffers
      /\ Grants(c.access[t.buffer], t.access)
  BY <1>1, TouchesOfCommand
<1>3. /\ d \in Commands /\ e.by \in 1..(n - 1) /\ d.op # "barrier"
      /\ d.op = "dispatch" => Grants(d.access[b], e.access)
  <2>1. n - 1 \in Nat /\ \A i \in 1..(n - 1) : st[i].command \in Commands
    BY DEF IsStream
  <2> QED BY <2>1, HeldIsTouched
<1>4. b = t.buffer /\ (Writes(e.access) \/ Writes(t.access))
      /\ ("compute" \notin e.after \/ (Writes(e.access) /\ ~ (ShaderAccess \subseteq e.visible)))
  BY <1>2 DEF MayOverlap
<1>5. CASE d.op \in {"update", "upload"}
  BY <1>4, <1>5 DEF Held
<1>6. CASE d.op = "download"
  BY <1>6 DEF Excused
<1>7. CASE d.op = "dispatch"
  <2>1. \A k \in e.by..(n - 1) : ~ (st[k].command.op = "barrier" /\ b \in st[k].command.buffers)
    BY <1>4, <1>7 DEF Held
  <2>2. \A k \in e.by..n : ~ (st[k].command.op = "barrier" /\ b \in st[k].command.buffers)
    <3>1. e.by..n = (e.by..(n - 1)) \cup {n}
      BY <1>3
    <3> QED BY <2>1, <3>1
  <2>3. /\ d.access[b] # "none" /\ c.access[b] # "none" /\ "write" \in {d.access[b], c.access[b]}
        /\ b \in Buffers
    BY <1>2, <1>3, <1>4, <1>7 DEF Grants
  <2> HIDE DEF b
  <2> QED BY <1>7, <2>2, <2>3 DEF Excused
<1> QED BY <1>3, <1>5, <1>6, <1>7 DEF Commands

LEMMA DispatchStep ==
    ASSUME NEW st, NEW n \in Nat \ {0}, IsStream(st, n), NEW q, QueueInv(q, st, n - 1),
           st[n].command.op = "dispatch"
    PROVE  QueueInv(RunCommand(q, DeviceCommands(st[n].command, n), n), st, n)
<1> DEFINE c == st[n].command
           p == RunCommand(q, DeviceCommands(c, n), n)
<1>1. c \in Commands /\ n \in 1..n /\ n \in Nat
  BY DEF IsStream
<1>2. \A e \in q.past : e \in Accesses(Places) /\ Held(e, st, n - 1) /\ Later(e, e)
  BY DEF QueueInv, Queues, Later
<1>3. Dispatching(Places, p, q, Touches(c, n), n)
  BY <1>1, RunDispatch DEF QueueInv
<1> HIDE DEF p
<1>4. ASSUME NEW w \in p.past
      PROVE  Held(w, st, n)
  <2>1. CASE w \in q.past
    BY <1>2, <2>1, HeldBefore
  <2>2. ASSUME NEW t \in Touches(c, n), w = Started(t, n)
        PROVE  Held(w, st, n)
    <3>1. w.by = n /\ w.stage = t.stage /\ w.access = t.access /\ w.buffer = t.buffer
      BY <2>2 DEF Started
    <3>2. t.buffer \in Buffers
      BY <1>1, TouchesOfCommand
    <3>3. n..n = {n}
      BY <1>1
    <3> QED BY <1>1, <3>1, <3>2, <3>3 DEF Held
  <2> QED BY <1>3, <2>1, <2>2 DEF Dispatching
<1>5. ASSUME NEW race \in p.races
      PROVE  Allowed(race[1], race[2], st)
  <2>1. CASE race \in q.races
    BY <2>1 DEF QueueInv
  <2>2. ASSUME NEW e \in q.past, NEW t \in Touches(c, n), race = <<e.by, n>>, MayOverlap(e, t)
        PROVE  Allowed(race[1], race[2], st)
    <3>1. t.buffer \in Buffers
      BY <1>1, TouchesOfCommand
    <3>2. Held(e, st, n - 1) /\ Later(e, e)
      BY <1>2
    <3>3. Excused(e.by, n, st)
      BY <2>2, <3>2, BeforeDispatch
    <3> QED BY <1>1, <2>2, <3>1, <3>2, <3>3, AllowedRace
  <2> QED BY <1>3, <2>1, <2>2 DEF Dispatching
<1>6. QueueInv(p, st, n)
  BY <1>3, <1>4, <1>5 DEF QueueInv, Dispatching
<1> QED BY <1>6 DEF p

\* Whatever a queue ran, what its accesses wait for is known, and its races are excused.
LEMMA QueueRuns ==
    ASSUME NEW st, NEW n \in Nat, DOMAIN st = 1..n, \A i \in 1..n : st[i].command \in Commands
    PROVE  QueueInv(Run([i \in DOMAIN st |-> DeviceCommands(st[i].command, i)]), st, n)
<1> DEFINE stream == [i \in DOMAIN st |-> DeviceCommands(st[i].command, i)]
<1>1. DOMAIN stream = 1..n /\ \A i \in 1..n : stream[i] = DeviceCommands(st[i].command, i)
  OBVIOUS
<1> HIDE DEF stream
<1>2. PICK F : StreamTrace(F, stream, n)
  BY <1>1, StreamFold
<1> DEFINE Good == {k \in 0..n : QueueInv(F[k], st, k)}
<1>3. 0 \in Good
  <2>1. F[0] = NothingRun
    BY <1>2 DEF StreamTrace
  <2>2. QueueInv(F[0], st, 0)
    BY <2>1 DEF QueueInv, NothingRun, Queues
  <2> QED BY <2>2
<1>4. ASSUME NEW k \in 1..n, k - 1 \in Good
      PROVE  k \in Good
  <2>1. k \in Nat \ {0} /\ k \in 1..k /\ IsStream(st, k)
    BY DEF IsStream
  <2> DEFINE q == F[k - 1]
  <2>2. QueueInv(q, st, k - 1) /\ F[k] = RunCommand(q, DeviceCommands(st[k].command, k), k)
    BY <1>1, <1>2, <1>4 DEF StreamTrace
  <2> HIDE DEF q
  <2>3. st[k].command.op \in {"update", "upload", "download", "barrier", "dispatch"}
    BY DEF Commands
  <2>4. QueueInv(F[k], st, k)
    BY <2>1, <2>2, <2>3, UpdateStep, UploadStep, DownloadStep, BarrierStep, DispatchStep
  <2> QED BY <2>4
<1>5. n \in Good
  <2>1. n \in 0..n
    OBVIOUS
  <2> HIDE DEF Good
  <2>2. 0..n \subseteq Good
    BY <1>3, <1>4, SetInduction
  <2> QED BY <2>1, <2>2
<1>6. QueueInv(Run(stream), st, n)
  BY <1>2, <1>5 DEF StreamTrace
<1> QED BY <1>6 DEF stream

----------------------------------------------------------------------------
(* The stream of the batches in flight. *)

\* What recorders with command buffers cmds have in batches bs.
RecorderStream(cmds, batch, r) == [k \in DOMAIN cmds[r] |-> [batch |-> batch, command |-> cmds[r][k]]]
BatchStream(cmds, batch) == FlattenSeq([j \in DOMAIN batch |-> RecorderStream(cmds, batch, batch[j])])
StreamOf(cmds, bs) == FlattenSeq([i \in DOMAIN bs |-> BatchStream(cmds, bs[i])])

LEMMA InFlightIsStream == \A bs : InFlight(bs) = StreamOf(commands, bs)
BY DEF InFlight, StreamOf, BatchStream, RecorderStream

\* The commands of batches bs, each with its batch.
BatchedCommands(cmds, bs) ==
    {x \in [batch : Arguments, command : Commands] :
        \E i \in DOMAIN bs : /\ x.batch = bs[i]
                             /\ \E r \in Range(bs[i]) : \E k \in DOMAIN cmds[r] : x.command = cmds[r][k]}

LEMMA StreamType ==
    ASSUME NEW cmds \in [Recorders -> Seq(Commands)], NEW bs \in Seq(Arguments)
    PROVE  StreamOf(cmds, bs) \in Seq(BatchedCommands(cmds, bs))
<1> DEFINE S == BatchedCommands(cmds, bs)
<1>1. ASSUME NEW i \in DOMAIN bs
      PROVE  BatchStream(cmds, bs[i]) \in Seq(S)
  <2> DEFINE batch == bs[i]
             streams == [j \in DOMAIN batch |-> RecorderStream(cmds, batch, batch[j])]
  <2>1. batch \in Arguments
    OBVIOUS
  <2>2. PICK n \in Nat : DOMAIN batch = 1..n
    BY <2>1 DEF Arguments, Injection
  <2>3. ASSUME NEW j \in DOMAIN batch
        PROVE  RecorderStream(cmds, batch, batch[j]) \in Seq(S)
    <3> DEFINE r == batch[j]
    <3>1. r \in Range(batch) /\ r \in Recorders
      BY <2>1, RangeOfArguments DEF Range
    <3>2. cmds[r] \in Seq(Commands)
      BY <3>1
    <3>3. \A k \in DOMAIN cmds[r] : [batch |-> batch, command |-> cmds[r][k]] \in S
      BY <2>1, <3>1, <3>2 DEF BatchedCommands
    <3>4. DOMAIN cmds[r] = 1..Len(cmds[r]) /\ Len(cmds[r]) \in Nat
      BY <3>2
    <3> HIDE DEF S, r
    <3> DEFINE size == Len(cmds[r])
               stream == RecorderStream(cmds, batch, r)
    <3>5. stream \in [1..size -> S]
      BY <3>3, <3>4 DEF RecorderStream
    <3> HIDE DEF size, stream
    <3>6. size \in Nat
      BY <3>4 DEF size
    <3>7. stream \in Seq(S)
      BY <3>5, <3>6
    <3> QED BY <3>7 DEF stream, r
  <2> HIDE DEF S, batch
  <2>4. streams \in Seq(Seq(S))
    BY <2>2, <2>3
  <2>5. FlattenSeq(streams) \in Seq(S)
    BY <2>4, FlattenedType
  <2> QED BY <2>5 DEF BatchStream, batch
<1>2. Len(bs) \in Nat /\ DOMAIN bs = 1..Len(bs)
  OBVIOUS
<1> HIDE DEF S
<1>3. [i \in DOMAIN bs |-> BatchStream(cmds, bs[i])] \in Seq(Seq(S))
  BY <1>1, <1>2
<1> QED BY <1>3, FlattenedType DEF StreamOf, S

\* It is the same for command buffers that differ elsewhere.
LEMMA SameStream ==
    ASSUME NEW cmds, NEW more, NEW bs, \A i \in DOMAIN bs : \A r \in Range(bs[i]) : more[r] = cmds[r]
    PROVE  StreamOf(more, bs) = StreamOf(cmds, bs)
<1>1. ASSUME NEW i \in DOMAIN bs
      PROVE  BatchStream(more, bs[i]) = BatchStream(cmds, bs[i])
  <2> DEFINE batch == bs[i]
  <2>1. \A j \in DOMAIN batch : RecorderStream(more, batch, batch[j]) = RecorderStream(cmds, batch, batch[j])
    <3> TAKE j \in DOMAIN batch
    <3>1. more[batch[j]] = cmds[batch[j]]
      BY DEF Range
    <3> QED BY <3>1 DEF RecorderStream
  <2> HIDE DEF batch
  <2>2. [j \in DOMAIN batch |-> RecorderStream(more, batch, batch[j])]
          = [j \in DOMAIN batch |-> RecorderStream(cmds, batch, batch[j])]
    BY <2>1
  <2> QED BY <2>2 DEF BatchStream, batch
<1>2. [i \in DOMAIN bs |-> BatchStream(more, bs[i])] = [i \in DOMAIN bs |-> BatchStream(cmds, bs[i])]
  BY <1>1
<1> QED BY <1>2 DEF StreamOf

\* The races of a stream.
RunOf(st) == Run([i \in DOMAIN st |-> DeviceCommands(st[i].command, i)])

\* The queue that ran the batches in flight.
LEMMA FlightRuns ==
    ASSUME NEW cmds \in [Recorders -> Seq(Commands)], NEW bs \in Seq(Arguments)
    PROVE  LET st == StreamOf(cmds, bs) IN QueueInv(RunOf(st), st, Len(st))
<1> DEFINE st == StreamOf(cmds, bs)
<1>1. st \in Seq(BatchedCommands(cmds, bs))
  BY StreamType
<1> HIDE DEF st
<1>2. Len(st) \in Nat /\ DOMAIN st = 1..Len(st)
  BY <1>1
<1>3. \A i \in 1..Len(st) : st[i].command \in Commands
  BY <1>1 DEF BatchedCommands
<1>4. QueueInv(RunOf(st), st, Len(st))
  BY <1>2, <1>3, QueueRuns DEF RunOf
<1> QED BY <1>4 DEF st

\* The bytes a recorded download is for are the host's, whatever the batches in flight do
\* and however many commands they have (recorder.go, Download: the barrier of the copy).
THEOREM DownloadsReachTheHost == Spec => []HostSeesDownloads
<1>1. CoverInv /\ BatchInv => HostSeesDownloads
  <2> SUFFICES ASSUME CoverInv, BatchInv
               PROVE  HostSeesDownloads
    OBVIOUS
  <2> DEFINE st == InFlight(batches)
             q == RunOf(st)
  <2>1. QueueInv(q, st, Len(st))
    BY FlightRuns, InFlightIsStream DEF CoverInv, RecordTypes, BatchInv
  <2>2. q = Run([i \in DOMAIN st |-> DeviceCommands(st[i].command, i)])
    BY DEF RunOf
  <2> HIDE DEF st, q
  <2>3. \A e \in q.past : e.buffer \notin Buffers => "host" \in e.after /\ "hostRead" \in e.visible
    BY <2>1 DEF QueueInv, Held
  <2> QED BY <2>2, <2>3 DEF HostSeesDownloads, st
<1> QED BY <1>1, CoverInvariant, BatchInit, BatchStep, PTL DEF Spec

----------------------------------------------------------------------------
(* Batches in flight do not conflict, and their races are those of their commands. *)

FlightInv ==
    /\ \A i, j \in DOMAIN batches : i # j => ~Conflict(UsesOf(batches[i]), UsesOf(batches[j]))
    /\ races = RunOf(InFlight(batches)).races

\* The uses of a batch.
UsesIn(u, recs) == MergeUses({u[r] : r \in Range(recs)})

LEMMA SameUses ==
    ASSUME NEW u, NEW v, NEW recs, \A r \in Range(recs) : v[r] = u[r]
    PROVE  UsesIn(v, recs) = UsesIn(u, recs)
<1>1. {v[r] : r \in Range(recs)} = {u[r] : r \in Range(recs)}
  OBVIOUS
<1> QED BY <1>1 DEF UsesIn

LEMMA ConflictsAreMutual == \A left, right : Conflict(left, right) => Conflict(right, left)
BY DEF Conflict

LEMMA ExecuteIsRun == \A bs : Execute(bs) = RunOf(StreamOf(commands, bs)).races
BY InFlightIsStream DEF Execute, RunOf

LEMMA FlightInit == Init => FlightInv
<1> SUFFICES ASSUME Init PROVE FlightInv
  OBVIOUS
<1>1. batches = << >> /\ races = {} /\ DOMAIN batches = {}
  BY DEF Init
<1> DEFINE st == InFlight(batches)
<1>2. st = << >> /\ DOMAIN st = {}
  BY <1>1 DEF InFlight, FlattenSeq
<1> HIDE DEF st
<1> DEFINE stream == [i \in DOMAIN st |-> DeviceCommands(st[i].command, i)]
           n == 0
<1>3. DOMAIN stream = 1..n /\ n \in Nat
  BY <1>2
<1> HIDE DEF stream, n
<1>4. PICK F : StreamTrace(F, stream, n)
  BY <1>3, StreamFold
<1>5. Run(stream) = NothingRun
  BY <1>4 DEF StreamTrace, n
<1>6. RunOf(st).races = {}
  BY <1>5 DEF RunOf, NothingRun, stream
<1> QED BY <1>1, <1>6 DEF FlightInv, st

\* Steps that leave the batches in flight and their recorders alone.
LEMMA FlightStays ==
    ASSUME BatchInv, FlightInv, UNCHANGED <<batches, races>>,
           \A r \in Recorders : state[r] = "submitted" => commands'[r] = commands[r] /\ uses'[r] = uses[r]
    PROVE  FlightInv'
<1>1. \A i \in DOMAIN batches : \A r \in Range(batches[i]) : commands'[r] = commands[r] /\ uses'[r] = uses[r]
  BY DEF BatchInv
<1>2. InFlight(batches)' = InFlight(batches)
  <2>1. StreamOf(commands', batches) = StreamOf(commands, batches)
    BY <1>1, SameStream
  <2>2. InFlight(batches)' = StreamOf(commands', batches')
    BY DEF InFlight, StreamOf, BatchStream, RecorderStream
  <2> QED BY <2>1, <2>2, InFlightIsStream
<1>3. \A i \in DOMAIN batches : UsesIn(uses', batches[i]) = UsesIn(uses, batches[i])
  BY <1>1, SameUses
<1>4. \A i, j \in DOMAIN batches : i # j => ~Conflict(UsesIn(uses', batches[i]), UsesIn(uses', batches[j]))
  BY <1>3 DEF FlightInv, UsesOf, UsesIn
<1>5. races' = RunOf(InFlight(batches)').races
  BY <1>2 DEF FlightInv
<1> QED BY <1>4, <1>5 DEF FlightInv, UsesOf, UsesIn, RunOf

LEMMA FlightSubmit ==
    ASSUME BatchInv, FlightInv, NEW recs \in Arguments, Submit(recs)
    PROVE  FlightInv'
<1>1. /\ DOMAIN batches' = DOMAIN batches \cup {Len(batches) + 1} /\ batches'[Len(batches) + 1] = recs
      /\ \A i \in DOMAIN batches : batches'[i] = batches[i]
  BY DEF Submit, BatchInv
<1>2. commands' = commands /\ uses' = uses /\ races' = RunOf(StreamOf(commands, batches')).races
  BY ExecuteIsRun DEF Submit
<1>3. \A i \in DOMAIN batches : /\ ~Conflict(UsesIn(uses, recs), UsesIn(uses, batches[i]))
                                /\ ~Conflict(UsesIn(uses, batches[i]), UsesIn(uses, recs))
  BY ConflictsAreMutual DEF Submit, UsesOf, UsesIn
<1>4. \A i, j \in DOMAIN batches : i # j => ~Conflict(UsesIn(uses, batches[i]), UsesIn(uses, batches[j]))
  BY DEF FlightInv, UsesOf, UsesIn
<1>5. \A i, j \in DOMAIN batches' : i # j => ~Conflict(UsesIn(uses', batches'[i]), UsesIn(uses', batches'[j]))
  BY <1>1, <1>2, <1>3, <1>4
<1>6. InFlight(batches)' = StreamOf(commands', batches')
  BY DEF InFlight, StreamOf, BatchStream, RecorderStream
<1> QED BY <1>2, <1>5, <1>6 DEF FlightInv, UsesOf, UsesIn, RunOf

LEMMA FlightObserve ==
    ASSUME BatchInv, FlightInv, NEW i \in DOMAIN batches, Observe(i)
    PROVE  FlightInv'
<1> DEFINE old(j) == IF j < i THEN j ELSE j + 1
           n == Len(batches)
           bs == RemoveAt(batches, i)
<1>1. batches' = bs /\ races' = RunOf(StreamOf(commands, batches')).races
  BY ExecuteIsRun DEF Observe
<1>2. DOMAIN bs = 1..(n - 1) /\ \A j \in 1..(n - 1) : bs[j] = batches[old(j)]
  BY Removed DEF BatchInv
<1>3. DOMAIN batches = 1..n /\ n \in Nat /\ i \in 1..n
  BY DEF BatchInv
<1>4. \A j \in 1..(n - 1) : old(j) \in DOMAIN batches \ {i}
  BY <1>3
<1>5. \A j, k \in 1..(n - 1) : j # k => old(j) # old(k)
  BY <1>3
<1> HIDE DEF old, n, bs
<1>6. \A j \in DOMAIN bs : \A r \in Range(bs[j]) : r \in Recorders /\ r \notin Range(batches[i])
  BY <1>2, <1>4 DEF BatchInv
<1>7. \A j \in DOMAIN bs : \A r \in Range(bs[j]) : commands'[r] = commands[r] /\ uses'[r] = uses[r]
  BY <1>6 DEF Observe, Finish
<1>8. InFlight(batches)' = StreamOf(commands, bs)
  <2>1. StreamOf(commands', bs) = StreamOf(commands, bs)
    BY <1>7, SameStream
  <2>2. InFlight(batches)' = StreamOf(commands', batches')
    BY DEF InFlight, StreamOf, BatchStream, RecorderStream
  <2> QED BY <1>1, <2>1, <2>2
<1>9. \A j \in DOMAIN bs : UsesIn(uses', bs[j]) = UsesIn(uses, bs[j])
  BY <1>7, SameUses
<1>10. \A j, k \in DOMAIN bs : j # k => ~Conflict(UsesIn(uses, bs[j]), UsesIn(uses, bs[k]))
  BY <1>2, <1>4, <1>5 DEF FlightInv, UsesOf, UsesIn
<1>11. \A j, k \in DOMAIN batches' : j # k => ~Conflict(UsesIn(uses', batches'[j]), UsesIn(uses', batches'[k]))
  BY <1>1, <1>9, <1>10
<1> QED BY <1>1, <1>8, <1>11 DEF FlightInv, UsesOf, UsesIn, RunOf

LEMMA FlightStep == CoverInv /\ BatchInv /\ FlightInv /\ [Next]_vars => FlightInv'
<1> SUFFICES ASSUME CoverInv, BatchInv, FlightInv, [Next]_vars
             PROVE  FlightInv'
  OBVIOUS
<1>1. CASE UNCHANGED <<recorderVars, queueVars>>
  BY <1>1, FlightStays DEF recorderVars, queueVars
<1>2. ASSUME NEW r \in Recorders, NEW c \in Commands, Record(r, c) \/ FailRecord(r, c)
      PROVE  FlightInv'
  <2>1. state[r] = "recording" /\ UNCHANGED <<batches, races>>
    BY <1>2 DEF Record, FailRecord, queueVars
  <2>2. \A k \in Recorders \ {r} : commands'[k] = commands[k] /\ uses'[k] = uses[k]
    BY <1>2 DEF Record, FailRecord, CoverInv, RecordTypes
  <2> QED BY <2>1, <2>2, FlightStays
<1>3. ASSUME NEW r \in Recorders, TimestampBegin(r) \/ TimestampEnd(r)
      PROVE  FlightInv'
  BY <1>1, <1>3 DEF TimestampBegin, TimestampEnd
<1>4. ASSUME NEW recs \in Arguments, AbortRecording(recs)
      PROVE  FlightInv'
  <2>1. \A r \in Range(recs) : state[r] = "recording"
    BY <1>4 DEF AbortRecording, Submittable, RecordingOnly
  <2>2. \A r \in Recorders : r \notin Range(recs) => commands'[r] = commands[r] /\ uses'[r] = uses[r]
    BY <1>4 DEF AbortRecording, Finish
  <2>3. UNCHANGED <<batches, races>>
    BY <1>4 DEF AbortRecording, queueVars
  <2> QED BY <2>1, <2>2, <2>3, FlightStays
<1>5. CASE UNCHANGED vars
  BY <1>1, <1>5 DEF vars
<1> QED BY <1>2, <1>3, <1>4, <1>5, FlightSubmit, FlightObserve DEF Next

LEMMA FlightInvariant == Spec => [](CoverInv /\ BatchInv /\ FlightInv)
BY CoverInit, CoverStep, BatchInit, BatchStep, FlightInit, FlightStep, PTL DEF Spec

----------------------------------------------------------------------------
\* What a command does to Buffers does not depend on its place.
LEMMA TouchesAnywhere ==
    ASSUME NEW c \in Commands, NEW i \in Nat, NEW j \in Nat, NEW t \in Touches(c, i), t.buffer \in Buffers
    PROVE  t \in Touches(c, j) /\ t.buffer # Staging(j)
<1>1. \A k \in Nat : Staging(k) \notin Buffers
  BY StreamAssumption DEF StreamAssumption, Staging
<1>2. CASE c.op # "download"
  <2>1. DeviceCommands(c, i) = DeviceCommands(c, j)
    BY <1>2 DEF DeviceCommands, Commands
  <2> QED BY <1>1, <2>1 DEF Touches
<1>3. CASE c.op = "download"
  <2> DEFINE s == Touch("transfer", "transferRead", c.buffer)
  <2>1. t = s \/ t = Touch("transfer", "transferWrite", Staging(i))
    BY <1>3 DEF Touches, DeviceCommands, DownloadBuffer, Range, Dependency, Touch
  <2>2. t = s
    BY <1>1, <2>1 DEF Touch
  <2>3. DeviceCommands(c, j)[2] = s /\ 2 \in DOMAIN DeviceCommands(c, j)
    BY <1>3 DEF DeviceCommands, DownloadBuffer
  <2>4. s.op = "touch"
    BY DEF Touch
  <2> QED BY <1>1, <2>2, <2>3, <2>4 DEF Touches, Range
<1> QED BY <1>2, <1>3

\* A batch has reserved what its commands touch.
LEMMA BatchReserves ==
    ASSUME CoverInv, NEW recs \in Arguments, NEW r \in Range(recs), NEW k \in DOMAIN commands[r],
           NEW i \in Nat, NEW t \in Touches(commands[r][k], i), t.buffer \in Buffers
    PROVE  UsesOf(recs)[t.buffer] \in (IF Writes(t.access) THEN {"write"} ELSE {"read", "write"})
<1>1. r \in Recorders /\ commands[r][k] \in Commands /\ k \in Nat
  BY RangeOfArguments DEF CoverInv, RecordTypes
<1>2. t \in Touches(commands[r][k], k) /\ t.buffer # Staging(k)
  BY <1>1, TouchesAnywhere
<1>3. Grants(uses[r][t.buffer], t.access)
  BY <1>1, <1>2 DEF CoverInv, Covered, Touches
<1>4. uses[r] \in {uses[x] : x \in Range(recs)}
  OBVIOUS
<1> QED BY <1>3, <1>4 DEF UsesOf, MergeUses, Grants

\* Conflicting commands in flight are ordered by the barriers that were recorded, in every
\* stream: those of other batches by the reservations, those of the same Device.Submit by the
\* barriers of Update, Upload, Download and Barrier, except where CommandsOrdered says so.
THEOREM ConflictsAreOrdered == Spec => []CommandsOrdered
<1>1. CoverInv /\ BatchInv /\ FlightInv => CommandsOrdered
  <2> SUFFICES ASSUME CoverInv, BatchInv, FlightInv, NEW race \in races
               PROVE  /\ InFlight(batches)[race[1]].batch = InFlight(batches)[race[2]].batch
                      /\ Excused(race[1], race[2], InFlight(batches))
    BY DEF CommandsOrdered, Excused
  <2> DEFINE st == InFlight(batches)
             i == race[1]
             j == race[2]
  <2>1. st = StreamOf(commands, batches)
    BY InFlightIsStream
  <2>2. commands \in [Recorders -> Seq(Commands)] /\ batches \in Seq(Arguments)
    BY DEF CoverInv, RecordTypes, BatchInv
  <2>3. QueueInv(RunOf(st), st, Len(st))
    BY <2>1, <2>2, FlightRuns
  <2>4. st \in Seq(BatchedCommands(commands, batches))
    BY <2>1, <2>2, StreamType
  <2>5. race \in RunOf(st).races
    BY DEF FlightInv
  <2> HIDE DEF st, i, j
  <2>6. Allowed(i, j, st)
    BY <2>3, <2>5 DEF QueueInv, i, j
  <2>7. st[i] \in BatchedCommands(commands, batches) /\ st[j] \in BatchedCommands(commands, batches)
        /\ i \in Nat /\ j \in Nat
    BY <2>4, <2>6 DEF Allowed
  <2>8. st[i].batch = st[j].batch
    <3>1. PICK p \in DOMAIN batches :
             /\ st[i].batch = batches[p]
             /\ \E r \in Range(batches[p]) : \E k \in DOMAIN commands[r] : st[i].command = commands[r][k]
      BY <2>7 DEF BatchedCommands
    <3>2. PICK o \in DOMAIN batches :
             /\ st[j].batch = batches[o]
             /\ \E r \in Range(batches[o]) : \E k \in DOMAIN commands[r] : st[j].command = commands[r][k]
      BY <2>7 DEF BatchedCommands
    <3>3. PICK t1 \in Touches(st[i].command, i), t2 \in Touches(st[j].command, j) :
             /\ t1.buffer = t2.buffer /\ t1.buffer \in Buffers
             /\ Writes(t1.access) \/ Writes(t2.access)
      BY <2>6 DEF Allowed, Clash
    <3> DEFINE b == t1.buffer
               u == UsesOf(batches[p])
               v == UsesOf(batches[o])
    <3>4. batches[p] \in Arguments /\ batches[o] \in Arguments
      BY <2>2
    <3>5. u[b] \in (IF Writes(t1.access) THEN {"write"} ELSE {"read", "write"})
      BY <2>7, <3>1, <3>3, <3>4, BatchReserves
    <3>6. v[b] \in (IF Writes(t2.access) THEN {"write"} ELSE {"read", "write"})
      BY <2>7, <3>2, <3>3, <3>4, BatchReserves
    <3> HIDE DEF u, v
    <3>7. Conflict(u, v)
      BY <3>3, <3>5, <3>6 DEF Conflict
    <3>8. p = o
      BY <3>7 DEF FlightInv, u, v
    <3> QED BY <3>1, <3>2, <3>8
  <2> QED BY <2>6, <2>8 DEF Allowed, st, i, j
<1> QED BY <1>1, FlightInvariant, PTL

=============================================================================
