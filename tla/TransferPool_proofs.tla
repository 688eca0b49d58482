------------------------ MODULE TransferPool_proofs ------------------------
(***************************************************************************)
(* Theorems about TransferPool and TransferMemory, for any recorders,      *)
(* buffers, resources, sizes, devices and limits.                          *)
(***************************************************************************)
EXTENDS TransferPool, FiniteSetTheorems, TLAPS

----------------------------------------------------------------------------
\* Rounding.
LEMMA Division ==
    ASSUME NEW a \in Nat, NEW g \in Nat \ {0}
    PROVE  /\ a \div g \in Nat /\ a % g \in Nat /\ a % g < g
           /\ a = g * (a \div g) + (a % g)
OBVIOUS

LEMMA Multiple ==
    ASSUME NEW g \in Nat \ {0}, NEW q \in Nat
    PROVE  (g * q) % g = 0
<1> DEFINE d == (g * q) \div g
           rest == (g * q) % g
<1>1. g * q \in Nat
  OBVIOUS
<1>2. d \in Nat /\ rest \in Nat /\ rest < g /\ g * q = g * d + rest
  BY <1>1, Division
<1> HIDE DEF d, rest
<1>3. CASE q <= d
  <2>1. g * q <= g * d
    BY <1>2, <1>3
  <2>2. rest = 0
    BY <1>1, <1>2, <2>1
  <2> QED BY <2>2 DEF rest
<1>4. CASE q >= d + 1
  <2>1. g * q >= g * d + g
    BY <1>2, <1>4
  <2> QED BY <1>1, <1>2, <2>1
<1> QED BY <1>2, <1>3, <1>4

LEMMA RoundedFits ==
    ASSUME NEW size \in Nat
    PROVE  Rounded(size) \in Nat /\ size <= Rounded(size)
<1> DEFINE a == size + Granule - 1
<1>1. Granule \in Nat \ {0} /\ a \in Nat
  BY BoundsAssumption
<1> HIDE DEF a
<1>2. /\ a \div Granule \in Nat /\ a % Granule \in Nat /\ a % Granule < Granule
      /\ a = Granule * (a \div Granule) + (a % Granule)
  BY <1>1, Division
<1> QED BY <1>1, <1>2 DEF Rounded, a

\* The range nonCoherentRange computes is one that vkInvalidateMappedMemoryRanges
\* accepts and covers the bytes that are read, for every range inside every
\* allocation and every atom, in one that ends inside an atom too (transfer_memory.go:239).
THEOREM RangeIsInvalidated ==
    ASSUME NEW offset \in Nat, NEW size \in Nat, NEW allocationSize \in Nat, NEW atom \in Nat \ {0},
           offset + size <= allocationSize
    PROVE  InvalidatesRead(NonCoherentRange(offset, size, allocationSize, atom),
                           offset, size, allocationSize, atom)
<1> DEFINE end == offset + size
           increase == IF end % atom = 0 THEN 0 ELSE atom - (end % atom)
           first == offset - (offset % atom)
           last == IF increase > allocationSize - end THEN allocationSize ELSE end + increase
<1>1. end \in Nat /\ end <= allocationSize
  OBVIOUS
<1>2. first \in Nat /\ first <= offset /\ first % atom = 0
  <2>1. /\ offset \div atom \in Nat /\ offset % atom \in Nat
        /\ offset = atom * (offset \div atom) + (offset % atom)
    BY Division
  <2>2. first = atom * (offset \div atom)
    BY <2>1
  <2>3. first % atom = 0
    BY <2>1, <2>2, Multiple
  <2> HIDE DEF first
  <2>4. first \in Nat
    BY <2>1, <2>2
  <2>5. first <= offset
    BY <2>1, <2>2
  <2> QED BY <2>3, <2>4, <2>5
<1> HIDE DEF end
<1>3. increase \in Nat /\ (end + increase) % atom = 0
  <2>1. /\ end \div atom \in Nat /\ end % atom \in Nat /\ end % atom < atom
        /\ end = atom * (end \div atom) + (end % atom)
    BY <1>1, Division
  <2>2. CASE end % atom = 0
    BY <1>1, <2>2
  <2>3. CASE end % atom # 0
    <3>1. increase = atom - (end % atom)
      BY <2>3
    <3>2. end + increase = atom * (end \div atom + 1)
      BY <2>1, <3>1, <1>1
    <3>3. end \div atom + 1 \in Nat
      BY <2>1
    <3>4. (atom * (end \div atom + 1)) % atom = 0
      BY <3>3, Multiple
    <3>5. increase \in Nat
      BY <2>1, <3>1
    <3> HIDE DEF increase
    <3> QED BY <3>2, <3>4, <3>5
  <2> QED BY <2>2, <2>3
<1> HIDE DEF increase, first
<1>4. end <= last /\ last <= allocationSize /\ (last % atom = 0 \/ last = allocationSize)
  BY <1>1, <1>3
<1>5. NonCoherentRange(offset, size, allocationSize, atom) = [first |-> first, end |-> last]
  BY DEF NonCoherentRange, first, end, increase
<1> HIDE DEF last
<1>6. offset + size <= last
  BY <1>4 DEF end
<1> QED BY <1>2, <1>4, <1>5, <1>6 DEF InvalidatesRead

----------------------------------------------------------------------------
(* The invariant.  MemoryInv is about resources and their holders, and holds    *)
(* whatever the recorders, buffers and the device do; PhaseInv says who may     *)
(* still have commands in flight where.  AccountInv, below, has the account.    *)
Kinds == [direction : Directions \cup {"none"}, capacity : Nat, allocationSize : Nat, coherent : BOOLEAN]

MemoryTypes ==
    /\ device \in Devices
    /\ native \in [Resources -> Kinds]
    /\ held \in [Holders -> SUBSET Resources]
    /\ requested \in [Resources -> Nat]
    /\ filled \subseteq Resources

Existing ==
    \A x \in Resources : native[x] # Destroyed =>
        /\ native[x].direction \in Directions
        /\ native[x].capacity <= native[x].allocationSize
        /\ native[x].direction = "upload" => native[x].coherent

Requests == \A c \in Clients : \A x \in held[c] : requested[x] <= native[x].capacity

StagingSize == \A b \in Buffers : \A x \in held[b] : native[x].capacity = BufferSize

\* Only a download that a recorder or buffer holds has been read.
FilledHeld == \A x \in filled : native[x].direction = "download" /\ \E c \in Clients : x \in held[c]

MemoryInv == MemoryTypes /\ ExclusiveOwner /\ Existing /\ Requests /\ StagingSize /\ FilledHeld

PhaseTypes ==
    /\ status \in {"open", "closing", "cleanup", "closed"}
    /\ pc \in [Clients -> RecorderStates \cup BufferStates]
    /\ \A r \in Recorders : pc[r] \in RecorderStates
    /\ \A b \in Buffers : pc[b] \in BufferStates
    /\ preparing \subseteq Resources
    /\ references \in [Buffers -> Nat]
    /\ inFlight \in [Clients -> SUBSET Resources]

\* A recorder that may give memory back has nothing in flight, and a buffer that is
\* open has something in flight only when its completion was lost.
Quiet ==
    /\ \A r \in Recorders : pc[r] \notin {"submitted", "lost"} => inFlight[r] = {}
    /\ \A b \in Buffers : pc[b] \in {"open", "upload", "download"} /\ ~submissionErr => inFlight[b] = {}
    /\ \A b \in Buffers : pc[b] = "closed" => inFlight[b] = {}

\* A transfer in flight, waited for or lost, keeps its buffer from being closed.
Referred ==
    \A b \in Buffers :
        pc[b] \in {"uploading", "downloading"} \/ inFlight[b] # {} => references[b] > 0

Ended ==
    /\ \A r \in Recorders : pc[r] = "done" => held[r] = {}
    /\ \A b \in Buffers : pc[b] = "closed" => held[b] = {}

Closing ==
    /\ status \in {"cleanup", "closed"} =>
          /\ \A c \in Clients : inFlight[c] = {}
          /\ \A r \in Recorders : pc[r] \in RecorderStates \ {"preparing", "reading"}
          /\ \A b \in Buffers : pc[b] \in {"open", "closed"}
    /\ status = "closed" =>
          /\ \A r \in Recorders : pc[r] = "done"
          /\ \A b \in Buffers : pc[b] = "closed"
          /\ \A direction \in Directions : held[direction] = {}

PhaseInv == PhaseTypes /\ InFlightStaysHeld /\ Quiet /\ Referred /\ Ended /\ Closing

PoolInv == MemoryInv /\ PhaseInv

LEMMA HolderKinds ==
    /\ Recorders \subseteq Clients /\ Buffers \subseteq Clients
    /\ Clients \subseteq Holders /\ Directions \subseteq Holders
    /\ Holders = Directions \cup Recorders \cup Buffers
    /\ \A r \in Recorders : r \notin Buffers /\ r \notin Directions
    /\ \A b \in Buffers : b \notin Recorders /\ b \notin Directions
    /\ \A c \in Clients : c \notin Directions
BY HoldersAssumption DEF Clients, Holders

LEMMA PoolInit == Init => PoolInv
<1> SUFFICES ASSUME Init PROVE PoolInv OBVIOUS
<1>1. Destroyed \in Kinds
  BY DEF Destroyed, Kinds
<1>2. MemoryInv
  BY <1>1, HolderKinds DEF Init, MemoryInv, MemoryTypes, ExclusiveOwner, Existing, Requests, StagingSize, FilledHeld
<1>3. PhaseInv
  BY HolderKinds DEF Init, PhaseInv, PhaseTypes, InFlightStaysHeld, Quiet, Referred, Ended, Closing, RecorderStates, BufferStates, Clients
<1> QED BY <1>2, <1>3 DEF PoolInv

\* What createTransferResource makes.
LEMMA Created ==
    ASSUME MemoryTypes, NEW x \in Resources, NEW direction \in Directions, NEW size \in Nat \ {0},
           Create(x, direction, size)
    PROVE  /\ native[x] = Destroyed
           /\ native' \in [Resources -> Kinds]
           /\ \A y \in Resources : y # x => native'[y] = native[y]
           /\ native'[x] # Destroyed
           /\ native'[x].direction = direction /\ native'[x].capacity = size
           /\ size <= native'[x].allocationSize
           /\ direction = "upload" => native'[x].coherent
<1>1. PICK index \in SelectMemoryType(device.types, DOMAIN device.types, direction) :
         native' = [native EXCEPT ![x] =
                      [direction |-> direction, capacity |-> size, allocationSize |-> Rounded(size),
                       coherent |-> "coherent" \in device.types[index]]]
  BY DEF Create
<1>2. direction = "upload" => "coherent" \in device.types[index]
  BY DEF SelectMemoryType, Compatible
<1>3. Rounded(size) \in Nat /\ size <= Rounded(size)
  BY RoundedFits
<1> DEFINE new == [direction |-> direction, capacity |-> size, allocationSize |-> Rounded(size),
                   coherent |-> "coherent" \in device.types[index]]
<1>4. new \in Kinds
  BY <1>3 DEF Kinds
<1>5. new # Destroyed
  <2>1. new.capacity = size /\ Destroyed.capacity = 0
    BY DEF Destroyed
  <2> QED BY <2>1
<1>6. native'[x] = new /\ native' \in [Resources -> Kinds]
  BY <1>1, <1>4 DEF MemoryTypes
<1>7. /\ new.direction = direction /\ new.capacity = size /\ new.allocationSize = Rounded(size)
      /\ new.coherent = ("coherent" \in device.types[index])
  OBVIOUS
<1> HIDE DEF new
<1>8. native[x] = Destroyed
  BY DEF Create
<1>9. \A y \in Resources : y # x => native'[y] = native[y]
  BY <1>1 DEF MemoryTypes
<1>10. direction = "upload" => native'[x].coherent
  BY <1>2, <1>6, <1>7
<1>11. size <= native'[x].allocationSize
  BY <1>3, <1>6, <1>7
<1> QED BY <1>5, <1>6, <1>7, <1>8, <1>9, <1>10, <1>11

----------------------------------------------------------------------------
(* What each operation on the pool does to MemoryInv. *)

\* A resource that is new joins a holder: the parts of MemoryInv it could disturb.
LEMMA AcquiredStep ==
    ASSUME MemoryInv, NEW c \in Recorders, NEW direction \in Directions, NEW size \in Sizes,
           NEW x \in Resources, AcquireTransfer(c, direction, size, x), UNCHANGED <<device, filled>>
    PROVE  /\ MemoryInv'
           /\ held'[c] \in SUBSET Resources /\ held[c] \subseteq held'[c]
           /\ \A k \in Clients : k # c => held'[k] = held[k]
<1> USE HolderKinds
<1>0. size \in Nat \ {0} /\ size \in Nat
  BY BoundsAssumption
<1>1. /\ \/ x \in BestFit(direction, size) /\ TakeIdle(c, direction, x) /\ UNCHANGED native
         \/ /\ BestFit(direction, size) = {}
            /\ Create(x, direction, size)
            /\ held' = [held EXCEPT ![c] = @ \cup {x}]
            /\ UNCHANGED idleTransferBytes
      /\ requested' = [requested EXCEPT ![x] = size]
  BY DEF AcquireTransfer
<1>2. /\ requested' \in [Resources -> Nat] /\ requested'[x] = size
      /\ \A y \in Resources : y # x => requested'[y] = requested[y]
  BY <1>0, <1>1 DEF MemoryInv, MemoryTypes
<1>3. CASE x \in BestFit(direction, size) /\ TakeIdle(c, direction, x) /\ UNCHANGED native
  <2>1. x \in held[direction] /\ size <= native[x].capacity
    BY <1>3 DEF BestFit
  <2>2. /\ held' = [held EXCEPT ![direction] = @ \ {x}, ![c] = @ \cup {x}]
        /\ held'[c] = held[c] \cup {x} /\ held'[direction] = held[direction] \ {x}
        /\ \A h \in Holders : h # c /\ h # direction => held'[h] = held[h]
    BY <1>3 DEF TakeIdle, MemoryInv, MemoryTypes
  <2>3. MemoryTypes'
    BY <1>2, <1>3, <2>2 DEF MemoryInv, MemoryTypes
  <2>4. ExclusiveOwner'
    BY <1>3, <2>1, <2>2 DEF MemoryInv, MemoryTypes, ExclusiveOwner
  <2>5. Existing' /\ FilledHeld'
    <3>1. \A k \in Clients : held[k] \subseteq held'[k]
      BY <1>3, <2>2
    <3>2. Existing'
      BY <1>3 DEF MemoryInv, Existing
    <3>3. FilledHeld'
      BY <1>3, <3>1 DEF MemoryInv, FilledHeld
    <3> QED BY <3>2, <3>3
  <2>6. \A k \in Clients : x \notin held[k]
    BY <2>1 DEF MemoryInv, ExclusiveOwner
  <2>7. Requests'
    BY <1>2, <1>3, <2>1, <2>2, <2>6 DEF MemoryInv, MemoryTypes, Requests
  <2>8. StagingSize'
    BY <1>3, <2>2 DEF MemoryInv, StagingSize
  <2> QED BY <2>2, <2>3, <2>4, <2>5, <2>7, <2>8 DEF MemoryInv, MemoryTypes
<1>4. CASE Create(x, direction, size) /\ held' = [held EXCEPT ![c] = @ \cup {x}]
  <2>1. /\ native[x] = Destroyed
        /\ native' \in [Resources -> Kinds]
        /\ \A y \in Resources : y # x => native'[y] = native[y]
        /\ native'[x] # Destroyed
        /\ native'[x].direction = direction /\ native'[x].capacity = size
        /\ size <= native'[x].allocationSize
        /\ direction = "upload" => native'[x].coherent
    BY <1>0, <1>4, Created DEF MemoryInv
  <2>2. /\ held'[c] = held[c] \cup {x}
        /\ \A h \in Holders : h # c => held'[h] = held[h]
    BY <1>4 DEF MemoryInv, MemoryTypes
  <2>3. MemoryTypes'
    BY <1>2, <1>4, <2>1 DEF MemoryInv, MemoryTypes
  <2>4. \A h \in Holders : x \notin held[h]
    BY <2>1 DEF MemoryInv, ExclusiveOwner
  <2>5. ExclusiveOwner'
    BY <2>1, <2>2, <2>4 DEF MemoryInv, MemoryTypes, ExclusiveOwner
  <2>6. Existing'
    BY <2>1 DEF MemoryInv, Existing
  <2>7. FilledHeld'
    BY <2>1, <2>2, <2>4 DEF MemoryInv, MemoryTypes, FilledHeld
  <2>8. Requests'
    BY <1>0, <1>2, <2>1, <2>2, <2>4 DEF MemoryInv, MemoryTypes, Requests
  <2>9. StagingSize'
    BY <2>1, <2>2, <2>4 DEF MemoryInv, MemoryTypes, StagingSize
  <2> QED BY <2>2, <2>3, <2>5, <2>6, <2>7, <2>8, <2>9 DEF MemoryInv, MemoryTypes
<1> QED BY <1>1, <1>3, <1>4

LEMMA DiscardedSet ==
    ASSUME MemoryTypes, NEW xs \in SUBSET Resources, Discard(xs)
    PROVE  /\ native' \in [Resources -> Kinds]
           /\ \A y \in Resources : native'[y] = IF y \in xs THEN Destroyed ELSE native[y]
<1>1. Destroyed \in Kinds
  BY DEF Destroyed, Kinds
<1> QED BY <1>1 DEF Discard, MemoryTypes

LEMMA GivenUpStep ==
    ASSUME MemoryInv, NEW c \in Recorders, NEW x \in held[c],
           ReleaseTransfer(c, x) \/ DiscardTransfer(c, x),
           requested' = [requested EXCEPT ![x] = 0], filled' = filled \ {x}, UNCHANGED device
    PROVE  /\ MemoryInv'
           /\ held'[c] = held[c] \ {x}
           /\ \A k \in Clients : k # c => held'[k] = held[k]
<1> USE HolderKinds
<1>1. /\ x \in Resources /\ native[x] # Destroyed
      /\ \A h \in Holders : h # c => x \notin held[h]
  BY DEF MemoryInv, MemoryTypes, ExclusiveOwner
<1>2. native[x].direction \in Directions
  BY <1>1 DEF MemoryInv, Existing
<1>3. /\ requested' \in [Resources -> Nat]
      /\ \A y \in Resources : y # x => requested'[y] = requested[y]
  BY <1>1 DEF MemoryInv, MemoryTypes
<1>4. CASE held' = [held EXCEPT ![c] = @ \ {x}, ![native[x].direction] = @ \cup {x}] /\ UNCHANGED native
  <2> DEFINE d == native[x].direction
  <2>1. /\ held'[c] = held[c] \ {x} /\ held'[d] = held[d] \cup {x}
        /\ \A h \in Holders : h # c /\ h # d => held'[h] = held[h]
    BY <1>2, <1>4 DEF MemoryInv, MemoryTypes
  <2>2. MemoryTypes'
    BY <1>1, <1>2, <1>3, <1>4 DEF MemoryInv, MemoryTypes
  <2>3. d \in Directions /\ d \in Holders
    BY <1>2
  <2>4. ExclusiveOwner'
    BY <1>1, <1>4, <2>1, <2>3 DEF MemoryInv, MemoryTypes, ExclusiveOwner
  <2>5. \A k \in Clients : held'[k] = held[k] \ {x}
    BY <1>1, <2>1, <2>3
  <2>6. Existing' /\ FilledHeld' /\ Requests' /\ StagingSize'
    BY <1>3, <1>4, <2>5 DEF MemoryInv, MemoryTypes, Existing, FilledHeld, Requests, StagingSize
  <2> QED BY <1>1, <2>1, <2>2, <2>4, <2>5, <2>6 DEF MemoryInv
<1>5. CASE held' = [held EXCEPT ![c] = @ \ {x}] /\ Discard({x})
  <2>1. /\ held'[c] = held[c] \ {x}
        /\ \A h \in Holders : h # c => held'[h] = held[h]
        /\ \A h \in Holders : held'[h] = held[h] \ {x}
    BY <1>1, <1>5 DEF MemoryInv, MemoryTypes
  <2>2. /\ native' \in [Resources -> Kinds]
        /\ \A y \in Resources : native'[y] = IF y = x THEN Destroyed ELSE native[y]
    BY <1>1, <1>5, DiscardedSet DEF MemoryInv
  <2>3. MemoryTypes'
    BY <1>1, <1>3, <1>5, <2>2 DEF MemoryInv, MemoryTypes
  <2>4. ExclusiveOwner'
    BY <1>1, <2>1, <2>2 DEF MemoryInv, MemoryTypes, ExclusiveOwner
  <2>5. Existing'
    BY <2>2 DEF MemoryInv, Existing
  <2>6. FilledHeld' /\ Requests' /\ StagingSize'
    BY <1>3, <2>1, <2>2 DEF MemoryInv, MemoryTypes, FilledHeld, Requests, StagingSize
  <2> QED BY <2>1, <2>3, <2>4, <2>5, <2>6 DEF MemoryInv
<1> QED BY <1>4, <1>5 DEF ReleaseTransfer, DiscardTransfer

\* ensureStaging: a buffer has at most one resource of each direction, of its size.
LEMMA StagedStep ==
    ASSUME MemoryInv, NEW b \in Buffers, NEW direction \in Directions, NEW size \in Sizes,
           BeginTransfer(b, direction, size)
    PROVE  /\ MemoryInv'
           /\ held[b] \subseteq held'[b]
           /\ \A k \in Clients : k # b => held'[k] = held[k]
<1> USE HolderKinds
<1>0. size \in Nat /\ BufferSize \in Nat \ {0} /\ BufferSize \in Nat /\ size <= BufferSize
  BY BoundsAssumption DEF BeginTransfer
<1>1. PICK x \in Resources :
         /\ \/ x \in Staging(b, direction) /\ UNCHANGED <<native, held>>
            \/ /\ Staging(b, direction) = {}
               /\ Create(x, direction, BufferSize)
               /\ held' = [held EXCEPT ![b] = @ \cup {x}]
         /\ requested' = [requested EXCEPT ![x] = size]
  BY DEF BeginTransfer
<1>2. /\ requested' \in [Resources -> Nat] /\ requested'[x] = size
      /\ \A y \in Resources : y # x => requested'[y] = requested[y]
  BY <1>0, <1>1 DEF MemoryInv, MemoryTypes
<1>3. filled' \subseteq filled /\ UNCHANGED device
  BY DEF BeginTransfer
<1>4. CASE x \in Staging(b, direction) /\ UNCHANGED <<native, held>>
  <2>1. x \in held[b] /\ native[x].capacity = BufferSize
    BY <1>4 DEF Staging, MemoryInv, StagingSize
  <2>2. MemoryTypes' /\ ExclusiveOwner' /\ Existing' /\ StagingSize'
    BY <1>2, <1>3, <1>4 DEF MemoryInv, MemoryTypes, ExclusiveOwner, Existing, StagingSize
  <2>3. FilledHeld'
    BY <1>3, <1>4 DEF MemoryInv, FilledHeld
  <2>4. Requests'
    BY <1>0, <1>2, <1>4, <2>1 DEF MemoryInv, MemoryTypes, Requests, ExclusiveOwner
  <2> QED BY <1>4, <2>2, <2>3, <2>4 DEF MemoryInv
<1>5. CASE Create(x, direction, BufferSize) /\ held' = [held EXCEPT ![b] = @ \cup {x}]
  <2>1. /\ native[x] = Destroyed
        /\ native' \in [Resources -> Kinds]
        /\ \A y \in Resources : y # x => native'[y] = native[y]
        /\ native'[x] # Destroyed
        /\ native'[x].direction = direction /\ native'[x].capacity = BufferSize
        /\ BufferSize <= native'[x].allocationSize
        /\ direction = "upload" => native'[x].coherent
    BY <1>0, <1>5, Created DEF MemoryInv
  <2>2. /\ held'[b] = held[b] \cup {x}
        /\ \A h \in Holders : h # b => held'[h] = held[h]
    BY <1>5 DEF MemoryInv, MemoryTypes
  <2>3. MemoryTypes'
    BY <1>2, <1>3, <1>5, <2>1 DEF MemoryInv, MemoryTypes
  <2>4. \A h \in Holders : x \notin held[h]
    BY <2>1 DEF MemoryInv, ExclusiveOwner
  <2>5. ExclusiveOwner'
    BY <2>1, <2>2, <2>4 DEF MemoryInv, MemoryTypes, ExclusiveOwner
  <2>6. Existing'
    BY <2>1 DEF MemoryInv, Existing
  <2>7. FilledHeld'
    BY <1>3, <2>1, <2>2, <2>4 DEF MemoryInv, MemoryTypes, FilledHeld
  <2>8. Requests'
    BY <1>0, <1>2, <2>1, <2>2, <2>4 DEF MemoryInv, MemoryTypes, Requests
  <2>9. StagingSize'
    BY <2>1, <2>2, <2>4 DEF MemoryInv, MemoryTypes, StagingSize
  <2> QED BY <2>2, <2>3, <2>5, <2>6, <2>7, <2>8, <2>9 DEF MemoryInv
<1> QED BY <1>1, <1>4, <1>5

LEMMA ClosedNativeStep ==
    ASSUME MemoryInv, NEW b \in Buffers, CloseNative(b), UNCHANGED device
    PROVE  /\ MemoryInv'
           /\ held'[b] = {}
           /\ \A k \in Clients : k # b => held'[k] = held[k]
<1> USE HolderKinds
<1>1. /\ held'[b] = {}
      /\ \A h \in Holders : h # b => held'[h] = held[h]
      /\ held' \in [Holders -> SUBSET Resources]
      /\ held[b] \in SUBSET Resources
  BY DEF CloseNative, MemoryInv, MemoryTypes
<1>2. /\ native' \in [Resources -> Kinds]
      /\ \A y \in Resources : native'[y] = IF y \in held[b] THEN Destroyed ELSE native[y]
  BY <1>1, DiscardedSet DEF MemoryInv, CloseNative
<1>3. /\ requested' \in [Resources -> Nat]
      /\ \A y \in Resources : y \notin held[b] => requested'[y] = requested[y]
  BY DEF CloseNative, MemoryInv, MemoryTypes
<1>4. MemoryTypes'
  BY <1>1, <1>2, <1>3 DEF CloseNative, MemoryInv, MemoryTypes
<1>5. \A h \in Holders : h # b => held[h] \cap held[b] = {}
  BY DEF MemoryInv, ExclusiveOwner
<1>6. ExclusiveOwner'
  BY <1>1, <1>2, <1>5 DEF MemoryInv, MemoryTypes, ExclusiveOwner
<1>7. Existing'
  BY <1>2 DEF MemoryInv, Existing
<1>8. FilledHeld'
  BY <1>1, <1>2, <1>5 DEF CloseNative, MemoryInv, MemoryTypes, FilledHeld
<1>9. Requests' /\ StagingSize'
  BY <1>1, <1>2, <1>3, <1>5 DEF MemoryInv, MemoryTypes, Requests, StagingSize
<1> QED BY <1>1, <1>4, <1>6, <1>7, <1>8, <1>9 DEF MemoryInv

LEMMA DrainedStep ==
    ASSUME MemoryInv, DrainTransferPool
    PROVE  /\ MemoryInv'
           /\ \A direction \in Directions : held'[direction] = {}
           /\ \A k \in Clients : held'[k] = held[k]
<1> USE HolderKinds
<1>1. /\ held' \in [Holders -> SUBSET Resources]
      /\ \A h \in Holders : held'[h] = IF h \in Directions THEN {} ELSE held[h]
      /\ Drained \in SUBSET Resources
  BY DEF DrainTransferPool, Drained, MemoryInv, MemoryTypes, Directions
<1>2. Drained = UNION {held[d] : d \in Directions}
  BY DEF Drained, Directions
<1>3. /\ native' \in [Resources -> Kinds]
      /\ \A y \in Resources : native'[y] = IF y \in Drained THEN Destroyed ELSE native[y]
  BY <1>1, DiscardedSet DEF MemoryInv, DrainTransferPool
<1>4. MemoryTypes'
  BY <1>1, <1>3 DEF DrainTransferPool, MemoryInv, MemoryTypes
<1>5. \A k \in Clients : held[k] \cap Drained = {}
  BY <1>2 DEF MemoryInv, ExclusiveOwner
<1>6. \A x \in Drained : \E d \in Directions : x \in held[d]
  BY <1>2
<1>7. ExclusiveOwner'
  <2>1. \A x \in Resources : native'[x] # Destroyed => \E h \in Holders : x \in held'[h]
    BY <1>1, <1>2, <1>3 DEF MemoryInv, ExclusiveOwner
  <2>2. \A h \in Holders : \A x \in held'[h] : native'[x] # Destroyed
    BY <1>1, <1>3, <1>5 DEF MemoryInv, MemoryTypes, ExclusiveOwner
  <2> QED BY <1>1, <2>1, <2>2 DEF MemoryInv, ExclusiveOwner
<1>8. Existing'
  BY <1>3 DEF MemoryInv, Existing
<1>9. FilledHeld' /\ Requests' /\ StagingSize'
  BY <1>1, <1>3, <1>5 DEF DrainTransferPool, MemoryInv, MemoryTypes, FilledHeld, Requests, StagingSize
<1> QED BY <1>1, <1>4, <1>7, <1>8, <1>9 DEF MemoryInv

LEMMA MemoryUntouched ==
    ASSUME MemoryInv, UNCHANGED <<device, native, held, requested>>,
           filled' \subseteq Resources, FilledHeld'
    PROVE  MemoryInv'
BY DEF MemoryInv, MemoryTypes, ExclusiveOwner, Existing, Requests, StagingSize

----------------------------------------------------------------------------
(* What each step does to the invariant. *)
Gone(c, label) ==
    /\ pc' = [pc EXCEPT ![c] = label]
    /\ \A k \in Clients : pc'[k] = IF k = c THEN label ELSE pc[k]

LEMMA GotoLabel ==
    ASSUME PhaseTypes, NEW c \in Clients, NEW label, Goto(c, label)
    PROVE  Gone(c, label)
BY DEF Goto, Gone, PhaseTypes

\* Recorder steps that acquire or give up memory.
LEMMA RecorderMemoryStep ==
    ASSUME PoolInv, NEW r \in Recorders,
           \/ \E size \in Sizes : PrepareUpload(r, size) \/ RecordDownload(r, size)
           \/ FailUpload(r) \/ GiveUpTransfer(r)
    PROVE  PoolInv'
<1> USE HolderKinds DEF PoolInv, PhaseInv
<1>1. CASE \E size \in Sizes : PrepareUpload(r, size) \/ RecordDownload(r, size)
  <2>1. PICK size \in Sizes : PrepareUpload(r, size) \/ RecordDownload(r, size)
    BY <1>1
  <2>2. /\ status = "open" /\ pc[r] = "recording"
        /\ UNCHANGED <<device, status, submissionErr, filled, notReusable, references, inFlight>>
        /\ UNCHANGED pc \/ Goto(r, "preparing")
    BY <2>1 DEF PrepareUpload, RecordDownload
  <2>8. PICK x \in Resources :
           /\ AcquireTransfer(r, "upload", size, x) \/ AcquireTransfer(r, "download", size, x)
           /\ preparing' = preparing \/ preparing' = preparing \cup {x}
    BY <2>1 DEF PrepareUpload, RecordDownload
  <2>3. /\ MemoryInv'
        /\ held[r] \subseteq held'[r]
        /\ \A k \in Clients : k # r => held'[k] = held[k]
    BY <2>2, <2>8, AcquiredStep DEF Directions
  <2>4. UNCHANGED pc \/ Gone(r, "preparing")
    BY <2>2, GotoLabel
  <2>5. PhaseTypes'
    BY <2>2, <2>4, <2>8 DEF PhaseTypes, Gone, RecorderStates
  <2>6. InFlightStaysHeld'
    BY <2>2, <2>3 DEF InFlightStaysHeld
  <2>7. Quiet' /\ Referred' /\ Ended' /\ Closing'
    BY <2>2, <2>3, <2>4 DEF PhaseTypes, Gone, Quiet, Referred, Ended, Closing
  <2> QED BY <2>3, <2>5, <2>6, <2>7
<1>2. CASE FailUpload(r)
  <2>1. PICK x \in held[r] :
           /\ DiscardTransfer(r, x)
           /\ requested' = [requested EXCEPT ![x] = 0]
           /\ filled' = filled \ {x}
           /\ preparing' = preparing \ {x}
           /\ UNCHANGED device
    BY <1>2 DEF FailUpload
  <2>2. MemoryInv
    OBVIOUS
  <2>3. /\ MemoryInv'
        /\ held'[r] = held[r] \ {x}
        /\ \A k \in Clients : k # r => held'[k] = held[k]
    BY ONLY <2>1, <2>2, GivenUpStep
  <2>4. /\ Gone(r, "recording") /\ pc[r] = "preparing"
        /\ UNCHANGED <<status, submissionErr, references, inFlight>>
    BY <1>2, GotoLabel DEF FailUpload
  <2>5. PhaseTypes'
    BY <2>1, <2>4 DEF PhaseTypes, Gone, RecorderStates
  <2>6. InFlightStaysHeld' /\ Quiet' /\ Referred' /\ Ended' /\ Closing'
    BY <2>3, <2>4 DEF PhaseTypes, Gone, InFlightStaysHeld, Quiet, Referred, Ended, Closing
  <2> QED BY <2>3, <2>5, <2>6
<1>3. CASE GiveUpTransfer(r)
  <2>1. PICK x \in held[r] :
           /\ ReleaseTransfer(r, x) \/ DiscardTransfer(r, x)
           /\ requested' = [requested EXCEPT ![x] = 0]
           /\ filled' = filled \ {x} /\ UNCHANGED device
    BY <1>3 DEF GiveUpTransfer
  <2>2. /\ MemoryInv'
        /\ held'[r] = held[r] \ {x}
        /\ \A k \in Clients : k # r => held'[k] = held[k]
    BY <2>1, GivenUpStep
  <2>3. pc[r] \in {"recycling", "discarding"} /\ UNCHANGED <<status, submissionErr, pc, preparing, references, inFlight>>
    BY <1>3 DEF GiveUpTransfer
  <2>4. PhaseTypes' /\ InFlightStaysHeld' /\ Quiet' /\ Referred' /\ Ended'
    BY <2>2, <2>3 DEF PhaseTypes, InFlightStaysHeld, Quiet, Referred, Ended
  <2>5. Closing'
    BY <2>3 DEF Closing
  <2> QED BY <2>2, <2>4, <2>5
<1> QED BY <1>1, <1>2, <1>3

\* A recorder that moves and touches no memory.
LEMMA RecorderMoves ==
    ASSUME PhaseInv, NEW r \in Recorders, NEW label \in RecorderStates,
           Goto(r, label), UNCHANGED <<status, held, references, inFlight>>, preparing' \subseteq preparing,
           submissionErr => submissionErr',
           label \notin {"submitted", "lost"} => inFlight[r] = {},
           label = "done" => held[r] = {},
           status # "closed",
           status = "cleanup" => label \notin {"preparing", "reading"}
    PROVE  PhaseInv'
<1> USE HolderKinds DEF PhaseInv
<1>1. Gone(r, label)
  BY GotoLabel
<1>2. PhaseTypes'
  BY <1>1 DEF PhaseTypes, Gone
<1>3. InFlightStaysHeld' /\ Quiet' /\ Referred' /\ Ended'
  BY <1>1 DEF Gone, InFlightStaysHeld, Quiet, Referred, Ended
<1>4. Closing'
  BY <1>1 DEF Gone, Closing, PhaseTypes
<1> QED BY <1>2, <1>3, <1>4

LEMMA SubmitStep ==
    ASSUME PoolInv, NEW r \in Recorders, Submit(r)
    PROVE  PhaseInv'
<1> USE HolderKinds DEF PoolInv
<1>1. pc[r] = "recording" /\ status = "open" /\ UNCHANGED <<status, submissionErr, held, preparing, references>>
  BY DEF Submit
<1>2. CASE Goto(r, "submitted") /\ inFlight' = [inFlight EXCEPT ![r] = held[r]]
  <2>1. Gone(r, "submitted")
    BY <1>2, GotoLabel DEF PhaseInv
  <2>2. /\ inFlight'[r] = held[r] /\ held[r] \in SUBSET Resources
        /\ inFlight' \in [Clients -> SUBSET Resources]
        /\ \A c \in Clients : c # r => inFlight'[c] = inFlight[c]
    BY <1>2 DEF PhaseInv, PhaseTypes, MemoryInv, MemoryTypes
  <2>3. PhaseTypes'
    BY <1>1, <2>1, <2>2 DEF PhaseInv, PhaseTypes, Gone, RecorderStates
  <2>4. InFlightStaysHeld' /\ Quiet' /\ Referred' /\ Ended' /\ Closing'
    BY <1>1, <2>1, <2>2 DEF PhaseInv, Gone, InFlightStaysHeld, Quiet, Referred, Ended, Closing
  <2> QED BY <2>3, <2>4 DEF PhaseInv
<1>3. CASE Goto(r, "recycling") /\ UNCHANGED inFlight
  BY <1>1, <1>3, RecorderMoves DEF PhaseInv, Quiet, RecorderStates
<1> QED BY <1>2, <1>3 DEF Submit

\* The other steps of a recorder.
LEMMA RecorderPhaseStep ==
    ASSUME PoolInv, NEW r \in Recorders,
           \/ RecordUpload(r) \/ Submit(r) \/ Abort(r) \/ Observe(r)
           \/ ReadDownload(r) \/ EndRead(r) \/ FinishRecorder(r) \/ CloseRecorder(r)
    PROVE  PoolInv'
<1> USE HolderKinds
<1>1. UNCHANGED <<device, status, native, held, requested>>
  BY DEF RecordUpload, Submit, Abort, Observe, ReadDownload, EndRead, FinishRecorder, CloseRecorder
<1>2. MemoryInv'
  <2>1. CASE filled' = filled
    BY <1>1, <2>1, MemoryUntouched DEF PoolInv, MemoryInv, MemoryTypes, FilledHeld
  <2>2. CASE ReadDownload(r)
    <3>1. PICK x \in Unread(r) : filled' = filled \/ filled' = filled \cup {x}
      BY <2>2 DEF ReadDownload
    <3>2. x \in held[r] /\ x \in Resources /\ native[x].direction = "download"
      BY <3>1 DEF Unread, PoolInv, MemoryInv, MemoryTypes
    <3> QED BY <1>1, <3>1, <3>2, MemoryUntouched DEF PoolInv, MemoryInv, MemoryTypes, FilledHeld
  <2> QED BY <2>1, <2>2 DEF RecordUpload, Submit, Abort, Observe, EndRead, FinishRecorder, CloseRecorder
<1>3. PhaseInv /\ Quiet /\ Closing /\ PhaseTypes /\ Ended
  BY DEF PoolInv, PhaseInv
<1> SUFFICES PhaseInv'
  BY <1>2 DEF PoolInv
<1>4. CASE RecordUpload(r)
  BY <1>1, <1>3, <1>4, RecorderMoves DEF RecordUpload, Quiet, Closing, RecorderStates
<1>5. CASE Submit(r)
  BY <1>5, SubmitStep
<1>6. CASE Abort(r)
  BY <1>1, <1>3, <1>6, RecorderMoves DEF Abort, Abortable, Quiet, RecorderStates
<1>7. CASE Observe(r)
  BY <1>1, <1>3, <1>7, RecorderMoves DEF Observe, MarkUnknown, RecorderStates
<1>8. CASE ReadDownload(r)
  <2>1. pc[r] = "reading" /\ UNCHANGED <<submissionErr, preparing, references, inFlight>>
    BY <1>8 DEF ReadDownload
  <2>2. CASE UNCHANGED pc
    BY <1>1, <1>3, <2>1, <2>2 DEF PhaseInv, PhaseTypes, InFlightStaysHeld, Quiet, Referred, Ended, Closing
  <2>3. CASE Goto(r, "recycling")
    BY <1>1, <1>3, <2>1, <2>3, RecorderMoves DEF Quiet, Closing, RecorderStates
  <2> QED BY <1>8, <2>2, <2>3 DEF ReadDownload
<1>9. CASE EndRead(r)
  BY <1>1, <1>3, <1>9, RecorderMoves DEF EndRead, Quiet, Closing, RecorderStates
<1>10. CASE FinishRecorder(r)
  BY <1>1, <1>3, <1>10, RecorderMoves DEF FinishRecorder, Quiet, Closing, RecorderStates
<1>11. CASE CloseRecorder(r)
  BY <1>1, <1>3, <1>11, RecorderMoves DEF CloseRecorder, Closing, RecorderStates
<1> QED BY <1>4, <1>5, <1>6, <1>7, <1>8, <1>9, <1>10, <1>11

LEMMA BufferMoves ==
    ASSUME PhaseInv, NEW b \in Buffers, NEW label \in BufferStates,
           Goto(b, label), UNCHANGED <<status, preparing, inFlight>>, submissionErr => submissionErr',
           references' \in [Buffers -> Nat], \A c \in Buffers : c # b => references'[c] = references[c],
           label \notin {"uploading", "downloading"}, references'[b] = references[b] \/ inFlight[b] = {},
           \A c \in Clients : c # b => held'[c] = held[c],
           held[b] \subseteq held'[b] \/ inFlight[b] = {},
           label = "closed" => held'[b] = {},
           label = "closed" \/ (label \in {"open", "upload", "download"} /\ ~submissionErr') => inFlight[b] = {},
           status # "closed",
           status = "cleanup" => label \in {"open", "closed"}
    PROVE  PhaseInv'
<1> USE HolderKinds DEF PhaseInv
<1>1. Gone(b, label)
  BY GotoLabel
<1>2. PhaseTypes'
  BY <1>1 DEF PhaseTypes, Gone
<1>3. InFlightStaysHeld' /\ Quiet' /\ Referred' /\ Ended'
  BY <1>1 DEF Gone, InFlightStaysHeld, Quiet, Referred, Ended
<1>4. Closing'
  BY <1>1 DEF Gone, Closing, PhaseTypes
<1> QED BY <1>2, <1>3, <1>4

LEMMA BufferStepKeeps ==
    ASSUME PoolInv, NEW b \in Buffers, BufferStep(b)
    PROVE  PoolInv'
<1> USE HolderKinds
<1>1. MemoryInv /\ PhaseInv /\ Quiet /\ Closing /\ PhaseTypes /\ Ended
  BY DEF PoolInv, PhaseInv
<1>2. CASE \E direction \in Directions, size \in Sizes : BeginTransfer(b, direction, size)
  <2>1. PICK direction \in Directions, size \in Sizes : BeginTransfer(b, direction, size)
    BY <1>2
  <2>2. /\ MemoryInv'
        /\ held[b] \subseteq held'[b]
        /\ \A k \in Clients : k # b => held'[k] = held[k]
    BY <1>1, <2>1, StagedStep
  <2>3. /\ pc[b] = "open" /\ status = "open" /\ Goto(b, direction)
        /\ UNCHANGED <<status, submissionErr, preparing, references, inFlight>>
    BY <2>1 DEF BeginTransfer
  <2>4. direction \in BufferStates /\ direction \notin {"closed", "uploading", "downloading"}
    BY DEF Directions, BufferStates
  <2>5. PhaseInv'
    BY <1>1, <2>2, <2>3, <2>4, BufferMoves DEF Quiet, PhaseTypes
  <2> QED BY <2>2, <2>5 DEF PoolInv
<1>3. CASE SubmitTransfer(b)
  <2>1. PICK direction \in Directions :
           /\ pc[b] = direction
           /\ inFlight' = [inFlight EXCEPT ![b] = Staging(b, direction)]
           /\ Goto(b, IF direction = "upload" THEN "uploading" ELSE "downloading")
    BY <1>3 DEF SubmitTransfer
  <2>2. /\ UNCHANGED <<device, status, submissionErr, native, held, requested, filled, preparing>>
        /\ references' = [references EXCEPT ![b] = @ + 1]
    BY <1>3 DEF SubmitTransfer
  <2>3. MemoryInv'
    BY <1>1, <2>2, MemoryUntouched DEF MemoryInv, MemoryTypes, FilledHeld
  <2>4. PICK label \in {"uploading", "downloading"} : Gone(b, label)
    BY <1>1, <2>1, GotoLabel
  <2>5. /\ inFlight'[b] \subseteq held[b] /\ inFlight' \in [Clients -> SUBSET Resources]
        /\ \A c \in Clients : c # b => inFlight'[c] = inFlight[c]
    <3>1. Staging(b, direction) \subseteq held[b] /\ held[b] \subseteq Resources
      BY <1>1 DEF Staging, MemoryInv, MemoryTypes
    <3> QED BY <1>1, <2>1, <3>1 DEF PhaseTypes
  <2>6. status \notin {"cleanup", "closed"}
    <3>1. pc[b] \in {"upload", "download"}
      BY <2>1 DEF Directions
    <3>2. status \in {"cleanup", "closed"} => pc[b] \in {"open", "closed"}
      BY <1>1 DEF Closing
    <3> QED BY <3>1, <3>2
  <2>7. PhaseTypes'
    <3>1. references' \in [Buffers -> Nat]
      BY <1>1, <2>2 DEF PhaseTypes
    <3>2. /\ pc' \in [Clients -> RecorderStates \cup BufferStates]
          /\ \A r \in Recorders : pc'[r] \in RecorderStates
          /\ \A c \in Buffers : pc'[c] \in BufferStates
      BY <1>1, <2>4 DEF PhaseTypes, Gone, BufferStates
    <3> QED BY <1>1, <2>2, <2>5, <3>1, <3>2 DEF PhaseTypes
  <2>8. InFlightStaysHeld'
    BY <1>1, <2>2, <2>5 DEF PhaseInv, InFlightStaysHeld
  <2>9. Quiet'
    BY <1>1, <2>2, <2>4, <2>5 DEF Quiet, Gone
  <2>10. Ended' /\ Referred'
    <3>1. references'[b] > 0 /\ \A c \in Buffers : c # b => references'[c] = references[c]
      BY <1>1, <2>2 DEF PhaseTypes
    <3>2. Referred'
      BY <1>1, <2>4, <2>5, <3>1 DEF PhaseInv, Referred, Gone
    <3> QED BY <1>1, <2>2, <2>4, <3>2 DEF Ended, Gone
  <2>11. Closing'
    BY <2>2, <2>6 DEF Closing
  <2> QED BY <2>3, <2>7, <2>8, <2>9, <2>10, <2>11 DEF PoolInv, PhaseInv
<1>4. CASE FailTransfer(b)
  <2>1. /\ UNCHANGED <<device, status, submissionErr, native, held, requested, filled>>
        /\ UNCHANGED <<preparing, references, inFlight>>
    BY <1>4 DEF FailTransfer
  <2>2. MemoryInv'
    BY <1>1, <2>1, MemoryUntouched DEF MemoryInv, MemoryTypes, FilledHeld
  <2>3. pc[b] \in {"upload", "download"} /\ Goto(b, "open")
    BY <1>4 DEF FailTransfer, Directions
  <2>4. status # "closed"
    BY <1>1, <2>3 DEF Closing
  <2>5. PhaseInv'
    BY <1>1, <2>1, <2>3, <2>4, BufferMoves DEF Quiet, PhaseTypes, BufferStates
  <2> QED BY <2>2, <2>5 DEF PoolInv
<1>5. CASE EndTransfer(b)
  <2>1. /\ UNCHANGED <<device, status, native, held, requested, preparing, inFlight>>
        /\ pc[b] \in {"uploading", "downloading"} /\ Goto(b, "open")
        /\ filled' = filled \/ filled' = filled \cup Staging(b, "download")
        /\ \/ /\ inFlight[b] = {} /\ submissionErr' = submissionErr
              /\ references' = [references EXCEPT ![b] = @ - 1]
           \/ submissionErr' = TRUE /\ UNCHANGED references
    BY <1>5 DEF EndTransfer, MarkUnknown, RetainUnknown
  <2>2. \A x \in Staging(b, "download") : x \in held[b] /\ native[x].direction = "download"
    BY DEF Staging
  <2>3. held[b] \subseteq Resources
    BY <1>1 DEF MemoryInv, MemoryTypes
  <2>4. filled' \subseteq Resources /\ FilledHeld'
    BY <1>1, <2>1, <2>2, <2>3 DEF MemoryInv, MemoryTypes, FilledHeld
  <2>5. MemoryInv'
    BY <1>1, <2>1, <2>4, MemoryUntouched
  <2>6. status # "closed"
    BY <1>1, <2>1 DEF Closing
  <2>7. /\ references' \in [Buffers -> Nat] /\ \A c \in Buffers : c # b => references'[c] = references[c]
        /\ references'[b] = references[b] \/ inFlight[b] = {}
    <3>1. references \in [Buffers -> Nat] /\ references[b] > 0
      BY <1>1, <2>1 DEF PhaseInv, PhaseTypes, Referred
    <3> QED BY <2>1, <3>1
  <2>8. PhaseInv'
    BY <1>1, <2>1, <2>6, <2>7, BufferMoves DEF BufferStates
  <2> QED BY <2>5, <2>8 DEF PoolInv
<1>6. CASE CloseBuffer(b) \/ CloseBufferFromDevice(b)
  <2>1. CloseNative(b) /\ UNCHANGED <<device, status, submissionErr, preparing, references, inFlight>>
    BY <1>6 DEF CloseBuffer, CloseBufferFromDevice
  <2>2. /\ MemoryInv' /\ held'[b] = {}
        /\ \A k \in Clients : k # b => held'[k] = held[k]
    BY <1>1, <2>1, ClosedNativeStep
  <2>3. inFlight[b] = {} /\ status # "closed"
    BY <1>1, <1>6 DEF CloseBuffer, CloseBufferFromDevice, Closeable, Closing, PhaseInv, Referred
  <2>4. PhaseInv'
    BY <1>1, <2>1, <2>2, <2>3, BufferMoves DEF CloseNative, PhaseTypes, BufferStates
  <2> QED BY <2>2, <2>4 DEF PoolInv
<1> QED BY <1>2, <1>3, <1>4, <1>5, <1>6 DEF BufferStep

LEMMA DeviceStepKeeps ==
    ASSUME PoolInv, StartClose \/ WaitIdle \/ DrainTransferPool \/ \E c \in Clients : Complete(c)
    PROVE  PoolInv'
<1> USE HolderKinds
<1>1. MemoryInv /\ PhaseTypes /\ InFlightStaysHeld /\ Quiet /\ Referred /\ Ended /\ Closing
  BY DEF PoolInv, PhaseInv
<1>2. CASE StartClose
  <2>1. MemoryInv'
    BY <1>1, <1>2, MemoryUntouched DEF StartClose, MemoryInv, MemoryTypes, FilledHeld
  <2>2. PhaseTypes' /\ InFlightStaysHeld' /\ Quiet' /\ Referred' /\ Ended' /\ Closing'
    BY <1>1, <1>2 DEF StartClose, PhaseTypes, InFlightStaysHeld, Quiet, Referred, Ended, Closing
  <2> QED BY <2>1, <2>2 DEF PoolInv, PhaseInv
<1>3. CASE WaitIdle
  <2>1. MemoryInv'
    BY <1>1, <1>3, MemoryUntouched DEF WaitIdle, MemoryInv, MemoryTypes, FilledHeld
  <2>2. /\ \A c \in Clients : inFlight'[c] = {}
        /\ status' = "cleanup" /\ UNCHANGED <<pc, held, preparing>>
        /\ references' \in [Buffers -> Nat]
        /\ \A c \in Clients : pc[c] \in {"recording", "submitted", "lost", "done", "open", "closed"}
        /\ inFlight' \in [Clients -> SUBSET Resources]
    BY <1>3 DEF WaitIdle
  <2>3. PhaseTypes' /\ InFlightStaysHeld' /\ Quiet' /\ Referred' /\ Ended'
    BY <1>1, <2>2 DEF PhaseTypes, InFlightStaysHeld, Quiet, Referred, Ended
  <2>4. Closing'
    BY <1>1, <2>2 DEF PhaseTypes, Closing, RecorderStates, BufferStates
  <2> QED BY <2>1, <2>3, <2>4 DEF PoolInv, PhaseInv
<1>4. CASE DrainTransferPool
  <2>1. /\ MemoryInv'
        /\ \A direction \in Directions : held'[direction] = {}
        /\ \A k \in Clients : held'[k] = held[k]
    BY <1>1, <1>4, DrainedStep
  <2>2. PhaseTypes' /\ InFlightStaysHeld' /\ Quiet' /\ Referred' /\ Ended' /\ Closing'
    BY <1>1, <1>4, <2>1
       DEF DrainTransferPool, PhaseTypes, InFlightStaysHeld, Quiet, Referred, Ended, Closing, RecorderStates
  <2> QED BY <2>1, <2>2 DEF PoolInv, PhaseInv
<1>5. ASSUME NEW c \in Clients, Complete(c)
      PROVE  PoolInv'
  <2>1. MemoryInv'
    BY <1>1, <1>5, MemoryUntouched DEF Complete, MemoryInv, MemoryTypes, FilledHeld
  <2>2. \A k \in Clients : inFlight'[k] = {} \/ inFlight'[k] = inFlight[k]
    BY <1>1, <1>5 DEF Complete, PhaseTypes
  <2>3. PhaseTypes' /\ InFlightStaysHeld' /\ Quiet' /\ Referred' /\ Ended' /\ Closing'
    BY <1>1, <1>5, <2>2 DEF Complete, PhaseTypes, InFlightStaysHeld, Quiet, Referred, Ended, Closing
  <2> QED BY <2>1, <2>3 DEF PoolInv, PhaseInv
<1> QED BY <1>2, <1>3, <1>4, <1>5

LEMMA PoolNext == PoolInv /\ [Next]_vars => PoolInv'
<1> SUFFICES ASSUME PoolInv, [Next]_vars PROVE PoolInv'
  OBVIOUS
<1>1. CASE \E r \in Recorders : RecorderStep(r)
  BY <1>1, RecorderMemoryStep, RecorderPhaseStep DEF RecorderStep
<1>2. CASE \E b \in Buffers : BufferStep(b)
  BY <1>2, BufferStepKeeps
<1>3. CASE StartClose \/ WaitIdle \/ DrainTransferPool \/ \E c \in Clients : Complete(c)
  BY <1>3, DeviceStepKeeps
<1>4. CASE UNCHANGED vars
  <2>1. MemoryInv'
    BY <1>4, MemoryUntouched DEF vars, PoolInv, MemoryInv, MemoryTypes, FilledHeld
  <2>2. PhaseInv'
    BY <1>4 DEF vars, PoolInv, PhaseInv, PhaseTypes, InFlightStaysHeld, Quiet, Referred, Ended, Closing
  <2> QED BY <2>1, <2>2 DEF PoolInv
<1> QED BY <1>1, <1>2, <1>3, <1>4 DEF Next

\* The inductive invariant, in every reachable state.
THEOREM PoolInvariant == Spec => []PoolInv
BY PoolInit, PoolNext, PTL DEF Spec

----------------------------------------------------------------------------
\* Every transfer resource has exactly one owner (transfer_memory.go:37), whatever
\* recorders, buffers and Device.Close do to the pool (transfer_pool.go).
THEOREM OwnersAreExclusive == Spec => []ExclusiveOwner
<1>1. PoolInv => ExclusiveOwner
  BY DEF PoolInv, MemoryInv
<1> QED BY <1>1, PoolInvariant, PTL

\* Memory that submitted commands may access stays with its recorder or buffer on
\* every outcome of the submission (recorder.go:533, transfer_memory.go:38).
THEOREM InFlightIsHeld == Spec => []InFlightStaysHeld
<1>1. PoolInv => InFlightStaysHeld
  BY DEF PoolInv, PhaseInv
<1> QED BY <1>1, PoolInvariant, PTL

\* Recycled memory is large enough for each transfer, and an upload's is coherent:
\* the best fit of acquireTransfer and the choice of the memory type agree.
THEOREM TransfersFit == Spec => []TransferFits
<1>1. PoolInv => TransferFits
  <2> SUFFICES ASSUME PoolInv, NEW c \in Clients, NEW x \in held[c]
               PROVE  /\ requested[x] <= native[x].capacity
                      /\ native[x].capacity <= native[x].allocationSize
                      /\ native[x].direction = "upload" => native[x].coherent
    BY DEF TransferFits
  <2>1. x \in Resources /\ native[x] # Destroyed
    BY HolderKinds DEF PoolInv, MemoryInv, MemoryTypes, ExclusiveOwner
  <2> QED BY <2>1 DEF PoolInv, MemoryInv, Existing, Requests
<1> QED BY <1>1, PoolInvariant, PTL

\* What readTransferMemory invalidates before it reads is always a valid range that
\* covers the bytes it delivers (transfer_memory.go:170).
THEOREM ReadsInvalidated == Spec => []ReadsAreInvalidated
<1>1. PoolInv => ReadsAreInvalidated
  <2> SUFFICES ASSUME PoolInv, NEW x \in filled
               PROVE  InvalidatesRead(
                        NonCoherentRange(0, requested[x], native[x].allocationSize, device.atom),
                        0, requested[x], native[x].allocationSize, device.atom)
    BY DEF ReadsAreInvalidated
  <2>1. PICK c \in Clients : x \in held[c]
    BY DEF PoolInv, MemoryInv, FilledHeld
  <2>2. x \in Resources /\ native[x] # Destroyed
    BY HolderKinds, <2>1 DEF PoolInv, MemoryInv, MemoryTypes, ExclusiveOwner
  <2>3. requested[x] <= native[x].capacity /\ native[x].capacity <= native[x].allocationSize
    BY <2>1, <2>2 DEF PoolInv, MemoryInv, Existing, Requests
  <2>4. /\ requested[x] \in Nat /\ native[x].allocationSize \in Nat /\ native[x].capacity \in Nat
        /\ device.atom \in Nat \ {0}
    BY <2>2, BoundsAssumption DEF PoolInv, MemoryInv, MemoryTypes, Kinds
  <2>5. 0 \in Nat /\ 0 + requested[x] <= native[x].allocationSize
    BY <2>3, <2>4
  <2> QED BY <2>4, <2>5, RangeIsInvalidated
<1> QED BY <1>1, PoolInvariant, PTL

\* UploadAt writes its staging memory before it may be refused the queue, and still
\* never meets a transfer of its own in flight, but after a lost completion (buffer.go:227).
THEOREM HostWritesAreSafe == Spec => HostWritesIdleMemory
<1>1. PoolInv => [\A b \in Buffers : pc[b] = "open" /\ pc'[b] = "upload" /\ ~submissionErr =>
                      Staging(b, "upload") \cap inFlight[b] = {}]_vars
  BY DEF PoolInv, PhaseInv, Quiet
<1> QED BY <1>1, PoolInvariant, PTL DEF HostWritesIdleMemory

\* Device.Close frees every transfer resource, wherever the recorders and buffers were
\* (device.go:402, transfer_pool.go:69).
THEOREM CloseFrees == Spec => []CloseFreesAll
<1>1. PoolInv => CloseFreesAll
  BY HolderKinds DEF PoolInv, PhaseInv, Closing, Ended, MemoryInv, ExclusiveOwner, CloseFreesAll
<1> QED BY <1>1, PoolInvariant, PTL

----------------------------------------------------------------------------
(* The account.  AccountInv is apart from PoolInv, which says nothing of        *)
(* idleTransferBytes: the idle resources are those of the two directions, which *)
(* ExclusiveOwner keeps apart, and what a client does to its own resources does *)
(* not change theirs.                                                           *)
Bytes(sizes, xs) == UNION {{x} \X (1..sizes[x].allocationSize) : x \in xs}

AccountInv ==
    /\ submissionErr \in BOOLEAN /\ notReusable \subseteq Resources
    /\ IsFiniteSet(Idle) /\ IsFiniteSet(IdleBytes) /\ PoolAccount

\* One resource more, or less, and its bytes.
LEMMA OneMore ==
    ASSUME NEW sizes \in [Resources -> Kinds], NEW xs \in SUBSET Resources,
           NEW x \in Resources, x \notin xs
    PROVE  /\ IsFiniteSet(Bytes(sizes, xs)) <=> IsFiniteSet(Bytes(sizes, xs \cup {x}))
           /\ IsFiniteSet(Bytes(sizes, xs)) =>
                 /\ Cardinality(Bytes(sizes, xs)) \in Nat
                 /\ Cardinality(Bytes(sizes, xs \cup {x}))
                       = Cardinality(Bytes(sizes, xs)) + sizes[x].allocationSize
<1> DEFINE n == sizes[x].allocationSize
           Own == {x} \X (1..n)
<1>1. n \in Nat
  BY DEF Kinds
<1>2. Bytes(sizes, xs \cup {x}) = Bytes(sizes, xs) \cup Own
  BY DEF Bytes
<1>3. Bytes(sizes, xs) \cap Own = {}
  <2> SUFFICES ASSUME NEW e \in Bytes(sizes, xs), e \in Own PROVE FALSE
    OBVIOUS
  <2>1. PICK y \in xs : e \in {y} \X (1..sizes[y].allocationSize)
    BY DEF Bytes
  <2>2. e[1] = y /\ e[1] = x
    BY <2>1
  <2> QED BY <2>2
<1> HIDE DEF n
<1>4. IsFiniteSet(Own) /\ Cardinality(Own) = n
  <2>1. IsFiniteSet({x}) /\ Cardinality({x}) = 1
    BY FS_Singleton
  <2>2. IsFiniteSet(1..n) /\ Cardinality(1..n) = n
    <3>1. 1 \in Int /\ n \in Int
      BY <1>1
    <3>2. IsFiniteSet(1..n) /\ Cardinality(1..n) = IF 1 > n THEN 0 ELSE n - 1 + 1
      BY <3>1, FS_Interval
    <3> QED BY <1>1, <3>2
  <2>3. IsFiniteSet(Own) /\ Cardinality(Own) = Cardinality({x}) * Cardinality(1..n)
    BY <2>1, <2>2, FS_Product
  <2> QED BY <1>1, <2>1, <2>2, <2>3
<1> HIDE DEF Own
<1>5. ASSUME IsFiniteSet(Bytes(sizes, xs))
      PROVE  /\ IsFiniteSet(Bytes(sizes, xs \cup {x}))
             /\ Cardinality(Bytes(sizes, xs)) \in Nat
             /\ Cardinality(Bytes(sizes, xs \cup {x})) = Cardinality(Bytes(sizes, xs)) + n
  <2>1. /\ IsFiniteSet(Bytes(sizes, xs) \cup Own)
        /\ Cardinality(Bytes(sizes, xs) \cup Own)
              = Cardinality(Bytes(sizes, xs)) + Cardinality(Own) - Cardinality({})
    BY <1>3, <1>4, <1>5, FS_Union
  <2>2. Cardinality(Bytes(sizes, xs)) \in Nat
    BY <1>5, FS_CardinalityType
  <2>3. Cardinality({}) = 0
    BY FS_EmptySet
  <2>4. Cardinality(Bytes(sizes, xs) \cup Own) = Cardinality(Bytes(sizes, xs)) + n
    BY ONLY <1>1, <1>4, <2>1, <2>2, <2>3
  <2> QED BY <1>2, <2>1, <2>2, <2>4
<1>6. IsFiniteSet(Bytes(sizes, xs \cup {x})) => IsFiniteSet(Bytes(sizes, xs))
  <2>1. Bytes(sizes, xs) \in SUBSET Bytes(sizes, xs \cup {x})
    BY <1>2
  <2> QED BY <2>1, FS_Subset
<1> QED BY <1>5, <1>6 DEF n

\* What an idle set retains depends on its resources only.
LEMMA SameBytes ==
    ASSUME NEW old, NEW new, NEW xs, \A x \in xs : new[x] = old[x]
    PROVE  Bytes(new, xs) = Bytes(old, xs)
BY DEF Bytes

\* The bytes of the idle resources, now and after a step.
LEMMA IdleBytesAre == IdleBytes = Bytes(native, Idle)
BY DEF IdleBytes, Bytes, RetainedSize

LEMMA IdleBytesWillBe == IdleBytes' = Bytes(native', Idle')
BY DEF IdleBytes, Bytes, RetainedSize, Idle

\* What is idle is no client's, and the two directions have nothing in common.
LEMMA IdleIsApart ==
    ASSUME MemoryInv
    PROVE  /\ Idle \in SUBSET Resources
           /\ \A c \in Clients : \A x \in held[c] : x \notin Idle
           /\ \A x \in Idle : native[x] # Destroyed
           /\ held["upload"] \cap held["download"] = {}
           /\ \A d \in Directions : held[d] \subseteq Idle
BY HolderKinds DEF MemoryInv, MemoryTypes, ExclusiveOwner, Idle, Directions

\* The steps that leave the idle resources alone.
LEMMA AccountUntouched ==
    ASSUME MemoryInv, AccountInv, UNCHANGED idleTransferBytes,
           \A d \in Directions : held'[d] = held[d],
           \A x \in Idle : native'[x] = native[x],
           submissionErr' \in BOOLEAN, notReusable' \subseteq Resources
    PROVE  AccountInv'
<1>1. Idle' = Idle
  BY DEF Idle, Directions
<1>2. IdleBytes' = IdleBytes
  BY <1>1, SameBytes, IdleBytesAre, IdleBytesWillBe
<1> QED BY <1>1, <1>2 DEF AccountInv, PoolAccount

\* acquireTransfer takes what it takes off the account.
LEMMA AcquireKeepsAccount ==
    ASSUME MemoryInv, AccountInv, NEW c \in Recorders, NEW direction \in Directions, NEW size \in Sizes,
           NEW x \in Resources, AcquireTransfer(c, direction, size, x), UNCHANGED <<submissionErr, notReusable>>
    PROVE  AccountInv'
<1> USE HolderKinds
<1>0. size \in Nat \ {0} /\ MaxIdleTransferResources \in Nat /\ MaxIdleTransferBytes \in Nat
  BY BoundsAssumption
<1>1. \/ x \in BestFit(direction, size) /\ TakeIdle(c, direction, x) /\ UNCHANGED native
      \/ /\ Create(x, direction, size)
         /\ held' = [held EXCEPT ![c] = @ \cup {x}]
         /\ UNCHANGED idleTransferBytes
  BY DEF AcquireTransfer
<1>2. CASE x \in BestFit(direction, size) /\ TakeIdle(c, direction, x) /\ UNCHANGED native
  <2> DEFINE rest == Idle \ {x}
  <2>1. x \in held[direction] /\ x \in Idle
    BY <1>2, IdleIsApart DEF BestFit
  <2>2. /\ held'[direction] = held[direction] \ {x}
        /\ \A h \in Directions : h # direction => held'[h] = held[h]
    BY <1>2 DEF TakeIdle, MemoryInv, MemoryTypes
  <2>3. Idle' = rest
    BY <2>1, <2>2, IdleIsApart DEF Idle, Directions
  <2>4. rest \cup {x} = Idle /\ rest \in SUBSET Resources /\ x \notin rest
    BY <2>1, IdleIsApart
  <2> HIDE DEF rest
  <2>5. /\ IsFiniteSet(Bytes(native, rest)) /\ Cardinality(Bytes(native, rest)) \in Nat
        /\ Cardinality(IdleBytes) = Cardinality(Bytes(native, rest)) + native[x].allocationSize
    <3>1. native \in [Resources -> Kinds] /\ IsFiniteSet(Bytes(native, rest \cup {x}))
      BY <2>4, IdleBytesAre DEF AccountInv, MemoryInv, MemoryTypes
    <3> QED BY <2>4, <3>1, OneMore, IdleBytesAre
  <2>6. IdleBytes' = Bytes(native, rest)
    BY <1>2, <2>3, IdleBytesWillBe
  <2>7. IsFiniteSet(rest) /\ Cardinality(rest) <= Cardinality(Idle) /\ Cardinality(rest) \in Nat
        /\ Cardinality(Idle) \in Nat
    <3>1. rest \in SUBSET Idle /\ IsFiniteSet(Idle)
      BY <2>4 DEF AccountInv
    <3> QED BY <3>1, FS_Subset, FS_CardinalityType
  <2>8. native[x].allocationSize \in Nat /\ idleTransferBytes' = idleTransferBytes - native[x].allocationSize
    BY <1>2 DEF MemoryInv, MemoryTypes, Kinds, TakeIdle, RetainedSize
  <2>9. Cardinality(rest) <= MaxIdleTransferResources
    BY <1>0, <2>7 DEF AccountInv, PoolAccount
  <2>10. idleTransferBytes' = Cardinality(IdleBytes') /\ idleTransferBytes' <= MaxIdleTransferBytes
    BY <1>0, <2>5, <2>6, <2>8 DEF AccountInv, PoolAccount
  <2> QED BY <2>3, <2>5, <2>6, <2>7, <2>9, <2>10 DEF AccountInv, PoolAccount
<1>3. CASE Create(x, direction, size) /\ held' = [held EXCEPT ![c] = @ \cup {x}] /\ UNCHANGED idleTransferBytes
  <2>1. native[x] = Destroyed /\ \A y \in Resources : y # x => native'[y] = native[y]
    BY <1>0, <1>3, Created DEF MemoryInv
  <2>2. \A y \in Idle : native'[y] = native[y]
    BY <2>1, IdleIsApart
  <2>3. \A d \in Directions : held'[d] = held[d]
    BY <1>3 DEF MemoryInv, MemoryTypes
  <2> QED BY <1>3, <2>2, <2>3, AccountUntouched DEF AccountInv
<1> QED BY <1>1, <1>2, <1>3

\* releaseTransfer adds what it keeps, inside both limits, and nothing else.
LEMMA ReleaseKeepsAccount ==
    ASSUME MemoryInv, AccountInv, NEW c \in Recorders, NEW x \in held[c],
           ReleaseTransfer(c, x) \/ DiscardTransfer(c, x),
           submissionErr' \in BOOLEAN, notReusable' \subseteq Resources
    PROVE  AccountInv'
<1> USE HolderKinds
<1>1. x \in Resources /\ native[x] # Destroyed /\ x \notin Idle
  BY IdleIsApart DEF MemoryInv, MemoryTypes, ExclusiveOwner
<1>2. native[x].direction \in Directions /\ native[x].allocationSize \in Nat
  BY <1>1 DEF MemoryInv, MemoryTypes, Kinds, Existing
<1>3. CASE /\ Keeps(x)
           /\ held' = [held EXCEPT ![c] = @ \ {x}, ![native[x].direction] = @ \cup {x}]
           /\ idleTransferBytes' = idleTransferBytes + RetainedSize(x)
           /\ UNCHANGED native
  <2> DEFINE d == native[x].direction
  <2>1. held'[d] = held[d] \cup {x} /\ \A h \in Directions : h # d => held'[h] = held[h]
    BY <1>2, <1>3 DEF MemoryInv, MemoryTypes
  <2>2. Idle' = Idle \cup {x}
    BY <1>2, <2>1 DEF Idle, Directions
  <2>3. /\ IsFiniteSet(Idle \cup {x}) /\ Cardinality(Idle \cup {x}) = Cardinality(Idle) + 1
        /\ Cardinality(Idle) \in Nat
    BY <1>1, FS_AddElement, FS_CardinalityType DEF AccountInv
  <2>4. Cardinality(Idle) = Cardinality(held["upload"]) + Cardinality(held["download"])
    <3>1. IsFiniteSet(held["upload"]) /\ IsFiniteSet(held["download"])
      <4>1. held["upload"] \in SUBSET Idle /\ held["download"] \in SUBSET Idle /\ IsFiniteSet(Idle)
        BY DEF Idle, AccountInv
      <4> QED BY <4>1, FS_Subset
    <3>2. Cardinality(held["upload"]) \in Nat /\ Cardinality(held["download"]) \in Nat
      BY <3>1, FS_CardinalityType
    <3>3. Cardinality({}) = 0
      BY FS_EmptySet
    <3>4. Cardinality(held["upload"] \cup held["download"])
            = Cardinality(held["upload"]) + Cardinality(held["download"]) - Cardinality({})
      BY <3>1, FS_Union, IdleIsApart
    <3> QED BY <3>2, <3>3, <3>4 DEF Idle
  <2>5. Cardinality(Idle \cup {x}) <= MaxIdleTransferResources
    <3>1. Cardinality(held["upload"]) + Cardinality(held["download"]) < MaxIdleTransferResources
      BY <1>3 DEF Keeps
    <3> QED BY <2>3, <2>4, <3>1, BoundsAssumption
  <2>6. /\ IsFiniteSet(IdleBytes') /\ Cardinality(IdleBytes) \in Nat
        /\ Cardinality(IdleBytes') = Cardinality(IdleBytes) + native[x].allocationSize
    <3>1. /\ native \in [Resources -> Kinds] /\ Idle \in SUBSET Resources
          /\ IsFiniteSet(Bytes(native, Idle))
      BY IdleIsApart, IdleBytesAre DEF AccountInv, MemoryInv, MemoryTypes
    <3>2. /\ IsFiniteSet(Bytes(native, Idle \cup {x}))
          /\ Cardinality(Bytes(native, Idle)) \in Nat
          /\ Cardinality(Bytes(native, Idle \cup {x})) = Cardinality(Bytes(native, Idle)) + native[x].allocationSize
      BY <1>1, <3>1, OneMore
    <3>3. IdleBytes' = Bytes(native, Idle \cup {x})
      BY <1>3, <2>2, IdleBytesWillBe
    <3> QED BY <3>2, <3>3, IdleBytesAre
  <2>7. idleTransferBytes' = Cardinality(IdleBytes') /\ idleTransferBytes' <= MaxIdleTransferBytes
    <3>1. /\ idleTransferBytes <= MaxIdleTransferBytes - native[x].allocationSize
          /\ idleTransferBytes' = idleTransferBytes + native[x].allocationSize
      BY <1>3 DEF Keeps, RetainedSize
    <3> QED BY <1>2, <2>6, <3>1, BoundsAssumption DEF AccountInv, PoolAccount
  <2> QED BY <2>2, <2>3, <2>5, <2>6, <2>7 DEF AccountInv, PoolAccount
<1>4. CASE held' = [held EXCEPT ![c] = @ \ {x}] /\ Discard({x}) /\ UNCHANGED idleTransferBytes
  <2>1. \A y \in Idle : native'[y] = native[y]
    <3>1. {x} \in SUBSET Resources /\ MemoryTypes
      BY <1>1 DEF MemoryInv
    <3>2. \A y \in Resources : native'[y] = IF y \in {x} THEN Destroyed ELSE native[y]
      BY <1>4, <3>1, DiscardedSet
    <3> QED BY <1>1, <3>2, IdleIsApart
  <2>2. \A h \in Directions : held'[h] = held[h]
    BY <1>4 DEF MemoryInv, MemoryTypes
  <2> QED BY <1>4, <2>1, <2>2, AccountUntouched
<1> QED BY <1>3, <1>4 DEF ReleaseTransfer, DiscardTransfer

\* A buffer's own resources are not idle.
LEMMA BufferKeepsAccount ==
    ASSUME MemoryInv, AccountInv, NEW b \in Buffers, BufferStep(b)
    PROVE  AccountInv'
<1> USE HolderKinds
<1>1. UNCHANGED <<idleTransferBytes, notReusable>>
  BY DEF BufferStep, BeginTransfer, SubmitTransfer, FailTransfer, EndTransfer, CloseBuffer, CloseBufferFromDevice
<1>2. submissionErr' \in BOOLEAN
  BY DEF BufferStep, BeginTransfer, SubmitTransfer, FailTransfer, EndTransfer, CloseBuffer, CloseBufferFromDevice,
         MarkUnknown, AccountInv
<1>3. CASE UNCHANGED <<native, held>>
  BY <1>1, <1>2, <1>3, AccountUntouched DEF AccountInv
<1>4. ASSUME NEW x \in Resources, Create(x, "upload", BufferSize) \/ Create(x, "download", BufferSize),
             held' = [held EXCEPT ![b] = @ \cup {x}]
      PROVE  AccountInv'
  <2>1. native[x] = Destroyed /\ \A y \in Resources : y # x => native'[y] = native[y]
    BY <1>4, Created, BoundsAssumption DEF MemoryInv, Directions
  <2>2. \A y \in Idle : native'[y] = native[y]
    BY <2>1, IdleIsApart
  <2>3. \A d \in Directions : held'[d] = held[d]
    BY <1>4 DEF MemoryInv, MemoryTypes
  <2> QED BY <1>1, <1>2, <2>2, <2>3, AccountUntouched DEF AccountInv
<1>5. CASE CloseNative(b)
  <2>1. \A y \in Idle : native'[y] = native[y]
    <3>1. held[b] \in SUBSET Resources /\ MemoryTypes /\ Discard(held[b])
      BY <1>5 DEF CloseNative, MemoryInv, MemoryTypes
    <3>2. \A y \in Resources : native'[y] = IF y \in held[b] THEN Destroyed ELSE native[y]
      BY <3>1, DiscardedSet
    <3> QED BY <3>2, IdleIsApart
  <2>2. \A d \in Directions : held'[d] = held[d]
    BY <1>5 DEF CloseNative, MemoryInv, MemoryTypes
  <2> QED BY <1>1, <1>2, <2>1, <2>2, AccountUntouched DEF AccountInv
<1>6. ASSUME NEW direction \in Directions, NEW size \in Sizes, BeginTransfer(b, direction, size)
      PROVE  AccountInv'
  <2>1. \/ UNCHANGED <<native, held>>
        \/ \E x \in Resources : Create(x, direction, BufferSize) /\ held' = [held EXCEPT ![b] = @ \cup {x}]
    BY <1>6 DEF BeginTransfer
  <2> QED BY <1>3, <1>4, <2>1 DEF Directions
<1>7. CASE SubmitTransfer(b) \/ FailTransfer(b) \/ EndTransfer(b)
  BY <1>3, <1>7 DEF SubmitTransfer, FailTransfer, EndTransfer
<1>8. CASE CloseBuffer(b) \/ CloseBufferFromDevice(b)
  BY <1>5, <1>8 DEF CloseBuffer, CloseBufferFromDevice
<1> QED BY <1>6, <1>7, <1>8 DEF BufferStep

\* Recorders acquire, release and discard.
LEMMA RecorderKeepsAccount ==
    ASSUME MemoryInv, AccountInv, NEW r \in Recorders, RecorderStep(r)
    PROVE  AccountInv'
<1> USE HolderKinds
<1>1. submissionErr' \in BOOLEAN /\ notReusable' \subseteq Resources
  <2>1. submissionErr' \in BOOLEAN
    BY DEF RecorderStep, PrepareUpload, RecordDownload, RecordUpload, FailUpload, Submit, Abort, Observe, ReadDownload,
           EndRead, GiveUpTransfer, FinishRecorder, CloseRecorder, MarkUnknown, AccountInv
  <2>2. held[r] \subseteq Resources /\ notReusable \subseteq Resources
    BY DEF MemoryInv, MemoryTypes, AccountInv
  <2>3. CASE ReadDownload(r)
    <3>1. PICK x \in Unread(r) : notReusable' = notReusable \/ notReusable' = notReusable \cup {x}
      BY <2>3 DEF ReadDownload
    <3>2. x \in Resources
      BY <2>2 DEF Unread
    <3> QED BY <2>1, <2>2, <3>1, <3>2
  <2>4. CASE GiveUpTransfer(r)
    <3>1. \E x \in held[r] : notReusable' = notReusable \ {x}
      BY <2>4 DEF GiveUpTransfer
    <3> QED BY <2>1, <2>2, <3>1
  <2>5. CASE UNCHANGED notReusable
    BY <2>1, <2>2, <2>5
  <2>6. CASE \/ \E size \in Sizes : PrepareUpload(r, size) \/ RecordDownload(r, size)
             \/ RecordUpload(r) \/ FailUpload(r) \/ Submit(r) \/ Abort(r) \/ Observe(r)
             \/ EndRead(r) \/ FinishRecorder(r) \/ CloseRecorder(r)
    BY <2>5, <2>6 DEF PrepareUpload, RecordDownload, RecordUpload, FailUpload, Submit, Abort, Observe,
           EndRead, FinishRecorder, CloseRecorder
  <2> QED BY <2>1, <2>3, <2>4, <2>6 DEF RecorderStep
<1>2. ASSUME NEW size \in Sizes, PrepareUpload(r, size) \/ RecordDownload(r, size) PROVE AccountInv'
  <2>1. UNCHANGED <<submissionErr, notReusable>>
    BY <1>2 DEF PrepareUpload, RecordDownload
  <2>2. PICK x \in Resources : AcquireTransfer(r, "upload", size, x) \/ AcquireTransfer(r, "download", size, x)
    BY <1>2 DEF PrepareUpload, RecordDownload
  <2> QED BY <2>1, <2>2, AcquireKeepsAccount DEF Directions
<1>3. CASE FailUpload(r) \/ GiveUpTransfer(r)
  <2>1. PICK x \in held[r] : ReleaseTransfer(r, x) \/ DiscardTransfer(r, x)
    BY <1>3 DEF FailUpload, GiveUpTransfer
  <2> QED BY <1>1, <2>1, ReleaseKeepsAccount
<1>4. CASE UNCHANGED <<native, held, idleTransferBytes>>
  BY <1>1, <1>4, AccountUntouched
<1>5. CASE \/ RecordUpload(r) \/ Submit(r) \/ Abort(r) \/ Observe(r)
           \/ ReadDownload(r) \/ EndRead(r) \/ FinishRecorder(r) \/ CloseRecorder(r)
  BY <1>4, <1>5 DEF RecordUpload, Submit, Abort, Observe, ReadDownload, EndRead, FinishRecorder, CloseRecorder
<1> QED BY <1>2, <1>3, <1>5 DEF RecorderStep


\* Every step keeps the account; drainTransferPool empties it.
LEMMA AccountStep == MemoryInv /\ AccountInv /\ [Next]_vars => AccountInv'
<1> SUFFICES ASSUME MemoryInv, AccountInv, [Next]_vars PROVE AccountInv'
  OBVIOUS
<1>1. CASE (\E r \in Recorders : RecorderStep(r)) \/ \E b \in Buffers : BufferStep(b)
  BY <1>1, RecorderKeepsAccount, BufferKeepsAccount
<1>2. CASE UNCHANGED vars \/ StartClose \/ WaitIdle \/ \E c \in Clients : Complete(c)
  <2>1. UNCHANGED <<native, held, idleTransferBytes, submissionErr, notReusable>>
    BY <1>2 DEF vars, StartClose, WaitIdle, Complete
  <2> QED BY <2>1, AccountUntouched DEF AccountInv
<1>3. CASE DrainTransferPool
  <2>1. Idle' = {} /\ idleTransferBytes' = 0
    BY <1>3, HolderKinds DEF DrainTransferPool, Idle, Directions
  <2>2. IdleBytes' = {}
    BY <2>1, IdleBytesWillBe DEF Bytes
  <2>3. IsFiniteSet({}) /\ Cardinality({}) = 0
    BY FS_EmptySet
  <2>4. UNCHANGED <<submissionErr, notReusable>>
    BY <1>3 DEF DrainTransferPool
  <2> QED BY <2>1, <2>2, <2>3, <2>4, BoundsAssumption DEF AccountInv, PoolAccount
<1> QED BY <1>1, <1>2, <1>3 DEF Next

\* An empty pool retains nothing.
LEMMA AccountInit == Init => AccountInv
<1> SUFFICES ASSUME Init PROVE AccountInv
  OBVIOUS
<1>1. Idle = {} /\ IdleBytes = {}
  BY HolderKinds DEF Init, Idle, IdleBytes, Directions
<1>2. IsFiniteSet({}) /\ Cardinality({}) = 0
  BY FS_EmptySet
<1>3. Cardinality(Idle) = 0 /\ Cardinality(IdleBytes) = 0 /\ IsFiniteSet(Idle) /\ IsFiniteSet(IdleBytes)
  BY <1>1, <1>2
<1>4. idleTransferBytes = 0 /\ submissionErr \in BOOLEAN /\ notReusable \subseteq Resources
  BY DEF Init
<1> QED BY <1>3, <1>4, BoundsAssumption DEF AccountInv, PoolAccount

\* The two invariants give the types.
LEMMA InvGivesPoolTypes == PoolInv /\ AccountInv => TypeOK
<1> SUFFICES ASSUME PoolInv, AccountInv PROVE TypeOK
  OBVIOUS
<1>1. idleTransferBytes \in Nat
  BY FS_CardinalityType DEF AccountInv, PoolAccount
<1> QED BY <1>1 DEF TypeOK, PoolInv, MemoryInv, MemoryTypes, Kinds, PhaseInv, PhaseTypes, AccountInv

\* The invariant of the account.
LEMMA AccountInvariant == Spec => []AccountInv
<1>1. PoolInv => MemoryInv
  BY DEF PoolInv
<1> QED BY <1>1, PoolInvariant, AccountInit, AccountStep, PTL DEF Spec

\* The account of the idle list (transfer_pool.go) is exact on every path: what
\* acquireTransfer takes off is what releaseTransfer added, and both limits are kept.
THEOREM AccountIsExact == Spec => []PoolAccount
<1>1. AccountInv => PoolAccount
  BY DEF AccountInv
<1> QED BY <1>1, AccountInvariant, PTL

\* The variables keep their types; that the account is a natural number, which the
\* code's unsigned subtraction relies on (transfer_pool.go:32), needs that it is exact.
THEOREM PoolTypes == Spec => []TypeOK
  BY PoolInvariant, AccountInvariant, InvGivesPoolTypes, PTL

=============================================================================
