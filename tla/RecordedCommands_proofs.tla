----------------------- MODULE RecordedCommands_proofs ----------------------
(***************************************************************************)
(* Lemmas about the operators that RecordedCommands and MemoryDependencies *)
(* are built from: what a fold over a sequence and FlattenSeq compute,     *)
(* what joined and reversed sequences hold, and what barriers and commands *)
(* do to the accesses on a queue.                                          *)
(***************************************************************************)
EXTENDS RecordedCommands, Integers, FiniteSets, FiniteSetTheorems, SequenceTheorems,
        WellFoundedInduction, TLAPS

----------------------------------------------------------------------------
(* Folds over sequences, unrolled. *)

\* Induction up to n, for a set of numbers.
LEMMA SetInduction ==
    ASSUME NEW n \in Nat, NEW S, 0 \in S, \A k \in 1..n : k - 1 \in S => k \in S
    PROVE  0..n \subseteq S
<1> SUFFICES ASSUME NEW bad \in 0..n, bad \notin S
             PROVE  FALSE
  OBVIOUS
<1> DEFINE B == {k \in 0..n : k \notin S}
<1>1. PICK m \in B : \A k \in B : ~ (<<k, m>> \in OpToRel(<, Nat))
  <2>1. IsWellFoundedOn(OpToRel(<, Nat), Nat)
    BY NatLessThanWellFounded
  <2>2. B \subseteq Nat /\ B # {}
    OBVIOUS
  <2> QED BY <2>1, <2>2, WFMin
<1>2. \A k \in B : ~ (k < m)
  <2> TAKE k \in B
  <2>1. OpToRel(<, Nat) = {ss \in Nat \X Nat : ss[1] < ss[2]}
    BY DEF OpToRel
  <2>2. <<k, m>> \in Nat \X Nat /\ <<k, m>>[1] = k /\ <<k, m>>[2] = m
    OBVIOUS
  <2>3. <<k, m>> \notin {ss \in Nat \X Nat : ss[1] < ss[2]}
    BY <1>1, <2>1
  <2> QED BY <2>2, <2>3
<1>3. m # 0 /\ m - 1 \in 0..n /\ m \in 1..n
  OBVIOUS
<1>4. m - 1 \in S
  BY <1>2, <1>3
<1> QED BY <1>3, <1>4

\* A fold takes the last element first.
LEMMA MaxOfInterval ==
    ASSUME NEW k \in Nat, NEW s \in SUBSET (1..k), k \in s
    PROVE  Max(s) = k
<1>1. \A y \in s : k >= y
  OBVIOUS
<1>2. \A x \in s : (\A y \in s : x >= y) => x = k
  OBVIOUS
<1> QED BY <1>1, <1>2 DEF Max

\* The states of the queue while it runs a command of n touches.
CommandTrace(F, q, touches, by, n) ==
    /\ F[0] = q
    /\ \A k \in 1..n : F[k] = RunOne(F[k - 1], touches[k], by)
    /\ F[n] = RunCommand(q, touches, by)

LEMMA CommandFold ==
    ASSUME NEW q, NEW touches, NEW by, NEW n \in Nat, DOMAIN touches = 1..n
    PROVE  \E F : CommandTrace(F, q, touches, by, n)
<1> DEFINE Rhs(g, s) == IF s = {} THEN q ELSE RunOne(g[s \ {Max(s)}], touches[Max(s)], by)
           S == {k \in 0..n : \E g : g = [s \in SUBSET (1..k) |-> Rhs(g, s)]}
<1>1. 0 \in S
  <2> DEFINE g == [s \in SUBSET (1..0) |-> q]
  <2>1. \A s \in SUBSET (1..0) : s = {}
    OBVIOUS
  <2>2. g = [s \in SUBSET (1..0) |-> Rhs(g, s)]
    BY <2>1
  <2> HIDE DEF g
  <2>3. \E f : f = [s \in SUBSET (1..0) |-> Rhs(f, s)]
    BY <2>2
  <2>4. 0 \in 0..n
    OBVIOUS
  <2> QED BY <2>3, <2>4
<1>2. ASSUME NEW k \in 1..n, k - 1 \in S
      PROVE  k \in S
  <2>1. PICK g : g = [s \in SUBSET (1..(k - 1)) |-> Rhs(g, s)]
    BY <1>2
  <2> DEFINE h == [s \in SUBSET (1..k) |-> IF k \in s THEN RunOne(g[s \ {k}], touches[k], by) ELSE g[s]]
  <2>2. \A s \in SUBSET (1..(k - 1)) : g[s] = Rhs(g, s)
    BY <2>1
  <2>3. ASSUME NEW s \in SUBSET (1..k)
        PROVE  h[s] = Rhs(h, s)
    <3>1. CASE k \in s
      <4>1. Max(s) = k /\ s # {}
        BY <3>1, MaxOfInterval
      <4>2. s \ {k} \in SUBSET (1..k) /\ h[s \ {k}] = g[s \ {k}]
        OBVIOUS
      <4> QED BY <3>1, <4>1, <4>2
    <3>2. CASE k \notin s
      <4>1. s \in SUBSET (1..(k - 1)) /\ h[s] = g[s]
        BY <3>2
      <4>2. s \ {Max(s)} \in SUBSET (1..k) /\ h[s \ {Max(s)}] = g[s \ {Max(s)}]
        BY <3>2
      <4> QED BY <2>2, <4>1, <4>2
    <3> QED BY <3>1, <3>2
  <2>4. h = [s \in SUBSET (1..k) |-> Rhs(h, s)]
    BY <2>3
  <2> HIDE DEF h
  <2>5. \E f : f = [s \in SUBSET (1..k) |-> Rhs(f, s)]
    BY <2>4
  <2>6. k \in 0..n
    OBVIOUS
  <2> QED BY <2>5, <2>6
<1>3. n \in S
  <2> HIDE DEF S
  <2> QED BY <1>1, <1>2, SetInduction
<1>4. PICK g : /\ g = [s \in SUBSET (1..n) |-> Rhs(g, s)]
               /\ RunCommand(q, touches, by) = g[1..n]
  <2> DEFINE iter == CHOOSE g : g = [s \in SUBSET (1..n) |-> Rhs(g, s)]
  <2>1. iter = [s \in SUBSET (1..n) |-> Rhs(iter, s)]
    <3>1. \E g : g = [s \in SUBSET (1..n) |-> Rhs(g, s)]
      BY <1>3
    <3> QED BY <3>1
  <2>2. RunCommand(q, touches, by) = iter[1..n]
    BY DEF RunCommand, FoldLeft, MapThenFoldSet
  <2> QED BY <2>1, <2>2
<1> DEFINE F == [k \in 0..n |-> g[1..k]]
<1>5. F[0] = q
  <2>1. 1..0 = {}
    OBVIOUS
  <2> QED BY <1>4, <2>1
<1>6. ASSUME NEW k \in 1..n
      PROVE  F[k] = RunOne(F[k - 1], touches[k], by)
  <2>1. Max(1..k) = k
    BY MaxOfInterval
  <2>2. (1..k) \ {k} = 1..(k - 1)
    OBVIOUS
  <2>3. 1..k # {} /\ 1..k \in SUBSET (1..n)
    <3>1. k \in 1..k
      OBVIOUS
    <3>2. \A j \in 1..k : j \in 1..n
      OBVIOUS
    <3> QED BY <3>1, <3>2
  <2>4. g[1..k] = RunOne(g[1..(k - 1)], touches[k], by)
    BY <1>4, <2>1, <2>2, <2>3
  <2>5. F[k] = g[1..k] /\ F[k - 1] = g[1..(k - 1)]
    OBVIOUS
  <2> QED BY <2>4, <2>5
<1>7. F[n] = g[1..n]
  OBVIOUS
<1> HIDE DEF F
<1>8. CommandTrace(F, q, touches, by, n)
  BY <1>4, <1>5, <1>6, <1>7 DEF CommandTrace
<1> QED BY <1>8

\* The sequences that FlattenSeq builds on the way.
FlattenTrace(G, seqs, n) ==
    /\ \A k \in 1..n : G[k] = IF k = 1 THEN seqs[1] ELSE G[k - 1] \o seqs[k]
    /\ FlattenSeq(seqs) = G[n]

LEMMA FlattenFold ==
    ASSUME NEW seqs, NEW n \in Nat \ {0}, n = Len(seqs)
    PROVE  \E G : FlattenTrace(G, seqs, n)
<1> DEFINE Rhs(g, i) == IF i = 1 THEN seqs[i] ELSE g[i - 1] \o seqs[i]
           Good == {k \in 0..n : \E g : g = [i \in 1..k |-> Rhs(g, i)]}
<1>1. 0 \in Good
  <2> DEFINE g == [i \in 1..0 |-> << >>]
  <2>1. g = [i \in 1..0 |-> Rhs(g, i)]
    OBVIOUS
  <2> HIDE DEF g
  <2>2. \E f : f = [i \in 1..0 |-> Rhs(f, i)]
    BY <2>1
  <2>3. 0 \in 0..n
    OBVIOUS
  <2> QED BY <2>2, <2>3
<1>2. ASSUME NEW k \in 1..n, k - 1 \in Good
      PROVE  k \in Good
  <2>1. PICK g : g = [i \in 1..(k - 1) |-> Rhs(g, i)]
    BY <1>2
  <2> DEFINE h == [i \in 1..k |-> IF i = k THEN Rhs(g, k) ELSE g[i]]
  <2>2. ASSUME NEW i \in 1..k
        PROVE  h[i] = Rhs(h, i)
    <3>1. CASE i = k
      <4>1. i # 1 => h[i - 1] = g[i - 1]
        BY <3>1
      <4> QED BY <3>1, <4>1
    <3>2. CASE i # k
      <4>1. i \in 1..(k - 1) /\ h[i] = g[i] /\ (i # 1 => h[i - 1] = g[i - 1])
        BY <3>2
      <4>2. g[i] = Rhs(g, i)
        BY <2>1, <4>1
      <4> QED BY <4>1, <4>2
    <3> QED BY <3>1, <3>2
  <2>3. h = [i \in 1..k |-> Rhs(h, i)]
    BY <2>2
  <2> HIDE DEF h
  <2>4. \E f : f = [i \in 1..k |-> Rhs(f, i)]
    BY <2>3
  <2>5. k \in 0..n
    OBVIOUS
  <2> QED BY <2>4, <2>5
<1>3. n \in Good
  <2>1. n \in Nat /\ n \in 0..n
    OBVIOUS
  <2> HIDE DEF Good
  <2>2. 0..n \subseteq Good
    BY <2>1, <1>1, <1>2, SetInduction
  <2> QED BY <2>1, <2>2
<1> DEFINE flatten == CHOOSE g : g = [i \in 1..n |-> Rhs(g, i)]
<1>4. flatten = [i \in 1..n |-> Rhs(flatten, i)]
  <2>1. \E g : g = [i \in 1..n |-> Rhs(g, i)]
    BY <1>3
  <2> QED BY <2>1
<1>5. FlattenSeq(seqs) = flatten[n]
  BY DEF FlattenSeq
<1> HIDE DEF flatten
<1>6. FlattenTrace(flatten, seqs, n)
  BY <1>4, <1>5 DEF FlattenTrace
<1> QED BY <1>6

\* What several sequences flattened into one holds, is in one of them.
LEMMA FlattenedType ==
    ASSUME NEW S, NEW seqs \in Seq(Seq(S))
    PROVE  FlattenSeq(seqs) \in Seq(S)
<1> DEFINE n == Len(seqs)
<1>1. n \in Nat /\ \A i \in 1..n : seqs[i] \in Seq(S)
  OBVIOUS
<1>2. CASE n = 0
  BY <1>1, <1>2 DEF FlattenSeq
<1>3. CASE n > 0
  <2>1. n \in Nat \ {0} /\ n = Len(seqs)
    BY <1>1, <1>3
  <2> HIDE DEF n
  <2>2. PICK G : FlattenTrace(G, seqs, n)
    BY <2>1, FlattenFold
  <2> DEFINE Typed == {0} \cup {i \in 1..n : G[i] \in Seq(S)}
  <2>3. ASSUME NEW k \in 1..n, k - 1 \in Typed
        PROVE  k \in Typed
    <3>1. G[k] = IF k = 1 THEN seqs[1] ELSE G[k - 1] \o seqs[k]
      BY <2>2 DEF FlattenTrace
    <3>2. CASE k = 1
      BY <1>1, <3>1, <3>2
    <3>3. CASE k # 1
      <4>1. G[k - 1] \in Seq(S) /\ seqs[k] \in Seq(S)
        BY <1>1, <2>3, <3>3
      <4>2. G[k - 1] \o seqs[k] \in Seq(S)
        BY <4>1
      <4> QED BY <3>1, <3>3, <4>2
    <3> QED BY <3>2, <3>3
  <2>4. n \in Typed
    <3>1. 0 \in Typed /\ n \in 0..n
      BY <2>1
    <3> HIDE DEF Typed
    <3>2. 0..n \subseteq Typed
      BY <2>1, <2>3, <3>1, SetInduction
    <3> QED BY <3>1, <3>2
  <2>5. G[n] \in Seq(S) /\ FlattenSeq(seqs) = G[n]
    BY <2>1, <2>2, <2>4 DEF FlattenTrace
  <2> QED BY <2>5
<1> QED BY <1>1, <1>2, <1>3

----------------------------------------------------------------------------
(* Sequences: what they hold. *)

\* A function on 1..n is a sequence.
LEMMA FunctionIsSequence ==
    ASSUME NEW S, NEW n \in Nat, NEW f \in [1..n -> S]
    PROVE  f \in Seq(S)
OBVIOUS

\* Append to a sequence of one element.
LEMMA AppendToOne ==
    ASSUME NEW x, NEW y
    PROVE  Append(<<x>>, y) = <<x, y>>
<1> DEFINE S == {x, y}
<1>1. <<x>> \in Seq(S) /\ y \in S /\ Len(<<x>>) = 1
  OBVIOUS
<1>2. Append(<<x>>, y) \in Seq(S) /\ Len(Append(<<x>>, y)) = 2
  BY <1>1
<1>3. Append(<<x>>, y)[1] = x /\ Append(<<x>>, y)[2] = y
  BY <1>1
<1>4. <<x, y>> \in Seq(S) /\ Len(<<x, y>>) = 2
  OBVIOUS
<1>5. \A k \in 1..2 : Append(<<x>>, y)[k] = <<x, y>>[k]
  <2>1. 1..2 = {1, 2}
    OBVIOUS
  <2> QED BY <1>3, <2>1
<1> QED BY <1>2, <1>4, <1>5, SeqEqual

\* What two sequences hold together.
LEMMA RangeOfJoined ==
    ASSUME NEW S, NEW xs \in Seq(S), NEW ys \in Seq(S)
    PROVE  Range(xs \o ys) = Range(xs) \cup Range(ys)
<1>1. /\ Len(xs) \in Nat /\ Len(ys) \in Nat /\ DOMAIN xs = 1..Len(xs) /\ DOMAIN ys = 1..Len(ys)
      /\ DOMAIN (xs \o ys) = 1..(Len(xs) + Len(ys))
      /\ \A k \in 1..(Len(xs) + Len(ys)) :
            (xs \o ys)[k] = IF k <= Len(xs) THEN xs[k] ELSE ys[k - Len(xs)]
  OBVIOUS
<1>2. ASSUME NEW k \in DOMAIN xs
      PROVE  xs[k] \in Range(xs \o ys)
  <2>1. k \in DOMAIN (xs \o ys) /\ (xs \o ys)[k] = xs[k]
    BY <1>1
  <2> QED BY <2>1 DEF Range
<1>3. ASSUME NEW k \in DOMAIN ys
      PROVE  ys[k] \in Range(xs \o ys)
  <2>1. Len(xs) + k \in DOMAIN (xs \o ys) /\ (xs \o ys)[Len(xs) + k] = ys[k]
    BY <1>1
  <2> QED BY <2>1 DEF Range
<1>4. ASSUME NEW k \in DOMAIN (xs \o ys)
      PROVE  (xs \o ys)[k] \in Range(xs) \cup Range(ys)
  <2>1. CASE k <= Len(xs)
    BY <1>1, <2>1 DEF Range
  <2>2. CASE ~ (k <= Len(xs))
    <3>1. k - Len(xs) \in DOMAIN ys /\ (xs \o ys)[k] = ys[k - Len(xs)]
      BY <1>1, <2>2
    <3> QED BY <3>1 DEF Range
  <2> QED BY <2>1, <2>2
<1> QED BY <1>2, <1>3, <1>4 DEF Range

\* Several sequences flattened into one hold what each of them holds.
LEMMA FlattenedRange ==
    ASSUME NEW S, NEW seqs \in Seq(Seq(S)), NEW x
    PROVE  x \in Range(FlattenSeq(seqs)) <=> \E k \in 1..Len(seqs) : x \in Range(seqs[k])
<1> DEFINE n == Len(seqs)
<1>1. n \in Nat /\ \A i \in 1..n : seqs[i] \in Seq(S)
  OBVIOUS
<1>2. CASE n = 0
  <2>1. FlattenSeq(seqs) = << >>
    BY <1>1, <1>2 DEF FlattenSeq
  <2> QED BY <1>2, <2>1 DEF Range
<1>3. CASE n > 0
  <2>1. n \in Nat \ {0} /\ n = Len(seqs)
    BY <1>1, <1>3
  <2> HIDE DEF n
  <2>2. PICK G : FlattenTrace(G, seqs, n)
    BY <2>1, FlattenFold
  <2> DEFINE Good == {0} \cup {k \in 1..n : /\ G[k] \in Seq(S)
                                            /\ x \in Range(G[k]) <=> \E j \in 1..k : x \in Range(seqs[j])}
  <2>3. ASSUME NEW k \in 1..n, k - 1 \in Good
        PROVE  k \in Good
    <3>1. G[k] = IF k = 1 THEN seqs[1] ELSE G[k - 1] \o seqs[k]
      BY <2>2 DEF FlattenTrace
    <3>2. CASE k = 1
      <4>1. 1..k = {1} /\ seqs[1] \in Seq(S) /\ G[k] = seqs[1]
        BY <1>1, <3>1, <3>2
      <4> QED BY <4>1
    <3>3. CASE k # 1
      <4>1. /\ G[k - 1] \in Seq(S) /\ seqs[k] \in Seq(S)
            /\ x \in Range(G[k - 1]) <=> \E j \in 1..(k - 1) : x \in Range(seqs[j])
        BY <1>1, <2>3, <3>3
      <4>2. G[k - 1] \o seqs[k] \in Seq(S) /\ Range(G[k - 1] \o seqs[k]) = Range(G[k - 1]) \cup Range(seqs[k])
        BY <4>1, RangeOfJoined
      <4>3. (1..k) = (1..(k - 1)) \cup {k}
        OBVIOUS
      <4> QED BY <3>1, <3>3, <4>1, <4>2, <4>3
    <3> QED BY <3>2, <3>3
  <2>4. n \in Good
    <3>1. 0 \in Good /\ n \in 0..n
      BY <2>1
    <3> HIDE DEF Good
    <3>2. 0..n \subseteq Good
      BY <2>1, <2>3, <3>1, SetInduction
    <3> QED BY <3>1, <3>2
  <2>5. FlattenSeq(seqs) = G[n]
    BY <2>1, <2>2 DEF FlattenTrace
  <2> QED BY <2>1, <2>4, <2>5
<1> QED BY <1>1, <1>2, <1>3

\* A sequence from behind holds the same.
LEMMA ReversedSequence ==
    ASSUME NEW S, NEW xs \in Seq(S)
    PROVE  /\ Reverse(xs) \in Seq(S) /\ Range(Reverse(xs)) = Range(xs) /\ Len(Reverse(xs)) = Len(xs)
           /\ \A k \in 1..Len(xs) : Reverse(xs)[(Len(xs) - k) + 1] = xs[k]
<1> DEFINE n == Len(xs)
<1>1. n \in Nat /\ DOMAIN xs = 1..n /\ \A k \in 1..n : xs[k] \in S
  OBVIOUS
<1>2. Reverse(xs) = [k \in 1..n |-> xs[(n - k) + 1]]
  BY DEF Reverse
<1> HIDE DEF n
<1>3. \A k \in 1..n : (n - k) + 1 \in 1..n /\ (n - ((n - k) + 1)) + 1 = k
  BY <1>1
<1>4. Reverse(xs) \in [1..n -> S]
  BY <1>1, <1>2, <1>3
<1>5. Reverse(xs) \in Seq(S) /\ Len(Reverse(xs)) = n /\ DOMAIN Reverse(xs) = 1..n
  BY <1>1, <1>4
<1>6. \A k \in 1..n : Reverse(xs)[(n - k) + 1] = xs[k]
  BY <1>2, <1>3
<1>7. Range(Reverse(xs)) = Range(xs)
  <2>1. \A k \in 1..n : Reverse(xs)[k] \in Range(xs)
    BY <1>1, <1>2, <1>3 DEF Range
  <2>2. \A k \in 1..n : xs[k] \in Range(Reverse(xs))
    BY <1>3, <1>5, <1>6 DEF Range
  <2> QED BY <1>1, <1>5, <2>1, <2>2 DEF Range
<1> QED BY <1>5, <1>6, <1>7 DEF n

\* An element put behind a sequence is its last.
LEMMA OneBehind ==
    ASSUME NEW S, NEW xs \in Seq(S), NEW y \in S
    PROVE  /\ xs \o <<y>> \in Seq(S) /\ Len(xs) \in Nat /\ Len(xs \o <<y>>) = Len(xs) + 1
           /\ (xs \o <<y>>)[Len(xs) + 1] = y
OBVIOUS

----------------------------------------------------------------------------
(* The queue: what an access is after barriers and commands. *)

\* The stages and accesses of the barriers.
Names == {"compute", "transfer", "host",
          "shaderRead", "shaderWrite", "transferRead", "transferWrite", "hostRead"}

\* An access to memory B, and a queue of such accesses.
Accesses(B) ==
    [by : Nat, stage : Names, access : Names, buffer : B,
     after : SUBSET Names, available : BOOLEAN, visible : SUBSET Names]

Queues(B) == [past : SUBSET Accesses(B), races : SUBSET (Nat \X Nat)]

\* A barrier takes nothing from an access, and orders and shows what its scopes say.
LEMMA AfterBarrier ==
    ASSUME NEW B, NEW e \in Accesses(B), NEW d, NEW w, w = Waited(e, d),
           d.dstStages \in SUBSET Names, d.dstAccess \in SUBSET Names
    PROVE  /\ w \in Accesses(B)
           /\ w.by = e.by /\ w.stage = e.stage /\ w.access = e.access /\ w.buffer = e.buffer
           /\ e.after \subseteq w.after /\ e.visible \subseteq w.visible
           /\ e.available => w.available
           /\ e.stage \in d.srcStages \/ (\E s \in e.after : s \in d.srcStages) =>
                 /\ d.dstStages \subseteq w.after
                 /\ /\ e.buffer \in d.buffers
                    /\ e.available \/ (e.stage \in d.srcStages /\ e.access \in d.srcAccess)
                    => w.available /\ d.dstAccess \subseteq w.visible
<1> DEFINE mine == e.buffer \in d.buffers
           available == e.available \/ (mine /\ e.stage \in d.srcStages /\ e.access \in d.srcAccess)
<1>1. CASE e.stage \notin d.srcStages /\ e.after \cap d.srcStages = {}
  <2>1. w = e
    BY <1>1 DEF Waited
  <2> QED BY <1>1, <2>1
<1>2. CASE ~ (e.stage \notin d.srcStages /\ e.after \cap d.srcStages = {})
  <2>1. w = [e EXCEPT !.after = @ \cup d.dstStages, !.available = available,
                      !.visible = IF mine /\ available THEN @ \cup d.dstAccess ELSE @]
    BY <1>2 DEF Waited
  <2>2. available \in BOOLEAN
    BY DEF Accesses
  <2> HIDE DEF available, mine
  <2>3. /\ w.by = e.by /\ w.stage = e.stage /\ w.access = e.access /\ w.buffer = e.buffer
        /\ w.after = e.after \cup d.dstStages /\ w.available = available
        /\ w.visible = IF mine /\ available THEN e.visible \cup d.dstAccess ELSE e.visible
    BY <2>1 DEF Accesses
  <2>4. w \in Accesses(B)
    <3>1. /\ e.after \cup d.dstStages \in SUBSET Names
          /\ (IF mine /\ available THEN e.visible \cup d.dstAccess ELSE e.visible) \in SUBSET Names
      BY DEF Accesses
    <3> QED BY <2>1, <2>2, <3>1 DEF Accesses
  <2> USE DEF available, mine
  <2> QED BY <1>2, <2>3, <2>4
<1> QED BY <1>1, <1>2

LEMMA RunDependency ==
    ASSUME NEW B, NEW q \in Queues(B), NEW by \in Nat, NEW d, d.op = "dependency",
           d.dstStages \in SUBSET Names, d.dstAccess \in SUBSET Names
    PROVE  /\ RunOne(q, d, by) \in Queues(B)
           /\ RunOne(q, d, by).past = {Waited(e, d) : e \in q.past}
           /\ RunOne(q, d, by).races = q.races
<1>1. \A e \in q.past : Waited(e, d) \in Accesses(B)
  BY AfterBarrier DEF Queues
<1>2. RunOne(q, d, by) = [q EXCEPT !.past = {Waited(e, d) : e \in q.past}]
  BY DEF RunOne
<1> QED BY <1>1, <1>2 DEF Queues

LEMMA RunTouch ==
    ASSUME NEW B, NEW q \in Queues(B), NEW by \in Nat, NEW t, t.op = "touch",
           t.stage \in Names, t.access \in Names, t.buffer \in B
    PROVE  /\ RunOne(q, t, by) \in Queues(B)
           /\ RunOne(q, t, by).past = q.past \cup {Started(t, by)}
           /\ \A race \in RunOne(q, t, by).races :
                 race \in q.races \/ \E e \in q.past : race = <<e.by, by>> /\ e.by # by /\ MayOverlap(e, t)
<1>1. Started(t, by) \in Accesses(B)
  BY DEF Started, Accesses
<1>2. RunOne(q, t, by) = [past  |-> q.past \cup {Started(t, by)},
          races |-> q.races \cup {<<e.by, by>> : e \in {e \in q.past : e.by # by /\ MayOverlap(e, t)}}]
  BY DEF RunOne
<1>3. \A e \in q.past : <<e.by, by>> \in Nat \X Nat
  BY DEF Queues, Accesses
<1> QED BY <1>1, <1>2, <1>3 DEF Queues

\* Access w is access e, somewhat later.
Later(w, e) ==
    /\ w.by = e.by /\ w.stage = e.stage /\ w.access = e.access /\ w.buffer = e.buffer
    /\ e.after \subseteq w.after /\ e.visible \subseteq w.visible
    /\ e.available => w.available

\* The barriers of the recorder have stages and accesses.
IsBarrier(d) == d.op = "dependency" /\ d.dstStages \in SUBSET Names /\ d.dstAccess \in SUBSET Names

\* A barrier, an access and a barrier: Update and Upload.
RanTransfer(B, p, q, by, d1, t, d2) ==
    /\ p \in Queues(B)
    /\ \A w \in p.past : \/ w = Waited(Started(t, by), d2)
                         \/ \E e \in q.past : w = Waited(Waited(e, d1), d2)
    /\ \A race \in p.races :
          \/ race \in q.races
          \/ \E e \in q.past : race = <<Waited(e, d1).by, by>> /\ MayOverlap(Waited(e, d1), t)

LEMMA RunTransfer ==
    ASSUME NEW B, NEW q \in Queues(B), NEW by \in Nat, NEW d1, NEW t, NEW d2, IsBarrier(d1), IsBarrier(d2),
           t.op = "touch", t.stage \in Names, t.access \in Names, t.buffer \in B
    PROVE  RanTransfer(B, RunCommand(q, <<d1, t, d2>>, by), q, by, d1, t, d2)
<1> DEFINE touches == <<d1, t, d2>>
           n == 3
           p == RunCommand(q, touches, by)
           q1 == RunOne(q, d1, by)
           q2 == RunOne(q1, t, by)
           q3 == RunOne(q2, d2, by)
<1>1. n \in Nat /\ DOMAIN touches = 1..n /\ touches[1] = d1 /\ touches[2] = t /\ touches[3] = d2
  OBVIOUS
<1> HIDE DEF touches, n
<1>2. PICK F : CommandTrace(F, q, touches, by, n)
  BY <1>1, CommandFold
<1>3. p = RunCommand(q, touches, by)
  OBVIOUS
<1> HIDE DEF p, q1, q2, q3
<1>4. q1 \in Queues(B) /\ q1.past = {Waited(e, d1) : e \in q.past} /\ q1.races = q.races
  BY RunDependency DEF q1, IsBarrier
<1>5. /\ q2 \in Queues(B) /\ q2.past = q1.past \cup {Started(t, by)}
      /\ \A race \in q2.races :
            race \in q1.races \/ \E e \in q1.past : race = <<e.by, by>> /\ e.by # by /\ MayOverlap(e, t)
  <2>1. q1 \in Queues(B)
    BY <1>4
  <2> QED BY <2>1, RunTouch DEF q2
<1>6. q3 \in Queues(B) /\ q3.past = {Waited(e, d2) : e \in q2.past} /\ q3.races = q2.races
  <2>1. q2 \in Queues(B)
    BY <1>5
  <2> QED BY <2>1, RunDependency DEF q3, IsBarrier
<1>7. p = q3
  <2>1. n = 3 /\ 1 \in 1..n /\ 2 \in 1..n /\ 3 \in 1..n /\ 1 - 1 = 0 /\ 2 - 1 = 1 /\ 3 - 1 = 2
    BY DEF n
  <2>2. F[1] = q1 /\ F[2] = RunOne(F[1], t, by) /\ F[3] = RunOne(F[2], d2, by)
    BY <1>1, <1>2, <2>1 DEF q1, CommandTrace
  <2> QED BY <1>3, <1>2, <2>1, <2>2 DEF q2, q3, CommandTrace
<1>8. ASSUME NEW w \in p.past
      PROVE  w = Waited(Started(t, by), d2) \/ \E e \in q.past : w = Waited(Waited(e, d1), d2)
  BY <1>4, <1>5, <1>6, <1>7
<1>9. ASSUME NEW race \in p.races
      PROVE  race \in q.races \/ \E e \in q.past : race = <<Waited(e, d1).by, by>> /\ MayOverlap(Waited(e, d1), t)
  BY <1>4, <1>5, <1>6, <1>7
<1>10. RanTransfer(B, p, q, by, d1, t, d2)
  BY <1>6, <1>7, <1>8, <1>9 DEF RanTransfer
<1> QED BY <1>10 DEF p, touches

LEMMA BarrierGrows ==
    ASSUME NEW B, NEW e \in Accesses(B), NEW d, IsBarrier(d), NEW w, w = Waited(e, d)
    PROVE  w \in Accesses(B) /\ Later(w, e)
BY AfterBarrier DEF IsBarrier, Later

\* A barrier that an access is before holds back its destination stages.
LEMMA BarrierOrders ==
    ASSUME NEW B, NEW e \in Accesses(B), NEW d, IsBarrier(d), NEW w, w = Waited(e, d),
           e.stage \in d.srcStages \/ (\E s \in e.after : s \in d.srcStages)
    PROVE  d.dstStages \subseteq w.after
BY AfterBarrier DEF IsBarrier

\* It shows them what it makes available.
LEMMA BarrierShows ==
    ASSUME NEW B, NEW e \in Accesses(B), NEW d, IsBarrier(d), NEW w, w = Waited(e, d),
           e.stage \in d.srcStages \/ (\E s \in e.after : s \in d.srcStages),
           e.buffer \in d.buffers,
           e.available \/ (e.stage \in d.srcStages /\ e.access \in d.srcAccess)
    PROVE  w.available /\ d.dstAccess \subseteq w.visible
BY AfterBarrier DEF IsBarrier

LEMMA LaterTwice ==
    ASSUME NEW u, NEW v, NEW w, Later(v, u), Later(w, v)
    PROVE  Later(w, u)
BY DEF Later

\* A barrier, two accesses and a barrier: Download.
RanDownload(B, p, q, by, d1, t1, t2, d2) ==
    /\ p \in Queues(B)
    /\ \A w \in p.past : \/ w = Waited(Started(t1, by), d2)
                         \/ w = Waited(Started(t2, by), d2)
                         \/ \E e \in q.past : w = Waited(Waited(e, d1), d2)
    /\ \A race \in p.races :
          \/ race \in q.races
          \/ \E e \in q.past : MayOverlap(Waited(e, d1), t1) \/ MayOverlap(Waited(e, d1), t2)

LEMMA RunDownload ==
    ASSUME NEW B, NEW q \in Queues(B), NEW by \in Nat, NEW d1, NEW t1, NEW t2, NEW d2, IsBarrier(d1), IsBarrier(d2),
           t1.op = "touch", t1.stage \in Names, t1.access \in Names, t1.buffer \in B,
           t2.op = "touch", t2.stage \in Names, t2.access \in Names, t2.buffer \in B
    PROVE  RanDownload(B, RunCommand(q, <<d1, t1, t2, d2>>, by), q, by, d1, t1, t2, d2)
<1> DEFINE touches == <<d1, t1, t2, d2>>
           n == 4
           p == RunCommand(q, touches, by)
           q1 == RunOne(q, d1, by)
           q2 == RunOne(q1, t1, by)
           q3 == RunOne(q2, t2, by)
           q4 == RunOne(q3, d2, by)
<1>1. /\ n \in Nat /\ DOMAIN touches = 1..n
      /\ touches[1] = d1 /\ touches[2] = t1 /\ touches[3] = t2 /\ touches[4] = d2
  OBVIOUS
<1> HIDE DEF touches, n
<1>2. PICK F : CommandTrace(F, q, touches, by, n)
  BY <1>1, CommandFold
<1>3. p = RunCommand(q, touches, by)
  OBVIOUS
<1> HIDE DEF p, q1, q2, q3, q4
<1>4. q1 \in Queues(B) /\ q1.past = {Waited(e, d1) : e \in q.past} /\ q1.races = q.races
  BY RunDependency DEF q1, IsBarrier
<1>5. /\ q2 \in Queues(B) /\ q2.past = q1.past \cup {Started(t1, by)}
      /\ \A race \in q2.races :
            race \in q1.races \/ \E e \in q1.past : race = <<e.by, by>> /\ e.by # by /\ MayOverlap(e, t1)
  <2>1. q1 \in Queues(B)
    BY <1>4
  <2> QED BY <2>1, RunTouch DEF q2
<1>6. /\ q3 \in Queues(B) /\ q3.past = q2.past \cup {Started(t2, by)}
      /\ \A race \in q3.races :
            race \in q2.races \/ \E e \in q2.past : race = <<e.by, by>> /\ e.by # by /\ MayOverlap(e, t2)
  <2>1. q2 \in Queues(B)
    BY <1>5
  <2> QED BY <2>1, RunTouch DEF q3
<1>7. q4 \in Queues(B) /\ q4.past = {Waited(e, d2) : e \in q3.past} /\ q4.races = q3.races
  BY <1>6, RunDependency DEF q4, IsBarrier
<1>8. p = q4
  <2>1. /\ n = 4 /\ 1 \in 1..n /\ 2 \in 1..n /\ 3 \in 1..n /\ 4 \in 1..n
        /\ 1 - 1 = 0 /\ 2 - 1 = 1 /\ 3 - 1 = 2 /\ 4 - 1 = 3
    BY DEF n
  <2>2. /\ F[1] = q1 /\ F[2] = RunOne(F[1], t1, by) /\ F[3] = RunOne(F[2], t2, by)
        /\ F[4] = RunOne(F[3], d2, by)
    BY <1>1, <1>2, <2>1 DEF q1, CommandTrace
  <2> QED BY <1>2, <1>3, <2>1, <2>2 DEF q2, q3, q4, CommandTrace
<1>9. ASSUME NEW w \in p.past
      PROVE  \/ w = Waited(Started(t1, by), d2)
             \/ w = Waited(Started(t2, by), d2)
             \/ \E e \in q.past : w = Waited(Waited(e, d1), d2)
  BY <1>4, <1>5, <1>6, <1>7, <1>8
<1>10. Started(t1, by).by = by
  BY DEF Started
<1>11. ASSUME NEW race \in p.races
       PROVE  \/ race \in q.races
              \/ \E e \in q.past : MayOverlap(Waited(e, d1), t1) \/ MayOverlap(Waited(e, d1), t2)
  BY <1>4, <1>5, <1>6, <1>7, <1>8, <1>10
<1>12. RanDownload(B, p, q, by, d1, t1, t2, d2)
  BY <1>7, <1>8, <1>9, <1>11 DEF RanDownload
<1> QED BY <1>12 DEF p, touches

----------------------------------------------------------------------------
\* The queue while command n, which only has touches ts, runs.
Dispatching(B, x, q, ts, n) ==
    /\ x \in Queues(B)
    /\ \A w \in x.past : w \in q.past \/ \E t \in ts : w = Started(t, n)
    /\ \A race \in x.races :
          race \in q.races \/ \E e \in q.past, t \in ts : race = <<e.by, n>> /\ MayOverlap(e, t)

\* An access that a command can start.
IsTouch(B, t) == t.op = "touch" /\ t.stage \in Names /\ t.access \in Names /\ t.buffer \in B

LEMMA DispatchTouch ==
    ASSUME NEW B, NEW q, NEW ts, NEW n \in Nat, NEW x, Dispatching(B, x, q, ts, n), NEW t \in ts, IsTouch(B, t)
    PROVE  Dispatching(B, RunOne(x, t, n), q, ts, n)
<1> DEFINE y == RunOne(x, t, n)
<1>1. x \in Queues(B)
  BY DEF Dispatching
<1>2. /\ y \in Queues(B) /\ y.past = x.past \cup {Started(t, n)}
      /\ \A race \in y.races :
            race \in x.races \/ \E e \in x.past : race = <<e.by, n>> /\ e.by # n /\ MayOverlap(e, t)
  BY <1>1, RunTouch DEF IsTouch
<1>3. \A s : Started(s, n).by = n
  BY DEF Started
<1> HIDE DEF y
<1>4. Dispatching(B, y, q, ts, n)
  BY <1>2, <1>3 DEF Dispatching
<1> QED BY <1>4 DEF y

LEMMA RunTouches ==
    ASSUME NEW B, NEW touches, NEW m \in Nat, DOMAIN touches = 1..m, NEW n \in Nat, NEW q \in Queues(B),
           NEW ts, \A k \in 1..m : touches[k] \in ts /\ IsTouch(B, touches[k])
    PROVE  Dispatching(B, RunCommand(q, touches, n), q, ts, n)
<1> DEFINE p == RunCommand(q, touches, n)
<1>1. PICK F : CommandTrace(F, q, touches, n, m)
  BY CommandFold
<1> DEFINE Good == {k \in 0..m : Dispatching(B, F[k], q, ts, n)}
<1>2. 0 \in Good
  BY <1>1 DEF Dispatching, CommandTrace
<1>3. ASSUME NEW k \in 1..m, k - 1 \in Good
      PROVE  k \in Good
  <2>1. Dispatching(B, F[k - 1], q, ts, n) /\ F[k] = RunOne(F[k - 1], touches[k], n)
    BY <1>1, <1>3 DEF CommandTrace
  <2>2. touches[k] \in ts /\ IsTouch(B, touches[k])
    OBVIOUS
  <2>3. Dispatching(B, F[k], q, ts, n)
    BY <2>1, <2>2, DispatchTouch
  <2> QED BY <2>3
<1>4. m \in Good
  <2>1. m \in 0..m
    OBVIOUS
  <2> HIDE DEF Good
  <2>2. 0..m \subseteq Good
    BY <1>2, <1>3, SetInduction
  <2> QED BY <2>1, <2>2
<1>5. Dispatching(B, p, q, ts, n)
  BY <1>1, <1>4 DEF CommandTrace
<1> QED BY <1>5

\* The order of SetToSeq is of no interest here, only that it is one.
LEMMA OrderOfSet ==
    ASSUME NEW xs, IsFiniteSet(xs)
    PROVE  Cardinality(xs) \in Nat /\ SetToSeq(xs) \in [1..Cardinality(xs) -> xs]
<1>1. PICK f : f \in Bijection(1..Cardinality(xs), xs)
  BY FS_CardinalityType DEF ExistsBijection
<1>2. f \in [1..Cardinality(xs) -> xs] /\ IsInjective(f)
  BY <1>1 DEF Bijection, Injection
<1>3. SetToSeq(xs) \in [1..Cardinality(xs) -> xs]
  BY <1>2 DEF SetToSeq
<1> QED BY <1>3, FS_CardinalityType

\* One touch for each of finitely many buffers.
LEMMA TouchesAreFinite ==
    ASSUME NEW stage, NEW access, NEW bs, IsFiniteSet(bs)
    PROVE  IsFiniteSet({Touch(stage, access, b) : b \in bs})
<1> DEFINE touches == {Touch(stage, access, b) : b \in bs}
           f == [b \in bs |-> Touch(stage, access, b)]
<1>1. f \in Surjection(bs, touches)
  <2>1. f \in [bs -> touches]
    OBVIOUS
  <2>2. \A t \in touches : \E b \in bs : f[b] = t
    OBVIOUS
  <2> QED BY <2>1, <2>2 DEF Surjection
<1> QED BY <1>1, FS_Surjection

\* A kernel touches the buffers of its binding set, as they are bound.
LEMMA KernelTouches ==
    ASSUME NEW read, IsFiniteSet(read), NEW written, IsFiniteSet(written)
    PROVE  /\ \E n \in Nat : DOMAIN DispatchKernel(read, written) = 1..n
           /\ \A t \in Range(DispatchKernel(read, written)) :
                 /\ t.op = "touch" /\ t.stage = "compute"
                 /\ \/ t.access = "shaderRead" /\ t.buffer \in read \cup written
                    \/ t.access = "shaderWrite" /\ t.buffer \in written
<1> DEFINE all == {Touch("compute", "shaderRead", b) : b \in read \cup written}
                    \cup {Touch("compute", "shaderWrite", b) : b \in written}
<1>1. IsFiniteSet(all)
  <2>1. IsFiniteSet({Touch("compute", "shaderRead", b) : b \in read \cup written})
    <3>1. IsFiniteSet(read \cup written)
      BY FS_Union
    <3> QED BY <3>1, TouchesAreFinite
  <2>2. IsFiniteSet({Touch("compute", "shaderWrite", b) : b \in written})
    BY TouchesAreFinite
  <2> QED BY <2>1, <2>2, FS_Union
<1>2. Cardinality(all) \in Nat /\ DispatchKernel(read, written) \in [1..Cardinality(all) -> all]
  BY <1>1, OrderOfSet DEF DispatchKernel
<1>3. \A t \in all : /\ t.op = "touch" /\ t.stage = "compute"
                     /\ \/ t.access = "shaderRead" /\ t.buffer \in read \cup written
                        \/ t.access = "shaderWrite" /\ t.buffer \in written
  BY DEF Touch
<1> HIDE DEF all
<1> QED BY <1>2, <1>3 DEF Range

=============================================================================
