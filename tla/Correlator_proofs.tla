------------------------- MODULE Correlator_proofs --------------------------
(***************************************************************************)
(* Theorems about Correlator, for any images, sizes and options: the       *)
(* devices it opens and borrows, what it creates and closes on them, the   *)
(* order of a call's commands on the device, what they compute and how it  *)
(* is judged.                                                              *)
(***************************************************************************)
EXTENDS Correlator, RecordedCommands_proofs

----------------------------------------------------------------------------
(* The queue after some calls of gpuRecorder. *)

\* The queue after the calls of a part, after a part and after parts.
RunCalls(q, cs)  == FoldLeft(RunCall, q, cs)
RunPart(q, cs)   == CHOOSE x \in {FoldLeft(RunCall, d, cs) : d \in {q}} : TRUE
RunParts(q, ps) == FoldParts(RunCall, q, ps)

LEMMA PartIsItsCalls ==
    ASSUME NEW q, NEW cs
    PROVE  RunPart(q, cs) = RunCalls(q, cs)
BY DEF RunPart, RunCalls

\* The queue while the calls of a part are recorded.
CallTrace(F, q, cs, n) ==
    /\ F[0] = q
    /\ \A k \in 1..n : F[k] = RunCall(F[k - 1], cs[k])
    /\ F[n] = RunCalls(q, cs)

LEMMA CallFold ==
    ASSUME NEW q, NEW cs, NEW n \in Nat, DOMAIN cs = 1..n
    PROVE  \E F : CallTrace(F, q, cs, n)
<1> DEFINE Rhs(g, s) == IF s = {} THEN q ELSE RunCall(g[s \ {Max(s)}], cs[Max(s)])
           S == {k \in 0..n : \E g : g = [s \in SUBSET (1..k) |-> Rhs(g, s)]}
<1>1. 0 \in S
  <2> DEFINE g == [s \in SUBSET (1..0) |-> q]
  <2>1. \A s \in SUBSET (1..0) : s = {}
    OBVIOUS
  <2>2. g = [s \in SUBSET (1..0) |-> Rhs(g, s)]
    BY <2>1
  <2> HIDE DEF g
  <2>3. \E f : f = [s \in SUBSET (1..0) |-> Rhs(f, s)]
    BY <2>2
  <2>4. 0 \in 0..n
    OBVIOUS
  <2> QED BY <2>3, <2>4
<1>2. ASSUME NEW k \in 1..n, k - 1 \in S
      PROVE  k \in S
  <2>1. PICK g : g = [s \in SUBSET (1..(k - 1)) |-> Rhs(g, s)]
    BY <1>2
  <2> DEFINE h == [s \in SUBSET (1..k) |-> IF k \in s THEN RunCall(g[s \ {k}], cs[k]) ELSE g[s]]
  <2>2. \A s \in SUBSET (1..(k - 1)) : g[s] = Rhs(g, s)
    BY <2>1
  <2>3. ASSUME NEW s \in SUBSET (1..k)
        PROVE  h[s] = Rhs(h, s)
    <3>1. CASE k \in s
      <4>1. Max(s) = k /\ s # {}
        BY <3>1, MaxOfInterval
      <4>2. s \ {k} \in SUBSET (1..k) /\ h[s \ {k}] = g[s \ {k}]
        OBVIOUS
      <4> QED BY <3>1, <4>1, <4>2
    <3>2. CASE k \notin s
      <4>1. s \in SUBSET (1..(k - 1)) /\ h[s] = g[s]
        BY <3>2
      <4>2. s \ {Max(s)} \in SUBSET (1..k) /\ h[s \ {Max(s)}] = g[s \ {Max(s)}]
        BY <3>2
      <4> QED BY <2>2, <4>1, <4>2
    <3> QED BY <3>1, <3>2
  <2>4. h = [s \in SUBSET (1..k) |-> Rhs(h, s)]
    BY <2>3
  <2> HIDE DEF h
  <2>5. \E f : f = [s \in SUBSET (1..k) |-> Rhs(f, s)]
    BY <2>4
  <2>6. k \in 0..n
    OBVIOUS
  <2> QED BY <2>5, <2>6
<1>3. n \in S
  <2> HIDE DEF S
  <2> QED BY <1>1, <1>2, SetInduction
<1>4. PICK g : /\ g = [s \in SUBSET (1..n) |-> Rhs(g, s)]
               /\ RunCalls(q, cs) = g[1..n]
  <2> DEFINE iter == CHOOSE g : g = [s \in SUBSET (1..n) |-> Rhs(g, s)]
  <2>1. iter = [s \in SUBSET (1..n) |-> Rhs(iter, s)]
    <3>1. \E g : g = [s \in SUBSET (1..n) |-> Rhs(g, s)]
      BY <1>3
    <3> QED BY <3>1
  <2>2. RunCalls(q, cs) = iter[1..n]
    BY DEF RunCalls, FoldLeft, MapThenFoldSet
  <2> QED BY <2>1, <2>2
<1> DEFINE F == [k \in 0..n |-> g[1..k]]
<1>5. F[0] = q
  <2>1. 1..0 = {}
    OBVIOUS
  <2> QED BY <1>4, <2>1
<1>6. ASSUME NEW k \in 1..n
      PROVE  F[k] = RunCall(F[k - 1], cs[k])
  <2>1. Max(1..k) = k
    BY MaxOfInterval
  <2>2. (1..k) \ {k} = 1..(k - 1)
    OBVIOUS
  <2>3. 1..k # {} /\ 1..k \in SUBSET (1..n)
    <3>1. k \in 1..k
      OBVIOUS
    <3>2. \A j \in 1..k : j \in 1..n
      OBVIOUS
    <3> QED BY <3>1, <3>2
  <2>4. g[1..k] = RunCall(g[1..(k - 1)], cs[k])
    BY <1>4, <2>1, <2>2, <2>3
  <2>5. F[k] = g[1..k] /\ F[k - 1] = g[1..(k - 1)]
    OBVIOUS
  <2> QED BY <2>4, <2>5
<1>7. F[n] = g[1..n]
  OBVIOUS
<1> HIDE DEF F
<1>8. CallTrace(F, q, cs, n)
  BY <1>4, <1>5, <1>6, <1>7 DEF CallTrace
<1> QED BY <1>8

\* The queue from part to part.
PartTrace(F, q, ps, n) ==
    /\ F[0] = q
    /\ \A k \in 1..n : F[k] = RunPart(F[k - 1], ps[k])
    /\ F[n] = RunParts(q, ps)

LEMMA PartFold ==
    ASSUME NEW q, NEW ps, NEW n \in Nat, DOMAIN ps = 1..n
    PROVE  \E F : PartTrace(F, q, ps, n)
<1> DEFINE Rhs(g, s) == IF s = {} THEN q ELSE RunPart(g[s \ {Max(s)}], ps[Max(s)])
           S == {k \in 0..n : \E g : g = [s \in SUBSET (1..k) |-> Rhs(g, s)]}
<1>1. 0 \in S
  <2> DEFINE g == [s \in SUBSET (1..0) |-> q]
  <2>1. \A s \in SUBSET (1..0) : s = {}
    OBVIOUS
  <2>2. g = [s \in SUBSET (1..0) |-> Rhs(g, s)]
    BY <2>1
  <2> HIDE DEF g
  <2>3. \E f : f = [s \in SUBSET (1..0) |-> Rhs(f, s)]
    BY <2>2
  <2>4. 0 \in 0..n
    OBVIOUS
  <2> QED BY <2>3, <2>4
<1>2. ASSUME NEW k \in 1..n, k - 1 \in S
      PROVE  k \in S
  <2>1. PICK g : g = [s \in SUBSET (1..(k - 1)) |-> Rhs(g, s)]
    BY <1>2
  <2> DEFINE h == [s \in SUBSET (1..k) |-> IF k \in s THEN RunPart(g[s \ {k}], ps[k]) ELSE g[s]]
  <2>2. \A s \in SUBSET (1..(k - 1)) : g[s] = Rhs(g, s)
    BY <2>1
  <2>3. ASSUME NEW s \in SUBSET (1..k)
        PROVE  h[s] = Rhs(h, s)
    <3>1. CASE k \in s
      <4>1. Max(s) = k /\ s # {}
        BY <3>1, MaxOfInterval
      <4>2. s \ {k} \in SUBSET (1..k) /\ h[s \ {k}] = g[s \ {k}]
        OBVIOUS
      <4> QED BY <3>1, <4>1, <4>2
    <3>2. CASE k \notin s
      <4>1. s \in SUBSET (1..(k - 1)) /\ h[s] = g[s]
        BY <3>2
      <4>2. s \ {Max(s)} \in SUBSET (1..k) /\ h[s \ {Max(s)}] = g[s \ {Max(s)}]
        BY <3>2
      <4> QED BY <2>2, <4>1, <4>2
    <3> QED BY <3>1, <3>2
  <2>4. h = [s \in SUBSET (1..k) |-> Rhs(h, s)]
    BY <2>3
  <2> HIDE DEF h
  <2>5. \E f : f = [s \in SUBSET (1..k) |-> Rhs(f, s)]
    BY <2>4
  <2>6. k \in 0..n
    OBVIOUS
  <2> QED BY <2>5, <2>6
<1>3. n \in S
  <2> HIDE DEF S
  <2> QED BY <1>1, <1>2, SetInduction
<1>4. PICK g : /\ g = [s \in SUBSET (1..n) |-> Rhs(g, s)]
               /\ RunParts(q, ps) = g[1..n]
  <2> DEFINE iter == CHOOSE g : g = [s \in SUBSET (1..n) |-> Rhs(g, s)]
  <2>1. iter = [s \in SUBSET (1..n) |-> Rhs(iter, s)]
    <3>1. \E g : g = [s \in SUBSET (1..n) |-> Rhs(g, s)]
      BY <1>3
    <3> QED BY <3>1
  <2>2. RunParts(q, ps) = iter[1..n]
    BY DEF RunParts, RunPart, FoldParts, FoldLeft, MapThenFoldSet
  <2> QED BY <2>1, <2>2
<1> DEFINE F == [k \in 0..n |-> g[1..k]]
<1>5. F[0] = q
  <2>1. 1..0 = {}
    OBVIOUS
  <2> QED BY <1>4, <2>1
<1>6. ASSUME NEW k \in 1..n
      PROVE  F[k] = RunPart(F[k - 1], ps[k])
  <2>1. Max(1..k) = k
    BY MaxOfInterval
  <2>2. (1..k) \ {k} = 1..(k - 1)
    OBVIOUS
  <2>3. 1..k # {} /\ 1..k \in SUBSET (1..n)
    <3>1. k \in 1..k
      OBVIOUS
    <3>2. \A j \in 1..k : j \in 1..n
      OBVIOUS
    <3> QED BY <3>1, <3>2
  <2>4. g[1..k] = RunPart(g[1..(k - 1)], ps[k])
    BY <1>4, <2>1, <2>2, <2>3
  <2>5. F[k] = g[1..k] /\ F[k - 1] = g[1..(k - 1)]
    OBVIOUS
  <2> QED BY <2>4, <2>5
<1>7. F[n] = g[1..n]
  OBVIOUS
<1> HIDE DEF F
<1>8. PartTrace(F, q, ps, n)
  BY <1>4, <1>5, <1>6, <1>7 DEF PartTrace
<1> QED BY <1>8

----------------------------------------------------------------------------
(* What calls, one behind another, make of the queue. *)

\* The calls cs take every queue of P to one of Q.
Takes(P, cs, Q) == \A q \in P : RunCalls(q, cs) \in Q

LEMMA CallsJoined ==
    ASSUME NEW S, NEW cs \in Seq(S), NEW ds \in Seq(S), NEW q
    PROVE  RunCalls(q, cs \o ds) = RunCalls(RunCalls(q, cs), ds)
<1> DEFINE m == Len(cs)
           n == Len(ds)
           both == cs \o ds
<1>1. /\ m \in Nat /\ n \in Nat /\ m + n \in Nat
      /\ DOMAIN cs = 1..m /\ DOMAIN ds = 1..n /\ DOMAIN both = 1..(m + n)
      /\ \A k \in 1..m : both[k] = cs[k]
      /\ \A k \in 1..n : both[m + k] = ds[k]
  OBVIOUS
<1> HIDE DEF m, n, both
<1>2. PICK F : CallTrace(F, q, both, m + n)
  BY <1>1, CallFold
<1>3. PICK F1 : CallTrace(F1, q, cs, m)
  BY <1>1, CallFold
<1>4. PICK F2 : CallTrace(F2, RunCalls(q, cs), ds, n)
  BY <1>1, CallFold
<1> DEFINE First == {k \in 0..m : F[k] = F1[k]}
           Then  == {k \in 0..n : F[m + k] = F2[k]}
<1>5. m \in First
  <2>1. 0 \in First
    BY <1>1, <1>2, <1>3 DEF CallTrace
  <2>2. ASSUME NEW k \in 1..m, k - 1 \in First
        PROVE  k \in First
    <3>1. F[k] = RunCall(F[k - 1], cs[k])
      <4>1. k \in 1..(m + n) /\ both[k] = cs[k]
        BY <1>1
      <4> QED BY <1>2, <4>1 DEF CallTrace
    <3>2. F1[k] = RunCall(F1[k - 1], cs[k])
      BY <1>3 DEF CallTrace
    <3>3. k \in 0..m
      BY <1>1
    <3> QED BY <2>2, <3>1, <3>2, <3>3
  <2>3. m \in 0..m
    BY <1>1
  <2> HIDE DEF First
  <2> QED BY <1>1, <2>1, <2>2, <2>3, SetInduction
<1>6. n \in Then
  <2>1. 0 \in Then
    <3>1. m + 0 = m /\ 0 \in 0..n
      BY <1>1
    <3> QED BY <1>3, <1>4, <1>5, <3>1 DEF CallTrace
  <2>2. ASSUME NEW k \in 1..n, k - 1 \in Then
        PROVE  k \in Then
    <3>1. F[m + k] = RunCall(F[m + (k - 1)], ds[k])
      <4>1. m + k \in 1..(m + n) /\ both[m + k] = ds[k] /\ (m + k) - 1 = m + (k - 1)
        BY <1>1
      <4> QED BY <1>2, <4>1 DEF CallTrace
    <3>2. F2[k] = RunCall(F2[k - 1], ds[k])
      BY <1>4 DEF CallTrace
    <3>3. k \in 0..n
      BY <1>1
    <3> QED BY <2>2, <3>1, <3>2, <3>3
  <2>3. n \in 0..n
    BY <1>1
  <2> HIDE DEF Then
  <2> QED BY <1>1, <2>1, <2>2, <2>3, SetInduction
<1>7. RunCalls(q, both) = F2[n]
  BY <1>2, <1>6 DEF CallTrace
<1> QED BY <1>4, <1>7 DEF CallTrace, both

LEMMA NoCalls ==
    ASSUME NEW q
    PROVE  RunCalls(q, << >>) = q
<1>1. DOMAIN << >> = 1..0 /\ 0 \in Nat
  OBVIOUS
<1>2. PICK F : CallTrace(F, q, << >>, 0)
  BY <1>1, CallFold
<1> QED BY <1>2 DEF CallTrace

LEMMA OneCall ==
    ASSUME NEW q, NEW c
    PROVE  RunCalls(q, <<c>>) = RunCall(q, c)
<1> DEFINE n == 1
           cs == <<c>>
<1>1. n \in Nat /\ DOMAIN cs = 1..n /\ cs[1] = c
  OBVIOUS
<1>2. n = 1 /\ 1 \in 1..n /\ 1 - 1 = 0
  OBVIOUS
<1> HIDE DEF n, cs
<1>3. PICK F : CallTrace(F, q, cs, n)
  BY <1>1, CallFold
<1>4. RunCalls(q, cs) = RunCall(q, c)
  BY <1>1, <1>2, <1>3 DEF CallTrace
<1> QED BY <1>4 DEF cs

LEMMA TakesOne ==
    ASSUME NEW P, NEW c, NEW Q, \A q \in P : RunCall(q, c) \in Q
    PROVE  Takes(P, <<c>>, Q)
BY OneCall DEF Takes

LEMMA TakesOn ==
    ASSUME NEW S, NEW cs \in Seq(S), NEW ds \in Seq(S), NEW P, NEW Q, NEW R,
           Takes(P, cs, Q), Takes(Q, ds, R)
    PROVE  cs \o ds \in Seq(S) /\ Takes(P, cs \o ds, R)
<1>1. \A q \in P : RunCalls(q, cs \o ds) = RunCalls(RunCalls(q, cs), ds)
  BY CallsJoined
<1> QED BY <1>1 DEF Takes

\* Sequences that each keep P, put behind each other.
LEMMA TakesAlong ==
    ASSUME NEW S, NEW seqs \in Seq(Seq(S)), NEW P, \A k \in 1..Len(seqs) : Takes(P, seqs[k], P)
    PROVE  FlattenSeq(seqs) \in Seq(S) /\ Takes(P, FlattenSeq(seqs), P)
<1>0. FlattenSeq(seqs) \in Seq(S)
  BY FlattenedType
<1> DEFINE n == Len(seqs)
<1>1. n \in Nat /\ \A k \in 1..n : seqs[k] \in Seq(S) /\ Takes(P, seqs[k], P)
  OBVIOUS
<1>2. CASE n = 0
  <2>1. FlattenSeq(seqs) = << >>
    BY <1>1, <1>2 DEF FlattenSeq
  <2> QED BY <1>0, <2>1, NoCalls DEF Takes
<1>3. CASE n > 0
  <2>1. n \in Nat \ {0} /\ n = Len(seqs)
    BY <1>1, <1>3
  <2> HIDE DEF n
  <2>2. PICK G : FlattenTrace(G, seqs, n)
    BY <2>1, FlattenFold
  <2> DEFINE Good == {0} \cup {k \in 1..n : G[k] \in Seq(S) /\ Takes(P, G[k], P)}
  <2>3. ASSUME NEW k \in 1..n, k - 1 \in Good
        PROVE  k \in Good
    <3>1. G[k] = IF k = 1 THEN seqs[1] ELSE G[k - 1] \o seqs[k]
      BY <2>2 DEF FlattenTrace
    <3>2. CASE k = 1
      BY <1>1, <3>1, <3>2
    <3>3. CASE k # 1
      <4>1. G[k - 1] \in Seq(S) /\ Takes(P, G[k - 1], P)
        BY <2>3, <3>3
      <4>2. seqs[k] \in Seq(S) /\ Takes(P, seqs[k], P)
        BY <1>1
      <4>3. G[k - 1] \o seqs[k] \in Seq(S) /\ Takes(P, G[k - 1] \o seqs[k], P)
        BY <4>1, <4>2, TakesOn
      <4> QED BY <3>1, <3>3, <4>3
    <3> QED BY <3>2, <3>3
  <2>4. n \in Good
    <3>1. 0 \in Good /\ n \in 0..n
      BY <2>1
    <3> HIDE DEF Good
    <3>2. 0..n \subseteq Good
      BY <2>1, <2>3, <3>1, SetInduction
    <3> QED BY <3>1, <3>2
  <2>5. Takes(P, G[n], P) /\ FlattenSeq(seqs) = G[n]
    BY <2>1, <2>2, <2>4 DEF FlattenTrace
  <2> QED BY <1>0, <2>5
<1> QED BY <1>1, <1>2, <1>3

----------------------------------------------------------------------------
\* The same for the parts of a call.
PartsTake(P, ps, Q) == \A q \in P : RunParts(q, ps) \in Q

LEMMA PartsJoined ==
    ASSUME NEW S, NEW ps \in Seq(S), NEW rs \in Seq(S), NEW q
    PROVE  RunParts(q, ps \o rs) = RunParts(RunParts(q, ps), rs)
<1> DEFINE m == Len(ps)
           n == Len(rs)
           both == ps \o rs
<1>1. /\ m \in Nat /\ n \in Nat /\ m + n \in Nat
      /\ DOMAIN ps = 1..m /\ DOMAIN rs = 1..n /\ DOMAIN both = 1..(m + n)
      /\ \A k \in 1..m : both[k] = ps[k]
      /\ \A k \in 1..n : both[m + k] = rs[k]
  OBVIOUS
<1> HIDE DEF m, n, both
<1>2. PICK F : PartTrace(F, q, both, m + n)
  BY <1>1, PartFold
<1>3. PICK F1 : PartTrace(F1, q, ps, m)
  BY <1>1, PartFold
<1>4. PICK F2 : PartTrace(F2, RunParts(q, ps), rs, n)
  BY <1>1, PartFold
<1> DEFINE First == {k \in 0..m : F[k] = F1[k]}
           Then  == {k \in 0..n : F[m + k] = F2[k]}
<1>5. m \in First
  <2>1. 0 \in First
    BY <1>1, <1>2, <1>3 DEF PartTrace
  <2>2. ASSUME NEW k \in 1..m, k - 1 \in First
        PROVE  k \in First
    <3>1. F[k] = RunPart(F[k - 1], ps[k])
      <4>1. k \in 1..(m + n) /\ both[k] = ps[k]
        BY <1>1
      <4> QED BY <1>2, <4>1 DEF PartTrace
    <3>2. F1[k] = RunPart(F1[k - 1], ps[k])
      BY <1>3 DEF PartTrace
    <3>3. k \in 0..m
      BY <1>1
    <3> QED BY <2>2, <3>1, <3>2, <3>3
  <2>3. m \in 0..m
    BY <1>1
  <2> HIDE DEF First
  <2> QED BY <1>1, <2>1, <2>2, <2>3, SetInduction
<1>6. n \in Then
  <2>1. 0 \in Then
    <3>1. m + 0 = m /\ 0 \in 0..n
      BY <1>1
    <3> QED BY <1>3, <1>4, <1>5, <3>1 DEF PartTrace
  <2>2. ASSUME NEW k \in 1..n, k - 1 \in Then
        PROVE  k \in Then
    <3>1. F[m + k] = RunPart(F[m + (k - 1)], rs[k])
      <4>1. m + k \in 1..(m + n) /\ both[m + k] = rs[k] /\ (m + k) - 1 = m + (k - 1)
        BY <1>1
      <4> QED BY <1>2, <4>1 DEF PartTrace
    <3>2. F2[k] = RunPart(F2[k - 1], rs[k])
      BY <1>4 DEF PartTrace
    <3>3. k \in 0..n
      BY <1>1
    <3> QED BY <2>2, <3>1, <3>2, <3>3
  <2>3. n \in 0..n
    BY <1>1
  <2> HIDE DEF Then
  <2> QED BY <1>1, <2>1, <2>2, <2>3, SetInduction
<1>7. RunParts(q, both) = F2[n]
  BY <1>2, <1>6 DEF PartTrace
<1> QED BY <1>4, <1>7 DEF PartTrace, both

LEMMA PartsTakeOn ==
    ASSUME NEW S, NEW ps \in Seq(S), NEW rs \in Seq(S), NEW P, NEW Q, NEW R,
           PartsTake(P, ps, Q), PartsTake(Q, rs, R)
    PROVE  ps \o rs \in Seq(S) /\ PartsTake(P, ps \o rs, R)
<1>1. \A q \in P : RunParts(q, ps \o rs) = RunParts(RunParts(q, ps), rs)
  BY PartsJoined
<1> QED BY <1>1 DEF PartsTake

\* Parts that each keep P, and a last one that leads on to Q.
LEMMA PartsTakeAlong ==
    ASSUME NEW ps, NEW n \in Nat \ {0}, DOMAIN ps = 1..n, NEW P, NEW Q,
           \A k \in 1..(n - 1) : Takes(P, ps[k], P), Takes(P, ps[n], Q)
    PROVE  PartsTake(P, ps, Q)
<1> SUFFICES ASSUME NEW q \in P
             PROVE  RunParts(q, ps) \in Q
  BY DEF PartsTake
<1>1. PICK F : PartTrace(F, q, ps, n)
  BY PartFold
<1> DEFINE Good == {k \in 0..(n - 1) : F[k] \in P}
<1>2. n - 1 \in Good
  <2>1. 0 \in Good
    BY <1>1 DEF PartTrace
  <2>2. ASSUME NEW k \in 1..(n - 1), k - 1 \in Good
        PROVE  k \in Good
    <3>1. F[k] = RunCalls(F[k - 1], ps[k])
      <4>1. k \in 1..n
        OBVIOUS
      <4> QED BY <1>1, <4>1, PartIsItsCalls DEF PartTrace
    <3> QED BY <2>2, <3>1 DEF Takes
  <2>3. n - 1 \in Nat /\ n - 1 \in 0..(n - 1)
    OBVIOUS
  <2> HIDE DEF Good
  <2>4. 0..(n - 1) \subseteq Good
    BY <2>1, <2>2, <2>3, SetInduction
  <2> QED BY <2>3, <2>4
<1>3. F[n] = RunCalls(F[n - 1], ps[n])
  <2>1. n \in 1..n
    OBVIOUS
  <2> QED BY <1>1, <2>1, PartIsItsCalls DEF PartTrace
<1>4. F[n - 1] \in P
  BY <1>2
<1> QED BY <1>1, <1>3, <1>4 DEF Takes, PartTrace

----------------------------------------------------------------------------
(* The states of the queue between the calls. *)

\* The buffers of a correlator, and with them the transfer memory of its downloads.
DeviceBuffers == Range(BufferOrder)
Memory == DeviceBuffers \cup ({"staging"} \X Nat)

\* Everything shaders or copies may do next is ordered behind access e, and sees what it wrote.
Settled(e) ==
    /\ "compute" \in e.after
    /\ Writes(e.access) => e.available /\ ShaderAccess \subseteq e.visible

\* A launch that no barrier has followed, which wrote nothing but b.
Fresh(e, b) ==
    /\ e.stage = "compute" /\ e.access \in ShaderAccess
    /\ Writes(e.access) => e.buffer = b

\* The queue while a call is recorded: nothing overlaps.
Recording ==
    {q \in [run : Queues(Memory), place : Nat] :
        q.run.races = {} /\ \A e \in q.run.past : e.buffer \in DeviceBuffers}

\* All of it is settled, or all but the last launch, which wrote b.
Quiet      == {q \in Recording : \A e \in q.run.past : Settled(e)}
Pending(b) == {q \in Recording : \A e \in q.run.past : Settled(e) \/ Fresh(e, b)}

LEMMA BuffersAre ==
    DeviceBuffers = {Rgba("A"), Rgba("B"), Complex("A"), Complex("B"), Mag("A"), Mag("B"),
                     LogPol("A"), LogPol("B"), CrossPow, PeakScratch, Result, Params}
<1>1. DeviceBuffers = {BufferOrder[k] : k \in DOMAIN BufferOrder}
  BY DEF DeviceBuffers, Range
<1>2. DOMAIN BufferOrder = 1..12
  BY DEF BufferOrder
<1>3. 1..12 = {1, 2, 3, 4, 5, 6, 7, 8, 9, 10, 11, 12}
  OBVIOUS
<1>4. /\ BufferOrder[1] = Rgba("A") /\ BufferOrder[2] = Rgba("B")
      /\ BufferOrder[3] = Complex("A") /\ BufferOrder[4] = Complex("B")
      /\ BufferOrder[5] = Mag("A") /\ BufferOrder[6] = Mag("B")
      /\ BufferOrder[7] = LogPol("A") /\ BufferOrder[8] = LogPol("B")
      /\ BufferOrder[9] = CrossPow /\ BufferOrder[10] = PeakScratch
      /\ BufferOrder[11] = Result /\ BufferOrder[12] = Params
  BY DEF BufferOrder
<1> QED BY <1>1, <1>2, <1>3, <1>4

LEMMA StagingIsNoBuffer ==
    ASSUME NEW k
    PROVE  Staging(k) \notin DeviceBuffers
<1>1. \A b \in DeviceBuffers : b # Staging(k)
  BY BuffersAre DEF Staging, Rgba, Complex, Mag, LogPol, CrossPow, PeakScratch, Result, Params
<1> QED BY <1>1

LEMMA BuffersAreFinite == IsFiniteSet(DeviceBuffers)
<1> DEFINE f == [k \in 1..12 |-> BufferOrder[k]]
           n == 12
<1>1. IsFiniteSet(1..n)
  <2>1. n \in Int /\ 1 \in Int
    OBVIOUS
  <2> HIDE DEF n
  <2> QED BY <2>1, FS_Interval
<1>2. f \in Surjection(1..12, DeviceBuffers)
  <2>1. DOMAIN BufferOrder = 1..12
    BY DEF BufferOrder
  <2>2. f \in [1..12 -> DeviceBuffers]
    BY <2>1 DEF DeviceBuffers, Range
  <2>3. \A b \in DeviceBuffers : \E k \in 1..12 : f[k] = b
    BY <2>1 DEF DeviceBuffers, Range
  <2> QED BY <2>2, <2>3 DEF Surjection
<1> QED BY <1>1, <1>2, FS_Surjection

LEMMA RecordingTypes ==
    ASSUME NEW q \in Recording
    PROVE  /\ q.run \in Queues(Memory) /\ q.place \in Nat /\ q.run.races = {}
           /\ \A e \in q.run.past : e \in Accesses(Memory) /\ e.buffer \in DeviceBuffers
BY DEF Recording, Queues

LEMMA SettledStays ==
    ASSUME NEW e, Settled(e), NEW w, Later(w, e)
    PROVE  Settled(w)
BY DEF Settled, Later

----------------------------------------------------------------------------
\* Update and Upload: the copy waits for what the shaders did, and they for the copy.
LEMMA TransferSettles ==
    ASSUME NEW q \in Quiet, NEW b \in DeviceBuffers, NEW d1, IsBarrier(d1),
           "compute" \in d1.srcStages, d1.dstStages = {"transfer"},
           d1.dstAccess = {"transferWrite"}, d1.buffers = {b}
    PROVE  [run |-> RunCommand(q.run, <<d1, Touch("transfer", "transferWrite", b),
                Dependency({"transfer"}, {"compute"}, {"transferWrite"}, ShaderAccess, {b})>>, q.place),
            place |-> q.place + 1] \in Quiet
<1> DEFINE by == q.place
           t  == Touch("transfer", "transferWrite", b)
           d2 == Dependency({"transfer"}, {"compute"}, {"transferWrite"}, ShaderAccess, {b})
           p  == RunCommand(q.run, <<d1, t, d2>>, by)
<1>1. /\ q \in Recording /\ q.run \in Queues(Memory) /\ by \in Nat /\ q.run.races = {}
      /\ \A e \in q.run.past : e \in Accesses(Memory) /\ e.buffer \in DeviceBuffers /\ Settled(e)
  BY RecordingTypes DEF Quiet
<1>2. IsBarrier(d2)
  BY DEF IsBarrier, Dependency, Names, ShaderAccess
<1>3. t.op = "touch" /\ t.stage \in Names /\ t.access \in Names /\ t.buffer \in Memory
  BY DEF Touch, Names, Memory
<1>4. t.stage = "transfer" /\ t.access = "transferWrite" /\ t.buffer = b
  BY DEF Touch
<1>5. /\ d2.srcStages = {"transfer"} /\ d2.dstStages = {"compute"} /\ d2.srcAccess = {"transferWrite"}
      /\ d2.dstAccess = ShaderAccess /\ d2.buffers = {b}
  BY DEF Dependency
<1>6. p = RunCommand(q.run, <<d1, t, d2>>, by)
  OBVIOUS
<1> HIDE DEF by, t, d2, p
<1>7. RanTransfer(Memory, p, q.run, by, d1, t, d2)
  BY <1>1, <1>2, <1>3, <1>6, RunTransfer
<1>8. ASSUME NEW e \in q.run.past
      PROVE  /\ Waited(e, d1) \in Accesses(Memory) /\ Later(Waited(e, d1), e)
             /\ ~ MayOverlap(Waited(e, d1), t)
  <2> DEFINE w == Waited(e, d1)
  <2>1. e \in Accesses(Memory) /\ Settled(e) /\ w = Waited(e, d1)
    BY <1>1
  <2> HIDE DEF w
  <2>2. w \in Accesses(Memory) /\ Later(w, e)
    BY <2>1, BarrierGrows
  <2>3. \E s \in e.after : s \in d1.srcStages
    BY <2>1 DEF Settled
  <2>4. d1.dstStages \subseteq w.after
    BY <2>1, <2>3, BarrierOrders
  <2>5. CASE Writes(e.access) /\ e.buffer = b
    <3>1. e.available /\ e.buffer \in d1.buffers
      BY <2>1, <2>5 DEF Settled
    <3>2. d1.dstAccess \subseteq w.visible
      BY <2>1, <2>3, <3>1, BarrierShows
    <3> QED BY <1>4, <2>1, <2>2, <2>4, <3>2 DEF MayOverlap
  <2>6. CASE ~ (Writes(e.access) /\ e.buffer = b)
    <3>1. ~ (Writes(w.access) /\ w.buffer = b)
      BY <2>2, <2>6 DEF Later
    <3> QED BY <1>4, <2>1, <2>2, <2>4, <3>1 DEF MayOverlap
  <2> QED BY <2>1, <2>2, <2>5, <2>6
<1>9. ASSUME NEW w \in p.past
      PROVE  w.buffer \in DeviceBuffers /\ Settled(w)
  <2>1. \/ w = Waited(Started(t, by), d2)
        \/ \E e \in q.run.past : w = Waited(Waited(e, d1), d2)
    BY <1>7 DEF RanTransfer
  <2>2. CASE w = Waited(Started(t, by), d2)
    <3> DEFINE s == Started(t, by)
    <3>1. /\ s \in Accesses(Memory) /\ s.stage = "transfer" /\ s.access = "transferWrite"
          /\ s.buffer = b /\ w = Waited(s, d2)
      BY <1>1, <1>3, <1>4, <2>2 DEF Started, Accesses
    <3> HIDE DEF s
    <3>2. Later(w, s)
      BY <1>2, <3>1, BarrierGrows
    <3>3. d2.dstStages \subseteq w.after
      BY <1>2, <1>5, <3>1, BarrierOrders
    <3>4. w.available /\ d2.dstAccess \subseteq w.visible
      BY <1>2, <1>5, <3>1, BarrierShows
    <3> QED BY <1>5, <3>1, <3>2, <3>3, <3>4 DEF Later, Settled
  <2>3. ASSUME NEW e \in q.run.past, w = Waited(Waited(e, d1), d2)
        PROVE  w.buffer \in DeviceBuffers /\ Settled(w)
    <3> DEFINE v == Waited(e, d1)
    <3>1. v \in Accesses(Memory) /\ Later(v, e) /\ w = Waited(v, d2)
      BY <1>8, <2>3
    <3> HIDE DEF v
    <3>2. Later(w, v)
      BY <1>2, <3>1, BarrierGrows
    <3>3. Later(w, e)
      BY <3>1, <3>2, LaterTwice
    <3>4. Settled(w)
      BY <1>1, <3>3, SettledStays
    <3> QED BY <1>1, <3>3, <3>4 DEF Later
  <2> QED BY <2>1, <2>2, <2>3
<1>10. p \in Queues(Memory) /\ p.races = {}
  BY <1>1, <1>7, <1>8 DEF RanTransfer
<1>11. [run |-> p, place |-> by + 1] \in Quiet
  BY <1>1, <1>9, <1>10 DEF Quiet, Recording
<1> QED BY <1>11 DEF p, by, t, d2

LEMMA UpdateSettles ==
    ASSUME NEW words
    PROVE  Takes(Quiet, <<Update(words)>>, Quiet)
<1> SUFFICES ASSUME NEW q \in Quiet
             PROVE  RunCall(q, Update(words)) \in Quiet
  BY TakesOne
<1> DEFINE d1 == Dependency({"compute"}, {"transfer"}, ShaderAccess, {"transferWrite"}, {Params})
           c  == Update(words)
<1>1. CommandsOf(c, q.place) = <<d1, Touch("transfer", "transferWrite", Params),
          Dependency({"transfer"}, {"compute"}, {"transferWrite"}, ShaderAccess, {Params})>>
  BY DEF CommandsOf, Update, UpdateBuffer
<1>2. /\ IsBarrier(d1) /\ "compute" \in d1.srcStages /\ d1.dstStages = {"transfer"}
      /\ d1.dstAccess = {"transferWrite"} /\ d1.buffers = {Params}
  BY DEF IsBarrier, Dependency, Names
<1>3. Params \in DeviceBuffers
  BY BuffersAre
<1> HIDE DEF d1, c
<1> QED BY <1>1, <1>2, <1>3, TransferSettles DEF RunCall, c

LEMMA UploadSettles ==
    ASSUME NEW i, Rgba(i) \in DeviceBuffers
    PROVE  Takes(Quiet, <<Upload(i)>>, Quiet)
<1> SUFFICES ASSUME NEW q \in Quiet
             PROVE  RunCall(q, Upload(i)) \in Quiet
  BY TakesOne
<1> DEFINE b  == Rgba(i)
           d1 == Dependency({"compute", "transfer"}, {"transfer"}, ShaderAccess \cup {"transferWrite"},
                            {"transferWrite"}, {b})
           c  == Upload(i)
<1>1. CommandsOf(c, q.place) = <<d1, Touch("transfer", "transferWrite", b),
          Dependency({"transfer"}, {"compute"}, {"transferWrite"}, ShaderAccess, {b})>>
  BY DEF CommandsOf, Upload, UploadBuffer
<1>2. /\ IsBarrier(d1) /\ "compute" \in d1.srcStages /\ d1.dstStages = {"transfer"}
      /\ d1.dstAccess = {"transferWrite"} /\ d1.buffers = {b} /\ b \in DeviceBuffers
  BY DEF IsBarrier, Dependency, Names
<1> HIDE DEF d1, c, b
<1> QED BY <1>1, <1>2, TransferSettles DEF RunCall, c

----------------------------------------------------------------------------
(* Launches, and the barriers behind them. *)

\* A binding set of a correlator.
IsPipeline(p) == p.writes \in DeviceBuffers /\ Range(p.reads) \subseteq DeviceBuffers

\* A launch on a quiet queue overlaps nothing, and leaves its own accesses to be ordered.
LEMMA LaunchAfterQuiet ==
    ASSUME NEW p, IsPipeline(p), NEW groups
    PROVE  Takes(Quiet, <<Launch(p, groups)>>, Pending(p.writes))
<1> SUFFICES ASSUME NEW q \in Quiet
             PROVE  RunCall(q, Launch(p, groups)) \in Pending(p.writes)
  BY TakesOne
<1> DEFINE by == q.place
           c  == Launch(p, groups)
           read == ReadBuffers(p)
           written == {p.writes}
           touches == DispatchKernel(read, written)
           r == RunCommand(q.run, touches, by)
<1>1. /\ q \in Recording /\ q.run \in Queues(Memory) /\ by \in Nat /\ q.run.races = {}
      /\ \A e \in q.run.past : e \in Accesses(Memory) /\ e.buffer \in DeviceBuffers /\ Settled(e)
  BY RecordingTypes DEF Quiet
<1>2. read \subseteq DeviceBuffers
  BY BuffersAre DEF IsPipeline, ReadBuffers
<1>3. RunCall(q, c) = [run |-> r, place |-> by + 1]
  <2>1. CommandsOf(c, by) = touches
    BY DEF CommandsOf, Launch
  <2> QED BY <2>1 DEF RunCall
<1>4. IsFiniteSet(read) /\ IsFiniteSet(written)
  <2>1. IsFiniteSet(read)
    BY <1>2, BuffersAreFinite, FS_Subset
  <2>2. IsFiniteSet(written)
    BY FS_Singleton
  <2> QED BY <2>1, <2>2
<1>5. p.writes \in DeviceBuffers /\ touches = DispatchKernel(read, written) /\ written = {p.writes}
      /\ r = RunCommand(q.run, touches, by)
  BY DEF IsPipeline
<1> HIDE DEF by, c, read, written, touches, r
<1>6. /\ \E n \in Nat : DOMAIN touches = 1..n
      /\ \A t \in Range(touches) :
            /\ t.op = "touch" /\ t.stage = "compute"
            /\ \/ t.access = "shaderRead" /\ t.buffer \in read \cup written
               \/ t.access = "shaderWrite" /\ t.buffer \in written
  <2>1. /\ \E n \in Nat : DOMAIN DispatchKernel(read, written) = 1..n
        /\ \A t \in Range(DispatchKernel(read, written)) :
              /\ t.op = "touch" /\ t.stage = "compute"
              /\ \/ t.access = "shaderRead" /\ t.buffer \in read \cup written
                 \/ t.access = "shaderWrite" /\ t.buffer \in written
    BY <1>4, KernelTouches
  <2> QED BY <1>5, <2>1
<1>7. PICK n \in Nat : DOMAIN touches = 1..n
  BY <1>6
<1> DEFINE ts == Range(touches)
<1>8. \A k \in 1..n : touches[k] \in ts
  BY <1>7 DEF Range
<1>9. ASSUME NEW t \in ts
      PROVE  /\ IsTouch(Memory, t) /\ t.stage = "compute" /\ t.access \in ShaderAccess
             /\ t.buffer \in DeviceBuffers /\ (Writes(t.access) => t.buffer = p.writes)
  <2>1. /\ t.op = "touch" /\ t.stage = "compute"
        /\ \/ t.access = "shaderRead" /\ t.buffer \in read \cup written
           \/ t.access = "shaderWrite" /\ t.buffer \in written
    BY <1>6
  <2>2. t.stage \in Names /\ t.access \in Names /\ t.access \in ShaderAccess
    BY <2>1 DEF Names, ShaderAccess
  <2>3. t.buffer \in DeviceBuffers
    BY <1>2, <1>5, <2>1
  <2>4. Writes(t.access) => t.buffer = p.writes
    BY <1>5, <2>1 DEF Writes
  <2> QED BY <2>1, <2>2, <2>3, <2>4 DEF IsTouch, Memory
<1> HIDE DEF ts
<1>10. Dispatching(Memory, r, q.run, ts, by)
  <2>1. \A k \in 1..n : touches[k] \in ts /\ IsTouch(Memory, touches[k])
    BY <1>8, <1>9
  <2>2. q.run \in Queues(Memory) /\ by \in Nat /\ n \in Nat
    BY <1>1
  <2> QED BY <1>5, <1>7, <2>1, <2>2, RunTouches
<1>11. ASSUME NEW e \in q.run.past, NEW t \in ts
       PROVE  ~ MayOverlap(e, t)
  BY <1>1, <1>9 DEF MayOverlap, Settled
<1>12. r \in Queues(Memory) /\ r.races = {}
  BY <1>1, <1>10, <1>11 DEF Dispatching
<1>13. ASSUME NEW w \in r.past
       PROVE  w.buffer \in DeviceBuffers /\ (Settled(w) \/ Fresh(w, p.writes))
  <2>1. w \in q.run.past \/ \E t \in ts : w = Started(t, by)
    BY <1>10 DEF Dispatching
  <2>2. CASE w \in q.run.past
    BY <1>1, <2>2
  <2>3. ASSUME NEW t \in ts, w = Started(t, by)
        PROVE  w.buffer \in DeviceBuffers /\ (Settled(w) \/ Fresh(w, p.writes))
    <3>1. w.stage = t.stage /\ w.access = t.access /\ w.buffer = t.buffer
      BY <2>3 DEF Started
    <3> QED BY <1>9, <3>1 DEF Fresh
  <2> QED BY <2>1, <2>2, <2>3
<1>14. [run |-> r, place |-> by + 1] \in Pending(p.writes)
  BY <1>1, <1>12, <1>13 DEF Pending, Recording
<1>15. RunCall(q, c) \in Pending(p.writes)
  BY <1>3, <1>14
<1> QED BY <1>15 DEF c

\* A barrier on the buffer that the launch before it wrote makes the queue quiet again.
LEMMA BarrierSettles ==
    ASSUME NEW bs, NEW b \in bs
    PROVE  Takes(Pending(b), <<Barrier(bs)>>, Quiet)
<1> SUFFICES ASSUME NEW q \in Pending(b)
             PROVE  RunCall(q, Barrier(bs)) \in Quiet
  BY TakesOne
<1> DEFINE by == q.place
           c  == Barrier(bs)
           n  == 1
           d  == Dependency({"compute"}, {"compute"}, ShaderAccess, ShaderAccess, bs)
           touches == <<d>>
           r  == RunCommand(q.run, touches, by)
<1>1. /\ q \in Recording /\ q.run \in Queues(Memory) /\ by \in Nat /\ q.run.races = {}
      /\ \A e \in q.run.past : /\ e \in Accesses(Memory) /\ e.buffer \in DeviceBuffers
                               /\ Settled(e) \/ Fresh(e, b)
  BY RecordingTypes DEF Pending
<1>2. RunCall(q, c) = [run |-> r, place |-> by + 1]
  <2>1. CommandsOf(c, by) = touches
    BY DEF CommandsOf, Barrier, ComputeBarrier
  <2> QED BY <2>1 DEF RunCall
<1>3. n \in Nat /\ DOMAIN touches = 1..n /\ touches[1] = d
  OBVIOUS
<1>4. n = 1 /\ 1 \in 1..n /\ 1 - 1 = 0
  OBVIOUS
<1>5. /\ IsBarrier(d) /\ d.op = "dependency" /\ d.srcStages = {"compute"} /\ d.dstStages = {"compute"}
      /\ d.srcAccess = ShaderAccess /\ d.dstAccess = ShaderAccess /\ d.buffers = bs
  BY DEF IsBarrier, Dependency, Names, ShaderAccess
<1>6. r = RunCommand(q.run, touches, by)
  OBVIOUS
<1> HIDE DEF by, c, n, d, touches, r
<1>7. PICK F : CommandTrace(F, q.run, touches, by, n)
  BY <1>3, CommandFold
<1>8. r = RunOne(q.run, d, by)
  BY <1>3, <1>4, <1>6, <1>7 DEF CommandTrace
<1>9. r \in Queues(Memory) /\ r.past = {Waited(e, d) : e \in q.run.past} /\ r.races = {}
  <2>1. q.run \in Queues(Memory) /\ by \in Nat
    BY <1>1
  <2> QED BY <1>1, <1>5, <1>8, <2>1, RunDependency DEF IsBarrier
<1>10. ASSUME NEW w \in r.past
       PROVE  w.buffer \in DeviceBuffers /\ Settled(w)
  <2>1. PICK e \in q.run.past : w = Waited(e, d)
    BY <1>9
  <2>2. e \in Accesses(Memory) /\ e.buffer \in DeviceBuffers
    BY <1>1
  <2>3. Later(w, e)
    BY <1>5, <2>1, <2>2, BarrierGrows
  <2>4. CASE Settled(e)
    <3>1. Settled(w)
      BY <2>3, <2>4, SettledStays
    <3> QED BY <2>2, <2>3, <3>1 DEF Later
  <2>5. CASE Fresh(e, b)
    <3>1. e.stage \in d.srcStages /\ e.access \in d.srcAccess
      BY <1>5, <2>5 DEF Fresh
    <3>2. d.dstStages \subseteq w.after
      BY <1>5, <2>1, <2>2, <3>1, BarrierOrders
    <3>3. CASE Writes(e.access)
      <4>1. e.buffer \in d.buffers
        BY <1>5, <2>5, <3>3 DEF Fresh
      <4>2. w.available /\ d.dstAccess \subseteq w.visible
        BY <1>5, <2>1, <2>2, <3>1, <4>1, BarrierShows
      <4> QED BY <1>5, <2>2, <2>3, <3>2, <4>2 DEF Settled, Later
    <3>4. CASE ~ Writes(e.access)
      BY <1>5, <2>2, <2>3, <3>2, <3>4 DEF Settled, Later
    <3> QED BY <3>3, <3>4
  <2> QED BY <1>1, <2>4, <2>5
<1>11. [run |-> r, place |-> by + 1] \in Quiet
  BY <1>1, <1>9, <1>10 DEF Quiet, Recording
<1> QED BY <1>2, <1>11 DEF c

\* Nothing has overlapped.
Ordered == {q \in [run : Queues(Memory), place : Nat] : q.run.races = {}}

\* The download waits for the launch that wrote the result, with no barrier between them.
LEMMA DownloadWaits == Takes(Pending(Result), <<Download>>, Ordered)
<1> SUFFICES ASSUME NEW q \in Pending(Result)
             PROVE  RunCall(q, Download) \in Ordered
  BY TakesOne
<1> DEFINE by == q.place
           d1 == Dependency({"compute", "transfer"}, {"transfer"}, {"shaderWrite", "transferWrite"},
                            {"transferRead"}, {Result})
           t1 == Touch("transfer", "transferRead", Result)
           t2 == Touch("transfer", "transferWrite", Staging(by))
           d2 == Dependency({"transfer"}, {"host"}, {"transferWrite"}, {"hostRead"}, {Staging(by)})
           r  == RunCommand(q.run, <<d1, t1, t2, d2>>, by)
<1>1. /\ q \in Recording /\ q.run \in Queues(Memory) /\ by \in Nat /\ q.run.races = {}
      /\ \A e \in q.run.past : /\ e \in Accesses(Memory) /\ e.buffer \in DeviceBuffers
                               /\ Settled(e) \/ Fresh(e, Result)
  BY RecordingTypes DEF Pending
<1>2. RunCall(q, Download) = [run |-> r, place |-> by + 1]
  <2>1. CommandsOf(Download, by) = <<d1, t1, t2, d2>>
    BY DEF CommandsOf, Download, DownloadBuffer
  <2> QED BY <2>1 DEF RunCall
<1>3. IsBarrier(d1) /\ IsBarrier(d2)
  BY DEF IsBarrier, Dependency, Names
<1>4. /\ d1.srcStages = {"compute", "transfer"} /\ d1.dstStages = {"transfer"}
      /\ d1.srcAccess = {"shaderWrite", "transferWrite"} /\ d1.dstAccess = {"transferRead"}
      /\ d1.buffers = {Result}
  BY DEF Dependency
<1>5. /\ t1.op = "touch" /\ t1.stage = "transfer" /\ t1.access = "transferRead" /\ t1.buffer = Result
      /\ t2.op = "touch" /\ t2.stage = "transfer" /\ t2.access = "transferWrite" /\ t2.buffer = Staging(by)
  BY DEF Touch
<1>6. r = RunCommand(q.run, <<d1, t1, t2, d2>>, by)
  OBVIOUS
<1> HIDE DEF by, d1, t1, t2, d2, r
<1>7. Result \in DeviceBuffers /\ Result \in Memory /\ Staging(by) \in Memory
  BY <1>1, BuffersAre DEF Memory, Staging
<1>8. RanDownload(Memory, r, q.run, by, d1, t1, t2, d2)
  <2>1. /\ t1.stage \in Names /\ t1.access \in Names /\ t1.buffer \in Memory
        /\ t2.stage \in Names /\ t2.access \in Names /\ t2.buffer \in Memory
    BY <1>5, <1>7 DEF Names
  <2>2. q.run \in Queues(Memory) /\ by \in Nat
    BY <1>1
  <2> QED BY <1>3, <1>5, <1>6, <2>1, <2>2, RunDownload
<1>9. ASSUME NEW e \in q.run.past
      PROVE  ~ MayOverlap(Waited(e, d1), t1) /\ ~ MayOverlap(Waited(e, d1), t2)
  <2> DEFINE w == Waited(e, d1)
  <2>1. e \in Accesses(Memory) /\ e.buffer \in DeviceBuffers /\ w = Waited(e, d1)
    BY <1>1
  <2> HIDE DEF w
  <2>2. Later(w, e)
    BY <1>3, <2>1, BarrierGrows
  <2>3. ~ MayOverlap(w, t2)
    <3>1. w.buffer # Staging(by)
      BY <2>1, <2>2, StagingIsNoBuffer DEF Later
    <3> QED BY <1>5, <3>1 DEF MayOverlap
  <2>4. ~ MayOverlap(w, t1)
    <3> SUFFICES ASSUME w.buffer = Result, Writes(w.access)
                 PROVE  "transfer" \in w.after /\ "transferRead" \in w.visible
      BY <1>5 DEF MayOverlap, Writes
    <3>1. e.buffer \in d1.buffers /\ Writes(e.access)
      BY <1>4, <2>2 DEF Later
    <3>2. e.stage \in d1.srcStages \/ (\E s \in e.after : s \in d1.srcStages)
      BY <1>1, <1>4 DEF Settled, Fresh
    <3>3. e.available \/ (e.stage \in d1.srcStages /\ e.access \in d1.srcAccess)
      BY <1>1, <1>4, <3>1 DEF Settled, Fresh, Writes
    <3>4. d1.dstStages \subseteq w.after
      BY <1>3, <2>1, <3>2, BarrierOrders
    <3>5. d1.dstAccess \subseteq w.visible
      BY <1>3, <2>1, <3>1, <3>2, <3>3, BarrierShows
    <3> QED BY <1>4, <3>4, <3>5
  <2> QED BY <2>1, <2>3, <2>4
<1>10. r \in Queues(Memory) /\ r.races = {}
  BY <1>1, <1>8, <1>9 DEF RanDownload
<1> QED BY <1>1, <1>2, <1>10 DEF Ordered

----------------------------------------------------------------------------
(* The parts that PhaseCorrelate is put together from. *)

\* Calls of gpuRecorder with parameter words of V and group counts of G.
KernelNames ==
    {"grayscale_pad", "bilinear_warp_gray", "fft_bitrev", "fft_butterfly", "magnitude", "fftshift",
     "highpass", "logpolar", "crosspower", "peak_find", "peak_reduce", "peak_finalize"}

PipelineSet == [kernel : KernelNames, reads : Seq(DeviceBuffers), writes : DeviceBuffers]

Calls(V, G) ==
    {Upload(i) : i \in {"A", "B"}} \cup {Update(words) : words \in Seq(V)}
    \cup {Launch(p, g) : p \in PipelineSet, g \in G}
    \cup {Barrier(bs) : bs \in SUBSET DeviceBuffers} \cup {Download}

\* Parts of a call that leave the queue quiet, and those that leave the result to be ordered.
QuietParts(V, G) == {cs \in Seq(Calls(V, G)) : Takes(Quiet, cs, Quiet)}
PeakParts(V, G)  == {cs \in Seq(Calls(V, G)) : Takes(Quiet, cs, Pending(Result))}

LEMMA PipelinesAre ==
    ASSUME NEW p \in PipelineSet
    PROVE  IsPipeline(p)
BY DEF PipelineSet, IsPipeline, Range

LEMMA CallsAre ==
    ASSUME NEW V, NEW G
    PROVE  /\ \A i \in {"A", "B"} : Upload(i) \in Calls(V, G)
           /\ \A words \in Seq(V) : Update(words) \in Calls(V, G)
           /\ \A p \in PipelineSet, g \in G : Launch(p, g) \in Calls(V, G)
           /\ \A bs \in SUBSET DeviceBuffers : Barrier(bs) \in Calls(V, G)
           /\ Download \in Calls(V, G)
BY DEF Calls

LEMMA OnePart ==
    ASSUME NEW V, NEW G, NEW c \in Calls(V, G)
    PROVE  <<c>> \in Seq(Calls(V, G))
OBVIOUS

LEMMA UpdatePart ==
    ASSUME NEW V, NEW G, NEW words \in Seq(V)
    PROVE  <<Update(words)>> \in QuietParts(V, G)
<1>1. <<Update(words)>> \in Seq(Calls(V, G))
  BY CallsAre, OnePart
<1> QED BY <1>1, UpdateSettles DEF QuietParts

LEMMA QuietTwice ==
    ASSUME NEW V, NEW G, NEW cs \in QuietParts(V, G), NEW ds \in QuietParts(V, G)
    PROVE  cs \o ds \in QuietParts(V, G)
<1>1. cs \in Seq(Calls(V, G)) /\ ds \in Seq(Calls(V, G)) /\ Takes(Quiet, cs, Quiet) /\ Takes(Quiet, ds, Quiet)
  BY DEF QuietParts
<1>2. cs \o ds \in Seq(Calls(V, G)) /\ Takes(Quiet, cs \o ds, Quiet)
  BY <1>1, TakesOn
<1> QED BY <1>2 DEF QuietParts

\* A launch and the barrier on what it wrote.
LEMMA LaunchAndBarrier ==
    ASSUME NEW V, NEW G, NEW p \in PipelineSet, NEW g \in G, NEW bs \in SUBSET DeviceBuffers, p.writes \in bs
    PROVE  <<Launch(p, g), Barrier(bs)>> \in QuietParts(V, G)
<1> DEFINE launch == <<Launch(p, g)>>
           barrier == <<Barrier(bs)>>
<1>1. launch \in Seq(Calls(V, G)) /\ barrier \in Seq(Calls(V, G))
  BY CallsAre, OnePart
<1>2. Takes(Quiet, launch, Pending(p.writes))
  BY PipelinesAre, LaunchAfterQuiet
<1>3. Takes(Pending(p.writes), barrier, Quiet)
  BY BarrierSettles
<1>4. <<Launch(p, g), Barrier(bs)>> = launch \o barrier
  OBVIOUS
<1> HIDE DEF launch, barrier
<1>5. launch \o barrier \in Seq(Calls(V, G)) /\ Takes(Quiet, launch \o barrier, Quiet)
  BY <1>1, <1>2, <1>3, TakesOn
<1> QED BY <1>4, <1>5 DEF QuietParts

LEMMA StagePart ==
    ASSUME NEW V, NEW G, NEW p \in PipelineSet, NEW threads, Groups(threads) \in G
    PROVE  Stage(p, threads) \in QuietParts(V, G)
<1>1. p.writes \in DeviceBuffers
  BY DEF PipelineSet
<1>2. {p.writes} \in SUBSET DeviceBuffers /\ p.writes \in {p.writes}
  BY <1>1
<1> QED BY <1>2, LaunchAndBarrier DEF Stage

LEMMA StageWithPart ==
    ASSUME NEW V, NEW G, NEW words \in Seq(V), NEW p \in PipelineSet, NEW threads, Groups(threads) \in G
    PROVE  StageWith(words, p, threads) \in QuietParts(V, G)
<1>1. <<Update(words)>> \in QuietParts(V, G)
  BY UpdatePart
<1>2. Stage(p, threads) \in QuietParts(V, G)
  BY StagePart
<1>3. << Update(words) >> \o Stage(p, threads) \in QuietParts(V, G)
  BY <1>1, <1>2, QuietTwice
<1> QED BY <1>3 DEF StageWith

\* The halvings of a number, whatever it is.
LEMMA HalvingsAreCounted ==
    ASSUME NEW n
    PROVE  Log2(n) \in Nat
<1> DEFINE all == {k \in 1..MaxHalvings : 2^k <= n}
<1>1. MaxHalvings \in Int /\ 1 \in Int
  BY DEF MaxHalvings
<1>2. IsFiniteSet(1..MaxHalvings)
  BY <1>1, FS_Interval
<1>3. all \subseteq 1..MaxHalvings
  OBVIOUS
<1>4. Log2(n) = Cardinality(all)
  BY DEF Log2
<1> HIDE DEF all
<1>5. IsFiniteSet(all)
  BY <1>2, <1>3, FS_Subset
<1> QED BY <1>4, <1>5, FS_CardinalityType

LEMMA PipelineSetHas ==
    /\ \A d \in DeviceBuffers : Bitrev(d) \in PipelineSet /\ Butterfly(d) \in PipelineSet
    /\ \A i \in {"A", "B"} : /\ GrayPad(i) \in PipelineSet /\ Magnitude(i) \in PipelineSet
                             /\ Fftshift(i) \in PipelineSet /\ Highpass(i) \in PipelineSet
                             /\ LogPolar(i) \in PipelineSet
    /\ Warp \in PipelineSet
    /\ Crosspower(LogPol("A"), LogPol("B")) \in PipelineSet
    /\ Crosspower(Complex("A"), Complex("B")) \in PipelineSet
    /\ PeakFind \in PipelineSet /\ PeakReduce \in PipelineSet /\ PeakFinal \in PipelineSet
<1>1. /\ \A d \in DeviceBuffers : <<d>> \in Seq(DeviceBuffers)
      /\ \A d, b \in DeviceBuffers : <<d, b>> \in Seq(DeviceBuffers)
      /\ << >> \in Seq(DeviceBuffers)
  OBVIOUS
<1>2. \A k \in KernelNames, rs \in Seq(DeviceBuffers), w \in DeviceBuffers : Pipeline(k, rs, w) \in PipelineSet
  BY DEF Pipeline, PipelineSet
<1>3. /\ \A i \in {"A", "B"} : /\ Rgba(i) \in DeviceBuffers /\ Complex(i) \in DeviceBuffers
                               /\ Mag(i) \in DeviceBuffers /\ LogPol(i) \in DeviceBuffers
      /\ CrossPow \in DeviceBuffers /\ PeakScratch \in DeviceBuffers /\ Result \in DeviceBuffers
  BY BuffersAre
<1>4. \A d \in DeviceBuffers : Bitrev(d) \in PipelineSet /\ Butterfly(d) \in PipelineSet
  BY <1>1, <1>2 DEF Bitrev, Butterfly, KernelNames
<1>5. ASSUME NEW i \in {"A", "B"}
      PROVE  /\ GrayPad(i) \in PipelineSet /\ Magnitude(i) \in PipelineSet
             /\ Fftshift(i) \in PipelineSet /\ Highpass(i) \in PipelineSet
             /\ LogPolar(i) \in PipelineSet
  BY <1>1, <1>2, <1>3 DEF GrayPad, Magnitude, Fftshift, Highpass, LogPolar, KernelNames
<1>6. Warp \in PipelineSet
  BY <1>1, <1>2, <1>3 DEF Warp, KernelNames
<1>7. /\ Crosspower(LogPol("A"), LogPol("B")) \in PipelineSet
      /\ Crosspower(Complex("A"), Complex("B")) \in PipelineSet
  BY <1>1, <1>2, <1>3 DEF Crosspower, KernelNames
<1>8. PeakFind \in PipelineSet /\ PeakReduce \in PipelineSet /\ PeakFinal \in PipelineSet
  BY <1>1, <1>2, <1>3 DEF PeakFind, PeakReduce, PeakFinal, KernelNames
<1> QED BY <1>4, <1>5, <1>6, <1>7, <1>8

\* However many passes it has, a transform leaves the queue quiet.
LEMMA FFT1DPart ==
    ASSUME NEW V, NEW G, NEW d \in DeviceBuffers, NEW n \in V, NEW lines \in V, NEW axis \in V,
           NEW stride \in V, NEW inverse \in V, Int \subseteq V,
           Groups(n * lines) \in G, Groups((n \div 2) * lines) \in G
    PROVE  RecordFFT1D(d, n, lines, axis, stride, inverse) \in QuietParts(V, G)
<1> DEFINE first == StageWith(<<n, lines, Log2(n), axis, stride>>, Bitrev(d), n * lines)
           passes == [s \in 1..Log2(n) |->
               StageWith(<<s - 1, n, lines, axis, stride, inverse>>, Butterfly(d), (n \div 2) * lines)]
<1>1. Log2(n) \in Nat /\ Log2(n) \in V
  BY HalvingsAreCounted
<1>2. first \in QuietParts(V, G)
  <2>1. <<n, lines, Log2(n), axis, stride>> \in Seq(V)
    BY <1>1
  <2>2. Bitrev(d) \in PipelineSet
    BY PipelineSetHas
  <2> QED BY <2>1, <2>2, StageWithPart
<1>3. ASSUME NEW s \in 1..Log2(n)
      PROVE  passes[s] \in QuietParts(V, G)
  <2>1. s - 1 \in V
    BY <1>1
  <2>2. <<s - 1, n, lines, axis, stride, inverse>> \in Seq(V)
    BY <2>1
  <2>3. Butterfly(d) \in PipelineSet
    BY PipelineSetHas
  <2>4. StageWith(<<s - 1, n, lines, axis, stride, inverse>>, Butterfly(d), (n \div 2) * lines)
           \in QuietParts(V, G)
    BY <2>2, <2>3, StageWithPart
  <2> QED BY <2>4
<1>4. RecordFFT1D(d, n, lines, axis, stride, inverse) = first \o FlattenSeq(passes)
  BY DEF RecordFFT1D
<1>5. DOMAIN passes = 1..Log2(n)
  OBVIOUS
<1> HIDE DEF first, passes
<1>6. passes \in Seq(Seq(Calls(V, G))) /\ \A k \in 1..Len(passes) : Takes(Quiet, passes[k], Quiet)
  <2>1. \A k \in 1..Log2(n) : passes[k] \in Seq(Calls(V, G)) /\ Takes(Quiet, passes[k], Quiet)
    BY <1>3 DEF QuietParts
  <2>2. passes = [k \in 1..Log2(n) |-> passes[k]]
    <3>1. QuietParts(V, G) = QuietParts(V, G)
      OBVIOUS
    <3> QED BY <1>5 DEF passes
  <2>3. passes \in [1..Log2(n) -> Seq(Calls(V, G))]
    BY <2>1, <2>2
  <2>4. passes \in Seq(Seq(Calls(V, G))) /\ Len(passes) = Log2(n)
    BY <1>1, <2>3
  <2> QED BY <2>1, <2>4
<1>7. FlattenSeq(passes) \in QuietParts(V, G)
  BY <1>6, TakesAlong DEF QuietParts
<1> QED BY <1>2, <1>4, <1>7, QuietTwice

LEMMA FFT2DPart ==
    ASSUME NEW V, NEW G, NEW d \in DeviceBuffers, NEW pad \in V, NEW inverse \in V, Int \subseteq V,
           Groups(pad * pad) \in G, Groups((pad \div 2) * pad) \in G
    PROVE  RecordFFT2D(d, pad, pad, inverse) \in QuietParts(V, G)
<1>1. 0 \in V /\ 1 \in V
  OBVIOUS
<1>2. RecordFFT1D(d, pad, pad, 0, pad, inverse) \in QuietParts(V, G)
  BY <1>1, FFT1DPart
<1>3. RecordFFT1D(d, pad, pad, 1, pad, inverse) \in QuietParts(V, G)
  BY <1>1, FFT1DPart
<1>4. RecordFFT1D(d, pad, pad, 0, pad, inverse) \o RecordFFT1D(d, pad, pad, 1, pad, inverse)
         \in QuietParts(V, G)
  BY <1>2, <1>3, QuietTwice
<1> QED BY <1>4 DEF RecordFFT2D

\* The scan, the reduction and the result each wait for the one before.
LEMMA FindPeakPart ==
    ASSUME NEW V, NEW G, NEW params \in Seq(V), PeakWorkgroups \in G, 1 \in G
    PROVE  FindPeak(params) \in PeakParts(V, G)
<1> DEFINE update == <<Update(params)>>
           find   == <<Launch(PeakFind, PeakWorkgroups), Barrier({PeakScratch})>>
           reduce == <<Launch(PeakReduce, 1), Barrier({PeakScratch, Result})>>
           final  == <<Launch(PeakFinal, 1)>>
           front  == update \o find \o reduce
<1>1. /\ PeakFind \in PipelineSet /\ PeakReduce \in PipelineSet /\ PeakFinal \in PipelineSet
      /\ PeakFind.writes = PeakScratch /\ PeakReduce.writes = Result /\ PeakFinal.writes = Result
  BY PipelineSetHas DEF PeakFind, PeakReduce, PeakFinal, Pipeline
<1>2. {PeakScratch} \in SUBSET DeviceBuffers /\ {PeakScratch, Result} \in SUBSET DeviceBuffers
  BY BuffersAre
<1>3. update \in QuietParts(V, G)
  BY UpdatePart
<1>4. find \in QuietParts(V, G)
  BY <1>1, <1>2, LaunchAndBarrier
<1>5. reduce \in QuietParts(V, G)
  BY <1>1, <1>2, LaunchAndBarrier
<1>6. final \in Seq(Calls(V, G)) /\ Takes(Quiet, final, Pending(Result))
  <2>1. final \in Seq(Calls(V, G))
    BY <1>1, CallsAre, OnePart
  <2>2. Takes(Quiet, final, Pending(PeakFinal.writes))
    BY <1>1, PipelinesAre, LaunchAfterQuiet
  <2> QED BY <1>1, <2>1, <2>2
<1>7. FindPeak(params) = front \o final
  BY DEF FindPeak
<1> HIDE DEF update, find, reduce, final
<1>8. front \in QuietParts(V, G)
  <2>1. update \o find \in QuietParts(V, G)
    BY <1>3, <1>4, QuietTwice
  <2> QED BY <1>5, <2>1, QuietTwice
<1> HIDE DEF front
<1>9. front \o final \in Seq(Calls(V, G)) /\ Takes(Quiet, front \o final, Pending(Result))
  BY <1>6, <1>8, TakesOn DEF QuietParts
<1> QED BY <1>7, <1>9 DEF PeakParts

----------------------------------------------------------------------------
(* The phases of PhaseCorrelate. *)

\* The words and group counts of a call on images of a size.
ValuesOf(size, pad) == Int \cup {size.w, size.h, pad, pad * pad, Smaller(size.w, size.h)}

GroupsOf(pad) ==
    {Groups(pad * pad), Groups((pad \div 2) * pad), Groups((pad * pad) \div 2), PeakWorkgroups, 1}

CallsOf(size, pad)      == Calls(ValuesOf(size, pad), GroupsOf(pad))
QuietPartsOf(size, pad) == QuietParts(ValuesOf(size, pad), GroupsOf(pad))
PeakPartsOf(size, pad)  == PeakParts(ValuesOf(size, pad), GroupsOf(pad))

\* A phase of PhaseCorrelate has n parts, and its last one finds a peak.
PhaseOf(ps, n, size, pad) ==
    /\ DOMAIN ps = 1..n
    /\ \A k \in 1..(n - 1) : ps[k] \in QuietPartsOf(size, pad)
    /\ ps[n] \in PeakPartsOf(size, pad)
    /\ ps \in Seq(Seq(CallsOf(size, pad)))

LEMMA RotationPhase ==
    ASSUME NEW size, NEW pad
    PROVE  PhaseOf(RecordRotation(size, pad), 17, size, pad)
<1> DEFINE V == ValuesOf(size, pad)
           G == GroupsOf(pad)
           n == pad * pad
           p1 == StageWith(GrayPadParams(size, pad), GrayPad("A"), n)
           p2 == StageWith(GrayPadParams(size, pad), GrayPad("B"), n)
           p3 == RecordFFT2D(Complex("A"), pad, pad, 0)
           p4 == RecordFFT2D(Complex("B"), pad, pad, 0)
           p5 == StageWith(<<n>>, Magnitude("A"), n)
           p6 == Stage(Magnitude("B"), n)
           p7 == StageWith(<<pad, pad>>, Fftshift("A"), n \div 2)
           p8 == Stage(Fftshift("B"), n \div 2)
           p9 == Stage(Highpass("A"), n)
           p10 == Stage(Highpass("B"), n)
           p11 == StageWith(LogPolarParams(size, pad), LogPolar("A"), n)
           p12 == Stage(LogPolar("B"), n)
           p13 == RecordFFT2D(LogPol("A"), pad, pad, 0)
           p14 == RecordFFT2D(LogPol("B"), pad, pad, 0)
           p15 == StageWith(<<n, 1>>, Crosspower(LogPol("A"), LogPol("B")), n)
           p16 == RecordFFT2D(CrossPow, pad, pad, 1)
           p17 == FindPeak(PeakParams(pad, 0, 0, Smaller(size.w, size.h)))
           ps == RecordRotation(size, pad)
<1>1. /\ Int \subseteq V /\ pad \in V /\ n \in V /\ size.w \in V /\ size.h \in V
      /\ Smaller(size.w, size.h) \in V /\ 0 \in V /\ 1 \in V
  BY DEF ValuesOf
<1>2. /\ Groups(n) \in G /\ Groups(pad * pad) \in G /\ Groups((pad \div 2) * pad) \in G
      /\ Groups(n \div 2) \in G /\ PeakWorkgroups \in G /\ 1 \in G
  BY DEF GroupsOf
<1>3. /\ \A i \in {"A", "B"} : Complex(i) \in DeviceBuffers /\ LogPol(i) \in DeviceBuffers
      /\ CrossPow \in DeviceBuffers
  BY BuffersAre
<1>4. ps = << p1, p2, p3, p4, p5, p6, p7, p8, p9, p10, p11, p12, p13, p14, p15, p16, p17 >>
  BY DEF RecordRotation
<1> HIDE DEF V, G, ps
<1>5. p1 \in QuietParts(V, G)
  <2>1. GrayPadParams(size, pad) \in Seq(V)
    BY <1>1 DEF GrayPadParams
  <2> QED BY <1>2, <2>1, PipelineSetHas, StageWithPart
<1>6. p2 \in QuietParts(V, G)
  <2>1. GrayPadParams(size, pad) \in Seq(V)
    BY <1>1 DEF GrayPadParams
  <2> QED BY <1>2, <2>1, PipelineSetHas, StageWithPart
<1>7. p3 \in QuietParts(V, G)
  BY <1>1, <1>2, <1>3, FFT2DPart
<1>8. p4 \in QuietParts(V, G)
  BY <1>1, <1>2, <1>3, FFT2DPart
<1>9. p5 \in QuietParts(V, G)
  <2>1. <<n>> \in Seq(V)
    BY <1>1
  <2> QED BY <1>2, <2>1, PipelineSetHas, StageWithPart
<1>10. p6 \in QuietParts(V, G)
  BY <1>2, PipelineSetHas, StagePart
<1>11. p7 \in QuietParts(V, G)
  <2>1. <<pad, pad>> \in Seq(V)
    BY <1>1
  <2> QED BY <1>2, <2>1, PipelineSetHas, StageWithPart
<1>12. p8 \in QuietParts(V, G)
  BY <1>2, PipelineSetHas, StagePart
<1>13. p9 \in QuietParts(V, G)
  BY <1>2, PipelineSetHas, StagePart
<1>14. p10 \in QuietParts(V, G)
  BY <1>2, PipelineSetHas, StagePart
<1>15. p11 \in QuietParts(V, G)
  <2>1. LogPolarParams(size, pad) \in Seq(V)
    BY <1>1 DEF LogPolarParams
  <2> QED BY <1>2, <2>1, PipelineSetHas, StageWithPart
<1>16. p12 \in QuietParts(V, G)
  BY <1>2, PipelineSetHas, StagePart
<1>17. p13 \in QuietParts(V, G)
  BY <1>1, <1>2, <1>3, FFT2DPart
<1>18. p14 \in QuietParts(V, G)
  BY <1>1, <1>2, <1>3, FFT2DPart
<1>19. p15 \in QuietParts(V, G)
  <2>1. <<n, 1>> \in Seq(V)
    BY <1>1
  <2> QED BY <1>2, <2>1, PipelineSetHas, StageWithPart
<1>20. p16 \in QuietParts(V, G)
  BY <1>1, <1>2, <1>3, FFT2DPart
<1>21. p17 \in PeakParts(V, G)
  <2>1. PeakParams(pad, 0, 0, Smaller(size.w, size.h)) \in Seq(V)
    BY <1>1 DEF PeakParams
  <2> QED BY <1>2, <2>1, FindPeakPart
<1> HIDE DEF p1, p2, p3, p4, p5, p6, p7, p8, p9, p10, p11, p12, p13, p14, p15, p16, p17
<1>22. DOMAIN ps = 1..17 /\ ps[17] \in PeakParts(V, G)
  BY <1>4, <1>21
<1>23. \A k \in 1..16 : ps[k] \in QuietParts(V, G)
  <2>1. 1..16 = {1, 2, 3, 4, 5, 6, 7, 8, 9, 10, 11, 12, 13, 14, 15, 16}
    OBVIOUS
  <2> QED BY <1>4, <2>1, <1>5, <1>6, <1>7, <1>8, <1>9, <1>10, <1>11, <1>12, <1>13, <1>14, <1>15, <1>16, <1>17, <1>18, <1>19, <1>20
<1>24. ps \in Seq(Seq(Calls(V, G)))
  <2>1. QuietParts(V, G) \subseteq Seq(Calls(V, G)) /\ PeakParts(V, G) \subseteq Seq(Calls(V, G))
    BY DEF QuietParts, PeakParts
  <2>2. /\ p1 \in Seq(Calls(V, G))
        /\ p2 \in Seq(Calls(V, G))
        /\ p3 \in Seq(Calls(V, G))
        /\ p4 \in Seq(Calls(V, G))
        /\ p5 \in Seq(Calls(V, G))
        /\ p6 \in Seq(Calls(V, G))
        /\ p7 \in Seq(Calls(V, G))
        /\ p8 \in Seq(Calls(V, G))
        /\ p9 \in Seq(Calls(V, G))
        /\ p10 \in Seq(Calls(V, G))
        /\ p11 \in Seq(Calls(V, G))
        /\ p12 \in Seq(Calls(V, G))
        /\ p13 \in Seq(Calls(V, G))
        /\ p14 \in Seq(Calls(V, G))
        /\ p15 \in Seq(Calls(V, G))
        /\ p16 \in Seq(Calls(V, G))
        /\ p17 \in Seq(Calls(V, G))
    BY <2>1, <1>5, <1>6, <1>7, <1>8, <1>9, <1>10, <1>11, <1>12, <1>13, <1>14, <1>15, <1>16, <1>17, <1>18, <1>19, <1>20, <1>21
  <2> QED BY <1>4, <2>2
<1> QED BY <1>22, <1>23, <1>24 DEF PhaseOf, QuietPartsOf, PeakPartsOf, CallsOf, V, G, ps

LEMMA TranslationPhase ==
    ASSUME NEW size, NEW pad, NEW slot \in Int, NEW offset \in Int
    PROVE  PhaseOf(RecordTranslation(size, pad, slot, offset), 7, size, pad)
<1> DEFINE V == ValuesOf(size, pad)
           G == GroupsOf(pad)
           n == pad * pad
           p1 == StageWith(WarpParams(size, pad, slot), Warp, n)
           p2 == FreshComplexB(size, pad)
           p3 == RecordFFT2D(Complex("A"), pad, pad, 0)
           p4 == RecordFFT2D(Complex("B"), pad, pad, 0)
           p5 == StageWith(<<n, 1>>, Crosspower(Complex("A"), Complex("B")), n)
           p6 == RecordFFT2D(CrossPow, pad, pad, 1)
           p7 == FindPeak(PeakParams(pad, 1, offset, 0))
           ps == RecordTranslation(size, pad, slot, offset)
<1>1. /\ Int \subseteq V /\ pad \in V /\ n \in V /\ size.w \in V /\ size.h \in V
      /\ Smaller(size.w, size.h) \in V /\ 0 \in V /\ 1 \in V /\ slot \in V /\ offset \in V
  BY DEF ValuesOf
<1>2. /\ Groups(n) \in G /\ Groups(pad * pad) \in G /\ Groups((pad \div 2) * pad) \in G
      /\ Groups(n \div 2) \in G /\ PeakWorkgroups \in G /\ 1 \in G
  BY DEF GroupsOf
<1>3. /\ \A i \in {"A", "B"} : Complex(i) \in DeviceBuffers /\ LogPol(i) \in DeviceBuffers
      /\ CrossPow \in DeviceBuffers
  BY BuffersAre
<1>4. ps = << p1, p2, p3, p4, p5, p6, p7 >>
  BY DEF RecordTranslation
<1> HIDE DEF V, G, ps
<1>5. p1 \in QuietParts(V, G)
  <2>1. WarpParams(size, pad, slot) \in Seq(V)
    BY <1>1 DEF WarpParams, GrayPadParams
  <2> QED BY <1>2, <2>1, PipelineSetHas, StageWithPart
<1>6. p2 \in QuietParts(V, G)
  <2>1. GrayPadParams(size, pad) \in Seq(V)
    BY <1>1 DEF GrayPadParams
  <2> QED BY <1>2, <2>1, PipelineSetHas, StageWithPart DEF FreshComplexB
<1>7. p3 \in QuietParts(V, G)
  BY <1>1, <1>2, <1>3, FFT2DPart
<1>8. p4 \in QuietParts(V, G)
  BY <1>1, <1>2, <1>3, FFT2DPart
<1>9. p5 \in QuietParts(V, G)
  <2>1. <<n, 1>> \in Seq(V)
    BY <1>1
  <2> QED BY <1>2, <2>1, PipelineSetHas, StageWithPart
<1>10. p6 \in QuietParts(V, G)
  BY <1>1, <1>2, <1>3, FFT2DPart
<1>11. p7 \in PeakParts(V, G)
  <2>1. PeakParams(pad, 1, offset, 0) \in Seq(V)
    BY <1>1 DEF PeakParams
  <2> QED BY <1>2, <2>1, FindPeakPart
<1> HIDE DEF p1, p2, p3, p4, p5, p6, p7
<1>12. DOMAIN ps = 1..7 /\ ps[7] \in PeakParts(V, G)
  BY <1>4, <1>11
<1>13. \A k \in 1..6 : ps[k] \in QuietParts(V, G)
  <2>1. 1..6 = {1, 2, 3, 4, 5, 6}
    OBVIOUS
  <2> QED BY <1>4, <2>1, <1>5, <1>6, <1>7, <1>8, <1>9, <1>10
<1>14. ps \in Seq(Seq(Calls(V, G)))
  <2>1. QuietParts(V, G) \subseteq Seq(Calls(V, G)) /\ PeakParts(V, G) \subseteq Seq(Calls(V, G))
    BY DEF QuietParts, PeakParts
  <2>2. /\ p1 \in Seq(Calls(V, G))
        /\ p2 \in Seq(Calls(V, G))
        /\ p3 \in Seq(Calls(V, G))
        /\ p4 \in Seq(Calls(V, G))
        /\ p5 \in Seq(Calls(V, G))
        /\ p6 \in Seq(Calls(V, G))
        /\ p7 \in Seq(Calls(V, G))
    BY <2>1, <1>5, <1>6, <1>7, <1>8, <1>9, <1>10, <1>11
  <2> QED BY <1>4, <2>2
<1> QED BY <1>12, <1>13, <1>14 DEF PhaseOf, QuietPartsOf, PeakPartsOf, CallsOf, V, G, ps

----------------------------------------------------------------------------
(* All calls of PhaseCorrelate. *)

LEMMA PhaseTakes ==
    ASSUME NEW size, NEW pad, NEW n \in Nat \ {0}, NEW ps, PhaseOf(ps, n, size, pad)
    PROVE  PartsTake(Quiet, ps, Pending(Result)) /\ ps \in Seq(Seq(CallsOf(size, pad)))
<1>1. DOMAIN ps = 1..n /\ ps \in Seq(Seq(CallsOf(size, pad)))
  BY DEF PhaseOf
<1>2. \A k \in 1..(n - 1) : Takes(Quiet, ps[k], Quiet)
  BY DEF PhaseOf, QuietPartsOf, QuietParts
<1>3. Takes(Quiet, ps[n], Pending(Result))
  BY DEF PhaseOf, PeakPartsOf, PeakParts
<1> QED BY <1>1, <1>2, <1>3, PartsTakeAlong

LEMMA OnlyPart ==
    ASSUME NEW S, NEW cs \in Seq(S), NEW P, NEW Q, Takes(P, cs, Q)
    PROVE  PartsTake(P, <<cs>>, Q) /\ <<cs>> \in Seq(Seq(S))
<1> DEFINE n == 1
           ps == <<cs>>
<1>1. n \in Nat \ {0} /\ DOMAIN ps = 1..n /\ ps[n] = cs
  OBVIOUS
<1>2. 1..(n - 1) = {}
  OBVIOUS
<1>3. ps \in Seq(Seq(S))
  OBVIOUS
<1> HIDE DEF n, ps
<1>4. PartsTake(P, ps, Q)
  BY <1>1, <1>2, PartsTakeAlong
<1> QED BY <1>3, <1>4 DEF ps

\* The uploads and the two phases: all but the download.
BeforeDownload(size, pad) ==
    << <<Upload("A"), Upload("B")>> >>
    \o RecordRotation(size, pad) \o << <<Barrier({Result})>> >>
    \o RecordTranslation(size, pad, 0, 8) \o << <<Barrier({Result})>> >>
    \o RecordTranslation(size, pad, 1, 12)

LEMMA PartsBeforeDownload ==
    ASSUME NEW size, NEW pad
    PROVE  /\ BeforeDownload(size, pad) \in Seq(Seq(CallsOf(size, pad)))
           /\ PartsTake(Quiet, BeforeDownload(size, pad), Pending(Result))
<1> DEFINE S  == Seq(CallsOf(size, pad))
           uploads == <<Upload("A"), Upload("B")>>
           barrier == <<Barrier({Result})>>
           p1 == << uploads >>
           p2 == RecordRotation(size, pad)
           p3 == << barrier >>
           p4 == RecordTranslation(size, pad, 0, 8)
           p6 == RecordTranslation(size, pad, 1, 12)
<1>1. CallsOf(size, pad) = Calls(ValuesOf(size, pad), GroupsOf(pad))
  BY DEF CallsOf
<1>2. uploads \in S /\ Takes(Quiet, uploads, Quiet)
  <2>1. Rgba("A") \in DeviceBuffers /\ Rgba("B") \in DeviceBuffers
    BY BuffersAre
  <2>2. Takes(Quiet, <<Upload("A")>>, Quiet) /\ Takes(Quiet, <<Upload("B")>>, Quiet)
    BY <2>1, UploadSettles
  <2>3. <<Upload("A")>> \in S /\ <<Upload("B")>> \in S
    BY <1>1, CallsAre, OnePart
  <2>4. /\ <<Upload("A")>> \o <<Upload("B")>> \in S
        /\ Takes(Quiet, <<Upload("A")>> \o <<Upload("B")>>, Quiet)
    BY <2>2, <2>3, TakesOn
  <2>5. uploads = <<Upload("A")>> \o <<Upload("B")>>
    OBVIOUS
  <2> QED BY <2>4, <2>5
<1>3. barrier \in S /\ Takes(Pending(Result), barrier, Quiet)
  <2>1. Result \in {Result} /\ {Result} \in SUBSET DeviceBuffers
    BY BuffersAre
  <2>2. barrier \in S
    BY <1>1, <2>1, CallsAre, OnePart
  <2>3. Takes(Pending(Result), barrier, Quiet)
    BY <2>1, BarrierSettles
  <2> QED BY <2>2, <2>3
<1> HIDE DEF uploads, barrier
<1>4. p1 \in Seq(S) /\ PartsTake(Quiet, p1, Quiet)
  BY <1>2, OnlyPart
<1>5. p2 \in Seq(S) /\ PartsTake(Quiet, p2, Pending(Result))
  <2>1. 17 \in Nat \ {0}
    OBVIOUS
  <2> QED BY <2>1, RotationPhase, PhaseTakes
<1>6. p3 \in Seq(S) /\ PartsTake(Pending(Result), p3, Quiet)
  BY <1>3, OnlyPart
<1>7. p4 \in Seq(S) /\ PartsTake(Quiet, p4, Pending(Result))
  <2>1. 7 \in Nat \ {0} /\ 0 \in Int /\ 8 \in Int
    OBVIOUS
  <2>2. PhaseOf(p4, 7, size, pad)
    BY <2>1, TranslationPhase
  <2> QED BY <2>1, <2>2, PhaseTakes
<1>8. p6 \in Seq(S) /\ PartsTake(Quiet, p6, Pending(Result))
  <2>1. 7 \in Nat \ {0} /\ 1 \in Int /\ 12 \in Int
    OBVIOUS
  <2>2. PhaseOf(p6, 7, size, pad)
    BY <2>1, TranslationPhase
  <2> QED BY <2>1, <2>2, PhaseTakes
<1>9. BeforeDownload(size, pad) = p1 \o p2 \o p3 \o p4 \o p3 \o p6
  BY DEF BeforeDownload, uploads, barrier
<1> HIDE DEF S, p1, p2, p3, p4, p6
<1>10. p1 \o p2 \in Seq(S) /\ PartsTake(Quiet, p1 \o p2, Pending(Result))
  BY <1>4, <1>5, PartsTakeOn
<1>11. p1 \o p2 \o p3 \in Seq(S) /\ PartsTake(Quiet, p1 \o p2 \o p3, Quiet)
  BY <1>6, <1>10, PartsTakeOn
<1>12. p1 \o p2 \o p3 \o p4 \in Seq(S) /\ PartsTake(Quiet, p1 \o p2 \o p3 \o p4, Pending(Result))
  BY <1>7, <1>11, PartsTakeOn
<1>13. p1 \o p2 \o p3 \o p4 \o p3 \in Seq(S) /\ PartsTake(Quiet, p1 \o p2 \o p3 \o p4 \o p3, Quiet)
  BY <1>6, <1>12, PartsTakeOn
<1>14. /\ p1 \o p2 \o p3 \o p4 \o p3 \o p6 \in Seq(S)
       /\ PartsTake(Quiet, p1 \o p2 \o p3 \o p4 \o p3 \o p6, Pending(Result))
  BY <1>8, <1>13, PartsTakeOn
<1> QED BY <1>9, <1>14 DEF S

\* Whatever the size and the padding, no two commands of a call may overlap and conflict.
LEMMA CallsAreOrdered ==
    ASSUME NEW size, NEW pad
    PROVE  Races(Parts(size, pad)) = {}
<1> DEFINE S == Seq(CallsOf(size, pad))
           front == BeforeDownload(size, pad)
           download == <<Download>>
           back == << download >>
           start == [run |-> NothingRun, place |-> 1]
<1>1. front \in Seq(S) /\ PartsTake(Quiet, front, Pending(Result))
  BY PartsBeforeDownload
<1>2. back \in Seq(S) /\ PartsTake(Pending(Result), back, Ordered)
  <2>1. download \in S
    BY CallsAre, OnePart DEF CallsOf
  <2> QED BY <2>1, DownloadWaits, OnlyPart
<1>3. Parts(size, pad) = front \o back
  BY DEF Parts, BeforeDownload
<1>4. start \in Quiet
  BY DEF Quiet, Recording, NothingRun, Queues
<1>5. Races(Parts(size, pad)) = RunParts(start, Parts(size, pad)).run.races
  BY DEF Races, RunParts
<1> HIDE DEF S, front, back, start, download
<1>6. PartsTake(Quiet, front \o back, Ordered)
  BY <1>1, <1>2, PartsTakeOn
<1>7. RunParts(start, front \o back) \in Ordered
  BY <1>4, <1>6 DEF PartsTake
<1> QED BY <1>3, <1>5, <1>7 DEF Ordered

\* The schedule is a sequence of such calls that ends with the download.
ScheduleOf(cs, size, pad) ==
    /\ cs \in Seq(CallsOf(size, pad)) /\ Len(cs) > 0
    /\ cs[Len(cs)] = Download

LEMMA SchedulesAre ==
    ASSUME NEW size, NEW pad
    PROVE  ScheduleOf(Schedule(size, pad), size, pad)
<1> DEFINE S == CallsOf(size, pad)
           front == BeforeDownload(size, pad)
           download == <<Download>>
           back == << download >>
           ps == Parts(size, pad)
           n == Len(ps)
<1>1. front \in Seq(Seq(S))
  BY PartsBeforeDownload
<1>2. download \in Seq(S) /\ back \in Seq(Seq(S)) /\ Len(back) = 1 /\ back[1] = download
  <2>1. download \in Seq(S)
    BY CallsAre, OnePart DEF CallsOf
  <2> QED BY <2>1
<1>3. ps = front \o << download >> /\ download = << Download >> /\ Download \in S
  BY CallsAre DEF Parts, BeforeDownload, CallsOf
<1> HIDE DEF front, back, ps, S, download
<1>4. ps \in Seq(Seq(S)) /\ ps[n] = download /\ n \in Nat \ {0}
  <2>1. /\ front \o << download >> \in Seq(Seq(S)) /\ Len(front) \in Nat
        /\ Len(front \o << download >>) = Len(front) + 1
        /\ (front \o << download >>)[Len(front) + 1] = download
    BY <1>1, <1>2, OneBehind
  <2>2. n = Len(front) + 1
    BY <1>3, <2>1
  <2> QED BY <1>3, <2>1, <2>2
<1>5. \A k \in 1..n : ps[k] \in Seq(S)
  BY <1>4
<1>6. n = Len(ps)
  OBVIOUS
<1> HIDE DEF n
<1>7. PICK G : FlattenTrace(G, ps, n)
  BY <1>4, <1>6, FlattenFold
<1> DEFINE Good == {0} \cup {k \in 1..n : G[k] \in Seq(S)}
<1>8. n - 1 \in Good
  <2>1. ASSUME NEW k \in 1..(n - 1), k - 1 \in Good
        PROVE  k \in Good
    <3>1. k \in 1..n
      BY <1>4
    <3>2. G[k] = IF k = 1 THEN ps[1] ELSE G[k - 1] \o ps[k]
      BY <1>7, <3>1 DEF FlattenTrace
    <3>3. CASE k = 1
      BY <1>5, <3>1, <3>2, <3>3
    <3>4. CASE k # 1
      <4>1. G[k - 1] \in Seq(S) /\ ps[k] \in Seq(S)
        BY <1>5, <2>1, <3>1, <3>4
      <4>2. G[k - 1] \o ps[k] \in Seq(S)
        BY <4>1
      <4> QED BY <3>1, <3>2, <3>4, <4>2
    <3> QED BY <3>3, <3>4
  <2>2. n - 1 \in Nat /\ 0 \in Good /\ n - 1 \in 0..(n - 1)
    BY <1>4
  <2> HIDE DEF Good
  <2>3. 0..(n - 1) \subseteq Good
    BY <2>1, <2>2, SetInduction
  <2> QED BY <2>2, <2>3
<1>9. G[n] = IF n = 1 THEN ps[1] ELSE G[n - 1] \o ps[n]
  <2>1. n \in 1..n
    BY <1>4
  <2> QED BY <1>7, <2>1 DEF FlattenTrace
<1>10. Schedule(size, pad) = G[n]
  BY <1>7 DEF Schedule, FlattenTrace, ps
<1>11. G[n] \in Seq(S) /\ Len(G[n]) > 0 /\ G[n][Len(G[n])] = Download
  <2>1. << >> \in Seq(S)
    OBVIOUS
  <2>2. PICK xs \in Seq(S) : G[n] = xs \o << Download >>
    <3>1. CASE n = 1
      <4>1. G[n] = << Download >> /\ << >> \o << Download >> = << Download >>
        BY <1>3, <1>4, <1>9, <3>1
      <4> QED BY <2>1, <4>1
    <3>2. CASE n # 1
      <4>1. G[n - 1] \in Seq(S)
        BY <1>4, <1>8, <3>2
      <4>2. G[n] = G[n - 1] \o << Download >>
        BY <1>3, <1>4, <1>9, <3>2
      <4> QED BY <4>1, <4>2
    <3> QED BY <3>1, <3>2
  <2>3. /\ xs \o << Download >> \in Seq(S) /\ Len(xs) \in Nat
        /\ Len(xs \o << Download >>) = Len(xs) + 1
        /\ (xs \o << Download >>)[Len(xs) + 1] = Download
    BY <1>3, <2>2, OneBehind
  <2> QED BY <2>2, <2>3
<1> QED BY <1>10, <1>11 DEF ScheduleOf, S

----------------------------------------------------------------------------
(* The contents of the buffers after calls and parts. *)

\* The contents of the buffers after the calls of a part, after a part and after parts, on
\* images of a size.
PerformCalls(mem, cs, images, size) == FoldLeft(LAMBDA m, c : Perform(m, c, images, size), mem, cs)
PerformPart(mem, cs, images, size) ==
    CHOOSE x \in {FoldLeft(LAMBDA m, c : Perform(m, c, images, size), d, cs) : d \in {mem}} : TRUE
PerformParts(mem, ps, images, size) == FoldParts(LAMBDA m, c : Perform(m, c, images, size), mem, ps)

LEMMA PerformedPart ==
    ASSUME NEW mem, NEW cs, NEW images, NEW size
    PROVE  PerformPart(mem, cs, images, size) = PerformCalls(mem, cs, images, size)
BY DEF PerformPart, PerformCalls

\* The contents from call to call.
PerformTrace(F, mem, cs, images, size, n) ==
    /\ F[0] = mem
    /\ \A k \in 1..n : F[k] = Perform(F[k - 1], cs[k], images, size)
    /\ F[n] = PerformCalls(mem, cs, images, size)

LEMMA PerformFold ==
    ASSUME NEW mem, NEW cs, NEW images, NEW size, NEW n \in Nat, DOMAIN cs = 1..n
    PROVE  \E F : PerformTrace(F, mem, cs, images, size, n)
<1> DEFINE Rhs(g, s) == IF s = {} THEN mem ELSE Perform(g[s \ {Max(s)}], cs[Max(s)], images, size)
           S == {k \in 0..n : \E g : g = [s \in SUBSET (1..k) |-> Rhs(g, s)]}
<1>1. 0 \in S
  <2> DEFINE g == [s \in SUBSET (1..0) |-> mem]
  <2>1. \A s \in SUBSET (1..0) : s = {}
    OBVIOUS
  <2>2. g = [s \in SUBSET (1..0) |-> Rhs(g, s)]
    BY <2>1
  <2> HIDE DEF g
  <2>3. \E f : f = [s \in SUBSET (1..0) |-> Rhs(f, s)]
    BY <2>2
  <2>4. 0 \in 0..n
    OBVIOUS
  <2> QED BY <2>3, <2>4
<1>2. ASSUME NEW k \in 1..n, k - 1 \in S
      PROVE  k \in S
  <2>1. PICK g : g = [s \in SUBSET (1..(k - 1)) |-> Rhs(g, s)]
    BY <1>2
  <2> DEFINE h == [s \in SUBSET (1..k) |-> IF k \in s THEN Perform(g[s \ {k}], cs[k], images, size) ELSE g[s]]
  <2>2. \A s \in SUBSET (1..(k - 1)) : g[s] = Rhs(g, s)
    BY <2>1
  <2>3. ASSUME NEW s \in SUBSET (1..k)
        PROVE  h[s] = Rhs(h, s)
    <3>1. CASE k \in s
      <4>1. Max(s) = k /\ s # {}
        BY <3>1, MaxOfInterval
      <4>2. s \ {k} \in SUBSET (1..k) /\ h[s \ {k}] = g[s \ {k}]
        OBVIOUS
      <4> QED BY <3>1, <4>1, <4>2
    <3>2. CASE k \notin s
      <4>1. s \in SUBSET (1..(k - 1)) /\ h[s] = g[s]
        BY <3>2
      <4>2. s \ {Max(s)} \in SUBSET (1..k) /\ h[s \ {Max(s)}] = g[s \ {Max(s)}]
        BY <3>2
      <4> QED BY <2>2, <4>1, <4>2
    <3> QED BY <3>1, <3>2
  <2>4. h = [s \in SUBSET (1..k) |-> Rhs(h, s)]
    BY <2>3
  <2> HIDE DEF h
  <2>5. \E f : f = [s \in SUBSET (1..k) |-> Rhs(f, s)]
    BY <2>4
  <2>6. k \in 0..n
    OBVIOUS
  <2> QED BY <2>5, <2>6
<1>3. n \in S
  <2> HIDE DEF S
  <2> QED BY <1>1, <1>2, SetInduction
<1>4. PICK g : /\ g = [s \in SUBSET (1..n) |-> Rhs(g, s)]
               /\ PerformCalls(mem, cs, images, size) = g[1..n]
  <2> DEFINE iter == CHOOSE g : g = [s \in SUBSET (1..n) |-> Rhs(g, s)]
  <2>1. iter = [s \in SUBSET (1..n) |-> Rhs(iter, s)]
    <3>1. \E g : g = [s \in SUBSET (1..n) |-> Rhs(g, s)]
      BY <1>3
    <3> QED BY <3>1
  <2>2. PerformCalls(mem, cs, images, size) = iter[1..n]
    BY DEF PerformCalls, FoldLeft, MapThenFoldSet
  <2> QED BY <2>1, <2>2
<1> DEFINE F == [k \in 0..n |-> g[1..k]]
<1>5. F[0] = mem
  <2>1. 1..0 = {}
    OBVIOUS
  <2> QED BY <1>4, <2>1
<1>6. ASSUME NEW k \in 1..n
      PROVE  F[k] = Perform(F[k - 1], cs[k], images, size)
  <2>1. Max(1..k) = k
    BY MaxOfInterval
  <2>2. (1..k) \ {k} = 1..(k - 1)
    OBVIOUS
  <2>3. 1..k # {} /\ 1..k \in SUBSET (1..n)
    <3>1. k \in 1..k
      OBVIOUS
    <3>2. \A j \in 1..k : j \in 1..n
      OBVIOUS
    <3> QED BY <3>1, <3>2
  <2>4. g[1..k] = Perform(g[1..(k - 1)], cs[k], images, size)
    BY <1>4, <2>1, <2>2, <2>3
  <2>5. F[k] = g[1..k] /\ F[k - 1] = g[1..(k - 1)]
    OBVIOUS
  <2> QED BY <2>4, <2>5
<1>7. F[n] = g[1..n]
  OBVIOUS
<1> HIDE DEF F
<1>8. PerformTrace(F, mem, cs, images, size, n)
  BY <1>4, <1>5, <1>6, <1>7 DEF PerformTrace
<1> QED BY <1>8

\* The contents from part to part.
PerformPartsTrace(F, mem, ps, images, size, n) ==
    /\ F[0] = mem
    /\ \A k \in 1..n : F[k] = PerformPart(F[k - 1], ps[k], images, size)
    /\ F[n] = PerformParts(mem, ps, images, size)

LEMMA PerformPartsFold ==
    ASSUME NEW mem, NEW ps, NEW images, NEW size, NEW n \in Nat, DOMAIN ps = 1..n
    PROVE  \E F : PerformPartsTrace(F, mem, ps, images, size, n)
<1> DEFINE Rhs(g, s) == IF s = {} THEN mem ELSE PerformPart(g[s \ {Max(s)}], ps[Max(s)], images, size)
           S == {k \in 0..n : \E g : g = [s \in SUBSET (1..k) |-> Rhs(g, s)]}
<1>1. 0 \in S
  <2> DEFINE g == [s \in SUBSET (1..0) |-> mem]
  <2>1. \A s \in SUBSET (1..0) : s = {}
    OBVIOUS
  <2>2. g = [s \in SUBSET (1..0) |-> Rhs(g, s)]
    BY <2>1
  <2> HIDE DEF g
  <2>3. \E f : f = [s \in SUBSET (1..0) |-> Rhs(f, s)]
    BY <2>2
  <2>4. 0 \in 0..n
    OBVIOUS
  <2> QED BY <2>3, <2>4
<1>2. ASSUME NEW k \in 1..n, k - 1 \in S
      PROVE  k \in S
  <2>1. PICK g : g = [s \in SUBSET (1..(k - 1)) |-> Rhs(g, s)]
    BY <1>2
  <2> DEFINE h == [s \in SUBSET (1..k) |-> IF k \in s THEN PerformPart(g[s \ {k}], ps[k], images, size) ELSE g[s]]
  <2>2. \A s \in SUBSET (1..(k - 1)) : g[s] = Rhs(g, s)
    BY <2>1
  <2>3. ASSUME NEW s \in SUBSET (1..k)
        PROVE  h[s] = Rhs(h, s)
    <3>1. CASE k \in s
      <4>1. Max(s) = k /\ s # {}
        BY <3>1, MaxOfInterval
      <4>2. s \ {k} \in SUBSET (1..k) /\ h[s \ {k}] = g[s \ {k}]
        OBVIOUS
      <4> QED BY <3>1, <4>1, <4>2
    <3>2. CASE k \notin s
      <4>1. s \in SUBSET (1..(k - 1)) /\ h[s] = g[s]
        BY <3>2
      <4>2. s \ {Max(s)} \in SUBSET (1..k) /\ h[s \ {Max(s)}] = g[s \ {Max(s)}]
        BY <3>2
      <4> QED BY <2>2, <4>1, <4>2
    <3> QED BY <3>1, <3>2
  <2>4. h = [s \in SUBSET (1..k) |-> Rhs(h, s)]
    BY <2>3
  <2> HIDE DEF h
  <2>5. \E f : f = [s \in SUBSET (1..k) |-> Rhs(f, s)]
    BY <2>4
  <2>6. k \in 0..n
    OBVIOUS
  <2> QED BY <2>5, <2>6
<1>3. n \in S
  <2> HIDE DEF S
  <2> QED BY <1>1, <1>2, SetInduction
<1>4. PICK g : /\ g = [s \in SUBSET (1..n) |-> Rhs(g, s)]
               /\ PerformParts(mem, ps, images, size) = g[1..n]
  <2> DEFINE iter == CHOOSE g : g = [s \in SUBSET (1..n) |-> Rhs(g, s)]
  <2>1. iter = [s \in SUBSET (1..n) |-> Rhs(iter, s)]
    <3>1. \E g : g = [s \in SUBSET (1..n) |-> Rhs(g, s)]
      BY <1>3
    <3> QED BY <3>1
  <2>2. PerformParts(mem, ps, images, size) = iter[1..n]
    BY DEF PerformParts, PerformPart, FoldParts, FoldLeft, MapThenFoldSet
  <2> QED BY <2>1, <2>2
<1> DEFINE F == [k \in 0..n |-> g[1..k]]
<1>5. F[0] = mem
  <2>1. 1..0 = {}
    OBVIOUS
  <2> QED BY <1>4, <2>1
<1>6. ASSUME NEW k \in 1..n
      PROVE  F[k] = PerformPart(F[k - 1], ps[k], images, size)
  <2>1. Max(1..k) = k
    BY MaxOfInterval
  <2>2. (1..k) \ {k} = 1..(k - 1)
    OBVIOUS
  <2>3. 1..k # {} /\ 1..k \in SUBSET (1..n)
    <3>1. k \in 1..k
      OBVIOUS
    <3>2. \A j \in 1..k : j \in 1..n
      OBVIOUS
    <3> QED BY <3>1, <3>2
  <2>4. g[1..k] = PerformPart(g[1..(k - 1)], ps[k], images, size)
    BY <1>4, <2>1, <2>2, <2>3
  <2>5. F[k] = g[1..k] /\ F[k - 1] = g[1..(k - 1)]
    OBVIOUS
  <2> QED BY <2>4, <2>5
<1>7. F[n] = g[1..n]
  OBVIOUS
<1> HIDE DEF F
<1>8. PerformPartsTrace(F, mem, ps, images, size, n)
  BY <1>4, <1>5, <1>6, <1>7 DEF PerformPartsTrace
<1> QED BY <1>8

\* A pass of a transform.
Pass(v, k, w, lines, axis, stride, inverse) ==
    Term("fft_butterfly", <<v>>, <<k - 1, w, lines, axis, stride, inverse>>)

\* A transform of the reference from pass to pass.
PassTrace(F, values, w, lines, axis, stride, inverse, n) ==
    /\ F[0] = Term("fft_bitrev", <<values>>, <<w, lines, Log2(w), axis, stride>>)
    /\ \A k \in 1..n : F[k] = Pass(F[k - 1], [i \in 1..Log2(w) |-> i][k], w, lines, axis, stride, inverse)
    /\ F[n] = FFT1DCPU(values, w, lines, axis, stride, inverse)

LEMMA PassFold ==
    ASSUME NEW values, NEW w, NEW lines, NEW axis, NEW stride, NEW inverse, NEW n \in Nat, n = Log2(w)
    PROVE  \E F : PassTrace(F, values, w, lines, axis, stride, inverse, n)
<1> DEFINE Rhs(g, s) == IF s = {} THEN Term("fft_bitrev", <<values>>, <<w, lines, Log2(w), axis, stride>>) ELSE Pass(g[s \ {Max(s)}], [i \in 1..Log2(w) |-> i][Max(s)], w, lines, axis, stride, inverse)
           S == {k \in 0..n : \E g : g = [s \in SUBSET (1..k) |-> Rhs(g, s)]}
<1>1. 0 \in S
  <2> DEFINE g == [s \in SUBSET (1..0) |-> Term("fft_bitrev", <<values>>, <<w, lines, Log2(w), axis, stride>>)]
  <2>1. \A s \in SUBSET (1..0) : s = {}
    OBVIOUS
  <2>2. g = [s \in SUBSET (1..0) |-> Rhs(g, s)]
    BY <2>1
  <2> HIDE DEF g
  <2>3. \E f : f = [s \in SUBSET (1..0) |-> Rhs(f, s)]
    BY <2>2
  <2>4. 0 \in 0..n
    OBVIOUS
  <2> QED BY <2>3, <2>4
<1>2. ASSUME NEW k \in 1..n, k - 1 \in S
      PROVE  k \in S
  <2>1. PICK g : g = [s \in SUBSET (1..(k - 1)) |-> Rhs(g, s)]
    BY <1>2
  <2> DEFINE h == [s \in SUBSET (1..k) |-> IF k \in s THEN Pass(g[s \ {k}], [i \in 1..Log2(w) |-> i][k], w, lines, axis, stride, inverse) ELSE g[s]]
  <2>2. \A s \in SUBSET (1..(k - 1)) : g[s] = Rhs(g, s)
    BY <2>1
  <2>3. ASSUME NEW s \in SUBSET (1..k)
        PROVE  h[s] = Rhs(h, s)
    <3>1. CASE k \in s
      <4>1. Max(s) = k /\ s # {}
        BY <3>1, MaxOfInterval
      <4>2. s \ {k} \in SUBSET (1..k) /\ h[s \ {k}] = g[s \ {k}]
        OBVIOUS
      <4> QED BY <3>1, <4>1, <4>2
    <3>2. CASE k \notin s
      <4>1. s \in SUBSET (1..(k - 1)) /\ h[s] = g[s]
        BY <3>2
      <4>2. s \ {Max(s)} \in SUBSET (1..k) /\ h[s \ {Max(s)}] = g[s \ {Max(s)}]
        BY <3>2
      <4> QED BY <2>2, <4>1, <4>2
    <3> QED BY <3>1, <3>2
  <2>4. h = [s \in SUBSET (1..k) |-> Rhs(h, s)]
    BY <2>3
  <2> HIDE DEF h
  <2>5. \E f : f = [s \in SUBSET (1..k) |-> Rhs(f, s)]
    BY <2>4
  <2>6. k \in 0..n
    OBVIOUS
  <2> QED BY <2>5, <2>6
<1>3. n \in S
  <2> HIDE DEF S
  <2> QED BY <1>1, <1>2, SetInduction
<1>4. PICK g : /\ g = [s \in SUBSET (1..n) |-> Rhs(g, s)]
               /\ FFT1DCPU(values, w, lines, axis, stride, inverse) = g[1..n]
  <2> DEFINE iter == CHOOSE g : g = [s \in SUBSET (1..n) |-> Rhs(g, s)]
  <2>1. iter = [s \in SUBSET (1..n) |-> Rhs(iter, s)]
    <3>1. \E g : g = [s \in SUBSET (1..n) |-> Rhs(g, s)]
      BY <1>3
    <3> QED BY <3>1
  <2>2. FFT1DCPU(values, w, lines, axis, stride, inverse) = iter[1..n]
    BY DEF FFT1DCPU, Pass, FoldLeft, MapThenFoldSet
  <2> QED BY <2>1, <2>2
<1> DEFINE F == [k \in 0..n |-> g[1..k]]
<1>5. F[0] = Term("fft_bitrev", <<values>>, <<w, lines, Log2(w), axis, stride>>)
  <2>1. 1..0 = {}
    OBVIOUS
  <2> QED BY <1>4, <2>1
<1>6. ASSUME NEW k \in 1..n
      PROVE  F[k] = Pass(F[k - 1], [i \in 1..Log2(w) |-> i][k], w, lines, axis, stride, inverse)
  <2>1. Max(1..k) = k
    BY MaxOfInterval
  <2>2. (1..k) \ {k} = 1..(k - 1)
    OBVIOUS
  <2>3. 1..k # {} /\ 1..k \in SUBSET (1..n)
    <3>1. k \in 1..k
      OBVIOUS
    <3>2. \A j \in 1..k : j \in 1..n
      OBVIOUS
    <3> QED BY <3>1, <3>2
  <2>4. g[1..k] = Pass(g[1..(k - 1)], [i \in 1..Log2(w) |-> i][k], w, lines, axis, stride, inverse)
    BY <1>4, <2>1, <2>2, <2>3
  <2>5. F[k] = g[1..k] /\ F[k - 1] = g[1..(k - 1)]
    OBVIOUS
  <2> QED BY <2>4, <2>5
<1>7. F[n] = g[1..n]
  OBVIOUS
<1> HIDE DEF F
<1>8. PassTrace(F, values, w, lines, axis, stride, inverse, n)
  BY <1>4, <1>5, <1>6, <1>7 DEF PassTrace
<1> QED BY <1>8

LEMMA PerformedJoined ==
    ASSUME NEW S, NEW cs \in Seq(S), NEW ds \in Seq(S), NEW mem, NEW images, NEW size
    PROVE  PerformCalls(mem, cs \o ds, images, size) = PerformCalls(PerformCalls(mem, cs, images, size), ds, images, size)
<1> DEFINE m == Len(cs)
           n == Len(ds)
           both == cs \o ds
<1>1. /\ m \in Nat /\ n \in Nat /\ m + n \in Nat
      /\ DOMAIN cs = 1..m /\ DOMAIN ds = 1..n /\ DOMAIN both = 1..(m + n)
      /\ \A k \in 1..m : both[k] = cs[k]
      /\ \A k \in 1..n : both[m + k] = ds[k]
  OBVIOUS
<1> HIDE DEF m, n, both
<1>2. PICK F : PerformTrace(F, mem, both, images, size, m + n)
  BY <1>1, PerformFold
<1>3. PICK F1 : PerformTrace(F1, mem, cs, images, size, m)
  BY <1>1, PerformFold
<1>4. PICK F2 : PerformTrace(F2, PerformCalls(mem, cs, images, size), ds, images, size, n)
  BY <1>1, PerformFold
<1> DEFINE First == {k \in 0..m : F[k] = F1[k]}
           Then  == {k \in 0..n : F[m + k] = F2[k]}
<1>5. m \in First
  <2>1. 0 \in First
    BY <1>1, <1>2, <1>3 DEF PerformTrace
  <2>2. ASSUME NEW k \in 1..m, k - 1 \in First
        PROVE  k \in First
    <3>1. F[k] = Perform(F[k - 1], cs[k], images, size)
      <4>1. k \in 1..(m + n) /\ both[k] = cs[k]
        BY <1>1
      <4> QED BY <1>2, <4>1 DEF PerformTrace
    <3>2. F1[k] = Perform(F1[k - 1], cs[k], images, size)
      BY <1>3 DEF PerformTrace
    <3>3. k \in 0..m
      BY <1>1
    <3> QED BY <2>2, <3>1, <3>2, <3>3
  <2>3. m \in 0..m
    BY <1>1
  <2> HIDE DEF First
  <2> QED BY <1>1, <2>1, <2>2, <2>3, SetInduction
<1>6. n \in Then
  <2>1. 0 \in Then
    <3>1. m + 0 = m /\ 0 \in 0..n
      BY <1>1
    <3> QED BY <1>3, <1>4, <1>5, <3>1 DEF PerformTrace
  <2>2. ASSUME NEW k \in 1..n, k - 1 \in Then
        PROVE  k \in Then
    <3>1. F[m + k] = Perform(F[m + (k - 1)], ds[k], images, size)
      <4>1. m + k \in 1..(m + n) /\ both[m + k] = ds[k] /\ (m + k) - 1 = m + (k - 1)
        BY <1>1
      <4> QED BY <1>2, <4>1 DEF PerformTrace
    <3>2. F2[k] = Perform(F2[k - 1], ds[k], images, size)
      BY <1>4 DEF PerformTrace
    <3>3. k \in 0..n
      BY <1>1
    <3> QED BY <2>2, <3>1, <3>2, <3>3
  <2>3. n \in 0..n
    BY <1>1
  <2> HIDE DEF Then
  <2> QED BY <1>1, <2>1, <2>2, <2>3, SetInduction
<1>7. PerformCalls(mem, both, images, size) = F2[n]
  BY <1>2, <1>6 DEF PerformTrace
<1> QED BY <1>4, <1>7 DEF PerformTrace, both

LEMMA NothingPerformed ==
    ASSUME NEW mem, NEW images, NEW size
    PROVE  PerformCalls(mem, << >>, images, size) = mem
<1>1. DOMAIN << >> = 1..0 /\ 0 \in Nat
  OBVIOUS
<1>2. PICK F : PerformTrace(F, mem, << >>, images, size, 0)
  BY <1>1, PerformFold
<1> QED BY <1>2 DEF PerformTrace

LEMMA OnePerformed ==
    ASSUME NEW mem, NEW images, NEW size, NEW c
    PROVE  PerformCalls(mem, <<c>>, images, size) = Perform(mem, c, images, size)
<1> DEFINE n == 1
           cs == <<c>>
<1>1. n \in Nat /\ DOMAIN cs = 1..n /\ cs[1] = c
  OBVIOUS
<1>2. n = 1 /\ 1 \in 1..n /\ 1 - 1 = 0
  OBVIOUS
<1> HIDE DEF n, cs
<1>3. PICK F : PerformTrace(F, mem, cs, images, size, n)
  BY <1>1, PerformFold
<1>4. PerformCalls(mem, cs, images, size) = Perform(mem, c, images, size)
  BY <1>1, <1>2, <1>3 DEF PerformTrace
<1> QED BY <1>4 DEF cs

LEMMA PerformedParts ==
    ASSUME NEW S, NEW ps \in Seq(S), NEW rs \in Seq(S), NEW mem, NEW images, NEW size
    PROVE  PerformParts(mem, ps \o rs, images, size) = PerformParts(PerformParts(mem, ps, images, size), rs, images, size)
<1> DEFINE m == Len(ps)
           n == Len(rs)
           both == ps \o rs
<1>1. /\ m \in Nat /\ n \in Nat /\ m + n \in Nat
      /\ DOMAIN ps = 1..m /\ DOMAIN rs = 1..n /\ DOMAIN both = 1..(m + n)
      /\ \A k \in 1..m : both[k] = ps[k]
      /\ \A k \in 1..n : both[m + k] = rs[k]
  OBVIOUS
<1> HIDE DEF m, n, both
<1>2. PICK F : PerformPartsTrace(F, mem, both, images, size, m + n)
  BY <1>1, PerformPartsFold
<1>3. PICK F1 : PerformPartsTrace(F1, mem, ps, images, size, m)
  BY <1>1, PerformPartsFold
<1>4. PICK F2 : PerformPartsTrace(F2, PerformParts(mem, ps, images, size), rs, images, size, n)
  BY <1>1, PerformPartsFold
<1> DEFINE First == {k \in 0..m : F[k] = F1[k]}
           Then  == {k \in 0..n : F[m + k] = F2[k]}
<1>5. m \in First
  <2>1. 0 \in First
    BY <1>1, <1>2, <1>3 DEF PerformPartsTrace
  <2>2. ASSUME NEW k \in 1..m, k - 1 \in First
        PROVE  k \in First
    <3>1. F[k] = PerformPart(F[k - 1], ps[k], images, size)
      <4>1. k \in 1..(m + n) /\ both[k] = ps[k]
        BY <1>1
      <4> QED BY <1>2, <4>1 DEF PerformPartsTrace
    <3>2. F1[k] = PerformPart(F1[k - 1], ps[k], images, size)
      BY <1>3 DEF PerformPartsTrace
    <3>3. k \in 0..m
      BY <1>1
    <3> QED BY <2>2, <3>1, <3>2, <3>3
  <2>3. m \in 0..m
    BY <1>1
  <2> HIDE DEF First
  <2> QED BY <1>1, <2>1, <2>2, <2>3, SetInduction
<1>6. n \in Then
  <2>1. 0 \in Then
    <3>1. m + 0 = m /\ 0 \in 0..n
      BY <1>1
    <3> QED BY <1>3, <1>4, <1>5, <3>1 DEF PerformPartsTrace
  <2>2. ASSUME NEW k \in 1..n, k - 1 \in Then
        PROVE  k \in Then
    <3>1. F[m + k] = PerformPart(F[m + (k - 1)], rs[k], images, size)
      <4>1. m + k \in 1..(m + n) /\ both[m + k] = rs[k] /\ (m + k) - 1 = m + (k - 1)
        BY <1>1
      <4> QED BY <1>2, <4>1 DEF PerformPartsTrace
    <3>2. F2[k] = PerformPart(F2[k - 1], rs[k], images, size)
      BY <1>4 DEF PerformPartsTrace
    <3>3. k \in 0..n
      BY <1>1
    <3> QED BY <2>2, <3>1, <3>2, <3>3
  <2>3. n \in 0..n
    BY <1>1
  <2> HIDE DEF Then
  <2> QED BY <1>1, <2>1, <2>2, <2>3, SetInduction
<1>7. PerformParts(mem, both, images, size) = F2[n]
  BY <1>2, <1>6 DEF PerformPartsTrace
<1> QED BY <1>4, <1>7 DEF PerformPartsTrace, both

\* One part is performed as its calls are.
LEMMA OnePartPerformed ==
    ASSUME NEW mem, NEW images, NEW size, NEW cs
    PROVE  PerformParts(mem, <<cs>>, images, size) = PerformCalls(mem, cs, images, size)
<1> DEFINE n == 1
           ps == <<cs>>
<1>1. n \in Nat /\ DOMAIN ps = 1..n /\ ps[1] = cs
  OBVIOUS
<1>2. n = 1 /\ 1 \in 1..n /\ 1 - 1 = 0
  OBVIOUS
<1> HIDE DEF n, ps
<1>3. PICK F : PerformPartsTrace(F, mem, ps, images, size, n)
  BY <1>1, PerformPartsFold
<1>4. PerformParts(mem, ps, images, size) = PerformCalls(mem, cs, images, size)
  BY <1>1, <1>2, <1>3, PerformedPart DEF PerformPartsTrace
<1> QED BY <1>4 DEF ps

----------------------------------------------------------------------------
(* What an update and a launch put into a buffer. *)

\* The buffers of a correlator, with parameter words and the slots of the result.
IsMemory(mem) ==
    /\ mem = [b \in DeviceBuffers |-> mem[b]]
    /\ mem[Params] = [i \in 1..8 |-> mem[Params][i]]
    /\ mem[Result] = [i \in 1..ResultSlots |-> mem[Result][i]]

\* The parameters begin with words.
Given(mem, words) == \A i \in 1..Len(words) : mem[Params][i] = words[i]

\* Of mem, new has another content of d, and may have other parameters.
Puts(mem, new, d, x) ==
    /\ IsMemory(new)
    /\ new[d] = x
    /\ \A b \in DeviceBuffers \ {d, Params} : new[b] = mem[b]

\* The buffers that a kernel computes as a whole.
Surfaces == DeviceBuffers \ {Params, Result}

LEMMA NamesOfBuffers ==
    /\ Params[1] = "params" /\ Result[1] = "result" /\ CrossPow[1] = "crossPow" /\ PeakScratch[1] = "peakScratch"
    /\ \A i : /\ Rgba(i)[1] = "rgba" /\ Complex(i)[1] = "complex" /\ Mag(i)[1] = "mag" /\ LogPol(i)[1] = "logPol"
              /\ Rgba(i)[2] = i /\ Complex(i)[2] = i /\ Mag(i)[2] = i /\ LogPol(i)[2] = i
BY DEF Params, Result, CrossPow, PeakScratch, Rgba, Complex, Mag, LogPol

LEMMA SurfacesAre ==
    /\ Params \in DeviceBuffers /\ Result \in DeviceBuffers /\ Params # Result
    /\ \A i \in {"A", "B"} : Rgba(i) \in Surfaces /\ Complex(i) \in Surfaces /\ Mag(i) \in Surfaces /\ LogPol(i) \in Surfaces
    /\ CrossPow \in Surfaces /\ PeakScratch \in Surfaces
    /\ Surfaces \subseteq DeviceBuffers
BY NamesOfBuffers, BuffersAre DEF Surfaces

\* Words that are given are read.
LEMMA WordsRead ==
    ASSUME NEW mem, IsMemory(mem), NEW S, NEW words \in Seq(S), Len(words) <= 8, Given(mem, words)
    PROVE  SubSeq(mem[Params], 1, Len(words)) = words
<1> DEFINE f == mem[Params]
           R == {f[i] : i \in 1..8} \cup S
<1>1. f \in Seq(R) /\ Len(f) = 8
  <2>1. f = [i \in 1..8 |-> f[i]]
    BY DEF IsMemory
  <2> HIDE DEF f
  <2> QED BY <2>1
<1>2. words \in Seq(R) /\ Len(words) \in Nat
  OBVIOUS
<1>3. \A i \in 1..Len(words) : f[i] = words[i]
  BY DEF Given
<1> HIDE DEF R, f
<1>4. SubSeq(f, 1, Len(words)) \in Seq(R) /\ Len(SubSeq(f, 1, Len(words))) = Len(words)
      /\ \A i \in 1..Len(words) : SubSeq(f, 1, Len(words))[i] = f[i]
  BY <1>1, <1>2
<1> QED BY <1>2, <1>3, <1>4, SeqEqual DEF f

LEMMA UpdateGives ==
    ASSUME NEW mem, IsMemory(mem), NEW S, NEW words \in Seq(S), Len(words) <= 8, NEW images, NEW size
    PROVE  LET new == Perform(mem, Update(words), images, size)
           IN  IsMemory(new) /\ Given(new, words) /\ \A b \in DeviceBuffers \ {Params} : new[b] = mem[b]
<1> DEFINE new == Perform(mem, Update(words), images, size)
           old == mem[Params]
           given == [i \in DOMAIN old |-> IF i \in DOMAIN words THEN words[i] ELSE old[i]]
           c == Update(words)
<1>1. c.op = "update" /\ c.words = words
  BY DEF Update
<1>2. new = [mem EXCEPT ![Params] = [i \in DOMAIN @ |-> IF i \in DOMAIN words THEN words[i] ELSE @[i]]]
  <2> HIDE DEF c
  <2>1. Perform(mem, c, images, size)
          = [mem EXCEPT ![Params] = [i \in DOMAIN @ |-> IF i \in DOMAIN c.words THEN c.words[i] ELSE @[i]]]
    BY <1>1 DEF Perform
  <2> QED BY <1>1, <2>1 DEF c
<1>3. new = [mem EXCEPT ![Params] = given]
  BY <1>2
<1>4. mem = [b \in DeviceBuffers |-> mem[b]] /\ Params \in DeviceBuffers /\ Result \in DeviceBuffers /\ Params # Result
  BY SurfacesAre DEF IsMemory
<1>5. old = [i \in 1..8 |-> old[i]]
  BY DEF IsMemory
<1>6. DOMAIN words = 1..Len(words) /\ Len(words) \in Nat
  OBVIOUS
<1> HIDE DEF new, c, old
<1>7. given = [i \in 1..8 |-> given[i]] /\ \A i \in 1..Len(words) : given[i] = words[i]
  <2>1. DOMAIN old = 1..8
    BY <1>5
  <2>2. 1..Len(words) \subseteq 1..8
    BY <1>6
  <2> QED BY <1>6, <2>1, <2>2
<1> HIDE DEF given
<1>8. /\ new = [b \in DeviceBuffers |-> new[b]]
      /\ new[Params] = given
      /\ \A b \in DeviceBuffers \ {Params} : new[b] = mem[b]
  BY <1>3, <1>4
<1>9. IsMemory(new)
  BY <1>4, <1>7, <1>8 DEF IsMemory
<1>10. Given(new, words)
  BY <1>7, <1>8 DEF Given
<1> QED BY <1>8, <1>9, <1>10 DEF new

LEMMA BarrierGives ==
    ASSUME NEW mem, NEW bs, NEW images, NEW size
    PROVE  Perform(mem, Barrier(bs), images, size) = mem
<1> DEFINE c == Barrier(bs)
<1>1. c.op = "barrier"
  BY DEF Barrier
<1> HIDE DEF c
<1>2. Perform(mem, c, images, size) = mem
  BY <1>1 DEF Perform
<1> QED BY <1>2 DEF c

\* A memory with another content of a surface.
LEMMA PutSurface ==
    ASSUME NEW mem, IsMemory(mem), NEW d \in Surfaces, NEW x
    PROVE  /\ Puts(mem, [mem EXCEPT ![d] = x], d, x)
           /\ [mem EXCEPT ![d] = x][Params] = mem[Params]
           /\ \A b \in DeviceBuffers \ {d} : [mem EXCEPT ![d] = x][b] = mem[b]
<1> DEFINE new == [mem EXCEPT ![d] = x]
<1>1. mem = [b \in DeviceBuffers |-> mem[b]] /\ Params \in DeviceBuffers /\ Result \in DeviceBuffers
      /\ d \in DeviceBuffers /\ d # Params /\ d # Result
  BY SurfacesAre DEF IsMemory, Surfaces
<1>2. /\ new = [b \in DeviceBuffers |-> new[b]] /\ new[d] = x
      /\ \A b \in DeviceBuffers \ {d} : new[b] = mem[b]
  BY <1>1
<1> HIDE DEF new
<1>3. IsMemory(new)
  BY <1>1, <1>2 DEF IsMemory
<1>4. Puts(mem, new, d, x) /\ new[Params] = mem[Params]
  BY <1>1, <1>2, <1>3 DEF Puts
<1> QED BY <1>2, <1>4 DEF new

\* Enough workgroups were launched.
LEMMA GroupsSuffice ==
    ASSUME NEW threads \in Int
    PROVE  Groups(threads) * WorkgroupSize >= threads
<1>1. WorkgroupSize \in Nat \ {0}
  BY WorkgroupAssumption DEF WorkgroupAssumption
<1> QED BY <1>1 DEF Groups

\* Kernels that compute a surface from all they read.
SurfaceKernels ==
    {"grayscale_pad", "fft_bitrev", "fft_butterfly", "magnitude", "fftshift", "highpass", "logpolar",
     "crosspower", "peak_find"}

\* What a kernel reads: its read bindings, or what it changes in place.
Inputs(mem, reads, d) == IF reads = << >> THEN <<mem[d]>> ELSE [k \in DOMAIN reads |-> mem[reads[k]]]

LEMMA ParamWordsAre ==
    ASSUME NEW kernel
    PROVE  ParamWords(kernel) \in 1..8
<1>1. ParamWords(kernel) \in {1, 2, 5, 6}
  BY DEF ParamWords
<1> QED BY <1>1

\* A launch with enough workgroups, on parameters that are given.
EnoughFor(kernel, words, groups) ==
    IF kernel = "peak_find" THEN groups = PeakWorkgroups ELSE groups * WorkgroupSize >= Threads(kernel, words)

LEMMA LaunchPuts ==
    ASSUME NEW mem, IsMemory(mem), NEW kernel \in SurfaceKernels, NEW reads, NEW d \in Surfaces,
           NEW S, NEW words \in Seq(S), Len(words) = ParamWords(kernel), Given(mem, words),
           NEW groups, EnoughFor(kernel, words, groups), NEW images, NEW size
    PROVE  LET new == Perform(mem, Launch(Pipeline(kernel, reads, d), groups), images, size)
           IN  /\ Puts(mem, new, d, Term(kernel, Inputs(mem, reads, d), words))
               /\ new[Params] = mem[Params]
<1> DEFINE p == Pipeline(kernel, reads, d)
           c == Launch(p, groups)
           new == Perform(mem, c, images, size)
           x == Term(kernel, Inputs(mem, reads, d), words)
<1>1. p.kernel = kernel /\ p.reads = reads /\ p.writes = d
  BY DEF Pipeline
<1>2. c.op = "launch" /\ c.pipeline = p /\ c.groups = groups
  BY DEF Launch
<1> HIDE DEF p, c
<1>3. new = Launched(mem, p, groups)
  BY <1>2 DEF Perform
<1>4. SubSeq(mem[Params], 1, ParamWords(p.kernel)) = words
  <2>1. Len(words) <= 8
    BY ParamWordsAre
  <2> QED BY <1>1, <2>1, WordsRead
<1>5. /\ kernel # "peak_reduce" /\ kernel # "peak_finalize" /\ kernel # "bilinear_warp_gray"
  BY DEF SurfaceKernels
<1> HIDE DEF new
<1>6. new = [mem EXCEPT ![d] = x]
  BY <1>1, <1>3, <1>4, <1>5 DEF Launched, Inputs, EnoughFor
<1> HIDE DEF x
<1>7. Puts(mem, new, d, x) /\ new[Params] = mem[Params]
  <2>1. Puts(mem, [mem EXCEPT ![d] = x], d, x)
    BY PutSurface
  <2>2. [mem EXCEPT ![d] = x][Params] = mem[Params]
    BY SurfacesAre DEF IsMemory, Surfaces
  <2> QED BY <1>6, <2>1, <2>2, Zenon
<1> QED BY <1>7 DEF new, c, p, x

\* The effect of a call before others, and of two calls.
LEMMA PerformedBefore ==
    ASSUME NEW S, NEW c \in S, NEW ds \in Seq(S), NEW mem, NEW images, NEW size
    PROVE  PerformCalls(mem, <<c>> \o ds, images, size)
             = PerformCalls(Perform(mem, c, images, size), ds, images, size)
<1> DEFINE cs == <<c>>
<1>1. cs \in Seq(S)
  OBVIOUS
<1>2. PerformCalls(mem, cs, images, size) = Perform(mem, c, images, size)
  BY OnePerformed
<1> HIDE DEF cs
<1>3. PerformCalls(mem, cs \o ds, images, size)
        = PerformCalls(PerformCalls(mem, cs, images, size), ds, images, size)
  BY <1>1, PerformedJoined
<1> QED BY <1>2, <1>3 DEF cs

LEMMA TwoPerformed ==
    ASSUME NEW mem, NEW images, NEW size, NEW c, NEW e
    PROVE  PerformCalls(mem, <<c, e>>, images, size)
             = Perform(Perform(mem, c, images, size), e, images, size)
<1> DEFINE S == {c, e}
           ds == <<e>>
<1>1. <<c>> \o ds = <<c, e>>
  <2>1. <<c>> \in Seq(S) /\ ds \in Seq(S) /\ <<c, e>> \in Seq(S) /\ Len(<<c>>) = 1 /\ Len(ds) = 1
        /\ <<c>>[1] = c /\ ds[1] = e
    OBVIOUS
  <2> HIDE DEF S, ds
  <2>2. <<c>> \o ds \in Seq(S) /\ Len(<<c>> \o ds) = 2 /\ (<<c>> \o ds)[1] = c /\ (<<c>> \o ds)[2] = e
    BY <2>1
  <2>3. \A k \in 1..2 : (<<c>> \o ds)[k] = <<c, e>>[k]
    <3>1. 1..2 = {1, 2}
      OBVIOUS
    <3> QED BY <2>2, <3>1
  <2>4. Len(<<c, e>>) = 2
    OBVIOUS
  <2> QED BY <2>1, <2>2, <2>3, <2>4, SeqEqual
<1>2. c \in S /\ ds \in Seq(S)
  OBVIOUS
<1> HIDE DEF S
<1>3. PerformCalls(Perform(mem, c, images, size), ds, images, size)
        = Perform(Perform(mem, c, images, size), e, images, size)
  BY OnePerformed
<1> HIDE DEF ds
<1>4. PerformCalls(mem, <<c>> \o ds, images, size)
        = PerformCalls(Perform(mem, c, images, size), ds, images, size)
  BY <1>2, PerformedBefore
<1> QED BY <1>1, <1>3, <1>4

LEMMA StagePuts ==
    ASSUME NEW mem, IsMemory(mem), NEW kernel \in SurfaceKernels \ {"peak_find"}, NEW reads, NEW d \in Surfaces,
           NEW S, NEW words \in Seq(S), Len(words) = ParamWords(kernel), Given(mem, words),
           NEW threads \in Int, Threads(kernel, words) = threads, NEW images, NEW size
    PROVE  LET new == PerformCalls(mem, Stage(Pipeline(kernel, reads, d), threads), images, size)
           IN  /\ Puts(mem, new, d, Term(kernel, Inputs(mem, reads, d), words))
               /\ Given(new, words)
<1> DEFINE p == Pipeline(kernel, reads, d)
           launch == Launch(p, Groups(threads))
           new == Perform(mem, launch, images, size)
           x == Term(kernel, Inputs(mem, reads, d), words)
<1>1. PerformCalls(mem, Stage(p, threads), images, size) = Perform(new, Barrier({p.writes}), images, size)
  BY TwoPerformed DEF Stage
<1>2. Perform(new, Barrier({p.writes}), images, size) = new
  BY BarrierGives
<1>3. EnoughFor(kernel, words, Groups(threads))
  BY GroupsSuffice DEF EnoughFor
<1>4. Puts(mem, new, d, x) /\ new[Params] = mem[Params]
  BY <1>3, LaunchPuts
<1> HIDE DEF new, p, x
<1>5. Given(new, words)
  BY <1>4 DEF Given
<1> QED BY <1>1, <1>2, <1>4, <1>5 DEF p, x

LEMMA StageWithPuts ==
    ASSUME NEW mem, IsMemory(mem), NEW kernel \in SurfaceKernels \ {"peak_find"}, NEW reads, NEW d \in Surfaces,
           Range(reads) \subseteq Surfaces,
           NEW S, NEW words \in Seq(S), Len(words) = ParamWords(kernel),
           NEW threads \in Int, Threads(kernel, words) = threads, NEW images, NEW size
    PROVE  LET new == PerformCalls(mem, StageWith(words, Pipeline(kernel, reads, d), threads), images, size)
           IN  /\ Puts(mem, new, d, Term(kernel, Inputs(mem, reads, d), words))
               /\ Given(new, words)
<1> DEFINE p == Pipeline(kernel, reads, d)
           update == Update(words)
           mid == Perform(mem, update, images, size)
           stage == Stage(p, threads)
           new == PerformCalls(mid, stage, images, size)
           C == {update, Launch(p, Groups(threads)), Barrier({p.writes})}
<1>1. PerformCalls(mem, << update >> \o stage, images, size) = new
  <2>1. update \in C /\ stage \in Seq(C)
    BY DEF Stage
  <2> HIDE DEF C, stage, update
  <2> QED BY <2>1, PerformedBefore
<1>2. IsMemory(mid) /\ Given(mid, words) /\ \A b \in DeviceBuffers \ {Params} : mid[b] = mem[b]
  <2>1. Len(words) <= 8
    BY ParamWordsAre
  <2> QED BY <2>1, UpdateGives
<1>3. Inputs(mid, reads, d) = Inputs(mem, reads, d)
  <2>1. \A b \in Surfaces : mid[b] = mem[b]
    BY <1>2 DEF Surfaces
  <2>2. \A k \in DOMAIN reads : mid[reads[k]] = mem[reads[k]]
    BY <2>1 DEF Range
  <2> HIDE DEF mid
  <2> QED BY <2>1, <2>2 DEF Inputs
<1>4. Puts(mid, new, d, Term(kernel, Inputs(mid, reads, d), words)) /\ Given(new, words)
  <2> HIDE DEF mid
  <2> QED BY <1>2, StagePuts
<1> HIDE DEF new, mid
<1>5. Puts(mem, new, d, Term(kernel, Inputs(mem, reads, d), words))
  BY <1>2, <1>3, <1>4 DEF Puts
<1> QED BY <1>1, <1>4, <1>5 DEF StageWith

----------------------------------------------------------------------------
(* The Fourier transforms, and those of the reference. *)

\* Two steps that put something into one buffer.
LEMMA PutsTwice ==
    ASSUME NEW a, NEW b, NEW c, NEW d, NEW x, NEW y, Puts(a, b, d, x), Puts(b, c, d, y)
    PROVE  Puts(a, c, d, y)
BY DEF Puts

\* In place, a kernel computes a function of what was there.
LEMMA InPlacePuts ==
    ASSUME NEW mem, IsMemory(mem), NEW kernel \in SurfaceKernels \ {"peak_find"}, NEW d \in Surfaces,
           NEW S, NEW words \in Seq(S), Len(words) = ParamWords(kernel),
           NEW threads \in Int, Threads(kernel, words) = threads, NEW images, NEW size
    PROVE  LET new == PerformCalls(mem, StageWith(words, Pipeline(kernel, << >>, d), threads), images, size)
           IN  /\ Puts(mem, new, d, Term(kernel, <<mem[d]>>, words))
               /\ Given(new, words)
<1> DEFINE reads == << >>
<1>1. Range(reads) \subseteq Surfaces
  BY DEF Range
<1>2. Inputs(mem, reads, d) = <<mem[d]>>
  BY DEF Inputs
<1> HIDE DEF reads
<1>3. LET new == PerformCalls(mem, StageWith(words, Pipeline(kernel, reads, d), threads), images, size)
      IN  /\ Puts(mem, new, d, Term(kernel, Inputs(mem, reads, d), words))
          /\ Given(new, words)
  BY <1>1, StageWithPuts
<1> QED BY <1>2, <1>3 DEF reads

LEMMA BitrevPuts ==
    ASSUME NEW mem, IsMemory(mem), NEW d \in Surfaces, NEW n \in Int, NEW lines \in Int, NEW axis, NEW stride,
           NEW images, NEW size
    PROVE  Puts(mem, PerformCalls(mem, StageWith(<<n, lines, Log2(n), axis, stride>>, Bitrev(d), n * lines),
                                  images, size),
                d, Term("fft_bitrev", <<mem[d]>>, <<n, lines, Log2(n), axis, stride>>))
<1> DEFINE words == <<n, lines, Log2(n), axis, stride>>
           S == {n, lines, Log2(n), axis, stride}
           kernel == "fft_bitrev"
           threads == n * lines
<1>1. words \in Seq(S) /\ Len(words) = ParamWords(kernel)
  BY DEF ParamWords
<1>2. Threads(kernel, words) = threads /\ threads \in Int
  BY DEF Threads
<1>3. kernel \in SurfaceKernels \ {"peak_find"}
  BY DEF SurfaceKernels
<1>4. Bitrev(d) = Pipeline(kernel, << >>, d)
  BY DEF Bitrev
<1> HIDE DEF words, S, kernel, threads
<1>5. Puts(mem, PerformCalls(mem, StageWith(words, Pipeline(kernel, << >>, d), threads), images, size),
           d, Term(kernel, <<mem[d]>>, words))
  BY <1>1, <1>2, <1>3, InPlacePuts
<1> QED BY <1>4, <1>5 DEF words, kernel, threads

LEMMA ButterflyPuts ==
    ASSUME NEW mem, IsMemory(mem), NEW d \in Surfaces, NEW k \in Nat \ {0}, NEW n \in Int, NEW lines \in Int,
           NEW axis, NEW stride, NEW inverse, NEW images, NEW size
    PROVE  Puts(mem, PerformCalls(mem, StageWith(<<k - 1, n, lines, axis, stride, inverse>>, Butterfly(d),
                                                 (n \div 2) * lines), images, size),
                d, Pass(mem[d], k, n, lines, axis, stride, inverse))
<1> DEFINE words == <<k - 1, n, lines, axis, stride, inverse>>
           S == {k - 1, n, lines, axis, stride, inverse}
           kernel == "fft_butterfly"
           threads == (n \div 2) * lines
<1>1. words \in Seq(S) /\ Len(words) = ParamWords(kernel)
  BY DEF ParamWords
<1>2. Threads(kernel, words) = threads /\ threads \in Int
  BY DEF Threads
<1>3. kernel \in SurfaceKernels \ {"peak_find"}
  BY DEF SurfaceKernels
<1>4. Butterfly(d) = Pipeline(kernel, << >>, d)
  BY DEF Butterfly
<1>5. Pass(mem[d], k, n, lines, axis, stride, inverse) = Term(kernel, <<mem[d]>>, words)
  BY DEF Pass
<1> HIDE DEF words, S, kernel, threads
<1>6. Puts(mem, PerformCalls(mem, StageWith(words, Pipeline(kernel, << >>, d), threads), images, size),
           d, Term(kernel, <<mem[d]>>, words))
  BY <1>1, <1>2, <1>3, InPlacePuts
<1> QED BY <1>4, <1>5, <1>6 DEF words, threads

\* A recorded transform computes the reference's, pass by pass.
LEMMA FFT1DPuts ==
    ASSUME NEW mem, IsMemory(mem), NEW d \in Surfaces, NEW n \in Int, NEW lines \in Int,
           NEW axis, NEW stride, NEW inverse, NEW images, NEW size
    PROVE  Puts(mem, PerformCalls(mem, RecordFFT1D(d, n, lines, axis, stride, inverse), images, size),
                d, FFT1DCPU(mem[d], n, lines, axis, stride, inverse))
<1> DEFINE first == StageWith(<<n, lines, Log2(n), axis, stride>>, Bitrev(d), n * lines)
           pass(k) == StageWith(<<k - 1, n, lines, axis, stride, inverse>>, Butterfly(d), (n \div 2) * lines)
           m == Log2(n)
           passes == [s \in 1..m |-> pass(s)]
           V == Int \cup {axis, stride, inverse}
           H == {Groups(n * lines), Groups((n \div 2) * lines)}
           C == Calls(V, H)
           mid == PerformCalls(mem, first, images, size)
           values == mem[d]
<1>1. m \in Nat
  BY HalvingsAreCounted
<1>2. first \in Seq(C) /\ \A k \in 1..m : pass(k) \in Seq(C)
  <2>1. <<n, lines, m, axis, stride>> \in Seq(V)
    BY <1>1
  <2>2. d \in DeviceBuffers
    BY SurfacesAre
  <2>3. Bitrev(d) \in PipelineSet /\ Butterfly(d) \in PipelineSet
    BY <2>2, PipelineSetHas
  <2>4. Groups(n * lines) \in H /\ Groups((n \div 2) * lines) \in H
    OBVIOUS
  <2>5. ASSUME NEW k \in 1..m
        PROVE  <<k - 1, n, lines, axis, stride, inverse>> \in Seq(V)
    <3>1. k - 1 \in V
      BY <1>1
    <3> QED BY <3>1
  <2> HIDE DEF V, H
  <2>6. first \in QuietParts(V, H)
    BY <2>1, <2>3, <2>4, StageWithPart
  <2>7. ASSUME NEW k \in 1..m
        PROVE  pass(k) \in QuietParts(V, H)
    BY <2>3, <2>4, <2>5, StageWithPart
  <2> QED BY <2>6, <2>7 DEF QuietParts
<1>3. RecordFFT1D(d, n, lines, axis, stride, inverse) = first \o FlattenSeq(passes)
  BY DEF RecordFFT1D
<1>4. PICK F : PassTrace(F, values, n, lines, axis, stride, inverse, m)
  BY <1>1, PassFold
<1>5. /\ F[0] = Term("fft_bitrev", <<values>>, <<n, lines, m, axis, stride>>)
      /\ \A k \in 1..m : F[k] = Pass(F[k - 1], k, n, lines, axis, stride, inverse)
      /\ F[m] = FFT1DCPU(values, n, lines, axis, stride, inverse)
  <2>1. \A k \in 1..m : [i \in 1..Log2(n) |-> i][k] = k
    OBVIOUS
  <2> QED BY <1>4, <2>1 DEF PassTrace
<1>6. Puts(mem, mid, d, F[0])
  BY <1>5, BitrevPuts
<1>7. ASSUME NEW k \in 1..m, NEW old, Puts(mem, old, d, F[k - 1])
      PROVE  Puts(mem, PerformCalls(old, pass(k), images, size), d, F[k])
  <2>1. k \in Nat \ {0} /\ IsMemory(old) /\ old[d] = F[k - 1]
    BY <1>1, <1>7 DEF Puts
  <2>2. Puts(old, PerformCalls(old, pass(k), images, size), d, Pass(old[d], k, n, lines, axis, stride, inverse))
    BY <2>1, ButterflyPuts
  <2> QED BY <1>5, <1>7, <2>1, <2>2, PutsTwice
<1>8. DOMAIN passes = 1..m /\ (\A k \in 1..m : passes[k] = pass(k)) /\ passes \in Seq(Seq(C)) /\ Len(passes) = m
  <2>1. passes \in [1..m -> Seq(C)]
    BY <1>2
  <2>2. DOMAIN passes = 1..m /\ \A k \in 1..m : passes[k] = pass(k)
    OBVIOUS
  <2> HIDE DEF passes, m
  <2>3. passes \in Seq(Seq(C))
    BY <1>1, <2>1, FunctionIsSequence
  <2> QED BY <1>1, <2>2, <2>3
<1> HIDE DEF first, pass, m, passes, C, V, H, mid, values
<1>9. Puts(mem, PerformCalls(mid, FlattenSeq(passes), images, size), d, F[m])
  <2>1. CASE m = 0
    <3>1. FlattenSeq(passes) = << >>
      BY <1>8, <2>1 DEF FlattenSeq
    <3> QED BY <1>6, <2>1, <3>1, NothingPerformed
  <2>2. CASE m # 0
    <3>1. m \in Nat \ {0} /\ m = Len(passes)
      BY <1>1, <1>8, <2>2
    <3>2. PICK G : FlattenTrace(G, passes, m)
      BY <3>1, FlattenFold
    <3> DEFINE Good == {0} \cup {k \in 1..m : /\ G[k] \in Seq(C)
                                              /\ Puts(mem, PerformCalls(mid, G[k], images, size), d, F[k])}
    <3>3. ASSUME NEW k \in 1..m, k - 1 \in Good
          PROVE  k \in Good
      <4>1. G[k] = IF k = 1 THEN passes[1] ELSE G[k - 1] \o passes[k]
        BY <3>2 DEF FlattenTrace
      <4>2. passes[k] = pass(k) /\ passes[k] \in Seq(C)
        BY <1>2, <1>8
      <4>3. CASE k = 1
        <5>1. Puts(mem, PerformCalls(mid, pass(k), images, size), d, F[k])
          BY <1>6, <1>7, <4>3
        <5> QED BY <4>1, <4>2, <4>3, <5>1
      <4>4. CASE k # 1
        <5>1. G[k - 1] \in Seq(C) /\ Puts(mem, PerformCalls(mid, G[k - 1], images, size), d, F[k - 1])
          BY <1>1, <3>3, <4>4
        <5>2. PerformCalls(mid, G[k - 1] \o passes[k], images, size)
                = PerformCalls(PerformCalls(mid, G[k - 1], images, size), passes[k], images, size)
          BY <4>2, <5>1, PerformedJoined
        <5>3. Puts(mem, PerformCalls(PerformCalls(mid, G[k - 1], images, size), pass(k), images, size), d, F[k])
          BY <1>7, <5>1
        <5>4. G[k - 1] \o passes[k] \in Seq(C)
          BY <4>2, <5>1
        <5> QED BY <4>1, <4>2, <4>4, <5>2, <5>3, <5>4
      <4> QED BY <4>3, <4>4
    <3>4. m \in Good
      <4>1. 0 \in Good /\ m \in 0..m
        BY <1>1
      <4> HIDE DEF Good
      <4>2. 0..m \subseteq Good
        BY <1>1, <3>3, <4>1, SetInduction
      <4> QED BY <4>1, <4>2
    <3>5. FlattenSeq(passes) = G[m]
      BY <3>2 DEF FlattenTrace
    <3> QED BY <2>2, <3>4, <3>5
  <2> QED BY <2>1, <2>2
<1>10. PerformCalls(mem, first \o FlattenSeq(passes), images, size)
         = PerformCalls(mid, FlattenSeq(passes), images, size)
  <2>1. FlattenSeq(passes) \in Seq(C)
    BY <1>8, FlattenedType
  <2> QED BY <1>2, <2>1, PerformedJoined DEF mid
<1> QED BY <1>3, <1>5, <1>9, <1>10 DEF values

LEMMA FFT2DPuts ==
    ASSUME NEW mem, IsMemory(mem), NEW d \in Surfaces, NEW pad \in Int, NEW inverse, NEW images, NEW size
    PROVE  Puts(mem, PerformCalls(mem, RecordFFT2D(d, pad, pad, inverse), images, size),
                d, FFT2DCPU(mem[d], pad, pad, inverse))
<1> DEFINE rows == RecordFFT1D(d, pad, pad, 0, pad, inverse)
           columns == RecordFFT1D(d, pad, pad, 1, pad, inverse)
           V == Int \cup {inverse}
           H == {Groups(pad * pad), Groups((pad \div 2) * pad)}
           C == Calls(V, H)
           mid == PerformCalls(mem, rows, images, size)
           x == FFT1DCPU(mem[d], pad, pad, 0, pad, inverse)
<1>1. rows \in Seq(C) /\ columns \in Seq(C)
  <2>1. d \in DeviceBuffers /\ pad \in V /\ inverse \in V /\ 0 \in V /\ 1 \in V /\ Int \subseteq V
    BY SurfacesAre
  <2>2. Groups(pad * pad) \in H /\ Groups((pad \div 2) * pad) \in H
    OBVIOUS
  <2> HIDE DEF V, H
  <2>3. rows \in QuietParts(V, H) /\ columns \in QuietParts(V, H)
    BY <2>1, <2>2, FFT1DPart
  <2> QED BY <2>3 DEF QuietParts
<1>2. Puts(mem, mid, d, x)
  BY FFT1DPuts
<1>3. IsMemory(mid) /\ mid[d] = x
  BY <1>2 DEF Puts
<1> HIDE DEF C, mid, x
<1>4. Puts(mid, PerformCalls(mid, columns, images, size), d, FFT1DCPU(mid[d], pad, pad, 1, pad, inverse))
  BY <1>3, FFT1DPuts
<1>5. Puts(mem, PerformCalls(mid, columns, images, size), d, FFT1DCPU(x, pad, pad, 1, pad, inverse))
  BY <1>2, <1>3, <1>4, PutsTwice
<1>6. PerformCalls(mem, rows \o columns, images, size) = PerformCalls(mid, columns, images, size)
  <2> HIDE DEF rows, columns
  <2> QED BY <1>1, PerformedJoined DEF mid
<1> QED BY <1>5, <1>6 DEF RecordFFT2D, FFT2DCPU, x

----------------------------------------------------------------------------
(* The peak, and what it is decoded to. *)

\* Terms written to slots of a result.
HasWritten(new, result, first, terms) ==
    /\ new = [i \in 1..ResultSlots |-> new[i]]
    /\ \A k \in 1..Len(terms) : Slot(new, first + (k - 1)) = terms[k]
    /\ \A i \in 0..(ResultSlots - 1) : i \notin first..(first + Len(terms) - 1) => Slot(new, i) = Slot(result, i)

LEMMA SlotsWritten ==
    ASSUME NEW result, result = [i \in 1..ResultSlots |-> result[i]], NEW S, NEW terms \in Seq(S),
           NEW first \in Nat, first + Len(terms) <= ResultSlots
    PROVE  HasWritten(WriteSlots(result, first, terms), result, first, terms)
<1> DEFINE new == WriteSlots(result, first, terms)
           n == Len(terms)
           m == ResultSlots
<1>1. n \in Nat /\ m \in Nat /\ first + n <= m
  BY DEF ResultSlots
<1>2. DOMAIN result = 1..m
  OBVIOUS
<1> HIDE DEF n, m
<1>3. new = [i \in 1..m |-> IF i - 1 \in first..(first + n - 1) THEN terms[i - first] ELSE result[i]]
  BY <1>2 DEF WriteSlots, n
<1> HIDE DEF new
<1>4. ASSUME NEW k \in 1..n
      PROVE  Slot(new, first + (k - 1)) = terms[k]
  <2>1. first + k \in 1..m /\ (first + k) - 1 \in first..(first + n - 1)
    BY <1>1
  <2>2. (first + k) - first = k /\ (first + (k - 1)) + 1 = first + k
    BY <1>1
  <2> QED BY <1>3, <2>1, <2>2 DEF Slot
<1>5. ASSUME NEW i \in 0..(m - 1), i \notin first..(first + n - 1)
      PROVE  Slot(new, i) = Slot(result, i)
  <2>1. i + 1 \in 1..m /\ (i + 1) - 1 = i
    BY <1>1
  <2> QED BY <1>3, <1>5, <2>1 DEF Slot
<1>6. new = [i \in 1..m |-> new[i]]
  BY <1>3
<1>7. HasWritten(new, result, first, terms)
  <2>1. new = [i \in 1..ResultSlots |-> new[i]]
    BY <1>6 DEF m
  <2>2. \A k \in 1..Len(terms) : Slot(new, first + (k - 1)) = terms[k]
    BY <1>4 DEF n
  <2>3. \A i \in 0..(ResultSlots - 1) : i \notin first..(first + Len(terms) - 1) => Slot(new, i) = Slot(result, i)
    BY <1>5 DEF n, m
  <2> QED BY <2>1, <2>2, <2>3, Zenon DEF HasWritten
<1> QED BY <1>7 DEF new

\* A sequence of slots.
IsResult(result) == result = [i \in 1..ResultSlots |-> result[i]]
ResultIndices == 0..(ResultSlots - 1)

\* A memory with another result.
PutsResult(mem, new, x) ==
    IsMemory(new) /\ new[Result] = x /\ \A b \in DeviceBuffers \ {Result} : new[b] = mem[b]

LEMMA PutResult ==
    ASSUME NEW mem, IsMemory(mem), NEW x, IsResult(x)
    PROVE  PutsResult(mem, [mem EXCEPT ![Result] = x], x)
<1> DEFINE new == [mem EXCEPT ![Result] = x]
<1>1. mem = [b \in DeviceBuffers |-> mem[b]] /\ Params \in DeviceBuffers /\ Result \in DeviceBuffers
      /\ Params # Result
  BY SurfacesAre DEF IsMemory
<1>2. /\ new = [b \in DeviceBuffers |-> new[b]] /\ new[Result] = x
      /\ \A b \in DeviceBuffers \ {Result} : new[b] = mem[b]
  BY <1>1
<1> HIDE DEF new
<1>3. IsMemory(new)
  BY <1>1, <1>2 DEF IsMemory, IsResult
<1> QED BY <1>2, <1>3 DEF new, PutsResult

\* The words that begin given words.
LEMMA GivenBegins ==
    ASSUME NEW mem, NEW v, NEW w, NEW m, NEW s, NEW r, Given(mem, <<v, w, m, s, r>>)
    PROVE  Given(mem, <<v, w>>)
<1>1. mem[Params][1] = v /\ mem[Params][2] = w
  BY DEF Given
<1> QED BY <1>1 DEF Given

\* peak_reduce and peak_finalize.
LEMMA ReducePuts ==
    ASSUME NEW mem, IsMemory(mem), NEW images, NEW size
    PROVE  LET new == Perform(mem, Launch(PeakReduce, 1), images, size)
           IN  new = [mem EXCEPT ![Result] = Reduced(mem[Result], mem[PeakScratch])]
<1> DEFINE p == PeakReduce
           c == Launch(p, 1)
           new == Perform(mem, c, images, size)
<1>1. p.kernel = "peak_reduce" /\ p.reads = <<PeakScratch>> /\ p.writes = Result
  BY DEF PeakReduce, Pipeline
<1>2. c.op = "launch" /\ c.pipeline = p /\ c.groups = 1
  BY DEF Launch
<1>3. new = Launched(mem, p, 1)
  <2> HIDE DEF p, c
  <2> QED BY <1>2 DEF Perform
<1>4. \A words : Threads("peak_reduce", words) = 1
  BY DEF Threads
<1>5. 1 * WorkgroupSize >= 1
  BY WorkgroupAssumption DEF WorkgroupAssumption
<1>6. [k \in DOMAIN <<PeakScratch>> |-> mem[<<PeakScratch>>[k]]][1] = mem[PeakScratch]
      /\ <<PeakScratch>> # << >>
  OBVIOUS
<1> HIDE DEF new, p
<1>7. new = [mem EXCEPT ![Result] = Reduced(mem[Result], mem[PeakScratch])]
  BY <1>1, <1>3, <1>4, <1>5, <1>6 DEF Launched
<1> QED BY <1>7 DEF new, p

LEMMA FinalPuts ==
    ASSUME NEW mem, IsMemory(mem), NEW S, NEW words \in Seq(S), Len(words) = 5, Given(mem, words),
           NEW images, NEW size
    PROVE  LET new == Perform(mem, Launch(PeakFinal, 1), images, size)
           IN  new = [mem EXCEPT ![Result] = Finalized(mem[Result], mem[CrossPow], words)]
<1> DEFINE p == PeakFinal
           c == Launch(p, 1)
           new == Perform(mem, c, images, size)
<1>1. p.kernel = "peak_finalize" /\ p.reads = <<CrossPow>> /\ p.writes = Result
  BY DEF PeakFinal, Pipeline
<1>2. c.op = "launch" /\ c.pipeline = p /\ c.groups = 1
  BY DEF Launch
<1>3. new = Launched(mem, p, 1)
  <2> HIDE DEF p, c
  <2> QED BY <1>2 DEF Perform
<1>4. Threads("peak_finalize", words) = 1
  BY DEF Threads
<1>5. 1 * WorkgroupSize >= 1
  BY WorkgroupAssumption DEF WorkgroupAssumption
<1>6. [k \in DOMAIN <<CrossPow>> |-> mem[<<CrossPow>>[k]]][1] = mem[CrossPow]
      /\ <<CrossPow>> # << >>
  OBVIOUS
<1>7. ParamWords("peak_finalize") = 5
  BY DEF ParamWords
<1>8. SubSeq(mem[Params], 1, 5) = words
  <2>1. Len(words) <= 8
    OBVIOUS
  <2> QED BY <2>1, WordsRead
<1> HIDE DEF new, p
<1>9. new = [mem EXCEPT ![Result] = Finalized(mem[Result], mem[CrossPow], words)]
  BY <1>1, <1>3, <1>4, <1>5, <1>6, <1>7, <1>8 DEF Launched
<1> QED BY <1>9 DEF new, p

\* The terms of peak_reduce and peak_finalize for a surface.
ScanOf(surface, pad)  == Term("peak_find", <<surface>>, <<pad, pad>>)
HeightOf(surface, pad) == Term("peak_magnitude", <<ScanOf(surface, pad)>>, << >>)
PlaceOf(surface, pad) == Term("peak_place", <<ScanOf(surface, pad)>>, << >>)
PeakAt(axis, surface, pad) == Refined(axis, surface, HeightOf(surface, pad), PlaceOf(surface, pad), <<pad, pad>>)
PeakConfidence(surface, pad) == Confidence(HeightOf(surface, pad), pad * pad)

LEMMA SlotWritten ==
    ASSUME NEW result, IsResult(result), NEW first \in ResultIndices, NEW x
    PROVE  LET new == WriteSlots(result, first, <<x>>)
           IN  /\ IsResult(new)
               /\ Slot(new, first) = x
               /\ \A i \in ResultIndices \ {first} : Slot(new, i) = Slot(result, i)
<1> DEFINE terms == <<x>>
           S == {x}
           new == WriteSlots(result, first, terms)
<1>1. terms \in Seq(S) /\ Len(terms) = 1 /\ terms[1] = x
  OBVIOUS
<1>2. first \in Nat /\ first + 1 <= ResultSlots /\ first + (1 - 1) = first /\ 1 \in 1..1
  BY DEF ResultIndices, ResultSlots
<1>3. \A i \in ResultIndices \ {first} : i \in 0..(ResultSlots - 1) /\ i \notin first..(first + 1 - 1)
  BY DEF ResultIndices, ResultSlots
<1>4. result = [i \in 1..ResultSlots |-> result[i]]
  BY DEF IsResult
<1> HIDE DEF terms, S
<1>5. /\ new = [i \in 1..ResultSlots |-> new[i]]
      /\ \A k \in 1..Len(terms) : Slot(new, first + (k - 1)) = terms[k]
      /\ \A i \in 0..(ResultSlots - 1) : i \notin first..(first + Len(terms) - 1) => Slot(new, i) = Slot(result, i)
  <2>1. first + Len(terms) <= ResultSlots
    BY <1>1, <1>2
  <2>2. HasWritten(new, result, first, terms)
    BY <1>1, <1>2, <1>4, <2>1, SlotsWritten
  <2> HIDE DEF new
  <2> QED BY <2>2 DEF HasWritten
<1> HIDE DEF new
<1>6. IsResult(new)
  BY <1>5 DEF IsResult
<1>7. Slot(new, first + (1 - 1)) = terms[1]
  BY <1>1, <1>2, <1>5
<1>8. \A i \in ResultIndices \ {first} : Slot(new, i) = Slot(result, i)
  BY <1>1, <1>3, <1>5
<1>9. Slot(new, first) = x
  BY <1>1, <1>2, <1>7
<1> QED BY <1>6, <1>8, <1>9 DEF new, terms

LEMMA ReducedIs ==
    ASSUME NEW result, IsResult(result), NEW scratch
    PROVE  LET new == Reduced(result, scratch)
           IN  /\ IsResult(new)
               /\ Slot(new, 11) = Term("peak_magnitude", <<scratch>>, << >>)
               /\ Slot(new, 15) = Term("peak_place", <<scratch>>, << >>)
               /\ \A i \in ResultIndices \ {11, 15} : Slot(new, i) = Slot(result, i)
<1> DEFINE height == Term("peak_magnitude", <<scratch>>, << >>)
           place  == Term("peak_place", <<scratch>>, << >>)
           mid == WriteSlots(result, 11, <<height>>)
           new == WriteSlots(mid, 15, <<place>>)
<1>1. 11 \in ResultIndices /\ 15 \in ResultIndices /\ 11 # 15
  BY DEF ResultIndices, ResultSlots
<1>2. new = Reduced(result, scratch)
  BY DEF Reduced
<1> HIDE DEF height, place
<1>3. /\ IsResult(mid) /\ Slot(mid, 11) = height
      /\ \A i \in ResultIndices \ {11} : Slot(mid, i) = Slot(result, i)
  BY <1>1, SlotWritten
<1> HIDE DEF mid
<1>4. /\ IsResult(new) /\ Slot(new, 15) = place
      /\ \A i \in ResultIndices \ {15} : Slot(new, i) = Slot(mid, i)
  BY <1>1, <1>3, SlotWritten
<1> HIDE DEF new
<1> QED BY <1>1, <1>2, <1>3, <1>4 DEF height, place

\* The first two of five words.
LEMMA Dimensions ==
    ASSUME NEW v, NEW w, NEW m, NEW s, NEW r
    PROVE  SubSeq(<<v, w, m, s, r>>, 1, 2) = <<v, w>>
<1> DEFINE S == {v, w, m, s, r}
           words == <<v, w, m, s, r>>
           two == <<v, w>>
<1>1. words \in Seq(S) /\ Len(words) = 5 /\ words[1] = v /\ words[2] = w
  OBVIOUS
<1>2. two \in Seq(S) /\ Len(two) = 2 /\ two[1] = v /\ two[2] = w
  OBVIOUS
<1> HIDE DEF S, words, two
<1>3. SubSeq(words, 1, 2) \in Seq(S) /\ Len(SubSeq(words, 1, 2)) = 2
      /\ \A k \in 1..2 : SubSeq(words, 1, 2)[k] = words[k]
  BY <1>1
<1>4. \A k \in 1..2 : words[k] = two[k]
  <2>1. 1..2 = {1, 2}
    OBVIOUS
  <2> QED BY <1>1, <1>2, <2>1
<1>5. SubSeq(words, 1, 2) = two
  BY <1>2, <1>3, <1>4, SeqEqual
<1> QED BY <1>5 DEF words, two

\* What peak_finalize leaves for the turn, and for a translation.
TurnIs(result, surface, pad, radius) ==
    LET angle == Angle(PeakAt("peak_y", surface, pad), pad)
    IN  /\ Slot(result, 0) = PeakConfidence(surface, pad)
        /\ Slot(result, 2) = angle
        /\ Slot(result, 3) = Scale(PeakAt("peak_x", surface, pad), pad, radius)
        /\ Slot(result, 4) = Cos(angle, 0) /\ Slot(result, 5) = Sin(angle, 0)
        /\ Slot(result, 6) = Cos(angle, 180) /\ Slot(result, 7) = Sin(angle, 180)

ShiftIs(result, offset, surface, pad) ==
    /\ Slot(result, offset) = Minus(PeakAt("peak_x", surface, pad))
    /\ Slot(result, offset + 1) = Minus(PeakAt("peak_y", surface, pad))
    /\ Slot(result, offset + 2) = PeakConfidence(surface, pad)

Scanned(result, surface, pad) ==
    Slot(result, 11) = HeightOf(surface, pad) /\ Slot(result, 15) = PlaceOf(surface, pad)

LEMMA FinalTurn ==
    ASSUME NEW result, IsResult(result), NEW surface, NEW pad, NEW radius, Scanned(result, surface, pad)
    PROVE  LET new == Finalized(result, surface, PeakParams(pad, 0, 0, radius))
           IN  IsResult(new) /\ TurnIs(new, surface, pad, radius)
<1> DEFINE words == PeakParams(pad, 0, 0, radius)
           new == Finalized(result, surface, words)
           x == PeakAt("peak_x", surface, pad)
           y == PeakAt("peak_y", surface, pad)
           confidence == PeakConfidence(surface, pad)
           angle == Angle(y, pad)
           scale == Scale(x, pad, radius)
           t5 == Cos(angle, 0)
           t6 == Sin(angle, 0)
           t7 == Cos(angle, 180)
           t8 == Sin(angle, 180)
           terms == <<confidence, y, angle, scale, t5, t6, t7, t8>>
           S == {confidence, y, angle, scale, t5, t6, t7, t8}
<1>1. words[1] = pad /\ words[2] = pad /\ words[3] = 0 /\ words[5] = radius /\ SubSeq(words, 1, 2) = <<pad, pad>>
  BY Dimensions DEF PeakParams
<1>2. Slot(result, 11) = HeightOf(surface, pad) /\ Slot(result, 15) = PlaceOf(surface, pad)
  BY DEF Scanned
<1> HIDE DEF words
<1>3. new = WriteSlots(result, 0, terms)
  BY <1>1, <1>2 DEF Finalized, PeakAt, PeakConfidence
<1> HIDE DEF new, x, y, confidence, angle, scale, t5, t6, t7, t8
<1>4. /\ terms \in Seq(S) /\ Len(terms) = 8
      /\ terms[1] = confidence /\ terms[3] = angle /\ terms[4] = scale
      /\ terms[5] = t5 /\ terms[6] = t6 /\ terms[7] = t7 /\ terms[8] = t8
  OBVIOUS
<1> HIDE DEF terms, S
<1>5. result = [i \in 1..ResultSlots |-> result[i]]
  BY DEF IsResult
<1>6. 0 \in Nat /\ 0 + Len(terms) <= ResultSlots
  BY <1>4 DEF ResultSlots
<1>7. /\ new = [i \in 1..ResultSlots |-> new[i]]
      /\ \A k \in 1..Len(terms) : Slot(new, 0 + (k - 1)) = terms[k]
  <2> DEFINE first == 0
             written == WriteSlots(result, first, terms)
  <2>1. terms \in Seq(S) /\ first \in Nat /\ first + Len(terms) <= ResultSlots
    BY <1>4, <1>6
  <2> HIDE DEF first
  <2>2. HasWritten(written, result, first, terms)
    BY <1>5, <2>1, SlotsWritten
  <2> HIDE DEF written
  <2>3. /\ written = [i \in 1..ResultSlots |-> written[i]]
        /\ \A k \in 1..Len(terms) : Slot(written, first + (k - 1)) = terms[k]
    BY <2>2 DEF HasWritten
  <2> QED BY <1>3, <2>3 DEF first, written
<1>8. \A k \in 1..8 : Slot(new, k - 1) = terms[k]
  <2>1. \A k \in 1..8 : 0 + (k - 1) = k - 1
    OBVIOUS
  <2> QED BY <1>4, <1>7, <2>1
<1>9. /\ Slot(new, 0) = confidence /\ Slot(new, 2) = angle /\ Slot(new, 3) = scale
      /\ Slot(new, 4) = t5 /\ Slot(new, 5) = t6 /\ Slot(new, 6) = t7 /\ Slot(new, 7) = t8
  <2>1. /\ 1 \in 1..8 /\ 3 \in 1..8 /\ 4 \in 1..8 /\ 5 \in 1..8 /\ 6 \in 1..8 /\ 7 \in 1..8 /\ 8 \in 1..8
        /\ 1 - 1 = 0 /\ 3 - 1 = 2 /\ 4 - 1 = 3 /\ 5 - 1 = 4 /\ 6 - 1 = 5 /\ 7 - 1 = 6 /\ 8 - 1 = 7
    OBVIOUS
  <2>2. /\ Slot(new, 1 - 1) = terms[1] /\ Slot(new, 3 - 1) = terms[3] /\ Slot(new, 4 - 1) = terms[4]
        /\ Slot(new, 5 - 1) = terms[5] /\ Slot(new, 6 - 1) = terms[6] /\ Slot(new, 7 - 1) = terms[7]
        /\ Slot(new, 8 - 1) = terms[8]
    BY <1>8, <2>1
  <2> QED BY <1>4, <2>1, <2>2
<1>10. IsResult(new)
  BY <1>7 DEF IsResult
<1> QED BY <1>9, <1>10 DEF TurnIs, new, words, x, y, confidence, angle, scale, t5, t6, t7, t8

LEMMA FinalShift ==
    ASSUME NEW result, IsResult(result), NEW surface, NEW pad, NEW offset \in 0..(ResultSlots - 3),
           Scanned(result, surface, pad)
    PROVE  LET new == Finalized(result, surface, PeakParams(pad, 1, offset, 0))
           IN  /\ IsResult(new) /\ ShiftIs(new, offset, surface, pad)
               /\ \A i \in ResultIndices \ (offset..(offset + 2)) : Slot(new, i) = Slot(result, i)
<1> DEFINE words == PeakParams(pad, 1, offset, 0)
           new == Finalized(result, surface, words)
           x == PeakAt("peak_x", surface, pad)
           y == PeakAt("peak_y", surface, pad)
           confidence == PeakConfidence(surface, pad)
           t1 == Minus(x)
           t2 == Minus(y)
           terms == <<t1, t2, confidence>>
           S == {t1, t2, confidence}
<1>1. words[1] = pad /\ words[2] = pad /\ words[3] # 0 /\ words[4] = offset /\ SubSeq(words, 1, 2) = <<pad, pad>>
  BY Dimensions DEF PeakParams
<1>2. Slot(result, 11) = HeightOf(surface, pad) /\ Slot(result, 15) = PlaceOf(surface, pad)
  BY DEF Scanned
<1> HIDE DEF words
<1>3. new = WriteSlots(result, offset, terms)
  BY <1>1, <1>2 DEF Finalized, PeakAt, PeakConfidence
<1> HIDE DEF new, x, y, confidence, t1, t2
<1>4. /\ terms \in Seq(S) /\ Len(terms) = 3
      /\ terms[1] = t1 /\ terms[2] = t2 /\ terms[3] = confidence
  OBVIOUS
<1> HIDE DEF terms, S
<1>5. result = [i \in 1..ResultSlots |-> result[i]]
  BY DEF IsResult
<1>6. offset \in Nat /\ offset + Len(terms) <= ResultSlots
  BY <1>4 DEF ResultSlots
<1>7. /\ new = [i \in 1..ResultSlots |-> new[i]]
      /\ \A k \in 1..Len(terms) : Slot(new, offset + (k - 1)) = terms[k]
      /\ \A i \in 0..(ResultSlots - 1) : i \notin offset..(offset + Len(terms) - 1) => Slot(new, i) = Slot(result, i)
  <2> DEFINE written == WriteSlots(result, offset, terms)
  <2>1. terms \in Seq(S)
    BY <1>4
  <2>2. HasWritten(written, result, offset, terms)
    BY <1>5, <1>6, <2>1, SlotsWritten
  <2> HIDE DEF written
  <2>3. /\ written = [i \in 1..ResultSlots |-> written[i]]
        /\ \A k \in 1..Len(terms) : Slot(written, offset + (k - 1)) = terms[k]
        /\ \A i \in 0..(ResultSlots - 1) :
              i \notin offset..(offset + Len(terms) - 1) => Slot(written, i) = Slot(result, i)
    BY <2>2 DEF HasWritten
  <2> QED BY <1>3, <2>3 DEF written
<1>8. /\ Slot(new, offset) = t1 /\ Slot(new, offset + 1) = t2 /\ Slot(new, offset + 2) = confidence
  <2>1. /\ 1 \in 1..3 /\ 2 \in 1..3 /\ 3 \in 1..3
        /\ offset + (1 - 1) = offset /\ offset + (2 - 1) = offset + 1 /\ offset + (3 - 1) = offset + 2
    BY <1>6
  <2>2. /\ Slot(new, offset + (1 - 1)) = terms[1] /\ Slot(new, offset + (2 - 1)) = terms[2]
        /\ Slot(new, offset + (3 - 1)) = terms[3]
    BY <1>4, <1>7, <2>1
  <2> QED BY <1>4, <2>1, <2>2
<1>9. IsResult(new)
  BY <1>7 DEF IsResult
<1>10. \A i \in ResultIndices \ (offset..(offset + 2)) : Slot(new, i) = Slot(result, i)
  <2>1. offset + Len(terms) - 1 = offset + 2
    BY <1>4, <1>6
  <2> QED BY <1>7, <2>1 DEF ResultIndices
<1> QED BY <1>8, <1>9, <1>10 DEF ShiftIs, new, words, x, y, confidence, t1, t2

\* The scan and the reduction, and the call that finalises their result.
LEMMA PeakIsScanned ==
    ASSUME NEW mem, IsMemory(mem), NEW pad, NEW mode, NEW slot, NEW radius, NEW images, NEW size
    PROVE  LET words == PeakParams(pad, mode, slot, radius)
           IN  \E mid : /\ IsMemory(mid)
                        /\ \A b \in Surfaces \ {PeakScratch} : mid[b] = mem[b]
                        /\ Scanned(mid[Result], mem[CrossPow], pad)
                        /\ \A i \in ResultIndices \ {11, 15} : Slot(mid[Result], i) = Slot(mem[Result], i)
                        /\ PerformCalls(mem, FindPeak(words), images, size)
                             = [mid EXCEPT ![Result] = Finalized(mid[Result], mem[CrossPow], words)]
<1> DEFINE words == PeakParams(pad, mode, slot, radius)
           surface == mem[CrossPow]
           S == {pad, mode, slot, radius}
           update == Update(words)
           find   == Launch(PeakFind, PeakWorkgroups)
           wait1  == Barrier({PeakScratch})
           reduce == Launch(PeakReduce, 1)
           wait2  == Barrier({PeakScratch, Result})
           final  == Launch(PeakFinal, 1)
           m1 == Perform(mem, update, images, size)
           m2 == Perform(m1, find, images, size)
           m3 == Perform(m2, reduce, images, size)
           m4 == Perform(m3, final, images, size)
<1>1. words \in Seq(S) /\ Len(words) = 5
  BY DEF PeakParams
<1>15. words = <<pad, pad, mode, slot, radius>>
  BY DEF PeakParams
<1>2. FindPeak(words) = << update, find, wait1, reduce, wait2, final >>
  BY DEF FindPeak
<1>3. PerformCalls(mem, << update, find, wait1, reduce, wait2, final >>, images, size) = m4
  <2> DEFINE C == {update, find, wait1, reduce, wait2, final}
             c1 == <<update, find>>
             c2 == <<wait1, reduce>>
             c3 == <<wait2, final>>
             front == c1 \o c2
  <2>1. c1 \in Seq(C) /\ c2 \in Seq(C) /\ c3 \in Seq(C)
    OBVIOUS
  <2>2. front \in Seq(C)
    OBVIOUS
  <2>8. << update, find, wait1, reduce, wait2, final >> = front \o c3
    OBVIOUS
  <2>3. PerformCalls(mem, c1, images, size) = m2
    BY TwoPerformed
  <2>4. PerformCalls(m2, c2, images, size) = m3
    BY TwoPerformed, BarrierGives
  <2>5. PerformCalls(m3, c3, images, size) = m4
    BY TwoPerformed, BarrierGives
  <2> HIDE DEF c1, c2, c3, C, m2, m3, m4
  <2>6. PerformCalls(mem, front, images, size) = m3
    BY <2>1, <2>3, <2>4, PerformedJoined
  <2> HIDE DEF front
  <2>7. PerformCalls(mem, front \o c3, images, size) = m4
    BY <2>1, <2>2, <2>5, <2>6, PerformedJoined
  <2> QED BY <2>7, <2>8
<1>4. IsMemory(m1) /\ Given(m1, words) /\ \A b \in DeviceBuffers \ {Params} : m1[b] = mem[b]
  <2> HIDE DEF words, S
  <2>1. Len(words) <= 8 /\ words \in Seq(S)
    BY <1>1
  <2>2. LET new == Perform(mem, Update(words), images, size)
        IN  IsMemory(new) /\ Given(new, words) /\ \A b \in DeviceBuffers \ {Params} : new[b] = mem[b]
    BY <2>1, UpdateGives
  <2> QED BY <2>2
<1> HIDE DEF words, m1
<1>5. /\ Puts(m1, m2, PeakScratch, Term("peak_find", <<m1[CrossPow]>>, <<pad, pad>>))
      /\ m2[Params] = m1[Params]
  <2> DEFINE kernel == "peak_find"
             reads == <<CrossPow>>
             two == <<pad, pad>>
             T == {pad}
  <2>1. kernel \in SurfaceKernels /\ PeakScratch \in Surfaces /\ two \in Seq(T) /\ Len(two) = ParamWords(kernel)
    BY SurfacesAre DEF SurfaceKernels, ParamWords
  <2>2. Given(m1, two)
    BY <1>4, <1>15, GivenBegins
  <2>3. EnoughFor(kernel, two, PeakWorkgroups)
    BY DEF EnoughFor
  <2>4. PeakFind = Pipeline(kernel, reads, PeakScratch)
    BY DEF PeakFind
  <2>5. Inputs(m1, reads, PeakScratch) = <<m1[CrossPow]>>
    BY DEF Inputs
  <2> HIDE DEF kernel, reads, two, T
  <2>6. Puts(m1, m2, PeakScratch, Term(kernel, Inputs(m1, reads, PeakScratch), two)) /\ m2[Params] = m1[Params]
    BY <1>4, <2>1, <2>2, <2>3, <2>4, LaunchPuts
  <2> QED BY <2>5, <2>6 DEF kernel, two
<1> HIDE DEF m2
<1>6. /\ IsMemory(m2) /\ m2[PeakScratch] = ScanOf(surface, pad)
      /\ \A b \in DeviceBuffers \ {PeakScratch, Params} : m2[b] = mem[b]
      /\ Given(m2, words) /\ m2[Result] = mem[Result]
  <2>1. m1[CrossPow] = surface
    BY <1>4, SurfacesAre DEF Surfaces
  <2>2. IsMemory(m2) /\ m2[PeakScratch] = ScanOf(surface, pad)
    BY <1>5, <2>1 DEF Puts, ScanOf
  <2>3. \A b \in DeviceBuffers \ {PeakScratch, Params} : m2[b] = mem[b]
    BY <1>4, <1>5 DEF Puts
  <2>4. Given(m2, words)
    BY <1>4, <1>5 DEF Given
  <2> QED BY <2>2, <2>3, <2>4, SurfacesAre DEF Surfaces
<1>7. m3 = [m2 EXCEPT ![Result] = Reduced(m2[Result], m2[PeakScratch])]
  BY <1>6, ReducePuts
<1>8. IsResult(mem[Result])
  BY DEF IsMemory, IsResult
<1> DEFINE reduced == Reduced(mem[Result], ScanOf(surface, pad))
<1>9. /\ IsResult(reduced) /\ Scanned(reduced, surface, pad)
      /\ \A i \in ResultIndices \ {11, 15} : Slot(reduced, i) = Slot(mem[Result], i)
  BY <1>8, ReducedIs DEF Scanned, HeightOf, PlaceOf
<1> HIDE DEF reduced, m3
<1>10. IsMemory(m3) /\ m3[Result] = reduced /\ \A b \in DeviceBuffers \ {Result} : m3[b] = m2[b]
  <2>1. m3 = [m2 EXCEPT ![Result] = reduced]
    BY <1>6, <1>7 DEF reduced
  <2>2. PutsResult(m2, m3, reduced)
    BY <1>6, <1>9, <2>1, PutResult
  <2> QED BY <2>2 DEF PutsResult
<1>11. Given(m3, words) /\ m3[CrossPow] = surface /\ \A b \in Surfaces \ {PeakScratch} : m3[b] = mem[b]
  <2>1. m3[Params] = m2[Params]
    BY <1>10, SurfacesAre
  <2>2. Given(m3, words)
    BY <1>6, <2>1 DEF Given
  <2>3. \A b \in Surfaces \ {PeakScratch} : m3[b] = mem[b]
    BY <1>6, <1>10 DEF Surfaces
  <2>4. CrossPow \in Surfaces \ {PeakScratch}
    BY SurfacesAre, NamesOfBuffers
  <2> QED BY <2>2, <2>3, <2>4
<1>12. m4 = [m3 EXCEPT ![Result] = Finalized(m3[Result], m3[CrossPow], words)]
  <2> HIDE DEF S
  <2>1. Perform(m3, final, images, size) = [m3 EXCEPT ![Result] = Finalized(m3[Result], m3[CrossPow], words)]
    BY <1>1, <1>10, <1>11, FinalPuts
  <2> QED BY <2>1
<1> HIDE DEF m4
<1>13. PerformCalls(mem, FindPeak(words), images, size) = [m3 EXCEPT ![Result] = Finalized(m3[Result], surface, words)]
  BY <1>2, <1>3, <1>11, <1>12
<1>14. Scanned(m3[Result], surface, pad) /\ \A i \in ResultIndices \ {11, 15} : Slot(m3[Result], i) = Slot(mem[Result], i)
  BY <1>9, <1>10
<1> QED BY <1>10, <1>11, <1>13, <1>14 DEF words

LEMMA FindPeakTurns ==
    ASSUME NEW mem, IsMemory(mem), NEW pad, NEW radius, NEW images, NEW size
    PROVE  LET new == PerformCalls(mem, FindPeak(PeakParams(pad, 0, 0, radius)), images, size)
           IN  /\ IsMemory(new)
               /\ \A b \in Surfaces \ {PeakScratch} : new[b] = mem[b]
               /\ TurnIs(new[Result], mem[CrossPow], pad, radius)
<1> DEFINE words == PeakParams(pad, 0, 0, radius)
           new == PerformCalls(mem, FindPeak(words), images, size)
           surface == mem[CrossPow]
<1>1. PICK mid : /\ IsMemory(mid)
                 /\ \A b \in Surfaces \ {PeakScratch} : mid[b] = mem[b]
                 /\ Scanned(mid[Result], surface, pad)
                 /\ \A i \in ResultIndices \ {11, 15} : Slot(mid[Result], i) = Slot(mem[Result], i)
                 /\ new = [mid EXCEPT ![Result] = Finalized(mid[Result], surface, words)]
  BY PeakIsScanned
<1> DEFINE result == Finalized(mid[Result], surface, words)
<1>2. IsResult(mid[Result])
  BY <1>1 DEF IsMemory, IsResult
<1>3. IsResult(result) /\ TurnIs(result, surface, pad, radius)
  BY <1>1, <1>2, FinalTurn
<1>4. IsResult(result) /\ IsMemory(mid)
  BY <1>1, <1>3
<1>5. new = [mid EXCEPT ![Result] = result]
  BY <1>1
<1> HIDE DEF new, result, words
<1>6. /\ IsMemory(new) /\ new[Result] = result
      /\ \A b \in DeviceBuffers \ {Result} : new[b] = mid[b]
  <2>1. PutsResult(mid, new, result)
    BY <1>4, <1>5, PutResult
  <2> QED BY <2>1 DEF PutsResult
<1>7. \A b \in Surfaces \ {PeakScratch} : new[b] = mem[b]
  BY <1>1, <1>6 DEF Surfaces
<1> QED BY <1>3, <1>6, <1>7 DEF new, words

LEMMA FindPeakShifts ==
    ASSUME NEW mem, IsMemory(mem), NEW pad, NEW offset \in {8, 12}, NEW images, NEW size
    PROVE  LET new == PerformCalls(mem, FindPeak(PeakParams(pad, 1, offset, 0)), images, size)
           IN  /\ IsMemory(new)
               /\ \A b \in Surfaces \ {PeakScratch} : new[b] = mem[b]
               /\ ShiftIs(new[Result], offset, mem[CrossPow], pad)
               /\ \A i \in 0..(offset - 1) : i # 11 => Slot(new[Result], i) = Slot(mem[Result], i)
<1> DEFINE words == PeakParams(pad, 1, offset, 0)
           new == PerformCalls(mem, FindPeak(words), images, size)
           surface == mem[CrossPow]
<1>1. PICK mid : /\ IsMemory(mid)
                 /\ \A b \in Surfaces \ {PeakScratch} : mid[b] = mem[b]
                 /\ Scanned(mid[Result], surface, pad)
                 /\ \A i \in ResultIndices \ {11, 15} : Slot(mid[Result], i) = Slot(mem[Result], i)
                 /\ new = [mid EXCEPT ![Result] = Finalized(mid[Result], surface, words)]
  BY PeakIsScanned
<1> DEFINE result == Finalized(mid[Result], surface, words)
<1>2. IsResult(mid[Result]) /\ offset \in 0..(ResultSlots - 3)
  BY <1>1 DEF IsMemory, IsResult, ResultSlots
<1>3. IsResult(result) /\ ShiftIs(result, offset, surface, pad)
      /\ \A i \in ResultIndices \ (offset..(offset + 2)) : Slot(result, i) = Slot(mid[Result], i)
  BY <1>1, <1>2, FinalShift
<1>4. IsResult(result) /\ IsMemory(mid)
  BY <1>1, <1>3
<1>5. new = [mid EXCEPT ![Result] = result]
  BY <1>1
<1> HIDE DEF new, result, words
<1>6. /\ IsMemory(new) /\ new[Result] = result
      /\ \A b \in DeviceBuffers \ {Result} : new[b] = mid[b]
  <2>1. PutsResult(mid, new, result)
    BY <1>4, <1>5, PutResult
  <2> QED BY <2>1 DEF PutsResult
<1>7. \A b \in Surfaces \ {PeakScratch} : new[b] = mem[b]
  BY <1>1, <1>6 DEF Surfaces
<1>8. ASSUME NEW i \in 0..(offset - 1), i # 11
      PROVE  Slot(new[Result], i) = Slot(mem[Result], i)
  <2>1. i \in ResultIndices \ {11, 15} /\ i \in ResultIndices \ (offset..(offset + 2))
    BY <1>8 DEF ResultIndices, ResultSlots
  <2>2. Slot(result, i) = Slot(mid[Result], i) /\ Slot(mid[Result], i) = Slot(mem[Result], i)
    BY <1>1, <1>3, <2>1
  <2> QED BY <1>6, <2>2
<1> QED BY <1>3, <1>6, <1>7, <1>8 DEF new, words

\* The sequence before an appended word.
LEMMA AllButLast ==
    ASSUME NEW v, NEW w, NEW m, NEW s, NEW r, NEW x
    PROVE  SubSeq(Append(<<v, w, m, s, r>>, x), 1, 5) = <<v, w, m, s, r>>
<1> DEFINE S == {v, w, m, s, r, x}
           front == <<v, w, m, s, r>>
           words == Append(front, x)
<1>1. front \in Seq(S) /\ x \in S /\ Len(front) = 5
  OBVIOUS
<1> HIDE DEF S, front
<1>2. words \in Seq(S) /\ Len(words) = Len(front) + 1 /\ \A k \in 1..Len(front) : words[k] = front[k]
  <2>1. front \in Seq(S) /\ x \in S
    BY <1>1
  <2> QED BY <2>1, AppendProperties
<1> HIDE DEF words
<1> DEFINE n == Len(front)
<1>3. n \in Nat /\ n <= Len(words) /\ Len(words) \in Nat
  BY <1>1, <1>2
<1> HIDE DEF n
<1>4. SubSeq(words, 1, n) \in Seq(S) /\ Len(SubSeq(words, 1, n)) = n
      /\ \A k \in 1..n : SubSeq(words, 1, n)[k] = words[k]
  BY <1>2, <1>3
<1>5. SubSeq(words, 1, n) = front
  BY <1>1, <1>2, <1>4, SeqEqual DEF n
<1> QED BY <1>1, <1>5 DEF words, front, n

\* The warp reads an image, and the turn from the result.
LEMMA WarpPuts ==
    ASSUME NEW mem, IsMemory(mem), NEW size, NEW pad \in Int, NEW slot \in {0, 1}, NEW angle, NEW plus,
           Slot(mem[Result], 4 + 2 * slot) = Cos(angle, plus),
           Slot(mem[Result], 5 + 2 * slot) = Sin(angle, plus), NEW images
    PROVE  Puts(mem, PerformCalls(mem, StageWith(WarpParams(size, pad, slot), Warp, pad * pad), images, size),
                Complex("A"), WarpCPU(mem[Rgba("A")], angle, plus, Slot(mem[Result], 3), size, pad))
<1> DEFINE words == WarpParams(size, pad, slot)
           n == pad * pad
           S == {size.w, size.h, pad, Smaller(size.w, size.h), slot}
           update == Update(words)
           launch == Launch(Warp, Groups(n))
           wait == Barrier({Warp.writes})
           stage == <<launch, wait>>
           mid == Perform(mem, update, images, size)
           new == Perform(mid, launch, images, size)
           d == Complex("A")
           x == WarpCPU(mem[Rgba("A")], angle, plus, Slot(mem[Result], 3), size, pad)
           C == {update, launch, wait}
<1>1. words \in Seq(S) /\ Len(words) = 6 /\ words[4] = pad /\ words[6] = slot
      /\ SubSeq(words, 1, 5) = GrayPadParams(size, pad)
  <2> DEFINE front == GrayPadParams(size, pad)
  <2>1. front \in Seq(S) /\ Len(front) = 5 /\ front[4] = pad /\ slot \in S
    BY DEF GrayPadParams
  <2>2. words = Append(front, slot)
    BY DEF WarpParams
  <2>3. SubSeq(words, 1, 5) = front
    BY <2>2, AllButLast DEF GrayPadParams
  <2> HIDE DEF front, words, S
  <2>4. words \in Seq(S) /\ Len(words) = Len(front) + 1
        /\ (\A k \in 1..Len(front) : words[k] = front[k]) /\ words[Len(front) + 1] = slot
    <3>1. front \in Seq(S) /\ slot \in S
      BY <2>1
    <3>2. /\ Append(front, slot) \in Seq(S) /\ Len(Append(front, slot)) = Len(front) + 1
          /\ \A k \in 1..Len(front) : Append(front, slot)[k] = front[k]
          /\ Append(front, slot)[Len(front) + 1] = slot
      BY <3>1, AppendProperties
    <3> QED BY <2>2, <3>2
  <2>5. Len(words) = 6 /\ words[4] = pad /\ words[6] = slot
    BY <2>1, <2>4
  <2> QED BY <2>3, <2>4, <2>5 DEF front
<1>2. PerformCalls(mem, << update >> \o stage, images, size) = new
  <2>1. update \in C /\ stage \in Seq(C)
    OBVIOUS
  <2>2. PerformCalls(mid, stage, images, size) = new
    BY TwoPerformed, BarrierGives
  <2> HIDE DEF C, stage, update, mid, new
  <2>3. PerformCalls(mem, << update >> \o stage, images, size)
          = PerformCalls(Perform(mem, update, images, size), stage, images, size)
    BY <2>1, PerformedBefore
  <2> QED BY <2>2, <2>3 DEF mid
<1>3. StageWith(words, Warp, n) = << update >> \o stage
  BY DEF StageWith, Stage
<1> HIDE DEF words, S
<1>4. IsMemory(mid) /\ Given(mid, words) /\ \A b \in DeviceBuffers \ {Params} : mid[b] = mem[b]
  <2>1. Len(words) <= 8 /\ words \in Seq(S)
    BY <1>1
  <2>2. LET r == Perform(mem, Update(words), images, size)
        IN  IsMemory(r) /\ Given(r, words) /\ \A b \in DeviceBuffers \ {Params} : r[b] = mem[b]
    BY <2>1, UpdateGives
  <2> QED BY <2>2
<1> HIDE DEF mid
<1>5. mid[Rgba("A")] = mem[Rgba("A")] /\ mid[Result] = mem[Result]
  BY <1>4, SurfacesAre DEF Surfaces
<1>6. Warp.kernel = "bilinear_warp_gray" /\ Warp.writes = d
  BY DEF Warp, Pipeline
<1>7. new = Launched(mid, Warp, Groups(n))
  <2>1. launch.op = "launch" /\ launch.pipeline = Warp /\ launch.groups = Groups(n)
    BY DEF Launch
  <2> HIDE DEF launch
  <2> QED BY <2>1 DEF Perform
<1> HIDE DEF new
<1>8. ParamWords("bilinear_warp_gray") = 6 /\ Threads("bilinear_warp_gray", words) = n
  BY <1>1 DEF ParamWords, Threads
<1>9. SubSeq(mid[Params], 1, 6) = words
  <2>1. Len(words) <= 8 /\ words \in Seq(S) /\ Len(words) = 6
    BY <1>1
  <2>2. SubSeq(mid[Params], 1, Len(words)) = words
    BY <1>4, <2>1, WordsRead
  <2> QED BY <2>1, <2>2
<1>10. Groups(n) * WorkgroupSize >= n
  BY GroupsSuffice
<1>11. x = Term("bilinear_warp_gray",
                <<mid[Rgba("A")], Slot(mid[Result], 4 + 2 * slot), Slot(mid[Result], 5 + 2 * slot),
                  Slot(mid[Result], 3)>>, GrayPadParams(size, pad))
  BY <1>5 DEF WarpCPU, GrayPadParams
<1> HIDE DEF x, n, d
<1>12. new = [mid EXCEPT ![d] = x]
  <2> DEFINE g == Groups(n)
             p == Warp
             w == SubSeq(mid[Params], 1, ParamWords(p.kernel))
             read == <<mid[Rgba("A")], Slot(mid[Result], 4 + 2 * w[6]), Slot(mid[Result], 5 + 2 * w[6]),
                       Slot(mid[Result], 3)>>
  <2>1. w = words
    BY <1>6, <1>8, <1>9
  <2>2. p.kernel = "bilinear_warp_gray" /\ p.writes = d
    BY <1>6
  <2>3. p.reads # << >>
    BY DEF Warp, Pipeline
  <2>4. g * WorkgroupSize >= Threads(p.kernel, w)
    BY <1>6, <1>8, <1>10, <2>1
  <2>5. x = Term(p.kernel, read, SubSeq(w, 1, 5))
    BY <1>1, <1>11, <2>1, <2>2
  <2>6. new = Launched(mid, p, g)
    BY <1>7
  <2> HIDE DEF g, p
  <2>7. Launched(mid, p, g) = [mid EXCEPT ![p.writes] = Term(p.kernel, read, SubSeq(w, 1, 5))]
    BY <2>2, <2>3, <2>4 DEF Launched
  <2> QED BY <2>2, <2>5, <2>6, <2>7
<1>13. d \in Surfaces
  BY SurfacesAre DEF d
<1>14. Puts(mid, [mid EXCEPT ![d] = x], d, x)
  BY <1>4, <1>13, PutSurface
<1>15. Puts(mem, new, d, x)
  BY <1>4, <1>12, <1>14 DEF Puts
<1> QED BY <1>2, <1>3, <1>15 DEF words, n, d, x

----------------------------------------------------------------------------
(* The other stages. *)

\* Stages with one input or two, and what the stage behind them may take from their parameters.

LEMMA GrayPuts ==
    ASSUME NEW mem, IsMemory(mem), NEW images, NEW size, NEW i \in {"A", "B"}, NEW pad \in Int
    PROVE  LET new == PerformCalls(mem, StageWith(GrayPadParams(size, pad), GrayPad(i), pad * pad), images, size)
           IN  Puts(mem, new, Complex(i), GrayCropPadCPU(mem[Rgba(i)], size, pad)) /\ Given(new, GrayPadParams(size, pad))
<1> DEFINE kernel == "grayscale_pad"
           words == GrayPadParams(size, pad)
           reads == <<Rgba(i)>>
           d == Complex(i)
           threads == pad * pad
           S == {size.w, size.h, pad, Smaller(size.w, size.h)}
           new == PerformCalls(mem, StageWith(words, Pipeline(kernel, reads, d), threads), images, size)
<1>1. words \in Seq(S) /\ Len(words) = ParamWords(kernel) /\ Threads(kernel, words) = threads /\ threads \in Int
  BY DEF ParamWords, Threads, GrayPadParams
<1>2. kernel \in SurfaceKernels \ {"peak_find"} /\ d \in Surfaces /\ Range(reads) \subseteq Surfaces
  BY SurfacesAre DEF SurfaceKernels, Range
<1>3. GrayPad(i) = Pipeline(kernel, reads, d)
  BY DEF GrayPad
<1>4. GrayCropPadCPU(mem[Rgba(i)], size, pad) = Term(kernel, Inputs(mem, reads, d), words)
  BY DEF Inputs, GrayCropPadCPU, GrayPadParams
<1> HIDE DEF kernel, words, reads, d, threads, S, new
<1>6. Puts(mem, new, d, Term(kernel, Inputs(mem, reads, d), words)) /\ Given(new, words)
  BY <1>1, <1>2, StageWithPuts DEF new
<1> QED BY <1>3, <1>4, <1>6 DEF kernel, words, d, threads, new

LEMMA MagnitudePuts ==
    ASSUME NEW mem, IsMemory(mem), NEW images, NEW size, NEW i \in {"A", "B"}, NEW pad \in Int
    PROVE  LET new == PerformCalls(mem, StageWith(<<pad * pad>>, Magnitude(i), pad * pad), images, size)
           IN  Puts(mem, new, Mag(i), Term("magnitude", <<mem[Complex(i)]>>, <<pad * pad>>)) /\ Given(new, <<pad * pad>>)
<1> DEFINE kernel == "magnitude"
           words == <<pad * pad>>
           reads == <<Complex(i)>>
           d == Mag(i)
           threads == pad * pad
           S == {pad * pad}
           new == PerformCalls(mem, StageWith(words, Pipeline(kernel, reads, d), threads), images, size)
<1>1. words \in Seq(S) /\ Len(words) = ParamWords(kernel) /\ Threads(kernel, words) = threads /\ threads \in Int
  BY DEF ParamWords, Threads
<1>2. kernel \in SurfaceKernels \ {"peak_find"} /\ d \in Surfaces /\ Range(reads) \subseteq Surfaces
  BY SurfacesAre DEF SurfaceKernels, Range
<1>3. Magnitude(i) = Pipeline(kernel, reads, d)
  BY DEF Magnitude
<1>4. Term("magnitude", <<mem[Complex(i)]>>, <<pad * pad>>) = Term(kernel, Inputs(mem, reads, d), words)
  BY DEF Inputs
<1> HIDE DEF kernel, words, reads, d, threads, S, new
<1>6. Puts(mem, new, d, Term(kernel, Inputs(mem, reads, d), words)) /\ Given(new, words)
  BY <1>1, <1>2, StageWithPuts DEF new
<1> QED BY <1>3, <1>4, <1>6 DEF kernel, words, d, threads, new

LEMMA MagnitudeAgain ==
    ASSUME NEW mem, IsMemory(mem), NEW images, NEW size, NEW i \in {"A", "B"}, NEW pad \in Int, Given(mem, <<pad * pad>>)
    PROVE  LET new == PerformCalls(mem, Stage(Magnitude(i), pad * pad), images, size)
           IN  Puts(mem, new, Mag(i), Term("magnitude", <<mem[Complex(i)]>>, <<pad * pad>>)) /\ Given(new, <<pad * pad>>)
<1> DEFINE kernel == "magnitude"
           words == <<pad * pad>>
           reads == <<Complex(i)>>
           d == Mag(i)
           threads == pad * pad
           S == {pad * pad}
           new == PerformCalls(mem, Stage(Pipeline(kernel, reads, d), threads), images, size)
<1>1. words \in Seq(S) /\ Len(words) = ParamWords(kernel) /\ Threads(kernel, words) = threads /\ threads \in Int
  BY DEF ParamWords, Threads
<1>2. kernel \in SurfaceKernels \ {"peak_find"} /\ d \in Surfaces /\ Range(reads) \subseteq Surfaces
  BY SurfacesAre DEF SurfaceKernels, Range
<1>3. Magnitude(i) = Pipeline(kernel, reads, d)
  BY DEF Magnitude
<1>4. Term("magnitude", <<mem[Complex(i)]>>, <<pad * pad>>) = Term(kernel, Inputs(mem, reads, d), words)
  BY DEF Inputs
<1>5. Given(mem, words)
  OBVIOUS
<1> HIDE DEF kernel, words, reads, d, threads, S, new
<1>6. Puts(mem, new, d, Term(kernel, Inputs(mem, reads, d), words)) /\ Given(new, words)
  BY <1>1, <1>2, <1>5, StagePuts DEF new
<1> QED BY <1>3, <1>4, <1>6 DEF kernel, words, d, threads, new

LEMMA FftshiftPuts ==
    ASSUME NEW mem, IsMemory(mem), NEW images, NEW size, NEW i \in {"A", "B"}, NEW pad \in Int
    PROVE  LET new == PerformCalls(mem, StageWith(<<pad, pad>>, Fftshift(i), (pad * pad) \div 2), images, size)
           IN  Puts(mem, new, Mag(i), Term("fftshift", <<mem[Mag(i)]>>, <<pad, pad>>)) /\ Given(new, <<pad, pad>>)
<1> DEFINE kernel == "fftshift"
           words == <<pad, pad>>
           reads == << >>
           d == Mag(i)
           threads == (pad * pad) \div 2
           S == {pad}
           new == PerformCalls(mem, StageWith(words, Pipeline(kernel, reads, d), threads), images, size)
<1>1. words \in Seq(S) /\ Len(words) = ParamWords(kernel) /\ Threads(kernel, words) = threads /\ threads \in Int
  BY DEF ParamWords, Threads
<1>2. kernel \in SurfaceKernels \ {"peak_find"} /\ d \in Surfaces /\ Range(reads) \subseteq Surfaces
  BY SurfacesAre DEF SurfaceKernels, Range
<1>3. Fftshift(i) = Pipeline(kernel, reads, d)
  BY DEF Fftshift
<1>4. Term("fftshift", <<mem[Mag(i)]>>, <<pad, pad>>) = Term(kernel, Inputs(mem, reads, d), words)
  BY DEF Inputs
<1> HIDE DEF kernel, words, reads, d, threads, S, new
<1>6. Puts(mem, new, d, Term(kernel, Inputs(mem, reads, d), words)) /\ Given(new, words)
  BY <1>1, <1>2, StageWithPuts DEF new
<1> QED BY <1>3, <1>4, <1>6 DEF kernel, words, d, threads, new

LEMMA FftshiftAgain ==
    ASSUME NEW mem, IsMemory(mem), NEW images, NEW size, NEW i \in {"A", "B"}, NEW pad \in Int, Given(mem, <<pad, pad>>)
    PROVE  LET new == PerformCalls(mem, Stage(Fftshift(i), (pad * pad) \div 2), images, size)
           IN  Puts(mem, new, Mag(i), Term("fftshift", <<mem[Mag(i)]>>, <<pad, pad>>)) /\ Given(new, <<pad, pad>>)
<1> DEFINE kernel == "fftshift"
           words == <<pad, pad>>
           reads == << >>
           d == Mag(i)
           threads == (pad * pad) \div 2
           S == {pad}
           new == PerformCalls(mem, Stage(Pipeline(kernel, reads, d), threads), images, size)
<1>1. words \in Seq(S) /\ Len(words) = ParamWords(kernel) /\ Threads(kernel, words) = threads /\ threads \in Int
  BY DEF ParamWords, Threads
<1>2. kernel \in SurfaceKernels \ {"peak_find"} /\ d \in Surfaces /\ Range(reads) \subseteq Surfaces
  BY SurfacesAre DEF SurfaceKernels, Range
<1>3. Fftshift(i) = Pipeline(kernel, reads, d)
  BY DEF Fftshift
<1>4. Term("fftshift", <<mem[Mag(i)]>>, <<pad, pad>>) = Term(kernel, Inputs(mem, reads, d), words)
  BY DEF Inputs
<1>5. Given(mem, words)
  OBVIOUS
<1> HIDE DEF kernel, words, reads, d, threads, S, new
<1>6. Puts(mem, new, d, Term(kernel, Inputs(mem, reads, d), words)) /\ Given(new, words)
  BY <1>1, <1>2, <1>5, StagePuts DEF new
<1> QED BY <1>3, <1>4, <1>6 DEF kernel, words, d, threads, new

LEMMA HighpassAgain ==
    ASSUME NEW mem, IsMemory(mem), NEW images, NEW size, NEW i \in {"A", "B"}, NEW pad \in Int, Given(mem, <<pad, pad>>)
    PROVE  LET new == PerformCalls(mem, Stage(Highpass(i), pad * pad), images, size)
           IN  Puts(mem, new, Mag(i), Term("highpass", <<mem[Mag(i)]>>, <<pad, pad>>)) /\ Given(new, <<pad, pad>>)
<1> DEFINE kernel == "highpass"
           words == <<pad, pad>>
           reads == << >>
           d == Mag(i)
           threads == pad * pad
           S == {pad}
           new == PerformCalls(mem, Stage(Pipeline(kernel, reads, d), threads), images, size)
<1>1. words \in Seq(S) /\ Len(words) = ParamWords(kernel) /\ Threads(kernel, words) = threads /\ threads \in Int
  BY DEF ParamWords, Threads
<1>2. kernel \in SurfaceKernels \ {"peak_find"} /\ d \in Surfaces /\ Range(reads) \subseteq Surfaces
  BY SurfacesAre DEF SurfaceKernels, Range
<1>3. Highpass(i) = Pipeline(kernel, reads, d)
  BY DEF Highpass
<1>4. Term("highpass", <<mem[Mag(i)]>>, <<pad, pad>>) = Term(kernel, Inputs(mem, reads, d), words)
  BY DEF Inputs
<1>5. Given(mem, words)
  OBVIOUS
<1> HIDE DEF kernel, words, reads, d, threads, S, new
<1>6. Puts(mem, new, d, Term(kernel, Inputs(mem, reads, d), words)) /\ Given(new, words)
  BY <1>1, <1>2, <1>5, StagePuts DEF new
<1> QED BY <1>3, <1>4, <1>6 DEF kernel, words, d, threads, new

LEMMA LogPolarPuts ==
    ASSUME NEW mem, IsMemory(mem), NEW images, NEW size, NEW i \in {"A", "B"}, NEW pad \in Int
    PROVE  LET new == PerformCalls(mem, StageWith(LogPolarParams(size, pad), LogPolar(i), pad * pad), images, size)
           IN  Puts(mem, new, LogPol(i), Term("logpolar", <<mem[Mag(i)]>>, LogPolarParams(size, pad))) /\ Given(new, LogPolarParams(size, pad))
<1> DEFINE kernel == "logpolar"
           words == LogPolarParams(size, pad)
           reads == <<Mag(i)>>
           d == LogPol(i)
           threads == pad * pad
           S == {pad, Smaller(size.w, size.h)}
           new == PerformCalls(mem, StageWith(words, Pipeline(kernel, reads, d), threads), images, size)
<1>1. words \in Seq(S) /\ Len(words) = ParamWords(kernel) /\ Threads(kernel, words) = threads /\ threads \in Int
  BY DEF ParamWords, Threads, LogPolarParams
<1>2. kernel \in SurfaceKernels \ {"peak_find"} /\ d \in Surfaces /\ Range(reads) \subseteq Surfaces
  BY SurfacesAre DEF SurfaceKernels, Range
<1>3. LogPolar(i) = Pipeline(kernel, reads, d)
  BY DEF LogPolar
<1>4. Term("logpolar", <<mem[Mag(i)]>>, LogPolarParams(size, pad)) = Term(kernel, Inputs(mem, reads, d), words)
  BY DEF Inputs, LogPolarParams
<1> HIDE DEF kernel, words, reads, d, threads, S, new
<1>6. Puts(mem, new, d, Term(kernel, Inputs(mem, reads, d), words)) /\ Given(new, words)
  BY <1>1, <1>2, StageWithPuts DEF new
<1> QED BY <1>3, <1>4, <1>6 DEF kernel, words, d, threads, new

LEMMA LogPolarAgain ==
    ASSUME NEW mem, IsMemory(mem), NEW images, NEW size, NEW i \in {"A", "B"}, NEW pad \in Int, Given(mem, LogPolarParams(size, pad))
    PROVE  LET new == PerformCalls(mem, Stage(LogPolar(i), pad * pad), images, size)
           IN  Puts(mem, new, LogPol(i), Term("logpolar", <<mem[Mag(i)]>>, LogPolarParams(size, pad))) /\ Given(new, LogPolarParams(size, pad))
<1> DEFINE kernel == "logpolar"
           words == LogPolarParams(size, pad)
           reads == <<Mag(i)>>
           d == LogPol(i)
           threads == pad * pad
           S == {pad, Smaller(size.w, size.h)}
           new == PerformCalls(mem, Stage(Pipeline(kernel, reads, d), threads), images, size)
<1>1. words \in Seq(S) /\ Len(words) = ParamWords(kernel) /\ Threads(kernel, words) = threads /\ threads \in Int
  BY DEF ParamWords, Threads, LogPolarParams
<1>2. kernel \in SurfaceKernels \ {"peak_find"} /\ d \in Surfaces /\ Range(reads) \subseteq Surfaces
  BY SurfacesAre DEF SurfaceKernels, Range
<1>3. LogPolar(i) = Pipeline(kernel, reads, d)
  BY DEF LogPolar
<1>4. Term("logpolar", <<mem[Mag(i)]>>, LogPolarParams(size, pad)) = Term(kernel, Inputs(mem, reads, d), words)
  BY DEF Inputs, LogPolarParams
<1>5. Given(mem, words)
  OBVIOUS
<1> HIDE DEF kernel, words, reads, d, threads, S, new
<1>6. Puts(mem, new, d, Term(kernel, Inputs(mem, reads, d), words)) /\ Given(new, words)
  BY <1>1, <1>2, <1>5, StagePuts DEF new
<1> QED BY <1>3, <1>4, <1>6 DEF kernel, words, d, threads, new

LEMMA CrosspowerPuts ==
    ASSUME NEW mem, IsMemory(mem), NEW images, NEW size, NEW a \in Surfaces, NEW b \in Surfaces, NEW pad \in Int
    PROVE  LET new == PerformCalls(mem, StageWith(<<pad * pad, 1>>, Crosspower(a, b), pad * pad), images, size)
           IN  Puts(mem, new, CrossPow, Term("crosspower", <<mem[a], mem[b]>>, <<pad * pad, 1>>)) /\ Given(new, <<pad * pad, 1>>)
<1> DEFINE kernel == "crosspower"
           words == <<pad * pad, 1>>
           reads == <<a, b>>
           d == CrossPow
           threads == pad * pad
           S == {pad * pad, 1}
           new == PerformCalls(mem, StageWith(words, Pipeline(kernel, reads, d), threads), images, size)
<1>1. words \in Seq(S) /\ Len(words) = ParamWords(kernel) /\ Threads(kernel, words) = threads /\ threads \in Int
  BY DEF ParamWords, Threads
<1>2. kernel \in SurfaceKernels \ {"peak_find"} /\ d \in Surfaces /\ Range(reads) \subseteq Surfaces
  BY SurfacesAre DEF SurfaceKernels, Range
<1>3. Crosspower(a, b) = Pipeline(kernel, reads, d)
  BY DEF Crosspower
<1>4. Term("crosspower", <<mem[a], mem[b]>>, <<pad * pad, 1>>) = Term(kernel, Inputs(mem, reads, d), words)
  BY DEF Inputs
<1> HIDE DEF kernel, words, reads, d, threads, S, new
<1>6. Puts(mem, new, d, Term(kernel, Inputs(mem, reads, d), words)) /\ Given(new, words)
  BY <1>1, <1>2, StageWithPuts DEF new
<1> QED BY <1>3, <1>4, <1>6 DEF kernel, words, d, threads, new

----------------------------------------------------------------------------
(* The phases of PhaseCorrelate, and the reference. *)

\* The surface that two spectra's phases give, and what PhaseCorrelationCPU finds on it.
PhaseSurface(a, b, pad) ==
    FFT2DCPU(Term("crosspower", <<FFT2DCPU(a, pad, pad, 0), FFT2DCPU(b, pad, pad, 0)>>, <<pad * pad, 1>>),
             pad, pad, 1)

\* The log-polar spectrum of an image.
SpectrumOf(pixels, size, pad) ==
    LogPolarCPU(MagnitudeSpectrumCPU(GrayCropPadCPU(pixels, size, pad), pad, pad), pad, pad, Smaller(size.w, size.h))

\* The contents after a translation: its shift behind the results before it.
Translated(new, mem, size, pad, offset, surface) ==
    /\ IsMemory(new)
    /\ new[Rgba("A")] = mem[Rgba("A")] /\ new[Rgba("B")] = mem[Rgba("B")]
    /\ ShiftIs(new[Result], offset, surface, pad)
    /\ \A i \in 0..(offset - 1) : i # 11 => Slot(new[Result], i) = Slot(mem[Result], i)

LEMMA BuffersDiffer ==
    /\ Rgba("A") \notin {Rgba("B"), Complex("A"), Complex("B"), Mag("A"), Mag("B"), LogPol("A"), LogPol("B"), CrossPow, PeakScratch, Params, Result}
    /\ Rgba("B") \notin {Complex("A"), Complex("B"), Mag("A"), Mag("B"), LogPol("A"), LogPol("B"), CrossPow, PeakScratch, Params, Result}
    /\ Complex("A") \notin {Complex("B"), Mag("A"), Mag("B"), LogPol("A"), LogPol("B"), CrossPow, PeakScratch, Params, Result}
    /\ Complex("B") \notin {Mag("A"), Mag("B"), LogPol("A"), LogPol("B"), CrossPow, PeakScratch, Params, Result}
    /\ Mag("A") \notin {Mag("B"), LogPol("A"), LogPol("B"), CrossPow, PeakScratch, Params, Result}
    /\ Mag("B") \notin {LogPol("A"), LogPol("B"), CrossPow, PeakScratch, Params, Result}
    /\ LogPol("A") \notin {LogPol("B"), CrossPow, PeakScratch, Params, Result}
    /\ LogPol("B") \notin {CrossPow, PeakScratch, Params, Result}
    /\ CrossPow \notin {PeakScratch, Params, Result}
    /\ PeakScratch \notin {Params, Result}
    /\ Params # Result
BY NamesOfBuffers

LEMMA BuffersNamed ==
    /\ \A i \in {"A", "B"} : /\ Rgba(i) \in DeviceBuffers /\ Complex(i) \in DeviceBuffers
                             /\ Mag(i) \in DeviceBuffers /\ LogPol(i) \in DeviceBuffers
    /\ CrossPow \in DeviceBuffers /\ PeakScratch \in DeviceBuffers /\ Result \in DeviceBuffers /\ Params \in DeviceBuffers
BY SurfacesAre

\* What a part leaves in another buffer.
LEMMA PutsOthers ==
    ASSUME NEW mem, NEW new, NEW d, NEW x, Puts(mem, new, d, x), NEW b \in DeviceBuffers, b # d, b # Params
    PROVE  new[b] = mem[b]
BY DEF Puts

LEMMA RotationIsComputed ==
    ASSUME NEW mem, IsMemory(mem), NEW images, NEW size, NEW pad \in Int
    PROVE  LET new == PerformParts(mem, RecordRotation(size, pad), images, size)
           IN  /\ IsMemory(new)
               /\ new[Rgba("A")] = mem[Rgba("A")] /\ new[Rgba("B")] = mem[Rgba("B")]
               /\ TurnIs(new[Result],
                         PhaseSurface(SpectrumOf(mem[Rgba("A")], size, pad), SpectrumOf(mem[Rgba("B")], size, pad), pad),
                         pad, Smaller(size.w, size.h))
<1> DEFINE ps == RecordRotation(size, pad)
           n == pad * pad
           crop == Smaller(size.w, size.h)
           a == mem[Rgba("A")]
           b == mem[Rgba("B")]
           gA == GrayCropPadCPU(a, size, pad)
           gB == GrayCropPadCPU(b, size, pad)
           fA == FFT2DCPU(gA, pad, pad, 0)
           fB == FFT2DCPU(gB, pad, pad, 0)
           mA == Term("magnitude", <<fA>>, <<n>>)
           mB == Term("magnitude", <<fB>>, <<n>>)
           sA == Term("fftshift", <<mA>>, <<pad, pad>>)
           sB == Term("fftshift", <<mB>>, <<pad, pad>>)
           hA == Term("highpass", <<sA>>, <<pad, pad>>)
           hB == Term("highpass", <<sB>>, <<pad, pad>>)
           lA == Term("logpolar", <<hA>>, LogPolarParams(size, pad))
           lB == Term("logpolar", <<hB>>, LogPolarParams(size, pad))
           tA == FFT2DCPU(lA, pad, pad, 0)
           tB == FFT2DCPU(lB, pad, pad, 0)
           x == Term("crosspower", <<tA, tB>>, <<n, 1>>)
           surface == FFT2DCPU(x, pad, pad, 1)
           p1 == StageWith(GrayPadParams(size, pad), GrayPad("A"), n)
           p2 == StageWith(GrayPadParams(size, pad), GrayPad("B"), n)
           p3 == RecordFFT2D(Complex("A"), pad, pad, 0)
           p4 == RecordFFT2D(Complex("B"), pad, pad, 0)
           p5 == StageWith(<<n>>, Magnitude("A"), n)
           p6 == Stage(Magnitude("B"), n)
           p7 == StageWith(<<pad, pad>>, Fftshift("A"), n \div 2)
           p8 == Stage(Fftshift("B"), n \div 2)
           p9 == Stage(Highpass("A"), n)
           p10 == Stage(Highpass("B"), n)
           p11 == StageWith(LogPolarParams(size, pad), LogPolar("A"), n)
           p12 == Stage(LogPolar("B"), n)
           p13 == RecordFFT2D(LogPol("A"), pad, pad, 0)
           p14 == RecordFFT2D(LogPol("B"), pad, pad, 0)
           p15 == StageWith(<<n, 1>>, Crosspower(LogPol("A"), LogPol("B")), n)
           p16 == RecordFFT2D(CrossPow, pad, pad, 1)
           p17 == FindPeak(PeakParams(pad, 0, 0, crop))
<1>1. DOMAIN ps = 1..17
  BY RotationPhase DEF PhaseOf
<1>2. ps = << p1, p2, p3, p4, p5, p6, p7, p8, p9, p10, p11, p12, p13, p14, p15, p16, p17 >>
  BY DEF RecordRotation
<1>3. PICK F : PerformPartsTrace(F, mem, ps, images, size, 17)
  <2> DEFINE m == 17
  <2>1. m \in Nat /\ DOMAIN ps = 1..m
    BY <1>1
  <2> HIDE DEF m, ps
  <2>2. \E F : PerformPartsTrace(F, mem, ps, images, size, m)
    BY <2>1, PerformPartsFold
  <2> QED BY <2>2 DEF m
<1> HIDE DEF ps, p1, p2, p3, p4, p5, p6, p7, p8, p9, p10, p11, p12, p13, p14, p15, p16, p17
<1>4. F[0] = mem /\ F[17] = PerformParts(mem, ps, images, size)
  BY <1>3 DEF PerformPartsTrace
<1>5. \A k \in 1..17 : F[k] = PerformCalls(F[k - 1], ps[k], images, size)
  BY <1>3, PerformedPart DEF PerformPartsTrace
<1>6. /\ F[1] = PerformCalls(F[0], p1, images, size)
      /\ F[2] = PerformCalls(F[1], p2, images, size)
      /\ F[3] = PerformCalls(F[2], p3, images, size)
      /\ F[4] = PerformCalls(F[3], p4, images, size)
      /\ F[5] = PerformCalls(F[4], p5, images, size)
      /\ F[6] = PerformCalls(F[5], p6, images, size)
      /\ F[7] = PerformCalls(F[6], p7, images, size)
      /\ F[8] = PerformCalls(F[7], p8, images, size)
      /\ F[9] = PerformCalls(F[8], p9, images, size)
      /\ F[10] = PerformCalls(F[9], p10, images, size)
      /\ F[11] = PerformCalls(F[10], p11, images, size)
      /\ F[12] = PerformCalls(F[11], p12, images, size)
      /\ F[13] = PerformCalls(F[12], p13, images, size)
      /\ F[14] = PerformCalls(F[13], p14, images, size)
      /\ F[15] = PerformCalls(F[14], p15, images, size)
      /\ F[16] = PerformCalls(F[15], p16, images, size)
      /\ F[17] = PerformCalls(F[16], p17, images, size)
  <2>1. /\ 1 \in 1..17 /\ 1 - 1 = 0 /\ ps[1] = p1
        /\ 2 \in 1..17 /\ 2 - 1 = 1 /\ ps[2] = p2
        /\ 3 \in 1..17 /\ 3 - 1 = 2 /\ ps[3] = p3
        /\ 4 \in 1..17 /\ 4 - 1 = 3 /\ ps[4] = p4
        /\ 5 \in 1..17 /\ 5 - 1 = 4 /\ ps[5] = p5
        /\ 6 \in 1..17 /\ 6 - 1 = 5 /\ ps[6] = p6
        /\ 7 \in 1..17 /\ 7 - 1 = 6 /\ ps[7] = p7
        /\ 8 \in 1..17 /\ 8 - 1 = 7 /\ ps[8] = p8
        /\ 9 \in 1..17 /\ 9 - 1 = 8 /\ ps[9] = p9
        /\ 10 \in 1..17 /\ 10 - 1 = 9 /\ ps[10] = p10
        /\ 11 \in 1..17 /\ 11 - 1 = 10 /\ ps[11] = p11
        /\ 12 \in 1..17 /\ 12 - 1 = 11 /\ ps[12] = p12
        /\ 13 \in 1..17 /\ 13 - 1 = 12 /\ ps[13] = p13
        /\ 14 \in 1..17 /\ 14 - 1 = 13 /\ ps[14] = p14
        /\ 15 \in 1..17 /\ 15 - 1 = 14 /\ ps[15] = p15
        /\ 16 \in 1..17 /\ 16 - 1 = 15 /\ ps[16] = p16
        /\ 17 \in 1..17 /\ 17 - 1 = 16 /\ ps[17] = p17
    BY <1>2
  <2>2. /\ F[1] = PerformCalls(F[1 - 1], ps[1], images, size)
        /\ F[2] = PerformCalls(F[2 - 1], ps[2], images, size)
        /\ F[3] = PerformCalls(F[3 - 1], ps[3], images, size)
        /\ F[4] = PerformCalls(F[4 - 1], ps[4], images, size)
        /\ F[5] = PerformCalls(F[5 - 1], ps[5], images, size)
        /\ F[6] = PerformCalls(F[6 - 1], ps[6], images, size)
        /\ F[7] = PerformCalls(F[7 - 1], ps[7], images, size)
        /\ F[8] = PerformCalls(F[8 - 1], ps[8], images, size)
        /\ F[9] = PerformCalls(F[9 - 1], ps[9], images, size)
        /\ F[10] = PerformCalls(F[10 - 1], ps[10], images, size)
        /\ F[11] = PerformCalls(F[11 - 1], ps[11], images, size)
        /\ F[12] = PerformCalls(F[12 - 1], ps[12], images, size)
        /\ F[13] = PerformCalls(F[13 - 1], ps[13], images, size)
        /\ F[14] = PerformCalls(F[14 - 1], ps[14], images, size)
        /\ F[15] = PerformCalls(F[15 - 1], ps[15], images, size)
        /\ F[16] = PerformCalls(F[16 - 1], ps[16], images, size)
        /\ F[17] = PerformCalls(F[17 - 1], ps[17], images, size)
    BY <1>5, <2>1
  <2> QED BY <2>1, <2>2
<1> HIDE DEF a, b, gA, gB, fA, fB, mA, mB, sA, sB, hA, hB, lA, lB, tA, tB, x, surface
<1>7. IsMemory(F[0]) /\ F[0][Rgba("A")] = a /\ F[0][Rgba("B")] = b
  BY <1>4 DEF a, b
<1>8. Puts(F[0], F[1], Complex("A"), gA)
  BY <1>6, <1>7, GrayPuts DEF p1, gA
<1>9. /\ IsMemory(F[1])
      /\ F[1][Rgba("A")] = a
      /\ F[1][Rgba("B")] = b
      /\ F[1][Complex("A")] = gA
  BY <1>7, <1>8, BuffersDiffer, BuffersNamed DEF Puts
<1>10. Puts(F[1], F[2], Complex("B"), gB)
  BY <1>6, <1>9, GrayPuts DEF p2, gB
<1>11. /\ IsMemory(F[2])
       /\ F[2][Rgba("A")] = a
       /\ F[2][Rgba("B")] = b
       /\ F[2][Complex("A")] = gA
       /\ F[2][Complex("B")] = gB
  BY <1>9, <1>10, BuffersDiffer, BuffersNamed DEF Puts
<1>12. Puts(F[2], F[3], Complex("A"), fA)
  BY <1>6, <1>11, FFT2DPuts, SurfacesAre DEF p3, fA
<1>13. /\ IsMemory(F[3])
       /\ F[3][Rgba("A")] = a
       /\ F[3][Rgba("B")] = b
       /\ F[3][Complex("A")] = fA
       /\ F[3][Complex("B")] = gB
  BY <1>11, <1>12, BuffersDiffer, BuffersNamed DEF Puts
<1>14. Puts(F[3], F[4], Complex("B"), fB)
  BY <1>6, <1>13, FFT2DPuts, SurfacesAre DEF p4, fB
<1>15. /\ IsMemory(F[4])
       /\ F[4][Rgba("A")] = a
       /\ F[4][Rgba("B")] = b
       /\ F[4][Complex("A")] = fA
       /\ F[4][Complex("B")] = fB
  BY <1>13, <1>14, BuffersDiffer, BuffersNamed DEF Puts
<1>16. Puts(F[4], F[5], Mag("A"), mA) /\ Given(F[5], <<n>>)
  BY <1>6, <1>15, MagnitudePuts DEF p5, mA
<1>17. /\ IsMemory(F[5])
       /\ F[5][Rgba("A")] = a
       /\ F[5][Rgba("B")] = b
       /\ F[5][Complex("B")] = fB
       /\ F[5][Mag("A")] = mA
       /\ Given(F[5], <<n>>)
  BY <1>15, <1>16, BuffersDiffer, BuffersNamed DEF Puts
<1>18. Puts(F[5], F[6], Mag("B"), mB) /\ Given(F[6], <<n>>)
  BY <1>6, <1>17, MagnitudeAgain DEF p6, mB
<1>19. /\ IsMemory(F[6])
       /\ F[6][Rgba("A")] = a
       /\ F[6][Rgba("B")] = b
       /\ F[6][Mag("A")] = mA
       /\ F[6][Mag("B")] = mB
       /\ Given(F[6], <<n>>)
  BY <1>17, <1>18, BuffersDiffer, BuffersNamed DEF Puts
<1>20. Puts(F[6], F[7], Mag("A"), sA) /\ Given(F[7], <<pad, pad>>)
  <2> DEFINE old == F[6]
             new == PerformCalls(old, StageWith(<<pad, pad>>, Fftshift("A"), (pad * pad) \div 2), images, size)
  <2>1. p7 = StageWith(<<pad, pad>>, Fftshift("A"), (pad * pad) \div 2)
    BY DEF p7
  <2>2. IsMemory(old)
    BY <1>19
  <2> HIDE DEF old
  <2>3. Puts(old, new, Mag("A"), Term("fftshift", <<old[Mag("A")]>>, <<pad, pad>>)) /\ Given(new, <<pad, pad>>)
    BY <2>2, FftshiftPuts
  <2>4. F[7] = new /\ old[Mag("A")] = mA
    BY <1>6, <1>19, <2>1 DEF old
  <2> QED BY <2>3, <2>4 DEF old, sA
<1>21. /\ IsMemory(F[7])
       /\ F[7][Rgba("A")] = a
       /\ F[7][Rgba("B")] = b
       /\ F[7][Mag("A")] = sA
       /\ F[7][Mag("B")] = mB
       /\ Given(F[7], <<pad, pad>>)
  BY <1>19, <1>20, BuffersDiffer, BuffersNamed DEF Puts
<1>22. Puts(F[7], F[8], Mag("B"), sB) /\ Given(F[8], <<pad, pad>>)
  <2> DEFINE old == F[7]
             new == PerformCalls(old, Stage(Fftshift("B"), (pad * pad) \div 2), images, size)
  <2>1. p8 = Stage(Fftshift("B"), (pad * pad) \div 2)
    BY DEF p8
  <2>2. IsMemory(old) /\ Given(old, <<pad, pad>>)
    BY <1>21
  <2> HIDE DEF old
  <2>3. Puts(old, new, Mag("B"), Term("fftshift", <<old[Mag("B")]>>, <<pad, pad>>)) /\ Given(new, <<pad, pad>>)
    BY <2>2, FftshiftAgain
  <2>4. F[8] = new /\ old[Mag("B")] = mB
    BY <1>6, <1>21, <2>1 DEF old
  <2> QED BY <2>3, <2>4 DEF old, sB
<1>23. /\ IsMemory(F[8])
       /\ F[8][Rgba("A")] = a
       /\ F[8][Rgba("B")] = b
       /\ F[8][Mag("A")] = sA
       /\ F[8][Mag("B")] = sB
       /\ Given(F[8], <<pad, pad>>)
  BY <1>21, <1>22, BuffersDiffer, BuffersNamed DEF Puts
<1>24. Puts(F[8], F[9], Mag("A"), hA) /\ Given(F[9], <<pad, pad>>)
  BY <1>6, <1>23, HighpassAgain DEF p9, hA
<1>25. /\ IsMemory(F[9])
       /\ F[9][Rgba("A")] = a
       /\ F[9][Rgba("B")] = b
       /\ F[9][Mag("A")] = hA
       /\ F[9][Mag("B")] = sB
       /\ Given(F[9], <<pad, pad>>)
  BY <1>23, <1>24, BuffersDiffer, BuffersNamed DEF Puts
<1>26. Puts(F[9], F[10], Mag("B"), hB) /\ Given(F[10], <<pad, pad>>)
  BY <1>6, <1>25, HighpassAgain DEF p10, hB
<1>27. /\ IsMemory(F[10])
       /\ F[10][Rgba("A")] = a
       /\ F[10][Rgba("B")] = b
       /\ F[10][Mag("A")] = hA
       /\ F[10][Mag("B")] = hB
       /\ Given(F[10], <<pad, pad>>)
  BY <1>25, <1>26, BuffersDiffer, BuffersNamed DEF Puts
<1>28. Puts(F[10], F[11], LogPol("A"), lA) /\ Given(F[11], LogPolarParams(size, pad))
  BY <1>6, <1>27, LogPolarPuts DEF p11, lA
<1>29. /\ IsMemory(F[11])
       /\ F[11][Rgba("A")] = a
       /\ F[11][Rgba("B")] = b
       /\ F[11][Mag("B")] = hB
       /\ F[11][LogPol("A")] = lA
       /\ Given(F[11], LogPolarParams(size, pad))
  BY <1>27, <1>28, BuffersDiffer, BuffersNamed DEF Puts
<1>30. Puts(F[11], F[12], LogPol("B"), lB) /\ Given(F[12], LogPolarParams(size, pad))
  BY <1>6, <1>29, LogPolarAgain DEF p12, lB
<1>31. /\ IsMemory(F[12])
       /\ F[12][Rgba("A")] = a
       /\ F[12][Rgba("B")] = b
       /\ F[12][LogPol("A")] = lA
       /\ F[12][LogPol("B")] = lB
       /\ Given(F[12], LogPolarParams(size, pad))
  BY <1>29, <1>30, BuffersDiffer, BuffersNamed DEF Puts
<1>32. Puts(F[12], F[13], LogPol("A"), tA)
  BY <1>6, <1>31, FFT2DPuts, SurfacesAre DEF p13, tA
<1>33. /\ IsMemory(F[13])
       /\ F[13][Rgba("A")] = a
       /\ F[13][Rgba("B")] = b
       /\ F[13][LogPol("A")] = tA
       /\ F[13][LogPol("B")] = lB
  BY <1>31, <1>32, BuffersDiffer, BuffersNamed DEF Puts
<1>34. Puts(F[13], F[14], LogPol("B"), tB)
  BY <1>6, <1>33, FFT2DPuts, SurfacesAre DEF p14, tB
<1>35. /\ IsMemory(F[14])
       /\ F[14][Rgba("A")] = a
       /\ F[14][Rgba("B")] = b
       /\ F[14][LogPol("A")] = tA
       /\ F[14][LogPol("B")] = tB
  BY <1>33, <1>34, BuffersDiffer, BuffersNamed DEF Puts
<1>36. Puts(F[14], F[15], CrossPow, x)
  BY <1>6, <1>35, CrosspowerPuts, SurfacesAre DEF p15, x
<1>37. /\ IsMemory(F[15])
       /\ F[15][Rgba("A")] = a
       /\ F[15][Rgba("B")] = b
       /\ F[15][CrossPow] = x
  BY <1>35, <1>36, BuffersDiffer, BuffersNamed DEF Puts
<1>38. Puts(F[15], F[16], CrossPow, surface)
  BY <1>6, <1>37, FFT2DPuts, SurfacesAre DEF p16, surface
<1>39. /\ IsMemory(F[16])
       /\ F[16][Rgba("A")] = a
       /\ F[16][Rgba("B")] = b
       /\ F[16][CrossPow] = surface
  BY <1>37, <1>38, BuffersDiffer, BuffersNamed DEF Puts
<1>40. /\ IsMemory(F[17]) /\ TurnIs(F[17][Result], surface, pad, crop)
       /\ \A d \in Surfaces \ {PeakScratch} : F[17][d] = F[16][d]
  BY <1>6, <1>39, FindPeakTurns DEF p17
<1>41. F[17][Rgba("A")] = a /\ F[17][Rgba("B")] = b
  BY <1>39, <1>40, BuffersDiffer, SurfacesAre
<1>42. surface = PhaseSurface(SpectrumOf(a, size, pad), SpectrumOf(b, size, pad), pad)
  BY DEF PhaseSurface, SpectrumOf, LogPolarCPU, MagnitudeSpectrumCPU, LogPolarParams, gA, gB, fA, fB, mA, mB, sA, sB, hA, hB, lA, lB, tA, tB, x, surface
<1> QED BY <1>4, <1>40, <1>41, <1>42 DEF ps, a, b

LEMMA TranslationIsComputed ==
    ASSUME NEW mem, IsMemory(mem), NEW images, NEW size, NEW pad \in Int, NEW slot \in {0, 1}, NEW offset \in {8, 12},
           NEW angle, NEW plus, NEW scale, Slot(mem[Result], 4 + 2 * slot) = Cos(angle, plus),
           Slot(mem[Result], 5 + 2 * slot) = Sin(angle, plus), Slot(mem[Result], 3) = scale
    PROVE  Translated(PerformParts(mem, RecordTranslation(size, pad, slot, offset), images, size), mem, size, pad, offset,
                      PhaseSurface(WarpCPU(mem[Rgba("A")], angle, plus, scale, size, pad),
                                   GrayCropPadCPU(mem[Rgba("B")], size, pad), pad))
<1> DEFINE ps == RecordTranslation(size, pad, slot, offset)
           n == pad * pad
           crop == Smaller(size.w, size.h)
           a == mem[Rgba("A")]
           b == mem[Rgba("B")]
           gA == WarpCPU(a, angle, plus, scale, size, pad)
           gB == GrayCropPadCPU(b, size, pad)
           tA == FFT2DCPU(gA, pad, pad, 0)
           tB == FFT2DCPU(gB, pad, pad, 0)
           x == Term("crosspower", <<tA, tB>>, <<n, 1>>)
           surface == FFT2DCPU(x, pad, pad, 1)
           p1 == StageWith(WarpParams(size, pad, slot), Warp, n)
           p2 == FreshComplexB(size, pad)
           p3 == RecordFFT2D(Complex("A"), pad, pad, 0)
           p4 == RecordFFT2D(Complex("B"), pad, pad, 0)
           p5 == StageWith(<<n, 1>>, Crosspower(Complex("A"), Complex("B")), n)
           p6 == RecordFFT2D(CrossPow, pad, pad, 1)
           p7 == FindPeak(PeakParams(pad, 1, offset, 0))
<1>1. DOMAIN ps = 1..7
  BY TranslationPhase DEF PhaseOf
<1>2. ps = << p1, p2, p3, p4, p5, p6, p7 >>
  BY DEF RecordTranslation
<1>3. PICK F : PerformPartsTrace(F, mem, ps, images, size, 7)
  <2> DEFINE m == 7
  <2>1. m \in Nat /\ DOMAIN ps = 1..m
    BY <1>1
  <2> HIDE DEF m, ps
  <2>2. \E F : PerformPartsTrace(F, mem, ps, images, size, m)
    BY <2>1, PerformPartsFold
  <2> QED BY <2>2 DEF m
<1> HIDE DEF ps, p1, p2, p3, p4, p5, p6, p7
<1>4. F[0] = mem /\ F[7] = PerformParts(mem, ps, images, size)
  BY <1>3 DEF PerformPartsTrace
<1>5. \A k \in 1..7 : F[k] = PerformCalls(F[k - 1], ps[k], images, size)
  BY <1>3, PerformedPart DEF PerformPartsTrace
<1>6. /\ F[1] = PerformCalls(F[0], p1, images, size)
      /\ F[2] = PerformCalls(F[1], p2, images, size)
      /\ F[3] = PerformCalls(F[2], p3, images, size)
      /\ F[4] = PerformCalls(F[3], p4, images, size)
      /\ F[5] = PerformCalls(F[4], p5, images, size)
      /\ F[6] = PerformCalls(F[5], p6, images, size)
      /\ F[7] = PerformCalls(F[6], p7, images, size)
  <2>1. /\ 1 \in 1..7 /\ 1 - 1 = 0 /\ ps[1] = p1
        /\ 2 \in 1..7 /\ 2 - 1 = 1 /\ ps[2] = p2
        /\ 3 \in 1..7 /\ 3 - 1 = 2 /\ ps[3] = p3
        /\ 4 \in 1..7 /\ 4 - 1 = 3 /\ ps[4] = p4
        /\ 5 \in 1..7 /\ 5 - 1 = 4 /\ ps[5] = p5
        /\ 6 \in 1..7 /\ 6 - 1 = 5 /\ ps[6] = p6
        /\ 7 \in 1..7 /\ 7 - 1 = 6 /\ ps[7] = p7
    BY <1>2
  <2>2. /\ F[1] = PerformCalls(F[1 - 1], ps[1], images, size)
        /\ F[2] = PerformCalls(F[2 - 1], ps[2], images, size)
        /\ F[3] = PerformCalls(F[3 - 1], ps[3], images, size)
        /\ F[4] = PerformCalls(F[4 - 1], ps[4], images, size)
        /\ F[5] = PerformCalls(F[5 - 1], ps[5], images, size)
        /\ F[6] = PerformCalls(F[6 - 1], ps[6], images, size)
        /\ F[7] = PerformCalls(F[7 - 1], ps[7], images, size)
    BY <1>5, <2>1
  <2> QED BY <2>1, <2>2
<1> HIDE DEF a, b, gA, gB, tA, tB, x, surface
<1>7. IsMemory(F[0]) /\ F[0][Rgba("A")] = a /\ F[0][Rgba("B")] = b /\ F[0][Result] = mem[Result]
  BY <1>4 DEF a, b
<1>8. Puts(F[0], F[1], Complex("A"), gA)
  BY <1>6, <1>7, WarpPuts DEF p1, gA
<1>9. /\ IsMemory(F[1])
      /\ F[1][Rgba("A")] = a
      /\ F[1][Rgba("B")] = b
      /\ F[1][Complex("A")] = gA
      /\ F[1][Result] = mem[Result]
  BY <1>7, <1>8, BuffersDiffer, BuffersNamed DEF Puts
<1>10. Puts(F[1], F[2], Complex("B"), gB)
  BY <1>6, <1>9, GrayPuts DEF p2, gB, FreshComplexB
<1>11. /\ IsMemory(F[2])
       /\ F[2][Rgba("A")] = a
       /\ F[2][Rgba("B")] = b
       /\ F[2][Complex("A")] = gA
       /\ F[2][Complex("B")] = gB
       /\ F[2][Result] = mem[Result]
  BY <1>9, <1>10, BuffersDiffer, BuffersNamed DEF Puts
<1>12. Puts(F[2], F[3], Complex("A"), tA)
  BY <1>6, <1>11, FFT2DPuts, SurfacesAre DEF p3, tA
<1>13. /\ IsMemory(F[3])
       /\ F[3][Rgba("A")] = a
       /\ F[3][Rgba("B")] = b
       /\ F[3][Complex("A")] = tA
       /\ F[3][Complex("B")] = gB
       /\ F[3][Result] = mem[Result]
  BY <1>11, <1>12, BuffersDiffer, BuffersNamed DEF Puts
<1>14. Puts(F[3], F[4], Complex("B"), tB)
  BY <1>6, <1>13, FFT2DPuts, SurfacesAre DEF p4, tB
<1>15. /\ IsMemory(F[4])
       /\ F[4][Rgba("A")] = a
       /\ F[4][Rgba("B")] = b
       /\ F[4][Complex("A")] = tA
       /\ F[4][Complex("B")] = tB
       /\ F[4][Result] = mem[Result]
  BY <1>13, <1>14, BuffersDiffer, BuffersNamed DEF Puts
<1>16. Puts(F[4], F[5], CrossPow, x)
  BY <1>6, <1>15, CrosspowerPuts, SurfacesAre DEF p5, x
<1>17. /\ IsMemory(F[5])
       /\ F[5][Rgba("A")] = a
       /\ F[5][Rgba("B")] = b
       /\ F[5][CrossPow] = x
       /\ F[5][Result] = mem[Result]
  BY <1>15, <1>16, BuffersDiffer, BuffersNamed DEF Puts
<1>18. Puts(F[5], F[6], CrossPow, surface)
  BY <1>6, <1>17, FFT2DPuts, SurfacesAre DEF p6, surface
<1>19. /\ IsMemory(F[6])
       /\ F[6][Rgba("A")] = a
       /\ F[6][Rgba("B")] = b
       /\ F[6][CrossPow] = surface
       /\ F[6][Result] = mem[Result]
  BY <1>17, <1>18, BuffersDiffer, BuffersNamed DEF Puts
<1>20. /\ IsMemory(F[7]) /\ ShiftIs(F[7][Result], offset, surface, pad)
       /\ \A d \in Surfaces \ {PeakScratch} : F[7][d] = F[6][d]
       /\ \A i \in 0..(offset - 1) : i # 11 => Slot(F[7][Result], i) = Slot(mem[Result], i)
  BY <1>6, <1>19, FindPeakShifts DEF p7
<1>21. F[7][Rgba("A")] = a /\ F[7][Rgba("B")] = b
  BY <1>19, <1>20, BuffersDiffer, SurfacesAre
<1>22. surface = PhaseSurface(WarpCPU(a, angle, plus, scale, size, pad), GrayCropPadCPU(b, size, pad), pad)
  BY DEF PhaseSurface, gA, gB, tA, tB, x, surface
<1>23. PerformParts(mem, RecordTranslation(size, pad, slot, offset), images, size) = F[7]
  BY <1>4 DEF ps
<1>24. F[7][Rgba("A")] = mem[Rgba("A")] /\ F[7][Rgba("B")] = mem[Rgba("B")]
  BY <1>21 DEF a, b
<1>25. PhaseSurface(WarpCPU(mem[Rgba("A")], angle, plus, scale, size, pad),
                   GrayCropPadCPU(mem[Rgba("B")], size, pad), pad) = surface
  BY <1>22 DEF a, b
<1>26. Translated(F[7], mem, size, pad, offset, surface)
  <2>1. IsMemory(F[7]) /\ ShiftIs(F[7][Result], offset, surface, pad)
    BY <1>20
  <2>2. \A i \in 0..(offset - 1) : i # 11 => Slot(F[7][Result], i) = Slot(mem[Result], i)
    BY <1>20
  <2> QED BY <2>1, <2>2, <1>24, Zenon DEF Translated
<1> QED BY <1>23, <1>25, <1>26

\* What a result says of two images.
AnswerIs(result, images, size, pad) == Answer(result) = PhaseCorrelateCPU(images, size, pad)

\* The surfaces of a correlation: for the turn, and for a translation.
TurnSurface(images, size, pad) ==
    PhaseSurface(SpectrumOf(Pixels(images[1], size), size, pad), SpectrumOf(Pixels(images[2], size), size, pad), pad)
TurnOf(images, size, pad)  == Angle(PeakAt("peak_y", TurnSurface(images, size, pad), pad), pad)
ScaleOf(images, size, pad) ==
    Scale(PeakAt("peak_x", TurnSurface(images, size, pad), pad), pad, Smaller(size.w, size.h))
ShiftSurface(images, size, pad, plus) ==
    PhaseSurface(WarpCPU(Pixels(images[1], size), TurnOf(images, size, pad), plus, ScaleOf(images, size, pad), size, pad),
                 GrayCropPadCPU(Pixels(images[2], size), size, pad), pad)

\* Both images are in their buffers.
Uploaded(mem, images, size) ==
    /\ IsMemory(mem)
    /\ mem[Rgba("A")] = Pixels(images[1], size) /\ mem[Rgba("B")] = Pixels(images[2], size)

LEMMA UploadGives ==
    ASSUME NEW mem, IsMemory(mem), NEW i \in {"A", "B"}, NEW images, NEW size
    PROVE  LET new == Perform(mem, Upload(i), images, size)
           IN  IsMemory(new) /\ new[Rgba(i)] = Pixels(IF i = "A" THEN images[1] ELSE images[2], size)
               /\ \A b \in DeviceBuffers \ {Rgba(i)} : new[b] = mem[b]
<1> DEFINE c == Upload(i)
           x == Pixels(IF i = "A" THEN images[1] ELSE images[2], size)
           new == Perform(mem, c, images, size)
<1>1. c.op = "upload" /\ c.buffer = Rgba(i)
  BY DEF Upload
<1>2. (Rgba(i) = Rgba("A")) <=> (i = "A")
  BY NamesOfBuffers
<1> HIDE DEF c
<1>3. new = [mem EXCEPT ![Rgba(i)] = x]
  BY <1>1, <1>2 DEF Perform
<1>4. Rgba(i) \in Surfaces
  BY SurfacesAre
<1> HIDE DEF x, new
<1>5. Puts(mem, new, Rgba(i), x)
  BY <1>3, <1>4, PutSurface
<1>6. \A b \in DeviceBuffers \ {Rgba(i)} : new[b] = mem[b]
  BY <1>3 DEF IsMemory
<1> QED BY <1>5, <1>6 DEF Puts, new, x, c

LEMMA UploadsAre ==
    ASSUME NEW mem, IsMemory(mem), NEW images, NEW size
    PROVE  Uploaded(PerformCalls(mem, <<Upload("A"), Upload("B")>>, images, size), images, size)
<1> DEFINE one == Perform(mem, Upload("A"), images, size)
           two == Perform(one, Upload("B"), images, size)
<1>1. PerformCalls(mem, <<Upload("A"), Upload("B")>>, images, size) = two
  BY TwoPerformed
<1>2. IsMemory(one) /\ one[Rgba("A")] = Pixels(images[1], size)
  BY UploadGives
<1> HIDE DEF one
<1>3. IsMemory(two) /\ two[Rgba("B")] = Pixels(images[2], size) /\ two[Rgba("A")] = one[Rgba("A")]
  <2>1. Rgba("A") \in DeviceBuffers \ {Rgba("B")} /\ "B" # "A"
    BY BuffersNamed, BuffersDiffer
  <2> QED BY <1>2, <2>1, UploadGives
<1> HIDE DEF two
<1> QED BY <1>1, <1>2, <1>3 DEF Uploaded

\* A barrier or a download between the parts changes nothing.
LEMMA WaitingGives ==
    ASSUME NEW mem, NEW images, NEW size
    PROVE  /\ PerformParts(mem, << <<Barrier({Result})>> >>, images, size) = mem
           /\ PerformParts(mem, << <<Download>> >>, images, size) = mem
<1>1. PerformParts(mem, << <<Barrier({Result})>> >>, images, size) = mem
  BY OnePartPerformed, OnePerformed, BarrierGives
<1>2. Perform(mem, Download, images, size) = mem
  <2> DEFINE c == Download
  <2>1. c.op = "download"
    BY DEF Download
  <2> HIDE DEF c
  <2>2. Perform(mem, c, images, size) = mem
    BY <2>1 DEF Perform
  <2> QED BY <2>2 DEF c
<1>3. PerformParts(mem, << <<Download>> >>, images, size) = mem
  BY <1>2, OnePartPerformed, OnePerformed
<1> QED BY <1>1, <1>3

\* What a correlation leaves in the result.
ResultIs(new, images, size, pad) ==
    /\ IsMemory(new)
    /\ Slot(new[Result], 0) = PeakConfidence(TurnSurface(images, size, pad), pad)
    /\ Slot(new[Result], 2) = TurnOf(images, size, pad)
    /\ Slot(new[Result], 3) = ScaleOf(images, size, pad)
    /\ ShiftIs(new[Result], 8, ShiftSurface(images, size, pad, 0), pad)
    /\ ShiftIs(new[Result], 12, ShiftSurface(images, size, pad, 180), pad)

\* The contents after each phase.
Turned(mem, images, size, pad) ==
    Uploaded(mem, images, size) /\ TurnIs(mem[Result], TurnSurface(images, size, pad), pad, Smaller(size.w, size.h))

LEMMA FirstPhase ==
    ASSUME NEW mem, NEW images, NEW size, NEW pad \in Int, Uploaded(mem, images, size)
    PROVE  Turned(PerformParts(mem, RecordRotation(size, pad), images, size), images, size, pad)
<1> DEFINE new == PerformParts(mem, RecordRotation(size, pad), images, size)
<1>1. IsMemory(mem)
  BY DEF Uploaded
<1>2. /\ IsMemory(new)
      /\ new[Rgba("A")] = mem[Rgba("A")] /\ new[Rgba("B")] = mem[Rgba("B")]
      /\ TurnIs(new[Result],
                PhaseSurface(SpectrumOf(mem[Rgba("A")], size, pad), SpectrumOf(mem[Rgba("B")], size, pad), pad),
                pad, Smaller(size.w, size.h))
  BY <1>1, RotationIsComputed
<1> HIDE DEF new
<1>3. mem[Rgba("A")] = Pixels(images[1], size) /\ mem[Rgba("B")] = Pixels(images[2], size)
  BY DEF Uploaded
<1>4. TurnIs(new[Result], TurnSurface(images, size, pad), pad, Smaller(size.w, size.h))
  BY <1>2, <1>3 DEF TurnSurface
<1>5. Turned(new, images, size, pad)
  BY <1>2, <1>3, <1>4 DEF Turned, Uploaded
<1> QED BY <1>5 DEF new

\* The shift that a translation leaves, and the slots before it.
LEMMA SecondPhase ==
    ASSUME NEW mem, NEW images, NEW size, NEW pad \in Int, Uploaded(mem, images, size),
           NEW slot \in {0, 1}, NEW offset \in {8, 12}, NEW plus,
           Slot(mem[Result], 4 + 2 * slot) = Cos(TurnOf(images, size, pad), plus),
           Slot(mem[Result], 5 + 2 * slot) = Sin(TurnOf(images, size, pad), plus),
           Slot(mem[Result], 3) = ScaleOf(images, size, pad)
    PROVE  LET new == PerformParts(mem, RecordTranslation(size, pad, slot, offset), images, size)
           IN  /\ Uploaded(new, images, size)
               /\ Translated(new, mem, size, pad, offset, ShiftSurface(images, size, pad, plus))
<1> DEFINE new == PerformParts(mem, RecordTranslation(size, pad, slot, offset), images, size)
           angle == TurnOf(images, size, pad)
           scale == ScaleOf(images, size, pad)
           surface == PhaseSurface(WarpCPU(mem[Rgba("A")], angle, plus, scale, size, pad),
                                   GrayCropPadCPU(mem[Rgba("B")], size, pad), pad)
<1>1. IsMemory(mem) /\ mem[Rgba("A")] = Pixels(images[1], size) /\ mem[Rgba("B")] = Pixels(images[2], size)
  BY DEF Uploaded
<1>2. surface = ShiftSurface(images, size, pad, plus)
  BY <1>1 DEF ShiftSurface
<1>3. Translated(new, mem, size, pad, offset, surface)
  <2> HIDE DEF angle, scale
  <2>1. /\ Slot(mem[Result], 4 + 2 * slot) = Cos(angle, plus)
        /\ Slot(mem[Result], 5 + 2 * slot) = Sin(angle, plus) /\ Slot(mem[Result], 3) = scale
    BY DEF angle, scale
  <2> QED BY <1>1, <2>1, TranslationIsComputed
<1> HIDE DEF new, surface
<1>4. Uploaded(new, images, size)
  BY <1>1, <1>3 DEF Translated, Uploaded
<1> QED BY <1>2, <1>3, <1>4 DEF new

LEMMA PartsPerformed ==
    ASSUME NEW mem, NEW images, NEW size, NEW pad
    PROVE  LET up     == PerformCalls(mem, <<Upload("A"), Upload("B")>>, images, size)
               turned == PerformParts(up, RecordRotation(size, pad), images, size)
               first  == PerformParts(turned, RecordTranslation(size, pad, 0, 8), images, size)
           IN  Execute(mem, images, size, pad) = PerformParts(first, RecordTranslation(size, pad, 1, 12), images, size)
<1> DEFINE C == CallsOf(size, pad)
           S == Seq(C)
           s1 == <<Upload("A"), Upload("B")>>
           s3 == <<Barrier({Result})>>
           s7 == <<Download>>
           r1 == <<s1>>
           r2 == RecordRotation(size, pad)
           r3 == <<s3>>
           r4 == RecordTranslation(size, pad, 0, 8)
           r6 == RecordTranslation(size, pad, 1, 12)
           r7 == <<s7>>
           q2 == r1 \o r2
           q3 == q2 \o r3
           q4 == q3 \o r4
           q5 == q4 \o r3
           q6 == q5 \o r6
           q7 == q6 \o r7
           Do(m, ps) == PerformParts(m, ps, images, size)
<1>1. s1 \in S /\ s3 \in S /\ s7 \in S
  <2>1. Upload("A") \in C /\ Upload("B") \in C /\ Barrier({Result}) \in C /\ Download \in C
    BY BuffersNamed DEF CallsOf, Calls
  <2> HIDE DEF C
  <2> QED BY <2>1
<1>2. r2 \in Seq(S) /\ r4 \in Seq(S) /\ r6 \in Seq(S)
  <2>1. PhaseOf(r2, 17, size, pad) /\ PhaseOf(r4, 7, size, pad) /\ PhaseOf(r6, 7, size, pad)
    <3>1. 0 \in Int /\ 8 \in Int /\ 1 \in Int /\ 12 \in Int
      OBVIOUS
    <3> QED BY <3>1, RotationPhase, TranslationPhase
  <2> HIDE DEF r2, r4, r6
  <2> QED BY <2>1 DEF PhaseOf
<1> HIDE DEF C, s1, s3, s7, r2, r4, r6
<1>3. r1 \in Seq(S) /\ r3 \in Seq(S) /\ r7 \in Seq(S)
  BY <1>1
<1>4. Execute(mem, images, size, pad) = Do(mem, q7)
  BY DEF Execute, PerformParts, Parts, r2, r4, r6, s1, s3, s7
<1> HIDE DEF S, r1, r3, r7
<1>5. q2 \in Seq(S)
  BY <1>2, <1>3
<1>6. Do(mem, q2) = Do(Do(mem, r1), r2)
  BY <1>2, <1>3, PerformedParts
<1> HIDE DEF q2
<1>7. q3 \in Seq(S)
  BY <1>3, <1>5
<1>8. Do(mem, q3) = Do(Do(mem, q2), r3)
  BY <1>3, <1>5, PerformedParts
<1> HIDE DEF q3
<1>9. q4 \in Seq(S)
  BY <1>2, <1>7
<1>10. Do(mem, q4) = Do(Do(mem, q3), r4)
  BY <1>2, <1>7, PerformedParts
<1> HIDE DEF q4
<1>11. q5 \in Seq(S)
  BY <1>3, <1>9
<1>12. Do(mem, q5) = Do(Do(mem, q4), r3)
  BY <1>3, <1>9, PerformedParts
<1> HIDE DEF q5
<1>13. q6 \in Seq(S)
  BY <1>2, <1>11
<1>14. Do(mem, q6) = Do(Do(mem, q5), r6)
  BY <1>2, <1>11, PerformedParts
<1> HIDE DEF q6
<1>15. Do(mem, q7) = Do(Do(mem, q6), r7)
  BY <1>3, <1>13, PerformedParts
<1> HIDE DEF q7
<1>16. \A m : Do(m, r3) = m /\ Do(m, r7) = m
  BY WaitingGives DEF r3, r7, s3, s7
<1>17. Do(mem, r1) = PerformCalls(mem, s1, images, size)
  BY OnePartPerformed DEF r1
<1> HIDE DEF Do
<1>18. Execute(mem, images, size, pad) = Do(Do(Do(PerformCalls(mem, s1, images, size), r2), r4), r6)
  BY <1>4, <1>6, <1>8, <1>10, <1>12, <1>14, <1>15, <1>16, <1>17
<1> QED BY <1>18 DEF Do, s1, r2, r4, r6

LEMMA ExecutedResult ==
    ASSUME NEW mem, IsMemory(mem), NEW images, NEW size, NEW pad \in Int
    PROVE  ResultIs(Execute(mem, images, size, pad), images, size, pad)
<1> DEFINE up     == PerformCalls(mem, <<Upload("A"), Upload("B")>>, images, size)
           turned == PerformParts(up, RecordRotation(size, pad), images, size)
           first  == PerformParts(turned, RecordTranslation(size, pad, 0, 8), images, size)
           second   == PerformParts(first, RecordTranslation(size, pad, 1, 12), images, size)
           surface == TurnSurface(images, size, pad)
           angle == TurnOf(images, size, pad)
           scale == ScaleOf(images, size, pad)
           shift == ShiftSurface(images, size, pad, 0)
           again == ShiftSurface(images, size, pad, 180)
<1>1. Execute(mem, images, size, pad) = second
  BY PartsPerformed
<1>2. Uploaded(up, images, size)
  BY UploadsAre
<1> HIDE DEF up
<1>3. Turned(turned, images, size, pad)
  BY <1>2, FirstPhase
<1> HIDE DEF turned
<1>4. /\ Uploaded(turned, images, size)
      /\ Slot(turned[Result], 0) = PeakConfidence(surface, pad)
      /\ Slot(turned[Result], 2) = angle /\ Slot(turned[Result], 3) = scale
      /\ Slot(turned[Result], 4) = Cos(angle, 0) /\ Slot(turned[Result], 5) = Sin(angle, 0)
      /\ Slot(turned[Result], 6) = Cos(angle, 180) /\ Slot(turned[Result], 7) = Sin(angle, 180)
  BY <1>3 DEF Turned, TurnIs, TurnOf, ScaleOf
<1> HIDE DEF surface, scale, shift, again
<1>5. Uploaded(first, images, size) /\ Translated(first, turned, size, pad, 8, shift)
  <2> DEFINE slot == 0
             plus == 0
             offset == 8
  <2>1. slot \in {0, 1} /\ offset \in {8, 12} /\ 4 + 2 * slot = 4 /\ 5 + 2 * slot = 5
    OBVIOUS
  <2>2. /\ Slot(turned[Result], 4 + 2 * slot) = Cos(TurnOf(images, size, pad), plus)
        /\ Slot(turned[Result], 5 + 2 * slot) = Sin(TurnOf(images, size, pad), plus)
        /\ Slot(turned[Result], 3) = ScaleOf(images, size, pad)
    BY <1>4, <2>1 DEF scale
  <2> HIDE DEF slot, plus, offset
  <2>3. LET new == PerformParts(turned, RecordTranslation(size, pad, slot, offset), images, size)
        IN  /\ Uploaded(new, images, size)
            /\ Translated(new, turned, size, pad, offset, ShiftSurface(images, size, pad, plus))
    BY <1>4, <2>1, <2>2, SecondPhase
  <2> QED BY <2>3 DEF slot, plus, offset, shift
<1> HIDE DEF first
<1>6. /\ ShiftIs(first[Result], 8, shift, pad)
      /\ \A i \in 0..7 : Slot(first[Result], i) = Slot(turned[Result], i)
  BY <1>5 DEF Translated
<1>7. /\ Slot(first[Result], 0) = PeakConfidence(surface, pad)
      /\ Slot(first[Result], 2) = angle /\ Slot(first[Result], 3) = scale
      /\ Slot(first[Result], 6) = Cos(angle, 180) /\ Slot(first[Result], 7) = Sin(angle, 180)
  <2>1. 0 \in 0..7 /\ 2 \in 0..7 /\ 3 \in 0..7 /\ 6 \in 0..7 /\ 7 \in 0..7
    OBVIOUS
  <2> QED BY <1>4, <1>6, <2>1
<1>8. Translated(second, first, size, pad, 12, again)
  <2> DEFINE slot == 1
             plus == 180
             offset == 12
  <2>1. slot \in {0, 1} /\ offset \in {8, 12} /\ 4 + 2 * slot = 6 /\ 5 + 2 * slot = 7
    OBVIOUS
  <2>2. /\ Slot(first[Result], 4 + 2 * slot) = Cos(TurnOf(images, size, pad), plus)
        /\ Slot(first[Result], 5 + 2 * slot) = Sin(TurnOf(images, size, pad), plus)
        /\ Slot(first[Result], 3) = ScaleOf(images, size, pad)
    BY <1>7, <2>1 DEF scale
  <2> HIDE DEF slot, plus, offset
  <2>3. LET new == PerformParts(first, RecordTranslation(size, pad, slot, offset), images, size)
        IN  /\ Uploaded(new, images, size)
            /\ Translated(new, first, size, pad, offset, ShiftSurface(images, size, pad, plus))
    BY <1>5, <2>1, <2>2, SecondPhase
  <2> QED BY <2>3 DEF slot, plus, offset, again
<1> HIDE DEF second
<1>9. /\ IsMemory(second) /\ ShiftIs(second[Result], 12, again, pad)
      /\ \A i \in 0..11 : i # 11 => Slot(second[Result], i) = Slot(first[Result], i)
  BY <1>8 DEF Translated
<1>10. /\ Slot(second[Result], 0) = Slot(first[Result], 0) /\ Slot(second[Result], 2) = Slot(first[Result], 2)
       /\ Slot(second[Result], 3) = Slot(first[Result], 3) /\ Slot(second[Result], 8) = Slot(first[Result], 8)
       /\ Slot(second[Result], 9) = Slot(first[Result], 9) /\ Slot(second[Result], 10) = Slot(first[Result], 10)
  <2>1. 0 \in 0..11 /\ 2 \in 0..11 /\ 3 \in 0..11 /\ 8 \in 0..11 /\ 9 \in 0..11 /\ 10 \in 0..11
    OBVIOUS
  <2> QED BY <1>9, <2>1
<1>11. ShiftIs(second[Result], 8, shift, pad)
  <2>1. 8 + 1 = 9 /\ 8 + 2 = 10
    OBVIOUS
  <2> QED BY <1>6, <1>10, <2>1 DEF ShiftIs
<1>12. ResultIs(second, images, size, pad)
  BY <1>7, <1>9, <1>10, <1>11 DEF ResultIs, surface, scale, shift, again
<1> QED BY <1>1, <1>12

\* What the reference finds at the peak of a surface.
LEMMA PeakOfReference ==
    ASSUME NEW a, NEW b, NEW pad
    PROVE  LET p == PhaseCorrelationCPU(a, b, pad, pad)
               surface == PhaseSurface(a, b, pad)
           IN  /\ p.x = PeakAt("peak_x", surface, pad)
               /\ p.y = PeakAt("peak_y", surface, pad)
               /\ p.confidence = PeakConfidence(surface, pad)
BY DEF PhaseCorrelationCPU, PhaseSurface, PeakAt, PeakConfidence, HeightOf, PlaceOf, ScanOf

LEMMA ResultAnswers ==
    ASSUME NEW new, NEW images, NEW size, NEW pad, ResultIs(new, images, size, pad)
    PROVE  AnswerIs(new[Result], images, size, pad)
<1> DEFINE crop == Smaller(size.w, size.h)
           pixels == [k \in 1..2 |-> Pixels(images[k], size)]
           gray   == [k \in 1..2 |-> GrayCropPadCPU(pixels[k], size, pad)]
           lp     == [k \in 1..2 |-> LogPolarCPU(MagnitudeSpectrumCPU(gray[k], pad, pad), pad, pad, crop)]
           rotation == PhaseCorrelationCPU(lp[1], lp[2], pad, pad)
           angle == Angle(rotation.y, pad)
           scale == Scale(rotation.x, pad, crop)
           tried(plus) == LET p == PhaseCorrelationCPU(WarpCPU(pixels[1], angle, plus, scale, size, pad),
                                                       gray[2], pad, pad)
                          IN  [tx |-> Minus(p.x), ty |-> Minus(p.y), confidence |-> p.confidence]
           result == new[Result]
<1>1. PhaseCorrelateCPU(images, size, pad)
        = [rotation |-> rotation.confidence, angle |-> angle, scale |-> scale, first |-> tried(0), second |-> tried(180)]
  BY DEF PhaseCorrelateCPU
<1>2. /\ pixels[1] = Pixels(images[1], size) /\ pixels[2] = Pixels(images[2], size)
      /\ gray[1] = GrayCropPadCPU(pixels[1], size, pad) /\ gray[2] = GrayCropPadCPU(pixels[2], size, pad)
      /\ lp[1] = LogPolarCPU(MagnitudeSpectrumCPU(gray[1], pad, pad), pad, pad, crop)
      /\ lp[2] = LogPolarCPU(MagnitudeSpectrumCPU(gray[2], pad, pad), pad, pad, crop)
  OBVIOUS
<1> HIDE DEF pixels, gray, lp
<1>3. PhaseSurface(lp[1], lp[2], pad) = TurnSurface(images, size, pad)
  BY <1>2 DEF TurnSurface, SpectrumOf
<1>4. /\ rotation.x = PeakAt("peak_x", TurnSurface(images, size, pad), pad)
      /\ rotation.y = PeakAt("peak_y", TurnSurface(images, size, pad), pad)
      /\ rotation.confidence = PeakConfidence(TurnSurface(images, size, pad), pad)
  BY <1>3, PeakOfReference
<1> HIDE DEF rotation
<1>5. angle = TurnOf(images, size, pad) /\ scale = ScaleOf(images, size, pad)
  BY <1>4 DEF TurnOf, ScaleOf
<1> HIDE DEF angle, scale, crop
<1>6. ASSUME NEW plus
      PROVE  tried(plus) = LET s == ShiftSurface(images, size, pad, plus)
                           IN  [tx |-> Minus(PeakAt("peak_x", s, pad)), ty |-> Minus(PeakAt("peak_y", s, pad)),
                                confidence |-> PeakConfidence(s, pad)]
  <2> DEFINE warped == WarpCPU(pixels[1], angle, plus, scale, size, pad)
             g == gray[2]
             s == ShiftSurface(images, size, pad, plus)
  <2>1. PhaseSurface(warped, g, pad) = s
    BY <1>2, <1>5 DEF ShiftSurface
  <2> HIDE DEF warped, g, s
  <2>2. LET p == PhaseCorrelationCPU(warped, g, pad, pad)
        IN  /\ p.x = PeakAt("peak_x", s, pad) /\ p.y = PeakAt("peak_y", s, pad)
            /\ p.confidence = PeakConfidence(s, pad)
    BY <2>1, PeakOfReference
  <2> QED BY <2>2 DEF warped, g, s
<1>7. ASSUME NEW plus, NEW offset \in {8, 12}, ShiftIs(result, offset, ShiftSurface(images, size, pad, plus), pad)
      PROVE  tried(plus) = [tx |-> Slot(result, offset), ty |-> Slot(result, offset + 1),
                            confidence |-> Slot(result, offset + 2)]
  BY <1>6, <1>7 DEF ShiftIs
<1> HIDE DEF tried
<1>8. tried(0) = [tx |-> Slot(result, 8), ty |-> Slot(result, 9), confidence |-> Slot(result, 10)]
  <2> DEFINE plus == 0
             offset == 8
  <2>1. ShiftIs(result, offset, ShiftSurface(images, size, pad, plus), pad) /\ offset \in {8, 12}
        /\ offset + 1 = 9 /\ offset + 2 = 10
    BY DEF ResultIs
  <2> HIDE DEF plus, offset
  <2>2. tried(plus) = [tx |-> Slot(result, offset), ty |-> Slot(result, offset + 1),
                       confidence |-> Slot(result, offset + 2)]
    BY <1>7, <2>1
  <2> QED BY <2>1, <2>2 DEF plus, offset
<1>9. tried(180) = [tx |-> Slot(result, 12), ty |-> Slot(result, 13), confidence |-> Slot(result, 14)]
  <2> DEFINE plus == 180
             offset == 12
  <2>1. ShiftIs(result, offset, ShiftSurface(images, size, pad, plus), pad) /\ offset \in {8, 12}
        /\ offset + 1 = 13 /\ offset + 2 = 14
    BY DEF ResultIs
  <2> HIDE DEF plus, offset
  <2>2. tried(plus) = [tx |-> Slot(result, offset), ty |-> Slot(result, offset + 1),
                       confidence |-> Slot(result, offset + 2)]
    BY <1>7, <2>1
  <2> QED BY <2>1, <2>2 DEF plus, offset
<1>10. /\ rotation.confidence = Slot(result, 0) /\ angle = Slot(result, 2) /\ scale = Slot(result, 3)
  BY <1>4, <1>5 DEF ResultIs
<1>11. PhaseCorrelateCPU(images, size, pad) = Answer(result)
  BY <1>1, <1>8, <1>9, <1>10 DEF Answer
<1> QED BY <1>11 DEF AnswerIs

----------------------------------------------------------------------------
(* The resources of a Vulkan correlator, and the order in which it closes them. *)

----------------------------------------------------------------------------
\* The buffers, kernels and binding sets that a correlator creates.
Sets    == {SetOf(k) : k \in DOMAIN PipelineOrder}
Kernels == UNION {Range(KernelsAt(k)) : k \in DOMAIN PipelineOrder}
Buffers == {BufferOf(b) : b \in DeviceBuffers}
Handles == Sets \cup Kernels \cup Buffers

LEMMA PipelinesInOrder == \E n \in Nat \ {0} : DOMAIN PipelineOrder = 1..n
<1>1. DOMAIN PipelineOrder = 1..26
  BY DEF PipelineOrder
<1>2. 26 \in Nat \ {0}
  OBVIOUS
<1> QED BY <1>1, <1>2

LEMMA KernelsAtAre ==
    ASSUME NEW k
    PROVE  /\ KernelsAt(k) \in Seq({KernelOf(PipelineOrder[k])})
           /\ Range(KernelsAt(k)) \subseteq {KernelOf(PipelineOrder[k])}
<1> DEFINE x == KernelOf(PipelineOrder[k])
<1>1. <<x>> \in Seq({x}) /\ << >> \in Seq({x})
  OBVIOUS
<1>2. Range(<<x>>) \subseteq {x} /\ Range(<< >>) \subseteq {x}
  BY DEF Range
<1>3. KernelsAt(k) = <<x>> \/ KernelsAt(k) = << >>
  BY DEF KernelsAt
<1> QED BY <1>1, <1>2, <1>3

LEMMA OrdersOfHandles ==
    /\ SetOrder \in Seq(Handles) /\ Range(SetOrder) = Sets
    /\ KernelOrder \in Seq(Handles) /\ Range(KernelOrder) = Kernels
    /\ BufferHandles \in Seq(Handles) /\ Range(BufferHandles) = Buffers
<1>1. PICK n \in Nat \ {0} : DOMAIN PipelineOrder = 1..n
  BY PipelinesInOrder
<1>2. SetOrder \in Seq(Handles) /\ Range(SetOrder) = Sets
  <2>1. SetOrder = [k \in 1..n |-> SetOf(k)] /\ Sets = {SetOf(k) : k \in 1..n}
    BY <1>1 DEF SetOrder, Sets
  <2>2. SetOrder \in [1..n -> Handles]
    BY <2>1 DEF Handles
  <2>3. Range(SetOrder) = Sets
    BY <2>1 DEF Range
  <2> QED BY <2>2, <2>3
<1>3. BufferHandles \in Seq(Handles) /\ Range(BufferHandles) = Buffers
  <2>1. DOMAIN BufferOrder = 1..12
    BY DEF BufferOrder
  <2>2. BufferHandles = [k \in 1..12 |-> BufferOf(BufferOrder[k])]
    BY <2>1 DEF BufferHandles
  <2>3. \A k \in 1..12 : BufferOrder[k] \in DeviceBuffers
    BY <2>1 DEF DeviceBuffers, Range
  <2>4. \A b \in DeviceBuffers : \E k \in 1..12 : BufferOrder[k] = b
    BY <2>1 DEF DeviceBuffers, Range
  <2>5. Range(BufferHandles) = Buffers
    BY <2>2, <2>3, <2>4 DEF Range, Buffers
  <2>6. BufferHandles \in [1..12 -> Handles]
    BY <2>2, <2>3 DEF Handles, Buffers
  <2>7. 12 \in Nat
    OBVIOUS
  <2>8. BufferHandles \in Seq(Handles)
    BY <2>6, <2>7, FunctionIsSequence
  <2> QED BY <2>5, <2>8
<1>4. KernelOrder \in Seq(Handles) /\ Range(KernelOrder) = Kernels
  <2> DEFINE seqs == [k \in DOMAIN PipelineOrder |-> KernelsAt(k)]
  <2>1. DOMAIN seqs = 1..n /\ \A k \in 1..n : seqs[k] = KernelsAt(k)
    BY <1>1
  <2>2. \A k \in 1..n : KernelsAt(k) \in Seq(Handles)
    <3> TAKE k \in 1..n
    <3> DEFINE x == KernelOf(PipelineOrder[k])
    <3>1. KernelsAt(k) = <<x>> \/ KernelsAt(k) = << >>
      BY DEF KernelsAt
    <3>2. CASE KernelsAt(k) = <<x>>
      <4>1. x \in Range(<<x>>)
        <5>1. 1 \in DOMAIN <<x>> /\ <<x>>[1] = x
          OBVIOUS
        <5> QED BY <5>1 DEF Range
      <4>2. x \in Kernels
        BY <1>1, <3>2, <4>1 DEF Kernels
      <4> QED BY <3>2, <4>2 DEF Handles
    <3>3. CASE KernelsAt(k) = << >>
      BY <3>3
    <3> QED BY <3>1, <3>2, <3>3
  <2>3. seqs \in Seq(Seq(Handles)) /\ Len(seqs) = n
    <3>1. seqs \in [1..n -> Seq(Handles)]
      BY <1>1, <2>2
    <3> QED BY <3>1
  <2>4. KernelOrder = FlattenSeq(seqs)
    BY DEF KernelOrder
  <2> HIDE DEF seqs
  <2>5. FlattenSeq(seqs) \in Seq(Handles)
    BY <2>3, FlattenedType
  <2>6. \A x : x \in Range(FlattenSeq(seqs)) <=> \E k \in 1..n : x \in Range(seqs[k])
    BY <2>3, FlattenedRange
  <2>7. \A x : x \in Kernels <=> \E k \in 1..n : x \in Range(KernelsAt(k))
    BY <1>1 DEF Kernels
  <2>8. Range(KernelOrder) = Kernels
    BY <2>1, <2>4, <2>6, <2>7
  <2> QED BY <2>4, <2>5, <2>8
<1> QED BY <1>2, <1>3, <1>4

\* Every resource is created, ...
LEMMA CreationOrderIs == CreationOrder \in Seq(Handles) /\ Range(CreationOrder) = Handles /\ Len(CreationOrder) > 0
<1>1. PICK n \in Nat \ {0} : DOMAIN PipelineOrder = 1..n
  BY PipelinesInOrder
<1> DEFINE seqs == [k \in DOMAIN PipelineOrder |-> Append(KernelsAt(k), SetOf(k))]
<1>2. DOMAIN seqs = 1..n /\ \A k \in 1..n : seqs[k] = Append(KernelsAt(k), SetOf(k))
  BY <1>1
<1>3. ASSUME NEW k \in 1..n
      PROVE  /\ Append(KernelsAt(k), SetOf(k)) \in Seq(Handles)
             /\ Range(Append(KernelsAt(k), SetOf(k))) = Range(KernelsAt(k)) \cup {SetOf(k)}
  <2> DEFINE x == KernelOf(PipelineOrder[k])
             y == SetOf(k)
             S == {x, y}
  <2>1. KernelsAt(k) = <<x>> \/ KernelsAt(k) = << >>
    BY DEF KernelsAt
  <2>2. y \in Handles
    BY <1>1 DEF Handles, Sets
  <2>3. Range(<<x>>) = {x} /\ Range(<< >>) = {} /\ Range(<<x, y>>) = {x, y} /\ Range(<<y>>) = {y}
    BY DEF Range
  <2>4. CASE KernelsAt(k) = <<x>>
    <3>1. x \in Handles
      BY <1>1, <2>3, <2>4 DEF Handles, Kernels
    <3> HIDE DEF x, y
    <3>2. Append(KernelsAt(k), y) = <<x, y>>
      BY <2>4, AppendToOne
    <3>3. <<x, y>> \in Seq(Handles)
      BY <2>2, <3>1
    <3> QED BY <2>3, <2>4, <3>2, <3>3 DEF y
  <2>5. CASE KernelsAt(k) = << >>
    <3> HIDE DEF x, y
    <3>1. Append(KernelsAt(k), y) = <<y>>
      BY <2>5
    <3>2. <<y>> \in Seq(Handles)
      BY <2>2
    <3> QED BY <2>3, <2>5, <3>1, <3>2 DEF y
  <2> QED BY <2>1, <2>4, <2>5
<1>4. seqs \in Seq(Seq(Handles)) /\ Len(seqs) = n
  <2>1. seqs \in [1..n -> Seq(Handles)]
    BY <1>1, <1>3
  <2> QED BY <2>1
<1>5. CreationOrder = BufferHandles \o FlattenSeq(seqs)
  BY DEF CreationOrder
<1> HIDE DEF seqs
<1>6. FlattenSeq(seqs) \in Seq(Handles)
  BY <1>4, FlattenedType
<1>7. \A x : x \in Range(FlattenSeq(seqs)) <=> \E k \in 1..n : x \in Range(seqs[k])
  BY <1>4, FlattenedRange
<1>8. Range(FlattenSeq(seqs)) = Kernels \cup Sets
  <2>1. \A x : x \in Kernels <=> \E k \in 1..n : x \in Range(KernelsAt(k))
    BY <1>1 DEF Kernels
  <2>2. \A x : x \in Sets <=> \E k \in 1..n : x = SetOf(k)
    BY <1>1 DEF Sets
  <2>3. \A k \in 1..n : Range(seqs[k]) = Range(KernelsAt(k)) \cup {SetOf(k)}
    BY <1>2, <1>3
  <2>4. \A x : x \in Range(FlattenSeq(seqs)) <=> x \in Kernels \/ x \in Sets
    BY <1>7, <2>1, <2>2, <2>3
  <2> QED BY <2>4
<1>9. CreationOrder \in Seq(Handles) /\ Range(CreationOrder) = Handles
  <2>1. BufferHandles \in Seq(Handles) /\ Range(BufferHandles) = Buffers
    BY OrdersOfHandles
  <2>2. BufferHandles \o FlattenSeq(seqs) \in Seq(Handles)
    BY <1>6, <2>1
  <2>3. Range(BufferHandles \o FlattenSeq(seqs)) = Buffers \cup Kernels \cup Sets
    BY <1>6, <1>8, <2>1, RangeOfJoined
  <2> QED BY <1>5, <2>2, <2>3 DEF Handles
<1>10. Len(CreationOrder) > 0
  <2>1. SetOf(1) \in Handles
    BY <1>1 DEF Handles, Sets
  <2>2. Len(CreationOrder) \in Nat /\ DOMAIN CreationOrder = 1..Len(CreationOrder)
    BY <1>9
  <2> QED BY <1>9, <2>1, <2>2 DEF Range
<1> QED BY <1>9, <1>10

\* ... and closed, and what is no binding set is closed behind all binding sets.
SetsFirst(order) ==
    \A k \in DOMAIN order : \/ order[k] \in Sets
                            \/ \A x \in Sets : \E j \in 1..(k - 1) : order[j] = x

LEMMA CloseOrderIs == CloseOrder \in Seq(Handles) /\ Range(CloseOrder) = Handles /\ SetsFirst(CloseOrder)
<1> DEFINE sets == Reverse(SetOrder)
           rest == Reverse(KernelOrder) \o Reverse(BufferHandles)
<1>1. sets \in Seq(Handles) /\ Range(sets) = Sets
  BY OrdersOfHandles, ReversedSequence
<1>2. Reverse(KernelOrder) \in Seq(Handles) /\ Range(Reverse(KernelOrder)) = Kernels
  BY OrdersOfHandles, ReversedSequence
<1>3. Reverse(BufferHandles) \in Seq(Handles) /\ Range(Reverse(BufferHandles)) = Buffers
  BY OrdersOfHandles, ReversedSequence
<1>4. rest \in Seq(Handles) /\ Range(rest) = Kernels \cup Buffers
  BY <1>2, <1>3, RangeOfJoined
<1>5. CloseOrder = sets \o rest
  <2>1. CloseOrder = (sets \o Reverse(KernelOrder)) \o Reverse(BufferHandles)
    BY DEF CloseOrder
  <2> HIDE DEF sets
  <2>2. \A S : \A a \in Seq(S), b \in Seq(S), c \in Seq(S) : (a \o b) \o c = a \o (b \o c)
    BY ConcatAssociative
  <2> QED BY <1>1, <1>2, <1>3, <2>1, <2>2
<1> HIDE DEF sets, rest
<1>6. sets \o rest \in Seq(Handles) /\ Range(sets \o rest) = Handles
  BY <1>1, <1>4, RangeOfJoined DEF Handles
<1>7. SetsFirst(sets \o rest)
  <2> SUFFICES ASSUME NEW k \in DOMAIN (sets \o rest), (sets \o rest)[k] \notin Sets, NEW x \in Sets
               PROVE  \E j \in 1..(k - 1) : (sets \o rest)[j] = x
    BY DEF SetsFirst
  <2>1. /\ DOMAIN sets = 1..Len(sets) /\ Len(sets) \in Nat /\ Len(rest) \in Nat
        /\ DOMAIN (sets \o rest) = 1..(Len(sets) + Len(rest))
        /\ \A j \in 1..Len(sets) : (sets \o rest)[j] = sets[j]
    BY <1>1, <1>4
  <2>2. \A j \in 1..Len(sets) : sets[j] \in Sets
    BY <1>1, <2>1 DEF Range
  <2>3. ~ (k <= Len(sets))
    BY <2>1, <2>2
  <2>4. PICK j \in 1..Len(sets) : sets[j] = x
    BY <1>1, <2>1 DEF Range
  <2>5. j \in 1..(k - 1)
    BY <2>1, <2>3
  <2> QED BY <2>1, <2>4, <2>5
<1> QED BY <1>5, <1>6, <1>7

----------------------------------------------------------------------------
\* One resource after the other is closed.
LeftBy(resources, retained, x) ==
    CHOOSE left \in {IF Refuses(r, retained, x) THEN r ELSE r \ {x} : r \in {resources}} : TRUE

LEMMA LeftByOne ==
    ASSUME NEW resources, NEW retained, NEW x
    PROVE  LeftBy(resources, retained, x) = IF Refuses(resources, retained, x) THEN resources ELSE resources \ {x}
BY DEF LeftBy

\* What is left while Correlator.Close is at work.
CloseTrace(F, resources, retained, n) ==
    /\ F[0] = resources
    /\ \A k \in 1..n : F[k] = LeftBy(F[k - 1], retained, CloseOrder[k])
    /\ F[n] = LeftByClose(resources, retained)

LEMMA CloseFold ==
    ASSUME NEW resources, NEW retained, NEW n \in Nat, DOMAIN CloseOrder = 1..n
    PROVE  \E F : CloseTrace(F, resources, retained, n)
<1> DEFINE Rhs(g, s) == IF s = {} THEN resources ELSE LeftBy(g[s \ {Max(s)}], retained, CloseOrder[Max(s)])
           S == {k \in 0..n : \E g : g = [s \in SUBSET (1..k) |-> Rhs(g, s)]}
<1>1. 0 \in S
  <2> DEFINE g == [s \in SUBSET (1..0) |-> resources]
  <2>1. \A s \in SUBSET (1..0) : s = {}
    OBVIOUS
  <2>2. g = [s \in SUBSET (1..0) |-> Rhs(g, s)]
    BY <2>1
  <2> HIDE DEF g
  <2>3. \E f : f = [s \in SUBSET (1..0) |-> Rhs(f, s)]
    BY <2>2
  <2>4. 0 \in 0..n
    OBVIOUS
  <2> QED BY <2>3, <2>4
<1>2. ASSUME NEW k \in 1..n, k - 1 \in S
      PROVE  k \in S
  <2>1. PICK g : g = [s \in SUBSET (1..(k - 1)) |-> Rhs(g, s)]
    BY <1>2
  <2> DEFINE h == [s \in SUBSET (1..k) |-> IF k \in s THEN LeftBy(g[s \ {k}], retained, CloseOrder[k]) ELSE g[s]]
  <2>2. \A s \in SUBSET (1..(k - 1)) : g[s] = Rhs(g, s)
    BY <2>1
  <2>3. ASSUME NEW s \in SUBSET (1..k)
        PROVE  h[s] = Rhs(h, s)
    <3>1. CASE k \in s
      <4>1. Max(s) = k /\ s # {}
        BY <3>1, MaxOfInterval
      <4>2. s \ {k} \in SUBSET (1..k) /\ h[s \ {k}] = g[s \ {k}]
        OBVIOUS
      <4> QED BY <3>1, <4>1, <4>2
    <3>2. CASE k \notin s
      <4>1. s \in SUBSET (1..(k - 1)) /\ h[s] = g[s]
        BY <3>2
      <4>2. s \ {Max(s)} \in SUBSET (1..k) /\ h[s \ {Max(s)}] = g[s \ {Max(s)}]
        BY <3>2
      <4> QED BY <2>2, <4>1, <4>2
    <3> QED BY <3>1, <3>2
  <2>4. h = [s \in SUBSET (1..k) |-> Rhs(h, s)]
    BY <2>3
  <2> HIDE DEF h
  <2>5. \E f : f = [s \in SUBSET (1..k) |-> Rhs(f, s)]
    BY <2>4
  <2>6. k \in 0..n
    OBVIOUS
  <2> QED BY <2>5, <2>6
<1>3. n \in S
  <2> HIDE DEF S
  <2> QED BY <1>1, <1>2, SetInduction
<1>4. PICK g : /\ g = [s \in SUBSET (1..n) |-> Rhs(g, s)]
               /\ LeftByClose(resources, retained) = g[1..n]
  <2> DEFINE iter == CHOOSE g : g = [s \in SUBSET (1..n) |-> Rhs(g, s)]
  <2>1. iter = [s \in SUBSET (1..n) |-> Rhs(iter, s)]
    <3>1. \E g : g = [s \in SUBSET (1..n) |-> Rhs(g, s)]
      BY <1>3
    <3> QED BY <3>1
  <2>2. LeftByClose(resources, retained) = iter[1..n]
    BY DEF LeftByClose, LeftBy, FoldLeft, MapThenFoldSet
  <2> QED BY <2>1, <2>2
<1> DEFINE F == [k \in 0..n |-> g[1..k]]
<1>5. F[0] = resources
  <2>1. 1..0 = {}
    OBVIOUS
  <2> QED BY <1>4, <2>1
<1>6. ASSUME NEW k \in 1..n
      PROVE  F[k] = LeftBy(F[k - 1], retained, CloseOrder[k])
  <2>1. Max(1..k) = k
    BY MaxOfInterval
  <2>2. (1..k) \ {k} = 1..(k - 1)
    OBVIOUS
  <2>3. 1..k # {} /\ 1..k \in SUBSET (1..n)
    <3>1. k \in 1..k
      OBVIOUS
    <3>2. \A j \in 1..k : j \in 1..n
      OBVIOUS
    <3> QED BY <3>1, <3>2
  <2>4. g[1..k] = LeftBy(g[1..(k - 1)], retained, CloseOrder[k])
    BY <1>4, <2>1, <2>2, <2>3
  <2>5. F[k] = g[1..k] /\ F[k - 1] = g[1..(k - 1)]
    OBVIOUS
  <2> QED BY <2>4, <2>5
<1>7. F[n] = g[1..n]
  OBVIOUS
<1> HIDE DEF F
<1>8. CloseTrace(F, resources, retained, n)
  BY <1>4, <1>5, <1>6, <1>7 DEF CloseTrace
<1> QED BY <1>8

LEMMA CloseTakesNothingElse ==
    ASSUME NEW resources, NEW retained
    PROVE  LeftByClose(resources, retained) \subseteq resources
<1> DEFINE n == Len(CloseOrder)
<1>1. n \in Nat /\ DOMAIN CloseOrder = 1..n
  BY CloseOrderIs
<1> HIDE DEF n
<1>2. PICK L : CloseTrace(L, resources, retained, n)
  BY <1>1, CloseFold
<1> DEFINE Good == {k \in 0..n : L[k] \subseteq resources}
<1>3. n \in Good
  <2>1. 0 \in Good /\ n \in 0..n
    BY <1>1, <1>2 DEF CloseTrace
  <2>2. ASSUME NEW k \in 1..n, k - 1 \in Good
        PROVE  k \in Good
    <3>1. L[k] = LeftBy(L[k - 1], retained, CloseOrder[k])
      BY <1>2 DEF CloseTrace
    <3>2. L[k] \subseteq L[k - 1]
      BY <3>1, LeftByOne
    <3>3. k \in 0..n
      BY <1>1
    <3> QED BY <2>2, <3>2, <3>3
  <2> HIDE DEF Good
  <2>3. 0..n \subseteq Good
    BY <1>1, <2>1, <2>2, SetInduction
  <2> QED BY <2>1, <2>3
<1> QED BY <1>2, <1>3 DEF CloseTrace

\* A binding set refers to a kernel and buffers, and to no binding set.
LEMMA SetsAreNotUsed ==
    ASSUME NEW k, NEW x \in Sets
    PROVE  ~ Uses(k, x)
BY DEF Uses, Sets, SetOf, KernelOf, BufferOf

\* In its order no Close refuses, if nothing else holds the resources.
LEMMA CloseLeavesNothing ==
    ASSUME NEW resources \in SUBSET Handles
    PROVE  LeftByClose(resources, {}) = {}
<1> DEFINE n == Len(CloseOrder)
<1>1. n \in Nat /\ DOMAIN CloseOrder = 1..n
  BY CloseOrderIs
<1> HIDE DEF n
<1>2. PICK L : CloseTrace(L, resources, {}, n)
  BY <1>1, CloseFold
<1> DEFINE Good == {k \in 0..n : L[k] \subseteq resources /\ \A j \in 1..k : CloseOrder[j] \notin L[k]}
<1>3. n \in Good
  <2>1. 0 \in Good
    <3>1. 1..0 = {} /\ 0 \in 0..n
      BY <1>1
    <3> QED BY <1>2, <3>1 DEF CloseTrace
  <2>2. ASSUME NEW k \in 1..n, k - 1 \in Good
        PROVE  k \in Good
    <3> DEFINE x == CloseOrder[k]
    <3>1. L[k] = IF Refuses(L[k - 1], {}, x) THEN L[k - 1] ELSE L[k - 1] \ {x}
      <4>1. L[k] = LeftBy(L[k - 1], {}, x)
        BY <1>2 DEF CloseTrace
      <4> QED BY <4>1, LeftByOne
    <3>2. ~ Refuses(L[k - 1], {}, x)
      <4> SUFFICES ASSUME NEW i \in DOMAIN PipelineOrder, SetOf(i) \in L[k - 1], Uses(i, x)
                   PROVE  FALSE
        BY DEF Refuses
      <4>1. x \notin Sets
        BY SetsAreNotUsed
      <4>2. SetOf(i) \in Sets
        BY DEF Sets
      <4>3. PICK j \in 1..(k - 1) : CloseOrder[j] = SetOf(i)
        BY <1>1, <4>1, <4>2, CloseOrderIs DEF SetsFirst
      <4> QED BY <2>2, <4>3
    <3>3. L[k] = L[k - 1] \ {x} /\ k \in 0..n
      BY <1>1, <3>1, <3>2
    <3>4. \A j \in 1..k : j \in 1..(k - 1) \/ j = k
      OBVIOUS
    <3> QED BY <2>2, <3>3, <3>4
  <2>3. n \in 0..n
    BY <1>1
  <2> HIDE DEF Good
  <2>4. 0..n \subseteq Good
    BY <1>1, <2>1, <2>2, SetInduction
  <2> QED BY <2>3, <2>4
<1>4. \A x \in Handles : x \notin L[n]
  <2>1. \A x \in Handles : \E j \in 1..n : CloseOrder[j] = x
    BY <1>1, CloseOrderIs DEF Range
  <2> QED BY <1>3, <2>1
<1>5. L[n] = {}
  BY <1>3, <1>4
<1> QED BY <1>2, <1>5 DEF CloseTrace

\* What retained resources need stays, as each Close of it refuses ...
LEMMA CloseLeavesWhatIsUsed ==
    ASSUME NEW retained, NEW resources, InUse(retained) \subseteq resources
    PROVE  InUse(retained) \subseteq LeftByClose(resources, retained)
<1> DEFINE n == Len(CloseOrder)
<1>1. n \in Nat /\ DOMAIN CloseOrder = 1..n /\ \A k \in 1..n : CloseOrder[k] \in Handles
  BY CloseOrderIs
<1> HIDE DEF n
<1>2. PICK L : CloseTrace(L, resources, retained, n)
  BY <1>1, CloseFold
<1> DEFINE Good == {k \in 0..n : InUse(retained) \subseteq L[k]}
<1>3. 0 \in Good /\ n \in 0..n
  BY <1>1, <1>2 DEF CloseTrace
<1>4. ASSUME NEW k \in 1..n, k - 1 \in Good
      PROVE  k \in Good
  <2> DEFINE x == CloseOrder[k]
  <2>1. L[k] = IF Refuses(L[k - 1], retained, x) THEN L[k - 1] ELSE L[k - 1] \ {x}
    <3>1. L[k] = LeftBy(L[k - 1], retained, x)
      BY <1>2 DEF CloseTrace
    <3> QED BY <3>1, LeftByOne
  <2>2. k \in 0..n
    BY <1>1
  <2> HIDE DEF x
  <2>3. ASSUME x \in InUse(retained)
        PROVE  Refuses(L[k - 1], retained, x)
    <3>1. CASE x \in retained
      BY <3>1 DEF Refuses
    <3>2. CASE x \notin retained
      <4>1. PICK i \in DOMAIN PipelineOrder : SetOf(i) \in retained /\ Uses(i, x)
        BY <2>3, <3>2 DEF InUse
      <4>2. SetOf(i) \in L[k - 1]
        BY <1>4, <4>1 DEF InUse
      <4> QED BY <4>1, <4>2 DEF Refuses
    <3> QED BY <3>1, <3>2
  <2> QED BY <1>4, <2>1, <2>2, <2>3
<1> HIDE DEF Good
<1>5. 0..n \subseteq Good
  BY <1>1, <1>3, <1>4, SetInduction
<1> QED BY <1>2, <1>3, <1>5 DEF Good, CloseTrace

\* ... and nothing else does: what a binding set refers to is closed behind that set.
LEMMA CloseLeavesNothingElse ==
    ASSUME NEW retained, NEW resources \in SUBSET Handles
    PROVE  LeftByClose(resources, retained) \subseteq InUse(retained)
<1> DEFINE n == Len(CloseOrder)
<1>1. n \in Nat /\ DOMAIN CloseOrder = 1..n
  BY CloseOrderIs
<1> HIDE DEF n
<1>2. PICK L : CloseTrace(L, resources, retained, n)
  BY <1>1, CloseFold
<1> DEFINE Good == {k \in 0..n : \A j \in 1..k : CloseOrder[j] \in L[k] => CloseOrder[j] \in InUse(retained)}
<1>3. 0 \in Good /\ n \in 0..n
  BY <1>1
<1>4. ASSUME NEW k \in 1..n, k - 1 \in Good
      PROVE  k \in Good
  <2> DEFINE x == CloseOrder[k]
  <2>1. L[k] = IF Refuses(L[k - 1], retained, x) THEN L[k - 1] ELSE L[k - 1] \ {x}
    <3>1. L[k] = LeftBy(L[k - 1], retained, x)
      BY <1>2 DEF CloseTrace
    <3> QED BY <3>1, LeftByOne
  <2>2. k \in 0..n /\ \A j \in 1..k : j \in 1..(k - 1) \/ j = k
    BY <1>1
  <2>3. \A j \in 1..(k - 1) : CloseOrder[j] \in L[k - 1] => CloseOrder[j] \in InUse(retained)
    BY <1>4
  <2>4. x \in Handles
    BY <1>1, CloseOrderIs
  <2>5. ASSUME x \in L[k]
        PROVE  x \in InUse(retained)
    <3>1. Refuses(L[k - 1], retained, x)
      BY <2>1, <2>5
    <3>2. CASE x \in retained
      BY <3>2 DEF InUse
    <3>3. CASE x \notin retained
      <4>1. PICK i \in DOMAIN PipelineOrder : SetOf(i) \in L[k - 1] /\ Uses(i, x)
        BY <3>1, <3>3 DEF Refuses
      <4>2. x \notin Sets /\ SetOf(i) \in Sets
        BY <4>1, SetsAreNotUsed DEF Sets
      <4>3. PICK j \in 1..(k - 1) : CloseOrder[j] = SetOf(i)
        BY <1>1, <4>2, CloseOrderIs DEF SetsFirst
      <4>4. SetOf(i) \in InUse(retained)
        BY <2>3, <4>1, <4>3
      <4>5. SetOf(i) \in retained
        BY <4>2, <4>4, SetsAreNotUsed DEF InUse
      <4>6. x \in Range(CreationOrder)
        BY <2>4, CreationOrderIs
      <4> QED BY <4>1, <4>5, <4>6 DEF InUse
    <3> QED BY <3>2, <3>3
  <2>6. L[k] \subseteq L[k - 1]
    BY <2>1
  <2> QED BY <2>2, <2>3, <2>5, <2>6
<1> HIDE DEF Good
<1>5. 0..n \subseteq Good
  BY <1>1, <1>3, <1>4, SetInduction
<1>6. \A x \in Handles : \E j \in 1..n : CloseOrder[j] = x
  BY <1>1, CloseOrderIs DEF Range
<1>7. \A j \in 1..n : CloseOrder[j] \in L[n] => CloseOrder[j] \in InUse(retained)
  BY <1>3, <1>5 DEF Good
<1>8. L[n] \subseteq Handles
  BY <1>2, CloseTakesNothingElse DEF CloseTrace
<1> QED BY <1>2, <1>6, <1>7, <1>8 DEF CloseTrace

----------------------------------------------------------------------------
(* The devices. *)

DeviceTypes ==
    /\ DOMAIN natives = Devices
    /\ DOMAIN live = Devices
    /\ DOMAIN kept = Devices

\* Until NewCorrelator returns one there is no backend, and only for a Vulkan backend on
\* its own device, or while that is made, anything of its own is open.
OwnsWhatItUses ==
    /\ pc \in {"start", "opening", "refused", "creating", "failed"} => backend = "none"
    /\ pc \in {"ready", "recording", "decoding", "returning"} => backend \in {"cpu", "vulkan"}
    /\ pc \in {"opening", "refused"} => ~config.deviceSet
    /\ pc \in {"start", "opening", "refused"} => live["own"] = {}
    /\ natives["own"] # {} \/ live["own"] # {} =>
          /\ ~config.deviceSet
          /\ \/ pc \in {"opening", "refused", "creating"}
             \/ backend = "vulkan" /\ pc # "closed"

DeviceInv == DeviceTypes /\ OwnsWhatItUses

LEMMA DevicesInit == Init => DeviceInv
BY DEF Init, DeviceInv, DeviceTypes, OwnsWhatItUses, Devices

\* What MyDevice and GiveUp come down to.
LEMMA MyDeviceIs == MyDevice = IF config.deviceSet THEN "borrowed" ELSE "own"
BY DEF MyDevice, DeviceOf

LEMMA CreationSteps ==
    ASSUME DeviceInv, (\E options \in OptionLists : NewCorrelator(options)) \/ OpenNext \/ OpenFails
                      \/ CreateNext \/ CreateFails
    PROVE  DeviceInv'
<1> USE DEF DeviceInv, DeviceTypes, OwnsWhatItUses
<1>1. ASSUME NEW options \in OptionLists, NewCorrelator(options)
      PROVE  DeviceInv'
  <2>1. pc = "start" /\ UNCHANGED <<natives, live, kept>> /\ natives["own"] = {} /\ live["own"] = {}
    BY <1>1 DEF NewCorrelator, deviceVars
  <2>2. pc' \in {"failed", "creating", "ready", "opening"} /\ (pc' = "opening" => ~config'.deviceSet)
    <3>1. CASE config'.failed \/ ((~config'.deviceSet /\ config'.backend # "vulkan") /\ ~AcceptedByCPU(max))
      BY <1>1, <3>1 DEF NewCorrelator
    <3>2. CASE ~(config'.failed \/ ((~config'.deviceSet /\ config'.backend # "vulkan") /\ ~AcceptedByCPU(max)))
      BY <1>1, <3>2 DEF NewCorrelator
    <3> QED BY <3>1, <3>2
  <2>3. backend' = IF pc' = "ready" THEN "cpu" ELSE "none"
    BY <1>1 DEF NewCorrelator
  <2> QED BY <2>1, <2>2, <2>3
<1>2. CASE OpenNext
  <2>1. pc = "opening" /\ UNCHANGED <<config, live, kept, backend>>
    BY <1>2 DEF OpenNext
  <2>2. pc' \in {"opening", "creating", "refused"}
    BY <1>2, <2>1 DEF OpenNext
  <2>3. DOMAIN natives' = Devices
    BY <1>2 DEF OpenNext
  <2> QED BY <2>1, <2>2, <2>3
<1>3. CASE OpenFails
  BY <1>3 DEF OpenFails, GiveUp, Devices
<1>4. CASE CreateNext
  BY <1>4, MyDeviceIs DEF CreateNext, Devices
<1>5. CASE CreateFails
  BY <1>5, MyDeviceIs DEF CreateFails, GiveUp, DeviceClosed, Devices
<1> QED BY <1>1, <1>2, <1>3, <1>4, <1>5

LEMMA CallSteps ==
    ASSUME DeviceInv,
           \/ \E sizes \in CallSizes \X CallSizes :
                 RejectCall(sizes) \/ \E images \in ImagePairs : BeginCall(images, sizes)
           \/ RecordNext \/ RecordFails \/ RecordReturnsError
           \/ \E result \in {"done", "unread", "refused", "lost"} : SubmitAndWait(result)
           \/ \E n \in Numbers : Decode(n)
           \/ Return
    PROVE  DeviceInv' /\ UNCHANGED natives
<1> SUFFICES /\ UNCHANGED <<config, natives, live, backend>>
             /\ DOMAIN kept' = DOMAIN kept
             /\ \/ pc' = pc
                \/ pc \in {"ready", "recording", "decoding", "returning"}
                   /\ pc' \in {"ready", "recording", "decoding", "returning"}
  BY DEF DeviceInv, DeviceTypes, OwnsWhatItUses
<1>1. ASSUME NEW sizes, RejectCall(sizes) \/ \E images \in ImagePairs : BeginCall(images, sizes)
      PROVE  /\ UNCHANGED <<config, natives, live, kept, backend>>
             /\ pc' = pc \/ (pc = "ready" /\ pc' \in {"decoding", "recording"})
  <2>1. CASE RejectCall(sizes)
    BY <2>1 DEF RejectCall, deviceVars
  <2>2. ASSUME NEW images \in ImagePairs, BeginCall(images, sizes)
        PROVE  /\ UNCHANGED <<config, natives, live, kept, backend>>
               /\ pc = "ready" /\ pc' \in {"decoding", "recording"}
    <3>1. pc = "ready"
      BY <2>2 DEF BeginCall, AcceptsCall
    <3> QED BY <2>2, <3>1 DEF BeginCall, deviceVars
  <2> QED BY <1>1, <2>1, <2>2
<1>2. CASE RecordNext \/ RecordFails \/ RecordReturnsError
  BY <1>2 DEF RecordNext, RecordFails, RecordReturnsError, ReturnError, deviceVars
<1>3. ASSUME NEW result \in {"done", "unread", "refused", "lost"}, SubmitAndWait(result)
      PROVE  /\ UNCHANGED <<config, natives, live, backend>>
             /\ DOMAIN kept' = DOMAIN kept
             /\ pc = "recording" /\ pc' \in {"ready", "decoding"}
  BY <1>3 DEF SubmitAndWait, ReturnError, deviceVars
<1>4. ASSUME NEW n, Decode(n) \/ Return
      PROVE  /\ UNCHANGED <<config, natives, live, kept, backend>>
             /\ pc \in {"decoding", "returning"} /\ pc' \in {"ready", "returning"}
  BY <1>4 DEF Decode, Return, deviceVars
<1> QED BY <1>1, <1>2, <1>3, <1>4

LEMMA ClosingSteps ==
    ASSUME DeviceInv, Close \/ CloseLentDevice
    PROVE  DeviceInv'
<1> USE DEF DeviceInv, DeviceTypes, OwnsWhatItUses
<1>1. CASE Close
  <2>1. pc = "ready" /\ pc' = "closed" /\ UNCHANGED <<config, backend>>
    BY <1>1 DEF Close
  <2>2. CASE backend = "cpu"
    BY <1>1, <2>1, <2>2 DEF Close
  <2>3. CASE backend # "cpu" /\ OwnsDevice
    <3>1. MyDevice = "own" /\ DeviceClosed("own") /\ live' = [live EXCEPT !["own"] = {}]
      BY <1>1, <2>3, MyDeviceIs DEF Close, ClosesDevice, OwnsDevice
    <3> QED BY <2>1, <3>1 DEF DeviceClosed, Devices
  <2>4. CASE backend # "cpu" /\ ~OwnsDevice
    <3>1. /\ UNCHANGED <<natives, kept>>
          /\ live' = [live EXCEPT ![MyDevice] = LeftByClose(@, Retained(MyDevice))]
      BY <1>1, <2>4 DEF Close, ClosesDevice
    <3>2. CASE backend = "vulkan"
      <4>1. MyDevice = "borrowed"
        BY <2>4, <3>2, MyDeviceIs DEF OwnsDevice
      <4> QED BY <2>1, <2>4, <3>1, <3>2, <4>1 DEF OwnsDevice, Devices
    <3>3. backend = "vulkan"
      BY <2>1, <2>4
    <3> QED BY <3>2, <3>3
  <2> QED BY <2>2, <2>3, <2>4
<1>2. CASE CloseLentDevice
  BY <1>2 DEF CloseLentDevice, DeviceClosed, Devices
<1> QED BY <1>1, <1>2

LEMMA DevicesStep == DeviceInv /\ [Next]_vars => DeviceInv'
<1> SUFFICES ASSUME DeviceInv, [Next]_vars
             PROVE  DeviceInv'
  OBVIOUS
<1>1. CASE UNCHANGED vars
  BY <1>1 DEF vars, deviceVars, DeviceInv, DeviceTypes, OwnsWhatItUses
<1> QED BY <1>1, CreationSteps, CallSteps, ClosingSteps DEF Next

LEMMA DevicesInvariant == Spec => []DeviceInv
BY DevicesInit, DevicesStep, PTL DEF Spec

\* What NewCorrelator opened for itself is closed again when it fails, falls back to the
\* CPU, or is followed by Close (newVulkanCorrelator, Correlator.Close), with everything
\* on it: the part of NothingLeaks that is about the correlator's own device.
OwnDeviceReleased ==
    pc \in {"failed", "closed"} \/ backend = "cpu" => natives["own"] = {} /\ live["own"] = {}

THEOREM OwnDeviceIsReleased == Spec => []OwnDeviceReleased
<1>1. DeviceInv => OwnDeviceReleased
  BY DEF DeviceInv, OwnsWhatItUses, OwnDeviceReleased
<1> QED BY <1>1, DevicesInvariant, PTL

\* A device that was lent is closed by the program alone: not by a failed NewCorrelator,
\* the fallback, a call, or Correlator.Close.
THEOREM BorrowedDeviceIsNeverClosed == Spec => LentDeviceStaysOpen
<1>1. DeviceInv /\ [Next]_vars => [natives'["borrowed"] # natives["borrowed"] => CloseLentDevice]_vars
  <2> SUFFICES ASSUME DeviceInv, Next, ~CloseLentDevice
               PROVE  natives'["borrowed"] = natives["borrowed"]
    BY DEF vars, deviceVars
  <2> USE DEF DeviceInv, DeviceTypes
  <2>1. CASE (\E options \in OptionLists : NewCorrelator(options)) \/ CreateNext
    BY <2>1 DEF NewCorrelator, CreateNext, deviceVars
  <2>2. CASE OpenNext
    BY <2>2 DEF OpenNext, Devices
  <2>3. CASE OpenFails
    BY <2>3 DEF OpenFails, Devices
  <2>4. CASE CreateFails
    BY <2>4 DEF CreateFails, DeviceClosed, Devices
  <2>5. CASE Close
    BY <2>5, MyDeviceIs DEF Close, ClosesDevice, OwnsDevice, DeviceClosed, Devices
  <2> QED BY <2>1, <2>2, <2>3, <2>4, <2>5, CallSteps DEF Next
<1> QED BY <1>1, DevicesInvariant, PTL DEF Spec, LentDeviceStaysOpen

----------------------------------------------------------------------------
(* The verdicts. *)

\* The outcome is that of the numbers it has, on one of the backends.
VerdictInv ==
    \/ last = NoOutcome
    \/ \E n \in Numbers : \/ last = [kind |-> VerdictCPU(n), numbers |-> {n}]
                          \/ last = [kind |-> VerdictVulkan(n), numbers |-> {n}]

LEMMA VerdictInit == Init => VerdictInv
BY DEF Init, VerdictInv

LEMMA VerdictStep == VerdictInv /\ [Next]_vars => VerdictInv'
<1> SUFFICES ASSUME VerdictInv, [Next]_vars
             PROVE  VerdictInv'
  OBVIOUS
<1>1. CASE UNCHANGED last
  BY <1>1 DEF VerdictInv
<1>2. CASE UNCHANGED vars
  BY <1>1, <1>2 DEF vars, callVars
<1>3. CASE (\E options \in OptionLists : NewCorrelator(options)) \/ OpenNext \/ OpenFails
           \/ CreateNext \/ CreateFails \/ Close \/ CloseLentDevice
  BY <1>1, <1>3 DEF NewCorrelator, OpenNext, OpenFails, CreateNext, CreateFails, Close, CloseLentDevice, callVars
<1>4. CASE \E sizes \in CallSizes \X CallSizes :
              RejectCall(sizes) \/ \E images \in ImagePairs : BeginCall(images, sizes)
  BY <1>1, <1>4 DEF RejectCall, BeginCall, callVars
<1>5. CASE RecordNext \/ RecordFails \/ RecordReturnsError
  BY <1>1, <1>5 DEF RecordNext, RecordFails, RecordReturnsError, ReturnError
<1>6. CASE \E result \in {"done", "unread", "refused", "lost"} : SubmitAndWait(result)
  BY <1>1, <1>6 DEF SubmitAndWait, ReturnError
<1>7. ASSUME NEW n \in Numbers, Decode(n)
      PROVE  VerdictInv'
  BY <1>7 DEF Decode, VerdictInv
<1>8. CASE Return
  BY <1>8 DEF Return, VerdictInv
<1> QED BY <1>2, <1>3, <1>4, <1>5, <1>6, <1>7, <1>8 DEF Next

Quantity == {x \in Int : x <= Infinite}
Try == [confidence : Quantity, finite : BOOLEAN]

\* What an answer, or the refusal to give one, says of the numbers.
SoundFor(kind, n) ==
    LET Confident(x) == x > MinimumMatchConfidence /\ Finite(x)
    IN  /\ kind \in {"first", "second"} =>
              LET best == n[kind]
              IN  /\ n.angleFinite /\ n.scale > 0 /\ Finite(n.scale) /\ best.finite
                  /\ Confident(n.rotation) /\ Confident(best.confidence)
                  /\ \A t \in {"first", "second"} : n[t].confidence <= best.confidence
        /\ kind = "lowConfidence" =>
              ~Confident(n.rotation)
              \/ \A t \in {"first", "second"} : ~Confident(n[t].confidence)

LEMMA NumberTypes ==
    ASSUME NEW n \in Numbers
    PROVE  n \in [angleFinite : BOOLEAN, scale : Quantity, rotation : Quantity, first : Try, second : Try]
BY NumbersAssumption DEF NumbersAssumption, Quantity, Try

\* The better translation has the higher confidence, unless the other is no number.
LEMMA BestIsHigher ==
    ASSUME NEW n \in Numbers, FiniteTry(n[Best(n)]), NEW t \in {"first", "second"}
    PROVE  n[t].confidence = NaN \/ n[t].confidence <= n[Best(n)].confidence
<1> DEFINE a == n.first.confidence
           b == n.second.confidence
<1>1. a \in Int /\ b \in Int
  <2>1. a \in Quantity /\ b \in Quantity
    BY NumberTypes DEF Try
  <2> QED BY <2>1 DEF Quantity
<1> HIDE DEF a, b
<1>2. CASE Greater(b, a)
  <2>1. Best(n) = "second"
    BY <1>2 DEF Best, a, b
  <2>2. a <= b /\ b <= b
    BY <1>1, <1>2 DEF Greater
  <2> QED BY <2>1, <2>2 DEF a, b
<1>3. CASE ~Greater(b, a)
  <2>1. Best(n) = "first"
    BY <1>3 DEF Best, a, b
  <2>2. a # NaN
    BY <2>1 DEF FiniteTry, Finite, a
  <2>3. b = NaN \/ b <= a
    BY <1>1, <1>3, <2>2 DEF Greater
  <2>4. a <= a
    BY <1>1
  <2> QED BY <2>1, <2>3, <2>4 DEF a, b
<1> QED BY <1>2, <1>3

\* On finite numbers both backends decide alike, and soundly.
LEMMA DecisionIsSound ==
    ASSUME NEW n \in Numbers, FiniteRotation(n), FiniteTry(n[Best(n)])
    PROVE  SoundFor(IF LowConfidence(n, n[Best(n)].confidence) THEN "lowConfidence" ELSE Best(n), n)
<1> DEFINE best == n[Best(n)]
<1>1. best \in {n.first, n.second} /\ Best(n) \in {"first", "second"}
  BY DEF Best
<1>2. /\ n.rotation \in Quantity /\ n.scale \in Quantity /\ best.confidence \in Quantity
      /\ n.first.confidence \in Quantity /\ n.second.confidence \in Quantity
  BY <1>1, NumberTypes DEF Try
<1>3. n.angleFinite /\ Finite(n.scale) /\ ~AtMost(n.scale, 0) /\ Finite(n.rotation)
      /\ best.finite /\ Finite(best.confidence)
  BY DEF FiniteRotation, FiniteTry
<1>4. \A t \in {"first", "second"} : n[t].confidence = NaN \/ n[t].confidence <= best.confidence
  BY BestIsHigher
<1>5. \A x \in Quantity : Finite(x) => (AtMost(x, 0) <=> ~(x > 0)) /\ (AtMost(x, MinimumMatchConfidence) <=> ~(x > MinimumMatchConfidence))
  BY DEF Finite, AtMost, NaN, Quantity, Infinite, MinimumMatchConfidence
<1> HIDE DEF best
<1>6. CASE ~LowConfidence(n, best.confidence)
  <2>1. n.rotation > MinimumMatchConfidence /\ best.confidence > MinimumMatchConfidence /\ n.scale > 0
    BY <1>2, <1>3, <1>5, <1>6 DEF LowConfidence
  <2>2. \A t \in {"first", "second"} : n[t].confidence <= best.confidence
    BY <1>2, <1>4, <2>1 DEF Quantity, NaN, MinimumMatchConfidence
  <2>3. SoundFor(Best(n), n)
    BY <1>1, <1>3, <2>1, <2>2 DEF SoundFor, best
  <2> QED BY <1>6, <2>3 DEF best
<1>7. CASE LowConfidence(n, best.confidence)
  <2>1. ~(n.rotation > MinimumMatchConfidence) \/ ~(best.confidence > MinimumMatchConfidence)
    BY <1>2, <1>3, <1>5, <1>7 DEF LowConfidence
  <2>2. ~(best.confidence > MinimumMatchConfidence)
          => \A t \in {"first", "second"} : ~(n[t].confidence > MinimumMatchConfidence)
    <3>1. \A t \in {"first", "second"} : n[t].confidence \in Int
      BY <1>2 DEF Quantity
    <3>2. best.confidence \in Int
      BY <1>2 DEF Quantity
    <3> QED BY <1>4, <3>1, <3>2 DEF MinimumMatchConfidence, NaN
  <2>3. SoundFor("lowConfidence", n)
    BY <2>1, <2>2 DEF SoundFor
  <2> QED BY <1>7, <2>3 DEF best
<1> QED BY <1>6, <1>7

LEMMA RefusalIsSound == \A n : SoundFor("nonFinite", n)
BY DEF SoundFor

LEMMA CPUIsSound ==
    ASSUME NEW n \in Numbers
    PROVE  SoundFor(VerdictCPU(n), n)
<1>1. CASE FiniteRotation(n) /\ FiniteTry(n[Best(n)])
  BY <1>1, DecisionIsSound DEF VerdictCPU
<1>2. CASE ~(FiniteRotation(n) /\ FiniteTry(n[Best(n)]))
  BY <1>2, RefusalIsSound DEF VerdictCPU
<1> QED BY <1>1, <1>2

LEMMA VulkanIsSound ==
    ASSUME NEW n \in Numbers
    PROVE  SoundFor(VerdictVulkan(n), n)
<1>1. CASE FiniteRotation(n) /\ FiniteTry(n.first) /\ FiniteTry(n.second)
  <2>1. FiniteTry(n[Best(n)])
    BY <1>1 DEF Best
  <2> QED BY <1>1, <2>1, DecisionIsSound DEF VerdictVulkan
<1>2. CASE ~(FiniteRotation(n) /\ FiniteTry(n.first) /\ FiniteTry(n.second))
  BY <1>2, RefusalIsSound DEF VerdictVulkan
<1> QED BY <1>1, <1>2

\* Vulkan refuses a loser that is not finite, and differs in nothing else.
LEMMA BackendsAgree ==
    ASSUME NEW n \in Numbers, VerdictCPU(n) # VerdictVulkan(n)
    PROVE  /\ VerdictVulkan(n) = "nonFinite"
           /\ \E t \in {"first", "second"} \ {Best(n)} : ~FiniteTry(n[t])
<1>1. Best(n) \in {"first", "second"}
  BY DEF Best
<1>2. CASE FiniteTry(n.first) /\ FiniteTry(n.second)
  BY <1>1, <1>2 DEF VerdictCPU, VerdictVulkan
<1>3. CASE ~FiniteTry(n[Best(n)])
  BY <1>1, <1>3 DEF VerdictCPU, VerdictVulkan
<1>4. CASE FiniteTry(n[Best(n)]) /\ ~(FiniteTry(n.first) /\ FiniteTry(n.second))
  BY <1>1, <1>4 DEF VerdictVulkan
<1> QED BY <1>2, <1>3, <1>4

\* An answer has a finite transform, confident peaks, and the translation with the higher
\* one, and the backends give the same unless the translation that loses is not finite
\* (PhaseCorrelate and phaseCorrelateCPU), whatever the numbers are.
THEOREM VerdictsCanBeTrusted == Spec => []VerdictsAreSound
<1>1. VerdictInv => VerdictsAreSound
  <2> SUFFICES ASSUME VerdictInv, NEW n \in last.numbers
               PROVE  /\ SoundFor(last.kind, n)
                      /\ VerdictCPU(n) # VerdictVulkan(n) =>
                            /\ VerdictVulkan(n) = "nonFinite"
                            /\ \E t \in {"first", "second"} \ {Best(n)} : ~FiniteTry(n[t])
    BY DEF VerdictsAreSound, AnswersAreConfident, VerdictsAgree, SoundFor
  <2>1. n \in Numbers /\ last.kind \in {VerdictCPU(n), VerdictVulkan(n)}
    BY DEF VerdictInv, NoOutcome
  <2> QED BY <2>1, CPUIsSound, VulkanIsSound, BackendsAgree
<1> QED BY <1>1, VerdictInit, VerdictStep, PTL DEF Spec

----------------------------------------------------------------------------
(* The states of a correlator. *)

\* Where the program is, and what it has at hand there.
StatusInv ==
    /\ pc \in {"start", "opening", "refused", "creating", "ready", "recording", "decoding", "returning",
               "failed", "closed"}
    /\ backend \in {"none", "cpu", "vulkan"}
    /\ recorder = (pc = "recording")
    /\ err \in BOOLEAN
    /\ calls \in 0..MaxCalls

LEMMA StatusInit == Init => StatusInv
<1> SUFFICES ASSUME Init
             PROVE  StatusInv
  OBVIOUS
<1>1. pc = "start" /\ backend = "none" /\ ~recorder /\ err = FALSE /\ calls = 0
  BY DEF Init
<1>2. calls \in 0..MaxCalls
  BY <1>1, LimitsAssumption DEF LimitsAssumption
<1>3. recorder \in BOOLEAN
  BY DEF Init
<1>4. recorder = (pc = "recording")
  BY <1>1, <1>3
<1> QED BY <1>1, <1>2, <1>4 DEF StatusInv

LEMMA StatusStep == StatusInv /\ [Next]_vars => StatusInv'
<1> SUFFICES ASSUME StatusInv, [Next]_vars
             PROVE  StatusInv'
  OBVIOUS
<1> USE DEF StatusInv
<1>1. CASE UNCHANGED vars
  BY <1>1 DEF vars, callVars
<1>2. ASSUME NEW options \in OptionLists, NewCorrelator(options)
      PROVE  StatusInv'
  <2>1. pc' \in {"failed", "creating", "ready", "opening"}
    <3>1. CASE config'.failed \/ ((~config'.deviceSet /\ config'.backend # "vulkan") /\ ~AcceptedByCPU(max))
      BY <1>2, <3>1 DEF NewCorrelator
    <3>2. CASE ~(config'.failed \/ ((~config'.deviceSet /\ config'.backend # "vulkan") /\ ~AcceptedByCPU(max)))
      BY <1>2, <3>2 DEF NewCorrelator
    <3> QED BY <3>1, <3>2
  <2>2. pc = "start" /\ backend' \in {"cpu", "none"} /\ UNCHANGED <<recorder, err, calls>>
    BY <1>2 DEF NewCorrelator, callVars
  <2> QED BY <2>1, <2>2
<1>3. CASE OpenNext
  <2>1. pc = "opening" /\ pc' \in {"opening", "creating", "refused"} /\ UNCHANGED <<backend, recorder, err, calls>>
    BY <1>3 DEF OpenNext, callVars
  <2> QED BY <2>1
<1>4. CASE OpenFails \/ CreateFails
  <2>1. /\ pc \in {"opening", "creating", "refused"} /\ pc' \in {"ready", "failed"}
        /\ backend' \in {"cpu", backend} /\ UNCHANGED <<recorder, err, calls>>
    BY <1>4 DEF OpenFails, CreateFails, GiveUp, callVars
  <2> QED BY <2>1
<1>5. CASE CreateNext
  <2>1. /\ pc = "creating" /\ pc' \in {"creating", "ready"}
        /\ backend' \in {"vulkan", backend} /\ UNCHANGED <<recorder, err, calls>>
    BY <1>5 DEF CreateNext
  <2> QED BY <2>1
<1>6. ASSUME NEW sizes \in CallSizes \X CallSizes, RejectCall(sizes)
      PROVE  StatusInv'
  <2>1. UNCHANGED <<pc, backend, recorder, err>> /\ calls' = calls + 1 /\ calls < MaxCalls
    BY <1>6 DEF RejectCall, callVars
  <2> QED BY <2>1, LimitsAssumption DEF LimitsAssumption
<1>7. ASSUME NEW sizes \in CallSizes \X CallSizes, NEW images \in ImagePairs, BeginCall(images, sizes)
      PROVE  StatusInv'
  <2>1. /\ pc = "ready" /\ calls' = calls + 1 /\ calls < MaxCalls /\ UNCHANGED <<backend, err>>
        /\ (pc' = "decoding" /\ recorder' = recorder) \/ (pc' = "recording" /\ recorder' = TRUE)
    BY <1>7 DEF BeginCall, AcceptsCall
  <2>2. calls' \in 0..MaxCalls
    BY <2>1, LimitsAssumption DEF LimitsAssumption
  <2> QED BY <2>1, <2>2
<1>8. CASE RecordNext \/ RecordFails
  BY <1>8 DEF RecordNext, RecordFails
<1>9. CASE RecordReturnsError
  BY <1>9 DEF RecordReturnsError, ReturnError
<1>10. ASSUME NEW result \in {"done", "unread", "refused", "lost"}, SubmitAndWait(result)
       PROVE  StatusInv'
  <2>1. CASE result = "done"
    BY <1>10, <2>1 DEF SubmitAndWait
  <2>2. CASE result # "done"
    <3>1. \E done : ReturnError(done)
      BY <1>10, <2>2 DEF SubmitAndWait
    <3> QED BY <3>1 DEF ReturnError
  <2> QED BY <2>1, <2>2
<1>11. ASSUME NEW n \in Numbers, Decode(n)
       PROVE  StatusInv'
  BY <1>11 DEF Decode
<1>12. CASE Return
  BY <1>12 DEF Return
<1>13. CASE Close
  BY <1>13 DEF Close, callVars
<1>14. CASE CloseLentDevice
  BY <1>14 DEF CloseLentDevice, callVars
<1> QED BY <1>1, <1>2, <1>3, <1>4, <1>5, <1>6, <1>7, <1>8, <1>9, <1>10, <1>11, <1>12, <1>13, <1>14 DEF Next

----------------------------------------------------------------------------
\* Only accepted sizes get as far as a Vulkan correlator, or its recorder.
SizesInv ==
    /\ max \in MaxSizes
    /\ pc = "creating" \/ backend = "vulkan" => max \in AcceptedMax
    /\ pc = "recording" => backend = "vulkan" /\ call.size \in AcceptedSizes

LEMMA SizesInit == Init => SizesInv
BY DEF Init, SizesInv

LEMMA SizesStep == DeviceInv /\ SizesInv /\ [Next]_vars => SizesInv'
<1> SUFFICES ASSUME DeviceInv, SizesInv, [Next]_vars
             PROVE  SizesInv'
  OBVIOUS
<1> USE DEF SizesInv
<1>0. /\ pc \in {"start", "opening", "refused", "creating", "failed"} => backend = "none"
      /\ pc \in {"ready", "recording", "decoding", "returning"} => backend \in {"cpu", "vulkan"}
  BY DEF DeviceInv, OwnsWhatItUses
<1>1. CASE UNCHANGED vars
  BY <1>1 DEF vars, callVars
<1>2. ASSUME AcceptedByVulkan(max)
      PROVE  max \in AcceptedMax
  BY <1>2 DEF AcceptedByVulkan, AcceptedMax
<1>3. ASSUME NEW options \in OptionLists, NewCorrelator(options)
      PROVE  SizesInv'
  <2>1. pc' = "creating" => AcceptedByVulkan(max)
    <3>1. CASE config'.failed \/ ((~config'.deviceSet /\ config'.backend # "vulkan") /\ ~AcceptedByCPU(max))
      BY <1>3, <3>1 DEF NewCorrelator
    <3>2. CASE ~(config'.failed \/ ((~config'.deviceSet /\ config'.backend # "vulkan") /\ ~AcceptedByCPU(max)))
      BY <1>3, <3>2 DEF NewCorrelator
    <3> QED BY <3>1, <3>2
  <2>2. pc' # "recording"
    <3>1. CASE config'.failed \/ ((~config'.deviceSet /\ config'.backend # "vulkan") /\ ~AcceptedByCPU(max))
      BY <1>3, <3>1 DEF NewCorrelator
    <3>2. CASE ~(config'.failed \/ ((~config'.deviceSet /\ config'.backend # "vulkan") /\ ~AcceptedByCPU(max)))
      BY <1>3, <3>2 DEF NewCorrelator
    <3> QED BY <3>1, <3>2
  <2>3. backend' \in {"cpu", "none"} /\ max' = max
    BY <1>3 DEF NewCorrelator
  <2> QED BY <1>2, <2>1, <2>2, <2>3
<1>4. CASE OpenNext
  <2>1. /\ pc = "opening" /\ UNCHANGED <<max, backend>>
        /\ pc' \in {"opening", "refused"} \/ (pc' = "creating" /\ AcceptedByVulkan(max))
    BY <1>4 DEF OpenNext
  <2> QED BY <1>0, <1>2, <2>1
<1>5. CASE OpenFails \/ CreateFails
  <2>1. /\ pc \in {"opening", "creating", "refused"} /\ pc' \in {"ready", "failed"}
        /\ backend' \in {"cpu", backend} /\ UNCHANGED max
    BY <1>5 DEF OpenFails, CreateFails, GiveUp
  <2> QED BY <1>0, <2>1
<1>6. CASE CreateNext
  <2>1. pc = "creating" /\ pc' \in {"creating", "ready"} /\ UNCHANGED max
    BY <1>6 DEF CreateNext
  <2> QED BY <2>1
<1>7. ASSUME NEW sizes \in CallSizes \X CallSizes, RejectCall(sizes)
      PROVE  SizesInv'
  BY <1>7 DEF RejectCall, callVars
<1>8. ASSUME NEW sizes \in CallSizes \X CallSizes, NEW images \in ImagePairs, BeginCall(images, sizes)
      PROVE  SizesInv'
  <2>1. /\ pc = "ready" /\ AtLeastTwo(sizes[1]) /\ sizes[1].w <= max.w /\ sizes[1].h <= max.h
        /\ call'.size = sizes[1] /\ UNCHANGED <<max, backend>>
        /\ pc' = "decoding" \/ (pc' = "recording" /\ backend # "cpu")
    BY <1>8 DEF BeginCall, AcceptsCall
  <2>2. sizes[1] \in CallSizes
    OBVIOUS
  <2>3. max \in AcceptedMax => sizes[1] \in AcceptedSizes
    BY <2>1, <2>2 DEF AcceptedSizes
  <2> QED BY <1>0, <2>1, <2>3
<1>9. CASE RecordNext \/ RecordFails
  BY <1>9 DEF RecordNext, RecordFails
<1>10. CASE RecordReturnsError
  BY <1>10 DEF RecordReturnsError, ReturnError
<1>11. ASSUME NEW result \in {"done", "unread", "refused", "lost"}, SubmitAndWait(result)
       PROVE  SizesInv'
  <2>1. CASE result = "done"
    BY <1>11, <2>1 DEF SubmitAndWait
  <2>2. CASE result # "done"
    <3>1. \E done : ReturnError(done)
      BY <1>11, <2>2 DEF SubmitAndWait
    <3> QED BY <3>1 DEF ReturnError
  <2> QED BY <2>1, <2>2
<1>12. ASSUME NEW n \in Numbers, Decode(n)
       PROVE  SizesInv'
  BY <1>12 DEF Decode
<1>13. CASE Return
  BY <1>13 DEF Return
<1>14. CASE Close
  BY <1>14 DEF Close
<1>15. CASE CloseLentDevice
  BY <1>15 DEF CloseLentDevice, callVars
<1> QED BY <1>1, <1>3, <1>4, <1>5, <1>6, <1>7, <1>8, <1>9, <1>10, <1>11, <1>12, <1>13, <1>14, <1>15 DEF Next

----------------------------------------------------------------------------
\* What a recorder of an accepted call works through.
LEMMA ScheduleTypes ==
    ASSUME NEW s \in AcceptedSizes, NEW m \in AcceptedMax
    PROVE  /\ ScheduleAt[s][PadOf(m)] = Schedule(s, PadOf(m))
           /\ ScheduleOf(ScheduleAt[s][PadOf(m)], s, PadOf(m))
           /\ Len(ScheduleAt[s][PadOf(m)]) \in Nat
           /\ RacesAt[s][PadOf(m)] = {}
<1> DEFINE pads == {PadOf(x) : x \in AcceptedMax}
           pad == PadOf(m)
           cs == Schedule(s, pad)
<1>1. pad \in pads
  OBVIOUS
<1>2. ScheduleAt[s][pad] = cs
  BY <1>1 DEF ScheduleAt
<1>3. RacesAt[s][pad] = Races(Parts(s, pad))
  BY <1>1 DEF RacesAt
<1> HIDE DEF pad, pads
<1>4. ScheduleOf(cs, s, pad)
  BY SchedulesAre
<1> HIDE DEF cs
<1>5. Len(cs) \in Nat
  BY <1>4 DEF ScheduleOf
<1>6. RacesAt[s][pad] = {}
  BY <1>3, CallsAreOrdered
<1> QED BY <1>2, <1>4, <1>5, <1>6 DEF cs, pad

\* A creation or a recording is somewhere on its way, and an error that was not reported
\* yet is found by a call that is still to come: the download reports errors.
PlaceInv ==
    /\ pc = "creating" => at \in Nat /\ at < Len(CreationOrder)
    /\ pc = "recording" => at \in 0..Len(MySchedule)
    /\ pc \notin {"creating", "recording"} => at = 0
    /\ err => pc = "recording" /\ at < Len(MySchedule)

LEMMA PlaceInit == Init => PlaceInv
BY DEF Init, PlaceInv

LEMMA PlaceStep == StatusInv /\ SizesInv /\ SizesInv' /\ PlaceInv /\ [Next]_vars => PlaceInv'
<1> SUFFICES ASSUME StatusInv, SizesInv, SizesInv', PlaceInv, [Next]_vars
             PROVE  PlaceInv'
  OBVIOUS
<1> USE DEF PlaceInv
<1>0. Len(CreationOrder) \in Nat /\ Len(CreationOrder) > 0
  BY CreationOrderIs
<1>1. CASE UNCHANGED vars
  BY <1>1 DEF vars, callVars, MySchedule
<1>2. ASSUME NEW options \in OptionLists, NewCorrelator(options)
      PROVE  PlaceInv'
  <2>1. pc' # "recording"
    <3>1. CASE config'.failed \/ ((~config'.deviceSet /\ config'.backend # "vulkan") /\ ~AcceptedByCPU(max))
      BY <1>2, <3>1 DEF NewCorrelator
    <3>2. CASE ~(config'.failed \/ ((~config'.deviceSet /\ config'.backend # "vulkan") /\ ~AcceptedByCPU(max)))
      BY <1>2, <3>2 DEF NewCorrelator
    <3> QED BY <3>1, <3>2
  <2>2. pc = "start" /\ at' = at /\ err' = err
    BY <1>2 DEF NewCorrelator, callVars
  <2> QED BY <1>0, <2>1, <2>2
<1>3. CASE OpenNext
  <2>1. pc = "opening" /\ pc' # "recording" /\ at' = at /\ err' = err
    BY <1>3 DEF OpenNext, callVars
  <2> QED BY <1>0, <2>1
<1>4. CASE OpenFails \/ CreateFails
  <2>1. /\ pc \in {"opening", "creating", "refused"} /\ pc' \in {"ready", "failed"}
        /\ at' \in {at, 0} /\ (pc # "opening" => at' = 0) /\ err' = err
    BY <1>4 DEF OpenFails, CreateFails, GiveUp, callVars
  <2> QED BY <2>1
<1>5. CASE CreateNext
  <2>1. /\ pc = "creating" /\ err' = err
        /\ \/ at + 1 < Len(CreationOrder) /\ at' = at + 1 /\ pc' = pc
           \/ at' = 0 /\ pc' = "ready"
    BY <1>5 DEF CreateNext
  <2> QED BY <1>0, <2>1
<1>6. ASSUME NEW sizes \in CallSizes \X CallSizes, RejectCall(sizes)
      PROVE  PlaceInv'
  <2>1. UNCHANGED <<pc, at, err, call, max>>
    BY <1>6 DEF RejectCall, callVars
  <2> QED BY <2>1 DEF MySchedule
<1>7. ASSUME NEW sizes \in CallSizes \X CallSizes, NEW images \in ImagePairs, BeginCall(images, sizes)
      PROVE  PlaceInv'
  <2>1. pc = "ready" /\ at' = 0 /\ pc' \in {"decoding", "recording"} /\ err' = err
    BY <1>7 DEF BeginCall, AcceptsCall
  <2>2. CASE pc' = "recording"
    <3>1. call'.size \in AcceptedSizes /\ max' \in AcceptedMax
      BY <2>2 DEF SizesInv
    <3>2. Len(ScheduleAt[call'.size][PadOf(max')]) \in Nat
      BY <3>1, ScheduleTypes
    <3> QED BY <2>1, <2>2, <3>2 DEF MySchedule
  <2> QED BY <2>1, <2>2
<1>8. ASSUME pc = "recording", at < Len(MySchedule), UNCHANGED <<pc, max, call>>, at' = at + 1,
             err' => ~ReportsErrors(MySchedule[at + 1])
      PROVE  PlaceInv'
  <2>1. call.size \in AcceptedSizes /\ max \in AcceptedMax
    BY <1>8 DEF SizesInv
  <2> DEFINE n == Len(MySchedule)
  <2>2. ScheduleOf(MySchedule, call.size, PadOf(max)) /\ n \in Nat
    BY <2>1, ScheduleTypes DEF MySchedule
  <2>3. MySchedule' = MySchedule
    BY <1>8 DEF MySchedule
  <2>4. MySchedule[n] = Download
    BY <2>2 DEF ScheduleOf
  <2>5. ReportsErrors(Download)
    BY DEF ReportsErrors, Download
  <2>6. err' => at + 1 # n
    BY <1>8, <2>4, <2>5
  <2>7. n = Len(MySchedule)
    OBVIOUS
  <2> HIDE DEF n
  <2>8. at \in 0..n /\ at < n
    BY <1>8, <2>7
  <2>9. at' \in 0..n /\ (err' => at' < n)
    BY <1>8, <2>2, <2>6, <2>8
  <2>10. n = Len(MySchedule')
    BY <2>3, <2>7
  <2> QED BY <1>8, <2>9, <2>10
<1>9. CASE RecordNext
  BY <1>8, <1>9 DEF RecordNext
<1>10. CASE RecordFails
  BY <1>8, <1>10 DEF RecordFails
<1>11. ASSUME \E done : ReturnError(done)
       PROVE  PlaceInv'
  BY <1>11 DEF ReturnError
<1>12. CASE RecordReturnsError
  BY <1>11, <1>12 DEF RecordReturnsError
<1>13. ASSUME NEW result \in {"done", "unread", "refused", "lost"}, SubmitAndWait(result)
       PROVE  PlaceInv'
  <2>1. CASE result = "done"
    <3>1. at = Len(MySchedule) /\ pc = "recording" /\ pc' = "decoding" /\ at' = 0 /\ err' = err
      BY <1>13, <2>1 DEF SubmitAndWait
    <3>2. ~err
      BY <3>1
    <3> QED BY <3>1, <3>2
  <2>2. CASE result # "done"
    <3>1. \E done : ReturnError(done)
      BY <1>13, <2>2 DEF SubmitAndWait
    <3> QED BY <1>11, <3>1
  <2> QED BY <2>1, <2>2
<1>14. ASSUME NEW n \in Numbers, Decode(n)
       PROVE  PlaceInv'
  BY <1>14 DEF Decode
<1>15. CASE Return
  BY <1>15 DEF Return
<1>16. CASE Close
  BY <1>16 DEF Close, callVars
<1>17. CASE CloseLentDevice
  BY <1>17 DEF CloseLentDevice, callVars
<1> QED BY <1>1, <1>2, <1>3, <1>4, <1>5, <1>6, <1>7, <1>9, <1>10, <1>12, <1>13, <1>14, <1>15, <1>16, <1>17 DEF Next

----------------------------------------------------------------------------
\* vulki.Open has opened the first objects in their order.
NativeInv ==
    /\ natives \in [Devices -> SUBSET Range(NativeOrder)]
    /\ pc = "opening" => natives["own"] \in {{}, {"loader"}, {"loader", "instance"}, Range(NativeOrder)}

LEMMA NativesInOrder ==
    /\ Len(NativeOrder) = 3
    /\ NativeOrder[1] = "loader" /\ NativeOrder[2] = "instance" /\ NativeOrder[3] = "device"
    /\ Range(NativeOrder) = {"loader", "instance", "device"}
<1>1. /\ NativeOrder = <<"loader", "instance", "device">> /\ DOMAIN NativeOrder = 1..3
      /\ 1..3 = {1, 2, 3}
  BY DEF NativeOrder
<1>2. /\ Len(NativeOrder) = 3
      /\ NativeOrder[1] = "loader" /\ NativeOrder[2] = "instance" /\ NativeOrder[3] = "device"
  BY <1>1
<1>3. Range(NativeOrder) = {NativeOrder[k] : k \in {1, 2, 3}}
  BY <1>1 DEF Range
<1> QED BY <1>2, <1>3

\* OpenNext opens what comes next.
LEMMA OpenedNext ==
    ASSUME NEW opened \in {{}, {"loader"}, {"loader", "instance"}}
    PROVE  LET more == opened \cup {NativeOrder[Cardinality(opened) + 1]}
           IN  /\ more \subseteq Range(NativeOrder)
               /\ more \in {{"loader"}, {"loader", "instance"}, Range(NativeOrder)}
<1>1. Cardinality({}) = 0
  BY FS_EmptySet
<1>2. IsFiniteSet({"loader"}) /\ Cardinality({"loader"}) = 1
  BY FS_Singleton
<1>3. IsFiniteSet({"loader"} \cup {"instance"}) /\ Cardinality({"loader"} \cup {"instance"}) = 2
  BY <1>2, FS_AddElement
<1>4. {"loader"} \cup {"instance"} = {"loader", "instance"}
  OBVIOUS
<1>5. {"loader", "instance"} \cup {"device"} = Range(NativeOrder)
  BY NativesInOrder
<1>6. CASE opened = {}
  BY <1>1, <1>6, NativesInOrder
<1>7. CASE opened = {"loader"}
  BY <1>2, <1>7, NativesInOrder
<1>8. CASE opened = {"loader", "instance"}
  BY <1>3, <1>4, <1>5, <1>8, NativesInOrder
<1> QED BY <1>6, <1>7, <1>8

LEMMA NativeInit == Init => NativeInv
BY DEF Init, NativeInv, Devices

LEMMA NativeStep == DeviceInv /\ NativeInv /\ [Next]_vars => NativeInv'
<1> SUFFICES ASSUME DeviceInv, NativeInv, [Next]_vars
             PROVE  NativeInv'
  OBVIOUS
<1> USE DEF NativeInv
<1>1. CASE UNCHANGED vars
  BY <1>1 DEF vars, deviceVars
<1>2. ASSUME NEW options \in OptionLists, NewCorrelator(options)
      PROVE  NativeInv'
  <2>1. pc = "start" /\ UNCHANGED natives
    BY <1>2 DEF NewCorrelator, deviceVars
  <2>2. natives["own"] = {}
    BY <2>1 DEF DeviceInv, OwnsWhatItUses
  <2> QED BY <2>1, <2>2
<1>3. CASE OpenNext
  <2> DEFINE more == natives["own"] \cup {NativeOrder[Cardinality(natives["own"]) + 1]}
  <2>1. /\ pc = "opening"
        /\ \/ natives["own"] # Range(NativeOrder) /\ natives' = [natives EXCEPT !["own"] = more]
           \/ natives' = natives /\ pc' \in {"creating", "refused"}
    BY <1>3 DEF OpenNext, IsOpen
  <2>2. CASE natives["own"] # Range(NativeOrder) /\ natives' = [natives EXCEPT !["own"] = more]
    <3>1. natives["own"] \in {{}, {"loader"}, {"loader", "instance"}}
      BY <2>1, <2>2
    <3>2. more \subseteq Range(NativeOrder) /\ more \in {{"loader"}, {"loader", "instance"}, Range(NativeOrder)}
      BY <3>1, OpenedNext
    <3> HIDE DEF more
    <3>3. natives'["own"] = more
      BY <2>2 DEF Devices
    <3>4. natives' \in [Devices -> SUBSET Range(NativeOrder)]
      BY <2>2, <3>2 DEF Devices
    <3> QED BY <3>2, <3>3, <3>4
  <2>3. CASE natives' = natives /\ pc' \in {"creating", "refused"}
    BY <2>3
  <2> QED BY <2>1, <2>2, <2>3
<1>4. CASE OpenFails \/ CreateFails
  <2>1. pc' \in {"ready", "failed"}
    BY <1>4 DEF OpenFails, CreateFails, GiveUp
  <2>2. natives' = natives \/ natives' = [natives EXCEPT !["own"] = {}]
    BY <1>4 DEF OpenFails, CreateFails, DeviceClosed
  <2> QED BY <2>1, <2>2 DEF Devices
<1>5. CASE CreateNext
  BY <1>5 DEF CreateNext
<1>6. CASE (\E sizes \in CallSizes \X CallSizes :
              RejectCall(sizes) \/ \E images \in ImagePairs : BeginCall(images, sizes))
           \/ RecordNext \/ RecordFails \/ RecordReturnsError
           \/ (\E result \in {"done", "unread", "refused", "lost"} : SubmitAndWait(result))
           \/ (\E n \in Numbers : Decode(n))
           \/ Return
  <2>1. UNCHANGED natives /\ DeviceInv'
    BY <1>6, CallSteps
  <2>2. pc' = "opening" => pc = "opening"
    <3>1. CASE \E sizes \in CallSizes \X CallSizes :
                  RejectCall(sizes) \/ \E images \in ImagePairs : BeginCall(images, sizes)
      BY <3>1 DEF RejectCall, BeginCall
    <3>2. CASE RecordNext \/ RecordFails \/ RecordReturnsError
      BY <3>2 DEF RecordNext, RecordFails, RecordReturnsError, ReturnError
    <3>3. CASE \E result \in {"done", "unread", "refused", "lost"} : SubmitAndWait(result)
      BY <3>3 DEF SubmitAndWait, ReturnError
    <3>4. CASE (\E n \in Numbers : Decode(n)) \/ Return
      BY <3>4 DEF Decode, Return
    <3> QED BY <1>6, <3>1, <3>2, <3>3, <3>4
  <2> QED BY <2>1, <2>2
<1>7. CASE Close
  <2>1. pc' = "closed" /\ (natives' = natives \/ natives' = [natives EXCEPT ![MyDevice] = {}])
    BY <1>7 DEF Close, DeviceClosed
  <2> QED BY <2>1, MyDeviceIs DEF Devices
<1>8. CASE CloseLentDevice
  <2>1. pc' = pc /\ natives' = [natives EXCEPT !["borrowed"] = {}]
    BY <1>8 DEF CloseLentDevice, DeviceClosed
  <2> QED BY <2>1 DEF Devices
<1> QED BY <1>1, <1>2, <1>3, <1>4, <1>5, <1>6, <1>7, <1>8 DEF Next

----------------------------------------------------------------------------
\* A recorder keeps nothing in use but resources of the correlator.
LEMMA CallsKeep ==
    ASSUME NEW V, NEW G, NEW c \in Calls(V, G)
    PROVE  Keeps(c) \subseteq Handles
<1>1. \A b \in DeviceBuffers : BufferOf(b) \in Handles
  BY DEF Handles, Buffers
<1>2. /\ Params \in DeviceBuffers /\ Result \in DeviceBuffers
      /\ \A i \in {"A", "B"} : Rgba(i) \in DeviceBuffers
  BY BuffersAre
<1>3. ASSUME NEW i \in {"A", "B"}, c = Upload(i)
      PROVE  Keeps(c) \subseteq Handles
  <2>1. c.op = "upload" /\ c.buffer = Rgba(i)
    BY <1>3 DEF Upload
  <2>2. Keeps(c) = {BufferOf(Rgba(i))}
    BY <2>1 DEF Keeps
  <2> QED BY <1>1, <1>2, <2>2
<1>4. ASSUME NEW words, c = Update(words)
      PROVE  Keeps(c) \subseteq Handles
  <2>1. c.op = "update"
    BY <1>4 DEF Update
  <2>2. Keeps(c) = {BufferOf(Params)}
    BY <2>1 DEF Keeps
  <2> QED BY <1>1, <1>2, <2>2
<1>5. ASSUME NEW p, NEW g, c = Launch(p, g)
      PROVE  Keeps(c) \subseteq Handles
  <2>1. c.op = "launch"
    BY <1>5 DEF Launch
  <2>2. Keeps(c) = {SetOf(k) : k \in {k \in DOMAIN PipelineOrder : PipelineOrder[k] = c.pipeline}}
    BY <2>1 DEF Keeps
  <2>3. Keeps(c) \subseteq Sets
    BY <2>2 DEF Sets
  <2> QED BY <2>3 DEF Handles
<1>6. ASSUME NEW bs \in SUBSET DeviceBuffers, c = Barrier(bs)
      PROVE  Keeps(c) \subseteq Handles
  <2>1. c.op = "barrier" /\ c.buffers = bs
    BY <1>6 DEF Barrier
  <2>2. Keeps(c) = {BufferOf(b) : b \in bs}
    BY <2>1 DEF Keeps
  <2> QED BY <1>1, <2>2
<1>7. CASE c = Download
  <2>1. c.op = "download" /\ c.buffer = Result
    BY <1>7 DEF Download
  <2>2. Keeps(c) = {BufferOf(Result)}
    BY <2>1 DEF Keeps
  <2> QED BY <1>1, <1>2, <2>2
<1> QED BY <1>3, <1>4, <1>5, <1>6, <1>7 DEF Calls

LEMMA RecordedIsOurs ==
    ASSUME StatusInv, SizesInv, PlaceInv, pc = "recording"
    PROVE  Recorded \subseteq Handles
<1>1. call.size \in AcceptedSizes /\ max \in AcceptedMax
  BY DEF SizesInv
<1> DEFINE cs == MySchedule
           pad == PadOf(max)
<1>2. ScheduleOf(cs, call.size, pad) /\ Len(cs) \in Nat
  BY <1>1, ScheduleTypes DEF MySchedule
<1>3. at \in 0..Len(cs)
  BY DEF PlaceInv
<1>4. Recorded = UNION {Keeps(cs[k]) : k \in 1..at}
  BY DEF Recorded
<1> HIDE DEF cs, pad
<1>5. ASSUME NEW k \in 1..at
      PROVE  Keeps(cs[k]) \subseteq Handles
  <2>1. cs \in Seq(CallsOf(call.size, pad)) /\ k \in 1..Len(cs)
    BY <1>2, <1>3 DEF ScheduleOf
  <2>2. cs[k] \in CallsOf(call.size, pad)
    BY <2>1
  <2> QED BY <2>2, CallsKeep DEF CallsOf
<1> QED BY <1>4, <1>5

----------------------------------------------------------------------------
\* What is on a device are resources of the correlator; on a lent one only once it is
\* the correlator's.
ResourceInv ==
    /\ \A d \in Devices : live[d] \subseteq Handles /\ kept[d] \subseteq Handles
    /\ live["borrowed"] # {} => config.deviceSet /\ (pc = "creating" \/ backend = "vulkan")

LEMMA ResourceInit == Init => ResourceInv
BY DEF Init, ResourceInv, Devices

LEMMA ResourceCreationSteps ==
    ASSUME DeviceInv, StatusInv, PlaceInv, ResourceInv,
           (\E options \in OptionLists : NewCorrelator(options)) \/ OpenNext \/ OpenFails
              \/ CreateNext \/ CreateFails
    PROVE  ResourceInv'
<1> USE DEF ResourceInv
<1>0. pc \in {"start", "opening", "refused"} => live["borrowed"] = {}
  BY DEF DeviceInv, OwnsWhatItUses
<1>1. ASSUME NEW options \in OptionLists, NewCorrelator(options)
      PROVE  ResourceInv'
  <2>1. pc = "start" /\ UNCHANGED <<live, kept>>
    BY <1>1 DEF NewCorrelator, deviceVars
  <2> QED BY <1>0, <2>1
<1>2. CASE OpenNext \/ OpenFails
  <2>1. pc = "opening" /\ UNCHANGED <<live, kept>>
    BY <1>2 DEF OpenNext, OpenFails
  <2> QED BY <1>0, <2>1
<1>3. CASE CreateNext
  <2>1. /\ pc = "creating" /\ UNCHANGED <<config, kept>>
        /\ live' = [live EXCEPT ![MyDevice] = @ \cup {CreationOrder[at + 1]}]
        /\ (pc' = "creating" /\ backend' = backend) \/ (pc' = "ready" /\ backend' = "vulkan")
    BY <1>3 DEF CreateNext
  <2>2. CreationOrder[at + 1] \in Handles
    <3> DEFINE n == Len(CreationOrder)
    <3>1. CreationOrder \in Seq(Handles) /\ n \in Nat
      BY CreationOrderIs
    <3>2. at \in Nat /\ at < n
      BY <2>1 DEF PlaceInv
    <3>3. at + 1 \in 1..n
      BY <3>1, <3>2
    <3> QED BY <3>1, <3>3
  <2>3. CASE config.deviceSet
    <3>1. live' = [live EXCEPT !["borrowed"] = @ \cup {CreationOrder[at + 1]}]
      BY <2>1, <2>3, MyDeviceIs
    <3>2. /\ live'["borrowed"] = live["borrowed"] \cup {CreationOrder[at + 1]}
          /\ live'["own"] = live["own"]
      BY <3>1 DEF DeviceInv, DeviceTypes, Devices
    <3> QED BY <2>1, <2>2, <2>3, <3>2 DEF Devices
  <2>4. CASE ~config.deviceSet
    <3>1. live' = [live EXCEPT !["own"] = @ \cup {CreationOrder[at + 1]}]
      BY <2>1, <2>4, MyDeviceIs
    <3>2. /\ live'["own"] = live["own"] \cup {CreationOrder[at + 1]}
          /\ live'["borrowed"] = live["borrowed"]
      BY <3>1 DEF DeviceInv, DeviceTypes, Devices
    <3> QED BY <2>1, <2>2, <2>4, <3>2 DEF Devices
  <2> QED BY <2>3, <2>4
<1>4. CASE CreateFails
  <2>1. /\ pc' \in {"ready", "failed"} /\ UNCHANGED config
        /\ live' = [live EXCEPT ![MyDevice] = IF MyDevice = "own" THEN {} ELSE CloseCreated(@)]
        /\ kept' = kept \/ kept' = [kept EXCEPT !["own"] = {}]
    BY <1>4 DEF CreateFails, GiveUp, DeviceClosed
  <2>2. \A d \in Devices : kept'[d] \subseteq Handles
    BY <2>1 DEF DeviceInv, DeviceTypes, Devices
  <2>3. CASE config.deviceSet
    <3>1. live' = [live EXCEPT !["borrowed"] = LeftByClose(live["borrowed"], {})]
      BY <2>1, <2>3, MyDeviceIs DEF CloseCreated
    <3>2. live["borrowed"] \in SUBSET Handles
      BY DEF Devices
    <3>3. LeftByClose(live["borrowed"], {}) = {}
      BY <3>2, CloseLeavesNothing
    <3>4. live'["borrowed"] = {} /\ live'["own"] = live["own"]
      BY <3>1, <3>3 DEF DeviceInv, DeviceTypes, Devices
    <3> QED BY <2>1, <2>2, <3>4 DEF Devices
  <2>4. CASE ~config.deviceSet
    <3>1. live' = [live EXCEPT !["own"] = {}] /\ live["borrowed"] = {}
      BY <2>1, <2>4, MyDeviceIs
    <3>2. live'["own"] = {} /\ live'["borrowed"] = {}
      BY <3>1 DEF DeviceInv, DeviceTypes, Devices
    <3> QED BY <2>1, <2>2, <3>2 DEF Devices
  <2> QED BY <2>3, <2>4
<1> QED BY <1>1, <1>2, <1>3, <1>4

LEMMA ResourceCallSteps ==
    ASSUME DeviceInv, StatusInv, SizesInv, PlaceInv, ResourceInv,
           \/ \E sizes \in CallSizes \X CallSizes :
                 RejectCall(sizes) \/ \E images \in ImagePairs : BeginCall(images, sizes)
           \/ RecordNext \/ RecordFails \/ RecordReturnsError
           \/ \E result \in {"done", "unread", "refused", "lost"} : SubmitAndWait(result)
           \/ \E n \in Numbers : Decode(n)
           \/ Return
    PROVE  ResourceInv'
<1> USE DEF ResourceInv
<1>1. ASSUME NEW sizes, RejectCall(sizes)
      PROVE  ResourceInv'
  BY <1>1 DEF RejectCall, deviceVars
<1>2. ASSUME UNCHANGED <<config, live, kept, backend>>,
             pc \in {"ready", "recording", "decoding", "returning"},
             pc' \in {"ready", "recording", "decoding", "returning"}
      PROVE  ResourceInv'
  BY <1>2
<1>3. ASSUME NEW sizes, NEW images \in ImagePairs, BeginCall(images, sizes)
      PROVE  ResourceInv'
  <2>1. pc = "ready" /\ pc' \in {"decoding", "recording"} /\ UNCHANGED <<config, live, kept, backend>>
    BY <1>3 DEF BeginCall, AcceptsCall, deviceVars
  <2> QED BY <1>2, <2>1
<1>4. CASE RecordNext \/ RecordFails \/ RecordReturnsError
  <2>1. pc = "recording" /\ pc' \in {"recording", "ready"} /\ UNCHANGED <<config, live, kept, backend>>
    BY <1>4 DEF RecordNext, RecordFails, RecordReturnsError, ReturnError, deviceVars
  <2> QED BY <1>2, <2>1
<1>5. ASSUME NEW result \in {"done", "unread", "refused", "lost"}, SubmitAndWait(result)
      PROVE  ResourceInv'
  <2>1. pc = "recording" /\ pc' \in {"ready", "decoding"} /\ UNCHANGED <<config, live, backend>>
    BY <1>5 DEF SubmitAndWait, ReturnError, deviceVars
  <2>2. kept' = kept \/ kept' = [kept EXCEPT ![MyDevice] = Recorded]
    BY <1>5 DEF SubmitAndWait, ReturnError, deviceVars
  <2>3. Recorded \subseteq Handles
    BY <2>1, RecordedIsOurs
  <2>4. \A d \in Devices : kept'[d] \subseteq Handles
    BY <2>2, <2>3 DEF DeviceInv, DeviceTypes
  <2> QED BY <2>1, <2>4
<1>6. ASSUME NEW n, Decode(n) \/ Return
      PROVE  ResourceInv'
  <2>1. /\ pc \in {"decoding", "returning"} /\ pc' \in {"ready", "returning"}
        /\ UNCHANGED <<config, live, kept, backend>>
    BY <1>6 DEF Decode, Return, deviceVars
  <2> QED BY <1>2, <2>1
<1> QED BY <1>1, <1>3, <1>4, <1>5, <1>6

LEMMA ResourceClosingSteps ==
    ASSUME DeviceInv, StatusInv, ResourceInv, Close \/ CloseLentDevice
    PROVE  ResourceInv'
<1> USE DEF ResourceInv
<1>1. CASE Close
  <2>1. pc = "ready" /\ pc' = "closed" /\ UNCHANGED <<config, backend>> /\ backend \in {"cpu", "vulkan"}
    BY <1>1 DEF Close, DeviceInv, OwnsWhatItUses
  <2>2. CASE backend = "cpu"
    BY <1>1, <2>1, <2>2 DEF Close
  <2>3. CASE backend = "vulkan" /\ ~config.deviceSet
    <3>1. OwnsDevice /\ MyDevice = "own"
      BY <2>3, MyDeviceIs DEF OwnsDevice
    <3>2. live' = [live EXCEPT !["own"] = {}] /\ kept' = [kept EXCEPT !["own"] = {}]
      BY <1>1, <2>3, <3>1 DEF Close, ClosesDevice, DeviceClosed
    <3>3. live'["own"] = {} /\ live'["borrowed"] = {} /\ kept'["own"] = {} /\ kept'["borrowed"] = kept["borrowed"]
      BY <2>3, <3>2 DEF DeviceInv, DeviceTypes, Devices
    <3> QED BY <3>3 DEF Devices
  <2>4. CASE backend = "vulkan" /\ config.deviceSet
    <3>1. ~OwnsDevice /\ MyDevice = "borrowed"
      BY <2>4, MyDeviceIs DEF OwnsDevice
    <3>2. kept' = kept /\ live' = [live EXCEPT !["borrowed"] = LeftByClose(@, Retained("borrowed"))]
      BY <1>1, <2>4, <3>1 DEF Close, ClosesDevice
    <3>3. Retained("borrowed") = kept["borrowed"]
      BY <2>1 DEF StatusInv, Retained
    <3>4. live'["borrowed"] = LeftByClose(live["borrowed"], kept["borrowed"]) /\ live'["own"] = live["own"]
      BY <3>2, <3>3 DEF DeviceInv, DeviceTypes, Devices
    <3>5. live["borrowed"] \in SUBSET Handles
      BY DEF Devices
    <3>6. live'["borrowed"] \subseteq live["borrowed"]
      BY <3>4, CloseTakesNothingElse
    <3> QED BY <2>1, <2>4, <3>2, <3>4, <3>5, <3>6 DEF Devices
  <2> QED BY <2>1, <2>2, <2>3, <2>4
<1>2. CASE CloseLentDevice
  <2>1. /\ UNCHANGED <<pc, config, backend>>
        /\ live' = [live EXCEPT !["borrowed"] = {}] /\ kept' = [kept EXCEPT !["borrowed"] = {}]
    BY <1>2 DEF CloseLentDevice, DeviceClosed
  <2>2. live'["borrowed"] = {} /\ live'["own"] = live["own"] /\ kept'["borrowed"] = {} /\ kept'["own"] = kept["own"]
    BY <2>1 DEF DeviceInv, DeviceTypes, Devices
  <2> QED BY <2>1, <2>2 DEF Devices
<1> QED BY <1>1, <1>2

LEMMA ResourceStep ==
    DeviceInv /\ StatusInv /\ SizesInv /\ PlaceInv /\ ResourceInv /\ [Next]_vars => ResourceInv'
<1> SUFFICES ASSUME DeviceInv, StatusInv, SizesInv, PlaceInv, ResourceInv, [Next]_vars
             PROVE  ResourceInv'
  OBVIOUS
<1>1. CASE UNCHANGED vars
  BY <1>1 DEF vars, deviceVars, ResourceInv
<1> QED BY <1>1, ResourceCreationSteps, ResourceCallSteps, ResourceClosingSteps DEF Next

----------------------------------------------------------------------------
\* A lent device has what the correlator created there, until the program closes the device
\* or the correlator is closed; then just what a lost batch may still access.
LentInv ==
    /\ pc \in {"start", "opening", "refused", "creating", "failed"} => kept["borrowed"] = {}
    /\ ~config.deviceSet \/ backend = "cpu" => kept["borrowed"] = {}
    /\ pc = "creating" /\ config.deviceSet => live["borrowed"] = {CreationOrder[k] : k \in 1..at}
    /\ config.deviceSet /\ pc \in {"recording", "decoding", "returning"} /\ backend = "vulkan" =>
          live["borrowed"] = Handles
    /\ config.deviceSet /\ pc = "ready" /\ backend = "vulkan" =>
          \/ live["borrowed"] = Handles
          \/ live["borrowed"] = {} /\ kept["borrowed"] = {} /\ natives["borrowed"] = {}
    /\ pc = "closed" => live["borrowed"] = InUse(kept["borrowed"])

LEMMA NothingInUse == InUse({}) = {}
BY DEF InUse

LEMMA LentInit == Init => LentInv
BY DEF Init, LentInv, Devices

LEMMA LentCreationSteps ==
    ASSUME DeviceInv, PlaceInv, ResourceInv, LentInv,
           (\E options \in OptionLists : NewCorrelator(options)) \/ OpenNext \/ OpenFails
              \/ CreateNext \/ CreateFails
    PROVE  LentInv'
<1> USE DEF LentInv
<1>1. ASSUME NEW options \in OptionLists, NewCorrelator(options)
      PROVE  LentInv'
  <2>1. /\ pc = "start" /\ pc' \in {"failed", "creating", "ready", "opening"}
        /\ backend' = IF pc' = "ready" THEN "cpu" ELSE "none"
        /\ UNCHANGED <<live, kept, at>>
    BY <1>1 DEF NewCorrelator, deviceVars, callVars
  <2>2. live["borrowed"] = {} /\ at = 0
    BY <2>1 DEF DeviceInv, OwnsWhatItUses, ResourceInv, PlaceInv
  <2>3. {CreationOrder[k] : k \in 1..at'} = {}
    BY <2>1, <2>2
  <2> QED BY <2>1, <2>2, <2>3
<1>2. CASE OpenNext \/ OpenFails
  <2>1. /\ pc = "opening" /\ pc' \in {"opening", "creating", "refused", "ready", "failed"}
        /\ UNCHANGED <<config, live, kept>>
    BY <1>2 DEF OpenNext, OpenFails, GiveUp
  <2>2. ~config.deviceSet
    BY <2>1 DEF DeviceInv, OwnsWhatItUses
  <2> QED BY <2>1, <2>2
<1>3. CASE CreateNext
  <2> DEFINE n == Len(CreationOrder)
  <2>1. CreationOrder \in Seq(Handles) /\ n \in Nat /\ Handles = {CreationOrder[k] : k \in 1..n}
    BY CreationOrderIs DEF Range
  <2>2. /\ pc = "creating" /\ UNCHANGED <<config, kept>>
        /\ live' = [live EXCEPT ![MyDevice] = @ \cup {CreationOrder[at + 1]}]
        /\ \/ at + 1 < n /\ at' = at + 1 /\ pc' = "creating" /\ backend' = backend
           \/ ~(at + 1 < n) /\ pc' = "ready" /\ backend' = "vulkan"
    BY <1>3 DEF CreateNext
  <2>3. at \in Nat /\ at < n
    BY <2>2 DEF PlaceInv
  <2>4. kept["borrowed"] = {}
    BY <2>2
  <2>5. CASE ~config.deviceSet
    BY <2>2, <2>4, <2>5
  <2>6. CASE config.deviceSet
    <3>1. live' = [live EXCEPT !["borrowed"] = @ \cup {CreationOrder[at + 1]}]
      BY <2>2, <2>6, MyDeviceIs
    <3>2. live'["borrowed"] = live["borrowed"] \cup {CreationOrder[at + 1]}
      BY <3>1 DEF DeviceInv, DeviceTypes, Devices
    <3>3. 1..(at + 1) = (1..at) \cup {at + 1}
      BY <2>3
    <3>4. live'["borrowed"] = {CreationOrder[k] : k \in 1..(at + 1)}
      BY <2>2, <2>6, <3>2, <3>3
    <3>5. CASE at + 1 < n
      BY <2>2, <2>4, <2>6, <3>4, <3>5
    <3>6. CASE ~(at + 1 < n)
      <4>1. at + 1 = n
        BY <2>1, <2>3, <3>6
      <4>2. live'["borrowed"] = Handles
        BY <2>1, <3>4, <4>1
      <4> QED BY <2>2, <2>4, <2>6, <3>6, <4>2
    <3> QED BY <3>5, <3>6
  <2> QED BY <2>5, <2>6
<1>4. CASE CreateFails
  <2>1. pc \in {"creating", "refused"} /\ UNCHANGED config /\ GiveUp
    BY <1>4 DEF CreateFails
  <2>2. pc' = "failed" \/ (pc' = "ready" /\ backend' = "cpu")
    BY <2>1 DEF GiveUp
  <2>3. kept' = kept \/ kept' = [kept EXCEPT !["own"] = {}]
    BY <1>4 DEF CreateFails, DeviceClosed
  <2>4. kept'["borrowed"] = {}
    BY <2>1, <2>3 DEF DeviceInv, DeviceTypes, Devices
  <2> QED BY <2>1, <2>2, <2>4
<1> QED BY <1>1, <1>2, <1>3, <1>4

LEMMA LentCallSteps ==
    ASSUME DeviceInv, StatusInv, SizesInv, PlaceInv, LentInv,
           \/ \E sizes \in CallSizes \X CallSizes :
                 RejectCall(sizes) \/ \E images \in ImagePairs : BeginCall(images, sizes)
           \/ RecordNext \/ RecordFails \/ RecordReturnsError
           \/ \E result \in {"done", "unread", "refused", "lost"} : SubmitAndWait(result)
           \/ \E n \in Numbers : Decode(n)
           \/ Return
    PROVE  LentInv'
<1> USE DEF LentInv
<1>1. ASSUME NEW sizes, RejectCall(sizes)
      PROVE  LentInv'
  <2>1. UNCHANGED <<pc, config, natives, live, kept, backend>> /\ pc \in {"ready", "closed"}
    BY <1>1 DEF RejectCall, deviceVars
  <2> QED BY <2>1
<1>2. ASSUME UNCHANGED <<config, natives, live, kept, backend>>,
             pc \in {"recording", "decoding", "returning"},
             pc' \in {"ready", "recording", "decoding", "returning"}
      PROVE  LentInv'
  BY <1>2
<1>3. ASSUME NEW sizes, NEW images \in ImagePairs, BeginCall(images, sizes)
      PROVE  LentInv'
  <2>1. /\ pc = "ready" /\ pc' \in {"decoding", "recording"}
        /\ UNCHANGED <<config, natives, live, kept, backend>>
        /\ backend = "vulkan" => natives[MyDevice] = Range(NativeOrder)
    BY <1>3 DEF BeginCall, AcceptsCall, deviceVars, IsOpen
  <2>2. config.deviceSet /\ backend = "vulkan" => natives["borrowed"] # {}
    BY <2>1, MyDeviceIs, NativesInOrder
  <2> QED BY <2>1, <2>2
<1>4. CASE RecordNext \/ RecordFails \/ RecordReturnsError
  <2>1. /\ pc = "recording" /\ pc' \in {"recording", "ready"}
        /\ UNCHANGED <<config, natives, live, kept, backend>>
    BY <1>4 DEF RecordNext, RecordFails, RecordReturnsError, ReturnError, deviceVars
  <2> QED BY <1>2, <2>1
<1>5. ASSUME NEW result \in {"done", "unread", "refused", "lost"}, SubmitAndWait(result)
      PROVE  LentInv'
  <2>1. /\ pc = "recording" /\ pc' \in {"ready", "decoding"} /\ UNCHANGED <<config, natives, live, backend>>
        /\ kept' = kept \/ kept' = [kept EXCEPT ![MyDevice] = Recorded]
    BY <1>5 DEF SubmitAndWait, ReturnError, deviceVars
  <2>2. backend = "vulkan"
    BY <2>1 DEF SizesInv
  <2>3. ~config.deviceSet => kept'["borrowed"] = {}
    BY <2>1, MyDeviceIs DEF DeviceInv, DeviceTypes, Devices
  <2> QED BY <2>1, <2>2, <2>3
<1>6. ASSUME NEW n, Decode(n) \/ Return
      PROVE  LentInv'
  <2>1. /\ pc \in {"decoding", "returning"} /\ pc' \in {"ready", "returning"}
        /\ UNCHANGED <<config, natives, live, kept, backend>>
    BY <1>6 DEF Decode, Return, deviceVars
  <2> QED BY <1>2, <2>1
<1> QED BY <1>1, <1>3, <1>4, <1>5, <1>6

LEMMA LentClosingSteps ==
    ASSUME DeviceInv, StatusInv, ResourceInv, LentInv, Close \/ CloseLentDevice
    PROVE  LentInv'
<1> USE DEF LentInv
<1>1. CASE Close
  <2>1. pc = "ready" /\ pc' = "closed" /\ UNCHANGED <<config, backend>> /\ backend \in {"cpu", "vulkan"}
    BY <1>1 DEF Close, DeviceInv, OwnsWhatItUses
  <2>2. CASE backend = "cpu" \/ ~config.deviceSet
    <3>1. live["borrowed"] = {} /\ kept["borrowed"] = {}
      BY <2>1, <2>2 DEF ResourceInv
    <3>2. live'["borrowed"] = {} /\ kept'["borrowed"] = {}
      <4>1. CASE backend = "cpu"
        BY <1>1, <3>1, <4>1 DEF Close
      <4>2. CASE backend = "vulkan" /\ ~config.deviceSet
        <5>1. OwnsDevice /\ MyDevice = "own"
          BY <4>2, MyDeviceIs DEF OwnsDevice
        <5>2. live' = [live EXCEPT !["own"] = {}] /\ kept' = [kept EXCEPT !["own"] = {}]
          BY <1>1, <4>2, <5>1 DEF Close, ClosesDevice, DeviceClosed
        <5> QED BY <3>1, <5>2 DEF DeviceInv, DeviceTypes, Devices
      <4> QED BY <2>1, <2>2, <4>1, <4>2
    <3> QED BY <2>1, <2>2, <3>2, NothingInUse
  <2>3. CASE backend = "vulkan" /\ config.deviceSet
    <3>1. ~OwnsDevice /\ MyDevice = "borrowed"
      BY <2>3, MyDeviceIs DEF OwnsDevice
    <3>2. kept' = kept /\ live' = [live EXCEPT !["borrowed"] = LeftByClose(@, Retained("borrowed"))]
      BY <1>1, <2>3, <3>1 DEF Close, ClosesDevice
    <3>3. Retained("borrowed") = kept["borrowed"]
      BY <2>1 DEF StatusInv, Retained
    <3>4. live'["borrowed"] = LeftByClose(live["borrowed"], kept["borrowed"])
      BY <3>2, <3>3 DEF DeviceInv, DeviceTypes, Devices
    <3>5. live["borrowed"] \in SUBSET Handles /\ kept["borrowed"] \subseteq Handles
      BY DEF ResourceInv, Devices
    <3>6. InUse(kept["borrowed"]) \subseteq live["borrowed"]
      <4>1. InUse(kept["borrowed"]) \subseteq Handles
        BY <3>5, CreationOrderIs DEF InUse
      <4>2. live["borrowed"] = Handles \/ (live["borrowed"] = {} /\ kept["borrowed"] = {})
        BY <2>1, <2>3
      <4> QED BY <4>1, <4>2, NothingInUse
    <3>7. live'["borrowed"] = InUse(kept["borrowed"])
      BY <3>4, <3>5, <3>6, CloseLeavesWhatIsUsed, CloseLeavesNothingElse
    <3> QED BY <2>1, <2>3, <3>2, <3>7
  <2> QED BY <2>1, <2>2, <2>3
<1>2. CASE CloseLentDevice
  <2>1. /\ pc \in {"start", "ready", "failed", "closed"} /\ UNCHANGED <<pc, config, backend>>
        /\ natives' = [natives EXCEPT !["borrowed"] = {}]
        /\ live' = [live EXCEPT !["borrowed"] = {}] /\ kept' = [kept EXCEPT !["borrowed"] = {}]
    BY <1>2 DEF CloseLentDevice, DeviceClosed
  <2>2. natives'["borrowed"] = {} /\ live'["borrowed"] = {} /\ kept'["borrowed"] = {}
    BY <2>1 DEF DeviceInv, DeviceTypes, Devices
  <2> QED BY <2>1, <2>2, NothingInUse
<1> QED BY <1>1, <1>2

LEMMA LentStep ==
    DeviceInv /\ StatusInv /\ SizesInv /\ PlaceInv /\ ResourceInv /\ LentInv /\ [Next]_vars => LentInv'
<1> SUFFICES ASSUME DeviceInv, StatusInv, SizesInv, PlaceInv, ResourceInv, LentInv, [Next]_vars
             PROVE  LentInv'
  OBVIOUS
<1>1. CASE UNCHANGED vars
  BY <1>1 DEF vars, deviceVars, callVars, LentInv, InUse
<1> QED BY <1>1, LentCreationSteps, LentCallSteps, LentClosingSteps DEF Next

----------------------------------------------------------------------------
(* The theorems. *)

CorrelatorInv == StatusInv /\ SizesInv /\ PlaceInv /\ NativeInv /\ ResourceInv /\ LentInv

LEMMA CorrelatorInvariant == Spec => []CorrelatorInv
<1>1. Init => CorrelatorInv
  BY StatusInit, SizesInit, PlaceInit, NativeInit, ResourceInit, LentInit DEF CorrelatorInv
<1>2. DeviceInv /\ CorrelatorInv /\ [Next]_vars => CorrelatorInv'
  BY StatusStep, SizesStep, PlaceStep, NativeStep, ResourceStep, LentStep DEF CorrelatorInv
<1> QED BY <1>1, <1>2, DevicesInvariant, PTL DEF Spec

LEMMA VerdictInvariant == Spec => []VerdictInv
BY VerdictInit, VerdictStep, PTL DEF Spec

\* The correlator's state has its types: its devices open their objects, hold and keep
\* only the resources newVulkanCorrelator creates, a recorder is there exactly while a call
\* is recorded, and gpuRecorder.err is set in no other state (gpu.go:58-155).
THEOREM CorrelatorIsTyped == Spec => []TypeOK
<1>1. CorrelatorInv /\ VerdictInv => TypeOK
  <2> SUFFICES ASSUME StatusInv, PlaceInv, NativeInv, ResourceInv, VerdictInv
               PROVE  TypeOK
    BY DEF CorrelatorInv
  <2>1. /\ pc \in {"start", "opening", "refused", "creating", "ready", "recording", "decoding", "returning",
                   "failed", "closed"}
        /\ backend \in {"none", "cpu", "vulkan"}
        /\ recorder = (pc = "recording")
        /\ err \in BOOLEAN
        /\ calls \in 0..MaxCalls
    BY DEF StatusInv
  <2>2. err => recorder
    BY <2>1 DEF PlaceInv
  <2>3. \A d \in Devices : live[d] \subseteq Range(CreationOrder) /\ kept[d] \subseteq Range(CreationOrder)
    BY CreationOrderIs DEF ResourceInv
  <2>4. last.kind \in {"none", "first", "second", "lowConfidence", "nonFinite"}
    BY DEF VerdictInv, NoOutcome, VerdictCPU, VerdictVulkan, Best
  <2>5. natives \in [Devices -> SUBSET Range(NativeOrder)]
    BY DEF NativeInv
  <2> QED BY <2>1, <2>2, <2>3, <2>4, <2>5 DEF TypeOK
<1> QED BY <1>1, CorrelatorInvariant, VerdictInvariant, PTL

\* A NewCorrelator that fails or falls back leaves nothing on any device, and Close exactly
\* what a lost batch on a lent device may still access: as the binding sets are closed before
\* the kernels and buffers they refer to, no other Close of one refuses
\* (newVulkanCorrelator, Correlator.Close).
THEOREM NothingIsLeaked == Spec => []NothingLeaks
<1>1. CorrelatorInv /\ DeviceInv => NothingLeaks
  <2> SUFFICES ASSUME ResourceInv, LentInv, DeviceInv
               PROVE  NothingLeaks
    BY DEF CorrelatorInv
  <2>1. CreationLeavesNothing
    <3>1. ASSUME pc = "failed" \/ backend = "cpu"
          PROVE  natives["own"] = {} /\ live["own"] = {} /\ live["borrowed"] = {}
      BY <3>1 DEF DeviceInv, OwnsWhatItUses, ResourceInv
    <3> QED BY <3>1 DEF CreationLeavesNothing, Devices
  <2>2. CloseReleasesAll
    BY DEF CloseReleasesAll, LentInv, DeviceInv, OwnsWhatItUses
  <2> QED BY <2>1, <2>2 DEF NothingLeaks
<1> QED BY <1>1, CorrelatorInvariant, DevicesInvariant, PTL

\* No two commands of a call's batch that conflict may overlap on the device, for any size
\* of the images and any padding of the correlator (the calls of PhaseCorrelate,
\* correlate.go:546-857).
THEOREM PipelineIsOrdered == Spec => []PipelineOrdered
<1>1. CorrelatorInv => PipelineOrdered
  <2> SUFFICES ASSUME SizesInv, pc = "recording"
               PROVE  RacesAt[call.size][PadOf(max)] = {}
    BY DEF CorrelatorInv, PipelineOrdered
  <2>1. call.size \in AcceptedSizes /\ max \in AcceptedMax
    BY DEF SizesInv
  <2> QED BY <2>1, ScheduleTypes
<1> QED BY <1>1, CorrelatorInvariant, PTL

----------------------------------------------------------------------------
(* The contents after the batches that were executed. *)

Doubled(p, low) == IF p < low THEN 2 * p ELSE p

\* The doublings of nextPow2Checked.
DoublingTrace(F, low, n) ==
    /\ F[0] = 1
    /\ \A k \in 1..n : F[k] = Doubled(F[k - 1], low)
    /\ F[n] = NextPow2(low)

LEMMA DoublingFold ==
    ASSUME NEW low, NEW n \in Nat, n = MaxHalvings
    PROVE  \E F : DoublingTrace(F, low, n)
<1> DEFINE Rhs(g, s) == IF s = {} THEN 1 ELSE Doubled(g[s \ {Max(s)}], low)
           S == {k \in 0..n : \E g : g = [s \in SUBSET (1..k) |-> Rhs(g, s)]}
<1>1. 0 \in S
  <2> DEFINE g == [s \in SUBSET (1..0) |-> 1]
  <2>1. \A s \in SUBSET (1..0) : s = {}
    OBVIOUS
  <2>2. g = [s \in SUBSET (1..0) |-> Rhs(g, s)]
    BY <2>1
  <2> HIDE DEF g
  <2>3. \E f : f = [s \in SUBSET (1..0) |-> Rhs(f, s)]
    BY <2>2
  <2>4. 0 \in 0..n
    OBVIOUS
  <2> QED BY <2>3, <2>4
<1>2. ASSUME NEW k \in 1..n, k - 1 \in S
      PROVE  k \in S
  <2>1. PICK g : g = [s \in SUBSET (1..(k - 1)) |-> Rhs(g, s)]
    BY <1>2
  <2> DEFINE h == [s \in SUBSET (1..k) |-> IF k \in s THEN Doubled(g[s \ {k}], low) ELSE g[s]]
  <2>2. \A s \in SUBSET (1..(k - 1)) : g[s] = Rhs(g, s)
    BY <2>1
  <2>3. ASSUME NEW s \in SUBSET (1..k)
        PROVE  h[s] = Rhs(h, s)
    <3>1. CASE k \in s
      <4>1. Max(s) = k /\ s # {}
        BY <3>1, MaxOfInterval
      <4>2. s \ {k} \in SUBSET (1..k) /\ h[s \ {k}] = g[s \ {k}]
        OBVIOUS
      <4> QED BY <3>1, <4>1, <4>2
    <3>2. CASE k \notin s
      <4>1. s \in SUBSET (1..(k - 1)) /\ h[s] = g[s]
        BY <3>2
      <4>2. s \ {Max(s)} \in SUBSET (1..k) /\ h[s \ {Max(s)}] = g[s \ {Max(s)}]
        BY <3>2
      <4> QED BY <2>2, <4>1, <4>2
    <3> QED BY <3>1, <3>2
  <2>4. h = [s \in SUBSET (1..k) |-> Rhs(h, s)]
    BY <2>3
  <2> HIDE DEF h
  <2>5. \E f : f = [s \in SUBSET (1..k) |-> Rhs(f, s)]
    BY <2>4
  <2>6. k \in 0..n
    OBVIOUS
  <2> QED BY <2>5, <2>6
<1>3. n \in S
  <2> HIDE DEF S
  <2> QED BY <1>1, <1>2, SetInduction
<1>4. PICK g : /\ g = [s \in SUBSET (1..n) |-> Rhs(g, s)]
               /\ NextPow2(low) = g[1..n]
  <2> DEFINE iter == CHOOSE g : g = [s \in SUBSET (1..n) |-> Rhs(g, s)]
  <2>1. iter = [s \in SUBSET (1..n) |-> Rhs(iter, s)]
    <3>1. \E g : g = [s \in SUBSET (1..n) |-> Rhs(g, s)]
      BY <1>3
    <3> QED BY <3>1
  <2>2. NextPow2(low) = iter[1..n]
    BY DEF NextPow2, Doubled, FoldLeft, MapThenFoldSet
  <2> QED BY <2>1, <2>2
<1> DEFINE F == [k \in 0..n |-> g[1..k]]
<1>5. F[0] = 1
  <2>1. 1..0 = {}
    OBVIOUS
  <2> QED BY <1>4, <2>1
<1>6. ASSUME NEW k \in 1..n
      PROVE  F[k] = Doubled(F[k - 1], low)
  <2>1. Max(1..k) = k
    BY MaxOfInterval
  <2>2. (1..k) \ {k} = 1..(k - 1)
    OBVIOUS
  <2>3. 1..k # {} /\ 1..k \in SUBSET (1..n)
    <3>1. k \in 1..k
      OBVIOUS
    <3>2. \A j \in 1..k : j \in 1..n
      OBVIOUS
    <3> QED BY <3>1, <3>2
  <2>4. g[1..k] = Doubled(g[1..(k - 1)], low)
    BY <1>4, <2>1, <2>2, <2>3
  <2>5. F[k] = g[1..k] /\ F[k - 1] = g[1..(k - 1)]
    OBVIOUS
  <2> QED BY <2>4, <2>5
<1>7. F[n] = g[1..n]
  OBVIOUS
<1> HIDE DEF F
<1>8. DoublingTrace(F, low, n)
  BY <1>4, <1>5, <1>6, <1>7 DEF DoublingTrace
<1> QED BY <1>8

LEMMA PadIsInt == \A low : NextPow2(low) \in Int
<1> SUFFICES ASSUME NEW low
             PROVE  NextPow2(low) \in Int
  OBVIOUS
<1> DEFINE n == MaxHalvings
<1>1. n \in Nat
  BY DEF MaxHalvings
<1> HIDE DEF n
<1>2. PICK F : DoublingTrace(F, low, n)
  BY <1>1, DoublingFold DEF n
<1> DEFINE S == {k \in 0..n : F[k] \in Int}
<1>3. 0 \in S
  BY <1>1, <1>2 DEF DoublingTrace
<1>4. ASSUME NEW k \in 1..n, k - 1 \in S
      PROVE  k \in S
  BY <1>1, <1>2, <1>4 DEF DoublingTrace, Doubled
<1>5. n \in S
  <2> HIDE DEF S
  <2> QED BY <1>1, <1>3, <1>4, SetInduction
<1> QED BY <1>2, <1>5 DEF DoublingTrace

LEMMA NewIsMemory == IsMemory(NewBuffers)
<1>1. DeviceBuffers = Range(BufferOrder)
  BY DEF DeviceBuffers
<1>2. Params \in DeviceBuffers /\ Result \in DeviceBuffers /\ Params # Result
  BY SurfacesAre
<1>3. NewBuffers = [b \in DeviceBuffers |-> NewBuffers[b]]
  BY <1>1 DEF NewBuffers
<1>4. NewBuffers[Params] = [i \in 1..8 |-> 0] /\ NewBuffers[Result] = [i \in 1..ResultSlots |-> Undefined]
  BY <1>1, <1>2 DEF NewBuffers
<1> QED BY <1>3, <1>4 DEF IsMemory

\* The contents after the batches of calls.
ContentsAfter(cs, pad) ==
    FoldLeft(LAMBDA mem, c : Execute(mem, c.images, c.size, pad), NewBuffers, cs)

\* The contents from batch to batch.
ContentsTrace(F, cs, pad, n) ==
    /\ F[0] = NewBuffers
    /\ \A k \in 1..n : F[k] = Execute(F[k - 1], cs[k].images, cs[k].size, pad)
    /\ F[n] = ContentsAfter(cs, pad)

LEMMA ContentsFold ==
    ASSUME NEW cs, NEW pad, NEW n \in Nat, DOMAIN cs = 1..n
    PROVE  \E F : ContentsTrace(F, cs, pad, n)
<1> DEFINE Rhs(g, s) == IF s = {} THEN NewBuffers ELSE Execute(g[s \ {Max(s)}], cs[Max(s)].images, cs[Max(s)].size, pad)
           S == {k \in 0..n : \E g : g = [s \in SUBSET (1..k) |-> Rhs(g, s)]}
<1>1. 0 \in S
  <2> DEFINE g == [s \in SUBSET (1..0) |-> NewBuffers]
  <2>1. \A s \in SUBSET (1..0) : s = {}
    OBVIOUS
  <2>2. g = [s \in SUBSET (1..0) |-> Rhs(g, s)]
    BY <2>1
  <2> HIDE DEF g
  <2>3. \E f : f = [s \in SUBSET (1..0) |-> Rhs(f, s)]
    BY <2>2
  <2>4. 0 \in 0..n
    OBVIOUS
  <2> QED BY <2>3, <2>4
<1>2. ASSUME NEW k \in 1..n, k - 1 \in S
      PROVE  k \in S
  <2>1. PICK g : g = [s \in SUBSET (1..(k - 1)) |-> Rhs(g, s)]
    BY <1>2
  <2> DEFINE h == [s \in SUBSET (1..k) |-> IF k \in s THEN Execute(g[s \ {k}], cs[k].images, cs[k].size, pad) ELSE g[s]]
  <2>2. \A s \in SUBSET (1..(k - 1)) : g[s] = Rhs(g, s)
    BY <2>1
  <2>3. ASSUME NEW s \in SUBSET (1..k)
        PROVE  h[s] = Rhs(h, s)
    <3>1. CASE k \in s
      <4>1. Max(s) = k /\ s # {}
        BY <3>1, MaxOfInterval
      <4>2. s \ {k} \in SUBSET (1..k) /\ h[s \ {k}] = g[s \ {k}]
        OBVIOUS
      <4> QED BY <3>1, <4>1, <4>2
    <3>2. CASE k \notin s
      <4>1. s \in SUBSET (1..(k - 1)) /\ h[s] = g[s]
        BY <3>2
      <4>2. s \ {Max(s)} \in SUBSET (1..k) /\ h[s \ {Max(s)}] = g[s \ {Max(s)}]
        BY <3>2
      <4> QED BY <2>2, <4>1, <4>2
    <3> QED BY <3>1, <3>2
  <2>4. h = [s \in SUBSET (1..k) |-> Rhs(h, s)]
    BY <2>3
  <2> HIDE DEF h
  <2>5. \E f : f = [s \in SUBSET (1..k) |-> Rhs(f, s)]
    BY <2>4
  <2>6. k \in 0..n
    OBVIOUS
  <2> QED BY <2>5, <2>6
<1>3. n \in S
  <2> HIDE DEF S
  <2> QED BY <1>1, <1>2, SetInduction
<1>4. PICK g : /\ g = [s \in SUBSET (1..n) |-> Rhs(g, s)]
               /\ ContentsAfter(cs, pad) = g[1..n]
  <2> DEFINE iter == CHOOSE g : g = [s \in SUBSET (1..n) |-> Rhs(g, s)]
  <2>1. iter = [s \in SUBSET (1..n) |-> Rhs(iter, s)]
    <3>1. \E g : g = [s \in SUBSET (1..n) |-> Rhs(g, s)]
      BY <1>3
    <3> QED BY <3>1
  <2>2. ContentsAfter(cs, pad) = iter[1..n]
    BY DEF ContentsAfter, FoldLeft, MapThenFoldSet
  <2> QED BY <2>1, <2>2
<1> DEFINE F == [k \in 0..n |-> g[1..k]]
<1>5. F[0] = NewBuffers
  <2>1. 1..0 = {}
    OBVIOUS
  <2> QED BY <1>4, <2>1
<1>6. ASSUME NEW k \in 1..n
      PROVE  F[k] = Execute(F[k - 1], cs[k].images, cs[k].size, pad)
  <2>1. Max(1..k) = k
    BY MaxOfInterval
  <2>2. (1..k) \ {k} = 1..(k - 1)
    OBVIOUS
  <2>3. 1..k # {} /\ 1..k \in SUBSET (1..n)
    <3>1. k \in 1..k
      OBVIOUS
    <3>2. \A j \in 1..k : j \in 1..n
      OBVIOUS
    <3> QED BY <3>1, <3>2
  <2>4. g[1..k] = Execute(g[1..(k - 1)], cs[k].images, cs[k].size, pad)
    BY <1>4, <2>1, <2>2, <2>3
  <2>5. F[k] = g[1..k] /\ F[k - 1] = g[1..(k - 1)]
    OBVIOUS
  <2> QED BY <2>4, <2>5
<1>7. F[n] = g[1..n]
  OBVIOUS
<1> HIDE DEF F
<1>8. ContentsTrace(F, cs, pad, n)
  BY <1>4, <1>5, <1>6, <1>7 DEF ContentsTrace
<1> QED BY <1>8

\* Whatever the calls before it left, the last call's result is the reference's.
LEMMA LastCallAnswers ==
    ASSUME NEW S, NEW cs \in Seq(S), cs # << >>, NEW pad \in Int
    PROVE  LET c == cs[Len(cs)]
           IN  AnswerIs(ContentsAfter(cs, pad)[Result], c.images, c.size, pad)
<1> DEFINE n == Len(cs)
           images == cs[n].images
           size == cs[n].size
<1>1. n \in Nat /\ DOMAIN cs = 1..n /\ n \in 1..n
  OBVIOUS
<1>2. PICK F : ContentsTrace(F, cs, pad, n)
  BY <1>1, ContentsFold
<1> DEFINE M == {k \in 0..n : IsMemory(F[k])}
<1> HIDE DEF n, images, size
<1>3. 0 \in M
  BY <1>1, <1>2, NewIsMemory DEF ContentsTrace
<1>4. ASSUME NEW k \in 1..n, k - 1 \in M
      PROVE  k \in M
  <2> DEFINE mem == F[k - 1]
  <2>1. F[k] = Execute(mem, cs[k].images, cs[k].size, pad)
    BY <1>2 DEF ContentsTrace
  <2>2. IsMemory(mem)
    BY <1>4
  <2> HIDE DEF mem
  <2>3. IsMemory(Execute(mem, cs[k].images, cs[k].size, pad))
    BY <2>2, ExecutedResult DEF ResultIs
  <2>4. k \in 0..n
    BY <1>1
  <2> QED BY <2>1, <2>3, <2>4
<1>5. \A k \in 0..n : IsMemory(F[k])
  <2>1. 0..n \subseteq M
    <3> HIDE DEF M
    <3> QED BY <1>1, <1>3, <1>4, SetInduction
  <2> QED BY <2>1
<1> HIDE DEF M
<1> DEFINE mem == F[n - 1]
           new == F[n]
<1>6. IsMemory(mem) /\ new = Execute(mem, images, size, pad) /\ new = ContentsAfter(cs, pad)
  <2>1. n - 1 \in 0..n
    BY <1>1
  <2>2. F[n] = Execute(F[n - 1], cs[n].images, cs[n].size, pad)
    BY <1>1, <1>2 DEF ContentsTrace
  <2> QED BY <1>2, <1>5, <2>1, <2>2 DEF ContentsTrace, images, size
<1> HIDE DEF mem, new
<1>7. ResultIs(new, images, size, pad)
  BY <1>6, ExecutedResult
<1>8. AnswerIs(new[Result], images, size, pad)
  BY <1>7, ResultAnswers
<1> QED BY <1>6, <1>8 DEF n, images, size

\* The device executed whole calls, and the last of them is the one being decoded.
CallValues == {NoCall} \cup [images : ImagePairs, size : CallSizes]

ExecutedInv ==
    /\ call \in CallValues
    /\ executed \in Seq(CallValues)
    /\ pc = "decoding" /\ backend = "vulkan" => executed # << >> /\ executed[Len(executed)] = call

LEMMA ExecutedInit == Init => ExecutedInv
BY DEF Init, ExecutedInv, CallValues

LEMMA ExecutedStep == ExecutedInv /\ [Next]_vars => ExecutedInv'
<1> SUFFICES ASSUME ExecutedInv, [Next]_vars
             PROVE  ExecutedInv'
  OBVIOUS
<1> USE DEF ExecutedInv
<1>1. CASE UNCHANGED vars
  BY <1>1 DEF vars, callVars
<1>2. ASSUME UNCHANGED <<call, executed>>, pc' # "decoding"
      PROVE  ExecutedInv'
  BY <1>2
<1>3. ASSUME NEW options \in OptionLists, NewCorrelator(options)
      PROVE  ExecutedInv'
  <2>1. pc' # "decoding"
    <3>1. CASE config'.failed \/ ((~config'.deviceSet /\ config'.backend # "vulkan") /\ ~AcceptedByCPU(max))
      BY <1>3, <3>1 DEF NewCorrelator
    <3>2. CASE ~(config'.failed \/ ((~config'.deviceSet /\ config'.backend # "vulkan") /\ ~AcceptedByCPU(max)))
      BY <1>3, <3>2 DEF NewCorrelator
    <3> QED BY <3>1, <3>2
  <2> QED BY <1>2, <1>3, <2>1 DEF NewCorrelator, callVars
<1>4. CASE OpenNext
  BY <1>2, <1>4 DEF OpenNext, callVars
<1>5. CASE OpenFails \/ CreateFails
  <2>1. pc' \in {"ready", "failed"} /\ UNCHANGED <<call, executed>>
    BY <1>5 DEF OpenFails, CreateFails, GiveUp, callVars
  <2> QED BY <1>2, <2>1
<1>6. CASE CreateNext
  <2>1. pc = "creating" /\ pc' \in {"creating", "ready"} /\ UNCHANGED <<call, executed>>
    BY <1>6 DEF CreateNext
  <2> QED BY <1>2, <2>1
<1>7. ASSUME NEW sizes \in CallSizes \X CallSizes, RejectCall(sizes)
      PROVE  ExecutedInv'
  <2>1. pc' # "decoding" /\ UNCHANGED <<call, executed>>
    BY <1>7 DEF RejectCall, callVars
  <2> QED BY <1>2, <2>1
<1>8. ASSUME NEW sizes \in CallSizes \X CallSizes, NEW images \in ImagePairs, BeginCall(images, sizes)
      PROVE  ExecutedInv'
  <2>1. /\ call' = [images |-> images, size |-> sizes[1]] /\ UNCHANGED <<backend, executed>>
        /\ backend # "cpu" => pc' = "recording"
    BY <1>8 DEF BeginCall
  <2>2. call' \in CallValues
    BY <2>1 DEF CallValues
  <2> QED BY <2>1, <2>2
<1>9. CASE RecordNext \/ RecordFails
  <2>1. pc' # "decoding" /\ UNCHANGED <<call, executed>>
    BY <1>9 DEF RecordNext, RecordFails
  <2> QED BY <1>2, <2>1
<1>10. ASSUME NEW done \in {executed, Append(executed, call)}, ReturnError(done)
       PROVE  ExecutedInv'
  <2>1. call' = NoCall /\ executed' = done /\ pc' = "ready"
    BY <1>10 DEF ReturnError
  <2>2. done \in Seq(CallValues)
    OBVIOUS
  <2>3. NoCall \in CallValues
    BY DEF CallValues
  <2> QED BY <2>1, <2>2, <2>3
<1>11. CASE RecordReturnsError
  BY <1>10, <1>11 DEF RecordReturnsError
<1>12. ASSUME NEW result \in {"done", "unread", "refused", "lost"}, SubmitAndWait(result)
       PROVE  ExecutedInv'
  <2>1. CASE result = "done"
    <3>1. executed' = Append(executed, call) /\ UNCHANGED call
      BY <1>12, <2>1 DEF SubmitAndWait
    <3>2. /\ Append(executed, call) \in Seq(CallValues) /\ Append(executed, call) # << >>
          /\ Append(executed, call)[Len(Append(executed, call))] = call
      OBVIOUS
    <3> QED BY <3>1, <3>2
  <2>2. CASE result # "done"
    <3>1. ReturnError(executed) \/ ReturnError(Append(executed, call))
      BY <1>12, <2>2 DEF SubmitAndWait
    <3> QED BY <1>10, <3>1
  <2> QED BY <2>1, <2>2
<1>13. ASSUME NEW n \in Numbers, Decode(n)
       PROVE  ExecutedInv'
  BY <1>2, <1>13 DEF Decode
<1>14. CASE Return
  <2>1. NoCall \in CallValues
    BY DEF CallValues
  <2> QED BY <1>14, <2>1 DEF Return
<1>15. CASE Close
  BY <1>2, <1>15 DEF Close, callVars
<1>16. CASE CloseLentDevice
  BY <1>2, <1>16 DEF CloseLentDevice, callVars
<1> QED BY <1>1, <1>3, <1>4, <1>5, <1>6, <1>7, <1>8, <1>9, <1>11, <1>12, <1>13, <1>14, <1>15, <1>16 DEF Next

\* "The CPU path is the portability and correctness reference" (doc.go:17): for any images,
\* sizes and workgroup size, a call on Vulkan takes its numbers from the reference's
\* computation on its own images, whatever the calls before it left in the buffers.
THEOREM VulkanComputesTheReference == Spec => []AnswerIsReference
<1>1. ExecutedInv /\ CorrelatorInv => AnswerIsReference
  <2> SUFFICES ASSUME ExecutedInv, max \in MaxSizes, pc = "decoding", backend = "vulkan"
               PROVE  Answer(Contents[Result]) = PhaseCorrelateCPU(call.images, call.size, PadOf(max))
    BY DEF AnswerIsReference, CorrelatorInv, SizesInv
  <2> DEFINE pad == PadOf(max)
  <2>1. pad \in Int
    BY PadIsInt DEF PadOf, Pads
  <2>2. executed \in Seq(CallValues) /\ executed # << >> /\ executed[Len(executed)] = call
    BY DEF ExecutedInv
  <2>3. Contents = ContentsAfter(executed, pad)
    BY DEF Contents, ContentsAfter
  <2> HIDE DEF pad
  <2>4. AnswerIs(ContentsAfter(executed, pad)[Result], call.images, call.size, pad)
    BY <2>1, <2>2, LastCallAnswers
  <2> QED BY <2>3, <2>4 DEF AnswerIs, pad
<1> QED BY <1>1, ExecutedInit, ExecutedStep, CorrelatorInvariant, PTL DEF Spec

=============================================================================
