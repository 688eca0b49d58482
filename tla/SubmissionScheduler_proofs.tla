--------------------- MODULE SubmissionScheduler_proofs ---------------------
(***************************************************************************)
(* Theorems about SubmissionScheduler for every set of reservations,       *)
(* buffers and requests.                                                   *)
(***************************************************************************)
EXTENDS SubmissionScheduler, TLAPS

\* Taking r out of a queue without duplicates keeps the other entries, each once,
\* and never reverses two of them (removeSubmissionReservation).
LEMMA RemoveReservationKeepsOrder ==
    ASSUME NEW S, NEW queue \in Seq(S), IsInjective(queue), NEW r
    PROVE  LET left == RemoveReservation(queue, r)
           IN  /\ left \in Seq(S)
               /\ IsInjective(left)
               /\ Range(left) = Range(queue) \ {r}
               /\ \A p, q : Ahead(left, p, q) <=> p # r /\ q # r /\ Ahead(queue, p, q)
<1>1. CASE r \notin Range(queue)
  BY <1>1 DEF RemoveReservation, Range, Ahead
<1>2. CASE r \in Range(queue)
  <2> DEFINE at == CHOOSE i \in DOMAIN queue : queue[i] = r
             left == [i \in 1..(Len(queue) - 1) |-> IF i < at THEN queue[i] ELSE queue[i + 1]]
             old(i) == IF i < at THEN i ELSE i + 1
  <2>1. at \in 1..Len(queue) /\ queue[at] = r
    BY <1>2 DEF Range
  <2>2. RemoveReservation(queue, r) = left
    BY <1>2 DEF RemoveReservation
  <2> HIDE DEF at
  <2>3. left \in Seq(S) /\ DOMAIN left = 1..(Len(queue) - 1)
    BY <2>1
  <2>4. \A i \in DOMAIN left : /\ old(i) \in DOMAIN queue
                               /\ old(i) # at
                               /\ left[i] = queue[old(i)]
                               /\ left[i] # r
    BY <2>1, <2>3 DEF IsInjective
  <2>5. \A i, j \in DOMAIN left : i < j <=> old(i) < old(j)
    BY <2>1, <2>3
  <2>6. \A k \in DOMAIN queue : queue[k] # r => \E i \in DOMAIN left : k = old(i)
    <3> SUFFICES ASSUME NEW k \in DOMAIN queue, queue[k] # r
                 PROVE  \E i \in DOMAIN left : k = old(i)
      OBVIOUS
    <3>1. CASE k < at
      BY <3>1, <2>1, <2>3
    <3>2. CASE k > at
      <4>1. k - 1 \in DOMAIN left /\ k = old(k - 1)
        BY <3>2, <2>1, <2>3
      <4> QED
        BY <4>1
    <3> QED
      BY <3>1, <3>2, <2>1
  <2> HIDE DEF left, old
  <2>7. IsInjective(left)
    <3> SUFFICES ASSUME NEW i \in DOMAIN left, NEW j \in DOMAIN left, left[i] = left[j]
                 PROVE  i = j
      BY DEF IsInjective
    <3>1. old(i) = old(j)
      BY <2>4 DEF IsInjective
    <3> QED
      BY <3>1, <2>1, <2>3 DEF old
  <2>8. Range(left) = Range(queue) \ {r}
    BY <2>4, <2>6 DEF Range
  <2>9. \A p, q : Ahead(left, p, q) <=> p # r /\ q # r /\ Ahead(queue, p, q)
    BY <2>4, <2>5, <2>6 DEF Ahead
  <2> QED
    BY <2>2, <2>3, <2>7, <2>8, <2>9
<1> QED
  BY <1>1, <1>2

\* A new call queues behind everybody (the append of acquireSubmission).
LEMMA AppendGoesLast ==
    ASSUME NEW S, NEW queue \in Seq(S), IsInjective(queue),
           NEW r \in S, r \notin Range(queue)
    PROVE  LET longer == Append(queue, r)
           IN  /\ longer \in Seq(S)
               /\ IsInjective(longer)
               /\ Range(longer) = Range(queue) \cup {r}
               /\ \A p, q : Ahead(longer, p, q) <=>
                                Ahead(queue, p, q) \/ (p \in Range(queue) /\ q = r)
<1> DEFINE longer == Append(queue, r)
<1>1. /\ longer \in Seq(S)
      /\ DOMAIN longer = 1..(Len(queue) + 1)
      /\ DOMAIN queue = 1..Len(queue)
      /\ Len(queue) \in Nat
      /\ \A i \in DOMAIN queue : longer[i] = queue[i]
      /\ longer[Len(queue) + 1] = r
  OBVIOUS
<1>2. \A i \in DOMAIN queue : queue[i] # r
  BY DEF Range
<1> HIDE DEF longer
<1>3. IsInjective(longer)
  BY <1>1, <1>2 DEF IsInjective
<1>4. Range(longer) = Range(queue) \cup {r}
  BY <1>1 DEF Range
<1>5. ASSUME NEW p, NEW q
      PROVE  Ahead(longer, p, q) <=> Ahead(queue, p, q) \/ (p \in Range(queue) /\ q = r)
  BY <1>1, <1>2 DEF Ahead, Range
<1> QED
  BY <1>1, <1>3, <1>4, <1>5 DEF longer

----------------------------------------------------------------------------
(***************************************************************************)
(* The invariant.  ActiveCompatible needs NoLostWakeup for nothing, but    *)
(* both need the queue to hold exactly the calls that wait.                *)
(***************************************************************************)
MonitorInv == TypeOK /\ QueueMatchesCallers /\ ActiveCompatible /\ NoLostWakeup

\* Conflict is symmetric.
LEMMA ConflictSymmetric ==
    \A left, right : Conflict(left, right) <=> Conflict(right, left)
  BY DEF Conflict

LEMMA MonitorInit == Init => MonitorInv
<1> SUFFICES ASSUME Init PROVE MonitorInv
  OBVIOUS
<1>1. TypeOK
  <2>1. pendingSubmissions \in Seq(Reservations) /\ IsInjective(pendingSubmissions)
    BY DEF Init, IsInjective
  <2>2. resources \in [Reservations -> Resources]
    BY DEF Init, Resources, NoBuffers, Access
  <2> QED
    BY <2>1, <2>2 DEF Init, TypeOK, CallerStates
<1>2. QueueMatchesCallers
  BY DEF Init, QueueMatchesCallers, Waiting, Range
<1>3. ActiveCompatible /\ NoLostWakeup
  BY DEF Init, ActiveCompatible, NoLostWakeup
<1> QED
  BY <1>1, <1>2, <1>3 DEF MonitorInv

\* What acquireSubmission knows when it runs its loop body for r: the queue holds
\* the waiting calls and r, and nobody's order or buffer uses but r's are new.
LoopEntry(r, queue, uses) ==
    /\ r \in Reservations \ activeSubmissions
    /\ queue \in Seq(Reservations)
    /\ IsInjective(queue)
    /\ Range(queue) = Waiting \cup {r}
    /\ uses \in [Reservations -> Resources]
    /\ \A s \in activeSubmissions \cup Waiting : uses[s] = resources[s]
    /\ \A p, q : q # r => (Ahead(queue, p, q) <=> Ahead(pendingSubmissions, p, q))

\* The loop body keeps the invariant when it grants the reservation.
LEMMA ActivateStep ==
    ASSUME MonitorInv, NEW r, NEW queue, NEW uses, LoopEntry(r, queue, uses),
           Activate(r, queue, uses), resources' = uses, ~submissionErr, UNCHANGED submissionErr
    PROVE  MonitorInv'
<1> USE DEF MonitorInv
<1>0. Waiting' = Waiting \ {r}
  BY DEF LoopEntry, Activate, Waiting, TypeOK
<1>1. /\ pendingSubmissions' \in Seq(Reservations)
      /\ IsInjective(pendingSubmissions')
      /\ Range(pendingSubmissions') = Waiting \ {r}
      /\ \A p, q : Ahead(pendingSubmissions', p, q) <=> p # r /\ q # r /\ Ahead(queue, p, q)
  BY RemoveReservationKeepsOrder DEF LoopEntry, Activate
<1>2. TypeOK'
  BY <1>1 DEF TypeOK, LoopEntry, Activate, CallerStates
<1>3. QueueMatchesCallers'
  BY <1>0, <1>1 DEF QueueMatchesCallers, LoopEntry, Activate, Waiting
<1>4. ActiveCompatible'
  BY ConflictSymmetric DEF ActiveCompatible, LoopEntry, Activate, CanActivate
<1>5. NoLostWakeup'
  <2> SUFFICES ASSUME NEW q \in Reservations, caller'[q] = "asleep",
                      CanActivate(q, pendingSubmissions, resources)'
               PROVE  FALSE
    BY DEF NoLostWakeup
  <2>1. q # r /\ caller[q] = "asleep" /\ q \in Waiting
    BY DEF Activate, LoopEntry, TypeOK, Waiting
  <2>2. uses[q] = resources[q]
    BY <2>1 DEF LoopEntry
  <2>3. ASSUME NEW a \in activeSubmissions, Conflict(resources[a], resources[q])
        PROVE  FALSE
    BY <2>2, <2>3 DEF CanActivate, Activate, LoopEntry
  <2>4. ASSUME NEW p \in Range(pendingSubmissions), Ahead(pendingSubmissions, p, q),
               Conflict(resources[p], resources[q])
        PROVE  FALSE
    <3>1. p \in Waiting /\ uses[p] = resources[p]
      BY DEF QueueMatchesCallers, LoopEntry
    <3>2. CASE p = r
      BY <3>1, <3>2, <2>2, <2>4 DEF CanActivate, Activate
    <3>3. CASE p # r
      BY <3>1, <3>3, <2>1, <2>2, <2>4, <1>1 DEF CanActivate, LoopEntry
    <3> QED
      BY <3>2, <3>3
  <2> QED
    BY <2>1, <2>3, <2>4 DEF NoLostWakeup, CanActivate
<1> QED
  BY <1>2, <1>3, <1>4, <1>5

\* The loop body keeps the invariant when the call goes to sleep.
LEMMA ParkStep ==
    ASSUME MonitorInv, NEW r, NEW queue, NEW uses, LoopEntry(r, queue, uses),
           Park(r, queue, uses), resources' = uses, ~submissionErr, UNCHANGED submissionErr
    PROVE  MonitorInv'
<1> USE DEF MonitorInv
<1>0. Waiting' = Waiting \cup {r}
  BY DEF LoopEntry, Park, Waiting, TypeOK
<1>1. TypeOK'
  BY DEF TypeOK, LoopEntry, Park, CallerStates
<1>2. QueueMatchesCallers'
  BY <1>0 DEF QueueMatchesCallers, LoopEntry, Park
<1>3. ActiveCompatible'
  BY DEF ActiveCompatible, LoopEntry, Park
<1>4. NoLostWakeup'
  <2> SUFFICES ASSUME NEW q \in Reservations, caller'[q] = "asleep"
               PROVE  ~CanActivate(q, pendingSubmissions, resources)'
    BY DEF NoLostWakeup
  <2>1. CASE q = r
    BY <2>1 DEF Park, CanActivate
  <2>2. CASE q # r
    <3>1. caller[q] = "asleep" /\ q \in Waiting /\ uses[q] = resources[q]
      BY <2>2 DEF Park, TypeOK, Waiting, LoopEntry
    <3>2. ~CanActivate(q, pendingSubmissions, resources)
      BY <3>1 DEF NoLostWakeup
    <3>3. \A p \in Range(pendingSubmissions) : p \in Waiting /\ uses[p] = resources[p]
      BY DEF QueueMatchesCallers, LoopEntry
    <3> QED
      BY <2>2, <3>1, <3>2, <3>3 DEF CanActivate, LoopEntry, Park, QueueMatchesCallers
  <2> QED
    BY <2>1, <2>2
<1> QED
  BY <1>1, <1>2, <1>3, <1>4

\* Every critical section of submissionMu keeps the invariant.
LEMMA MonitorStep == MonitorInv /\ [Next]_schedulerVars => MonitorInv'
<1> SUFFICES ASSUME MonitorInv, [Next]_schedulerVars PROVE MonitorInv'
  OBVIOUS
<1>1. ASSUME NEW r \in Reservations, NEW want \in Requests, Acquire(r, want)
      PROVE  MonitorInv'
  <2> DEFINE queue == Append(pendingSubmissions, r)
             uses  == [resources EXCEPT ![r] = want]
  <2>1. r \notin Range(pendingSubmissions) /\ r \notin Waiting
    BY <1>1 DEF MonitorInv, QueueMatchesCallers, Waiting, Acquire
  <2>2. LoopEntry(r, queue, uses)
    <3>1. /\ queue \in Seq(Reservations)
          /\ IsInjective(queue)
          /\ Range(queue) = Range(pendingSubmissions) \cup {r}
          /\ \A p, q : Ahead(queue, p, q) <=>
                          Ahead(pendingSubmissions, p, q) \/ (p \in Range(pendingSubmissions) /\ q = r)
      BY <2>1, AppendGoesLast DEF MonitorInv, TypeOK
    <3>2. uses \in [Reservations -> Resources]
      BY RequestsAssumption DEF MonitorInv, TypeOK
    <3>3. \A s \in activeSubmissions \cup Waiting : uses[s] = resources[s]
      BY <1>1, <2>1 DEF MonitorInv, TypeOK, Acquire, Waiting
    <3> HIDE DEF queue, uses
    <3> QED
      BY <1>1, <3>1, <3>2, <3>3 DEF LoopEntry, Acquire, MonitorInv, QueueMatchesCallers
  <2> HIDE DEF queue, uses
  <2>3. /\ resources' = uses /\ ~submissionErr /\ UNCHANGED submissionErr
        /\ Activate(r, queue, uses) \/ Park(r, queue, uses)
    BY <1>1 DEF Acquire, queue, uses
  <2> QED
    BY <2>2, <2>3, ActivateStep, ParkStep
<1>2. ASSUME NEW r \in Reservations, Reacquire(r)
      PROVE  MonitorInv'
  <2>1. r \in Waiting /\ r \in Range(pendingSubmissions) /\ r \notin activeSubmissions
    BY <1>2 DEF Reacquire, Waiting, MonitorInv, QueueMatchesCallers
  <2>2. LoopEntry(r, pendingSubmissions, resources)
    BY <2>1 DEF LoopEntry, MonitorInv, TypeOK, QueueMatchesCallers
  <2>3. CASE ~submissionErr
    BY <1>2, <2>2, <2>3, ActivateStep, ParkStep DEF Reacquire, Withdraw
  <2>4. CASE Withdraw(r)
    <3>1. /\ pendingSubmissions' \in Seq(Reservations)
          /\ IsInjective(pendingSubmissions')
          /\ Range(pendingSubmissions') = Waiting \ {r}
      BY <2>4, <2>2, RemoveReservationKeepsOrder DEF LoopEntry, Withdraw
    <3>2. Waiting' = Waiting \ {r} /\ \A q \in Reservations : caller'[q] # "asleep"
      BY <2>4, <2>1 DEF Withdraw, Broadcast, Waiting, MonitorInv, TypeOK
    <3>3. NoBuffers \in Resources
      BY DEF NoBuffers, Resources, Access
    <3>4. TypeOK'
      BY <1>2, <2>4, <3>1, <3>3 DEF Reacquire, Withdraw, MonitorInv, TypeOK, Broadcast, CallerStates
    <3>5. QueueMatchesCallers' /\ NoLostWakeup'
      BY <2>4, <3>1, <3>2 DEF Withdraw, MonitorInv, QueueMatchesCallers, NoLostWakeup
    <3>6. ActiveCompatible'
      BY <2>1, <2>4 DEF Withdraw, MonitorInv, ActiveCompatible, TypeOK
    <3> QED
      BY <3>4, <3>5, <3>6 DEF MonitorInv
  <2> QED
    BY <1>2, <2>3, <2>4 DEF Reacquire
<1>3. ASSUME NEW r \in Reservations, Release(r) \/ MarkUnknown(r)
      PROVE  MonitorInv'
  <2>1. /\ UNCHANGED pendingSubmissions
        /\ activeSubmissions' \subseteq activeSubmissions
        /\ caller' = Broadcast(caller)
    BY <1>3 DEF Release, MarkUnknown
  <2>2. Waiting' = Waiting /\ \A q \in Reservations : caller'[q] # "asleep"
    BY <2>1 DEF Broadcast, Waiting, MonitorInv, TypeOK
  <2>3. NoBuffers \in Resources
    BY DEF NoBuffers, Resources, Access
  <2>4. TypeOK'
    BY <1>3, <2>1, <2>3 DEF Release, MarkUnknown, MonitorInv, TypeOK, Broadcast, CallerStates
  <2>5. QueueMatchesCallers' /\ NoLostWakeup'
    BY <2>1, <2>2 DEF MonitorInv, QueueMatchesCallers, NoLostWakeup
  <2>6. ActiveCompatible'
    BY <1>3 DEF Release, MarkUnknown, MonitorInv, ActiveCompatible, TypeOK
  <2> QED
    BY <2>4, <2>5, <2>6 DEF MonitorInv
<1>4. CASE UNCHANGED schedulerVars
  BY <1>4 DEF schedulerVars, MonitorInv, TypeOK, QueueMatchesCallers, ActiveCompatible,
              NoLostWakeup, CanActivate, Waiting
<1> QED
  BY <1>1, <1>2, <1>3, <1>4 DEF Next, Refuse

\* In every behaviour of the monitor the queue holds the waiting calls, granted
\* reservations do not conflict, and no call sleeps that could be granted.
THEOREM MonitorInvariant == Spec => []MonitorInv
  BY MonitorInit, MonitorStep, PTL DEF Spec

\* The variables of the monitor keep their types.
THEOREM MonitorTypes == Spec => []TypeOK
  BY MonitorInvariant, PTL DEF MonitorInv

\* pendingSubmissions holds exactly the calls inside acquireSubmission, each once, on
\* every way out of it.
THEOREM QueueHoldsTheWaiting == Spec => []QueueMatchesCallers
  BY MonitorInvariant, PTL DEF MonitorInv

\* Conflicting batches are never granted together.
THEOREM GrantsAreCompatible == Spec => []ActiveCompatible
  BY MonitorInvariant, PTL DEF MonitorInv

\* No call of acquireSubmission sleeps through its wakeup.
THEOREM WakeupsAreNotLost == Spec => []NoLostWakeup
  BY MonitorInvariant, PTL DEF MonitorInv

\* Once submissionErr is set it stays, and nothing is granted any more.
THEOREM ErrorIsSticky == Spec => NoGrantAfterError
<1>1. MonitorInv /\ [Next]_schedulerVars =>
        [submissionErr => submissionErr' /\ activeSubmissions' \subseteq activeSubmissions]_schedulerVars
  BY DEF Next, Acquire, Refuse, Reacquire, Withdraw, Release, MarkUnknown
<1> QED
  BY <1>1, MonitorInvariant, PTL DEF Spec, NoGrantAfterError

----------------------------------------------------------------------------
(***************************************************************************)
(* The monitor implements SubmissionOrder.                                 *)
(***************************************************************************)

\* Of two calls in the queue one is ahead of the other, and not both ways.
LEMMA QueueIsTotal ==
    ASSUME NEW S, NEW queue \in Seq(S), IsInjective(queue)
    PROVE  /\ \A p, q \in Range(queue) : p # q => Ahead(queue, p, q) \/ Ahead(queue, q, p)
           /\ \A p, q : Ahead(queue, p, q) => p \in Range(queue) /\ q \in Range(queue) /\ p # q
<1>1. DOMAIN queue = 1..Len(queue) /\ Len(queue) \in Nat
  OBVIOUS
<1> QED
  BY <1>1 DEF Ahead, Range, IsInjective

LEMMA OrderInit == Init => Order!Init
<1> SUFFICES ASSUME Init PROVE Order!Init
  OBVIOUS
<1>1. \A r \in Reservations : caller[r] = "outside"
  BY DEF Init
<1>2. Waiting = {} /\ activeSubmissions = {}
  BY <1>1 DEF Init, Waiting
<1>3. OrderPhase = [r \in Reservations |-> "idle"]
  BY <1>2 DEF OrderPhase
<1>4. OrderBefore = [r \in Reservations |-> {}]
  BY <1>2 DEF OrderBefore
<1> QED
  BY <1>3, <1>4 DEF Init, Order!Init

\* A new call of acquireSubmission is a request of the specification, whether it
\* returns at once or goes to sleep.
LEMMA AcquireIsRequest ==
    ASSUME MonitorInv, NEW r \in Reservations, NEW want \in Requests, Acquire(r, want)
    PROVE  Order!Request(r, want)
<1> DEFINE queue == Append(pendingSubmissions, r)
           uses  == [resources EXCEPT ![r] = want]
           preds == {s \in Reservations : OrderPhase[s] # "idle" /\ Conflict(resources[s], want)}
<1> USE DEF MonitorInv
<1>1. r \notin Waiting /\ r \notin Range(pendingSubmissions) /\ r \notin activeSubmissions
  BY DEF Acquire, Waiting, QueueMatchesCallers
<1>2. \A p, q : Ahead(queue, p, q) <=>
                  Ahead(pendingSubmissions, p, q) \/ (p \in Range(pendingSubmissions) /\ q = r)
  BY <1>1, AppendGoesLast DEF TypeOK
<1>3. Range(queue) = Waiting \cup {r}
  BY <1>1, AppendGoesLast DEF TypeOK, QueueMatchesCallers
<1>4. uses[r] = want /\ \A s \in Reservations \ {r} : uses[s] = resources[s]
  BY DEF TypeOK
<1>5. \A p, q : Ahead(pendingSubmissions, p, q) => p \in Waiting /\ q \in Waiting
  BY QueueIsTotal DEF TypeOK, QueueMatchesCallers
<1>6. /\ queue \in Seq(Reservations) /\ IsInjective(queue)
  BY <1>1, AppendGoesLast DEF TypeOK
<1>7. resources' = uses /\ (Activate(r, queue, uses) \/ Park(r, queue, uses))
  BY DEF Acquire
<1> HIDE DEF queue, uses
<1>8. preds = {s \in activeSubmissions \cup Waiting : Conflict(resources[s], want)}
  BY DEF OrderPhase, TypeOK, Waiting
<1>9. CanActivate(r, queue, uses) <=> preds = {}
  BY <1>1, <1>2, <1>3, <1>4, <1>5, <1>8 DEF CanActivate, QueueMatchesCallers, TypeOK, Waiting
<1> HIDE DEF preds
<1>10. OrderPhase' = [OrderPhase EXCEPT ![r] = IF preds = {} THEN "granted" ELSE "waiting"]
  <2>1. CASE Activate(r, queue, uses)
    BY <1>1, <1>9, <2>1 DEF Activate, OrderPhase, Waiting, TypeOK
  <2>2. CASE Park(r, queue, uses)
    BY <1>1, <1>9, <2>2 DEF Park, OrderPhase, Waiting, TypeOK
  <2> QED
    BY <1>7, <2>1, <2>2
<1>11. OrderBefore' = [OrderBefore EXCEPT ![r] = preds]
  <2>1. CASE Activate(r, queue, uses)
    <3>1. Waiting' = Waiting /\ activeSubmissions' = activeSubmissions \cup {r}
      BY <1>1, <2>1 DEF Activate, Waiting, TypeOK
    <3>2. \A p, q : Ahead(pendingSubmissions', p, q) <=> p # r /\ q # r /\ Ahead(queue, p, q)
      BY <1>6, <2>1, RemoveReservationKeepsOrder DEF Activate
    <3>3. \A p \in Waiting : ~Conflict(uses[r], uses[p])
      BY <1>1, <1>2, <1>3, <2>1, ConflictSymmetric DEF Activate, CanActivate, QueueMatchesCallers
    <3>4. OrderBefore'[r] = preds
      BY <1>1, <1>9, <2>1, <3>1 DEF OrderBefore, Activate
    <3>5. ASSUME NEW q \in Reservations \ {r}
          PROVE  OrderBefore'[q] = OrderBefore[q]
      BY <1>1, <1>2, <1>4, <1>5, <1>7, <3>1, <3>2, <3>3 DEF OrderBefore
    <3> QED
      BY <3>4, <3>5 DEF OrderBefore
  <2>2. CASE Park(r, queue, uses)
    <3>1. Waiting' = Waiting \cup {r} /\ activeSubmissions' = activeSubmissions
      BY <1>1, <2>2 DEF Park, Waiting, TypeOK
    <3>2. \A p, q : Ahead(pendingSubmissions', p, q) <=> Ahead(queue, p, q)
      BY <2>2 DEF Park
    <3>3. OrderBefore'[r] = preds
      BY <1>1, <1>2, <1>4, <1>5, <1>7, <1>8, <3>1, <3>2
      DEF OrderBefore, TypeOK, QueueMatchesCallers, Waiting
    <3>4. ASSUME NEW q \in Reservations \ {r}
          PROVE  OrderBefore'[q] = OrderBefore[q]
      BY <1>1, <1>2, <1>4, <1>5, <1>7, <3>1, <3>2 DEF OrderBefore
    <3> QED
      BY <3>3, <3>4 DEF OrderBefore
  <2> QED
    BY <1>7, <2>1, <2>2
<1> QED
  BY <1>1, <1>7, <1>10, <1>11
  DEF Order!Request, Order!Predecessors, preds, uses, Acquire, OrderPhase

\* A woken call that gets its reservation is granted in the specification: its
\* place in the queue told the same as the set of requests it had to wait for.
LEMMA ReacquireIsGrant ==
    ASSUME MonitorInv, NEW r \in Reservations, caller[r] = "woken", ~submissionErr,
           Activate(r, pendingSubmissions, resources), UNCHANGED <<resources, submissionErr>>
    PROVE  Order!Grant(r)
<1> USE DEF MonitorInv
<1>1. r \in Waiting /\ r \notin activeSubmissions
  BY DEF Waiting, QueueMatchesCallers
<1>2. Waiting' = Waiting \ {r} /\ activeSubmissions' = activeSubmissions \cup {r}
  BY <1>1 DEF Activate, Waiting, TypeOK
<1>3. \A p, q : Ahead(pendingSubmissions', p, q) <=> p # r /\ q # r /\ Ahead(pendingSubmissions, p, q)
  BY RemoveReservationKeepsOrder DEF Activate, TypeOK
<1>4. OrderBefore[r] = {}
  BY <1>1, QueueIsTotal DEF OrderBefore, Activate, CanActivate, TypeOK
<1>5. \A q \in Waiting : q # r => Ahead(pendingSubmissions, r, q) \/ Ahead(pendingSubmissions, q, r)
  BY <1>1, QueueIsTotal DEF TypeOK, QueueMatchesCallers
<1>6. ASSUME NEW q \in Reservations
      PROVE  OrderBefore'[q] = OrderBefore[q]
  <2>1. CASE q = r
    BY <1>2, <1>4, <2>1 DEF OrderBefore
  <2>2. CASE q # r /\ q \in Waiting
    <3>1. Conflict(resources[r], resources[q]) => Ahead(pendingSubmissions, r, q)
      BY <1>5, <2>2, ConflictSymmetric DEF Activate, CanActivate, QueueMatchesCallers
    <3> QED
      BY <1>2, <1>3, <2>2, <3>1 DEF OrderBefore
  <2>3. CASE q \notin Waiting
    BY <1>2, <2>3 DEF OrderBefore
  <2> QED
    BY <2>1, <2>2, <2>3
<1>7. OrderBefore' = OrderBefore
  BY <1>6 DEF OrderBefore
<1>8. OrderPhase' = [OrderPhase EXCEPT ![r] = "granted"] /\ OrderPhase[r] = "waiting"
  BY <1>1, <1>2 DEF OrderPhase
<1> QED
  BY <1>4, <1>7, <1>8 DEF Order!Grant

\* A call that leaves the queue refused, or a reservation that is released.
LEMMA LeavingIsLeave ==
    ASSUME MonitorInv, NEW r \in Reservations,
           resources' = [resources EXCEPT ![r] = NoBuffers],
           UNCHANGED submissionErr,
           \/ r \in activeSubmissions
           \/ submissionErr /\ r \in Waiting,
           activeSubmissions' = activeSubmissions \ {r},
           Waiting' = Waiting \ {r},
           \A p, q : p # r /\ q # r =>
             (Ahead(pendingSubmissions', p, q) <=> Ahead(pendingSubmissions, p, q))
    PROVE  Order!Leave(r)
<1> USE DEF MonitorInv
<1>1. OrderPhase' = [OrderPhase EXCEPT ![r] = "idle"]
  BY DEF OrderPhase
<1>2. ASSUME NEW q \in Reservations
      PROVE  OrderBefore'[q] = IF q = r THEN {} ELSE OrderBefore[q] \ {r}
  <2>1. \A uses : ~Conflict(NoBuffers, uses)
    BY DEF Conflict, NoBuffers
  <2>2. /\ resources'[r] = NoBuffers
        /\ \A s \in Reservations \ {r} : resources'[s] = resources[s]
    BY DEF TypeOK
  <2>3. CASE q = r
    BY <2>3 DEF OrderBefore
  <2>4. CASE q # r
    BY <2>1, <2>2, <2>4 DEF OrderBefore
  <2> QED
    BY <2>3, <2>4
<1>3. OrderBefore' = [q \in Reservations |-> IF q = r THEN {} ELSE OrderBefore[q] \ {r}]
  BY <1>2 DEF OrderBefore
<1>4. OrderPhase[r] = "granted" \/ (submissionErr /\ OrderPhase[r] = "waiting")
  BY DEF OrderPhase, QueueMatchesCallers
<1> QED
  BY <1>1, <1>3, <1>4 DEF Order!Leave

LEMMA OrderStep == MonitorInv /\ [Next]_schedulerVars => [Order!Next]_(Order!orderVars)
<1> SUFFICES ASSUME MonitorInv, [Next]_schedulerVars PROVE [Order!Next]_(Order!orderVars)
  OBVIOUS
<1> USE DEF MonitorInv
<1>1. ASSUME NEW r \in Reservations, NEW want \in Requests, Acquire(r, want)
      PROVE  Order!Next
  BY <1>1, AcquireIsRequest DEF Order!Next
<1>2. ASSUME NEW r \in Reservations, Reacquire(r)
      PROVE  Order!Next \/ UNCHANGED Order!orderVars
  <2>1. CASE ~submissionErr /\ Activate(r, pendingSubmissions, resources)
    BY <1>2, <2>1, ReacquireIsGrant DEF Reacquire, Order!Next, Withdraw
  <2>2. CASE ~submissionErr /\ Park(r, pendingSubmissions, resources)
    <3>1. /\ UNCHANGED <<pendingSubmissions, activeSubmissions, resources, submissionErr>>
          /\ Waiting' = Waiting
      BY <1>2, <2>2 DEF Reacquire, Park, Withdraw, Waiting, TypeOK
    <3> QED
      BY <3>1 DEF Order!orderVars, OrderPhase, OrderBefore, Ahead
  <2>3. CASE Withdraw(r)
    <3>1. r \in Waiting /\ r \notin activeSubmissions
      BY <1>2 DEF Reacquire, Waiting, QueueMatchesCallers
    <3>2. Waiting' = Waiting \ {r}
      BY <2>3 DEF Withdraw, Broadcast, Waiting, TypeOK
    <3>3. \A p, q : Ahead(pendingSubmissions', p, q) <=> p # r /\ q # r /\ Ahead(pendingSubmissions, p, q)
      BY <2>3, RemoveReservationKeepsOrder DEF Withdraw, TypeOK
    <3> QED
      BY <1>2, <2>3, <3>1, <3>2, <3>3, LeavingIsLeave DEF Reacquire, Withdraw, Order!Next
  <2> QED
    BY <1>2, <2>1, <2>2, <2>3 DEF Reacquire
<1>3. ASSUME NEW r \in Reservations, Release(r)
      PROVE  Order!Next
  <2>1. r \notin Waiting
    BY <1>3 DEF Release, QueueMatchesCallers
  <2>2. Waiting' = Waiting \ {r}
    BY <1>3, <2>1 DEF Release, Broadcast, Waiting, TypeOK
  <2> QED
    BY <1>3, <2>2, LeavingIsLeave DEF Release, Order!Next
<1>4. ASSUME NEW r \in Reservations, MarkUnknown(r)
      PROVE  Order!Next
  <2>1. /\ UNCHANGED <<pendingSubmissions, activeSubmissions, resources>>
        /\ Waiting' = Waiting
    BY <1>4 DEF MarkUnknown, Broadcast, Waiting, TypeOK
  <2>2. OrderPhase' = OrderPhase /\ OrderBefore' = OrderBefore
    BY <2>1 DEF OrderPhase, OrderBefore, Ahead
  <2> QED
    BY <1>4, <2>1, <2>2 DEF MarkUnknown, Order!Next, Order!Fail
<1>5. CASE UNCHANGED schedulerVars
  BY <1>5 DEF schedulerVars, Order!orderVars, OrderPhase, OrderBefore, Waiting, Ahead
<1> QED
  BY <1>1, <1>2, <1>3, <1>4, <1>5 DEF Next, Refuse

\* Every behaviour of the monitor is one of SubmissionOrder: conflicting batches
\* are granted in the order they asked, compatible ones without waiting.
THEOREM MonitorImplementsOrder == Spec => ImplementsOrder
  BY MonitorInvariant, OrderInit, OrderStep, PTL DEF Spec, ImplementsOrder, Order!Spec

=============================================================================
