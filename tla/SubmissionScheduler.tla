------------------------ MODULE SubmissionScheduler ------------------------
(***************************************************************************)
(* The reservation monitor of Device (submission.go): every batch that is  *)
(* to be put on the Vulkan queue first reserves the buffers it reads and   *)
(* writes.  Compatible reservations are active together; a conflicting one *)
(* sleeps on submissionCond until the earlier ones are released, in        *)
(* arrival order.  Once the completion of a submitted batch is unknown,    *)
(* submissionErr is set for good and no reservation is granted any more.   *)
(*                                                                         *)
(* A step is one critical section of submissionMu.  A reservation is       *)
(* identified with the call of acquireSubmission that creates it.          *)
(***************************************************************************)
EXTENDS SubmissionResources, Naturals, Sequences, Functions

CONSTANTS
    Reservations,   \* the reservation objects
    Requests        \* the buffer uses a batch may be submitted with

ASSUME RequestsAssumption == Requests \subseteq Resources

VARIABLES
    pendingSubmissions,  \* the waiting reservations, in arrival order
    activeSubmissions,   \* the granted reservations (their order is not used)
    resources,           \* the buffer uses of each reservation
    submissionErr,       \* is the completion of an earlier batch unknown?
    caller               \* where the goroutine calling acquireSubmission is

schedulerVars ==
    <<pendingSubmissions, activeSubmissions, resources, submissionErr, caller>>

\* "asleep" is in submissionCond.Wait, "woken" has been signalled and has to
\* take submissionMu again, "outside" is everything else.
CallerStates == {"outside", "asleep", "woken"}

TypeOK ==
    /\ pendingSubmissions \in Seq(Reservations)
    /\ IsInjective(pendingSubmissions)
    /\ activeSubmissions \subseteq Reservations
    /\ resources \in [Reservations -> Resources]
    /\ submissionErr \in BOOLEAN
    /\ caller \in [Reservations -> CallerStates]

----------------------------------------------------------------------------
Ahead(queue, p, r) ==
    \E i, j \in DOMAIN queue : i < j /\ queue[i] = p /\ queue[j] = r

\* Mutants: the active batches, or the ones queued ahead, are not looked at.
IgnoreActive(r, queue, uses) ==
    \A p \in Range(queue) : Ahead(queue, p, r) => ~Conflict(uses[p], uses[r])
IgnoreQueue(r, queue, uses) ==
    \A a \in activeSubmissions : ~Conflict(uses[a], uses[r])

CanActivate(r, queue, uses) ==
    /\ \A a \in activeSubmissions : ~Conflict(uses[a], uses[r])
    /\ \A p \in Range(queue) : Ahead(queue, p, r) => ~Conflict(uses[p], uses[r])

\* Mutant: submissionCond.Signal.
Signal(callers) ==
    LET asleep == {r \in Reservations : callers[r] = "asleep"}
    IN  IF asleep = {} THEN callers ELSE [callers EXCEPT ![CHOOSE r \in asleep : TRUE] = "woken"]

Broadcast(callers) ==
    [r \in Reservations |-> IF callers[r] = "asleep" THEN "woken" ELSE callers[r]]

\* Mutants: nothing is removed, or the next entry.
RemoveNothing(queue, r) == queue
RemoveNext(queue, r) ==
    LET at == CHOOSE i \in DOMAIN queue : queue[i] = r
    IN  IF r \in Range(queue)
        THEN [i \in 1..(Len(queue) - 1) |-> IF i <= at THEN queue[i] ELSE queue[i + 1]]
        ELSE queue

\* The entries behind the removed one move down by one place.
RemoveReservation(queue, r) ==
    LET at == CHOOSE i \in DOMAIN queue : queue[i] = r
    IN  IF r \in Range(queue)
        THEN [i \in 1..(Len(queue) - 1) |-> IF i < at THEN queue[i] ELSE queue[i + 1]]
        ELSE queue

----------------------------------------------------------------------------
Init ==
    /\ pendingSubmissions = << >>
    /\ activeSubmissions = {}
    /\ resources = [r \in Reservations |-> NoBuffers]
    /\ submissionErr = FALSE
    /\ caller = [r \in Reservations |-> "outside"]

\* The loop of acquireSubmission returns the reservation.
Activate(r, queue, uses) ==
    /\ CanActivate(r, queue, uses)
    /\ pendingSubmissions' = RemoveReservation(queue, r)
    /\ activeSubmissions' = activeSubmissions \cup {r}
    /\ caller' = [caller EXCEPT ![r] = "outside"]

\* The loop of acquireSubmission goes to sleep.
Park(r, queue, uses) ==
    /\ ~CanActivate(r, queue, uses)
    /\ pendingSubmissions' = queue
    /\ caller' = [caller EXCEPT ![r] = "asleep"]
    /\ UNCHANGED activeSubmissions

\* The loop of acquireSubmission returns ErrDeviceUnavailable.
Withdraw(r) ==
    /\ submissionErr
    /\ pendingSubmissions' = RemoveReservation(pendingSubmissions, r)
    /\ caller' = Broadcast([caller EXCEPT ![r] = "outside"])
    /\ resources' = [resources EXCEPT ![r] = NoBuffers]
    /\ UNCHANGED activeSubmissions

\* A call of acquireSubmission made after submissionErr is set returns at once.
Refuse(r) ==
    /\ submissionErr
    /\ caller[r] = "outside"
    /\ UNCHANGED schedulerVars

\* A call of acquireSubmission, up to its return or its first Wait.
Acquire(r, want) ==
    LET queue == Append(pendingSubmissions, r)
        uses  == [resources EXCEPT ![r] = want]
    IN  /\ ~submissionErr
        /\ caller[r] = "outside"
        /\ r \notin activeSubmissions
        /\ resources' = uses
        /\ Activate(r, queue, uses) \/ Park(r, queue, uses)
        /\ UNCHANGED submissionErr

\* Mutant: the loop tests submissionErr only before its first Wait.
ReacquireAnyway(r) ==
    /\ caller[r] = "woken"
    /\ \/ Activate(r, pendingSubmissions, resources)
       \/ Park(r, pendingSubmissions, resources)
    /\ UNCHANGED <<resources, submissionErr>>

\* A woken call runs the loop of acquireSubmission again.
Reacquire(r) ==
    /\ caller[r] = "woken"
    /\ \/ /\ ~submissionErr
          /\ \/ Activate(r, pendingSubmissions, resources)
             \/ Park(r, pendingSubmissions, resources)
          /\ UNCHANGED resources
       \/ Withdraw(r)
    /\ UNCHANGED submissionErr

\* Mutant: nobody is woken.
ReleaseSilently(r) ==
    /\ r \in activeSubmissions
    /\ activeSubmissions' = activeSubmissions \ {r}
    /\ resources' = [resources EXCEPT ![r] = NoBuffers]
    /\ UNCHANGED <<pendingSubmissions, submissionErr, caller>>

Release(r) ==
    /\ r \in activeSubmissions
    /\ activeSubmissions' = activeSubmissions \ {r}
    /\ resources' = [resources EXCEPT ![r] = NoBuffers]
    /\ caller' = Broadcast(caller)
    /\ UNCHANGED <<pendingSubmissions, submissionErr>>

MarkUnknown(r) ==
    /\ r \in activeSubmissions
    /\ submissionErr' = TRUE
    /\ caller' = Broadcast(caller)
    /\ UNCHANGED <<pendingSubmissions, activeSubmissions, resources>>

Next ==
    \E r \in Reservations :
        \/ \E want \in Requests : Acquire(r, want)
        \/ Refuse(r)
        \/ Reacquire(r)
        \/ Release(r)
        \/ MarkUnknown(r)

Spec == Init /\ [][Next]_schedulerVars

\* The Go scheduler runs a woken goroutine, and the owner of a granted
\* reservation eventually learns how its batch ended.
Fairness ==
    \A r \in Reservations :
        /\ WF_schedulerVars(Reacquire(r))
        /\ WF_schedulerVars(Release(r) \/ MarkUnknown(r))

FairSpec == Spec /\ Fairness

----------------------------------------------------------------------------
Waiting == {r \in Reservations : caller[r] # "outside"}

\* The queue holds exactly the calls that are inside acquireSubmission, and
\* none of them is granted yet (the two lists of Device never overlap).
QueueMatchesCallers ==
    /\ Range(pendingSubmissions) = Waiting
    /\ Waiting \cap activeSubmissions = {}

\* Two batches of which one writes a buffer the other uses are never granted
\* together: canActivateSubmissionLocked against every interleaving of
\* acquireSubmission, releaseSubmission and markSubmissionUnknown.
ActiveCompatible ==
    \A r, s \in activeSubmissions :
        r # s => ~Conflict(resources[r], resources[s])

\* No wakeup is lost: a call sleeps in submissionCond.Wait only while the
\* condition it waits for is false.  acquireSubmission itself does not
\* broadcast when it grants a reservation and so takes it out of the queue.
NoLostWakeup ==
    \A r \in Reservations :
        caller[r] = "asleep" =>
            ~submissionErr /\ ~CanActivate(r, pendingSubmissions, resources)

\* The "sticky cause" of doc.go:23-25: submissionErr is never cleared, and no
\* reservation is granted while it is set, not even to a call that was already
\* waiting when the fence wait failed.
NoGrantAfterError ==
    [][submissionErr => submissionErr' /\ activeSubmissions' \subseteq activeSubmissions]_schedulerVars

\* The mapping to SubmissionOrder: a request waits for the conflicting active
\* reservations and for the conflicting ones queued ahead of it.
OrderPhase ==
    [r \in Reservations |-> IF r \in activeSubmissions THEN "granted"
                            ELSE IF r \in Waiting THEN "waiting" ELSE "idle"]

OrderBefore ==
    [r \in Reservations |->
        {s \in Reservations :
            /\ r \in Waiting
            /\ Conflict(resources[s], resources[r])
            /\ \/ s \in activeSubmissions
               \/ Ahead(pendingSubmissions, s, r)}]

Order == INSTANCE SubmissionOrder WITH
    Requesters <- Reservations, NoUse <- NoBuffers, Conflicting <- Conflict,
    phase <- OrderPhase, use <- resources, before <- OrderBefore,
    failed <- submissionErr

\* The monitor implements SubmissionOrder ("Overlapping writes retain submission
\* order", doc.go:19): whatever the interleaving of sleeping and waking calls, a
\* batch is granted exactly when every conflicting batch that asked before it has
\* left, and at once when there is none.
ImplementsOrder == Order!Spec

\* Every call of acquireSubmission returns: no batch starves behind later
\* compatible ones, and a failed fence wait drains the queue.
EveryCallReturns ==
    \A r \in Reservations : caller[r] # "outside" ~> caller[r] = "outside"

============================================================================
