-------------------------- MODULE SubmissionOrder --------------------------
(***************************************************************************)
(* What the reservation monitor of Device promises (doc.go:17-19): batches *)
(* with disjoint buffers, or which only share buffers they read, may be in *)
(* flight together, and overlapping writes keep their order.               *)
(*                                                                         *)
(* There is no queue and no condition variable here.  A request remembers  *)
(* the conflicting requests that were made before it and have not left     *)
(* yet; it can be granted once none remains.                               *)
(***************************************************************************)
CONSTANTS Requesters, Requests, NoUse, Conflicting(_, _)

VARIABLES
    phase,    \* "idle", "waiting" or "granted"
    use,      \* what each requester asked for
    before,   \* the conflicting requests it still has to wait for
    failed    \* nothing is granted any more

orderVars == <<phase, use, before, failed>>

Init ==
    /\ phase = [r \in Requesters |-> "idle"]
    /\ use = [r \in Requesters |-> NoUse]
    /\ before = [r \in Requesters |-> {}]
    /\ failed = FALSE

Predecessors(want) ==
    {s \in Requesters : phase[s] # "idle" /\ Conflicting(use[s], want)}

\* A request without predecessors is granted without waiting.
Request(r, want) ==
    /\ ~failed
    /\ phase[r] = "idle"
    /\ phase' = [phase EXCEPT ![r] =
                    IF Predecessors(want) = {} THEN "granted" ELSE "waiting"]
    /\ use' = [use EXCEPT ![r] = want]
    /\ before' = [before EXCEPT ![r] = Predecessors(want)]
    /\ UNCHANGED failed

Grant(r) ==
    /\ ~failed
    /\ phase[r] = "waiting"
    /\ before[r] = {}
    /\ phase' = [phase EXCEPT ![r] = "granted"]
    /\ UNCHANGED <<use, before, failed>>

\* A granted request is over, or a waiting one is refused.
Leave(r) ==
    /\ phase[r] = "granted" \/ (failed /\ phase[r] = "waiting")
    /\ phase' = [phase EXCEPT ![r] = "idle"]
    /\ use' = [use EXCEPT ![r] = NoUse]
    /\ before' = [s \in Requesters |-> IF s = r THEN {} ELSE before[s] \ {r}]
    /\ UNCHANGED failed

Fail ==
    /\ failed' = TRUE
    /\ UNCHANGED <<phase, use, before>>

Next ==
    \/ \E r \in Requesters :
          \/ \E want \in Requests : Request(r, want)
          \/ Grant(r)
          \/ Leave(r)
    \/ Fail

Spec == Init /\ [][Next]_orderVars

============================================================================
