---------------------------- MODULE DurableEvents ----------------------------
(***************************************************************************)
(* What the card-action queue promises whoever enqueued an event: once     *)
(* taken, it stays pending until its decision has been applied or it is    *)
(* parked as a dead letter, from where an operator may send it round       *)
(* again.  It disappears only by a retention: a parked event grows old, or *)
(* no server runs for longer than the queue keeps anything.                *)
(***************************************************************************)
CONSTANT Events

VARIABLES
    status,     \* where each event is
    applied,    \* events whose decision was applied at least once
    serving     \* whether any server is running

vars == <<status, applied, serving>>

Init ==
    /\ status = [e \in Events |-> "new"]
    /\ applied = {}
    /\ serving = FALSE

Move(e, from, to) ==
    /\ status[e] = from
    /\ status' = [status EXCEPT ![e] = to]
    /\ UNCHANGED <<applied, serving>>

Take(e) == serving /\ Move(e, "new", "pending")
Apply(e) ==
    /\ status[e] # "new"
    /\ applied' = applied \cup {e}
    /\ UNCHANGED <<status, serving>>
Settle(e) == e \in applied /\ Move(e, "pending", "done")

\* Parking an event drops the parked ones that have grown too old.
Park(e) ==
    /\ status[e] = "pending"
    /\ \E old \in SUBSET {d \in Events : status[d] = "dead"} :
        status' = [d \in Events |-> IF d = e THEN "dead"
                                   ELSE IF d \in old THEN "lost" ELSE status[d]]
    /\ UNCHANGED <<applied, serving>>

Requeue(e) == Move(e, "dead", "pending")

Forget(from) ==
    /\ from = "dead" \/ ~serving
    /\ \E old \in SUBSET {d \in Events : status[d] = from} :
        status' = [d \in Events |-> IF d \in old THEN "lost" ELSE status[d]]
    /\ UNCHANGED <<applied, serving>>

Serve == serving' \in BOOLEAN /\ UNCHANGED <<status, applied>>

Next ==
    \/ \E e \in Events : Take(e) \/ Apply(e) \/ Settle(e) \/ Park(e) \/ Requeue(e)
    \/ Forget("dead") \/ Forget("pending") \/ Serve

Spec == Init /\ [][Next]_vars
=============================================================================
