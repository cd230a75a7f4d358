-------------------------- MODULE CardActionDispatch --------------------------
(***************************************************************************)
(* internal/cardactiondispatch: server replicas whose workers run          *)
(* Dispatcher.ProcessOne over the shared Redis queue.  A worker's pc is    *)
(* the next call ProcessOne makes; each Redis script, callback and         *)
(* finalization is one step, so any other worker may act in between.       *)
(*                                                                         *)
(* A worker may be slow (its lease runs out under it), a Redis call may    *)
(* fail, a replica may crash, be stopped, and come back with a different   *)
(* route registry (a rolling deploy).  These disturbances and manual DLQ   *)
(* replays share one budget, MaxDisturb.                                   *)
(***************************************************************************)
EXTENDS CardActionQueue

CONSTANTS
    Replicas, Workers,
    Routes,         \* (sender, owner, action type) keys
    RouteOf,        \* the route each event is for
    ReplicaOf,      \* the replica each worker goroutine belongs to
    Registries,     \* the route tables a replica may be started with
    MaxAttempts,    \* Route.MaxAttempts
    MaxInFlight,    \* Route.MaxInFlight
    MaxDisturb      \* bound on disturbances, by the events enqueued

ASSUME DispatchAssumption ==
    /\ RouteOf \in [Events -> Routes]
    /\ ReplicaOf \in [Workers -> Replicas]
    /\ Registries \subseteq SUBSET Routes
    /\ MaxAttempts \in Nat \ {0}
    /\ MaxInFlight \in Nat \ {0}
    /\ MaxDisturb \in [SUBSET Events -> Nat]
    /\ IsFiniteSet(Workers)

VARIABLES
    replica,    \* Replicas -> "down" | "up" | "stopping"
    registry,   \* the route table a replica was started with
    job,        \* what each worker is doing
    disturbed,  \* disturbances so far
    issued,     \* event ids Service.Enqueue has used
    finalized,  \* events the finalizer succeeded on at least once
    acked,      \* events removed by an Ack
    life,       \* how often the event was replayed from the DLQ
    delivered   \* callbacks started in the event's current life

envVars == <<replica, registry, disturbed>>
ghostVars == <<issued, finalized, acked, life, delivered>>
vars == <<queueVars, envVars, job, ghostVars>>

Steps == {"claimed", "defer", "nackNow", "nackAtMax", "routed",
          "delivering", "finalizing", "acking", "refresh"}

\* Lease plus the locals of ProcessOne: the slot taken, the heartbeat's verdict.
Job == [pc : Steps, ev : Events, tok : Tokens, att : Nat,
        slot : BOOLEAN, hbLost : BOOLEAN, life : Nat]
IdleJob == [pc |-> "idle"]

TypeOK ==
    /\ QueueTypeOK
    /\ replica \in [Replicas -> {"down", "up", "stopping"}]
    /\ registry \in [Replicas -> SUBSET Routes]
    /\ job \in [Workers -> Job \cup {IdleJob}]
    /\ disturbed \in Nat
    /\ issued \in SUBSET Events
    /\ finalized \in SUBSET Events
    /\ acked \in SUBSET Events
    /\ life \in [Events -> Nat]
    /\ delivered \in [Events -> Nat]

Init ==
    /\ QueueInit
    /\ replica = [r \in Replicas |-> "down"]
    /\ registry = [r \in Replicas |-> {}]
    /\ job = [w \in Workers |-> IdleJob]
    /\ disturbed = 0
    /\ issued = {} /\ finalized = {} /\ acked = {}
    /\ life = [e \in Events |-> 0]
    /\ delivered = [e \in Events |-> 0]

-----------------------------------------------------------------------------
Busy(w) == job[w] # IdleJob
HoldsLease(w, e) == Busy(w) /\ job[w].ev = e /\ Owns(e, job[w].tok)

\* A lease token is 128 random bits: none that is still remembered anywhere.
TokensInUse == {tokens[e] : e \in Events} \cup {job[w].tok : w \in {v \in Workers : Busy(v)}}

HasRoute(w, e) == RouteOf[e] \in registry[ReplicaOf[w]]

InFlight(r, k) ==
    {w \in Workers : Busy(w) /\ job[w].slot /\ ReplicaOf[w] = r /\ RouteOf[job[w].ev] = k}

Disturb == disturbed < MaxDisturb[issued] /\ disturbed' = disturbed + 1

Goto(w, step) == job' = [job EXCEPT ![w].pc = step]
Finish(w) == job' = [job EXCEPT ![w] = IdleJob]
At(w, step) == Busy(w) /\ job[w].pc = step

-----------------------------------------------------------------------------
(* Replicas and producers. *)

\* NewDispatcher and Start: the registry is read from the environment once.
StartReplica(r, reg) ==
    /\ replica[r] = "down"
    /\ replica' = [replica EXCEPT ![r] = "up"]
    /\ registry' = [registry EXCEPT ![r] = reg]
    /\ UNCHANGED <<queueVars, job, disturbed, ghostVars>>

\* Dispatcher.Stop cancels the context: no further claim, leased work is finished.
StopReplica(r) ==
    /\ replica[r] = "up"
    /\ Disturb
    /\ replica' = [replica EXCEPT ![r] = "stopping"]
    /\ UNCHANGED <<queueVars, registry, job, ghostVars>>

Stopped(r) ==
    /\ replica[r] = "stopping"
    /\ \A w \in Workers : ReplicaOf[w] = r => ~Busy(w)
    /\ replica' = [replica EXCEPT ![r] = "down"]
    /\ UNCHANGED <<queueVars, registry, job, disturbed, ghostVars>>

Crash(r) ==
    /\ replica[r] # "down"
    /\ Disturb
    /\ replica' = [replica EXCEPT ![r] = "down"]
    /\ job' = [w \in Workers |-> IF ReplicaOf[w] = r THEN IdleJob ELSE job[w]]
    /\ UNCHANGED <<queueVars, registry, ghostVars>>

\* Service.Enqueue: a fresh id, for an action whose route this replica knows.
Enqueue(r, e) ==
    /\ replica[r] = "up"
    /\ RouteOf[e] \in registry[r]
    /\ e \notin issued
    /\ EnqueueScript(e)
    /\ issued' = issued \cup {e}
    /\ disturbed <= MaxDisturb[issued']
    /\ UNCHANGED <<envVars, job, finalized, acked, life, delivered>>

\* tools/card-action-dlq replay.  The tool's own retention decides whether it refuses.
Replay(e) ==
    /\ Disturb
    /\ ReplayScript(e)
    /\ life' = [life EXCEPT ![e] = @ + 1]
    /\ delivered' = [delivered EXCEPT ![e] = 0]
    /\ UNCHANGED <<replica, registry, job, issued, finalized, acked>>

-----------------------------------------------------------------------------
(* ProcessOne, step by step. *)

Claim(w, e) ==
    /\ ~Busy(w)
    /\ replica[ReplicaOf[w]] = "up"
    /\ \E t \in Tokens \ TokensInUse :
        /\ ClaimScript(e, t)
        /\ job' = IF e \in payload
                  THEN [job EXCEPT ![w] = [pc |-> "claimed", ev |-> e, tok |-> t,
                           att |-> attempts[e] + 1, slot |-> FALSE, hbLost |-> FALSE,
                           life |-> life[e]]]
                  ELSE job
    /\ UNCHANGED <<envVars, ghostVars>>

\* The script ran but its reply was lost: a lease nobody knows of.
ClaimReplyLost(w, e) ==
    /\ ~Busy(w)
    /\ replica[ReplicaOf[w]] = "up"
    /\ Disturb
    /\ \E t \in Tokens \ TokensInUse : ClaimScript(e, t)
    /\ UNCHANGED <<replica, registry, job, ghostVars>>

\* Route absent here: stamp the first miss, then wait for the route or give up.
RouteMissing(w) ==
    LET e == job[w].ev IN
    /\ At(w, "claimed") /\ ~HasRoute(w, e)
    /\ MarkerScript(e)
    /\ Goto(w, IF marker'[e] = "past" THEN "nackNow" ELSE "defer")
    /\ UNCHANGED <<envVars, ghostVars>>

\* Route present: drop the marker, or give up a lease that is no longer ours.
ClearRouteMissing(w) ==
    LET e == job[w].ev IN
    /\ At(w, "claimed") /\ HasRoute(w, e)
    /\ IF Owns(e, job[w].tok)
       THEN ClearMarkerScript(e) /\ Goto(w, "routed")
       ELSE UNCHANGED queueVars /\ Goto(w, "refresh")
    /\ UNCHANGED <<envVars, ghostVars>>

AttemptsExhausted(w) ==
    /\ At(w, "routed") /\ job[w].att > MaxAttempts
    /\ Goto(w, "nackAtMax")
    /\ UNCHANGED <<queueVars, envVars, ghostVars>>

CapacityFull(w) ==
    LET e == job[w].ev IN
    /\ At(w, "routed") /\ job[w].att <= MaxAttempts
    /\ Cardinality(InFlight(ReplicaOf[w], RouteOf[e])) >= MaxInFlight
    /\ Goto(w, "defer")
    /\ UNCHANGED <<queueVars, envVars, ghostVars>>

\* The callback leaves this server; the consumer may see it even if we never hear back.
StartDelivery(w) ==
    LET e == job[w].ev IN
    /\ At(w, "routed") /\ job[w].att <= MaxAttempts
    /\ Cardinality(InFlight(ReplicaOf[w], RouteOf[e])) < MaxInFlight
    /\ job' = [job EXCEPT ![w].pc = "delivering", ![w].slot = TRUE]
    /\ delivered' = IF job[w].life = life[e] THEN [delivered EXCEPT ![e] = @ + 1]
                                             ELSE delivered
    /\ UNCHANGED <<queueVars, envVars, issued, finalized, acked, life>>

\* A decision, a retryable failure (timeout, 408, 429, 5xx, bad body) or a permanent one.
DeliveryReturns(w) ==
    /\ At(w, "delivering")
    /\ \E step \in {"finalizing", "nackAtMax", "nackNow"} : Goto(w, step)
    /\ UNCHANGED <<queueVars, envVars, ghostVars>>

\* startLeaseHeartbeat's ticker while the finalizer runs.
Heartbeat(w) ==
    LET e == job[w].ev IN
    /\ At(w, "finalizing") /\ ~job[w].hbLost
    /\ IF Owns(e, job[w].tok) /\ leased[e] # "no"
       THEN RenewScript(e) /\ UNCHANGED job
       ELSE UNCHANGED queueVars /\ job' = [job EXCEPT ![w].hbLost = TRUE]
    /\ UNCHANGED <<envVars, ghostVars>>

HeartbeatFails(w) ==
    /\ At(w, "finalizing") /\ ~job[w].hbLost
    /\ Disturb
    /\ job' = [job EXCEPT ![w].hbLost = TRUE]
    /\ UNCHANGED <<queueVars, replica, registry, ghostVars>>

\* The finalizer returns; a failed heartbeat outranks its result.
FinalizeSucceeds(w) ==
    /\ At(w, "finalizing")
    /\ finalized' = finalized \cup {job[w].ev}
    /\ Goto(w, IF job[w].hbLost THEN "refresh" ELSE "acking")
    /\ UNCHANGED <<queueVars, envVars, issued, acked, life, delivered>>

\* Mutant: the finalizer's error is dropped and the event acked.
FinalizeErrorDropped(w) ==
    /\ At(w, "finalizing")
    /\ Goto(w, IF job[w].hbLost THEN "refresh" ELSE "acking")
    /\ UNCHANGED <<queueVars, envVars, ghostVars>>

FinalizeFails(w) ==
    /\ At(w, "finalizing")
    /\ Goto(w, IF job[w].hbLost THEN "refresh" ELSE "nackAtMax")
    /\ UNCHANGED <<queueVars, envVars, ghostVars>>

Ack(w) ==
    LET e == job[w].ev IN
    /\ At(w, "acking")
    /\ IF Owns(e, job[w].tok)
       THEN AckScript(e) /\ acked' = acked \cup {e} /\ Goto(w, "refresh")
       ELSE UNCHANGED <<queueVars, acked>> /\ Finish(w)
    /\ UNCHANGED <<envVars, issued, finalized, life, delivered>>

\* Dispatcher.nack: a permanent failure dead-letters at the attempt just used.
Nack(w) ==
    LET e == job[w].ev
        max == IF job[w].pc = "nackNow" THEN job[w].att ELSE MaxAttempts
    IN
    /\ At(w, "nackNow") \/ At(w, "nackAtMax")
    /\ IF Owns(e, job[w].tok) THEN NackScript(e, max) ELSE UNCHANGED queueVars
    /\ Goto(w, "refresh")
    /\ UNCHANGED <<envVars, ghostVars>>

Defer(w) ==
    LET e == job[w].ev IN
    /\ At(w, "defer")
    /\ IF Owns(e, job[w].tok) /\ leased[e] # "no" THEN DeferScript(e) ELSE UNCHANGED queueVars
    /\ Goto(w, "refresh")
    /\ UNCHANGED <<envVars, ghostVars>>

\* refreshDepthMetrics, the last call of every path but the two Ack failures.
Refresh(w) ==
    /\ At(w, "refresh")
    /\ PruneScript
    /\ Finish(w)
    /\ UNCHANGED <<envVars, ghostVars>>

\* A Redis call fails before it takes effect and ProcessOne returns the error.
CallFails(w) ==
    /\ Busy(w) /\ job[w].pc \in {"claimed", "defer", "nackNow", "nackAtMax", "acking", "refresh"}
    /\ Disturb
    /\ IF job[w].pc \in {"acking", "refresh"} THEN Finish(w) ELSE Goto(w, "refresh")
    /\ UNCHANGED <<queueVars, replica, registry, ghostVars>>

\* The marker call took effect but its reply was lost.
MarkerReplyLost(w) ==
    LET e == job[w].ev IN
    /\ At(w, "claimed")
    /\ Disturb
    /\ IF HasRoute(w, e)
       THEN Owns(e, job[w].tok) /\ ClearMarkerScript(e)
       ELSE MarkerScript(e)
    /\ Goto(w, "refresh")
    /\ UNCHANGED <<replica, registry, ghostVars>>

-----------------------------------------------------------------------------
(* The reclaim ticker of a running replica, and time. *)

Reclaim ==
    /\ \E r \in Replicas : replica[r] = "up"
    /\ ReclaimScript
    /\ UNCHANGED <<envVars, job, ghostVars>>

\* A lease outlives its worker's patience only if the worker is slow ...
WorkerOverrunsLease(e) ==
    /\ \E w \in Workers : HoldsLease(w, e)
    /\ Disturb
    /\ LeaseElapses(e)
    /\ UNCHANGED <<replica, registry, job, ghostVars>>

\* ... and always does when no worker holds it any more.
OrphanLeaseElapses(e) ==
    /\ \A w \in Workers : ~HoldsLease(w, e)
    /\ LeaseElapses(e)
    /\ UNCHANGED <<envVars, job, ghostVars>>

BackoffElapses(e) == DueArrives(e) /\ UNCHANGED <<envVars, job, ghostVars>>
MissingWindowElapses(e) == WindowElapses(e) /\ UNCHANGED <<envVars, job, ghostVars>>
DeadLetterAges(e) == RetentionElapses(e) /\ UNCHANGED <<envVars, job, ghostVars>>

AllDown == \A r \in Replicas : replica[r] = "down"

\* A running replica's reclaim ticker keeps pushing the live keys' expiry out.
LiveTTL ==
    /\ AllDown
    /\ LiveKeysExpire
    /\ UNCHANGED <<envVars, job, ghostVars>>

\* A marked live event is re-checked, and its marker's expiry pushed out, all the time.
MarkerTTL ==
    /\ AllDown \/ \A e \in payload : marker[e] = "none"
    /\ MarkerKeyExpires
    /\ UNCHANGED <<envVars, job, ghostVars>>

-----------------------------------------------------------------------------
WorkerStep(w) ==
    \/ RouteMissing(w) \/ ClearRouteMissing(w)
    \/ AttemptsExhausted(w) \/ CapacityFull(w) \/ StartDelivery(w)
    \/ DeliveryReturns(w) \/ FinalizeSucceeds(w) \/ FinalizeFails(w)
    \/ Ack(w) \/ Nack(w) \/ Defer(w) \/ Refresh(w)

Next ==
    \/ \E r \in Replicas : \/ \E reg \in Registries : StartReplica(r, reg)
                           \/ StopReplica(r) \/ Stopped(r) \/ Crash(r)
                           \/ \E e \in Events : Enqueue(r, e)
    \/ \E w \in Workers : \/ \E e \in Events : Claim(w, e) \/ ClaimReplyLost(w, e)
                          \/ WorkerStep(w)
                          \/ Heartbeat(w) \/ HeartbeatFails(w)
                          \/ CallFails(w) \/ MarkerReplyLost(w)
    \/ \E e \in Events : \/ Replay(e)
                         \/ BackoffElapses(e) \/ MissingWindowElapses(e) \/ DeadLetterAges(e)
                         \/ WorkerOverrunsLease(e) \/ OrphanLeaseElapses(e)
    \/ Reclaim \/ LiveTTL \/ MarkerTTL

Spec == Init /\ [][Next]_vars
\* Workers, tickers and the passage of time go on; an operator restarts a stopped
\* replica.  Nothing obliges a producer to enqueue or a disturbance to happen.
Fairness ==
    /\ \A w \in Workers : /\ WF_vars(\E e \in Events : Claim(w, e))
                         /\ WF_vars(WorkerStep(w))
    /\ \A r \in Replicas : /\ WF_vars(\E reg \in Registries : StartReplica(r, reg))
                          /\ WF_vars(Stopped(r))
    /\ \A e \in Events : /\ WF_vars(BackoffElapses(e)) /\ WF_vars(MissingWindowElapses(e))
                        /\ WF_vars(OrphanLeaseElapses(e))
    /\ WF_vars(Reclaim)

FairSpec == Spec /\ Fairness

-----------------------------------------------------------------------------
(* Safety. *)

\* The five live keys agree, whatever order scripts of different workers ran in:
\* a payload is in exactly one of ready and leased, a token exists exactly for a
\* leased event, and no event is live and dead-lettered at once.
LiveKeysAgree ==
    \A e \in Events :
        /\ (ready[e] # "no" \/ leased[e] # "no") <=> e \in payload
        /\ ready[e] = "no" \/ leased[e] = "no"
        /\ tokens[e] # NoToken <=> leased[e] # "no"
        /\ e \in payload => dlq[e] = "no"

\* Fencing: however many workers still remember an event, at most one of them passes
\* the token check, and it remembers the attempt number the queue has stored.
OneOwner ==
    \A e \in Events : \A w \in Workers : HoldsLease(w, e) =>
        /\ job[w].att = attempts[e]
        /\ \A v \in Workers : HoldsLease(v, e) => v = w

\* Waiting is free: an attempt that did not become a callback is the one being
\* claimed right now or was cost by a disturbance, never by a missing route or a
\* route at capacity.
AttemptsAccounted ==
    \A e \in Events : attempts[e] <= delivered[e] + disturbed + 1

\* The retry budget: an event is called back at most MaxAttempts times between
\* becoming ready afresh and its dead letter.
DeliveriesBounded ==
    \A e \in Events : delivered[e] <= MaxAttempts

\* Whatever order scripts, stalls, restarts and lost answers come in: the queue's keys
\* agree about every event and at most one worker holds an event's lease.
QueueSound == TypeOK /\ LiveKeysAgree /\ OneOwner

\* The counter that is compared with MaxAttempts is spent on calls and on disturbances
\* only, and so bounds the calls.
BudgetKept == AttemptsAccounted /\ DeliveriesBounded

-----------------------------------------------------------------------------
(* What the queue promises its producers. *)

StatusOf(e) ==
    IF e \in payload THEN IF dlq[e] = "no" THEN "pending" ELSE "twice"
    ELSE IF dlq[e] # "no" THEN "dead"
    ELSE IF e \in acked THEN "done"
    ELSE IF e \in issued THEN "lost" ELSE "new"

Promise == INSTANCE DurableEvents WITH
    status <- [e \in Events |-> StatusOf(e)],
    applied <- finalized,
    serving <- ~AllDown

\* An event leaves the queue only finalized and acked, as a dead letter, or by a
\* retention: never by a lost lease, a crash, a failed call or a stale worker.
KeepsPromise == Promise!Spec

-----------------------------------------------------------------------------
(* Liveness. *)

\* An event that entered the live queue leaves it: acked, dead-lettered (a route that
\* never comes back included) or expired.
EventuallySettled ==
    \A e \in Events : []<>(e \notin payload)
=============================================================================
