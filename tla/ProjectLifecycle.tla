-------------------------- MODULE ProjectLifecycle --------------------------
(***************************************************************************)
(* The project lifecycle outbox: rows written in the business transaction, *)
(* and on every pod a worker that leases rows, sends them to the peer and  *)
(* records the outcome, while the peer hears of each project in order.     *)
(*                                                                         *)
(* Time is what the SQL predicates see of it: a row is due or not, and a   *)
(* lease is live or past its lease_until.  The owner of a lease is the     *)
(* process (workerIdentity), which runs one tick at a time.                *)
(***************************************************************************)
EXTENDS ProjectPods, Naturals, FiniteSets

CONSTANTS
    Ids,
    Histories,      \* which project each event may be about
    Batch,          \* lifecycleEventBatch
    PerProject,     \* lifecycleEventPerProjectDrain
    MaxAttempts,    \* lifecycleEventMaxAttempts
    MaxDisturb      \* bound on crashes, failed writes, bad configuration and stalls

None == "none"

ASSUME LifecycleAssumption ==
    /\ Ids \subseteq Nat
    /\ Histories \subseteq [Ids -> Projects]
    /\ None \notin Pods
    /\ IsFiniteSet(Pods)
    /\ {Batch, PerProject, MaxAttempts} \subseteq Nat \ {0}
    /\ MaxDisturb \in Nat

VARIABLES
    projectOf, status, attempts, owner, lease, due,    \* octo_project_lifecycle_event
    tick,       \* each pod's delivery tick
    late,       \* requests whose sender has stopped waiting for them
    got,        \* events the peer has received at least once
    sends,      \* requests made for each event
    disturbed

rowVars == <<projectOf, status, attempts, owner, lease, due>>
peerVars == <<late, got, sends>>
vars == <<rowVars, tick, peerVars, disturbed>>

Idle == [pc |-> "idle", batch |-> {}, held |-> {}, cur |-> 0, n |-> 0,
         charged |-> [e \in Ids |-> 0], answer |-> None]

Tick == [pc : {"idle", "batch", "sending", "answered", "drain"},
         batch : SUBSET Ids,        \* claimed and not yet looked at
         held : SUBSET Ids,         \* leaseSet
         cur : Ids \cup {0},
         n : 0..PerProject,
         charged : [Ids -> 0..MaxAttempts],  \* attempts, as the claim left it
         answer : {None, "ok", "terminal", "retry"}]

TypeOK ==
    /\ projectOf \in Histories
    /\ status \in [Ids -> {"none", "pending", "delivered", "abandoned", "gone"}]
    /\ attempts \in [Ids -> 0..MaxAttempts]
    /\ owner \in [Ids -> Pods \cup {None}]
    /\ lease \in [Ids -> {"none", "live", "expired"}]
    /\ due \in [Ids -> BOOLEAN]
    /\ tick \in [Pods -> Tick]
    /\ late \subseteq Ids /\ got \subseteq Ids
    /\ sends \in [Ids -> Nat]
    /\ disturbed \in 0..MaxDisturb

Init ==
    /\ projectOf \in Histories
    /\ status = [e \in Ids |-> "none"]
    /\ attempts = [e \in Ids |-> 0]
    /\ owner = [e \in Ids |-> None]
    /\ lease = [e \in Ids |-> "none"]
    /\ due = [e \in Ids |-> FALSE]
    /\ tick = [p \in Pods |-> Idle]
    /\ late = {} /\ got = {}
    /\ sends = [e \in Ids |-> 0]
    /\ disturbed = 0

Disturb == disturbed < MaxDisturb /\ disturbed' = disturbed + 1
At(p, pc) == tick[p].pc = pc

-----------------------------------------------------------------------------
(* The rows. *)

\* enqueueLifecycleEventTx, committed: the caller has bumped the project's row first,
\* so the ids of one project are in commit order.
Enqueue(e) ==
    /\ status[e] = "none" /\ \A i \in Ids : i < e => status[i] # "none"
    /\ status' = [status EXCEPT ![e] = "pending"]
    /\ due' = [due EXCEPT ![e] = TRUE]
    /\ UNCHANGED <<projectOf, attempts, owner, lease, tick, peerVars, disturbed>>

OlderPending(e) ==
    {i \in Ids : i < e /\ projectOf[i] = projectOf[e] /\ status[i] = "pending"}

Available(e) ==
    /\ status[e] = "pending" /\ due[e]
    /\ lease[e] # "live"
    /\ attempts[e] < MaxAttempts

\* The WHERE clause of claimLifecycleEvents.
Claimable(e) == Available(e) /\ OlderPending(e) = {}

\* Mutant: the first version of claimNextForProject, ORDER BY id LIMIT 1 alone.
ClaimableNextUnordered(e, project) ==
    /\ Available(e) /\ projectOf[e] = project
    /\ \A i \in Ids : i < e /\ projectOf[i] = project => ~Available(i)

\* The WHERE clause of claimNextForProject.
ClaimableNext(e, project) == Claimable(e) /\ projectOf[e] = project

\* Mutant: taking over the row of a dead pod is not charged again.
LeaseTakeoverFree(p, S) ==
    /\ owner' = [e \in Ids |-> IF e \in S THEN p ELSE owner[e]]
    /\ lease' = [e \in Ids |-> IF e \in S THEN "live" ELSE lease[e]]
    /\ attempts' = [e \in Ids |-> IF e \in S /\ owner[e] = None
                                  THEN attempts[e] + 1 ELSE attempts[e]]

\* The UPDATE of both claims.
Lease(p, S) ==
    /\ owner' = [e \in Ids |-> IF e \in S THEN p ELSE owner[e]]
    /\ lease' = [e \in Ids |-> IF e \in S THEN "live" ELSE lease[e]]
    /\ attempts' = [e \in Ids |-> IF e \in S THEN attempts[e] + 1 ELSE attempts[e]]

\* The fence of every later write: this process's lease, on a row still pending.
Mine(p, e) == owner[e] = p /\ status[e] = "pending"

Unlease(S) ==
    /\ owner' = [e \in Ids |-> IF e \in S THEN None ELSE owner[e]]
    /\ lease' = [e \in Ids |-> IF e \in S THEN "none" ELSE lease[e]]

\* completeLifecycleEvent
CompleteRow(p, e, s) ==
    IF Mine(p, e)
    THEN /\ status' = [status EXCEPT ![e] = s]
         /\ Unlease({e})
    ELSE UNCHANGED <<status, owner, lease>>

\* rescheduleLifecycleEvent
RescheduleRow(p, e) ==
    IF Mine(p, e)
    THEN /\ due' = [due EXCEPT ![e] = FALSE]
         /\ Unlease({e})
    ELSE UNCHANGED <<due, owner, lease>>

\* releaseUnattemptedLifecycleEvents
Refund(p, S) ==
    LET back == {e \in S : Mine(p, e)} IN
    /\ Unlease(back)
    /\ attempts' = [e \in Ids |-> IF e \in back /\ attempts[e] > 0
                                  THEN attempts[e] - 1 ELSE attempts[e]]

-----------------------------------------------------------------------------
(* One delivery tick of a pod. *)

\* claimLifecycleEvents.  SKIP LOCKED may pass over rows another claim is looking at.
ClaimBatch(p, S) ==
    /\ At(p, "idle")
    /\ S # {} /\ Cardinality(S) <= Batch
    /\ \A e \in S : Claimable(e)
    /\ Lease(p, S)
    /\ tick' = [tick EXCEPT ![p] = [Idle EXCEPT !.pc = "batch", !.batch = S, !.held = S,
                                         !.charged = [e \in Ids |-> IF e \in S
                                                         THEN attempts[e] + 1 ELSE 0]]]
    /\ UNCHANGED <<projectOf, status, due, peerVars, disturbed>>

\* lifecycleSenderOrDefault refuses the configuration: nothing is sent this tick.
SenderRefused(p) ==
    /\ At(p, "batch") /\ tick[p].batch = tick[p].held
    /\ Disturb
    /\ \/ Refund(p, tick[p].batch)
       \/ UNCHANGED <<attempts, owner, lease>>      \* and the release fails as well
    /\ tick' = [tick EXCEPT ![p] = Idle]
    /\ UNCHANGED <<projectOf, status, due, peerVars>>

\* drainProject takes the next row of the batch; Send is under way.
StartProject(p, e) ==
    /\ At(p, "batch") /\ e \in tick[p].batch
    /\ tick' = [tick EXCEPT ![p].pc = "sending", ![p].cur = e, ![p].n = 1,
                            ![p].batch = @ \ {e}]
    /\ sends' = [sends EXCEPT ![e] = @ + 1]
    /\ UNCHANGED <<rowVars, late, got, disturbed>>

\* The peer's answer arrives in time.  Only a 2xx means that it took the event.
PeerAnswers(p, answer) ==
    /\ At(p, "sending")
    /\ got' = IF answer = "ok" THEN got \cup {tick[p].cur} ELSE got
    /\ tick' = [tick EXCEPT ![p].pc = "answered", ![p].answer = answer]
    /\ UNCHANGED <<rowVars, late, sends, disturbed>>

\* LifecycleEventTimeout, or a broken connection: the request may still be on its way.
SendTimesOut(p) ==
    /\ At(p, "sending")
    /\ late' = late \cup {tick[p].cur}
    /\ tick' = [tick EXCEPT ![p].pc = "answered", ![p].answer = "retry"]
    /\ UNCHANGED <<rowVars, got, sends, disturbed>>

GivesUp(p) ==
    \/ tick[p].answer = "terminal"
    \/ tick[p].answer = "retry" /\ tick[p].charged[tick[p].cur] >= MaxAttempts

\* deliverLifecycleEvent on an event that is done: marked delivered or abandoned, or,
\* if the lease has changed hands, left to its new owner.  The drain goes on.
Complete(p) ==
    /\ At(p, "answered")
    /\ \/ tick[p].answer = "ok" /\ CompleteRow(p, tick[p].cur, "delivered")
       \/ GivesUp(p) /\ CompleteRow(p, tick[p].cur, "abandoned")
    /\ tick' = [tick EXCEPT ![p].pc = "drain", ![p].answer = None]
    /\ UNCHANGED <<projectOf, attempts, due, peerVars, disturbed>>

\* ... on an event still owed: the project waits for its backoff.
Reschedule(p) ==
    /\ At(p, "answered") /\ tick[p].answer = "retry" /\ ~GivesUp(p)
    /\ RescheduleRow(p, tick[p].cur)
    /\ tick' = [tick EXCEPT ![p].pc = "batch", ![p].cur = 0, ![p].n = 0, ![p].answer = None]
    /\ UNCHANGED <<projectOf, status, attempts, peerVars, disturbed>>

\* The write of the outcome fails: the row stays pending, under its lease.  Only after
\* an abandonment does the drain go on regardless.
OutcomeLost(p) ==
    /\ At(p, "answered")
    /\ Disturb
    /\ tick' = IF GivesUp(p)
               THEN [tick EXCEPT ![p].pc = "drain", ![p].answer = None]
               ELSE [tick EXCEPT ![p].pc = "batch", ![p].cur = 0, ![p].n = 0, ![p].answer = None]
    /\ UNCHANGED <<rowVars, peerVars>>

\* claimNextForProject, and the row it returns is sent.
DrainNext(p, e) ==
    /\ At(p, "drain") /\ tick[p].n < PerProject
    /\ ClaimableNext(e, projectOf[tick[p].cur])
    /\ Lease(p, {e})
    /\ tick' = [tick EXCEPT ![p].pc = "sending", ![p].cur = e, ![p].n = @ + 1,
                            ![p].held = @ \cup {e}, ![p].charged[e] = attempts[e] + 1]
    /\ sends' = [sends EXCEPT ![e] = @ + 1]
    /\ UNCHANGED <<projectOf, status, due, late, got, disturbed>>

\* Nothing to claim, an error, a row SKIP LOCKED passed over, or the drain's bound.
DrainEnds(p) ==
    /\ At(p, "drain")
    /\ tick' = [tick EXCEPT ![p].pc = "batch", ![p].cur = 0, ![p].n = 0]
    /\ UNCHANGED <<rowVars, peerVars, disturbed>>

EndTick(p) ==
    /\ At(p, "batch") /\ tick[p].batch = {}
    /\ tick' = [tick EXCEPT ![p] = Idle]
    /\ UNCHANGED <<rowVars, peerVars, disturbed>>

\* heartbeatLifecycleEventLeases: by id, for the rows this tick has claimed.
Renews(p, e) == e \in tick[p].held /\ Mine(p, e)

Heartbeat(p) ==
    /\ \E e \in Ids : Renews(p, e) /\ lease[e] = "expired"
    /\ lease' = [e \in Ids |-> IF Renews(p, e) THEN "live" ELSE lease[e]]
    /\ UNCHANGED <<projectOf, status, attempts, owner, due, tick, peerVars, disturbed>>

-----------------------------------------------------------------------------
(* The other timers, time, and what goes wrong. *)

\* Mutant: rows whose lease has run out are left alone.
ExhaustedUnleased(e) ==
    status[e] = "pending" /\ attempts[e] >= MaxAttempts /\ lease[e] = "none"

Exhausted(e) == status[e] = "pending" /\ attempts[e] >= MaxAttempts /\ lease[e] # "live"

\* abandonExhaustedLifecycleEvents
Sweep(e) ==
    /\ Exhausted(e)
    /\ status' = [status EXCEPT ![e] = "abandoned"]
    /\ Unlease({e})
    /\ UNCHANGED <<projectOf, attempts, due, tick, peerVars, disturbed>>

\* purgeFinishedLifecycleEvents: the retention of 30 days outlives ticks and requests.
Purge(e) ==
    /\ status[e] \in {"delivered", "abandoned"}
    /\ e \notin late /\ \A p \in Pods : e \notin tick[p].held
    /\ status' = [status EXCEPT ![e] = "gone"]
    /\ UNCHANGED <<projectOf, attempts, owner, lease, due, tick, peerVars, disturbed>>

BackoffElapses(e) ==
    /\ status[e] = "pending" /\ ~due[e]
    /\ due' = [due EXCEPT ![e] = TRUE]
    /\ UNCHANGED <<projectOf, status, attempts, owner, lease, tick, peerVars, disturbed>>

\* A lease nobody renews runs out, and one that is renewed if its pod stalls.
LeaseElapses(e) ==
    /\ lease[e] = "live" /\ \A p \in Pods : ~Renews(p, e)
    /\ lease' = [lease EXCEPT ![e] = "expired"]
    /\ UNCHANGED <<projectOf, status, attempts, owner, due, tick, peerVars, disturbed>>

Stall(e) ==
    /\ lease[e] = "live" /\ \E p \in Pods : Renews(p, e)
    /\ Disturb
    /\ lease' = [lease EXCEPT ![e] = "expired"]
    /\ UNCHANGED <<projectOf, status, attempts, owner, due, tick, peerVars>>

Crash(p) ==
    /\ ~At(p, "idle")
    /\ Disturb
    /\ late' = IF At(p, "sending") THEN late \cup {tick[p].cur} ELSE late
    /\ tick' = [tick EXCEPT ![p] = Idle]
    /\ UNCHANGED <<rowVars, got, sends>>

LateArrives(e) ==
    /\ e \in late
    /\ got' = got \cup {e}
    /\ late' = late \ {e}
    /\ UNCHANGED <<rowVars, tick, sends, disturbed>>

LateLost(e) ==
    /\ e \in late
    /\ late' = late \ {e}
    /\ UNCHANGED <<rowVars, tick, got, sends, disturbed>>

-----------------------------------------------------------------------------
Claims(p) == \E S \in SUBSET Ids : ClaimBatch(p, S)

PodStep(p) ==
    \/ \E e \in Ids : StartProject(p, e) \/ DrainNext(p, e)
    \/ \E a \in {"ok", "terminal", "retry"} : PeerAnswers(p, a)
    \/ SendTimesOut(p) \/ Complete(p) \/ Reschedule(p) \/ DrainEnds(p) \/ EndTick(p)

Next ==
    \/ \E p \in Pods : \/ Claims(p) \/ PodStep(p) \/ Heartbeat(p)
                       \/ SenderRefused(p) \/ OutcomeLost(p) \/ Crash(p)
    \/ \E e \in Ids : \/ Enqueue(e) \/ Sweep(e) \/ Purge(e) \/ BackoffElapses(e)
                      \/ LeaseElapses(e) \/ Stall(e) \/ LateArrives(e) \/ LateLost(e)

Spec == Init /\ [][Next]_vars

\* The pods' timers fire and their steps end (every call has a timeout); time passes.
\* Nothing makes the business transactions happen, or the disturbances.
Fairness ==
    /\ \A p \in Pods : WF_vars(Claims(p)) /\ WF_vars(PodStep(p))
    /\ \A e \in Ids : WF_vars(Sweep(e)) /\ WF_vars(BackoffElapses(e)) /\ WF_vars(LeaseElapses(e))

FairSpec == Spec /\ Fairness

-----------------------------------------------------------------------------
Feed == INSTANCE OrderedFeed

\* The outbox keeps its promise to the peer: an event is owed until the peer has it or
\* it is openly abandoned, and none overtakes an older one of its project, whatever
\* the pods, their leases and the network do.
KeepsOrder == Feed!FeedSpec

\* The claim's predicate is a lock per project across replicas: two pods whose leases
\* still stand are never sending events of the same project at once.
OneSenderPerProject ==
    \A p, q \in Pods :
        /\ p # q
        /\ At(p, "sending") /\ At(q, "sending")
        /\ Mine(p, tick[p].cur) /\ Mine(q, tick[q].cur)
        => projectOf[tick[p].cur] # projectOf[tick[q].cur]

\* Every request was charged to the budget before it was made, and no refund takes
\* back the charge of one that was: the peer is never asked more than MaxAttempts
\* times about one event.
SendsCharged == \A e \in Ids : sends[e] <= attempts[e]

\* The rows keep their types, their order and their budget, whatever pods stall or die.
OutboxSound == TypeOK /\ OneSenderPerProject /\ SendsCharged

\* No event stays owed for ever, however its deliveries end: not behind an older one,
\* not under a lease nobody serves, not with its budget spent.
EventsSettle == \A e \in Ids : []<>(status[e] # "pending")
=============================================================================
