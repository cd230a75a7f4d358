----------------------- MODULE CardActionDispatchProofs -----------------------
(* TLAPS proofs about CardActionDispatch, for every set of events, workers,  *)
(* replicas, tokens and routes and every bound: its types and keys, that it  *)
(* keeps the promise of DurableEvents, and the retry budget: every attempt   *)
(* the queue counts is accounted for, and while the running replicas share   *)
(* one route table no event is called back more than MaxAttempts times in    *)
(* one life.                                                                 *)
EXTENDS CardActionDispatch, FiniteSetTheorems, TLAPS

-----------------------------------------------------------------------------
(* Type correctness. *)

\* A worker that is not idle holds a complete lease record.
LEMMA BusyJob ==
    ASSUME TypeOK, NEW w \in Workers, Busy(w)
    PROVE  job[w] \in Job
BY DEF TypeOK, Busy

\* Moving on to another step of ProcessOne keeps the lease record.
LEMMA GotoKeepsType ==
    ASSUME TypeOK, NEW w \in Workers, Busy(w), NEW step \in Steps, Goto(w, step)
    PROVE  job' \in [Workers -> Job \cup {IdleJob}]
<1>1. job[w] \in Job
  BY BusyJob
<1>2. [job[w] EXCEPT !.pc = step] \in Job
  BY <1>1 DEF Job
<1>3. job \in [Workers -> Job \cup {IdleJob}]
  BY DEF TypeOK
<1>4. job' = [job EXCEPT ![w] = [job[w] EXCEPT !.pc = step]]
  BY DEF Goto
<1> QED
  BY <1>2, <1>3, <1>4

\* Returning from ProcessOne leaves the worker idle.
LEMMA FinishKeepsType ==
    ASSUME TypeOK, NEW w \in Workers, Finish(w)
    PROVE  job' \in [Workers -> Job \cup {IdleJob}]
BY DEF TypeOK, Finish

\* Every script leaves the nine keys well formed.
LEMMA ScriptsKeepType ==
    ASSUME QueueTypeOK, NEW e \in Events
    PROVE  /\ EnqueueScript(e) => QueueTypeOK'
           /\ \A t \in Tokens : ClaimScript(e, t) => QueueTypeOK'
           /\ AckScript(e) => QueueTypeOK'
           /\ RenewScript(e) => QueueTypeOK'
           /\ DeferScript(e) => QueueTypeOK'
           /\ \A max \in Nat : NackScript(e, max) => QueueTypeOK'
           /\ ReplayScript(e) => QueueTypeOK'
           /\ MarkerScript(e) => QueueTypeOK'
           /\ ClearMarkerScript(e) => QueueTypeOK'
           /\ DueArrives(e) => QueueTypeOK'
           /\ LeaseElapses(e) => QueueTypeOK'
           /\ WindowElapses(e) => QueueTypeOK'
           /\ RetentionElapses(e) => QueueTypeOK'
<1> USE DEF QueueTypeOK
<1>1. EnqueueScript(e) => QueueTypeOK'
  BY DEF EnqueueScript
<1>2. ASSUME NEW t \in Tokens, ClaimScript(e, t) PROVE QueueTypeOK'
  BY <1>2 DEF ClaimScript
<1>3. AckScript(e) => QueueTypeOK'
  BY DEF AckScript
<1>4. RenewScript(e) => QueueTypeOK'
  BY DEF RenewScript
<1>5. DeferScript(e) => QueueTypeOK'
  BY DEF DeferScript, Refund
<1>6. ASSUME NEW max \in Nat, NackScript(e, max) PROVE QueueTypeOK'
  <2>1. WithoutExpired(dlq) \in [Events -> {"no", "kept", "expired"}]
    BY DEF WithoutExpired
  <2>2. CASE attempts[e] >= max
    <3>1. dlq' = [WithoutExpired(dlq) EXCEPT ![e] = "kept"]
      BY <1>6, <2>2 DEF NackScript
    <3>2. dlq' \in [Events -> {"no", "kept", "expired"}]
      BY <2>1, <3>1
    <3>3. /\ leased' = [leased EXCEPT ![e] = "no"]
          /\ tokens' = [tokens EXCEPT ![e] = NoToken]
          /\ marker' = [marker EXCEPT ![e] = "none"]
          /\ payload' = payload \ {e}
          /\ attempts' = [attempts EXCEPT ![e] = 0]
          /\ ready' = ready
      BY <1>6, <2>2 DEF NackScript
    <3> QED
      BY <3>2, <3>3
  <2>3. CASE ~(attempts[e] >= max)
    BY <1>6, <2>3 DEF NackScript
  <2> QED
    BY <2>2, <2>3
<1>7. ReplayScript(e) => QueueTypeOK'
  BY DEF ReplayScript
<1>8. MarkerScript(e) => QueueTypeOK'
  BY DEF MarkerScript
<1>9. ClearMarkerScript(e) => QueueTypeOK'
  BY DEF ClearMarkerScript
<1>10. /\ DueArrives(e) => QueueTypeOK'
       /\ LeaseElapses(e) => QueueTypeOK'
       /\ WindowElapses(e) => QueueTypeOK'
       /\ RetentionElapses(e) => QueueTypeOK'
  BY DEF DueArrives, LeaseElapses, WindowElapses, RetentionElapses
<1> QED
  BY <1>1, <1>2, <1>3, <1>4, <1>5, <1>6, <1>7, <1>8, <1>9, <1>10

\* So do the scripts and expiries that work on all events at once.
LEMMA BulkScriptsKeepType ==
    ASSUME QueueTypeOK
    PROVE  /\ ReclaimScript => QueueTypeOK'
           /\ PruneScript => QueueTypeOK'
           /\ LiveKeysExpire => QueueTypeOK'
           /\ MarkerKeyExpires => QueueTypeOK'
           /\ UNCHANGED queueVars => QueueTypeOK'
<1> USE DEF QueueTypeOK
<1>1. ReclaimScript => QueueTypeOK'
  <2> SUFFICES ASSUME ReclaimScript PROVE QueueTypeOK'
    OBVIOUS
  <2>1. attempts' \in [Events -> Nat]
    BY DEF ReclaimScript, Refund
  <2> QED
    BY <2>1 DEF ReclaimScript
<1>2. PruneScript => QueueTypeOK'
  BY DEF PruneScript, WithoutExpired
<1>3. LiveKeysExpire => QueueTypeOK'
  BY DEF LiveKeysExpire
<1>4. MarkerKeyExpires => QueueTypeOK'
  BY DEF MarkerKeyExpires
<1>5. UNCHANGED queueVars => QueueTypeOK'
  BY DEF queueVars
<1> QED
  BY <1>1, <1>2, <1>3, <1>4, <1>5

\* Steps of replicas, producers, the operator and time: no job changes, or jobs
\* are dropped.
LEMMA EnvironmentKeepsType ==
    ASSUME TypeOK
    PROVE  /\ \A r \in Replicas :
                /\ \A reg \in Registries : StartReplica(r, reg) => TypeOK'
                /\ StopReplica(r) => TypeOK'
                /\ Stopped(r) => TypeOK'
                /\ Crash(r) => TypeOK'
                /\ \A e \in Events : Enqueue(r, e) => TypeOK'
           /\ \A e \in Events :
                /\ Replay(e) => TypeOK'
                /\ BackoffElapses(e) => TypeOK'
                /\ MissingWindowElapses(e) => TypeOK'
                /\ DeadLetterAges(e) => TypeOK'
                /\ WorkerOverrunsLease(e) => TypeOK'
                /\ OrphanLeaseElapses(e) => TypeOK'
           /\ Reclaim => TypeOK'
           /\ LiveTTL => TypeOK'
           /\ MarkerTTL => TypeOK'
<1> USE DispatchAssumption DEF TypeOK, envVars, ghostVars, Disturb
<1>q. QueueTypeOK
  OBVIOUS
<1>0. UNCHANGED queueVars => QueueTypeOK'
  BY <1>q, BulkScriptsKeepType
<1>1. ASSUME NEW r \in Replicas, NEW reg \in Registries, StartReplica(r, reg) PROVE TypeOK'
  BY <1>0, <1>1 DEF StartReplica
<1>2. ASSUME NEW r \in Replicas, StopReplica(r) PROVE TypeOK'
  BY <1>0, <1>2 DEF StopReplica
<1>3. ASSUME NEW r \in Replicas, Stopped(r) PROVE TypeOK'
  BY <1>0, <1>3 DEF Stopped
<1>4. ASSUME NEW r \in Replicas, Crash(r) PROVE TypeOK'
  BY <1>0, <1>4 DEF Crash
<1>5. ASSUME NEW r \in Replicas, NEW e \in Events, Enqueue(r, e) PROVE TypeOK'
  BY <1>q, <1>5, ScriptsKeepType DEF Enqueue
<1>6. ASSUME NEW e \in Events, Replay(e) PROVE TypeOK'
  BY <1>q, <1>6, ScriptsKeepType DEF Replay
<1>7. ASSUME NEW e \in Events, BackoffElapses(e) \/ MissingWindowElapses(e) \/ DeadLetterAges(e)
      PROVE  TypeOK'
  BY <1>q, <1>7, ScriptsKeepType DEF BackoffElapses, MissingWindowElapses, DeadLetterAges
<1>8. ASSUME NEW e \in Events, WorkerOverrunsLease(e) PROVE TypeOK'
  BY <1>q, <1>8, ScriptsKeepType DEF WorkerOverrunsLease
<1>9. ASSUME NEW e \in Events, OrphanLeaseElapses(e) PROVE TypeOK'
  BY <1>q, <1>9, ScriptsKeepType DEF OrphanLeaseElapses
<1>10. ASSUME Reclaim \/ LiveTTL \/ MarkerTTL PROVE TypeOK'
  BY <1>q, <1>10, BulkScriptsKeepType DEF Reclaim, LiveTTL, MarkerTTL
<1> QED
  BY <1>1, <1>2, <1>3, <1>4, <1>5, <1>6, <1>7, <1>8, <1>9, <1>10

\* Steps of a worker inside ProcessOne.
LEMMA WorkerKeepsType ==
    ASSUME TypeOK, NEW w \in Workers,
           \/ \E e \in Events : Claim(w, e) \/ ClaimReplyLost(w, e)
           \/ WorkerStep(w)
           \/ Heartbeat(w) \/ HeartbeatFails(w)
           \/ CallFails(w) \/ MarkerReplyLost(w)
    PROVE  TypeOK'
<1> DEFINE jobOK == job \in [Workers -> Job \cup {IdleJob}]
           restOK == /\ replica \in [Replicas -> {"down", "up", "stopping"}]
                     /\ registry \in [Replicas -> SUBSET Routes]
                     /\ disturbed \in Nat
                     /\ issued \in SUBSET Events
                     /\ finalized \in SUBSET Events
                     /\ acked \in SUBSET Events
                     /\ life \in [Events -> Nat]
                     /\ delivered \in [Events -> Nat]
<1>q. QueueTypeOK /\ jobOK /\ restOK
  BY DEF TypeOK
<1>t. QueueTypeOK' /\ jobOK' /\ restOK' => TypeOK'
  BY DEF TypeOK
<1>u. /\ UNCHANGED queueVars => QueueTypeOK'
      /\ PruneScript => QueueTypeOK'
  BY <1>q, BulkScriptsKeepType
<1>d. Disturb => disturbed' \in Nat
  BY <1>q, DispatchAssumption DEF Disturb
<1>j. ASSUME Busy(w) PROVE /\ job[w] \in Job
                           /\ job[w].ev \in Events
                           /\ job[w].att \in Nat
  BY <1>j, BusyJob DEF Job
<1>s. {"claimed", "defer", "nackNow", "nackAtMax", "routed",
       "delivering", "finalizing", "acking", "refresh"} = Steps
  BY DEF Steps
<1>1. ASSUME NEW e \in Events, Claim(w, e) PROVE TypeOK'
  <2>1. QueueTypeOK'
    BY <1>1, <1>q, ScriptsKeepType DEF Claim
  <2>2. jobOK'
    <3>1. PICK t \in Tokens \ TokensInUse :
             job' = IF e \in payload
                    THEN [job EXCEPT ![w] = [pc |-> "claimed", ev |-> e, tok |-> t,
                             att |-> attempts[e] + 1, slot |-> FALSE, hbLost |-> FALSE,
                             life |-> life[e]]]
                    ELSE job
      BY <1>1 DEF Claim
    <3>2. [pc |-> "claimed", ev |-> e, tok |-> t,
             att |-> attempts[e] + 1, slot |-> FALSE, hbLost |-> FALSE,
             life |-> life[e]] \in Job
      BY <1>q, <1>s DEF Job, QueueTypeOK
    <3> QED
      BY <3>1, <3>2, <1>q
  <2>3. restOK'
    BY <1>1, <1>q DEF Claim, envVars, ghostVars
  <2> QED
    BY <2>1, <2>2, <2>3, <1>t
<1>2. ASSUME NEW e \in Events, ClaimReplyLost(w, e) PROVE TypeOK'
  <2>1. QueueTypeOK'
    BY <1>2, <1>q, ScriptsKeepType DEF ClaimReplyLost
  <2> QED
    BY <1>2, <2>1, <1>q, <1>d, <1>t DEF ClaimReplyLost, ghostVars
<1>3. CASE RouteMissing(w)
  <2>1. Busy(w)
    BY <1>3 DEF RouteMissing, At
  <2>2. QueueTypeOK'
    BY <1>3, <2>1, <1>q, <1>j, ScriptsKeepType DEF RouteMissing
  <2>3. jobOK'
    BY <1>3, <2>1, <1>s, GotoKeepsType DEF RouteMissing
  <2> QED
    BY <1>3, <2>2, <2>3, <1>q, <1>t DEF RouteMissing, envVars, ghostVars
<1>4. CASE ClearRouteMissing(w)
  <2>1. Busy(w)
    BY <1>4 DEF ClearRouteMissing, At
  <2>2. QueueTypeOK'
    BY <1>4, <2>1, <1>q, <1>u, <1>j, ScriptsKeepType DEF ClearRouteMissing
  <2>3. jobOK'
    BY <1>4, <2>1, <1>s, GotoKeepsType DEF ClearRouteMissing
  <2> QED
    BY <1>4, <2>2, <2>3, <1>q, <1>t DEF ClearRouteMissing, envVars, ghostVars
<1>5. CASE AttemptsExhausted(w) \/ CapacityFull(w) \/ DeliveryReturns(w)
  <2>1. Busy(w)
    BY <1>5 DEF AttemptsExhausted, CapacityFull, DeliveryReturns, At
  <2>2. jobOK'
    BY <1>5, <2>1, <1>s, GotoKeepsType DEF AttemptsExhausted, CapacityFull, DeliveryReturns
  <2> QED
    BY <1>5, <2>2, <1>q, <1>t, <1>u
    DEF AttemptsExhausted, CapacityFull, DeliveryReturns, envVars, ghostVars
<1>6. CASE StartDelivery(w)
  <2>1. Busy(w)
    BY <1>6 DEF StartDelivery, At
  <2>2. jobOK'
    <3>1. [job[w] EXCEPT !.pc = "delivering", !.slot = TRUE] \in Job
      BY <1>j, <2>1, <1>s DEF Job
    <3>2. job' = [job EXCEPT ![w] = [job[w] EXCEPT !.pc = "delivering", !.slot = TRUE]]
      BY <1>6, <1>q DEF StartDelivery
    <3> QED
      BY <3>1, <3>2, <1>q
  <2>3. delivered' \in [Events -> Nat]
    BY <1>6, <2>1, <1>j, <1>q DEF StartDelivery
  <2> QED
    BY <1>6, <2>2, <2>3, <1>q, <1>t, <1>u DEF StartDelivery, envVars
<1>7. CASE Heartbeat(w) \/ HeartbeatFails(w)
  <2>1. Busy(w)
    BY <1>7 DEF Heartbeat, HeartbeatFails, At
  <2>2. QueueTypeOK'
    BY <1>7, <2>1, <1>q, <1>u, <1>j, ScriptsKeepType DEF Heartbeat, HeartbeatFails
  <2>3. jobOK'
    <3>1. [job[w] EXCEPT !.hbLost = TRUE] \in Job
      BY <1>j, <2>1 DEF Job
    <3>2. job' = job \/ job' = [job EXCEPT ![w] = [job[w] EXCEPT !.hbLost = TRUE]]
      BY <1>7, <1>q DEF Heartbeat, HeartbeatFails
    <3> QED
      BY <3>1, <3>2, <1>q
  <2> QED
    BY <1>7, <2>2, <2>3, <1>q, <1>d, <1>t DEF Heartbeat, HeartbeatFails, envVars, ghostVars
<1>8. CASE FinalizeSucceeds(w) \/ FinalizeFails(w)
  <2>1. Busy(w)
    BY <1>8 DEF FinalizeSucceeds, FinalizeFails, At
  <2>2. jobOK'
    BY <1>8, <2>1, <1>s, GotoKeepsType DEF FinalizeSucceeds, FinalizeFails
  <2> QED
    BY <1>8, <2>1, <2>2, <1>j, <1>q, <1>t, <1>u
    DEF FinalizeSucceeds, FinalizeFails, envVars, ghostVars
<1>9. CASE Ack(w)
  <2>1. Busy(w)
    BY <1>9 DEF Ack, At
  <2>2. QueueTypeOK'
    BY <1>9, <2>1, <1>q, <1>j, ScriptsKeepType, BulkScriptsKeepType DEF Ack, queueVars
  <2>3. jobOK'
    BY <1>9, <2>1, <1>s, GotoKeepsType, FinishKeepsType DEF Ack
  <2> QED
    BY <1>9, <2>1, <2>2, <2>3, <1>j, <1>q, <1>t DEF Ack, envVars
<1>10. CASE Nack(w)
  <2>1. Busy(w)
    BY <1>10 DEF Nack, At
  <2>2. QueueTypeOK'
    BY <1>10, <2>1, <1>q, <1>u, <1>j, ScriptsKeepType, DispatchAssumption DEF Nack
  <2>3. jobOK'
    BY <1>10, <2>1, <1>s, GotoKeepsType DEF Nack
  <2> QED
    BY <1>10, <2>2, <2>3, <1>q, <1>t DEF Nack, envVars, ghostVars
<1>11. CASE Defer(w)
  <2>1. Busy(w)
    BY <1>11 DEF Defer, At
  <2>2. QueueTypeOK'
    BY <1>11, <2>1, <1>q, <1>u, <1>j, ScriptsKeepType DEF Defer
  <2>3. jobOK'
    BY <1>11, <2>1, <1>s, GotoKeepsType DEF Defer
  <2> QED
    BY <1>11, <2>2, <2>3, <1>q, <1>t DEF Defer, envVars, ghostVars
<1>12. CASE Refresh(w)
  <2>1. jobOK'
    BY <1>12, FinishKeepsType DEF Refresh
  <2> QED
    BY <1>12, <2>1, <1>q, <1>t, <1>u DEF Refresh, envVars, ghostVars
<1>13. CASE CallFails(w)
  <2>1. jobOK'
    BY <1>13, <1>s, GotoKeepsType, FinishKeepsType DEF CallFails
  <2> QED
    BY <1>13, <2>1, <1>q, <1>t, <1>u, <1>d DEF CallFails, ghostVars
<1>14. CASE MarkerReplyLost(w)
  <2>1. Busy(w)
    BY <1>14 DEF MarkerReplyLost, At
  <2>2. QueueTypeOK'
    BY <1>14, <2>1, <1>q, <1>j, ScriptsKeepType DEF MarkerReplyLost
  <2>3. jobOK'
    BY <1>14, <2>1, <1>s, GotoKeepsType DEF MarkerReplyLost
  <2> QED
    BY <1>14, <2>2, <2>3, <1>q, <1>t, <1>d DEF MarkerReplyLost, ghostVars
<1> QED
  BY <1>1, <1>2, <1>3, <1>4, <1>5, <1>6, <1>7, <1>8, <1>9, <1>10, <1>11, <1>12,
     <1>13, <1>14 DEF WorkerStep

\* Whatever the interleaving, the queue keys, every worker's lease and the counters
\* stay well formed.
THEOREM TypeCorrect == Spec => []TypeOK
<1>1. Init => TypeOK
  BY DispatchAssumption DEF Init, TypeOK, QueueInit, QueueTypeOK
<1>2. TypeOK /\ [Next]_vars => TypeOK'
  <2> SUFFICES ASSUME TypeOK, [Next]_vars PROVE TypeOK'
    OBVIOUS
  <2>1. CASE UNCHANGED vars
    BY <2>1, BulkScriptsKeepType DEF vars, envVars, ghostVars, TypeOK
  <2>2. CASE Next
    BY <2>2, EnvironmentKeepsType, WorkerKeepsType DEF Next
  <2> QED
    BY <2>1, <2>2
<1> QED
  BY <1>1, <1>2, PTL DEF Spec

-----------------------------------------------------------------------------
(* The five live keys agree. *)

\* Scripts that name no owner.
LEMMA FreeScriptsAgree ==
    ASSUME QueueTypeOK, LiveKeysAgree, NEW e \in Events
    PROVE  /\ EnqueueScript(e) => LiveKeysAgree'
           /\ \A t \in Tokens : ClaimScript(e, t) => LiveKeysAgree'
           /\ ReplayScript(e) => LiveKeysAgree'
           /\ MarkerScript(e) => LiveKeysAgree'
           /\ ClearMarkerScript(e) => LiveKeysAgree'
           /\ DueArrives(e) => LiveKeysAgree'
           /\ LeaseElapses(e) => LiveKeysAgree'
           /\ WindowElapses(e) => LiveKeysAgree'
           /\ RetentionElapses(e) => LiveKeysAgree'
<1> USE NoTokenAssumption DEF QueueTypeOK, LiveKeysAgree
<1>1. EnqueueScript(e) => LiveKeysAgree'
  BY DEF EnqueueScript
<1>2. ASSUME NEW t \in Tokens, ClaimScript(e, t) PROVE LiveKeysAgree'
  BY <1>2 DEF ClaimScript
<1>3. ReplayScript(e) => LiveKeysAgree'
  BY DEF ReplayScript
<1>4. /\ MarkerScript(e) => LiveKeysAgree'
      /\ ClearMarkerScript(e) => LiveKeysAgree'
      /\ WindowElapses(e) => LiveKeysAgree'
  BY DEF MarkerScript, ClearMarkerScript, WindowElapses
<1>5. DueArrives(e) => LiveKeysAgree'
  BY DEF DueArrives
<1>6. LeaseElapses(e) => LiveKeysAgree'
  BY DEF LeaseElapses
<1>7. RetentionElapses(e) => LiveKeysAgree'
  BY DEF RetentionElapses
<1> QED
  BY <1>1, <1>2, <1>3, <1>4, <1>5, <1>6, <1>7

\* Scripts that start with the token fence, run by a worker that passes it.
LEMMA OwnerScriptsAgree ==
    ASSUME QueueTypeOK, LiveKeysAgree, NEW e \in Events, NEW t \in Tokens, Owns(e, t)
    PROVE  /\ AckScript(e) => LiveKeysAgree'
           /\ RenewScript(e) => LiveKeysAgree'
           /\ DeferScript(e) => LiveKeysAgree'
           /\ \A max \in Nat : NackScript(e, max) => LiveKeysAgree'
<1> USE NoTokenAssumption DEF QueueTypeOK, LiveKeysAgree
<1>0. tokens[e] # NoToken /\ leased[e] # "no" /\ ready[e] = "no" /\ e \in payload
  BY DEF Owns
<1>1. AckScript(e) => LiveKeysAgree'
  BY <1>0 DEF AckScript
<1>2. RenewScript(e) => LiveKeysAgree'
  BY <1>0 DEF RenewScript
<1>3. DeferScript(e) => LiveKeysAgree'
  BY <1>0 DEF DeferScript
<1>4. ASSUME NEW max \in Nat, NackScript(e, max) PROVE LiveKeysAgree'
  <2>0. /\ leased' = [leased EXCEPT ![e] = "no"]
        /\ tokens' = [tokens EXCEPT ![e] = NoToken]
    BY <1>4 DEF NackScript
  <2>1. CASE attempts[e] >= max
    <3>1. /\ dlq' = [WithoutExpired(dlq) EXCEPT ![e] = "kept"]
          /\ payload' = payload \ {e}
          /\ ready' = ready
      BY <1>4, <2>1 DEF NackScript
    <3>2. \A d \in Events \ {e} : dlq[d] = "no" => dlq'[d] = "no"
      BY <3>1 DEF WithoutExpired
    <3> QED
      BY <1>0, <2>0, <3>1, <3>2
  <2>2. CASE ~(attempts[e] >= max)
    <3>1. /\ ready' = [ready EXCEPT ![e] = "waiting"]
          /\ UNCHANGED <<dlq, payload>>
      BY <1>4, <2>2 DEF NackScript
    <3> QED
      BY <1>0, <2>0, <3>1
  <2> QED
    BY <2>1, <2>2
<1> QED
  BY <1>1, <1>2, <1>3, <1>4

\* Scripts and expiries over all events.
LEMMA BulkScriptsAgree ==
    ASSUME QueueTypeOK, LiveKeysAgree
    PROVE  /\ ReclaimScript => LiveKeysAgree'
           /\ PruneScript => LiveKeysAgree'
           /\ LiveKeysExpire => LiveKeysAgree'
           /\ MarkerKeyExpires => LiveKeysAgree'
           /\ UNCHANGED queueVars => LiveKeysAgree'
<1> USE NoTokenAssumption DEF QueueTypeOK, LiveKeysAgree
<1>1. ReclaimScript => LiveKeysAgree'
  <2> SUFFICES ASSUME ReclaimScript PROVE LiveKeysAgree'
    OBVIOUS
  <2>1. PICK S \in SUBSET Expired :
           /\ leased' = [e \in Events |-> IF e \in S THEN "no" ELSE leased[e]]
           /\ tokens' = [e \in Events |-> IF e \in S THEN NoToken ELSE tokens[e]]
           /\ ready' = [e \in Events |-> IF e \in S \cap payload THEN "due" ELSE ready[e]]
           /\ UNCHANGED <<payload, dlq>>
    BY DEF ReclaimScript
  <2>2. \A e \in S : leased[e] = "expired" /\ e \in payload
    BY DEF Expired
  <2> QED
    BY <2>1, <2>2
<1>2. PruneScript => LiveKeysAgree'
  BY DEF PruneScript, WithoutExpired
<1>3. LiveKeysExpire => LiveKeysAgree'
  BY DEF LiveKeysExpire
<1>4. MarkerKeyExpires => LiveKeysAgree'
  BY DEF MarkerKeyExpires
<1>5. UNCHANGED queueVars => LiveKeysAgree'
  BY DEF queueVars
<1> QED
  BY <1>1, <1>2, <1>3, <1>4, <1>5

\* Every step runs at most one script, and an owner's script only for the owner.
LEMMA StepsAgree ==
    ASSUME TypeOK, LiveKeysAgree, [Next]_vars
    PROVE  LiveKeysAgree'
<1>q. QueueTypeOK
  BY DEF TypeOK
<1>u. UNCHANGED queueVars => LiveKeysAgree'
  BY <1>q, BulkScriptsAgree
<1>1. CASE UNCHANGED vars
  BY <1>1, <1>u DEF vars
<1>2. ASSUME NEW r \in Replicas,
             \/ \E reg \in Registries : StartReplica(r, reg)
             \/ StopReplica(r) \/ Stopped(r) \/ Crash(r)
             \/ \E e \in Events : Enqueue(r, e)
      PROVE  LiveKeysAgree'
  BY <1>2, <1>q, <1>u, FreeScriptsAgree DEF StartReplica, StopReplica, Stopped, Crash, Enqueue
<1>3. ASSUME NEW e \in Events,
             \/ Replay(e)
             \/ BackoffElapses(e) \/ MissingWindowElapses(e) \/ DeadLetterAges(e)
             \/ WorkerOverrunsLease(e) \/ OrphanLeaseElapses(e)
      PROVE  LiveKeysAgree'
  BY <1>3, <1>q, FreeScriptsAgree
  DEF Replay, BackoffElapses, MissingWindowElapses, DeadLetterAges, WorkerOverrunsLease, OrphanLeaseElapses
<1>4. CASE Reclaim \/ LiveTTL \/ MarkerTTL
  BY <1>4, <1>q, BulkScriptsAgree DEF Reclaim, LiveTTL, MarkerTTL
<1>5. ASSUME NEW w \in Workers, NEW e \in Events, Claim(w, e) \/ ClaimReplyLost(w, e)
      PROVE  LiveKeysAgree'
  BY <1>5, <1>q, FreeScriptsAgree DEF Claim, ClaimReplyLost
<1>6. ASSUME NEW w \in Workers,
             WorkerStep(w) \/ Heartbeat(w) \/ HeartbeatFails(w) \/ CallFails(w) \/ MarkerReplyLost(w)
      PROVE  LiveKeysAgree'
  <2>1. Busy(w)
    BY <1>6 DEF WorkerStep, RouteMissing, ClearRouteMissing, AttemptsExhausted, CapacityFull,
         StartDelivery, DeliveryReturns, FinalizeSucceeds, FinalizeFails, Ack, Nack, Defer, Refresh,
         Heartbeat, HeartbeatFails, CallFails, MarkerReplyLost, At
  <2>2. job[w].ev \in Events /\ job[w].tok \in Tokens /\ job[w].att \in Nat
    BY <2>1, BusyJob DEF Job
  <2>3. CASE RouteMissing(w) \/ ClearRouteMissing(w) \/ MarkerReplyLost(w)
    BY <2>2, <2>3, <1>q, <1>u, FreeScriptsAgree DEF RouteMissing, ClearRouteMissing, MarkerReplyLost
  <2>4. CASE \/ AttemptsExhausted(w) \/ CapacityFull(w) \/ StartDelivery(w)
             \/ DeliveryReturns(w) \/ FinalizeSucceeds(w) \/ FinalizeFails(w)
             \/ HeartbeatFails(w) \/ CallFails(w)
    BY <2>4, <1>u DEF AttemptsExhausted, CapacityFull, StartDelivery, DeliveryReturns,
         FinalizeSucceeds, FinalizeFails, HeartbeatFails, CallFails
  <2>5. CASE Ack(w)
    BY <2>2, <2>5, <1>q, <1>u, OwnerScriptsAgree DEF Ack, queueVars
  <2>6. CASE Nack(w)
    BY <2>2, <2>6, <1>q, <1>u, OwnerScriptsAgree, DispatchAssumption DEF Nack
  <2>7. CASE Defer(w)
    BY <2>2, <2>7, <1>q, <1>u, OwnerScriptsAgree DEF Defer
  <2>8. CASE Refresh(w)
    BY <2>8, <1>q, BulkScriptsAgree DEF Refresh
  <2>9. CASE Heartbeat(w)
    BY <2>2, <2>9, <1>q, <1>u, OwnerScriptsAgree DEF Heartbeat
  <2> QED
    BY <1>6, <2>3, <2>4, <2>5, <2>6, <2>7, <2>8, <2>9 DEF WorkerStep
<1> QED
  BY <1>1, <1>2, <1>3, <1>4, <1>5, <1>6 DEF Next

\* However the scripts of different workers interleave, a live event is in exactly one
\* of ready and leased, has a token exactly while leased, and is not dead-lettered.
THEOREM KeysAgree == Spec => []LiveKeysAgree
<1>1. Init => LiveKeysAgree
  BY DEF Init, QueueInit, LiveKeysAgree
<1>2. TypeOK /\ LiveKeysAgree /\ [Next]_vars => LiveKeysAgree'
  BY StepsAgree
<1> QED
  BY <1>1, <1>2, TypeCorrect, PTL DEF Spec

-----------------------------------------------------------------------------
(* Fencing: at most one worker passes the token check. *)

\* No two workers remember the same token, and the one whose token is current knows
\* the attempt number the queue has stored.
OwnerInv ==
    \A w \in Workers : Busy(w) =>
        /\ \A v \in Workers \ {w} : Busy(v) => job[v].tok # job[w].tok
        /\ Owns(job[w].ev, job[w].tok) => job[w].att = attempts[job[w].ev]

\* A step that claims nothing issues no token and leaves a leased event's counter alone.
TokensOnlyDrop ==
    \A e \in Events : tokens'[e] # NoToken =>
        tokens'[e] = tokens[e] /\ attempts'[e] = attempts[e]

\* A step that claims nothing gives no worker a lease, and changes none.
LeasesKept ==
    \A w \in Workers : job'[w] # IdleJob =>
        /\ Busy(w)
        /\ job'[w].ev = job[w].ev
        /\ job'[w].tok = job[w].tok
        /\ job'[w].att = job[w].att
        /\ job'[w].pc = "acking" => job[w].pc = "acking" \/ job[w].ev \in finalized'

\* Together they preserve the invariant.
LEMMA NonClaimKeepsOwner ==
    ASSUME TypeOK, OwnerInv, TokensOnlyDrop, LeasesKept
    PROVE  OwnerInv'
<1> SUFFICES ASSUME NEW w \in Workers, job'[w] # IdleJob
             PROVE  /\ \A v \in Workers \ {w} : job'[v] # IdleJob => job'[v].tok # job'[w].tok
                    /\ tokens'[job'[w].ev] = job'[w].tok => job'[w].att = attempts'[job'[w].ev]
  BY DEF OwnerInv, Busy, Owns
<1>1. Busy(w) /\ job[w].ev \in Events /\ job[w].tok \in Tokens
  BY BusyJob DEF LeasesKept, Job
<1>2. ASSUME NEW v \in Workers \ {w}, job'[v] # IdleJob PROVE job'[v].tok # job'[w].tok
  BY <1>1, <1>2 DEF LeasesKept, OwnerInv
<1>3. ASSUME tokens'[job'[w].ev] = job'[w].tok PROVE job'[w].att = attempts'[job'[w].ev]
  BY <1>1, <1>3, NoTokenAssumption DEF LeasesKept, OwnerInv, TokensOnlyDrop, Owns
<1> QED
  BY <1>2, <1>3

\* Going on, or going idle, keeps every lease.
LEMMA JobMovesKeepLeases ==
    ASSUME TypeOK, NEW w \in Workers, Busy(w)
    PROVE  /\ UNCHANGED job => LeasesKept
           /\ \A step \in Steps :
                Goto(w, step) /\ (step = "acking" => job[w].ev \in finalized') => LeasesKept
           /\ Finish(w) => LeasesKept
<1>0. job \in [Workers -> Job \cup {IdleJob}]
  BY DEF TypeOK
<1>1. UNCHANGED job => LeasesKept
  BY DEF LeasesKept, Busy
<1>2. ASSUME NEW step \in Steps, Goto(w, step), step = "acking" => job[w].ev \in finalized'
      PROVE  LeasesKept
  <2>1. job[w] \in Job
    BY BusyJob
  <2>2. job' = [job EXCEPT ![w] = [job[w] EXCEPT !.pc = step]]
    BY <1>2 DEF Goto
  <2>3. \A v \in Workers \ {w} : job'[v] = job[v]
    BY <1>0, <2>2
  <2>4. /\ job'[w].ev = job[w].ev
        /\ job'[w].tok = job[w].tok
        /\ job'[w].att = job[w].att
        /\ job'[w].pc = step
    BY <1>0, <2>1, <2>2 DEF Job
  <2> QED
    BY <1>2, <2>3, <2>4 DEF LeasesKept, Busy
<1>3. Finish(w) => LeasesKept
  BY <1>0 DEF Finish, LeasesKept, Busy
<1> QED
  BY <1>1, <1>2, <1>3

\* The scripts other than claimScript.
LEMMA ScriptsDropTokens ==
    ASSUME QueueTypeOK, LiveKeysAgree
    PROVE  /\ \A e \in Events :
                /\ EnqueueScript(e) => TokensOnlyDrop
                /\ AckScript(e) => TokensOnlyDrop
                /\ RenewScript(e) => TokensOnlyDrop
                /\ DeferScript(e) => TokensOnlyDrop
                /\ \A max \in Nat : NackScript(e, max) => TokensOnlyDrop
                /\ ReplayScript(e) => TokensOnlyDrop
                /\ MarkerScript(e) => TokensOnlyDrop
                /\ ClearMarkerScript(e) => TokensOnlyDrop
                /\ DueArrives(e) => TokensOnlyDrop
                /\ LeaseElapses(e) => TokensOnlyDrop
                /\ WindowElapses(e) => TokensOnlyDrop
                /\ RetentionElapses(e) => TokensOnlyDrop
           /\ ReclaimScript => TokensOnlyDrop
           /\ PruneScript => TokensOnlyDrop
           /\ LiveKeysExpire => TokensOnlyDrop
           /\ MarkerKeyExpires => TokensOnlyDrop
           /\ UNCHANGED queueVars => TokensOnlyDrop
<1> USE DEF QueueTypeOK, TokensOnlyDrop
<1>1. ASSUME NEW e \in Events, EnqueueScript(e) \/ ReplayScript(e) PROVE TokensOnlyDrop
  BY <1>1 DEF EnqueueScript, ReplayScript, LiveKeysAgree
<1>2. ASSUME NEW e \in Events, AckScript(e) \/ RenewScript(e) \/ DeferScript(e) PROVE TokensOnlyDrop
  BY <1>2 DEF AckScript, RenewScript, DeferScript
<1>3. ASSUME NEW e \in Events, NEW max \in Nat, NackScript(e, max) PROVE TokensOnlyDrop
  <2>1. tokens' = [tokens EXCEPT ![e] = NoToken]
    BY <1>3 DEF NackScript
  <2>2. attempts' = attempts \/ attempts' = [attempts EXCEPT ![e] = 0]
    BY <1>3 DEF NackScript
  <2> QED
    BY <2>1, <2>2
<1>4. ASSUME NEW e \in Events,
             \/ MarkerScript(e) \/ ClearMarkerScript(e) \/ DueArrives(e)
             \/ LeaseElapses(e) \/ WindowElapses(e) \/ RetentionElapses(e)
      PROVE  TokensOnlyDrop
  BY <1>4 DEF MarkerScript, ClearMarkerScript, DueArrives, LeaseElapses, WindowElapses, RetentionElapses
<1>5. ReclaimScript => TokensOnlyDrop
  BY DEF ReclaimScript
<1>6. PruneScript \/ MarkerKeyExpires \/ UNCHANGED queueVars => TokensOnlyDrop
  BY DEF PruneScript, MarkerKeyExpires, queueVars
<1>7. LiveKeysExpire => TokensOnlyDrop
  BY DEF LiveKeysExpire
<1> QED
  BY <1>1, <1>2, <1>3, <1>4, <1>5, <1>6, <1>7

\* Steps of replicas, producers, the operator and time.
LEMMA EnvironmentKeepsLeases ==
    ASSUME TypeOK, LiveKeysAgree,
           \/ \E r \in Replicas : \/ \E reg \in Registries : StartReplica(r, reg)
                                  \/ StopReplica(r) \/ Stopped(r) \/ Crash(r)
                                  \/ \E e \in Events : Enqueue(r, e)
           \/ \E e \in Events : \/ Replay(e)
                                \/ BackoffElapses(e) \/ MissingWindowElapses(e) \/ DeadLetterAges(e)
                                \/ WorkerOverrunsLease(e) \/ OrphanLeaseElapses(e)
           \/ Reclaim \/ LiveTTL \/ MarkerTTL
    PROVE  TokensOnlyDrop /\ LeasesKept
<1>q. QueueTypeOK
  BY DEF TypeOK
<1>1. TokensOnlyDrop
  BY <1>q, ScriptsDropTokens
  DEF StartReplica, StopReplica, Stopped, Crash, Enqueue, Replay, BackoffElapses, MissingWindowElapses,
      DeadLetterAges, WorkerOverrunsLease, OrphanLeaseElapses, Reclaim, LiveTTL, MarkerTTL
<1>2. CASE UNCHANGED job
  BY <1>1, <1>2 DEF LeasesKept, Busy
<1>3. CASE \E r \in Replicas : Crash(r)
  <2>1. LeasesKept
    BY <1>3 DEF Crash, LeasesKept, Busy, TypeOK
  <2> QED
    BY <1>1, <2>1
<1> QED
  BY <1>2, <1>3
  DEF StartReplica, StopReplica, Stopped, Enqueue, Replay, BackoffElapses, MissingWindowElapses,
      DeadLetterAges, WorkerOverrunsLease, OrphanLeaseElapses, Reclaim, LiveTTL, MarkerTTL

\* Steps of a worker that holds a lease record.
LEMMA WorkerStepKeepsLeases ==
    ASSUME TypeOK, LiveKeysAgree, NEW w \in Workers,
           WorkerStep(w) \/ Heartbeat(w) \/ HeartbeatFails(w) \/ CallFails(w) \/ MarkerReplyLost(w)
    PROVE  TokensOnlyDrop /\ LeasesKept
<1>q. QueueTypeOK
  BY DEF TypeOK
<1>b. Busy(w)
  BY DEF WorkerStep, RouteMissing, ClearRouteMissing, AttemptsExhausted, CapacityFull,
       StartDelivery, DeliveryReturns, FinalizeSucceeds, FinalizeFails, Ack, Nack, Defer, Refresh,
       Heartbeat, HeartbeatFails, CallFails, MarkerReplyLost, At
<1>e. job[w] \in Job /\ job[w].ev \in Events /\ job[w].att \in Nat
  BY <1>b, BusyJob DEF Job
<1>s. {"claimed", "defer", "nackNow", "nackAtMax", "routed",
       "delivering", "finalizing", "acking", "refresh"} = Steps
  BY DEF Steps
<1>u. UNCHANGED queueVars => TokensOnlyDrop
  BY <1>q, ScriptsDropTokens
<1>1. TokensOnlyDrop
  <2>1. CASE RouteMissing(w) \/ ClearRouteMissing(w) \/ MarkerReplyLost(w)
    BY <2>1, <1>e, <1>q, <1>u, ScriptsDropTokens DEF RouteMissing, ClearRouteMissing, MarkerReplyLost
  <2>2. CASE \/ AttemptsExhausted(w) \/ CapacityFull(w) \/ StartDelivery(w)
             \/ DeliveryReturns(w) \/ FinalizeSucceeds(w) \/ FinalizeFails(w)
             \/ HeartbeatFails(w) \/ CallFails(w)
    BY <2>2, <1>u DEF AttemptsExhausted, CapacityFull, StartDelivery, DeliveryReturns,
         FinalizeSucceeds, FinalizeFails, HeartbeatFails, CallFails
  <2>3. CASE Ack(w)
    BY <2>3, <1>e, <1>q, <1>u, ScriptsDropTokens DEF Ack, queueVars
  <2>4. CASE Nack(w)
    BY <2>4, <1>e, <1>q, <1>u, ScriptsDropTokens, DispatchAssumption DEF Nack
  <2>5. CASE Defer(w) \/ Refresh(w) \/ Heartbeat(w)
    BY <2>5, <1>e, <1>q, <1>u, ScriptsDropTokens DEF Defer, Refresh, Heartbeat
  <2> QED
    BY <2>1, <2>2, <2>3, <2>4, <2>5 DEF WorkerStep
<1>2. LeasesKept
  <2>1. CASE StartDelivery(w)
    <3>1. job' = [job EXCEPT ![w] = [job[w] EXCEPT !.pc = "delivering", !.slot = TRUE]]
      BY <2>1 DEF StartDelivery, TypeOK
    <3>2. \A v \in Workers \ {w} : job'[v] = job[v]
      BY <3>1 DEF TypeOK
    <3>3. /\ job'[w].ev = job[w].ev
          /\ job'[w].tok = job[w].tok
          /\ job'[w].att = job[w].att
          /\ job'[w].pc # "acking"
      BY <3>1, <1>e DEF TypeOK, Job
    <3> QED
      BY <1>b, <3>2, <3>3 DEF LeasesKept, Busy
  <2>2. CASE Heartbeat(w) \/ HeartbeatFails(w)
    <3>1. UNCHANGED job \/ job' = [job EXCEPT ![w] = [job[w] EXCEPT !.hbLost = TRUE]]
      BY <2>2 DEF Heartbeat, HeartbeatFails, TypeOK
    <3>2. \A v \in Workers \ {w} : job'[v] = job[v]
      BY <3>1 DEF TypeOK
    <3>3. /\ job'[w].ev = job[w].ev
          /\ job'[w].tok = job[w].tok
          /\ job'[w].att = job[w].att
          /\ job'[w].pc = job[w].pc
      BY <3>1, <1>e DEF TypeOK, Job
    <3> QED
      BY <1>b, <3>2, <3>3 DEF LeasesKept, Busy
  <2>3. CASE \/ RouteMissing(w) \/ ClearRouteMissing(w) \/ MarkerReplyLost(w)
             \/ AttemptsExhausted(w) \/ CapacityFull(w) \/ DeliveryReturns(w)
             \/ FinalizeSucceeds(w) \/ FinalizeFails(w) \/ CallFails(w)
             \/ Ack(w) \/ Nack(w) \/ Defer(w) \/ Refresh(w)
    <3>1. \/ Finish(w)
          \/ \E step \in Steps : Goto(w, step) /\ (step = "acking" => job[w].ev \in finalized')
      BY <2>3, <1>s DEF RouteMissing, ClearRouteMissing, MarkerReplyLost, AttemptsExhausted,
           CapacityFull, DeliveryReturns, FinalizeSucceeds, FinalizeFails, CallFails, Ack, Nack, Defer, Refresh
    <3> QED
      BY <3>1, <1>b, JobMovesKeepLeases
  <2> QED
    BY <2>1, <2>2, <2>3 DEF WorkerStep
<1> QED
  BY <1>1, <1>2

\* A claim takes a token nobody remembers, for an event that had none.
LEMMA ClaimKeepsOwner ==
    ASSUME TypeOK, LiveKeysAgree, OwnerInv, NEW w \in Workers, NEW e \in Events,
           Claim(w, e) \/ ClaimReplyLost(w, e)
    PROVE  OwnerInv'
<1>1. PICK t \in Tokens \ TokensInUse :
         /\ ClaimScript(e, t)
         /\ \/ UNCHANGED job
            \/ /\ e \in payload
               /\ job' = [job EXCEPT ![w] = [pc |-> "claimed", ev |-> e, tok |-> t,
                            att |-> attempts[e] + 1, slot |-> FALSE, hbLost |-> FALSE,
                            life |-> life[e]]]
  BY DEF Claim, ClaimReplyLost
<1>2. tokens[e] = NoToken /\ e \in payload
  BY <1>1 DEF ClaimScript, LiveKeysAgree, TypeOK, QueueTypeOK
<1>3. /\ tokens' = [tokens EXCEPT ![e] = t]
      /\ attempts' = [attempts EXCEPT ![e] = @ + 1]
  BY <1>1, <1>2 DEF ClaimScript
<1>4. \A v \in Workers : Busy(v) => job[v].tok # t /\ job[v].tok \in Tokens /\ job[v].ev \in Events
  BY BusyJob DEF TokensInUse, Job
<1>5. ~Busy(w)
  BY DEF Claim, ClaimReplyLost
<1>6. ASSUME NEW v \in Workers, Busy(v), job'[v] = job[v]
      PROVE  tokens'[job'[v].ev] = job'[v].tok => job'[v].att = attempts'[job'[v].ev]
  <2>1. CASE job[v].ev = e
    BY <1>3, <1>4, <1>6, <2>1 DEF TypeOK, QueueTypeOK
  <2>2. CASE job[v].ev # e
    BY <1>3, <1>4, <1>6, <2>2 DEF TypeOK, QueueTypeOK, OwnerInv, Owns
  <2> QED
    BY <2>1, <2>2
<1>7. CASE UNCHANGED job
  BY <1>6, <1>7 DEF OwnerInv, Busy, Owns
<1>8. CASE job' = [job EXCEPT ![w] = [pc |-> "claimed", ev |-> e, tok |-> t,
                            att |-> attempts[e] + 1, slot |-> FALSE, hbLost |-> FALSE,
                            life |-> life[e]]]
  <2>1. \A v \in Workers \ {w} : job'[v] = job[v]
    BY <1>8 DEF TypeOK
  <2>2. job'[w].ev = e /\ job'[w].tok = t /\ job'[w].att = attempts[e] + 1
    BY <1>8 DEF TypeOK
  <2>3. attempts'[e] = attempts[e] + 1
    BY <1>3 DEF TypeOK, QueueTypeOK
  <2> SUFFICES ASSUME NEW v \in Workers, job'[v] # IdleJob
               PROVE  /\ \A u \in Workers \ {v} : job'[u] # IdleJob => job'[u].tok # job'[v].tok
                      /\ tokens'[job'[v].ev] = job'[v].tok => job'[v].att = attempts'[job'[v].ev]
    BY DEF OwnerInv, Busy, Owns
  <2>4. CASE v = w
    BY <2>1, <2>2, <2>3, <2>4, <1>4 DEF Busy
  <2>5. CASE v # w
    BY <2>1, <2>2, <2>5, <1>4, <1>6 DEF Busy, OwnerInv
  <2> QED
    BY <2>4, <2>5
<1> QED
  BY <1>1, <1>7, <1>8

\* Fencing for any number of workers, crashes, lost replies and expired leases: at most
\* one worker can ack, nack, defer or renew an event.
THEOREM Fencing == Spec => []OneOwner
<1>1. Init => OwnerInv
  BY DEF Init, OwnerInv, Busy
<1>2. TypeOK /\ LiveKeysAgree /\ OwnerInv /\ [Next]_vars => OwnerInv'
  <2> SUFFICES ASSUME TypeOK, LiveKeysAgree, OwnerInv, [Next]_vars PROVE OwnerInv'
    OBVIOUS
  <2>1. CASE UNCHANGED vars
    BY <2>1 DEF vars, queueVars, OwnerInv, Busy, Owns
  <2>2. CASE Next
    BY <2>2, EnvironmentKeepsLeases, WorkerStepKeepsLeases, NonClaimKeepsOwner, ClaimKeepsOwner
    DEF Next
  <2> QED
    BY <2>1, <2>2
<1>3. OwnerInv => OneOwner
  BY DEF OwnerInv, OneOwner, HoldsLease, Owns
<1> QED
  BY <1>1, <1>2, <1>3, TypeCorrect, KeysAgree, PTL DEF Spec

\* The books of the queue, together: types, the agreement of the keys and the fence.
THEOREM QueueIsSound == Spec => []QueueSound
<1>1. TypeOK /\ LiveKeysAgree /\ OneOwner => QueueSound
  BY DEF QueueSound
<1> QED
  BY <1>1, TypeCorrect, KeysAgree, Fencing, PTL

-----------------------------------------------------------------------------
(* The dispatcher implements DurableEvents. *)

\* Where an event can still turn up: only ids that were issued are in the queue or in a
\* worker's hands, an acked event is in neither part of the queue, and a worker about
\* to ack has finalized.
Books ==
    /\ \A e \in Events : e \in payload \/ dlq[e] # "no" => e \in issued /\ e \notin acked
    /\ acked \subseteq issued
    /\ \A w \in Workers : Busy(w) =>
          /\ job[w].ev \in issued
          /\ job[w].pc = "acking" => job[w].ev \in finalized

\* A step that moves no event between the parts of the queue.
QuietQueue ==
    /\ payload' = payload
    /\ \A e \in Events : dlq'[e] = "no" <=> dlq[e] = "no"
    /\ UNCHANGED <<issued, acked>>

\* Such a step may start or end an outage, and nothing else.
LEMMA QuietIsServe ==
    ASSUME QuietQueue, finalized' = finalized
    PROVE  [Promise!Next]_(Promise!vars)
<1>1. \A e \in Events : StatusOf(e)' = StatusOf(e)
  BY DEF QuietQueue, StatusOf
<1>2. [e \in Events |-> StatusOf(e)]' = [e \in Events |-> StatusOf(e)]
  BY <1>1
<1>3. (~AllDown)' \in BOOLEAN
  BY DEF AllDown
<1> QED
  BY <1>2, <1>3 DEF Promise!Next, Promise!Serve

\* What a worker that passes the fence may rely on.
LEMMA OwnerIsLive ==
    ASSUME TypeOK, LiveKeysAgree, NEW w \in Workers, Busy(w), Owns(job[w].ev, job[w].tok)
    PROVE  job[w].ev \in payload /\ dlq[job[w].ev] = "no"
<1>1. job[w].ev \in Events /\ job[w].tok \in Tokens
  BY BusyJob DEF Job
<1> QED
  BY <1>1, NoTokenAssumption DEF LiveKeysAgree, Owns

\* The bookkeeping survives when leases are kept and the queue's population changes as allowed.
LEMMA BooksKept ==
    ASSUME TypeOK, Books, LeasesKept, issued \subseteq issued', finalized \subseteq finalized',
           acked' \subseteq issued',
           \A e \in Events : e \in payload' \/ dlq'[e] # "no" => e \in issued' /\ e \notin acked'
    PROVE  Books'
<1>1. ASSUME NEW w \in Workers, job'[w] # IdleJob
      PROVE  /\ job'[w].ev \in issued'
             /\ job'[w].pc = "acking" => job'[w].ev \in finalized'
  BY <1>1 DEF Books, LeasesKept
<1> QED
  BY <1>1 DEF Books, Busy

\* A step that moves no event keeps the books and is a step of the promise.
LEMMA QuietStep ==
    ASSUME TypeOK, Books, LeasesKept, QuietQueue, finalized' = finalized
    PROVE  Books' /\ [Promise!Next]_(Promise!vars)
<1>1. Books'
  BY BooksKept DEF QuietQueue, Books
<1> QED
  BY <1>1, QuietIsServe

\* Replicas, producers, the operator and time.
LEMMA EnvironmentImplements ==
    ASSUME TypeOK, LiveKeysAgree, Books,
           \/ \E r \in Replicas : \/ \E reg \in Registries : StartReplica(r, reg)
                                  \/ StopReplica(r) \/ Stopped(r) \/ Crash(r)
                                  \/ \E e \in Events : Enqueue(r, e)
           \/ \E e \in Events : \/ Replay(e)
                                \/ BackoffElapses(e) \/ MissingWindowElapses(e) \/ DeadLetterAges(e)
                                \/ WorkerOverrunsLease(e) \/ OrphanLeaseElapses(e)
           \/ Reclaim \/ LiveTTL \/ MarkerTTL
    PROVE  Books' /\ [Promise!Next]_(Promise!vars)
<1> DEFINE st == [e \in Events |-> StatusOf(e)]
<1>l. LeasesKept
  BY EnvironmentKeepsLeases
<1>t. QueueTypeOK
  BY DEF TypeOK
<1>1. CASE \E r \in Replicas :
             \/ \E reg \in Registries : StartReplica(r, reg)
             \/ StopReplica(r) \/ Stopped(r) \/ Crash(r)
  <2>1. QuietQueue /\ finalized' = finalized
    BY <1>1 DEF StartReplica, StopReplica, Stopped, Crash, QuietQueue, queueVars, ghostVars
  <2> QED
    BY <2>1, <1>l, QuietStep
<1>2. CASE \E e \in Events :
             \/ BackoffElapses(e) \/ MissingWindowElapses(e) \/ DeadLetterAges(e)
             \/ WorkerOverrunsLease(e) \/ OrphanLeaseElapses(e)
  <2>1. QuietQueue /\ finalized' = finalized
    BY <1>2, <1>t DEF BackoffElapses, MissingWindowElapses, DeadLetterAges, WorkerOverrunsLease,
       OrphanLeaseElapses, DueArrives, WindowElapses, RetentionElapses, LeaseElapses,
       QuietQueue, ghostVars, QueueTypeOK
  <2> QED
    BY <2>1, <1>l, QuietStep
<1>3. CASE Reclaim \/ MarkerTTL
  <2>1. QuietQueue /\ finalized' = finalized
    BY <1>3 DEF Reclaim, MarkerTTL, ReclaimScript, MarkerKeyExpires, QuietQueue, ghostVars
  <2> QED
    BY <2>1, <1>l, QuietStep
<1>4. ASSUME NEW r \in Replicas, NEW e \in Events, Enqueue(r, e)
      PROVE  Books' /\ [Promise!Next]_(Promise!vars)
  <2>1. /\ e \notin issued /\ e \notin payload /\ dlq[e] = "no" /\ e \notin acked
        /\ payload' = payload \cup {e}
        /\ issued' = issued \cup {e}
        /\ UNCHANGED <<dlq, finalized, acked, replica>>
        /\ replica[r] = "up"
    BY <1>4 DEF Enqueue, EnqueueScript, envVars, Books
  <2>2. Books'
    BY <2>1, <1>l, BooksKept DEF Books
  <2>3. ~AllDown /\ (~AllDown)' = ~AllDown
    BY <2>1 DEF AllDown
  <2>4. st[e] = "new" /\ st' = [st EXCEPT ![e] = "pending"]
    BY <2>1 DEF StatusOf
  <2>5. Promise!Take(e)
    BY <2>1, <2>3, <2>4 DEF Promise!Take, Promise!Move
  <2> QED
    BY <2>2, <2>5 DEF Promise!Next
<1>5. ASSUME NEW e \in Events, Replay(e)
      PROVE  Books' /\ [Promise!Next]_(Promise!vars)
  <2>1. /\ dlq[e] # "no" /\ e \notin payload
        /\ payload' = payload \cup {e}
        /\ dlq' = [dlq EXCEPT ![e] = "no"]
        /\ UNCHANGED <<issued, finalized, acked, replica>>
    BY <1>5 DEF Replay, ReplayScript, LiveKeysAgree
  <2>2. Books'
    BY <2>1, <1>l, <1>t, BooksKept DEF Books, QueueTypeOK
  <2>3. (~AllDown)' = ~AllDown
    BY <2>1 DEF AllDown
  <2>4. st[e] = "dead" /\ st' = [st EXCEPT ![e] = "pending"]
    BY <2>1, <1>t DEF StatusOf, QueueTypeOK
  <2>5. Promise!Requeue(e)
    BY <2>1, <2>3, <2>4 DEF Promise!Requeue, Promise!Move
  <2> QED
    BY <2>2, <2>5 DEF Promise!Next
<1>6. CASE LiveTTL
  <2>1. /\ AllDown
        /\ payload' = {}
        /\ UNCHANGED <<dlq, issued, finalized, acked, replica>>
    BY <1>6 DEF LiveTTL, LiveKeysExpire, envVars, ghostVars
  <2>2. Books'
    BY <2>1, <1>l, BooksKept DEF Books
  <2>3. AllDown /\ (~AllDown)' = ~AllDown
    BY <2>1 DEF AllDown
  <2> DEFINE old == {d \in Events : st[d] = "pending"}
  <2>4. st' = [d \in Events |-> IF d \in old THEN "lost" ELSE st[d]]
    BY <2>1 DEF StatusOf, LiveKeysAgree, Books
  <2>5. Promise!Forget("pending")
    BY <2>1, <2>3, <2>4 DEF Promise!Forget
  <2> QED
    BY <2>2, <2>5 DEF Promise!Next
<1> QED
  BY <1>1, <1>2, <1>3, <1>4, <1>5, <1>6

\* A dead-lettering nack parks its event and forgets dead letters past retention.
LEMMA NackImplements ==
    ASSUME TypeOK, LiveKeysAgree, Books, LeasesKept, NEW e \in Events, NEW max \in Nat,
           e \in payload, dlq[e] = "no", NackScript(e, max),
           UNCHANGED <<issued, finalized, acked, replica>>
    PROVE  Books' /\ [Promise!Next]_(Promise!vars)
<1> DEFINE st == [d \in Events |-> StatusOf(d)]
<1>t. QueueTypeOK
  BY DEF TypeOK
<1>1. CASE ~(attempts[e] >= max)
  <2>1. QuietQueue
    BY <1>1 DEF NackScript, QuietQueue
  <2> QED
    BY <2>1, QuietStep
<1>2. CASE attempts[e] >= max
  <2>1. /\ payload' = payload \ {e}
        /\ dlq' = [WithoutExpired(dlq) EXCEPT ![e] = "kept"]
    BY <1>2 DEF NackScript
  <2> DEFINE old == {d \in Events : dlq[d] = "expired"}
  <2>2. \A d \in Events : dlq'[d] = IF d = e THEN "kept" ELSE IF d \in old THEN "no" ELSE dlq[d]
    BY <2>1, <1>t DEF WithoutExpired, QueueTypeOK
  <2>3. Books'
    BY <2>1, <2>2, BooksKept DEF Books
  <2>4. (~AllDown)' = ~AllDown
    BY DEF AllDown
  <2>5. /\ st[e] = "pending"
        /\ old \in SUBSET {d \in Events : st[d] = "dead"}
    BY DEF StatusOf, LiveKeysAgree
  <2>6. st' = [d \in Events |-> IF d = e THEN "dead" ELSE IF d \in old THEN "lost" ELSE st[d]]
    <3>1. ASSUME NEW d \in Events
          PROVE  StatusOf(d)' = IF d = e THEN "dead" ELSE IF d \in old THEN "lost" ELSE StatusOf(d)
      <4>1. d # e => (d \in payload' <=> d \in payload)
        BY <2>1
      <4>2. e \notin payload'
        BY <2>1
      <4> HIDE DEF old
      <4>3. d \in old => d \in issued /\ d \notin acked /\ d \notin payload /\ dlq[d] # "no"
        BY DEF old, Books, LiveKeysAgree
      <4> QED
        BY <2>2, <4>1, <4>2, <4>3 DEF StatusOf
    <3> QED
      BY <3>1
  <2>7. Promise!Park(e)
    BY <2>4, <2>5, <2>6 DEF Promise!Park
  <2> QED
    BY <2>3, <2>7 DEF Promise!Next
<1> QED
  BY <1>1, <1>2

\* Steps of a worker that holds a lease record.
LEMMA WorkerStepImplements ==
    ASSUME TypeOK, LiveKeysAgree, Books, NEW w \in Workers,
           WorkerStep(w) \/ Heartbeat(w) \/ HeartbeatFails(w) \/ CallFails(w) \/ MarkerReplyLost(w)
    PROVE  Books' /\ [Promise!Next]_(Promise!vars)
<1> DEFINE st == [e \in Events |-> StatusOf(e)]
           ev == job[w].ev
<1>l. LeasesKept
  BY WorkerStepKeepsLeases
<1>t. QueueTypeOK
  BY DEF TypeOK
<1>b. Busy(w)
  BY DEF WorkerStep, RouteMissing, ClearRouteMissing, AttemptsExhausted, CapacityFull,
       StartDelivery, DeliveryReturns, FinalizeSucceeds, FinalizeFails, Ack, Nack, Defer, Refresh,
       Heartbeat, HeartbeatFails, CallFails, MarkerReplyLost, At
<1>e. ev \in Events /\ job[w].att \in Nat /\ ev \in issued
  BY <1>b, BusyJob DEF Job, Books
<1>1. CASE \/ RouteMissing(w) \/ ClearRouteMissing(w) \/ MarkerReplyLost(w)
           \/ AttemptsExhausted(w) \/ CapacityFull(w) \/ StartDelivery(w) \/ DeliveryReturns(w)
           \/ FinalizeFails(w) \/ HeartbeatFails(w) \/ CallFails(w)
  <2>1. QuietQueue /\ finalized' = finalized
    BY <1>1 DEF RouteMissing, ClearRouteMissing, MarkerReplyLost, AttemptsExhausted, CapacityFull,
       StartDelivery, DeliveryReturns, FinalizeFails, HeartbeatFails, CallFails,
       MarkerScript, ClearMarkerScript, QuietQueue, queueVars, ghostVars
  <2> QED
    BY <2>1, <1>l, QuietStep
<1>2. CASE Defer(w) \/ Heartbeat(w)
  <2>1. QuietQueue /\ finalized' = finalized
    BY <1>2 DEF Defer, Heartbeat, DeferScript, RenewScript, QuietQueue, queueVars, ghostVars
  <2> QED
    BY <2>1, <1>l, QuietStep
<1>3. CASE FinalizeSucceeds(w)
  <2>1. /\ finalized' = finalized \cup {ev}
        /\ UNCHANGED <<payload, dlq, issued, acked, replica>>
    BY <1>3 DEF FinalizeSucceeds, queueVars, envVars
  <2>2. Books'
    BY <2>1, <1>l, BooksKept DEF Books
  <2>3. (~AllDown)' = ~AllDown /\ st' = st
    BY <2>1 DEF AllDown, StatusOf
  <2>4. st[ev] # "new"
    BY <1>e DEF StatusOf
  <2>5. Promise!Apply(ev)
    BY <2>1, <2>3, <2>4 DEF Promise!Apply
  <2> QED
    BY <1>e, <2>2, <2>5 DEF Promise!Next
<1>4. CASE Ack(w)
  <2>1. CASE ~Owns(ev, job[w].tok)
    <3>1. QuietQueue /\ finalized' = finalized
      BY <1>4, <2>1 DEF Ack, QuietQueue, queueVars
    <3> QED
      BY <3>1, <1>l, QuietStep
  <2>2. CASE Owns(ev, job[w].tok)
    <3>1. /\ payload' = payload \ {ev}
          /\ acked' = acked \cup {ev}
          /\ UNCHANGED <<dlq, issued, finalized, replica>>
          /\ job[w].pc = "acking"
      BY <1>4, <2>2 DEF Ack, AckScript, envVars, At
    <3>2. ev \in payload /\ dlq[ev] = "no" /\ ev \in finalized
      BY <1>b, <2>2, <3>1, OwnerIsLive DEF Books
    <3>3. Books'
      BY <3>1, <3>2, <1>e, <1>l, BooksKept DEF Books
    <3>4. (~AllDown)' = ~AllDown
      BY <3>1 DEF AllDown
    <3>5. st[ev] = "pending" /\ st' = [st EXCEPT ![ev] = "done"]
      BY <3>1, <3>2, <1>e DEF StatusOf
    <3>6. Promise!Settle(ev)
      BY <3>1, <3>2, <3>4, <3>5 DEF Promise!Settle, Promise!Move
    <3> QED
      BY <1>e, <3>3, <3>6 DEF Promise!Next
  <2> QED
    BY <2>1, <2>2
<1>5. CASE Nack(w)
  <2>0. UNCHANGED <<issued, finalized, acked, replica>>
    BY <1>5 DEF Nack, envVars, ghostVars
  <2>1. CASE ~Owns(ev, job[w].tok)
    <3>1. QuietQueue
      BY <1>5, <2>1, <2>0 DEF Nack, QuietQueue, queueVars
    <3> QED
      BY <2>0, <3>1, <1>l, QuietStep
  <2>2. CASE Owns(ev, job[w].tok)
    <3>1. \E max \in Nat : NackScript(ev, max)
      BY <1>5, <1>e, <2>2, DispatchAssumption DEF Nack
    <3>2. ev \in payload /\ dlq[ev] = "no"
      BY <1>b, <2>2, OwnerIsLive
    <3> QED
      BY <2>0, <3>1, <3>2, <1>e, <1>l, NackImplements
  <2> QED
    BY <2>1, <2>2
<1>6. CASE Refresh(w)
  <2>1. /\ UNCHANGED <<payload, issued, finalized, acked, replica>>
        /\ dlq' = WithoutExpired(dlq)
    BY <1>6 DEF Refresh, PruneScript, envVars, ghostVars
  <2> DEFINE old == {d \in Events : dlq[d] = "expired"}
  <2>2. \A d \in Events : dlq'[d] = IF d \in old THEN "no" ELSE dlq[d]
    BY <2>1 DEF WithoutExpired
  <2>3. Books'
    BY <2>1, <2>2, <1>l, BooksKept DEF Books
  <2>4. (~AllDown)' = ~AllDown
    BY <2>1 DEF AllDown
  <2>5. old \in SUBSET {d \in Events : st[d] = "dead"}
    BY DEF StatusOf, LiveKeysAgree
  <2>6. st' = [d \in Events |-> IF d \in old THEN "lost" ELSE st[d]]
    BY <2>1, <2>2 DEF StatusOf, Books, LiveKeysAgree
  <2>7. Promise!Forget("dead")
    BY <2>1, <2>4, <2>5, <2>6 DEF Promise!Forget
  <2> QED
    BY <2>3, <2>7 DEF Promise!Next
<1> QED
  BY <1>1, <1>2, <1>3, <1>4, <1>5, <1>6 DEF WorkerStep

\* A claim moves nothing between the parts of the queue: it only takes live events.
LEMMA ClaimImplements ==
    ASSUME TypeOK, LiveKeysAgree, Books, NEW w \in Workers, NEW e \in Events,
           Claim(w, e) \/ ClaimReplyLost(w, e)
    PROVE  Books' /\ [Promise!Next]_(Promise!vars)
<1>1. /\ QuietQueue /\ finalized' = finalized
      /\ e \in payload
  BY DEF Claim, ClaimReplyLost, ClaimScript, QuietQueue, ghostVars, LiveKeysAgree
<1>2. \/ UNCHANGED job
      \/ \E t \in Tokens :
           job' = [job EXCEPT ![w] = [pc |-> "claimed", ev |-> e, tok |-> t,
                     att |-> attempts[e] + 1, slot |-> FALSE, hbLost |-> FALSE, life |-> life[e]]]
  BY DEF Claim, ClaimReplyLost
<1>3. ASSUME NEW v \in Workers, job'[v] # IdleJob
      PROVE  /\ job'[v].ev \in issued
             /\ job'[v].pc = "acking" => job'[v].ev \in finalized
  <2>1. CASE job'[v] = job[v]
    BY <1>3, <2>1 DEF Books, Busy
  <2>2. CASE job'[v].ev = e /\ job'[v].pc = "claimed"
    BY <2>2, <1>1 DEF Books
  <2>3. job'[v] = job[v] \/ (job'[v].ev = e /\ job'[v].pc = "claimed")
    BY <1>2 DEF TypeOK
  <2> QED
    BY <2>1, <2>2, <2>3
<1>4. Books'
  BY <1>1, <1>3 DEF Books, Busy, QuietQueue
<1> QED
  BY <1>1, <1>4, QuietIsServe

\* The dispatcher keeps the queue's promise: for any number of events, workers, replicas
\* and disturbances, an event leaves the queue only finalized and acked, parked as a dead
\* letter, or by a retention.
THEOREM KeepsThePromise == Spec => KeepsPromise
<1>1. Init => Books /\ Promise!Init
  <2> SUFFICES ASSUME Init PROVE Books /\ Promise!Init
    OBVIOUS
  <2>1. Books
    BY DEF Init, QueueInit, Books, Busy
  <2>2. AllDown \/ Replicas = {}
    BY DEF Init, AllDown
  <2>3. [e \in Events |-> StatusOf(e)] = [e \in Events |-> "new"]
    BY DEF Init, QueueInit, StatusOf
  <2> QED
    BY <2>1, <2>2, <2>3 DEF Init, Promise!Init, AllDown
<1>2. TypeOK /\ LiveKeysAgree /\ Books /\ [Next]_vars => Books' /\ [Promise!Next]_(Promise!vars)
  <2> SUFFICES ASSUME TypeOK, LiveKeysAgree, Books, [Next]_vars
               PROVE  Books' /\ [Promise!Next]_(Promise!vars)
    OBVIOUS
  <2>1. CASE UNCHANGED vars
    <3>1. QuietQueue /\ finalized' = finalized /\ LeasesKept
      BY <2>1 DEF vars, queueVars, ghostVars, QuietQueue, LeasesKept, Busy
    <3> QED
      BY <3>1, QuietStep
  <2>2. CASE Next
    BY <2>2, EnvironmentImplements, WorkerStepImplements, ClaimImplements DEF Next
  <2> QED
    BY <2>1, <2>2
<1> QED
  BY <1>1, <1>2, TypeCorrect, KeysAgree, PTL DEF Spec, KeepsPromise, Promise!Spec

-----------------------------------------------------------------------------
(* How a worker's lease record moves. *)

\* At most w's record changes, and only in the step it is at, its slot and its heartbeat.
OneMoves(w) ==
    /\ \A v \in Workers \ {w} : job'[v] = job[v]
    /\ job'[w] # IdleJob =>
          /\ Busy(w)
          /\ job'[w].ev = job[w].ev
          /\ job'[w].tok = job[w].tok
          /\ job'[w].att = job[w].att
          /\ job'[w].life = job[w].life

\* Records are told from idleness by their step.
LEMMA IdleIsNoJob == IdleJob \notin Job
BY DEF IdleJob, Job, Steps

\* Going to another step changes nothing else.
LEMMA GotoMoves ==
    ASSUME TypeOK, NEW w \in Workers, Busy(w), NEW step \in Steps, Goto(w, step)
    PROVE  /\ OneMoves(w)
           /\ job'[w] # IdleJob
           /\ job'[w].pc = step
           /\ job'[w].slot = job[w].slot
<1>1. job[w] \in Job /\ job \in [Workers -> Job \cup {IdleJob}]
  BY BusyJob DEF TypeOK
<1>2. job' = [job EXCEPT ![w] = [job[w] EXCEPT !.pc = step]]
  BY DEF Goto
<1>3. [job[w] EXCEPT !.pc = step] \in Job
  BY <1>1 DEF Job
<1>4. job'[w] = [job[w] EXCEPT !.pc = step] /\ \A v \in Workers \ {w} : job'[v] = job[v]
  BY <1>1, <1>2
<1>5. job'[w] # IdleJob
  BY <1>3, <1>4, IdleIsNoJob
<1>6. /\ job'[w].pc = step
      /\ job'[w].slot = job[w].slot
      /\ job'[w].ev = job[w].ev
      /\ job'[w].tok = job[w].tok
      /\ job'[w].att = job[w].att
      /\ job'[w].life = job[w].life
  BY <1>1, <1>4 DEF Job
<1> QED
  BY <1>4, <1>5, <1>6 DEF OneMoves

\* Returning from ProcessOne.
LEMMA FinishMoves ==
    ASSUME TypeOK, NEW w \in Workers, Finish(w)
    PROVE  OneMoves(w) /\ job'[w] = IdleJob
BY DEF TypeOK, Finish, OneMoves

\* A step that touches no record.
LEMMA StillMoves ==
    ASSUME UNCHANGED job, NEW w \in Workers
    PROVE  OneMoves(w)
BY DEF OneMoves, Busy

\* Where each step of ProcessOne goes.
LEMMA DeliveryMoves ==
    ASSUME TypeOK, NEW w \in Workers, StartDelivery(w)
    PROVE  /\ OneMoves(w)
           /\ job'[w] # IdleJob
           /\ job'[w].pc = "delivering"
           /\ job'[w].slot
<1>1. Busy(w)
  BY DEF StartDelivery, At
<1>2. job[w] \in Job /\ job \in [Workers -> Job \cup {IdleJob}]
  BY <1>1, BusyJob DEF TypeOK
<1>3. job' = [job EXCEPT ![w] = [job[w] EXCEPT !.pc = "delivering", !.slot = TRUE]]
  BY <1>2 DEF StartDelivery
<1>4. [job[w] EXCEPT !.pc = "delivering", !.slot = TRUE] \in Job
  BY <1>2 DEF Job, Steps
<1>5. /\ job'[w] = [job[w] EXCEPT !.pc = "delivering", !.slot = TRUE]
      /\ \A v \in Workers \ {w} : job'[v] = job[v]
  BY <1>2, <1>3
<1>6. job'[w] # IdleJob
  BY <1>4, <1>5, IdleIsNoJob
<1>7. /\ job'[w].pc = "delivering"
      /\ job'[w].slot
      /\ job'[w].ev = job[w].ev
      /\ job'[w].tok = job[w].tok
      /\ job'[w].att = job[w].att
      /\ job'[w].life = job[w].life
  BY <1>2, <1>5 DEF Job
<1> QED
  BY <1>1, <1>5, <1>6, <1>7 DEF OneMoves

\* The heartbeat leaves the step alone.
LEMMA HeartbeatMoves ==
    ASSUME TypeOK, NEW w \in Workers, Heartbeat(w) \/ HeartbeatFails(w)
    PROVE  /\ OneMoves(w)
           /\ job'[w].pc = job[w].pc
           /\ job'[w].slot = job[w].slot
<1>1. Busy(w)
  BY DEF Heartbeat, HeartbeatFails, At
<1>2. job[w] \in Job /\ job \in [Workers -> Job \cup {IdleJob}]
  BY <1>1, BusyJob DEF TypeOK
<1>3. CASE UNCHANGED job
  BY <1>3, StillMoves
<1>4. CASE job' = [job EXCEPT ![w] = [job[w] EXCEPT !.hbLost = TRUE]]
  <2>1. /\ job'[w] = [job[w] EXCEPT !.hbLost = TRUE]
        /\ \A v \in Workers \ {w} : job'[v] = job[v]
    BY <1>2, <1>4
  <2>2. /\ job'[w].pc = job[w].pc
        /\ job'[w].slot = job[w].slot
        /\ job'[w].ev = job[w].ev
        /\ job'[w].tok = job[w].tok
        /\ job'[w].att = job[w].att
        /\ job'[w].life = job[w].life
    BY <1>2, <2>1 DEF Job
  <2> QED
    BY <1>1, <2>1, <2>2 DEF OneMoves
<1> QED
  BY <1>2, <1>3, <1>4 DEF Heartbeat, HeartbeatFails

-----------------------------------------------------------------------------
(* What a worker remembers. *)

\* A worker that holds a lease record runs on a running replica, remembers no life of
\* its event that is still to come, and the current one if the lease is its own; it took a
\* slot before it called, and it gives up for good only past the limit.
Remembered ==
    \A w \in Workers : Busy(w) =>
        /\ replica[ReplicaOf[w]] # "down"
        /\ job[w].life <= life[job[w].ev]
        /\ Owns(job[w].ev, job[w].tok) => job[w].life = life[job[w].ev]
        /\ job[w].pc \in {"delivering", "finalizing", "acking"} => job[w].slot
        /\ job[w].pc = "nackAtMax" /\ ~job[w].slot => job[w].att > MaxAttempts

\* A step that issues no token, replays nothing and moves one worker along keeps it, if the
\* worker's new step fits its slot.
LEMMA MoveRemembers ==
    ASSUME TypeOK, Remembered, TokensOnlyDrop, UNCHANGED <<replica, life>>,
           NEW w \in Workers, OneMoves(w),
           job'[w] # IdleJob =>
              /\ job'[w].pc \in {"delivering", "finalizing", "acking"} => job'[w].slot
              /\ job'[w].pc = "nackAtMax" /\ ~job'[w].slot => job[w].att > MaxAttempts
    PROVE  Remembered'
<1> SUFFICES ASSUME NEW v \in Workers, job'[v] # IdleJob
             PROVE  /\ replica[ReplicaOf[v]] # "down"
                    /\ job'[v].life <= life[job'[v].ev]
                    /\ tokens'[job'[v].ev] = job'[v].tok => job'[v].life = life[job'[v].ev]
                    /\ job'[v].pc \in {"delivering", "finalizing", "acking"} => job'[v].slot
                    /\ job'[v].pc = "nackAtMax" /\ ~job'[v].slot => job'[v].att > MaxAttempts
  BY DEF Remembered, Busy, Owns
<1>1. /\ Busy(v)
      /\ job'[v].ev = job[v].ev
      /\ job'[v].tok = job[v].tok
      /\ job'[v].att = job[v].att
      /\ job'[v].life = job[v].life
  BY DEF OneMoves, Busy
<1>2. job[v].tok \in Tokens /\ job[v].ev \in Events
  BY <1>1, BusyJob DEF Job
<1>3. tokens'[job[v].ev] = job[v].tok => tokens[job[v].ev] = job[v].tok
  BY <1>2, NoTokenAssumption DEF TokensOnlyDrop
<1>4. /\ job'[v].pc \in {"delivering", "finalizing", "acking"} => job'[v].slot
      /\ job'[v].pc = "nackAtMax" /\ ~job'[v].slot => job'[v].att > MaxAttempts
  <2>1. CASE v = w
    BY <1>1, <2>1
  <2>2. CASE v # w
    <3>1. job'[v] = job[v]
      BY <2>2 DEF OneMoves
    <3> QED
      BY <1>1, <3>1 DEF Remembered
  <2> QED
    BY <2>1, <2>2
<1> QED
  BY <1>1, <1>3, <1>4 DEF Remembered, Owns

\* Steps of a worker inside ProcessOne, the claims aside.
LEMMA WorkerRemembers ==
    ASSUME TypeOK, LiveKeysAgree, Remembered, NEW w \in Workers,
           WorkerStep(w) \/ Heartbeat(w) \/ HeartbeatFails(w) \/ CallFails(w) \/ MarkerReplyLost(w)
    PROVE  Remembered'
<1>t. TokensOnlyDrop
  BY WorkerStepKeepsLeases
<1>b. Busy(w)
  BY DEF WorkerStep, RouteMissing, ClearRouteMissing, AttemptsExhausted, CapacityFull,
       StartDelivery, DeliveryReturns, FinalizeSucceeds, FinalizeFails, Ack, Nack, Defer, Refresh,
       Heartbeat, HeartbeatFails, CallFails, MarkerReplyLost, At
<1>s. {"claimed", "defer", "nackNow", "nackAtMax", "routed",
       "delivering", "finalizing", "acking", "refresh"} = Steps
  BY DEF Steps
<1>u. UNCHANGED <<replica, life>>
  BY DEF WorkerStep, RouteMissing, ClearRouteMissing, AttemptsExhausted, CapacityFull,
       StartDelivery, DeliveryReturns, FinalizeSucceeds, FinalizeFails, Ack, Nack, Defer, Refresh,
       Heartbeat, HeartbeatFails, CallFails, MarkerReplyLost, envVars, ghostVars
<1>g. ASSUME NEW step \in Steps, Goto(w, step),
             step \in {"finalizing", "acking", "nackAtMax"} =>
               job[w].slot \/ (step = "nackAtMax" /\ job[w].att > MaxAttempts),
             step # "delivering"
      PROVE  Remembered'
  <2>1. /\ OneMoves(w)
        /\ job'[w].pc = step
        /\ job'[w].slot = job[w].slot
    BY <1>b, <1>g, GotoMoves
  <2> QED
    BY <1>g, <1>t, <1>u, <2>1, MoveRemembers
<1>f. Finish(w) => Remembered'
  BY <1>t, <1>u, FinishMoves, MoveRemembers
<1>1. CASE \/ RouteMissing(w) \/ ClearRouteMissing(w) \/ MarkerReplyLost(w)
           \/ CapacityFull(w) \/ CallFails(w) \/ Nack(w) \/ Defer(w)
  <2>1. Finish(w) \/ \E step \in {"nackNow", "defer", "routed", "refresh"} : Goto(w, step)
    BY <1>1 DEF RouteMissing, ClearRouteMissing, MarkerReplyLost, CapacityFull, CallFails, Nack, Defer
  <2>2. \A step \in {"nackNow", "defer", "routed", "refresh"} : Goto(w, step) => Remembered'
    BY <1>g, <1>s
  <2> QED
    BY <1>f, <2>1, <2>2
<1>2. CASE AttemptsExhausted(w)
  BY <1>2, <1>g, <1>s DEF AttemptsExhausted
<1>3. CASE StartDelivery(w)
  <2>1. OneMoves(w) /\ job'[w].pc = "delivering" /\ job'[w].slot
    BY <1>3, DeliveryMoves
  <2> QED
    BY <2>1, <1>t, <1>u, MoveRemembers
<1>4. CASE DeliveryReturns(w) \/ FinalizeSucceeds(w) \/ FinalizeFails(w)
  <2>1. job[w].slot
    BY <1>4, <1>b DEF DeliveryReturns, FinalizeSucceeds, FinalizeFails, At, Remembered
  <2>2. \E step \in {"finalizing", "nackAtMax", "nackNow", "refresh", "acking"} : Goto(w, step)
    BY <1>4 DEF DeliveryReturns, FinalizeSucceeds, FinalizeFails
  <2>3. \A step \in {"finalizing", "nackAtMax", "nackNow", "refresh", "acking"} :
           Goto(w, step) => Remembered'
    BY <1>g, <1>s, <2>1
  <2> QED
    BY <2>2, <2>3
<1>5. CASE Ack(w) \/ Refresh(w)
  <2>1. Finish(w) \/ Goto(w, "refresh")
    BY <1>5 DEF Ack, Refresh
  <2> QED
    BY <1>f, <1>g, <1>s, <2>1
<1>6. CASE Heartbeat(w) \/ HeartbeatFails(w)
  <2>1. /\ OneMoves(w)
        /\ job'[w].pc = job[w].pc
        /\ job'[w].slot = job[w].slot
    BY <1>6, HeartbeatMoves
  <2>2. job[w].pc = "finalizing" /\ job[w].slot
    BY <1>6, <1>b DEF Heartbeat, HeartbeatFails, At, Remembered
  <2> QED
    BY <2>1, <2>2, <1>t, <1>u, MoveRemembers
<1> QED
  BY <1>1, <1>2, <1>3, <1>4, <1>5, <1>6 DEF WorkerStep

\* What a claim does, with or without its reply: the event had no owner, gets an unused
\* token and one more attempt, and at most the claiming worker learns of it.
ClaimedBy(w, e, t) ==
    /\ t \in Tokens \ TokensInUse
    /\ e \in payload /\ leased[e] = "no" /\ tokens[e] = NoToken
    /\ leased' = [leased EXCEPT ![e] = "live"]
    /\ tokens' = [tokens EXCEPT ![e] = t]
    /\ attempts' = [attempts EXCEPT ![e] = @ + 1]
    /\ ~Busy(w)
    /\ \A v \in Workers \ {w} : job'[v] = job[v]
    /\ UNCHANGED <<payload, marker, dlq, replica, registry, issued, life, delivered>>

LEMMA ClaimEffect ==
    ASSUME TypeOK, LiveKeysAgree, NEW w \in Workers, NEW e \in Events,
           Claim(w, e) \/ ClaimReplyLost(w, e)
    PROVE  \E t \in Tokens : ClaimedBy(w, e, t)
<1>1. PICK t \in Tokens \ TokensInUse : ClaimScript(e, t)
  BY DEF Claim, ClaimReplyLost
<1>2. /\ e \in payload /\ leased[e] = "no" /\ tokens[e] = NoToken
  BY <1>1 DEF ClaimScript, LiveKeysAgree, TypeOK, QueueTypeOK
<1>3. /\ leased' = [leased EXCEPT ![e] = "live"]
      /\ tokens' = [tokens EXCEPT ![e] = t]
      /\ attempts' = [attempts EXCEPT ![e] = @ + 1]
      /\ UNCHANGED <<payload, marker, dlq>>
  BY <1>1, <1>2 DEF ClaimScript
<1>4. ~Busy(w) /\ UNCHANGED <<replica, registry, issued, life, delivered>>
  BY DEF Claim, ClaimReplyLost, envVars, ghostVars
<1>5. \A v \in Workers \ {w} : job'[v] = job[v]
  BY DEF Claim, ClaimReplyLost, TypeOK
<1> QED
  BY <1>1, <1>2, <1>3, <1>4, <1>5 DEF ClaimedBy

\* The claiming worker's record after a claim whose reply arrived.
LEMMA ClaimRecord ==
    ASSUME TypeOK, LiveKeysAgree, NEW w \in Workers, NEW e \in Events, Claim(w, e)
    PROVE  /\ job'[w].pc = "claimed" /\ ~job'[w].slot
           /\ job'[w].ev = e /\ job'[w].tok = tokens'[e] /\ job'[w] # IdleJob
           /\ job'[w].att = attempts[e] + 1 /\ job'[w].life = life[e]
<1>1. e \in payload
  BY DEF Claim, ClaimScript, LiveKeysAgree, TypeOK, QueueTypeOK
<1>2. PICK t \in Tokens :
         /\ ClaimScript(e, t)
         /\ job' = [job EXCEPT ![w] = [pc |-> "claimed", ev |-> e, tok |-> t,
                      att |-> attempts[e] + 1, slot |-> FALSE, hbLost |-> FALSE, life |-> life[e]]]
  BY <1>1 DEF Claim
<1>3. tokens'[e] = t
  BY <1>1, <1>2 DEF ClaimScript, TypeOK, QueueTypeOK
<1>4. job'[w] = [pc |-> "claimed", ev |-> e, tok |-> t,
                 att |-> attempts[e] + 1, slot |-> FALSE, hbLost |-> FALSE, life |-> life[e]]
  BY <1>2 DEF TypeOK
<1>5. job'[w] # IdleJob
  BY <1>4 DEF IdleJob
<1> QED
  BY <1>3, <1>4, <1>5

\* A claim whose reply is lost is known to nobody.
LEMMA ClaimLostRecord ==
    ASSUME TypeOK, NEW w \in Workers, NEW e \in Events, ClaimReplyLost(w, e)
    PROVE  UNCHANGED job /\ disturbed' = disturbed + 1
BY DEF ClaimReplyLost, Disturb

\* Claims keep what workers remember.
LEMMA ClaimRemembers ==
    ASSUME TypeOK, LiveKeysAgree, Remembered, NEW w \in Workers, NEW e \in Events,
           Claim(w, e) \/ ClaimReplyLost(w, e)
    PROVE  Remembered'
<1>1. PICK t \in Tokens : ClaimedBy(w, e, t)
  BY ClaimEffect
<1> SUFFICES ASSUME NEW v \in Workers, job'[v] # IdleJob
             PROVE  /\ replica'[ReplicaOf[v]] # "down"
                    /\ job'[v].life <= life'[job'[v].ev]
                    /\ tokens'[job'[v].ev] = job'[v].tok => job'[v].life = life'[job'[v].ev]
                    /\ job'[v].pc \in {"delivering", "finalizing", "acking"} => job'[v].slot
                    /\ job'[v].pc = "nackAtMax" /\ ~job'[v].slot => job'[v].att > MaxAttempts
  BY DEF Remembered, Busy, Owns
<1>2. UNCHANGED <<replica, life>>
  BY <1>1 DEF ClaimedBy
<1>3. CASE job'[v] = job[v]
  <2>1. Busy(v)
    BY <1>3 DEF Busy
  <2>2. job[v].tok \in Tokens /\ job[v].ev \in Events /\ job[v].tok # t
    BY <1>1, <2>1, BusyJob DEF Job, ClaimedBy, TokensInUse
  <2>3. tokens'[job[v].ev] = job[v].tok => tokens[job[v].ev] = job[v].tok
    BY <1>1, <2>2 DEF ClaimedBy, TypeOK, QueueTypeOK
  <2> QED
    BY <1>2, <1>3, <2>1, <2>3 DEF Remembered, Owns
<1>4. CASE job'[v] # job[v]
  <2>1. v = w /\ Claim(w, e)
    BY <1>1, <1>4, ClaimLostRecord DEF ClaimedBy
  <2>2. job'[v].pc = "claimed" /\ job'[v].ev = e /\ job'[v].life = life[e]
    BY <2>1, ClaimRecord
  <2>3. replica[ReplicaOf[v]] # "down"
    BY <2>1 DEF Claim
  <2>4. life[e] \in Nat
    BY DEF TypeOK
  <2> QED
    BY <1>2, <2>2, <2>3, <2>4
<1> QED
  BY <1>3, <1>4

\* Replicas, producers, the operator and time.
LEMMA EnvironmentRemembers ==
    ASSUME TypeOK, LiveKeysAgree, Remembered,
           \/ \E r \in Replicas : \/ \E reg \in Registries : StartReplica(r, reg)
                                  \/ StopReplica(r) \/ Stopped(r) \/ Crash(r)
                                  \/ \E e \in Events : Enqueue(r, e)
           \/ \E e \in Events : \/ Replay(e)
                                \/ BackoffElapses(e) \/ MissingWindowElapses(e) \/ DeadLetterAges(e)
                                \/ WorkerOverrunsLease(e) \/ OrphanLeaseElapses(e)
           \/ Reclaim \/ LiveTTL \/ MarkerTTL
    PROVE  /\ Remembered'
           /\ \A v \in Workers : job'[v] # IdleJob => job'[v] = job[v]
<1>t. TokensOnlyDrop
  BY EnvironmentKeepsLeases
<1>j. \A v \in Workers : job'[v] # IdleJob => job'[v] = job[v]
  <2>1. UNCHANGED job \/ \E r \in Replicas : Crash(r)
    BY DEF StartReplica, StopReplica, Stopped, Enqueue, Replay, BackoffElapses,
       MissingWindowElapses, DeadLetterAges, WorkerOverrunsLease, OrphanLeaseElapses,
       Reclaim, LiveTTL, MarkerTTL
  <2> QED
    BY <2>1 DEF Crash
<1>r. ASSUME NEW v \in Workers, job'[v] # IdleJob PROVE replica'[ReplicaOf[v]] # "down"
  <2>1. Busy(v) /\ replica[ReplicaOf[v]] # "down" /\ ReplicaOf[v] \in Replicas
    BY <1>j, <1>r, DispatchAssumption DEF Remembered, Busy
  <2>2. CASE UNCHANGED replica
    BY <2>1, <2>2
  <2>3. CASE \E r \in Replicas :
                (\E reg \in Registries : StartReplica(r, reg)) \/ StopReplica(r) \/ Stopped(r) \/ Crash(r)
    BY <2>1, <2>3, <1>r DEF StartReplica, StopReplica, Stopped, Crash, TypeOK
  <2> QED
    BY <2>2, <2>3 DEF Enqueue, Replay, BackoffElapses, envVars,
       MissingWindowElapses, DeadLetterAges, WorkerOverrunsLease, OrphanLeaseElapses,
       Reclaim, LiveTTL, MarkerTTL
<1>l. ASSUME NEW v \in Workers, job'[v] # IdleJob
      PROVE  /\ job[v].life <= life'[job[v].ev]
             /\ tokens'[job[v].ev] = job[v].tok => job[v].life = life'[job[v].ev]
  <2>1. Busy(v)
    BY <1>j, <1>l DEF Busy
  <2>2. job[v].tok \in Tokens /\ job[v].ev \in Events /\ job[v].life \in Nat
    BY <2>1, BusyJob DEF Job
  <2>3. tokens'[job[v].ev] = job[v].tok => tokens[job[v].ev] = job[v].tok
    BY <1>t, <2>2, NoTokenAssumption DEF TokensOnlyDrop
  <2>4. CASE UNCHANGED life
    BY <2>1, <2>3, <2>4 DEF Remembered, Owns
  <2>5. CASE \E e \in Events : Replay(e)
    <3>1. PICK e \in Events : Replay(e)
      BY <2>5
    <3>2. life' = [life EXCEPT ![e] = @ + 1] /\ tokens[e] = NoToken
      BY <3>1 DEF Replay, ReplayScript, LiveKeysAgree
    <3>3. CASE job[v].ev = e
      <4>1. tokens[e] # job[v].tok
        BY <2>2, <3>2, NoTokenAssumption
      <4>2. life'[e] = life[e] + 1 /\ life[e] \in Nat
        BY <3>2 DEF TypeOK
      <4>3. job[v].life <= life[e]
        BY <2>1, <3>3 DEF Remembered
      <4> QED
        BY <2>2, <2>3, <3>3, <4>1, <4>2, <4>3
    <3>4. CASE job[v].ev # e
      <4>1. life'[job[v].ev] = life[job[v].ev]
        BY <2>2, <3>2, <3>4 DEF TypeOK
      <4> QED
        BY <2>1, <2>3, <4>1 DEF Remembered, Owns
    <3> QED
      BY <3>3, <3>4
  <2> QED
    BY <2>4, <2>5 DEF StartReplica, StopReplica, Stopped, Crash, Enqueue, BackoffElapses,
       ghostVars, MissingWindowElapses, DeadLetterAges, WorkerOverrunsLease, OrphanLeaseElapses,
       Reclaim, LiveTTL, MarkerTTL
<1>1. Remembered'
  <2> SUFFICES ASSUME NEW v \in Workers, job'[v] # IdleJob
               PROVE  /\ replica'[ReplicaOf[v]] # "down"
                      /\ job'[v].life <= life'[job'[v].ev]
                      /\ tokens'[job'[v].ev] = job'[v].tok => job'[v].life = life'[job'[v].ev]
                      /\ job'[v].pc \in {"delivering", "finalizing", "acking"} => job'[v].slot
                      /\ job'[v].pc = "nackAtMax" /\ ~job'[v].slot => job'[v].att > MaxAttempts
    BY DEF Remembered, Busy, Owns
  <2>1. job'[v] = job[v] /\ Busy(v)
    BY <1>j DEF Busy
  <2>2. /\ job[v].pc \in {"delivering", "finalizing", "acking"} => job[v].slot
        /\ job[v].pc = "nackAtMax" /\ ~job[v].slot => job[v].att > MaxAttempts
    BY <2>1 DEF Remembered
  <2>3. replica'[ReplicaOf[v]] # "down"
    BY <1>r
  <2>4. /\ job[v].life <= life'[job[v].ev]
        /\ tokens'[job[v].ev] = job[v].tok => job[v].life = life'[job[v].ev]
    BY <1>l
  <2> QED
    BY <2>1, <2>2, <2>3, <2>4
<1> QED
  BY <1>1, <1>j

\* What workers remember, for every interleaving.
LEMMA AlwaysRemembered == Spec => []Remembered
<1>1. Init => Remembered
  BY DEF Init, Remembered, Busy
<1>2. TypeOK /\ LiveKeysAgree /\ Remembered /\ [Next]_vars => Remembered'
  <2> SUFFICES ASSUME TypeOK, LiveKeysAgree, Remembered, [Next]_vars PROVE Remembered'
    OBVIOUS
  <2>1. CASE UNCHANGED vars
    BY <2>1 DEF vars, queueVars, envVars, ghostVars, Remembered, Busy, Owns
  <2>2. CASE Next
    BY <2>2, EnvironmentRemembers, WorkerRemembers, ClaimRemembers DEF Next
  <2> QED
    BY <2>1, <2>2
<1> QED
  BY <1>1, <1>2, TypeCorrect, KeysAgree, PTL DEF Spec

-----------------------------------------------------------------------------
(* Every attempt is accounted for. *)

\* The claim of e is still in the hands of a worker that has neither called nor failed.
Pending(u, e) == HoldsLease(u, e) /\ ~job[u].slot /\ job[u].pc # "refresh"
Open(e) == leased[e] = "live" /\ \E u \in Workers : Pending(u, e)

\* AttemptsAccounted, strengthened: the one attempt not yet paid for by a call or by a
\* disturbance belongs to a claim that is open and whose lease still runs.
Accounted ==
    \A e \in Events : attempts[e] <= delivered[e] + disturbed + (IF Open(e) THEN 1 ELSE 0)

\* An attempt a disturbance has just paid for.
LEMMA DisturbedAccounted ==
    ASSUME TypeOK, TypeOK', Accounted, disturbed' = disturbed + 1,
           \A e \in Events : \/ attempts'[e] = 0
                             \/ attempts'[e] <= attempts[e] /\ delivered'[e] >= delivered[e]
                             \/ /\ attempts'[e] = attempts[e] + 1 /\ ~Open(e)
                                /\ delivered'[e] = delivered[e]
    PROVE  Accounted'
<1> SUFFICES ASSUME NEW e \in Events
             PROVE  attempts'[e] <= delivered'[e] + disturbed' + (IF Open(e)' THEN 1 ELSE 0)
  BY DEF Accounted
<1>1. /\ attempts[e] \in Nat /\ delivered[e] \in Nat /\ disturbed \in Nat
      /\ attempts'[e] \in Nat /\ delivered'[e] \in Nat /\ disturbed' \in Nat
  BY DispatchAssumption DEF TypeOK, QueueTypeOK
<1>2. attempts[e] <= delivered[e] + disturbed + (IF Open(e) THEN 1 ELSE 0)
  BY DEF Accounted
<1>3. attempts'[e] <= delivered'[e] + disturbed'
  <2>1. CASE attempts'[e] = 0
    BY <1>1, <2>1
  <2>2. CASE attempts'[e] <= attempts[e] /\ delivered'[e] >= delivered[e]
    BY <1>1, <1>2, <2>2
  <2>3. CASE attempts'[e] = attempts[e] + 1 /\ ~Open(e) /\ delivered'[e] = delivered[e]
    BY <1>1, <1>2, <2>3
  <2> QED
    BY <2>1, <2>2, <2>3
<1> QED
  BY <1>1, <1>3

\* What a step must do for one event, to keep it accounted for.
KeepsAccount(e) ==
    \/ attempts'[e] = 0
    \/ attempts'[e] = attempts[e] /\ (Open(e) => Open(e)' \/ delivered'[e] = delivered[e] + 1)
    \/ attempts'[e] = Refund(attempts[e])

LEMMA QuietAccounted ==
    ASSUME TypeOK, TypeOK', Accounted, disturbed' = disturbed,
           \A e \in Events : KeepsAccount(e) /\ delivered'[e] >= delivered[e]
    PROVE  Accounted'
<1> SUFFICES ASSUME NEW e \in Events
             PROVE  attempts'[e] <= delivered'[e] + disturbed' + (IF Open(e)' THEN 1 ELSE 0)
  BY DEF Accounted
<1>1. /\ attempts[e] \in Nat /\ delivered[e] \in Nat /\ disturbed \in Nat
      /\ attempts'[e] \in Nat /\ delivered'[e] \in Nat
  BY DispatchAssumption DEF TypeOK, QueueTypeOK
<1>2. attempts[e] <= delivered[e] + disturbed + (IF Open(e) THEN 1 ELSE 0)
  BY DEF Accounted
<1>3. KeepsAccount(e) /\ delivered'[e] >= delivered[e]
  OBVIOUS
<1> DEFINE o == Open(e)
           p == Open(e)'
<1>4. CASE attempts'[e] = 0
  BY <1>1, <1>4
<1>5. CASE attempts'[e] = attempts[e] /\ (o => p \/ delivered'[e] = delivered[e] + 1)
  <2>1. CASE o
    BY <1>1, <1>2, <1>3, <1>5, <2>1
  <2>2. CASE ~o
    BY <1>1, <1>2, <1>3, <1>5, <2>2
  <2> QED
    BY <2>1, <2>2
<1>6. CASE attempts'[e] = Refund(attempts[e])
  <2>1. attempts'[e] = 0 \/ attempts'[e] = attempts[e] - 1
    BY <1>1, <1>6 DEF Refund
  <2>2. attempts[e] <= delivered[e] + disturbed + 1
    BY <1>1, <1>2
  <2> QED
    BY <1>1, <1>3, <2>1, <2>2
<1> QED
  BY <1>3, <1>4, <1>5, <1>6 DEF KeepsAccount

\* An event whose lease, token and holder are left alone stays open.
LEMMA StaysOpen ==
    ASSUME NEW e \in Events, leased'[e] = leased[e], tokens'[e] = tokens[e],
           \A v \in Workers : Pending(v, e) => Pending(v, e)'
    PROVE  Open(e) => Open(e)'
BY DEF Open

\* A script that acts for the owner of an event, seen from every other event.
Elsewhere(e) ==
    \A f \in Events \ {e} :
        leased'[f] = leased[f] /\ tokens'[f] = tokens[f] /\ attempts'[f] = attempts[f]

\* The holder of a lease of f that is not w's still holds it after a step of w alone, if the
\* step leaves f's keys alone.
LEMMA OthersStayOpen ==
    ASSUME TypeOK, NEW w \in Workers, OneMoves(w), NEW f \in Events,
           leased'[f] = leased[f], tokens'[f] = tokens[f], ~Pending(w, f)
    PROVE  Open(f) => Open(f)'
<1> SUFFICES ASSUME NEW v \in Workers, Pending(v, f) PROVE Pending(v, f)'
  BY StaysOpen
<1>1. v # w /\ job'[v] = job[v]
  BY DEF OneMoves
<1> QED
  BY <1>1 DEF Pending, HoldsLease, Busy, Owns

\* Going to a step other than "refresh" without a call keeps a claim open.
LEMMA GotoStaysOpen ==
    ASSUME TypeOK, NEW w \in Workers, Busy(w), NEW step \in Steps \ {"refresh"}, Goto(w, step),
           NEW f \in Events, leased'[f] = leased[f], tokens'[f] = tokens[f]
    PROVE  Open(f) => Open(f)'
<1>1. OneMoves(w) /\ job'[w] # IdleJob /\ job'[w].pc = step /\ job'[w].slot = job[w].slot
  BY GotoMoves
<1> SUFFICES ASSUME NEW v \in Workers, Pending(v, f) PROVE Pending(v, f)'
  BY StaysOpen
<1>2. CASE v # w
  <2>1. job'[v] = job[v]
    BY <1>1, <1>2 DEF OneMoves
  <2> QED
    BY <2>1 DEF Pending, HoldsLease, Busy, Owns
<1>3. CASE v = w
  <2>1. job'[w].ev = job[w].ev /\ job'[w].tok = job[w].tok
    BY <1>1 DEF OneMoves
  <2> QED
    BY <1>1, <1>3, <2>1 DEF Pending, HoldsLease, Busy, Owns
<1> QED
  BY <1>2, <1>3

\* Steps of a worker inside ProcessOne, the claims aside.
LEMMA WorkerAccounts ==
    ASSUME TypeOK, TypeOK', LiveKeysAgree, OneOwner, Remembered, Accounted, NEW w \in Workers,
           WorkerStep(w) \/ Heartbeat(w) \/ HeartbeatFails(w) \/ CallFails(w) \/ MarkerReplyLost(w)
    PROVE  Accounted'
<1>b. Busy(w)
  BY DEF WorkerStep, RouteMissing, ClearRouteMissing, AttemptsExhausted, CapacityFull,
       StartDelivery, DeliveryReturns, FinalizeSucceeds, FinalizeFails, Ack, Nack, Defer, Refresh,
       Heartbeat, HeartbeatFails, CallFails, MarkerReplyLost, At
<1>e. PICK ev \in Events : ev = job[w].ev
  BY <1>b, BusyJob DEF Job
<1> USE <1>e
<1>q. /\ \A e \in Events : attempts[e] \in Nat /\ delivered[e] \in Nat
      /\ attempts \in [Events -> Nat]
  BY DEF TypeOK, QueueTypeOK
<1>s. {"claimed", "defer", "nackNow", "nackAtMax", "routed",
       "delivering", "finalizing", "acking", "refresh"} = Steps
  BY DEF Steps
<1>p. \A f \in Events : Pending(w, f) => f = ev
  BY DEF Pending, HoldsLease
<1>1. CASE HeartbeatFails(w) \/ CallFails(w) \/ MarkerReplyLost(w)
  <2>1. /\ disturbed' = disturbed + 1
        /\ UNCHANGED <<attempts, delivered>>
    BY <1>1 DEF HeartbeatFails, CallFails, MarkerReplyLost, Disturb, queueVars, ghostVars,
       MarkerScript, ClearMarkerScript
  <2>2. \A e \in Events : attempts'[e] <= attempts[e] /\ delivered'[e] >= delivered[e]
    BY <2>1, <1>q
  <2> QED
    BY <2>1, <2>2, DisturbedAccounted
<1>d. ASSUME ~HeartbeatFails(w), ~CallFails(w), ~MarkerReplyLost(w) PROVE disturbed' = disturbed
  BY <1>d DEF WorkerStep, RouteMissing, ClearRouteMissing, AttemptsExhausted, CapacityFull,
       StartDelivery, DeliveryReturns, FinalizeSucceeds, FinalizeFails, Ack, Nack, Defer, Refresh,
       Heartbeat, envVars
<1>2. CASE RouteMissing(w) \/ (ClearRouteMissing(w) /\ Owns(ev, job[w].tok)) \/ AttemptsExhausted(w)
           \/ CapacityFull(w)
  <2>1. UNCHANGED <<attempts, leased, tokens, delivered, disturbed>>
    BY <1>2 DEF RouteMissing, ClearRouteMissing, AttemptsExhausted, CapacityFull, MarkerScript,
       ClearMarkerScript, queueVars, envVars, ghostVars
  <2>2. \E step \in Steps \ {"refresh"} : Goto(w, step)
    BY <1>2, <1>s DEF RouteMissing, ClearRouteMissing, AttemptsExhausted, CapacityFull
  <2>3. \A f \in Events : Open(f) => Open(f)'
    BY <2>1, <2>2, <1>b, GotoStaysOpen
  <2>4. \A f \in Events : KeepsAccount(f) /\ delivered'[f] >= delivered[f]
    BY <2>1, <2>3, <1>q DEF KeepsAccount
  <2> QED
    BY <2>1, <2>4, QuietAccounted
<1>3. CASE StartDelivery(w)
  <2>1. /\ UNCHANGED <<attempts, leased, tokens, disturbed>>
        /\ delivered' = IF job[w].life = life[ev] THEN [delivered EXCEPT ![ev] = @ + 1] ELSE delivered
    BY <1>3 DEF StartDelivery, queueVars, envVars
  <2>2. OneMoves(w)
    BY <1>3, DeliveryMoves
  <2>3. ASSUME NEW f \in Events PROVE KeepsAccount(f) /\ delivered'[f] >= delivered[f]
    <3>1. CASE Pending(w, f)
      <4>1. f = ev /\ job[w].life = life[ev]
        BY <1>b, <3>1 DEF Pending, HoldsLease, Remembered
      <4>2. delivered'[f] = delivered[f] + 1
        BY <2>1, <4>1 DEF TypeOK
      <4> QED
        BY <2>1, <4>2, <1>q DEF KeepsAccount
    <3>2. CASE ~Pending(w, f)
      <4>1. Open(f) => Open(f)'
        BY <2>1, <2>2, <3>2, OthersStayOpen
      <4>2. delivered'[f] >= delivered[f]
        BY <2>1, <1>q DEF TypeOK
      <4> QED
        BY <2>1, <4>1, <4>2 DEF KeepsAccount
    <3> QED
      BY <3>1, <3>2
  <2> QED
    BY <2>1, <2>3, QuietAccounted
\* The other steps touch no key of another event, and keep this one accounted for.
<1>c. ASSUME OneMoves(w), UNCHANGED <<delivered, disturbed>>, Elsewhere(ev), KeepsAccount(ev)
      PROVE  Accounted'
  <2>1. ASSUME NEW f \in Events, f # ev PROVE KeepsAccount(f)
    <3>1. leased'[f] = leased[f] /\ tokens'[f] = tokens[f] /\ attempts'[f] = attempts[f]
      BY <1>c, <2>1 DEF Elsewhere
    <3>2. Open(f) => Open(f)'
      BY <1>c, <1>p, <2>1, <3>1, OthersStayOpen
    <3> QED
      BY <3>1, <3>2 DEF KeepsAccount
  <2>2. \A f \in Events : KeepsAccount(f) /\ delivered'[f] >= delivered[f]
    BY <1>c, <1>q, <2>1
  <2> QED
    BY <1>c, <2>2, QuietAccounted
\* A worker without the lease, or whose claim has been answered by a call.
<1>n. ASSUME OneMoves(w), ~Pending(w, ev), UNCHANGED <<leased, tokens, attempts, delivered, disturbed>>
      PROVE  Accounted'
  <2>0. leased'[ev] = leased[ev] /\ tokens'[ev] = tokens[ev]
    BY <1>n
  <2>1. Open(ev) => Open(ev)'
    BY <1>n, <2>0, OthersStayOpen
  <2>2. KeepsAccount(ev)
    BY <1>n, <2>1 DEF KeepsAccount
  <2>3. Elsewhere(ev)
    BY <1>n DEF Elsewhere
  <2> QED
    BY <1>c, <1>n, <2>2, <2>3
<1>o. HoldsLease(w, ev) /\ ~Pending(w, ev) => ~Open(ev)
  BY DEF Open, Pending, OneOwner
<1>4. CASE ClearRouteMissing(w) /\ ~Owns(ev, job[w].tok)
  <2>1. UNCHANGED <<leased, tokens, attempts, delivered, disturbed>> /\ Goto(w, "refresh")
    BY <1>4 DEF ClearRouteMissing, queueVars, envVars, ghostVars
  <2>2. OneMoves(w)
    BY <1>b, <1>s, <2>1, GotoMoves
  <2> QED
    BY <1>4, <1>n, <2>1, <2>2 DEF Pending, HoldsLease
<1>5. CASE DeliveryReturns(w) \/ FinalizeSucceeds(w) \/ FinalizeFails(w)
  <2>1. /\ UNCHANGED <<leased, tokens, attempts, delivered, disturbed>>
        /\ \E step \in Steps : Goto(w, step)
    BY <1>5, <1>s DEF DeliveryReturns, FinalizeSucceeds, FinalizeFails, queueVars, envVars, ghostVars
  <2>2. OneMoves(w)
    BY <1>b, <2>1, GotoMoves
  <2>3. ~Pending(w, ev)
    BY <1>5, <1>b DEF DeliveryReturns, FinalizeSucceeds, FinalizeFails, At, Pending, Remembered
  <2> QED
    BY <1>n, <2>1, <2>2, <2>3
<1>6. CASE Heartbeat(w)
  <2>1. OneMoves(w)
    BY <1>6, HeartbeatMoves
  <2>2. ~Pending(w, ev)
    BY <1>6, <1>b DEF Heartbeat, At, Pending, Remembered
  <2>3. CASE UNCHANGED queueVars
    BY <1>6, <1>n, <2>1, <2>2, <2>3 DEF Heartbeat, queueVars, envVars, ghostVars
  <2>4. CASE Owns(ev, job[w].tok) /\ RenewScript(ev)
    <3>1. ~Open(ev)
      BY <1>b, <1>o, <2>2, <2>4 DEF HoldsLease
    <3>2. KeepsAccount(ev)
      BY <2>4, <3>1 DEF KeepsAccount, RenewScript
    <3>3. Elsewhere(ev)
      BY <2>4 DEF Elsewhere, RenewScript, TypeOK, QueueTypeOK
    <3> QED
      BY <1>6, <1>c, <2>1, <3>2, <3>3 DEF Heartbeat, envVars, ghostVars
  <2> QED
    BY <1>6, <2>3, <2>4 DEF Heartbeat
<1>7. CASE Ack(w)
  <2>1. OneMoves(w)
    BY <1>7, <1>b, <1>s, GotoMoves, FinishMoves DEF Ack
  <2>2. ~Pending(w, ev)
    BY <1>7, <1>b DEF Ack, At, Pending, Remembered
  <2>3. CASE ~Owns(ev, job[w].tok)
    BY <1>7, <1>n, <2>1, <2>2, <2>3 DEF Ack, queueVars, envVars
  <2>4. CASE Owns(ev, job[w].tok)
    <3>1. AckScript(ev) /\ UNCHANGED <<delivered, disturbed>>
      BY <1>7, <2>4 DEF Ack, envVars
    <3>2. KeepsAccount(ev)
      BY <1>q, <3>1 DEF AckScript, KeepsAccount
    <3>3. Elsewhere(ev)
      BY <3>1 DEF Elsewhere, AckScript, TypeOK, QueueTypeOK
    <3> QED
      BY <1>c, <2>1, <3>1, <3>2, <3>3
  <2> QED
    BY <2>3, <2>4
<1>8. CASE Nack(w)
  <2>1. OneMoves(w)
    BY <1>8, <1>b, <1>s, GotoMoves DEF Nack
  <2>2. UNCHANGED <<delivered, disturbed>>
    BY <1>8 DEF Nack, envVars, ghostVars
  <2> DEFINE max == IF job[w].pc = "nackNow" THEN job[w].att ELSE MaxAttempts
  <2>3. CASE ~Owns(ev, job[w].tok)
    BY <1>8, <1>n, <2>1, <2>2, <2>3 DEF Nack, queueVars, Pending, HoldsLease
  <2>4. CASE Owns(ev, job[w].tok)
    <3>1. NackScript(ev, max)
      BY <1>8, <2>4 DEF Nack
    <3>2. Elsewhere(ev)
      <4>1. /\ leased' = [leased EXCEPT ![ev] = "no"]
            /\ tokens' = [tokens EXCEPT ![ev] = NoToken]
            /\ attempts' = attempts \/ attempts' = [attempts EXCEPT ![ev] = 0]
        BY <3>1 DEF NackScript
      <4> QED
        BY <4>1 DEF Elsewhere, TypeOK, QueueTypeOK
    <3>3. KeepsAccount(ev)
      <4>1. CASE attempts[ev] >= max
        BY <1>q, <3>1, <4>1 DEF NackScript, KeepsAccount
      <4>2. CASE ~(attempts[ev] >= max)
        <5>1. attempts'[ev] = attempts[ev]
          BY <3>1, <4>2 DEF NackScript
        <5>2. job[w].att = attempts[ev]
          BY <1>b, <2>4 DEF OneOwner, HoldsLease
        <5>3. job[w].slot
          <6>1. job[w].pc = "nackAtMax" /\ max = MaxAttempts
            BY <1>8, <1>q, <4>2, <5>2 DEF Nack, At
          <6> QED
            BY <1>b, <1>q, <4>2, <5>2, <6>1, DispatchAssumption DEF Remembered
        <5>4. ~Open(ev)
          BY <1>b, <1>o, <2>4, <5>3 DEF HoldsLease, Pending
        <5> QED
          BY <5>1, <5>4 DEF KeepsAccount
      <4> QED
        BY <4>1, <4>2
    <3> QED
      BY <1>c, <2>1, <2>2, <3>2, <3>3
  <2> QED
    BY <2>3, <2>4
<1>9. CASE Defer(w)
  <2>1. OneMoves(w)
    BY <1>9, <1>b, <1>s, GotoMoves DEF Defer
  <2>2. UNCHANGED <<delivered, disturbed>>
    BY <1>9 DEF Defer, envVars, ghostVars
  <2>3. CASE ~Owns(ev, job[w].tok)
    BY <1>9, <1>n, <2>1, <2>2, <2>3 DEF Defer, queueVars, Pending, HoldsLease
  <2>4. CASE Owns(ev, job[w].tok)
    <3>1. leased[ev] # "no"
      BY <1>b, <2>4, NoTokenAssumption, BusyJob DEF LiveKeysAgree, Owns, Job
    <3>2. DeferScript(ev)
      BY <1>9, <2>4, <3>1 DEF Defer
    <3>3. KeepsAccount(ev)
      BY <1>q, <3>2 DEF DeferScript, KeepsAccount
    <3>4. Elsewhere(ev)
      BY <3>2 DEF Elsewhere, DeferScript, TypeOK, QueueTypeOK
    <3> QED
      BY <1>c, <2>1, <2>2, <3>3, <3>4
  <2> QED
    BY <2>3, <2>4
<1>10. CASE Refresh(w)
  <2>1. OneMoves(w)
    BY <1>10, FinishMoves DEF Refresh
  <2> QED
    BY <1>10, <1>n, <2>1 DEF Refresh, PruneScript, envVars, ghostVars, At, Pending
<1> QED
  BY <1>1, <1>2, <1>3, <1>4, <1>5, <1>6, <1>7, <1>8, <1>9, <1>10 DEF WorkerStep

\* Claims: an attempt more, in the hands of the claiming worker or paid for by the lost reply.
LEMMA ClaimAccounts ==
    ASSUME TypeOK, TypeOK', LiveKeysAgree, Accounted, NEW w \in Workers, NEW e \in Events,
           Claim(w, e) \/ ClaimReplyLost(w, e)
    PROVE  Accounted'
<1>1. PICK t \in Tokens : ClaimedBy(w, e, t)
  BY ClaimEffect
<1>2. /\ \A f \in Events \ {e} :
            leased'[f] = leased[f] /\ tokens'[f] = tokens[f] /\ attempts'[f] = attempts[f]
      /\ leased'[e] = "live" /\ tokens'[e] = t /\ attempts'[e] = attempts[e] + 1
      /\ UNCHANGED delivered
      /\ ~Open(e)
  BY <1>1 DEF ClaimedBy, TypeOK, QueueTypeOK, Open
<1>3. \A f \in Events : attempts[f] \in Nat /\ delivered[f] \in Nat
  BY DEF TypeOK, QueueTypeOK
<1>4. CASE ClaimReplyLost(w, e)
  <2>1. disturbed' = disturbed + 1
    BY <1>4, ClaimLostRecord
  <2>2. \A f \in Events : \/ attempts'[f] <= attempts[f] /\ delivered'[f] >= delivered[f]
                          \/ attempts'[f] = attempts[f] + 1 /\ ~Open(f) /\ delivered'[f] = delivered[f]
    BY <1>2, <1>3
  <2> QED
    BY <2>1, <2>2, DisturbedAccounted
<1>5. CASE Claim(w, e)
  <2>1. disturbed' = disturbed
    BY <1>5 DEF Claim, envVars
  <2>2. Open(e)'
    <3>1. Pending(w, e)'
      BY <1>5, ClaimRecord DEF Pending, HoldsLease, Busy, Owns
    <3> QED
      BY <1>2, <3>1 DEF Open
  <2> SUFFICES ASSUME NEW f \in Events
               PROVE  attempts'[f] <= delivered'[f] + disturbed' + (IF Open(f)' THEN 1 ELSE 0)
    BY DEF Accounted
  <2>3. attempts[f] <= delivered[f] + disturbed + (IF Open(f) THEN 1 ELSE 0)
    BY DEF Accounted
  <2>4. CASE f = e
    <3>1. disturbed \in Nat /\ attempts[e] \in Nat /\ delivered[e] \in Nat
      BY <1>3 DEF TypeOK
    <3>2. attempts[e] <= delivered[e] + disturbed
      BY <1>2, <2>3, <2>4, <3>1
    <3>3. attempts'[e] <= delivered'[e] + disturbed' + 1
      BY <1>2, <2>1, <3>1, <3>2
    <3> QED
      BY <2>2, <2>4, <3>3
  <2>5. CASE f # e
    <3>1. leased'[f] = leased[f] /\ tokens'[f] = tokens[f] /\ attempts'[f] = attempts[f]
      BY <1>2, <2>5
    <3>2. ASSUME NEW v \in Workers, Pending(v, f) PROVE Pending(v, f)'
      <4>1. job'[v] = job[v]
        BY <1>1, <3>2 DEF ClaimedBy, Pending, HoldsLease
      <4> QED
        BY <3>1, <3>2, <4>1 DEF Pending, HoldsLease, Busy, Owns
    <3>3. Open(f) => Open(f)'
      BY <3>1, <3>2, StaysOpen
    <3> QED
      BY <1>2, <1>3, <2>1, <2>3, <3>1, <3>3 DEF TypeOK
  <2> QED
    BY <2>4, <2>5
<1> QED
  BY <1>4, <1>5

\* Replicas, producers, the operator and time.
LEMMA EnvironmentAccounts ==
    ASSUME TypeOK, TypeOK', LiveKeysAgree, Accounted,
           \/ \E r \in Replicas : \/ \E reg \in Registries : StartReplica(r, reg)
                                  \/ StopReplica(r) \/ Stopped(r) \/ Crash(r)
                                  \/ \E e \in Events : Enqueue(r, e)
           \/ \E e \in Events : \/ Replay(e)
                                \/ BackoffElapses(e) \/ MissingWindowElapses(e) \/ DeadLetterAges(e)
                                \/ WorkerOverrunsLease(e) \/ OrphanLeaseElapses(e)
           \/ Reclaim \/ LiveTTL \/ MarkerTTL
    PROVE  Accounted'
<1>q. /\ attempts \in [Events -> Nat] /\ delivered \in [Events -> Nat]
      /\ leased \in [Events -> {"no", "live", "expired"}]
  BY DEF TypeOK, QueueTypeOK
\* An event whose keys the step leaves alone, when no job moves.
<1>f. ASSUME NEW f \in Events, UNCHANGED job,
             leased'[f] = leased[f], tokens'[f] = tokens[f], attempts'[f] = attempts[f]
      PROVE  KeepsAccount(f)
  <2>1. \A v \in Workers : Pending(v, f) => Pending(v, f)'
    BY <1>f DEF Pending, HoldsLease, Busy, Owns
  <2>2. Open(f) => Open(f)'
    BY <1>f, <2>1, StaysOpen
  <2> QED
    BY <1>f, <2>2 DEF KeepsAccount
<1>1. CASE (\E r \in Replicas : StopReplica(r) \/ Crash(r)) \/ (\E e \in Events : WorkerOverrunsLease(e))
  <2>1. disturbed' = disturbed + 1 /\ UNCHANGED <<attempts, delivered>>
    BY <1>1 DEF StopReplica, Crash, WorkerOverrunsLease, LeaseElapses, Disturb, queueVars, ghostVars
  <2>2. \A e \in Events : attempts'[e] <= attempts[e] /\ delivered'[e] >= delivered[e]
    BY <1>q, <2>1
  <2> QED
    BY <2>1, <2>2, DisturbedAccounted
<1>2. ASSUME NEW e \in Events, Replay(e) PROVE Accounted'
  <2>1. disturbed' = disturbed + 1
    BY <1>2 DEF Replay, Disturb
  <2>2. /\ attempts' = [attempts EXCEPT ![e] = 0]
        /\ delivered' = [delivered EXCEPT ![e] = 0]
    BY <1>2 DEF Replay, ReplayScript
  <2>3. \A f \in Events : \/ attempts'[f] = 0
                          \/ attempts'[f] <= attempts[f] /\ delivered'[f] >= delivered[f]
    BY <1>q, <2>2
  <2> QED
    BY <2>1, <2>3, DisturbedAccounted
<1>3. ASSUME UNCHANGED <<job, delivered, disturbed>>, \A f \in Events : KeepsAccount(f)
      PROVE  Accounted'
  <2>1. \A f \in Events : KeepsAccount(f) /\ delivered'[f] >= delivered[f]
    BY <1>3, <1>q
  <2> QED
    BY <1>3, <2>1, QuietAccounted
<1>4. CASE \/ \E r \in Replicas : (\E reg \in Registries : StartReplica(r, reg)) \/ Stopped(r)
           \/ \E e \in Events : BackoffElapses(e) \/ MissingWindowElapses(e) \/ DeadLetterAges(e)
           \/ MarkerTTL
  <2>1. UNCHANGED <<leased, tokens, attempts, job, delivered, disturbed>>
    BY <1>4 DEF StartReplica, Stopped, BackoffElapses, MissingWindowElapses, DeadLetterAges, MarkerTTL,
       DueArrives, WindowElapses, RetentionElapses, MarkerKeyExpires, queueVars, envVars, ghostVars
  <2> QED
    BY <1>f, <1>3, <2>1
<1>5. ASSUME NEW r \in Replicas, NEW e \in Events, Enqueue(r, e) PROVE Accounted'
  <2>1. /\ UNCHANGED <<leased, tokens, job, delivered, disturbed>>
        /\ attempts' = [attempts EXCEPT ![e] = 0]
    BY <1>5 DEF Enqueue, EnqueueScript, envVars
  <2>2. ASSUME NEW f \in Events PROVE KeepsAccount(f)
    <3>1. CASE f = e
      BY <1>q, <2>1, <3>1 DEF KeepsAccount
    <3>2. CASE f # e
      BY <1>f, <1>q, <2>1, <3>2
    <3> QED
      BY <3>1, <3>2
  <2> QED
    BY <1>3, <2>1, <2>2
<1>6. ASSUME NEW e \in Events, OrphanLeaseElapses(e) PROVE Accounted'
  <2>1. /\ UNCHANGED <<tokens, attempts, job, delivered, disturbed>>
        /\ leased' = [leased EXCEPT ![e] = "expired"]
        /\ ~Open(e)
    BY <1>6 DEF OrphanLeaseElapses, LeaseElapses, envVars, ghostVars, Open, Pending
  <2>2. ASSUME NEW f \in Events PROVE KeepsAccount(f)
    <3>1. CASE f = e
      BY <2>1, <3>1 DEF KeepsAccount
    <3>2. CASE f # e
      BY <1>f, <1>q, <2>1, <3>2
    <3> QED
      BY <3>1, <3>2
  <2> QED
    BY <1>3, <2>1, <2>2
<1>7. CASE Reclaim
  <2>1. UNCHANGED <<job, delivered, disturbed>>
    BY <1>7 DEF Reclaim, envVars, ghostVars
  <2>2. PICK S \in SUBSET Expired :
          /\ leased' = [f \in Events |-> IF f \in S THEN "no" ELSE leased[f]]
          /\ tokens' = [f \in Events |-> IF f \in S THEN NoToken ELSE tokens[f]]
          /\ attempts' = [f \in Events |-> IF f \in S \cap payload /\ marker[f] # "none"
                                           THEN Refund(attempts[f]) ELSE attempts[f]]
    BY <1>7 DEF Reclaim, ReclaimScript
  <2>3. ASSUME NEW f \in Events PROVE KeepsAccount(f)
    <3>1. CASE f \in S
      <4>1. ~Open(f)
        BY <3>1 DEF Expired, Open
      <4>2. attempts'[f] = attempts[f] \/ attempts'[f] = Refund(attempts[f])
        BY <2>2
      <4> QED
        BY <4>1, <4>2 DEF KeepsAccount
    <3>2. CASE f \notin S
      BY <1>f, <2>1, <2>2, <3>2
    <3> QED
      BY <3>1, <3>2
  <2> QED
    BY <1>3, <2>1, <2>3
<1>8. CASE LiveTTL
  <2>1. UNCHANGED <<job, delivered, disturbed>> /\ attempts' = [f \in Events |-> 0]
    BY <1>8 DEF LiveTTL, LiveKeysExpire, envVars, ghostVars
  <2>2. \A f \in Events : KeepsAccount(f)
    BY <2>1 DEF KeepsAccount
  <2> QED
    BY <1>3, <2>1, <2>2
<1> QED
  BY <1>1, <1>2, <1>4, <1>5, <1>6, <1>7, <1>8

\* Accounted, for every interleaving.
LEMMA AlwaysAccounted == Spec => []Accounted
<1>1. Init => Accounted
  <2> SUFFICES ASSUME Init, NEW e \in Events
               PROVE  attempts[e] <= delivered[e] + disturbed + (IF Open(e) THEN 1 ELSE 0)
    BY DEF Accounted
  <2>1. attempts[e] = 0 /\ delivered[e] = 0 /\ disturbed = 0
    BY DEF Init, QueueInit
  <2> QED
    BY <2>1
<1>2. TypeOK /\ TypeOK' /\ LiveKeysAgree /\ OneOwner /\ Remembered /\ Accounted /\ [Next]_vars
      => Accounted'
  <2> SUFFICES ASSUME TypeOK, TypeOK', LiveKeysAgree, OneOwner, Remembered, Accounted, [Next]_vars
               PROVE  Accounted'
    OBVIOUS
  <2>1. CASE UNCHANGED vars
    BY <2>1 DEF vars, queueVars, envVars, ghostVars, Accounted, Open, Pending, HoldsLease, Busy, Owns
  <2>2. CASE Next
    BY <2>2, EnvironmentAccounts, WorkerAccounts, ClaimAccounts DEF Next
  <2> QED
    BY <2>1, <2>2
<1> QED
  BY <1>1, <1>2, TypeCorrect, KeysAgree, Fencing, AlwaysRemembered, PTL DEF Spec

\* Waiting is free, whatever the tables, the leases and the interleaving: an attempt that was
\* not spent on a callback was cost by a disturbance or is being claimed right now.
THEOREM WaitingIsFree == Spec => []AttemptsAccounted
<1>1. TypeOK /\ Accounted => AttemptsAccounted
  <2> SUFFICES ASSUME TypeOK, Accounted, NEW e \in Events
               PROVE  attempts[e] <= delivered[e] + disturbed + 1
    BY DEF AttemptsAccounted
  <2>1. attempts[e] <= delivered[e] + disturbed + (IF Open(e) THEN 1 ELSE 0)
    BY DEF Accounted
  <2>2. attempts[e] \in Nat /\ delivered[e] \in Nat /\ disturbed \in Nat
    BY DEF TypeOK, QueueTypeOK
  <2> QED
    BY <2>1, <2>2
<1> QED
  BY <1>1, TypeCorrect, AlwaysAccounted, PTL

-----------------------------------------------------------------------------
(* The retry budget bounds the callbacks. *)

\* No rolling deploy: the replicas that run at one time were started with one route table.
\* A table may still change, by stopping all of them.
SameTables ==
    \A r, s \in Replicas : replica[r] # "down" /\ replica[s] # "down" => registry[r] = registry[s]

\* Workers about to call back e in its current life, within the limit.
Callers(e) ==
    {w \in Workers : /\ Busy(w) /\ job[w].ev = e /\ job[w].pc = "routed"
                     /\ job[w].life = life[e] /\ job[w].att <= MaxAttempts}

\* The callbacks of the current life, begun or about to.
Spent(e) == delivered[e] + Cardinality(Callers(e))

\* The claim whose lease stands on e will be refunded, or has not been turned into a
\* callback: the event waits for its route, or its owner has not decided yet.
Unspent(e) ==
    \/ marker[e] # "none"
    \/ \E w \in Workers : HoldsLease(w, e) /\ job[w].pc \in {"claimed", "defer"}
    \/ \E w \in Workers : Busy(w) /\ job[w].ev = e /\ ~HasRoute(w, e)

\* DeliveriesBounded, strengthened: a live event has used as many attempts as callbacks, and
\* one more while its claim is unspent.
WithinBudget(e) ==
    /\ Spent(e) <= MaxAttempts
    /\ e \in payload => Spent(e) <= attempts[e]
    /\ leased[e] # "no" /\ Unspent(e) => Spent(e) < attempts[e]
Budgeted == \A e \in Events : WithinBudget(e)

\* Types of the counts.
LEMMA SpentType ==
    ASSUME TypeOK, NEW e \in Events
    PROVE  /\ IsFiniteSet(Callers(e)) /\ Cardinality(Callers(e)) \in Nat
           /\ Spent(e) \in Nat /\ attempts[e] \in Nat /\ delivered[e] \in Nat
<1>1. Callers(e) \subseteq Workers
  BY DEF Callers
<1>2. IsFiniteSet(Callers(e))
  BY <1>1, DispatchAssumption, FS_Subset
<1>3. Cardinality(Callers(e)) \in Nat
  BY <1>2, FS_CardinalityType
<1> QED
  BY <1>2, <1>3 DEF Spent, TypeOK, QueueTypeOK

LEMMA SpentTypeNext ==
    ASSUME TypeOK', NEW e \in Events
    PROVE  Spent(e)' \in Nat
<1>1. IsFiniteSet(Callers(e)') /\ Cardinality(Callers(e)') \in Nat
  <2>1. Callers(e)' \subseteq Workers
    BY DEF Callers
  <2>2. IsFiniteSet(Callers(e)')
    BY <2>1, DispatchAssumption, FS_Subset
  <2> QED
    BY <2>2, FS_CardinalityType
<1>2. delivered'[e] \in Nat
  BY DEF TypeOK
<1> QED
  BY <1>1, <1>2 DEF Spent

\* Fewer callers, and no callback, spend no more.
LEMMA SpentDrops ==
    ASSUME TypeOK, TypeOK', NEW e \in Events,
           delivered'[e] = delivered[e], Callers(e)' \subseteq Callers(e)
    PROVE  Spent(e)' <= Spent(e)
<1>1. IsFiniteSet(Callers(e)) /\ Cardinality(Callers(e)) \in Nat /\ delivered[e] \in Nat
  BY SpentType
<1>2. Cardinality(Callers(e)') <= Cardinality(Callers(e)) /\ Cardinality(Callers(e)') \in Nat
  BY <1>1, FS_Subset, FS_CardinalityType
<1> QED
  BY <1>1, <1>2 DEF Spent

\* A caller that goes away makes room for one.
LEMMA CallerLeaves ==
    ASSUME TypeOK, TypeOK', NEW e \in Events, NEW w \in Callers(e), Callers(e)' = Callers(e) \ {w}
    PROVE  Cardinality(Callers(e)') = Cardinality(Callers(e)) - 1
BY SpentType, FS_RemoveElement

\* A caller more spends at most one.
LEMMA CallerComes ==
    ASSUME TypeOK, TypeOK', NEW e \in Events, NEW w \in Workers,
           delivered'[e] = delivered[e], Callers(e)' \subseteq Callers(e) \cup {w}
    PROVE  Spent(e)' <= Spent(e) + 1
<1>1. IsFiniteSet(Callers(e)) /\ Cardinality(Callers(e)) \in Nat /\ delivered[e] \in Nat
  BY SpentType
<1>2. /\ IsFiniteSet(Callers(e) \cup {w})
      /\ Cardinality(Callers(e) \cup {w}) = Cardinality(Callers(e)) \/
         Cardinality(Callers(e) \cup {w}) = Cardinality(Callers(e)) + 1
  BY <1>1, FS_AddElement
<1>3. Cardinality(Callers(e)') <= Cardinality(Callers(e) \cup {w}) /\ Cardinality(Callers(e)') \in Nat
  BY <1>2, FS_Subset, FS_CardinalityType
<1> QED
  BY <1>1, <1>2, <1>3 DEF Spent

\* What most steps are for one event: nobody new is about to call it, no claim of it becomes
\* unspent, and its attempts drop only by a refund of an unspent claim.
Quiet(e) ==
    /\ life'[e] = life[e] /\ delivered'[e] = delivered[e]
    /\ tokens'[e] # NoToken => tokens'[e] = tokens[e] /\ attempts'[e] = attempts[e]
    /\ e \in payload' =>
          /\ e \in payload
          /\ \/ attempts'[e] = attempts[e]
             \/ leased[e] # "no" /\ Unspent(e) /\ attempts'[e] = Refund(attempts[e])
    /\ leased'[e] # "no" /\ marker'[e] # "none" => Unspent(e)
    /\ \A v \in Workers : job'[v] # IdleJob /\ job'[v].ev = e =>
          /\ Busy(v) /\ job[v].ev = e /\ job[v].tok = job'[v].tok
          /\ job[v].att = job'[v].att /\ job[v].life = job'[v].life
          /\ job'[v].pc = "routed" => job[v].pc = "routed"
          /\ job'[v].pc \in {"claimed", "defer"} /\ tokens'[e] = job'[v].tok => Unspent(e)
          /\ registry'[ReplicaOf[v]] = registry[ReplicaOf[v]]

LEMMA QuietBudget ==
    ASSUME TypeOK, TypeOK', LiveKeysAgree, LiveKeysAgree', NEW e \in Events, WithinBudget(e), Quiet(e)
    PROVE  WithinBudget(e)'
<1>1. Callers(e)' \subseteq Callers(e)
  BY DEF Callers, Quiet, Busy
<1>2. Spent(e)' <= Spent(e)
  BY <1>1, SpentDrops DEF Quiet
<1>3. Spent(e) \in Nat /\ attempts[e] \in Nat /\ Spent(e)' \in Nat
  BY SpentType, SpentTypeNext
<1>4. Unspent(e)' /\ leased'[e] # "no" => Unspent(e)
  <2>1. ASSUME NEW v \in Workers, job'[v] # IdleJob, job'[v].ev = e, ~HasRoute(v, e)' PROVE Unspent(e)
    <3>1. Busy(v) /\ job[v].ev = e /\ ~HasRoute(v, e)
      BY <2>1 DEF Quiet, HasRoute
    <3> QED
      BY <3>1 DEF Unspent
  <2>2. ASSUME NEW v \in Workers, HoldsLease(v, e)', job'[v].pc \in {"claimed", "defer"} PROVE Unspent(e)
    BY <2>2 DEF Quiet, HoldsLease, Busy, Owns
  <2>3. marker'[e] # "none" /\ leased'[e] # "no" => Unspent(e)
    BY DEF Quiet
  <2> QED
    BY <2>1, <2>2, <2>3 DEF Unspent, Busy
<1>5. Spent(e)' <= MaxAttempts
  BY <1>2, <1>3, DispatchAssumption DEF WithinBudget
<1>6. ASSUME e \in payload' PROVE Spent(e)' <= attempts'[e]
  <2>1. e \in payload /\ Spent(e) <= attempts[e]
    BY <1>6 DEF Quiet, WithinBudget
  <2>2. CASE attempts'[e] = attempts[e]
    BY <1>2, <1>3, <2>1, <2>2
  <2>3. CASE leased[e] # "no" /\ Unspent(e) /\ attempts'[e] = Refund(attempts[e])
    <3>1. Spent(e) < attempts[e]
      BY <2>3 DEF WithinBudget
    <3> QED
      BY <1>2, <1>3, <2>3, <3>1 DEF Refund
  <2> QED
    BY <1>6, <2>2, <2>3 DEF Quiet
<1>7. ASSUME leased'[e] # "no", Unspent(e)' PROVE Spent(e)' < attempts'[e]
  <2>1. tokens'[e] # NoToken
    BY <1>7 DEF LiveKeysAgree
  <2>2. attempts'[e] = attempts[e] /\ tokens[e] # NoToken
    BY <2>1 DEF Quiet
  <2>3. leased[e] # "no" /\ Unspent(e)
    BY <1>4, <1>7, <2>2 DEF LiveKeysAgree
  <2>4. Spent(e) < attempts[e]
    BY <2>3 DEF WithinBudget
  <2> QED
    BY <1>2, <1>3, <2>2, <2>4
<1> QED
  BY <1>5, <1>6, <1>7 DEF WithinBudget

\* An event nobody has enqueued has no callbacks, and no worker knows it.
Fresh ==
    /\ \A e \in Events : e \notin issued => delivered[e] = 0 /\ dlq[e] = "no"
    /\ \A w \in Workers : Busy(w) => job[w].ev \in issued

\* Replicas, producers, the operator and time.
LEMMA EnvironmentBudget ==
    ASSUME TypeOK, TypeOK', LiveKeysAgree, LiveKeysAgree', Remembered, Fresh, Budgeted,
           \/ \E r \in Replicas : \/ \E reg \in Registries : StartReplica(r, reg)
                                  \/ StopReplica(r) \/ Stopped(r) \/ Crash(r)
                                  \/ \E e \in Events : Enqueue(r, e)
           \/ \E e \in Events : \/ Replay(e)
                                \/ BackoffElapses(e) \/ MissingWindowElapses(e) \/ DeadLetterAges(e)
                                \/ WorkerOverrunsLease(e) \/ OrphanLeaseElapses(e)
           \/ Reclaim \/ LiveTTL \/ MarkerTTL
    PROVE  Budgeted'
<1>t. TokensOnlyDrop
  BY EnvironmentKeepsLeases
<1>j. \A v \in Workers : job'[v] # IdleJob => job'[v] = job[v] /\ Busy(v)
  BY EnvironmentRemembers DEF Busy
<1>q. /\ attempts \in [Events -> Nat] /\ delivered \in [Events -> Nat] /\ life \in [Events -> Nat]
      /\ marker \in [Events -> {"none", "inside", "past"}]
      /\ leased \in [Events -> {"no", "live", "expired"}]
  BY DEF TypeOK, QueueTypeOK
\* A running replica keeps its table.
<1>r. ASSUME NEW v \in Workers, job'[v] # IdleJob
      PROVE  registry'[ReplicaOf[v]] = registry[ReplicaOf[v]]
  <2>1. replica[ReplicaOf[v]] # "down" /\ ReplicaOf[v] \in Replicas
    BY <1>j, <1>r, DispatchAssumption DEF Remembered
  <2>2. CASE UNCHANGED registry
    BY <2>2
  <2>3. CASE \E r \in Replicas, reg \in Registries : StartReplica(r, reg)
    BY <2>1, <2>3 DEF StartReplica, TypeOK
  <2> QED
    BY <2>2, <2>3 DEF StopReplica, Stopped, Crash, Enqueue, Replay, BackoffElapses, envVars,
       MissingWindowElapses, DeadLetterAges, WorkerOverrunsLease, OrphanLeaseElapses,
       Reclaim, LiveTTL, MarkerTTL
\* An event the step treats as most steps do.
<1>c. ASSUME NEW e \in Events, life'[e] = life[e], delivered'[e] = delivered[e],
             e \in payload' =>
               /\ e \in payload
               /\ \/ attempts'[e] = attempts[e]
                  \/ leased[e] # "no" /\ Unspent(e) /\ attempts'[e] = Refund(attempts[e]),
             marker'[e] # "none" => marker[e] # "none"
      PROVE  WithinBudget(e)'
  <2>1. tokens'[e] # NoToken => tokens'[e] = tokens[e] /\ attempts'[e] = attempts[e]
    BY <1>t DEF TokensOnlyDrop
  <2>2. ASSUME NEW v \in Workers, job'[v] # IdleJob, job'[v].ev = e
        PROVE  /\ Busy(v) /\ job[v].ev = e /\ job[v].tok = job'[v].tok
               /\ job[v].att = job'[v].att /\ job[v].life = job'[v].life
               /\ job'[v].pc = "routed" => job[v].pc = "routed"
               /\ job'[v].pc \in {"claimed", "defer"} /\ tokens'[e] = job'[v].tok => Unspent(e)
               /\ registry'[ReplicaOf[v]] = registry[ReplicaOf[v]]
    <3>1. Busy(v) /\ job'[v] = job[v] /\ job[v].tok \in Tokens
      BY <1>j, <2>2, BusyJob DEF Job
    <3>2. job[v].pc \in {"claimed", "defer"} /\ tokens'[e] = job[v].tok => Unspent(e)
      BY <2>1, <2>2, <3>1, NoTokenAssumption DEF Unspent, HoldsLease, Owns
    <3> QED
      BY <1>r, <2>2, <3>1, <3>2
  <2>3. marker'[e] # "none" => Unspent(e)
    BY <1>c DEF Unspent
  <2>4. Quiet(e)
    BY <1>c, <2>1, <2>2, <2>3 DEF Quiet
  <2> QED
    BY <2>4, QuietBudget DEF Budgeted
<1>1. CASE \/ \E r \in Replicas : \/ \E reg \in Registries : StartReplica(r, reg)
                                  \/ StopReplica(r) \/ Stopped(r) \/ Crash(r)
           \/ \E e \in Events : \/ BackoffElapses(e) \/ MissingWindowElapses(e) \/ DeadLetterAges(e)
                                \/ WorkerOverrunsLease(e) \/ OrphanLeaseElapses(e)
           \/ MarkerTTL
  <2>1. UNCHANGED <<life, delivered, payload, attempts>>
    BY <1>1 DEF StartReplica, StopReplica, Stopped, Crash, BackoffElapses, MissingWindowElapses,
       DeadLetterAges, WorkerOverrunsLease, OrphanLeaseElapses, MarkerTTL, DueArrives, WindowElapses,
       RetentionElapses, LeaseElapses, MarkerKeyExpires, queueVars, ghostVars
  <2>2. \A e \in Events : marker'[e] # "none" => marker[e] # "none"
    BY <1>1, <1>q DEF StartReplica, StopReplica, Stopped, Crash, BackoffElapses, MissingWindowElapses,
       DeadLetterAges, WorkerOverrunsLease, OrphanLeaseElapses, MarkerTTL, DueArrives, WindowElapses,
       RetentionElapses, LeaseElapses, MarkerKeyExpires, queueVars
  <2> QED
    BY <1>c, <2>1, <2>2 DEF Budgeted
<1>2. CASE Reclaim
  <2>1. UNCHANGED <<life, delivered, payload, marker>>
    BY <1>2 DEF Reclaim, ReclaimScript, ghostVars
  <2>2. PICK S \in SUBSET Expired :
          attempts' = [f \in Events |-> IF f \in S \cap payload /\ marker[f] # "none"
                                        THEN Refund(attempts[f]) ELSE attempts[f]]
    BY <1>2 DEF Reclaim, ReclaimScript
  <2>3. ASSUME NEW e \in Events
        PROVE  \/ attempts'[e] = attempts[e]
               \/ leased[e] # "no" /\ Unspent(e) /\ attempts'[e] = Refund(attempts[e])
    BY <2>2 DEF Expired, Unspent
  <2> QED
    BY <1>c, <2>1, <2>3 DEF Budgeted
<1>3. CASE LiveTTL
  <2>1. UNCHANGED <<life, delivered, marker>> /\ payload' = {}
    BY <1>3 DEF LiveTTL, LiveKeysExpire, ghostVars
  <2> QED
    BY <1>c, <2>1 DEF Budgeted
\* An event that becomes ready afresh has no caller.
<1>f. ASSUME NEW e \in Events, delivered'[e] = 0, leased'[e] = "no", attempts'[e] = 0, Callers(e)' = {}
      PROVE  WithinBudget(e)'
  <2>1. Spent(e)' = 0
    BY <1>f, FS_EmptySet DEF Spent
  <2> QED
    BY <1>f, <2>1, DispatchAssumption DEF WithinBudget
<1>4. ASSUME NEW r \in Replicas, NEW e \in Events, Enqueue(r, e) PROVE Budgeted'
  <2>1. /\ e \notin issued /\ e \notin payload
        /\ UNCHANGED <<life, delivered, marker, leased, job>>
        /\ payload' = payload \cup {e} /\ attempts' = [attempts EXCEPT ![e] = 0]
    BY <1>4 DEF Enqueue, EnqueueScript
  <2>2. WithinBudget(e)'
    <3>1. Callers(e)' = {}
      BY <2>1 DEF Callers, Fresh, Busy
    <3>2. delivered'[e] = 0 /\ leased'[e] = "no" /\ attempts'[e] = 0
      BY <1>q, <2>1 DEF Fresh, LiveKeysAgree
    <3> QED
      BY <1>f, <3>1, <3>2
  <2>3. ASSUME NEW f \in Events, f # e PROVE WithinBudget(f)'
    BY <1>c, <1>q, <2>1, <2>3
  <2> QED
    BY <2>2, <2>3 DEF Budgeted
<1>5. ASSUME NEW e \in Events, Replay(e) PROVE Budgeted'
  <2>1. /\ dlq[e] # "no"
        /\ UNCHANGED <<leased, job>>
        /\ life' = [life EXCEPT ![e] = @ + 1] /\ delivered' = [delivered EXCEPT ![e] = 0]
        /\ marker' = [marker EXCEPT ![e] = "none"]
        /\ payload' = payload \cup {e} /\ attempts' = [attempts EXCEPT ![e] = 0]
    BY <1>5 DEF Replay, ReplayScript
  <2>2. WithinBudget(e)'
    <3>1. Callers(e)' = {}
      <4> SUFFICES ASSUME NEW v \in Workers, Busy(v), job[v].ev = e, job[v].life = life'[e] PROVE FALSE
        BY <2>1 DEF Callers, Busy
      <4>1. job[v].life <= life[e] /\ life[e] \in Nat /\ life'[e] = life[e] + 1
        BY <1>q, <2>1 DEF Remembered
      <4> QED
        BY <4>1
    <3>2. delivered'[e] = 0 /\ leased'[e] = "no" /\ attempts'[e] = 0
      BY <1>q, <2>1 DEF LiveKeysAgree
    <3> QED
      BY <1>f, <3>1, <3>2
  <2>3. ASSUME NEW f \in Events, f # e PROVE WithinBudget(f)'
    BY <1>c, <1>q, <2>1, <2>3
  <2> QED
    BY <2>2, <2>3 DEF Budgeted
<1> QED
  BY <1>1, <1>2, <1>3, <1>4, <1>5

\* A claim: the event has an attempt more and nobody about to spend it.
LEMMA ClaimBudget ==
    ASSUME TypeOK, TypeOK', LiveKeysAgree, LiveKeysAgree', Budgeted, NEW w \in Workers, NEW e \in Events,
           Claim(w, e) \/ ClaimReplyLost(w, e)
    PROVE  Budgeted'
<1>1. PICK t \in Tokens : ClaimedBy(w, e, t)
  BY ClaimEffect
<1>2. /\ UNCHANGED <<payload, marker, registry, life, delivered>>
      /\ e \in payload /\ leased[e] = "no" /\ attempts'[e] = attempts[e] + 1
      /\ \A f \in Events \ {e} : tokens'[f] = tokens[f] /\ attempts'[f] = attempts[f]
      /\ \A v \in Workers : job'[v] = job[v] \/ (v = w /\ Claim(w, e))
  BY <1>1, ClaimLostRecord DEF ClaimedBy, TypeOK, QueueTypeOK
<1>3. \A v \in Workers : job'[v] # job[v] => job'[v].ev = e /\ job'[v].pc = "claimed"
  BY <1>2, ClaimRecord
<1>4. WithinBudget(e)'
  <2>1. Callers(e)' \subseteq Callers(e)
    BY <1>2, <1>3 DEF Callers, Busy
  <2>2. Spent(e)' <= Spent(e)
    BY <1>2, <2>1, SpentDrops
  <2>3. Spent(e) <= attempts[e] /\ Spent(e) <= MaxAttempts
    BY <1>2 DEF Budgeted, WithinBudget
  <2>4. Spent(e) \in Nat /\ attempts[e] \in Nat /\ Spent(e)' \in Nat
    BY SpentType, SpentTypeNext
  <2>5. Spent(e)' <= MaxAttempts /\ Spent(e)' < attempts'[e]
    BY <1>2, <2>2, <2>3, <2>4, DispatchAssumption
  <2>6. attempts'[e] \in Nat
    BY DEF TypeOK, QueueTypeOK
  <2>7. Spent(e)' <= attempts'[e]
    BY <2>4, <2>5, <2>6
  <2> QED
    BY <2>5, <2>7 DEF WithinBudget
<1>5. ASSUME NEW f \in Events, f # e PROVE WithinBudget(f)'
  <2>1. ASSUME NEW v \in Workers, job'[v] # IdleJob, job'[v].ev = f
        PROVE  /\ job'[v] = job[v] /\ Busy(v)
               /\ job'[v].pc \in {"claimed", "defer"} /\ tokens'[f] = job'[v].tok => Unspent(f)
    BY <1>2, <1>3, <1>5, <2>1 DEF Busy, Unspent, HoldsLease, Owns
  <2>2. /\ life'[f] = life[f] /\ delivered'[f] = delivered[f]
        /\ tokens'[f] = tokens[f] /\ attempts'[f] = attempts[f]
        /\ f \in payload' => f \in payload
        /\ marker'[f] # "none" => Unspent(f)
        /\ \A v \in Workers : registry'[ReplicaOf[v]] = registry[ReplicaOf[v]]
    BY <1>2, <1>5 DEF Unspent
  <2>3. Quiet(f)
    BY <2>1, <2>2 DEF Quiet
  <2> QED
    BY <2>3, QuietBudget DEF Budgeted
<1> QED
  BY <1>4, <1>5 DEF Budgeted

\* A step of one worker that treats an event as most steps do.
LEMMA WorkerQuiet ==
    ASSUME TypeOK, TypeOK', LiveKeysAgree, LiveKeysAgree', Budgeted,
           NEW w \in Workers, OneMoves(w), TokensOnlyDrop, registry' = registry, life' = life,
           NEW e \in Events, delivered'[e] = delivered[e],
           e \in payload' =>
              /\ e \in payload
              /\ \/ attempts'[e] = attempts[e]
                 \/ leased[e] # "no" /\ Unspent(e) /\ attempts'[e] = Refund(attempts[e]),
           marker'[e] # "none" => Unspent(e),
           job'[w] # IdleJob /\ job[w].ev = e =>
              /\ job'[w].pc = "routed" => job[w].pc = "routed"
              /\ job'[w].pc \in {"claimed", "defer"} /\ Owns(e, job[w].tok) => Unspent(e)
    PROVE  WithinBudget(e)'
<1>1. tokens'[e] # NoToken => tokens'[e] = tokens[e] /\ attempts'[e] = attempts[e]
  BY DEF TokensOnlyDrop
<1>2. ASSUME NEW v \in Workers, job'[v] # IdleJob, job'[v].ev = e
      PROVE  /\ Busy(v) /\ job[v].ev = e /\ job[v].tok = job'[v].tok
             /\ job[v].att = job'[v].att /\ job[v].life = job'[v].life
             /\ job'[v].pc = "routed" => job[v].pc = "routed"
             /\ job'[v].pc \in {"claimed", "defer"} /\ tokens'[e] = job'[v].tok => Unspent(e)
  <2>1. /\ Busy(v) /\ job[v].ev = e /\ job[v].tok = job'[v].tok
        /\ job[v].att = job'[v].att /\ job[v].life = job'[v].life
    BY <1>2 DEF OneMoves, Busy
  <2>2. tokens'[e] = job'[v].tok => Owns(e, job[v].tok)
    BY <1>1, <2>1, BusyJob, NoTokenAssumption DEF Job, Owns
  <2>3. CASE v = w
    BY <1>2, <2>1, <2>2, <2>3
  <2>4. CASE v # w
    <3>1. job'[v] = job[v]
      BY <2>4 DEF OneMoves
    <3> QED
      BY <2>1, <2>2, <3>1 DEF Unspent, HoldsLease
  <2> QED
    BY <2>3, <2>4
<1>3. Quiet(e)
  BY <1>1, <1>2 DEF Quiet
<1> QED
  BY <1>3, QuietBudget DEF Budgeted

\* What a step of a worker does to the events that are not its own.
LEMMA WorkerElsewhere ==
    ASSUME TypeOK, NEW w \in Workers, NEW e \in Events, job[w].ev # e,
           WorkerStep(w) \/ Heartbeat(w) \/ HeartbeatFails(w) \/ CallFails(w) \/ MarkerReplyLost(w)
    PROVE  /\ e \in payload' => e \in payload
           /\ attempts'[e] = attempts[e]
           /\ marker'[e] = marker[e]
           /\ delivered'[e] = delivered[e]
           /\ registry' = registry /\ life' = life
<1>b. Busy(w)
  BY DEF WorkerStep, RouteMissing, ClearRouteMissing, AttemptsExhausted, CapacityFull,
       StartDelivery, DeliveryReturns, FinalizeSucceeds, FinalizeFails, Ack, Nack, Defer, Refresh,
       Heartbeat, HeartbeatFails, CallFails, MarkerReplyLost, At
<1>e. PICK ev \in Events : ev = job[w].ev
  BY <1>b, BusyJob DEF Job
<1>q. /\ attempts \in [Events -> Nat] /\ delivered \in [Events -> Nat]
      /\ marker \in [Events -> {"none", "inside", "past"}]
  BY DEF TypeOK, QueueTypeOK
<1>1. CASE RouteMissing(w) \/ ClearRouteMissing(w) \/ MarkerReplyLost(w)
  BY <1>1, <1>e, <1>q DEF RouteMissing, ClearRouteMissing, MarkerReplyLost, MarkerScript,
     ClearMarkerScript, queueVars, envVars, ghostVars
<1>2. CASE \/ AttemptsExhausted(w) \/ CapacityFull(w) \/ DeliveryReturns(w)
           \/ FinalizeSucceeds(w) \/ FinalizeFails(w) \/ HeartbeatFails(w) \/ CallFails(w)
  BY <1>2 DEF AttemptsExhausted, CapacityFull, DeliveryReturns, FinalizeSucceeds, FinalizeFails,
     HeartbeatFails, CallFails, queueVars, envVars, ghostVars
<1>3. CASE StartDelivery(w)
  BY <1>3, <1>e, <1>q DEF StartDelivery, queueVars, envVars
<1>4. CASE Ack(w)
  BY <1>4, <1>e, <1>q DEF Ack, AckScript, queueVars, envVars
<1>5. CASE Nack(w)
  <2>1. CASE UNCHANGED queueVars
    BY <1>5, <2>1 DEF Nack, queueVars, envVars, ghostVars
  <2>2. CASE \E max : NackScript(ev, max)
    <3>1. /\ marker' = [marker EXCEPT ![ev] = "none"]
          /\ attempts' = attempts \/ attempts' = [attempts EXCEPT ![ev] = 0]
          /\ payload' = payload \/ payload' = payload \ {ev}
      BY <2>2 DEF NackScript
    <3>2. UNCHANGED <<registry, life, delivered>>
      BY <1>5 DEF Nack, envVars, ghostVars
    <3> QED
      BY <1>e, <1>q, <3>1, <3>2
  <2> QED
    BY <1>5, <1>e, <2>1, <2>2 DEF Nack
<1>6. CASE Defer(w) \/ Heartbeat(w) \/ Refresh(w)
  BY <1>6, <1>e, <1>q DEF Defer, Heartbeat, Refresh, DeferScript, RenewScript, PruneScript, queueVars,
     envVars, ghostVars
<1> QED
  BY <1>1, <1>2, <1>3, <1>4, <1>5, <1>6 DEF WorkerStep

\* A caller goes out: what it was about to spend is spent.
LEMMA DeliveryBudget ==
    ASSUME TypeOK, TypeOK', LiveKeysAgree, LiveKeysAgree', Budgeted, NEW w \in Workers,
           StartDelivery(w), NEW e \in Events, e = job[w].ev
    PROVE  WithinBudget(e)'
<1>1. /\ OneMoves(w) /\ job'[w] # IdleJob /\ job'[w].pc = "delivering"
      /\ UNCHANGED <<queueVars, registry, life>>
      /\ Busy(w) /\ job[w].pc = "routed" /\ job[w].att <= MaxAttempts
      /\ delivered' = IF job[w].life = life[e] THEN [delivered EXCEPT ![e] = @ + 1] ELSE delivered
  BY DeliveryMoves DEF StartDelivery, envVars, At
<1>2. UNCHANGED <<payload, attempts, leased, marker, tokens>>
  BY <1>1 DEF queueVars
<1>3. Callers(e)' = Callers(e) \ {w}
  <2>1. ASSUME NEW v \in Workers PROVE v \in Callers(e)' <=> v \in Callers(e) /\ v # w
    <3>1. CASE v = w
      BY <1>1, <3>1 DEF Callers
    <3>2. CASE v # w
      <4>1. job'[v] = job[v]
        BY <1>1, <3>2 DEF OneMoves
      <4> QED
        BY <1>1, <3>2, <4>1 DEF Callers, Busy
    <3> QED
      BY <3>1, <3>2
  <2> QED
    BY <2>1 DEF Callers
<1>4. Spent(e)' <= Spent(e) /\ Spent(e)' \in Nat
  <2>1. Callers(e)' \subseteq Callers(e)
    BY <1>3
  <2>2. Cardinality(Callers(e)') \in Nat /\ delivered'[e] \in Nat
    BY <2>1, SpentType, FS_Subset, FS_CardinalityType DEF TypeOK
  <2>3. CASE job[w].life = life[e]
    <3>1. w \in Callers(e)
      BY <1>1, <2>3 DEF Callers
    <3>2. Cardinality(Callers(e)') = Cardinality(Callers(e)) - 1
      BY <1>3, <3>1, CallerLeaves
    <3>3. delivered'[e] = delivered[e] + 1
      BY <1>1, <2>3 DEF TypeOK
    <3>4. Cardinality(Callers(e)) \in Nat /\ delivered[e] \in Nat
      BY SpentType
    <3> QED
      BY <2>2, <3>2, <3>3, <3>4 DEF Spent
  <2>4. CASE job[w].life # life[e]
    BY <1>1, <2>1, <2>2, <2>4, SpentDrops DEF Spent
  <2> QED
    BY <2>3, <2>4
<1>5. Unspent(e)' => Unspent(e)
  <2>1. ASSUME NEW v \in Workers, job'[v] # IdleJob, job'[v].ev = e
        PROVE  /\ Busy(v) /\ job[v].ev = e /\ job[v].tok = job'[v].tok
               /\ job'[v].pc \in {"claimed", "defer"} => job[v].pc = job'[v].pc
    BY <1>1, <2>1 DEF OneMoves, Busy
  <2> QED
    BY <1>1, <1>2, <2>1 DEF Unspent, HoldsLease, Busy, Owns, HasRoute
<1>6. Spent(e) \in Nat /\ attempts[e] \in Nat
  BY SpentType
<1> QED
  BY <1>2, <1>4, <1>5, <1>6, DispatchAssumption DEF Budgeted, WithinBudget

\* A caller finds its route full: its attempt is unspent until the claim is deferred.
LEMMA CapacityBudget ==
    ASSUME TypeOK, TypeOK', LiveKeysAgree, LiveKeysAgree', Remembered, Budgeted, NEW w \in Workers,
           CapacityFull(w), NEW e \in Events, e = job[w].ev, Owns(e, job[w].tok)
    PROVE  WithinBudget(e)'
<1>1. /\ Busy(w) /\ job[w].pc = "routed" /\ job[w].att <= MaxAttempts
      /\ UNCHANGED <<payload, attempts, leased, life, delivered>>
  BY DEF CapacityFull, At, queueVars, ghostVars
<1>2. OneMoves(w) /\ job'[w].pc = "defer"
  BY <1>1, GotoMoves DEF CapacityFull, Steps
<1>3. w \in Callers(e)
  BY <1>1 DEF Callers, Remembered
<1>4. Callers(e)' = Callers(e) \ {w}
  <2>1. ASSUME NEW v \in Workers PROVE v \in Callers(e)' <=> v \in Callers(e) /\ v # w
    <3>1. CASE v = w
      BY <1>2, <3>1 DEF Callers
    <3>2. CASE v # w
      <4>1. job'[v] = job[v]
        BY <1>2, <3>2 DEF OneMoves
      <4> QED
        BY <1>1, <3>2, <4>1 DEF Callers, Busy
    <3> QED
      BY <3>1, <3>2
  <2> QED
    BY <2>1 DEF Callers
<1>5. Cardinality(Callers(e)') = Cardinality(Callers(e)) - 1
  BY <1>3, <1>4, CallerLeaves
<1>6. /\ Spent(e) \in Nat /\ attempts[e] \in Nat
      /\ Cardinality(Callers(e)) \in Nat /\ delivered[e] \in Nat
  BY SpentType
<1>7. Spent(e)' = Spent(e) - 1
  BY <1>1, <1>5, <1>6 DEF Spent
<1>8. e \in payload /\ Spent(e) <= attempts[e] /\ Spent(e) <= MaxAttempts
  BY <1>1, OwnerIsLive DEF Budgeted, WithinBudget
<1> QED
  BY <1>1, <1>6, <1>7, <1>8, DispatchAssumption DEF WithinBudget

\* The owner of a claim finds its route: it is about to spend the attempt, and with one route
\* table running nobody takes it for missing.
LEMMA RoutedBudget ==
    ASSUME TypeOK, TypeOK', LiveKeysAgree, LiveKeysAgree', OneOwner, SameTables, Remembered, Budgeted,
           NEW w \in Workers, ClearRouteMissing(w),
           NEW e \in Events, e = job[w].ev, Owns(e, job[w].tok)
    PROVE  WithinBudget(e)'
<1>1. /\ Busy(w) /\ job[w].pc = "claimed" /\ HasRoute(w, e)
      /\ marker' = [marker EXCEPT ![e] = "none"]
      /\ UNCHANGED <<payload, attempts, tokens, leased, life, delivered, registry>>
  BY DEF ClearRouteMissing, ClearMarkerScript, At, envVars, ghostVars
<1>2. OneMoves(w) /\ job'[w] # IdleJob /\ job'[w].pc = "routed"
  BY <1>1, GotoMoves DEF ClearRouteMissing, Steps
<1>3. leased[e] # "no" /\ e \in payload
  BY <1>1, BusyJob, NoTokenAssumption DEF LiveKeysAgree, Owns, Job
<1>4. Spent(e) < attempts[e] /\ Spent(e) <= MaxAttempts
  BY <1>1, <1>3 DEF Budgeted, WithinBudget, Unspent, HoldsLease
<1>5. Callers(e)' \subseteq Callers(e) \cup (IF job[w].att <= MaxAttempts THEN {w} ELSE {})
  <2>1. ASSUME NEW v \in Workers, v \in Callers(e)', v # w PROVE v \in Callers(e)
    BY <1>1, <1>2, <2>1 DEF Callers, OneMoves, Busy
  <2>2. w \in Callers(e)' => job[w].att <= MaxAttempts
    BY <1>2 DEF Callers, OneMoves
  <2> QED
    BY <2>1, <2>2 DEF Callers
<1>6. /\ Spent(e) \in Nat /\ attempts[e] \in Nat /\ attempts[e] = job[w].att
  BY <1>1, SpentType DEF OneOwner, HoldsLease
<1>7. Spent(e)' \in Nat
  BY SpentTypeNext
<1>8. Spent(e)' <= attempts[e] /\ Spent(e)' <= MaxAttempts
  <2>1. CASE job[w].att <= MaxAttempts
    <3>1. Spent(e)' <= Spent(e) + 1
      BY <1>1, <1>5, <2>1, CallerComes
    <3> QED
      BY <1>4, <1>6, <1>7, <2>1, <3>1, DispatchAssumption
  <2>2. CASE ~(job[w].att <= MaxAttempts)
    <3>1. Spent(e)' <= Spent(e)
      BY <1>1, <1>5, <2>2, SpentDrops
    <3> QED
      BY <1>4, <1>6, <1>7, <3>1, DispatchAssumption
  <2> QED
    BY <2>1, <2>2
<1>9. ~Unspent(e)'
  <2>1. marker'[e] = "none"
    BY <1>1 DEF TypeOK, QueueTypeOK
  <2>2. ASSUME NEW v \in Workers, HoldsLease(v, e)' PROVE job'[v].pc \notin {"claimed", "defer"}
    <3>1. HoldsLease(v, e) /\ HoldsLease(w, e)
      BY <1>1, <1>2, <2>2 DEF HoldsLease, Busy, Owns, OneMoves
    <3>2. v = w
      BY <3>1 DEF OneOwner
    <3> QED
      BY <1>2, <3>2
  <2>3. ASSUME NEW v \in Workers, job'[v] # IdleJob, job'[v].ev = e PROVE HasRoute(v, e)'
    <3>1. Busy(v)
      BY <1>2, <2>3 DEF OneMoves, Busy
    <3>2. registry[ReplicaOf[v]] = registry[ReplicaOf[w]]
      BY <1>1, <3>1, DispatchAssumption DEF Remembered, SameTables
    <3> QED
      BY <1>1, <3>2 DEF HasRoute
  <2> QED
    BY <2>1, <2>2, <2>3 DEF Unspent, Busy
<1> QED
  BY <1>1, <1>8, <1>9 DEF WithinBudget

\* Steps of a worker inside ProcessOne, the claims aside.
LEMMA WorkerBudget ==
    ASSUME TypeOK, TypeOK', LiveKeysAgree, LiveKeysAgree', OneOwner, SameTables, Remembered, Budgeted,
           NEW w \in Workers,
           WorkerStep(w) \/ Heartbeat(w) \/ HeartbeatFails(w) \/ CallFails(w) \/ MarkerReplyLost(w)
    PROVE  Budgeted'
<1>t. TokensOnlyDrop
  BY WorkerStepKeepsLeases
<1>b. Busy(w)
  BY DEF WorkerStep, RouteMissing, ClearRouteMissing, AttemptsExhausted, CapacityFull,
       StartDelivery, DeliveryReturns, FinalizeSucceeds, FinalizeFails, Ack, Nack, Defer, Refresh,
       Heartbeat, HeartbeatFails, CallFails, MarkerReplyLost, At
<1>s. {"claimed", "defer", "nackNow", "nackAtMax", "routed",
       "delivering", "finalizing", "acking", "refresh"} = Steps
  BY DEF Steps
<1>e. PICK ev \in Events : ev = job[w].ev
  BY <1>b, BusyJob DEF Job
<1>q. /\ attempts \in [Events -> Nat] /\ delivered \in [Events -> Nat]
      /\ marker \in [Events -> {"none", "inside", "past"}]
  BY DEF TypeOK, QueueTypeOK
<1>u. UNCHANGED <<registry, life>>
  BY DEF WorkerStep, RouteMissing, ClearRouteMissing, AttemptsExhausted, CapacityFull,
       StartDelivery, DeliveryReturns, FinalizeSucceeds, FinalizeFails, Ack, Nack, Defer, Refresh,
       Heartbeat, HeartbeatFails, CallFails, MarkerReplyLost, envVars, ghostVars
\* The events that are not its own.
<1>x. ASSUME OneMoves(w), NEW e \in Events, e # ev PROVE WithinBudget(e)'
  <2>1. /\ e \in payload' => e \in payload
        /\ attempts'[e] = attempts[e] /\ marker'[e] = marker[e] /\ delivered'[e] = delivered[e]
    BY <1>e, <1>x, WorkerElsewhere
  <2>2. marker'[e] # "none" => Unspent(e)
    BY <2>1 DEF Unspent
  <2> QED
    BY <1>e, <1>t, <1>u, <1>x, <2>1, <2>2, WorkerQuiet
<1>y. ASSUME OneMoves(w), WithinBudget(ev)' PROVE Budgeted'
  BY <1>x, <1>y DEF Budgeted
\* Its own, when no claim becomes unspent.
<1>k. ASSUME OneMoves(w), delivered'[ev] = delivered[ev],
             ev \in payload' =>
                /\ ev \in payload
                /\ \/ attempts'[ev] = attempts[ev]
                   \/ leased[ev] # "no" /\ Unspent(ev) /\ attempts'[ev] = Refund(attempts[ev]),
             marker'[ev] # "none" => Unspent(ev),
             job'[w] # IdleJob =>
                /\ job'[w].pc # "routed"
                /\ job'[w].pc \in {"claimed", "defer"} /\ Owns(ev, job[w].tok) => Unspent(ev)
      PROVE  Budgeted'
  <2>1. WithinBudget(ev)'
    BY <1>e, <1>k, <1>t, <1>u, WorkerQuiet
  <2> QED
    BY <1>k, <1>y, <2>1
<1>m. marker'[ev] = marker[ev] => (marker'[ev] # "none" => Unspent(ev))
  BY DEF Unspent
<1>g. ASSUME NEW step \in Steps, Goto(w, step) PROVE OneMoves(w) /\ job'[w].pc = step
  BY <1>b, <1>g, GotoMoves
\* Such steps that leave the queue alone, or only the marker.
<1>h. ASSUME NEW step \in Steps, Goto(w, step), step \notin {"routed", "claimed"},
             step = "defer" => ~Owns(ev, job[w].tok) \/ Unspent(ev),
             UNCHANGED <<payload, attempts, delivered>>, marker'[ev] # "none" => Unspent(ev)
      PROVE  Budgeted'
  BY <1>g, <1>h, <1>k
<1>f. ASSUME Finish(w), UNCHANGED <<payload, attempts, delivered, marker>> PROVE Budgeted'
  <2>1. OneMoves(w) /\ job'[w] = IdleJob
    BY <1>f, FinishMoves
  <2> QED
    BY <1>f, <1>k, <1>m, <2>1
<1>1. CASE RouteMissing(w) \/ (MarkerReplyLost(w) /\ ~HasRoute(w, ev))
  <2>1. Unspent(ev)
    BY <1>1, <1>b, <1>e DEF RouteMissing, Unspent
  <2>2. UNCHANGED <<payload, attempts, delivered>>
    BY <1>1, <1>e DEF RouteMissing, MarkerReplyLost, MarkerScript, ghostVars
  <2>3. \E step \in {"nackNow", "defer", "refresh"} : Goto(w, step)
    BY <1>1 DEF RouteMissing, MarkerReplyLost
  <2>4. \A step \in {"nackNow", "defer", "refresh"} : Goto(w, step) => Budgeted'
    BY <1>h, <1>s, <2>1, <2>2
  <2> QED
    BY <2>3, <2>4
<1>2. CASE MarkerReplyLost(w) /\ HasRoute(w, ev)
  <2>1. /\ UNCHANGED <<payload, attempts, delivered>> /\ marker'[ev] = "none"
        /\ Goto(w, "refresh")
    BY <1>2, <1>e, <1>q DEF MarkerReplyLost, ClearMarkerScript, ghostVars
  <2> QED
    BY <1>h, <1>s, <2>1
<1>3. CASE ClearRouteMissing(w)
  <2>1. CASE Owns(ev, job[w].tok)
    <3>1. WithinBudget(ev)'
      BY <1>3, <1>e, <2>1, RoutedBudget
    <3>2. Goto(w, "routed")
      BY <1>3, <1>e, <2>1 DEF ClearRouteMissing
    <3> QED
      BY <1>g, <1>s, <1>y, <3>1, <3>2
  <2>2. CASE ~Owns(ev, job[w].tok)
    <3>1. Goto(w, "refresh") /\ UNCHANGED <<payload, attempts, delivered, marker>>
      BY <1>3, <1>e, <2>2 DEF ClearRouteMissing, queueVars, ghostVars
    <3> QED
      BY <1>h, <1>m, <1>s, <3>1
  <2> QED
    BY <2>1, <2>2
<1>4. CASE CapacityFull(w)
  <2>1. Goto(w, "defer") /\ UNCHANGED <<payload, attempts, delivered, marker>>
    BY <1>4 DEF CapacityFull, queueVars, ghostVars
  <2>2. CASE Owns(ev, job[w].tok)
    <3>1. WithinBudget(ev)'
      BY <1>4, <1>e, <2>2, CapacityBudget
    <3> QED
      BY <1>g, <1>s, <1>y, <2>1, <3>1
  <2>3. CASE ~Owns(ev, job[w].tok)
    BY <1>h, <1>m, <1>s, <2>1, <2>3
  <2> QED
    BY <2>2, <2>3
<1>5. CASE StartDelivery(w)
  <2>1. WithinBudget(ev)' /\ OneMoves(w)
    BY <1>5, <1>e, DeliveryBudget, DeliveryMoves
  <2> QED
    BY <1>y, <2>1
<1>6. CASE AttemptsExhausted(w) \/ DeliveryReturns(w) \/ FinalizeSucceeds(w) \/ FinalizeFails(w)
  <2>1. UNCHANGED <<payload, attempts, delivered, marker>>
    BY <1>6 DEF AttemptsExhausted, DeliveryReturns, FinalizeSucceeds, FinalizeFails, queueVars, ghostVars
  <2>2. \E step \in {"finalizing", "nackAtMax", "nackNow", "refresh", "acking"} : Goto(w, step)
    BY <1>6 DEF AttemptsExhausted, DeliveryReturns, FinalizeSucceeds, FinalizeFails
  <2>3. \A step \in {"finalizing", "nackAtMax", "nackNow", "refresh", "acking"} :
           Goto(w, step) => Budgeted'
    BY <1>h, <1>m, <1>s, <2>1
  <2> QED
    BY <2>2, <2>3
<1>7. CASE Heartbeat(w) \/ HeartbeatFails(w)
  <2>1. OneMoves(w) /\ job'[w].pc = job[w].pc
    BY <1>7, HeartbeatMoves
  <2>2. job[w].pc = "finalizing" /\ UNCHANGED <<payload, attempts, delivered, marker>>
    BY <1>7 DEF Heartbeat, HeartbeatFails, At, RenewScript, queueVars, ghostVars
  <2> QED
    BY <1>k, <1>m, <2>1, <2>2
<1>8. CASE Ack(w)
  <2>1. CASE Owns(ev, job[w].tok)
    <3>1. /\ Goto(w, "refresh") /\ ev \notin payload' /\ marker'[ev] = "none"
          /\ UNCHANGED delivered
      BY <1>8, <1>e, <1>q, <2>1 DEF Ack, AckScript
    <3> QED
      BY <1>g, <1>k, <1>s, <3>1
  <2>2. CASE ~Owns(ev, job[w].tok)
    BY <1>8, <1>e, <1>f, <2>2 DEF Ack, queueVars
  <2> QED
    BY <2>1, <2>2
<1>9. CASE Nack(w)
  <2>1. Goto(w, "refresh") /\ UNCHANGED delivered
    BY <1>9 DEF Nack, ghostVars
  <2>2. CASE UNCHANGED queueVars
    BY <1>h, <1>m, <1>s, <2>1, <2>2 DEF queueVars
  <2>3. CASE \E max : NackScript(ev, max)
    <3>1. /\ marker'[ev] = "none"
          /\ ev \in payload' => ev \in payload /\ attempts'[ev] = attempts[ev]
      BY <1>q, <2>3 DEF NackScript
    <3> QED
      BY <1>g, <1>k, <1>s, <2>1, <3>1
  <2> QED
    BY <1>9, <1>e, <2>2, <2>3 DEF Nack
<1>10. CASE Defer(w)
  <2>1. Goto(w, "refresh") /\ UNCHANGED delivered
    BY <1>10 DEF Defer, ghostVars
  <2>2. CASE UNCHANGED queueVars
    BY <1>h, <1>m, <1>s, <2>1, <2>2 DEF queueVars
  <2>3. CASE Owns(ev, job[w].tok) /\ leased[ev] # "no" /\ DeferScript(ev)
    <3>1. Unspent(ev)
      BY <1>10, <1>b, <1>e, <2>3 DEF Defer, At, Unspent, HoldsLease
    <3>2. /\ UNCHANGED <<payload, marker>> /\ attempts'[ev] = Refund(attempts[ev])
      BY <1>q, <2>3 DEF DeferScript
    <3> QED
      BY <1>g, <1>k, <1>m, <1>s, <2>1, <2>3, <3>1, <3>2
  <2> QED
    BY <1>10, <1>e, <2>2, <2>3 DEF Defer
<1>11. CASE Refresh(w)
  BY <1>11, <1>f DEF Refresh, PruneScript, ghostVars
<1>12. CASE CallFails(w)
  <2>1. UNCHANGED <<payload, attempts, delivered, marker>> /\ (Finish(w) \/ Goto(w, "refresh"))
    BY <1>12 DEF CallFails, queueVars, ghostVars
  <2> QED
    BY <1>f, <1>h, <1>m, <1>s, <2>1
<1> QED
  BY <1>1, <1>2, <1>3, <1>4, <1>5, <1>6, <1>7, <1>8, <1>9, <1>10, <1>11, <1>12 DEF WorkerStep

\* Only the callback of an issued event counts one.
LEMMA FreshStep ==
    ASSUME TypeOK, Books, Books', Fresh, [Next]_vars
    PROVE  Fresh'
<1>1. /\ \A e \in Events : e \notin issued' => dlq'[e] = "no"
      /\ \A w \in Workers : job'[w] # IdleJob => job'[w].ev \in issued'
  BY DEF Books, Busy
<1>2. issued \subseteq issued' /\ \A e \in Events : delivered'[e] \in {0, delivered[e]} \/ e \in issued
  <2>1. CASE UNCHANGED <<issued, delivered>>
    BY <2>1
  <2>2. ASSUME NEW r \in Replicas, NEW e \in Events, Enqueue(r, e)
        PROVE  issued \subseteq issued' /\ UNCHANGED delivered
    BY <2>2 DEF Enqueue
  <2>3. ASSUME NEW e \in Events, Replay(e)
        PROVE  UNCHANGED issued /\ delivered' = [delivered EXCEPT ![e] = 0]
    BY <2>3 DEF Replay
  <2>4. ASSUME NEW w \in Workers, StartDelivery(w)
        PROVE  /\ UNCHANGED issued
               /\ \A e \in Events : delivered'[e] = delivered[e] \/ e \in issued
    <3>1. Busy(w) /\ job[w].ev \in issued
      BY <2>4 DEF StartDelivery, At, Fresh
    <3>2. PICK ev \in Events : ev = job[w].ev
      BY <3>1, BusyJob DEF Job
    <3> QED
      BY <2>4, <3>1, <3>2 DEF StartDelivery, TypeOK
  <2>5. ASSUME NEW w \in Workers, NEW e \in Events, Claim(w, e) \/ ClaimReplyLost(w, e)
        PROVE  UNCHANGED <<issued, delivered>>
    BY <2>5 DEF Claim, ClaimReplyLost, ghostVars
  <2>6. ASSUME NEW w \in Workers, ~StartDelivery(w),
               WorkerStep(w) \/ Heartbeat(w) \/ HeartbeatFails(w) \/ CallFails(w) \/ MarkerReplyLost(w)
        PROVE  UNCHANGED <<issued, delivered>>
    BY <2>6 DEF WorkerStep, RouteMissing, ClearRouteMissing, AttemptsExhausted, CapacityFull,
       DeliveryReturns, FinalizeSucceeds, FinalizeFails, Ack, Nack, Defer, Refresh,
       Heartbeat, HeartbeatFails, CallFails, MarkerReplyLost, ghostVars
  <2>7. ASSUME UNCHANGED vars PROVE UNCHANGED <<issued, delivered>>
    BY <2>7 DEF vars, ghostVars
  <2>9. delivered \in [Events -> Nat]
    BY DEF TypeOK
  <2> DEFINE Grows == /\ issued \subseteq issued'
                      /\ \A e \in Events : delivered'[e] \in {0, delivered[e]} \/ e \in issued
  <2>10. \A r \in Replicas, e \in Events : Enqueue(r, e) => Grows
    BY <2>2
  <2>11. \A e \in Events : Replay(e) => Grows
    BY <2>3, <2>9
  <2>12. \A w \in Workers : StartDelivery(w) => Grows
    BY <2>4
  <2>13. \A w \in Workers, e \in Events : Claim(w, e) \/ ClaimReplyLost(w, e) => Grows
    BY <2>5
  <2>14. \A w \in Workers :
            WorkerStep(w) \/ Heartbeat(w) \/ HeartbeatFails(w) \/ CallFails(w) \/ MarkerReplyLost(w)
            => Grows
    BY <2>6, <2>12
  <2>15. issued' = issued /\ delivered' = delivered => Grows
    OBVIOUS
  <2> HIDE DEF Grows
  <2>16. ASSUME Next PROVE Grows
    <3>1. CASE \E r \in Replicas, e \in Events : Enqueue(r, e)
      BY <2>10, <3>1
    <3>2. CASE \E w \in Workers : \/ \E e \in Events : Claim(w, e) \/ ClaimReplyLost(w, e)
                                  \/ WorkerStep(w) \/ Heartbeat(w) \/ HeartbeatFails(w)
                                  \/ CallFails(w) \/ MarkerReplyLost(w)
      BY <2>13, <2>14, <3>2
    <3>3. CASE \E e \in Events : Replay(e)
      BY <2>11, <3>3
    <3>4. CASE \/ \E r \in Replicas : \/ \E reg \in Registries : StartReplica(r, reg)
                                     \/ StopReplica(r) \/ Stopped(r) \/ Crash(r)
               \/ \E e \in Events : \/ BackoffElapses(e) \/ MissingWindowElapses(e) \/ DeadLetterAges(e)
                                   \/ WorkerOverrunsLease(e) \/ OrphanLeaseElapses(e)
               \/ Reclaim \/ LiveTTL \/ MarkerTTL
      <4>1. issued' = issued /\ delivered' = delivered
        BY <3>4 DEF StartReplica, StopReplica, Stopped, Crash, BackoffElapses, MissingWindowElapses,
           DeadLetterAges, WorkerOverrunsLease, OrphanLeaseElapses, Reclaim, LiveTTL, MarkerTTL, ghostVars
      <4> QED
        BY <2>15, <4>1
    <3> QED
      BY <2>16, <3>1, <3>2, <3>3, <3>4 DEF Next
  <2>17. Grows
    BY <2>7, <2>15, <2>16
  <2> QED
    BY <2>17 DEF Grows
<1> QED
  BY <1>1, <1>2 DEF Fresh, Busy

LEMMA AlwaysFresh == Spec => []Fresh
<1>1. Init => Fresh /\ Books
  BY DEF Init, QueueInit, Fresh, Books, Busy
<1>2. TypeOK /\ LiveKeysAgree /\ Books /\ [Next]_vars => Books'
  <2> SUFFICES ASSUME TypeOK, LiveKeysAgree, Books, [Next]_vars PROVE Books'
    OBVIOUS
  <2>1. CASE UNCHANGED vars
    BY <2>1 DEF vars, queueVars, ghostVars, Books, Busy
  <2>2. CASE Next
    BY <2>2, EnvironmentImplements, WorkerStepImplements, ClaimImplements DEF Next
  <2> QED
    BY <2>1, <2>2
<1>3. TypeOK /\ Books /\ Books' /\ Fresh /\ [Next]_vars => Fresh'
  BY FreshStep
<1> QED
  BY <1>1, <1>2, <1>3, TypeCorrect, KeysAgree, PTL DEF Spec

LEMMA AlwaysBudgeted == Spec /\ []SameTables => []Budgeted
<1>1. Init => Budgeted
  <2> SUFFICES ASSUME Init, NEW e \in Events PROVE WithinBudget(e)
    BY DEF Budgeted
  <2>1. Callers(e) = {}
    BY DEF Init, Callers, Busy
  <2>2. Spent(e) = 0
    BY <2>1, FS_EmptySet DEF Spent, Init
  <2> QED
    BY <2>2, DispatchAssumption DEF WithinBudget, Init, QueueInit
<1>2. /\ TypeOK /\ TypeOK' /\ LiveKeysAgree /\ LiveKeysAgree' /\ OneOwner /\ SameTables
      /\ Remembered /\ Fresh /\ Budgeted /\ [Next]_vars
      => Budgeted'
  <2> SUFFICES ASSUME TypeOK, TypeOK', LiveKeysAgree, LiveKeysAgree', OneOwner, SameTables,
                      Remembered, Fresh, Budgeted, [Next]_vars
               PROVE  Budgeted'
    OBVIOUS
  <2>1. CASE UNCHANGED vars
    <3>1. UNCHANGED <<payload, attempts, leased, marker, tokens, job, registry, life, delivered>>
      BY <2>1 DEF vars, queueVars, envVars, ghostVars
    <3>2. ASSUME NEW e \in Events PROVE WithinBudget(e)'
      <4>1. Callers(e)' = Callers(e)
        BY <3>1 DEF Callers, Busy
      <4>2. Spent(e)' = Spent(e)
        BY <3>1, <4>1 DEF Spent
      <4>3. Unspent(e)' => Unspent(e)
        BY <3>1 DEF Unspent, HoldsLease, Busy, Owns, HasRoute
      <4> QED
        BY <3>1, <4>2, <4>3 DEF Budgeted, WithinBudget
    <3> QED
      BY <3>2 DEF Budgeted
  <2>2. CASE Next
    BY <2>2, EnvironmentBudget, WorkerBudget, ClaimBudget DEF Next
  <2> QED
    BY <2>1, <2>2
<1> QED
  BY <1>1, <1>2, TypeCorrect, KeysAgree, Fencing, AlwaysRemembered, AlwaysFresh, PTL DEF Spec

\* The budget: attempts are spent on callbacks and disturbances only, and while the running
\* replicas share one route table (no rolling deploy) no event is called back more than
\* MaxAttempts times between becoming ready and its dead letter.
THEOREM BudgetIsKept == Spec /\ []SameTables => []BudgetKept
<1>1. TypeOK /\ Budgeted => DeliveriesBounded
  <2> SUFFICES ASSUME TypeOK, Budgeted, NEW e \in Events PROVE delivered[e] <= MaxAttempts
    BY DEF DeliveriesBounded
  <2>1. Spent(e) <= MaxAttempts
    BY DEF Budgeted, WithinBudget
  <2>2. delivered[e] \in Nat /\ Cardinality(Callers(e)) \in Nat
    BY SpentType
  <2> QED
    BY <2>1, <2>2, DispatchAssumption DEF Spent
<1> QED
  BY <1>1, TypeCorrect, WaitingIsFree, AlwaysBudgeted, PTL DEF BudgetKept
=============================================================================
