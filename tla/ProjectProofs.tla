--------------------------- MODULE ProjectProofs ---------------------------
(***************************************************************************)
(* Proofs about the two outboxes of a project.                             *)
(*                                                                         *)
(* ProjectLifecycle, for every set of pods, events and projects, every     *)
(* batch size and retry budget: its types, one live sender per project,    *)
(* the accounting of the retry budget, and that the outbox implements      *)
(* OrderedFeed.                                                            *)
(*                                                                         *)
(* ProjectProvisioning (from the middle of the module on), for the same    *)
(* pods and projects and every set of targets and situations (Worlds):     *)
(* its types, that containers stay reclaimable and are there when they are *)
(* shown, the bound on the calls, and that the sweep spares running jobs.  *)
(***************************************************************************)
EXTENDS ProjectLifecycle, ProjectProvisioning, FiniteSetTheorems, TLAPS

\* A tick sends only rows it has claimed.
TickSound(t) ==
    /\ t.batch \subseteq t.held
    /\ t.pc = "idle" => t.held = {}
    /\ t.pc \in {"sending", "answered", "drain"} => t.cur \in t.held

TypeInv == TypeOK /\ \A p \in Pods : TickSound(tick[p])

\* A pod that goes on to r leaves the other pods alone.
TickTo(p, r) == tick' = [tick EXCEPT ![p] = r]

LEMMA TickToTypes ==
  ASSUME TypeInv, NEW p \in Pods, NEW r \in Tick, TickSound(r), TickTo(p, r)
  PROVE  /\ tick' \in [Pods -> Tick] /\ \A q \in Pods : TickSound(tick'[q])
         /\ tick'[p] = r /\ \A q \in Pods : q # p => tick'[q] = tick[q]
  BY DEF TypeInv, TypeOK, TickTo

\* The fields of the types.
LEMMA Fields ==
  ASSUME TypeInv, NEW p \in Pods
  PROVE  /\ tick[p] \in Tick /\ TickSound(tick[p])
         /\ tick[p].held \subseteq Ids /\ tick[p].batch \subseteq Ids
         /\ tick[p].charged \in [Ids -> 0..MaxAttempts] /\ tick[p].n \in 0..PerProject
         /\ ~At(p, "idle") /\ ~At(p, "batch") => tick[p].cur \in Ids /\ tick[p].cur \in tick[p].held
  BY DEF TypeInv, TypeOK, Tick, TickSound, At

LEMMA Constants ==
  /\ MaxAttempts \in Nat \ {0} /\ PerProject \in Nat \ {0} /\ Batch \in Nat \ {0}
  /\ MaxDisturb \in Nat /\ Ids \subseteq Nat /\ IsFiniteSet(Pods) /\ None \notin Pods
  BY LifecycleAssumption

\* Where each step of a pod leaves its tick.
LEMMA IdleTick == Idle \in Tick /\ TickSound(Idle) /\ Idle.batch = {} /\ Idle.held = {}
  BY Constants DEF Idle, Tick, TickSound

LEMMA ClaimBatchTick ==
  ASSUME TypeInv, NEW p \in Pods, NEW S \in SUBSET Ids, ClaimBatch(p, S)
  PROVE  \E r \in Tick : /\ TickSound(r) /\ TickTo(p, r)
                         /\ r.pc = "batch" /\ r.batch = S /\ r.held = S
<1> DEFINE c == [e \in Ids |-> IF e \in S THEN attempts[e] + 1 ELSE 0]
           r == [Idle EXCEPT !.pc = "batch", !.batch = S, !.held = S, !.charged = c]
<1>1. c \in [Ids -> 0..MaxAttempts]
  BY Constants DEF ClaimBatch, Claimable, Available, TypeInv, TypeOK
<1>2. TickTo(p, r)
  BY DEF ClaimBatch, TickTo
<1> HIDE DEF c
<1>3. r \in Tick /\ TickSound(r) /\ r.pc = "batch" /\ r.batch = S /\ r.held = S
  BY <1>1, IdleTick DEF Tick, TickSound
<1> QED BY <1>2, <1>3

LEMMA StartProjectTick ==
  ASSUME TypeInv, NEW p \in Pods, NEW e \in Ids, StartProject(p, e)
  PROVE  \E r \in Tick : /\ TickSound(r) /\ TickTo(p, r) /\ r.pc = "sending" /\ r.cur = e
                         /\ r.batch = tick[p].batch \ {e} /\ r.held = tick[p].held
<1> DEFINE r == [tick[p] EXCEPT !.pc = "sending", !.cur = e, !.n = 1, !.batch = @ \ {e}]
<1>0. e \in tick[p].batch /\ 1 \in 0..PerProject
  BY Constants DEF StartProject
<1>1. r \in Tick /\ TickSound(r) /\ r.pc = "sending" /\ r.cur = e
      /\ r.batch = tick[p].batch \ {e} /\ r.held = tick[p].held
  BY <1>0, Fields DEF Tick, TickSound
<1>2. TickTo(p, r)
  BY DEF StartProject, TickTo, TypeInv, TypeOK, Tick
<1> QED BY <1>1, <1>2

LEMMA DrainNextTick ==
  ASSUME TypeInv, NEW p \in Pods, NEW e \in Ids, DrainNext(p, e)
  PROVE  \E r \in Tick : /\ TickSound(r) /\ TickTo(p, r) /\ r.pc = "sending" /\ r.cur = e
                         /\ r.batch = tick[p].batch /\ r.held = tick[p].held \cup {e}
<1> DEFINE c == [tick[p].charged EXCEPT ![e] = attempts[e] + 1]
           r == [tick[p] EXCEPT !.pc = "sending", !.cur = e, !.n = @ + 1,
                                !.held = @ \cup {e}, !.charged = c]
<1>1. c \in [Ids -> 0..MaxAttempts] /\ tick[p].n + 1 \in 0..PerProject
  BY Fields, Constants DEF DrainNext, ClaimableNext, Claimable, Available, TypeInv, TypeOK
<1>2. TickTo(p, r)
  BY DEF DrainNext, TickTo, TypeInv, TypeOK, Tick
<1>3. tick[p] \in Tick /\ TickSound(tick[p]) /\ Ids \subseteq Nat
  BY Fields, Constants
<1> HIDE DEF c
<1>4. r \in Tick /\ r.pc = "sending" /\ r.cur = e
      /\ r.batch = tick[p].batch /\ r.held = tick[p].held \cup {e}
  BY <1>1, <1>3 DEF Tick
<1> HIDE DEF r
<1>5. TickSound(r)
  BY <1>3, <1>4 DEF TickSound
<1> QED BY <1>2, <1>4, <1>5

\* The steps between: the batch and the claims stay.
Between(p, r) ==
    /\ TickSound(r) /\ TickTo(p, r)
    /\ r.batch = tick[p].batch /\ r.held = tick[p].held

LEMMA AnsweredTick ==
  ASSUME TypeInv, NEW p \in Pods, At(p, "sending"), NEW answer \in {"ok", "terminal", "retry"},
         tick' = [tick EXCEPT ![p].pc = "answered", ![p].answer = answer]
  PROVE  \E r \in Tick : /\ Between(p, r) /\ r.pc = "answered"
                         /\ r.cur = tick[p].cur /\ r.answer = answer
<1> DEFINE r == [tick[p] EXCEPT !.pc = "answered", !.answer = answer]
<1>1. r \in Tick /\ TickSound(r) /\ r.pc = "answered" /\ r.cur = tick[p].cur
      /\ r.answer = answer /\ r.batch = tick[p].batch /\ r.held = tick[p].held
  BY Fields DEF Tick, TickSound, At
<1>2. TickTo(p, r)
  BY DEF TickTo, TypeInv, TypeOK, Tick
<1> QED BY <1>1, <1>2 DEF Between

LEMMA DrainTick ==
  ASSUME TypeInv, NEW p \in Pods, At(p, "answered"),
         tick' = [tick EXCEPT ![p].pc = "drain", ![p].answer = None]
  PROVE  \E r \in Tick : Between(p, r) /\ r.pc = "drain"
<1> DEFINE r == [tick[p] EXCEPT !.pc = "drain", !.answer = None]
<1>1. r \in Tick /\ TickSound(r) /\ r.pc = "drain"
      /\ r.batch = tick[p].batch /\ r.held = tick[p].held
  BY Fields DEF Tick, TickSound, At
<1>2. TickTo(p, r)
  BY DEF TickTo, TypeInv, TypeOK, Tick
<1> QED BY <1>1, <1>2 DEF Between

LEMMA BatchTick ==
  ASSUME TypeInv, NEW p \in Pods, ~At(p, "idle"),
         \/ tick' = [tick EXCEPT ![p].pc = "batch", ![p].cur = 0, ![p].n = 0, ![p].answer = None]
         \/ tick' = [tick EXCEPT ![p].pc = "batch", ![p].cur = 0, ![p].n = 0]
  PROVE  \E r \in Tick : Between(p, r) /\ r.pc = "batch"
<1> DEFINE r == [tick[p] EXCEPT !.pc = "batch", !.cur = 0, !.n = 0, !.answer = None]
           s == [tick[p] EXCEPT !.pc = "batch", !.cur = 0, !.n = 0]
<1>0. 0 \in 0..PerProject /\ tick[p] \in Tick /\ TickSound(tick[p])
  BY Fields, Constants
<1>1. r \in Tick /\ TickSound(r) /\ r.pc = "batch"
      /\ r.batch = tick[p].batch /\ r.held = tick[p].held
  BY <1>0 DEF Tick, TickSound
<1>2. s \in Tick /\ TickSound(s) /\ s.pc = "batch"
      /\ s.batch = tick[p].batch /\ s.held = tick[p].held
  BY <1>0 DEF Tick, TickSound
<1>3. TickTo(p, r) \/ TickTo(p, s)
  BY DEF TickTo, TypeInv, TypeOK, Tick
<1> QED BY <1>1, <1>2, <1>3 DEF Between

LEMMA OutcomeLostTick ==
  ASSUME TypeInv, NEW p \in Pods, OutcomeLost(p)
  PROVE  \E r \in Tick : Between(p, r) /\ r.pc \in {"drain", "batch"}
<1>1. CASE GivesUp(p)
  BY <1>1, DrainTick DEF OutcomeLost
<1>2. CASE ~GivesUp(p)
  BY <1>2, BatchTick DEF OutcomeLost, At
<1> QED BY <1>1, <1>2

-----------------------------------------------------------------------------
(* Types. *)

LEMMA InitTypes == Init => TypeInv
  BY IdleTick, Constants, LifecycleAssumption DEF Init, TypeInv, TypeOK

\* A claim keeps the rows' types: no row is claimed beyond its budget.
LEMMA LeaseTypes ==
  ASSUME TypeInv, NEW p \in Pods, NEW S \in SUBSET Ids, \A e \in S : Available(e), Lease(p, S)
  PROVE  /\ owner' \in [Ids -> Pods \cup {None}]
         /\ lease' \in [Ids -> {"none", "live", "expired"}]
         /\ attempts' \in [Ids -> 0..MaxAttempts]
  BY Constants DEF Lease, Available, TypeInv, TypeOK

\* So does giving leases back.
LEMMA UnleaseTypes ==
  ASSUME TypeInv, NEW S \in SUBSET Ids, Unlease(S)
  PROVE  /\ owner' \in [Ids -> Pods \cup {None}]
         /\ lease' \in [Ids -> {"none", "live", "expired"}]
  BY DEF Unlease, TypeInv, TypeOK

\* Every step of a pod and of the timers keeps the types.
LEMMA NextTypes == TypeInv /\ [Next]_vars => TypeInv'
<1> SUFFICES ASSUME TypeInv, [Next]_vars PROVE TypeInv'
  OBVIOUS
<1> USE Constants
<1>0. ASSUME UNCHANGED tick, TypeOK' PROVE TypeInv'
  BY <1>0 DEF TypeInv
<1>1. ASSUME NEW p \in Pods, NEW S \in SUBSET Ids, ClaimBatch(p, S) PROVE TypeInv'
  <2>1. PICK r \in Tick : TickSound(r) /\ TickTo(p, r)
    BY <1>1, ClaimBatchTick
  <2>2. \A e \in S : Available(e)
    BY <1>1 DEF ClaimBatch, Claimable
  <2> QED BY <1>1, <2>1, <2>2, TickToTypes, LeaseTypes DEF ClaimBatch, peerVars, TypeInv, TypeOK
<1>2. ASSUME NEW p \in Pods, NEW e \in Ids, StartProject(p, e) PROVE TypeInv'
  <2>1. PICK r \in Tick : TickSound(r) /\ TickTo(p, r)
    BY <1>2, StartProjectTick
  <2>2. sends' \in [Ids -> Nat]
    BY <1>2 DEF StartProject, TypeInv, TypeOK
  <2> QED BY <1>2, <2>1, <2>2, TickToTypes DEF StartProject, rowVars, TypeInv, TypeOK
<1>3. ASSUME NEW p \in Pods, NEW e \in Ids, DrainNext(p, e) PROVE TypeInv'
  <2>1. PICK r \in Tick : TickSound(r) /\ TickTo(p, r)
    BY <1>3, DrainNextTick
  <2>2. sends' \in [Ids -> Nat]
    BY <1>3 DEF DrainNext, TypeInv, TypeOK
  <2>3. \A i \in {e} : Available(i)
    BY <1>3 DEF DrainNext, ClaimableNext, Claimable
  <2> QED BY <1>3, <2>1, <2>2, <2>3, TickToTypes, LeaseTypes DEF DrainNext, TypeInv, TypeOK
<1>4. ASSUME NEW p \in Pods, NEW a \in {"ok", "terminal", "retry"}, PeerAnswers(p, a) PROVE TypeInv'
  <2>1. PICK r \in Tick : TickSound(r) /\ TickTo(p, r)
    BY <1>4, AnsweredTick DEF PeerAnswers, Between
  <2>2. got' \subseteq Ids
    BY <1>4, Fields DEF PeerAnswers, At, TypeInv, TypeOK
  <2> QED BY <1>4, <2>1, <2>2, TickToTypes DEF PeerAnswers, rowVars, TypeInv, TypeOK
<1>5. ASSUME NEW p \in Pods, SendTimesOut(p) PROVE TypeInv'
  <2>1. PICK r \in Tick : TickSound(r) /\ TickTo(p, r)
    BY <1>5, AnsweredTick DEF SendTimesOut, Between
  <2>2. late' \subseteq Ids
    BY <1>5, Fields DEF SendTimesOut, At, TypeInv, TypeOK
  <2> QED BY <1>5, <2>1, <2>2, TickToTypes DEF SendTimesOut, rowVars, TypeInv, TypeOK
<1>6. ASSUME NEW p \in Pods, Complete(p) PROVE TypeInv'
  <2>1. PICK r \in Tick : TickSound(r) /\ TickTo(p, r)
    BY <1>6, DrainTick DEF Complete, Between
  <2>2. tick[p].cur \in Ids
    BY <1>6, Fields DEF Complete, At
  <2>3. PICK s \in {"delivered", "abandoned"} : CompleteRow(p, tick[p].cur, s)
    BY <1>6 DEF Complete
  <2>4. /\ status' \in [Ids -> {"none", "pending", "delivered", "abandoned", "gone"}]
        /\ owner' \in [Ids -> Pods \cup {None}]
        /\ lease' \in [Ids -> {"none", "live", "expired"}]
    BY <2>2, <2>3, UnleaseTypes DEF CompleteRow, TypeInv, TypeOK
  <2> QED BY <1>6, <2>1, <2>4, TickToTypes DEF Complete, peerVars, TypeInv, TypeOK
<1>7. ASSUME NEW p \in Pods, Reschedule(p) PROVE TypeInv'
  <2>1. PICK r \in Tick : TickSound(r) /\ TickTo(p, r)
    BY <1>7, BatchTick DEF Reschedule, Between, At
  <2>2. tick[p].cur \in Ids
    BY <1>7, Fields DEF Reschedule, At
  <2>3. /\ due' \in [Ids -> BOOLEAN]
        /\ owner' \in [Ids -> Pods \cup {None}]
        /\ lease' \in [Ids -> {"none", "live", "expired"}]
    BY <1>7, <2>2, UnleaseTypes DEF Reschedule, RescheduleRow, TypeInv, TypeOK
  <2> QED BY <1>7, <2>1, <2>3, TickToTypes DEF Reschedule, peerVars, TypeInv, TypeOK
<1>8. ASSUME NEW p \in Pods, OutcomeLost(p) PROVE TypeInv'
  <2>1. PICK r \in Tick : TickSound(r) /\ TickTo(p, r)
    BY <1>8, OutcomeLostTick DEF Between
  <2> QED BY <1>8, <2>1, TickToTypes DEF OutcomeLost, Disturb, rowVars, peerVars, TypeInv, TypeOK
<1>9. ASSUME NEW p \in Pods, DrainEnds(p) PROVE TypeInv'
  <2>1. PICK r \in Tick : TickSound(r) /\ TickTo(p, r)
    BY <1>9, BatchTick DEF DrainEnds, Between, At
  <2> QED BY <1>9, <2>1, TickToTypes DEF DrainEnds, rowVars, peerVars, TypeInv, TypeOK
<1>10. ASSUME NEW p \in Pods, EndTick(p) PROVE TypeInv'
  <2>1. TickTo(p, Idle)
    BY <1>10 DEF EndTick, TickTo
  <2> QED BY <1>10, <2>1, IdleTick, TickToTypes DEF EndTick, rowVars, peerVars, TypeInv, TypeOK
<1>11. ASSUME NEW p \in Pods, Crash(p) PROVE TypeInv'
  <2>1. TickTo(p, Idle)
    BY <1>11 DEF Crash, TickTo
  <2>2. late' \subseteq Ids
    BY <1>11, Fields DEF Crash, At, TypeInv, TypeOK
  <2> QED BY <1>11, <2>1, <2>2, IdleTick, TickToTypes DEF Crash, Disturb, rowVars, TypeInv, TypeOK
<1>12. ASSUME NEW p \in Pods, SenderRefused(p) PROVE TypeInv'
  <2>1. TickTo(p, Idle)
    BY <1>12 DEF SenderRefused, TickTo
  <2>2. CASE Refund(p, tick[p].batch)
    <3>1. /\ owner' \in [Ids -> Pods \cup {None}]
          /\ lease' \in [Ids -> {"none", "live", "expired"}]
      BY <2>2, Fields, UnleaseTypes DEF Refund
    <3>2. attempts' \in [Ids -> 0..MaxAttempts]
      BY <2>2 DEF Refund, TypeInv, TypeOK
    <3> QED BY <1>12, <2>1, <3>1, <3>2, IdleTick, TickToTypes
            DEF SenderRefused, Disturb, peerVars, TypeInv, TypeOK
  <2>3. CASE UNCHANGED <<attempts, owner, lease>>
    BY <1>12, <2>1, <2>3, IdleTick, TickToTypes DEF SenderRefused, Disturb, peerVars, TypeInv, TypeOK
  <2> QED BY <1>12, <2>2, <2>3 DEF SenderRefused
<1>13. ASSUME NEW p \in Pods, Heartbeat(p) PROVE TypeInv'
  BY <1>13, <1>0 DEF Heartbeat, peerVars, TypeInv, TypeOK
<1>14. ASSUME NEW e \in Ids, Enqueue(e) PROVE TypeInv'
  BY <1>14, <1>0 DEF Enqueue, peerVars, TypeInv, TypeOK
<1>15. ASSUME NEW e \in Ids, Sweep(e) PROVE TypeInv'
  <2>1. /\ owner' \in [Ids -> Pods \cup {None}]
        /\ lease' \in [Ids -> {"none", "live", "expired"}]
    BY <1>15, UnleaseTypes DEF Sweep
  <2> QED BY <1>15, <1>0, <2>1 DEF Sweep, peerVars, TypeInv, TypeOK
<1>16. ASSUME NEW e \in Ids, Purge(e) PROVE TypeInv'
  BY <1>16, <1>0 DEF Purge, peerVars, TypeInv, TypeOK
<1>17. ASSUME NEW e \in Ids, BackoffElapses(e) PROVE TypeInv'
  BY <1>17, <1>0 DEF BackoffElapses, peerVars, TypeInv, TypeOK
<1>18. ASSUME NEW e \in Ids, LeaseElapses(e) \/ Stall(e) PROVE TypeInv'
  <2>1. lease' = [lease EXCEPT ![e] = "expired"] /\ disturbed' \in 0..MaxDisturb
    BY <1>18 DEF LeaseElapses, Stall, Disturb, TypeInv, TypeOK
  <2>2. lease' \in [Ids -> {"none", "live", "expired"}]
    BY <2>1 DEF TypeInv, TypeOK
  <2>3. UNCHANGED <<projectOf, status, attempts, owner, due, tick, peerVars>>
    BY <1>18 DEF LeaseElapses, Stall
  <2> QED BY <1>0, <2>1, <2>2, <2>3 DEF peerVars, TypeInv, TypeOK
<1>19. ASSUME NEW e \in Ids, LateArrives(e) \/ LateLost(e) PROVE TypeInv'
  BY <1>19, <1>0 DEF LateArrives, LateLost, rowVars, TypeInv, TypeOK
<1>20. CASE UNCHANGED vars
  BY <1>20 DEF vars, rowVars, peerVars, TypeInv, TypeOK
<1> QED
  BY <1>1, <1>2, <1>3, <1>4, <1>5, <1>6, <1>7, <1>8, <1>9, <1>10, <1>11, <1>12, <1>13,
     <1>14, <1>15, <1>16, <1>17, <1>18, <1>19, <1>20 DEF Next, Claims, PodStep

\* Types, and the retry budget as a bound on the claims of a row, for every number of
\* pods and of disturbances.
THEOREM TypeCorrect == Spec => []TypeOK
<1>1. TypeInv => TypeOK
  BY DEF TypeInv
<1> QED BY InitTypes, NextTypes, <1>1, PTL DEF Spec

-----------------------------------------------------------------------------
(* The order of a project's events. *)

\* An event that is enqueued and whose older siblings are settled: nothing that happens
\* later puts an older one before it.
Reached(e) == status[e] # "none" /\ OlderPending(e) = {}

\* Rows are enqueued in the order of their ids.
Recorded == \A e, i \in Ids : i < e /\ status[e] # "none" => status[i] # "none"

\* What makes the order inductive: every event that a claim, a tick or a late request is
\* about has been reached, and an event that was answered for has arrived.
Claimed == \A e \in Ids : attempts[e] > 0 \/ owner[e] # None => Reached(e)
Held == \A p \in Pods : \A e \in tick[p].held : Reached(e)
Late == \A e \in late : Reached(e)
Heard == \A p \in Pods :
    tick[p].pc = "answered" /\ tick[p].answer = "ok" => tick[p].cur \in got

Order == Recorded /\ Claimed /\ Held /\ Late /\ Heard

\* How a step may move a row ...
RowMoves(e) ==
    \/ status'[e] = status[e]
    \/ /\ status[e] = "none" /\ status'[e] = "pending"
       /\ \A i \in Ids : i < e => status[i] # "none"
    \/ status[e] # "none" /\ status'[e] \notin {"none", "pending"}
Rows == projectOf' = projectOf /\ \A e \in Ids : RowMoves(e)

\* ... and what else it may bring into play.
Brings ==
    /\ \A e \in Ids : attempts'[e] > attempts[e] \/ owner'[e] \notin {owner[e], None} => Reached(e)
    /\ \A p \in Pods : \A e \in tick'[p].held : e \in tick[p].held \/ Reached(e)
    /\ \A e \in late' : e \in late \/ Reached(e)

\* What is reached stays reached.
LEMMA ReachedStays ==
  ASSUME TypeInv, Recorded, Rows, NEW e \in Ids, Reached(e)
  PROVE  Reached(e)'
<1>1. \A i \in Ids : i < e /\ projectOf[i] = projectOf[e] => status[i] # "pending"
  BY DEF Reached, OlderPending
<1>2. \A i \in Ids : i < e => status[i] # "none"
  BY DEF Reached, Recorded
<1>3. \A i \in Ids : i < e /\ projectOf[i] = projectOf[e] => status'[i] # "pending"
  BY <1>1, <1>2 DEF Rows, RowMoves
<1>4. OlderPending(e)' = {}
  BY <1>3 DEF OlderPending, Rows
<1> QED BY <1>4 DEF Reached, Rows, RowMoves

\* A step that moves rows so and brings nothing else into play keeps the order.
LEMMA OrderStays ==
  ASSUME TypeInv, TypeInv', Recorded, Claimed, Held, Late, Rows, Brings
  PROVE  Recorded' /\ Claimed' /\ Held' /\ Late'
<1>1. Recorded'
  BY DEF Recorded, Rows, RowMoves
<1>2. Claimed'
  <2> SUFFICES ASSUME NEW e \in Ids, attempts'[e] > 0 \/ owner'[e] # None PROVE Reached(e)'
    BY DEF Claimed, Reached, OlderPending
  <2>1. Reached(e)
    BY DEF Brings, Claimed, TypeInv, TypeOK
  <2> QED BY <2>1, ReachedStays
<1>3. Held'
  <2> SUFFICES ASSUME NEW p \in Pods, NEW e \in tick'[p].held PROVE Reached(e)'
    BY DEF Held, Reached, OlderPending
  <2>1. e \in Ids
    BY DEF TypeInv, TypeOK, Tick
  <2>2. Reached(e)
    BY DEF Brings, Held
  <2> QED BY <2>1, <2>2, ReachedStays
<1>4. Late'
  <2> SUFFICES ASSUME NEW e \in late' PROVE Reached(e)'
    BY DEF Late, Reached, OlderPending
  <2>1. e \in Ids
    BY DEF TypeInv, TypeOK
  <2>2. Reached(e)
    BY DEF Brings, Late
  <2> QED BY <2>1, <2>2, ReachedStays
<1> QED BY <1>1, <1>2, <1>3, <1>4

LEMMA InitOrder == Init => Order
  BY DEF Init, Order, Recorded, Claimed, Held, Late, Heard, Idle

\* A step that leaves the rows' order, the claims and the ticks' rows alone.
LEMMA NothingNew ==
  ASSUME TypeInv, UNCHANGED <<projectOf, status, attempts, owner, late>>,
         \A p \in Pods : tick'[p].held \subseteq tick[p].held
  PROVE  Rows /\ Brings
  BY DEF Rows, RowMoves, Brings, TypeInv, TypeOK

\* A pod that goes on to r has heard what it answers for, and the others still have.
LEMMA StillHeard ==
  ASSUME Heard, got \subseteq got', NEW p \in Pods, NEW r, tick'[p] = r,
         \A q \in Pods : q # p => tick'[q] = tick[q],
         r.pc = "answered" /\ r.answer = "ok" => r.cur \in got'
  PROVE  Heard'
  BY DEF Heard

\* Every step moves rows and brings events into play as Order allows, and is a step of
\* OrderedFeed or leaves it unchanged.
LEMMA StepKeepsOrder ==
  ASSUME TypeInv, TypeInv', Order, [Next]_vars
  PROVE  Rows /\ Brings /\ Heard' /\ [Feed!FeedNext]_(Feed!feedVars)
<1> USE DEF Order
<1> DEFINE Goal == Rows /\ Brings /\ Heard' /\ [Feed!FeedNext]_(Feed!feedVars)
           Same == Heard' /\ UNCHANGED <<projectOf, status, got>>
<1>0. ASSUME Rows, Brings, Same PROVE Goal
  BY <1>0 DEF Feed!feedVars
<1>1. ASSUME NEW p \in Pods, NEW S \in SUBSET Ids, ClaimBatch(p, S) PROVE Goal
  <2>1. PICK r \in Tick : TickSound(r) /\ TickTo(p, r) /\ r.pc = "batch" /\ r.held = S
    BY <1>1, ClaimBatchTick
  <2>2. tick'[p] = r /\ \A q \in Pods : q # p => tick'[q] = tick[q]
    BY <2>1, TickToTypes
  <2>3. \A e \in S : Reached(e)
    BY <1>1 DEF ClaimBatch, Claimable, Available, Reached
  <2>4. Heard'
    BY <1>1, <2>1, <2>2, StillHeard DEF ClaimBatch, peerVars
  <2>5. \A e \in Ids : e \in S \/ (attempts'[e] = attempts[e] /\ owner'[e] = owner[e])
    BY <1>1 DEF ClaimBatch, Lease, TypeInv, TypeOK
  <2>6. late' = late /\ attempts \in [Ids -> 0..MaxAttempts]
    BY <1>1 DEF ClaimBatch, peerVars, TypeInv, TypeOK
  <2>7. Brings
    BY <2>1, <2>2, <2>3, <2>5, <2>6 DEF Brings
  <2> QED BY <1>0, <1>1, <2>4, <2>7 DEF ClaimBatch, peerVars, Rows, RowMoves
<1>2. ASSUME NEW p \in Pods, NEW e \in Ids, StartProject(p, e) PROVE Goal
  <2>1. PICK r \in Tick : /\ TickSound(r) /\ TickTo(p, r) /\ r.pc = "sending"
                          /\ r.held = tick[p].held
    BY <1>2, StartProjectTick
  <2>2. tick'[p] = r /\ \A q \in Pods : q # p => tick'[q] = tick[q]
    BY <2>1, TickToTypes
  <2>3. Heard'
    BY <1>2, <2>1, <2>2, StillHeard DEF StartProject
  <2>4. Rows /\ Brings
    BY <1>2, <2>1, <2>2, NothingNew DEF StartProject, rowVars
  <2> QED BY <1>0, <1>2, <2>3, <2>4 DEF StartProject, rowVars
<1>3. ASSUME NEW p \in Pods, NEW e \in Ids, DrainNext(p, e) PROVE Goal
  <2>1. PICK r \in Tick : /\ TickSound(r) /\ TickTo(p, r) /\ r.pc = "sending"
                          /\ r.held = tick[p].held \cup {e}
    BY <1>3, DrainNextTick
  <2>2. tick'[p] = r /\ \A q \in Pods : q # p => tick'[q] = tick[q]
    BY <2>1, TickToTypes
  <2>3. Reached(e)
    BY <1>3 DEF DrainNext, ClaimableNext, Claimable, Available, Reached
  <2>4. Heard'
    BY <1>3, <2>1, <2>2, StillHeard DEF DrainNext
  <2>5. Brings
    BY <1>3, <2>1, <2>2, <2>3 DEF DrainNext, Lease, Brings, TypeInv, TypeOK
  <2> QED BY <1>0, <1>3, <2>4, <2>5 DEF DrainNext, Rows, RowMoves
<1>4. ASSUME NEW p \in Pods, NEW a \in {"ok", "terminal", "retry"}, PeerAnswers(p, a) PROVE Goal
  <2>1. PICK r \in Tick : Between(p, r) /\ r.cur = tick[p].cur /\ r.answer = a
    BY <1>4, AnsweredTick DEF PeerAnswers
  <2>2. tick'[p] = r /\ \A q \in Pods : q # p => tick'[q] = tick[q]
    BY <2>1, TickToTypes DEF Between
  <2>3. Heard'
    BY <1>4, <2>1, <2>2, StillHeard DEF PeerAnswers
  <2>4. Rows /\ Brings
    BY <1>4, <2>1, <2>2, NothingNew DEF PeerAnswers, rowVars, Between
  <2>5. tick[p].cur \in Ids /\ Reached(tick[p].cur)
    BY <1>4, Fields DEF PeerAnswers, At, Held
  <2>6. Feed!Receive(tick[p].cur) \/ UNCHANGED Feed!feedVars
    BY <1>4, <2>5 DEF PeerAnswers, rowVars, Feed!Receive, Feed!Older, Feed!feedVars, Reached, OlderPending
  <2> QED BY <2>3, <2>4, <2>5, <2>6 DEF Feed!FeedNext
<1>5. ASSUME NEW p \in Pods, SendTimesOut(p) PROVE Goal
  <2>1. PICK r \in Tick : Between(p, r) /\ r.answer = "retry"
    BY <1>5, AnsweredTick DEF SendTimesOut
  <2>2. tick'[p] = r /\ \A q \in Pods : q # p => tick'[q] = tick[q]
    BY <2>1, TickToTypes DEF Between
  <2>3. Heard'
    BY <1>5, <2>1, <2>2, StillHeard DEF SendTimesOut
  <2>4. Reached(tick[p].cur)
    BY <1>5, Fields DEF SendTimesOut, At, Held
  <2>5. Rows /\ Brings
    BY <1>5, <2>1, <2>2, <2>4 DEF SendTimesOut, rowVars, Between, Rows, RowMoves, Brings, TypeInv, TypeOK
  <2> QED BY <1>0, <1>5, <2>3, <2>5 DEF SendTimesOut, rowVars
<1>6. ASSUME NEW p \in Pods, Complete(p) PROVE Goal
  <2>1. PICK r \in Tick : Between(p, r) /\ r.pc = "drain"
    BY <1>6, DrainTick DEF Complete
  <2>2. tick'[p] = r /\ \A q \in Pods : q # p => tick'[q] = tick[q]
    BY <2>1, TickToTypes DEF Between
  <2>3. Heard'
    BY <1>6, <2>1, <2>2, StillHeard DEF Complete, peerVars
  <2> DEFINE e == tick[p].cur
  <2>4. e \in Ids /\ Reached(e)
    BY <1>6, Fields DEF Complete, At, Held
  <2>5. PICK s \in {"delivered", "abandoned"} : /\ CompleteRow(p, e, s)
                                                /\ s = "delivered" => e \in got
    BY <1>6 DEF Complete, At, Heard
  <2>6. Rows /\ Brings
    BY <1>6, <2>1, <2>2, <2>4, <2>5 DEF Complete, CompleteRow, Unlease, Mine, peerVars, Between,
       Rows, RowMoves, Brings, TypeInv, TypeOK
  <2>7. Feed!Settle(e) \/ UNCHANGED Feed!feedVars
    BY <1>6, <2>4, <2>5 DEF Complete, CompleteRow, Mine, peerVars, Feed!Settle, Feed!Older,
       Feed!feedVars, Reached, OlderPending
  <2> QED BY <2>3, <2>4, <2>6, <2>7 DEF Feed!FeedNext
<1>7. ASSUME NEW p \in Pods, Reschedule(p) PROVE Goal
  <2>1. PICK r \in Tick : Between(p, r) /\ r.pc = "batch"
    BY <1>7, BatchTick DEF Reschedule, At
  <2>2. tick'[p] = r /\ \A q \in Pods : q # p => tick'[q] = tick[q]
    BY <2>1, TickToTypes DEF Between
  <2>3. Heard'
    <3>1. got' = got /\ r.pc = "batch"
      BY <1>7, <2>1 DEF Reschedule, peerVars
    <3> QED BY <2>2, <3>1, StillHeard
  <2>4. Rows /\ Brings
    BY <1>7, <2>1, <2>2 DEF Reschedule, RescheduleRow, Unlease, peerVars, Between,
       Rows, RowMoves, Brings, TypeInv, TypeOK
  <2> QED BY <1>0, <1>7, <2>3, <2>4 DEF Reschedule, peerVars
<1>8. ASSUME NEW p \in Pods, OutcomeLost(p) \/ DrainEnds(p) PROVE Goal
  <2>1. PICK r \in Tick : Between(p, r) /\ r.pc \in {"drain", "batch"}
    BY <1>8, OutcomeLostTick, BatchTick DEF DrainEnds, At
  <2>2. tick'[p] = r /\ \A q \in Pods : q # p => tick'[q] = tick[q]
    BY <2>1, TickToTypes DEF Between
  <2>3. UNCHANGED <<rowVars, peerVars>>
    BY <1>8 DEF OutcomeLost, DrainEnds
  <2>4. Heard'
    BY <2>1, <2>2, <2>3 DEF peerVars, Heard
  <2>5. Rows /\ Brings
    BY <2>1, <2>2, <2>3, NothingNew DEF rowVars, peerVars, Between
  <2> QED BY <1>0, <2>3, <2>4, <2>5 DEF rowVars, peerVars
<1>9. ASSUME NEW p \in Pods, EndTick(p) PROVE Goal
  <2>1. tick'[p] = Idle /\ \A q \in Pods : q # p => tick'[q] = tick[q]
    BY <1>9 DEF EndTick, TypeInv, TypeOK
  <2>2. Heard'
    BY <1>9, <2>1 DEF EndTick, peerVars, Heard, Idle
  <2>3. Rows /\ Brings
    BY <1>9, <2>1, IdleTick, NothingNew DEF EndTick, rowVars, peerVars
  <2> QED BY <1>0, <1>9, <2>2, <2>3 DEF EndTick, rowVars, peerVars
<1>10. ASSUME NEW p \in Pods, Crash(p) PROVE Goal
  <2>1. tick'[p] = Idle /\ \A q \in Pods : q # p => tick'[q] = tick[q]
    BY <1>10 DEF Crash, TypeInv, TypeOK
  <2>2. Heard'
    BY <1>10, <2>1 DEF Crash, Heard, Idle
  <2>3. At(p, "sending") => Reached(tick[p].cur)
    BY Fields DEF At, Held
  <2>4. Rows /\ Brings
    BY <1>10, <2>1, <2>3, IdleTick DEF Crash, rowVars, Rows, RowMoves, Brings, TypeInv, TypeOK
  <2> QED BY <1>0, <1>10, <2>2, <2>4 DEF Crash, rowVars
<1>11. ASSUME NEW p \in Pods, SenderRefused(p) PROVE Goal
  <2>1. tick'[p] = Idle /\ \A q \in Pods : q # p => tick'[q] = tick[q]
    BY <1>11 DEF SenderRefused, TypeInv, TypeOK
  <2>2. Heard'
    BY <1>11, <2>1 DEF SenderRefused, peerVars, Heard, Idle
  <2>3. \A e \in Ids : attempts'[e] <= attempts[e] /\ owner'[e] \in {owner[e], None}
    BY <1>11, Constants DEF SenderRefused, Refund, Unlease, TypeInv, TypeOK
  <2>4. Brings
    BY <1>11, <2>1, <2>3, IdleTick DEF SenderRefused, peerVars, Brings, TypeInv, TypeOK
  <2> QED BY <1>0, <1>11, <2>2, <2>4 DEF SenderRefused, peerVars, Rows, RowMoves
<1>12. ASSUME NEW p \in Pods, Heartbeat(p) PROVE Goal
  BY <1>0, <1>12, NothingNew DEF Heartbeat, peerVars, Heard
<1>13. ASSUME NEW e \in Ids, Enqueue(e) PROVE Goal
  <2>1. Rows /\ Brings
    BY <1>13 DEF Enqueue, peerVars, Rows, RowMoves, Brings, TypeInv, TypeOK
  <2>2. Feed!Record(e)
    BY <1>13, Constants DEF Enqueue, peerVars, Recorded, Feed!Record
  <2> QED BY <1>13, <2>1, <2>2 DEF Enqueue, peerVars, Heard, Feed!FeedNext
<1>14. ASSUME NEW e \in Ids, Sweep(e) PROVE Goal
  <2>1. Reached(e)
    BY <1>14, Constants DEF Sweep, Exhausted, Claimed, TypeInv, TypeOK
  <2>2. Rows /\ Brings
    BY <1>14 DEF Sweep, Exhausted, Unlease, peerVars, Rows, RowMoves, Brings, TypeInv, TypeOK
  <2>3. Feed!Settle(e)
    BY <1>14, <2>1 DEF Sweep, Exhausted, peerVars, Reached, OlderPending, Feed!Settle, Feed!Older
  <2> QED BY <1>14, <2>2, <2>3 DEF Sweep, peerVars, Heard, Feed!FeedNext
<1>15. ASSUME NEW e \in Ids, Purge(e) PROVE Goal
  <2>1. Rows /\ Brings
    BY <1>15 DEF Purge, peerVars, Rows, RowMoves, Brings, TypeInv, TypeOK
  <2>2. Feed!Forget(e)
    BY <1>15 DEF Purge, peerVars, Feed!Forget
  <2> QED BY <1>15, <2>1, <2>2 DEF Purge, peerVars, Heard, Feed!FeedNext
<1>16. ASSUME NEW e \in Ids, BackoffElapses(e) \/ LeaseElapses(e) \/ Stall(e) PROVE Goal
  BY <1>0, <1>16, NothingNew DEF BackoffElapses, LeaseElapses, Stall, peerVars, Heard
<1>17. ASSUME NEW e \in Ids, LateArrives(e) PROVE Goal
  <2>1. Rows /\ Brings /\ Heard'
    BY <1>17 DEF LateArrives, rowVars, Rows, RowMoves, Brings, Heard, TypeInv, TypeOK
  <2>2. Feed!Receive(e)
    BY <1>17 DEF LateArrives, rowVars, Late, Reached, OlderPending, Feed!Receive, Feed!Older
  <2> QED BY <2>1, <2>2 DEF Feed!FeedNext
<1>18. ASSUME NEW e \in Ids, LateLost(e) PROVE Goal
  BY <1>0, <1>18 DEF LateLost, rowVars, Rows, RowMoves, Brings, Heard, TypeInv, TypeOK
<1>19. CASE UNCHANGED vars
  BY <1>0, <1>19, NothingNew DEF vars, rowVars, peerVars, Heard
<1> QED
  BY <1>1, <1>2, <1>3, <1>4, <1>5, <1>6, <1>7, <1>8, <1>9, <1>10, <1>11, <1>12, <1>13,
     <1>14, <1>15, <1>16, <1>17, <1>18, <1>19 DEF Next, Claims, PodStep

LEMMA OrderInvariant == Spec => [](TypeInv /\ Order)
<1>1. TypeInv /\ Order /\ [Next]_vars => TypeInv' /\ Order'
  BY NextTypes, StepKeepsOrder, OrderStays DEF Order
<1> QED BY InitTypes, InitOrder, <1>1, PTL DEF Spec

\* The outbox implements OrderedFeed, for every number of pods, events and projects: no
\* event reaches the peer, is settled or is forgotten out of its project's order, however
\* leases lapse, pods stall and die, outcomes are lost and requests arrive late.
THEOREM FeedRefined == Spec => KeepsOrder
<1>1. Init => Feed!FeedInit
  BY LifecycleAssumption DEF Init, Feed!FeedInit
<1>2. TypeInv /\ Order /\ TypeInv' /\ [Next]_vars => [Feed!FeedNext]_(Feed!feedVars)
  BY StepKeepsOrder
<1> QED BY <1>1, <1>2, OrderInvariant, PTL DEF Spec, KeepsOrder, Feed!FeedSpec

\* The claim is a lock: two pods with standing leases never send for one project at once.
THEOREM OneSender == Spec => []OneSenderPerProject
<1>1. TypeInv /\ Order => OneSenderPerProject
  <2> SUFFICES ASSUME TypeInv, Order, NEW p \in Pods, NEW q \in Pods, p # q,
                      At(p, "sending"), At(q, "sending"),
                      Mine(p, tick[p].cur), Mine(q, tick[q].cur),
                      projectOf[tick[p].cur] = projectOf[tick[q].cur]
               PROVE  FALSE
    BY DEF OneSenderPerProject
  <2> DEFINE d == tick[p].cur
             e == tick[q].cur
  <2>1. d \in Ids /\ e \in Ids /\ Reached(d) /\ Reached(e)
    BY Fields DEF At, Order, Held
  <2>2. d # e
    BY DEF Mine
  <2>3. d < e \/ e < d
    <3>1. d \in Nat /\ e \in Nat
      BY <2>1, Constants
    <3> HIDE DEF d, e
    <3> QED BY <2>2, <3>1
  <2> QED BY <2>1, <2>3 DEF Mine, Reached, OlderPending
<1> QED BY <1>1, OrderInvariant, PTL

-----------------------------------------------------------------------------
(* The retry budget. *)

\* The pods that have claimed the event and not yet looked at it.
Waiting(e) == {p \in Pods : e \in tick[p].batch}

\* What makes SendsCharged inductive: each of them has charged the event for a request that
\* it may still make or give back, also when its lease has passed on to another pod.
Charged == \A e \in Ids : sends[e] + Cardinality(Waiting(e)) <= attempts[e]

\* How a step of a pod changes who is waiting.
LEMMA WaitingMoves ==
  ASSUME TypeInv, NEW p \in Pods, NEW r \in Tick, TickSound(r), TickTo(p, r), NEW e \in Ids
  PROVE  /\ Cardinality(Waiting(e)) \in Nat /\ Cardinality(Waiting(e)') \in Nat
         /\ (e \in r.batch <=> e \in tick[p].batch) => Waiting(e)' = Waiting(e)
         /\ e \in r.batch /\ e \notin tick[p].batch =>
                Cardinality(Waiting(e)') = Cardinality(Waiting(e)) + 1
         /\ e \notin r.batch /\ e \in tick[p].batch =>
                Cardinality(Waiting(e)) = Cardinality(Waiting(e)') + 1
<1>1. tick'[p] = r /\ \A q \in Pods : q # p => tick'[q] = tick[q]
  BY TickToTypes
<1>2. IsFiniteSet(Waiting(e)) /\ IsFiniteSet(Waiting(e)')
  BY FS_Subset, Constants DEF Waiting
<1>3. Cardinality(Waiting(e)) \in Nat /\ Cardinality(Waiting(e)') \in Nat
  BY <1>2, FS_CardinalityType
<1>4. (e \in r.batch <=> e \in tick[p].batch) => Waiting(e)' = Waiting(e)
  BY <1>1 DEF Waiting
<1>5. ASSUME e \in r.batch, e \notin tick[p].batch
      PROVE  Cardinality(Waiting(e)') = Cardinality(Waiting(e)) + 1
  <2>1. Waiting(e)' = Waiting(e) \cup {p} /\ p \notin Waiting(e)
    BY <1>1, <1>5 DEF Waiting
  <2> QED BY <1>2, <2>1, FS_AddElement
<1>6. ASSUME e \notin r.batch, e \in tick[p].batch
      PROVE  Cardinality(Waiting(e)) = Cardinality(Waiting(e)') + 1
  <2>1. Waiting(e) = Waiting(e)' \cup {p} /\ p \notin Waiting(e)'
    BY <1>1, <1>6 DEF Waiting
  <2> QED BY <1>2, <2>1, FS_AddElement
<1> QED BY <1>3, <1>4, <1>5, <1>6

LEMMA InitCharged == Init => Charged
<1> SUFFICES ASSUME Init, NEW e \in Ids PROVE sends[e] + Cardinality(Waiting(e)) <= attempts[e]
  BY DEF Charged
<1>1. Waiting(e) = {}
  BY DEF Init, Waiting, Idle
<1> QED BY <1>1, FS_EmptySet DEF Init

\* Every request, claim and refund keeps to the charges.
LEMMA NextCharged == TypeInv /\ Charged /\ [Next]_vars => Charged'
<1> SUFFICES ASSUME TypeInv, Charged, [Next]_vars, NEW e \in Ids
             PROVE  sends'[e] + Cardinality(Waiting(e)') <= attempts'[e]
  BY DEF Charged, Waiting
<1> DEFINE Goal == sends'[e] + Cardinality(Waiting(e)') <= attempts'[e]
           n == Cardinality(Waiting(e))
<1>0. sends[e] + n <= attempts[e] /\ sends[e] \in Nat /\ attempts[e] \in 0..MaxAttempts
  BY DEF Charged, TypeInv, TypeOK
<1>1. n \in Nat
  BY FS_Subset, FS_CardinalityType, Constants DEF Waiting
<1>2. ASSUME Waiting(e)' = Waiting(e), sends'[e] = sends[e], attempts'[e] = attempts[e] PROVE Goal
  BY <1>0, <1>2
<1>3. ASSUME NEW p \in Pods, NEW S \in SUBSET Ids, ClaimBatch(p, S) PROVE Goal
  <2>1. PICK r \in Tick : TickSound(r) /\ TickTo(p, r) /\ r.batch = S
    BY <1>3, ClaimBatchTick
  <2>2. e \notin tick[p].batch
    BY <1>3, Fields DEF ClaimBatch, At, TickSound
  <2>3. sends'[e] = sends[e] /\ attempts'[e] = IF e \in S THEN attempts[e] + 1 ELSE attempts[e]
    BY <1>3 DEF ClaimBatch, Lease, peerVars
  <2>4. CASE e \in S
    <3>1. Cardinality(Waiting(e)') = n + 1
      BY <2>1, <2>2, <2>4, WaitingMoves
    <3> HIDE DEF n
    <3> QED BY <1>0, <1>1, <2>3, <2>4, <3>1
  <2>5. CASE e \notin S
    <3>1. Waiting(e)' = Waiting(e)
      BY <2>1, <2>2, <2>5, WaitingMoves
    <3> QED BY <1>2, <2>3, <2>5, <3>1
  <2> QED BY <2>4, <2>5
<1>4. ASSUME NEW p \in Pods, NEW d \in Ids, StartProject(p, d) PROVE Goal
  <2>1. PICK r \in Tick : TickSound(r) /\ TickTo(p, r) /\ r.batch = tick[p].batch \ {d}
    BY <1>4, StartProjectTick
  <2>2. /\ d \in tick[p].batch /\ attempts'[e] = attempts[e]
        /\ sends'[e] = IF e = d THEN sends[e] + 1 ELSE sends[e]
    BY <1>4 DEF StartProject, rowVars, TypeInv, TypeOK
  <2>3. CASE e = d
    <3>1. n = Cardinality(Waiting(e)') + 1 /\ Cardinality(Waiting(e)') \in Nat
      BY <2>1, <2>2, <2>3, WaitingMoves
    <3> HIDE DEF n
    <3> QED BY <1>0, <1>1, <2>2, <2>3, <3>1
  <2>4. CASE e # d
    <3>1. Waiting(e)' = Waiting(e)
      BY <2>1, <2>4, WaitingMoves
    <3> QED BY <1>2, <2>2, <2>4, <3>1
  <2> QED BY <2>3, <2>4
<1>5. ASSUME NEW p \in Pods, NEW d \in Ids, DrainNext(p, d) PROVE Goal
  <2>1. PICK r \in Tick : TickSound(r) /\ TickTo(p, r) /\ r.batch = tick[p].batch
    BY <1>5, DrainNextTick
  <2>2. Waiting(e)' = Waiting(e)
    BY <2>1, WaitingMoves
  <2>3. /\ attempts'[e] = IF e = d THEN attempts[e] + 1 ELSE attempts[e]
        /\ sends'[e] = IF e = d THEN sends[e] + 1 ELSE sends[e]
    BY <1>5 DEF DrainNext, Lease, TypeInv, TypeOK
  <2> HIDE DEF n
  <2>4. Cardinality(Waiting(e)') = n
    BY <2>2 DEF n
  <2> QED BY <1>0, <1>1, <2>3, <2>4
<1>6. ASSUME NEW p \in Pods, NEW r \in Tick, Between(p, r), UNCHANGED <<sends, attempts>> PROVE Goal
  <2>1. Waiting(e)' = Waiting(e)
    BY <1>6, WaitingMoves DEF Between
  <2> QED BY <1>2, <1>6, <2>1
<1>7. ASSUME NEW p \in Pods, NEW a \in {"ok", "terminal", "retry"}, PeerAnswers(p, a) PROVE Goal
  BY <1>6, <1>7, AnsweredTick DEF PeerAnswers, rowVars
<1>8. ASSUME NEW p \in Pods, SendTimesOut(p) PROVE Goal
  BY <1>6, <1>8, AnsweredTick DEF SendTimesOut, rowVars
<1>9. ASSUME NEW p \in Pods, Complete(p) PROVE Goal
  BY <1>6, <1>9, DrainTick DEF Complete, peerVars
<1>10. ASSUME NEW p \in Pods, Reschedule(p) PROVE Goal
  <2>1. PICK r \in Tick : Between(p, r)
    BY <1>10, BatchTick DEF Reschedule, At
  <2> QED BY <1>6, <1>10, <2>1 DEF Reschedule, peerVars
<1>11. ASSUME NEW p \in Pods, OutcomeLost(p) PROVE Goal
  BY <1>6, <1>11, OutcomeLostTick DEF OutcomeLost, rowVars, peerVars
<1>12. ASSUME NEW p \in Pods, DrainEnds(p) PROVE Goal
  <2>1. PICK r \in Tick : Between(p, r)
    BY <1>12, BatchTick DEF DrainEnds, At
  <2> QED BY <1>6, <1>12, <2>1 DEF DrainEnds, rowVars, peerVars
<1>13. ASSUME NEW p \in Pods, TickTo(p, Idle), sends'[e] = sends[e],
              attempts'[e] = attempts[e] \/ (e \in tick[p].batch /\ attempts'[e] \in {attempts[e], attempts[e] - 1})
       PROVE  Goal
  <2>1. CASE e \in tick[p].batch
    <3>1. n = Cardinality(Waiting(e)') + 1 /\ Cardinality(Waiting(e)') \in Nat
      BY <1>13, <2>1, IdleTick, WaitingMoves
    <3> HIDE DEF n
    <3> QED BY <1>0, <1>1, <1>13, <3>1
  <2>2. CASE e \notin tick[p].batch
    <3>1. Waiting(e)' = Waiting(e)
      BY <1>13, <2>2, IdleTick, WaitingMoves
    <3> QED BY <1>2, <1>13, <2>2, <3>1
  <2> QED BY <2>1, <2>2
<1>14. ASSUME NEW p \in Pods, EndTick(p) PROVE Goal
  BY <1>13, <1>14 DEF EndTick, TickTo, rowVars, peerVars
<1>15. ASSUME NEW p \in Pods, Crash(p) PROVE Goal
  BY <1>13, <1>15 DEF Crash, TickTo, rowVars
<1>16. ASSUME NEW p \in Pods, SenderRefused(p) PROVE Goal
  <2>1. TickTo(p, Idle) /\ sends' = sends
    BY <1>16 DEF SenderRefused, TickTo, peerVars
  <2>2. attempts'[e] = attempts[e] \/ (e \in tick[p].batch /\ attempts'[e] = attempts[e] - 1)
    BY <1>16 DEF SenderRefused, Refund
  <2> QED BY <1>13, <2>1, <2>2
<1>17. ASSUME UNCHANGED <<tick, sends, attempts>> PROVE Goal
  BY <1>2, <1>17 DEF Waiting
<1>18. ASSUME NEW p \in Pods, Heartbeat(p) PROVE Goal
  BY <1>17, <1>18 DEF Heartbeat, peerVars
<1>19. ASSUME NEW i \in Ids, Enqueue(i) \/ Sweep(i) \/ Purge(i) PROVE Goal
  BY <1>17, <1>19 DEF Enqueue, Sweep, Purge, peerVars
<1>20. ASSUME NEW i \in Ids, BackoffElapses(i) \/ LeaseElapses(i) \/ Stall(i) PROVE Goal
  BY <1>17, <1>20 DEF BackoffElapses, LeaseElapses, Stall, peerVars
<1>21. ASSUME NEW i \in Ids, LateArrives(i) \/ LateLost(i) PROVE Goal
  BY <1>17, <1>21 DEF LateArrives, LateLost, rowVars
<1>22. CASE UNCHANGED vars
  BY <1>17, <1>22 DEF vars, rowVars, peerVars
<1> QED
  BY <1>3, <1>4, <1>5, <1>7, <1>8, <1>9, <1>10, <1>11, <1>12, <1>14, <1>15, <1>16, <1>18,
     <1>19, <1>20, <1>21, <1>22 DEF Next, Claims, PodStep

\* The peer is never asked about an event more often than its row was charged, and so at
\* most MaxAttempts times, whoever loses leases, refunds claims or dies.
THEOREM RequestsCharged == Spec => []SendsCharged
<1>1. TypeInv /\ Charged => SendsCharged
  <2> SUFFICES ASSUME TypeInv, Charged, NEW e \in Ids PROVE sends[e] <= attempts[e]
    BY DEF SendsCharged
  <2>1. Cardinality(Waiting(e)) \in Nat
    BY FS_Subset, FS_CardinalityType, Constants DEF Waiting
  <2>2. sends[e] \in Nat /\ attempts[e] \in Nat
    BY DEF TypeInv, TypeOK
  <2> QED BY <2>1, <2>2 DEF Charged
<1>2. TypeInv /\ Charged /\ [Next]_vars => TypeInv' /\ Charged'
  BY NextTypes, NextCharged
<1> QED BY InitTypes, InitCharged, <1>1, <1>2, PTL DEF Spec

\* The invariant of the outbox: types, one sender per project, charged requests.
THEOREM OutboxIsSound == Spec => []OutboxSound
<1>1. TypeOK /\ OneSenderPerProject /\ SendsCharged => OutboxSound
  BY DEF OutboxSound
<1> QED BY TypeCorrect, OneSender, RequestsCharged, <1>1, PTL

-----------------------------------------------------------------------------
(* Provisioning: the rows of the other outbox. *)

\* What the worlds say of the pods' settings.
LEMMA Settings ==
  ASSUME world \in Worlds
  PROVE  /\ Limit \in Maxes /\ Limit \in Nat \ {0}
         /\ \A m \in Maxes : m \in Nat \ {0} /\ m <= Limit
         /\ Configs \subseteq SUBSET Targets
         /\ MaxFaults \in Nat /\ MaxRequeues \in Nat
         /\ Fleet \in Targets /\ Reclaim \subseteq Targets
<1>1. Maxes \subseteq Nat \ {0} /\ \E m \in Maxes : \A n \in Maxes : n <= m
  BY ProvisioningAssumption DEF Maxes
<1>2. Limit \in Maxes /\ \A n \in Maxes : n <= Limit
  BY <1>1 DEF Limit
<1>3. /\ Configs \subseteq SUBSET Targets
      /\ MaxFaults \in Nat /\ MaxRequeues \in Nat
      /\ Fleet \in Targets /\ Reclaim \subseteq Targets
  BY ProvisioningAssumption DEF Configs, MaxFaults, MaxRequeues
<1> QED BY <1>1, <1>2, <1>3

\* The keys and the crew are pairs.
LEMMA Pairs ==
  /\ \A p \in Projects, t \in Targets : <<p, t>> \in Keys
  /\ \A k \in Keys : k[1] \in Projects /\ k[2] \in Targets /\ k = <<k[1], k[2]>>
  /\ \A d \in Pods, t \in Targets : <<d, t>> \in Crew
  /\ \A c \in Crew : c[1] \in Pods /\ c[2] \in Targets /\ c = <<c[1], c[2]>>
  BY DEF Keys, Crew

Phases == {"look", "call", "ready", "failed", "refused", "latch"}
Busy == [pc : Phases, p : Projects, own : Nat, att : Nat]

\* A job is idle or busy.
LEMMA JobFields ==
  ASSUME NEW j \in Jobs
  PROVE  /\ j # ProvIdle <=> j.pc # "idle"
         /\ j # ProvIdle => /\ j \in Busy /\ j.pc \in Phases /\ j.p \in Projects
                            /\ j.own \in Nat /\ j.att \in Nat
  BY DEF Jobs, ProvIdle, Phases, Busy

LEMMA BusyJob ==
  ASSUME NEW j \in Busy
  PROVE  /\ j \in Jobs /\ j # ProvIdle /\ j.pc # "idle" /\ j.pc \in Phases
         /\ j.p \in Projects /\ j.own \in Nat /\ j.att \in Nat
  BY DEF Jobs, ProvIdle, Phases, Busy

\* What a pod does for one target goes on as j; the rest of the crew is left alone.
JobTo(c, j) == wk' = [wk EXCEPT ![c] = j]

LEMMA JobToTypes ==
  ASSUME wk \in [Crew -> Jobs], NEW c \in Crew, NEW j \in Jobs, JobTo(c, j)
  PROVE  /\ wk' \in [Crew -> Jobs] /\ wk'[c] = j
         /\ \A b \in Crew : b # c => wk'[b] = wk[b]
  BY DEF JobTo

\* A running job changes phase and keeps its claim.
LEMMA GoesOn ==
  ASSUME wk \in [Crew -> Jobs], NEW c \in Crew, wk[c].pc # "idle",
         NEW pc \in Phases, Goes(c, pc)
  PROVE  \E j \in Busy : /\ JobTo(c, j) /\ j.pc = pc /\ j.p = wk[c].p
                         /\ j.own = wk[c].own /\ j.att = wk[c].att
<1>1. PICK r : r = wk[c]
  OBVIOUS
<1>2. r \in Busy
  BY <1>1, JobFields
<1> DEFINE j == [r EXCEPT !.pc = pc]
<1>3. j \in Busy /\ j.pc = pc /\ j.p = r.p /\ j.own = r.own /\ j.att = r.att
  BY <1>2 DEF Busy
<1>4. JobTo(c, j)
  BY <1>1 DEF Goes, JobTo
<1> QED BY <1>1, <1>3, <1>4

LEMMA RestsIdle ==
  ASSUME NEW c \in Crew, Rests(c)
  PROVE  ProvIdle \in Jobs /\ ProvIdle.pc = "idle" /\ JobTo(c, ProvIdle)
  BY DEF Rests, JobTo, ProvIdle, Jobs

LEMMA ProvInitTypes ==
  ASSUME ProvInit
  PROVE  ProvTypeOK
<1>1. world \in Worlds
  BY DEF ProvInit
<1>2. 0 \in 0..Limit /\ 0 \in 0..MaxFaults /\ 0 \in 0..MaxRequeues
  BY <1>1, Settings
<1>3. ProvIdle \in Jobs
  BY DEF Jobs
<1> QED BY <1>1, <1>2, <1>3 DEF ProvInit, ProvTypeOK

\* The world of a behaviour is chosen once.
LEMMA SameWorld ==
  ASSUME UNCHANGED world
  PROVE  /\ Limit' = Limit /\ Maxes' = Maxes /\ Configs' = Configs
         /\ MaxFaults' = MaxFaults /\ MaxRequeues' = MaxRequeues
         /\ Stalls' = Stalls
  BY DEF Limit, Maxes, Configs, MaxFaults, MaxRequeues, Stalls

\* A failed statement, or none.
LEMMA FaultTypes ==
  ASSUME ProvTypeOK, Done \/ Fault
  PROVE  faults' \in 0..MaxFaults
<1>1. faults \in 0..MaxFaults /\ MaxFaults \in Nat
  BY Settings DEF ProvTypeOK
<1> QED BY <1>1 DEF Done, Fault

Statuses == {"none", "pending", "ready", "abandoned", "disband", "purged"}
Leases == {"null", "live", "lapsed", "grace"}

\* The outcome of a call is written to the row that the job holds, or nothing is.
LEMMA WriteTypes ==
  ASSUME ProvTypeOK, NEW k \in Keys, NEW r, NEW to \in Statuses, NEW later \in BOOLEAN,
         Write(k, r, to, later)
  PROVE  /\ row' \in [Keys -> Statuses] /\ holder' \in [Keys -> Nat]
         /\ leased' \in [Keys -> Leases] /\ dueNow' \in [Keys -> BOOLEAN]
         /\ Done \/ Fault
<1>1. /\ row \in [Keys -> Statuses] /\ holder \in [Keys -> Nat]
      /\ leased \in [Keys -> Leases] /\ dueNow \in [Keys -> BOOLEAN]
  BY DEF ProvTypeOK, Statuses, Leases
<1>2. CASE UNCHANGED <<row, holder, leased, dueNow>> /\ (Done \/ Fault)
  BY <1>1, <1>2
<1>3. CASE /\ Done
           /\ row' = [row EXCEPT ![k] = to] /\ holder' = [holder EXCEPT ![k] = 0]
           /\ leased' = [leased EXCEPT ![k] = "null"]
           /\ dueNow' = [dueNow EXCEPT ![k] = ~ later]
  <2>1. row' \in [Keys -> Statuses] /\ holder' \in [Keys -> Nat]
    BY <1>1, <1>3
  <2>2. leased' \in [Keys -> Leases]
    BY <1>1, <1>3 DEF Leases
  <2>3. dueNow' \in [Keys -> BOOLEAN]
    BY <1>1, <1>3
  <2> QED BY <1>3, <2>1, <2>2, <2>3
<1> QED BY <1>2, <1>3 DEF Write

\* How a job of the crew goes on, by its action.
LEMMA ClaimJob ==
  ASSUME ProvTypeOK, NEW c \in Crew, NEW p \in Projects, Claim(c, p)
  PROVE  \/ UNCHANGED wk
         \/ \E j \in Busy : /\ JobTo(c, j) /\ j.pc \in {"look", "call"} /\ j.p = p
                            /\ j.own = claims[<<p, c[2]>>] + 1
<1>1. <<p, c[2]>> \in Keys
  BY Pairs
<1>2. claims[<<p, c[2]>>] + 1 \in Nat /\ tries[<<p, c[2]>>] + 1 \in Nat
  BY <1>1 DEF ProvTypeOK
<1> DEFINE j == [pc |-> IF c[2] = Fleet THEN "call" ELSE "look", p |-> p,
                 own |-> claims[<<p, c[2]>>] + 1, att |-> tries[<<p, c[2]>>] + 1]
<1>3. /\ j \in Busy /\ j.pc \in {"look", "call"} /\ j.p = p
      /\ j.own = claims[<<p, c[2]>>] + 1
  BY <1>2 DEF Busy, Phases
<1>4. UNCHANGED wk \/ JobTo(c, j)
  BY DEF Claim, JobTo
<1> QED BY <1>3, <1>4

\* The other steps of a job: it rests, or it goes on with its claim.
GoesTo(c, pcs) ==
    \E j \in Busy : /\ JobTo(c, j) /\ j.pc \in pcs /\ j.p = wk[c].p
                    /\ j.own = wk[c].own /\ j.att = wk[c].att

LEMMA JobSteps ==
  ASSUME ProvTypeOK, NEW c \in Crew
  PROVE  /\ Look(c) => GoesTo(c, {"call", "failed"})
         /\ Call(c) => GoesTo(c, {"ready", "failed", "refused"})
         /\ Finish(c) => GoesTo(c, {"latch"}) \/ JobTo(c, ProvIdle)
         /\ GiveUp(c) \/ Release(c) \/ Latch(c) => JobTo(c, ProvIdle)
<1>1. wk \in [Crew -> Jobs]
  BY DEF ProvTypeOK
<1>2. \A pc \in Phases : wk[c].pc # "idle" /\ Goes(c, pc) => GoesTo(c, {pc})
  BY <1>1, GoesOn DEF GoesTo
<1>3. \A S, T : S \subseteq T /\ GoesTo(c, S) => GoesTo(c, T)
  BY DEF GoesTo
<1>4. Look(c) => GoesTo(c, {"call", "failed"})
  BY <1>2, <1>3 DEF Look, Phases
<1>5. Call(c) => GoesTo(c, {"ready", "failed", "refused"})
  BY <1>2, <1>3 DEF Call, Phases
<1>6. Finish(c) => GoesTo(c, {"latch"}) \/ JobTo(c, ProvIdle)
  BY <1>2, RestsIdle DEF Finish, Phases
<1>7. GiveUp(c) \/ Release(c) \/ Latch(c) => JobTo(c, ProvIdle)
  BY RestsIdle DEF GiveUp, Release, Latch
<1> QED BY <1>4, <1>5, <1>6, <1>7

\* A step of a job leaves every job well formed.
LEMMA WorkTypes ==
  ASSUME ProvTypeOK, NEW c \in Crew, Works(c)
  PROVE  wk' \in [Crew -> Jobs]
<1>1. wk \in [Crew -> Jobs]
  BY DEF ProvTypeOK
<1>2. \A j \in Jobs : JobTo(c, j) => wk' \in [Crew -> Jobs]
  BY <1>1, JobToTypes
<1>3. ProvIdle \in Jobs /\ Busy \subseteq Jobs
  BY BusyJob DEF Jobs
<1>4. \A pcs : GoesTo(c, pcs) => wk' \in [Crew -> Jobs]
  BY <1>2, <1>3 DEF GoesTo
<1>5. ASSUME NEW p \in Projects, Claim(c, p)
      PROVE  wk' \in [Crew -> Jobs]
  BY <1>1, <1>2, <1>3, <1>5, ClaimJob
<1> QED BY <1>2, <1>3, <1>4, <1>5, JobSteps DEF Works

\* The rows and what hangs on them.
RowTypes ==
    /\ row \in [Keys -> Statuses] /\ tries \in [Keys -> 0..Limit]
    /\ dueNow \in [Keys -> BOOLEAN] /\ leased \in [Keys -> Leases]
    /\ holder \in [Keys -> Nat] /\ claims \in [Keys -> Nat]
    /\ created \in [Keys -> BOOLEAN]
    /\ requeues \in [Keys -> 0..MaxRequeues]

\* The projects and what the pods have selected.
ListTypes ==
    /\ proj \in [Projects -> {"none", "normal", "disbanded"}]
    /\ activated \in [Projects -> BOOLEAN]
    /\ cfg \in [Pods -> [max : Maxes, on : Configs]]
    /\ swept \in [Pods -> SUBSET Keys] /\ requeue \in [Pods -> SUBSET Keys]
    /\ rec \subseteq Projects

LEMMA TypeParts ==
  ProvTypeOK <=> /\ RowTypes /\ ListTypes /\ world \in Worlds /\ faults \in 0..MaxFaults
                 /\ wk \in [Crew -> Jobs]
  BY DEF ProvTypeOK, RowTypes, ListTypes, Statuses, Leases

LEMMA RowStepTypes ==
  ASSUME ProvTypeOK, Step, UNCHANGED world
  PROVE  RowTypes'
<1>0. /\ RowTypes /\ Limit \in Nat /\ MaxRequeues \in Nat
      /\ Limit' = Limit /\ MaxRequeues' = MaxRequeues
  BY TypeParts, SameWorld, Settings DEF ProvTypeOK
<1>1. ASSUME UNCHANGED <<row, tries, dueNow, leased, holder, claims, created, requeues>>
      PROVE  RowTypes'
  BY <1>0, <1>1 DEF RowTypes, Keys
<1>2. ASSUME NEW d \in Pods, NEW p \in Projects, Create(d, p) PROVE RowTypes'
  <2>1. row' \in [Keys -> Statuses] /\ dueNow' \in [Keys -> BOOLEAN]
    BY <1>0, <1>2 DEF Create, RowTypes, Statuses
  <2> QED BY <1>0, <1>2, <2>1 DEF Create, RowTypes
<1>3. ASSUME NEW p \in Projects, Disband(p) PROVE RowTypes'
  <2>1. /\ row' \in [Keys -> Statuses] /\ holder' \in [Keys -> Nat]
        /\ leased' \in [Keys -> Leases]
    BY <1>0, <1>3 DEF Disband, RowTypes, Statuses, Leases
  <2> QED BY <1>0, <1>3, <2>1 DEF Disband, RowTypes
<1>4. ASSUME NEW c \in Crew, NEW p \in Projects, Claim(c, p) PROVE RowTypes'
  <2> DEFINE k == <<p, c[2]>>
  <2>1. k \in Keys
    BY Pairs
  <2>2. tries[k] + 1 \in 0..Limit
    <3>1. cfg[c[1]].max <= Limit /\ cfg[c[1]].max \in Nat
      BY Pairs, Settings, TypeParts DEF ListTypes, ProvTypeOK
    <3>2. tries[k] \in 0..Limit /\ tries[k] < cfg[c[1]].max
      BY <1>0, <1>4, <2>1 DEF RowTypes, Claim, Within
    <3> QED BY <1>0, <3>1, <3>2
  <2> HIDE DEF k
  <2>3. /\ tries' = [tries EXCEPT ![k] = tries[k] + 1]
        /\ claims' = [claims EXCEPT ![k] = @ + 1] /\ holder' = [holder EXCEPT ![k] = claims[k] + 1]
        /\ leased' = [leased EXCEPT ![k] = "live"]
        /\ UNCHANGED <<row, dueNow, created, requeues>>
    BY <1>4 DEF Claim, Counted, k
  <2>4. /\ tries' \in [Keys -> 0..Limit] /\ claims' \in [Keys -> Nat]
        /\ holder' \in [Keys -> Nat] /\ leased' \in [Keys -> Leases]
    BY <1>0, <2>1, <2>2, <2>3 DEF RowTypes, Leases
  <2> QED BY <1>0, <2>3, <2>4 DEF RowTypes
<1>5. ASSUME NEW c \in Crew, Look(c) \/ Latch(c) PROVE RowTypes'
  BY <1>1, <1>5 DEF Look, Latch, cell
<1>6. ASSUME NEW c \in Crew, Call(c) PROVE RowTypes'
  <2>1. wk[c].p \in Projects /\ <<wk[c].p, c[2]>> \in Keys
    BY <1>6, Pairs, JobFields, TypeParts DEF Call
  <2>2. created' \in [Keys -> BOOLEAN]
    BY <1>0, <1>6, <2>1 DEF Call, RowTypes
  <2> QED BY <1>0, <1>6, <2>2 DEF Call, cell, RowTypes
<1>7. ASSUME NEW c \in Crew, Finish(c) \/ GiveUp(c) \/ Release(c)
      PROVE  RowTypes'
  <2>1. wk[c].pc # "idle"
    BY <1>7 DEF Finish, GiveUp, ProvGivesUp, Release
  <2>2. <<wk[c].p, c[2]>> \in Keys
    BY <2>1, Pairs, JobFields, TypeParts
  <2>3. PICK k \in Keys : k = <<wk[c].p, c[2]>>
    BY <2>2
  <2>4. \E to \in Statuses, later \in BOOLEAN : Write(k, wk[c], to, later)
    BY <1>7, <2>3 DEF Finish, GiveUp, Release, Statuses
  <2>5. /\ row' \in [Keys -> Statuses] /\ holder' \in [Keys -> Nat]
        /\ leased' \in [Keys -> Leases] /\ dueNow' \in [Keys -> BOOLEAN]
    BY <2>4, WriteTypes
  <2>6. UNCHANGED <<tries, claims, created, requeues>>
    BY <1>7 DEF Finish, GiveUp, Release
  <2> QED BY <1>0, <2>5, <2>6 DEF RowTypes
<1>8. ASSUME NEW d \in Pods, SweepSelect(d) \/ Restart(d) PROVE RowTypes'
  BY <1>1, <1>8 DEF SweepSelect, Restart, cell
<1>9. ASSUME NEW d \in Pods, SweepUpdate(d) PROVE RowTypes'
  <2>1. /\ row' \in [Keys -> Statuses] /\ holder' \in [Keys -> Nat]
        /\ leased' \in [Keys -> Leases]
    BY <1>0, <1>9 DEF SweepUpdate, RowTypes, Statuses, Leases
  <2> QED BY <1>0, <1>9, <2>1 DEF SweepUpdate, RowTypes
<1>10. ASSUME NEW d \in Pods, Requeue(d) PROVE RowTypes'
  <2> DEFINE K == {k \in requeue[d] : Requeued(k) /\ requeues[k] < MaxRequeues}
  <2>1. /\ row' = [k \in Keys |-> IF k \in K THEN "pending" ELSE row[k]]
        /\ tries' = [k \in Keys |-> IF k \in K THEN 0 ELSE tries[k]]
        /\ dueNow' = [k \in Keys |-> k \in K \/ dueNow[k]]
        /\ holder' = [k \in Keys |-> IF k \in K THEN 0 ELSE holder[k]]
        /\ leased' = [k \in Keys |-> IF k \in K THEN "null" ELSE leased[k]]
        /\ requeues' = [k \in Keys |-> IF k \in K THEN requeues[k] + 1 ELSE requeues[k]]
        /\ UNCHANGED <<claims, created>>
    BY <1>10 DEF Requeue
  <2>2. \A k \in K : requeues[k] < MaxRequeues
    OBVIOUS
  <2> HIDE DEF K
  <2>3. requeues' \in [Keys -> 0..MaxRequeues]
    <3>1. \A k \in Keys : requeues[k] \in 0..MaxRequeues
      BY <1>0 DEF RowTypes
    <3>2. \A k \in Keys : k \in K => requeues[k] + 1 \in 0..MaxRequeues
      BY <1>0, <2>2, <3>1
    <3> QED BY <2>1, <3>1, <3>2
  <2>4. /\ row' \in [Keys -> Statuses] /\ holder' \in [Keys -> Nat]
        /\ leased' \in [Keys -> Leases] /\ dueNow' \in [Keys -> BOOLEAN]
    BY <1>0, <2>1 DEF RowTypes, Statuses, Leases
  <2>5. tries' \in [Keys -> 0..Limit]
    BY <1>0, <2>1 DEF RowTypes
  <2> QED BY <1>0, <2>1, <2>3, <2>4, <2>5 DEF RowTypes
<1>11. ASSUME NEW k \in Keys, ProvPurge(k) \/ LeaseRuns(k) \/ BecomesDue(k)
       PROVE  RowTypes'
  <2>1. /\ row' \in [Keys -> Statuses] /\ leased' \in [Keys -> Leases]
        /\ dueNow' \in [Keys -> BOOLEAN]
    BY <1>0, <1>11 DEF ProvPurge, LeaseRuns, BecomesDue, RowTypes, Statuses, Leases
  <2>2. UNCHANGED <<tries, holder, claims, created, requeues>>
    BY <1>11 DEF ProvPurge, LeaseRuns, BecomesDue
  <2> QED BY <1>0, <2>1, <2>2 DEF RowTypes
<1>12. ASSUME Scan \/ Repair PROVE RowTypes'
  BY <1>1, <1>12 DEF Scan, Repair, cell
<1> QED
  BY <1>2, <1>3, <1>4, <1>5, <1>6, <1>7, <1>8, <1>9, <1>10, <1>11, <1>12
  DEF Step, Works

LEMMA ListStepTypes ==
  ASSUME ProvTypeOK, Step, UNCHANGED world
  PROVE  ListTypes'
<1>0. /\ ListTypes /\ Maxes' = Maxes /\ Configs' = Configs
      /\ Keys' = Keys
  BY TypeParts, SameWorld DEF Keys
<1>1. ASSUME UNCHANGED <<proj, activated, cfg, swept, requeue, rec>> PROVE ListTypes'
  BY <1>0, <1>1 DEF ListTypes
<1>2. ASSUME NEW d \in Pods, NEW p \in Projects, Create(d, p) PROVE ListTypes'
  <2>1. proj' \in [Projects -> {"none", "normal", "disbanded"}]
    BY <1>0, <1>2 DEF Create, ListTypes
  <2>2. activated' \in [Projects -> BOOLEAN]
    BY <1>0, <1>2 DEF Create, Waits, ListTypes
  <2> QED BY <1>0, <1>2, <2>1, <2>2 DEF Create, ListTypes
<1>3. ASSUME NEW p \in Projects, Disband(p) PROVE ListTypes'
  <2>1. proj' \in [Projects -> {"none", "normal", "disbanded"}]
    BY <1>0, <1>3 DEF Disband, ListTypes
  <2> QED BY <1>0, <1>3, <2>1 DEF Disband, ListTypes
<1>4. ASSUME NEW c \in Crew, Works(c) PROVE ListTypes'
  <2>1. CASE Latch(c)
    <3>1. wk[c].p \in Projects
      BY <2>1, JobFields, TypeParts DEF Latch
    <3>2. activated' \in [Projects -> BOOLEAN]
      BY <1>0, <2>1, <3>1 DEF Latch, ListTypes
    <3> QED BY <1>0, <2>1, <3>2 DEF Latch, ListTypes
  <2>2. CASE ~ Latch(c)
    BY <1>1, <1>4, <2>2 DEF Works, Claim, Look, Call, Finish,
       GiveUp, Release
  <2> QED BY <2>1, <2>2
<1>5. ASSUME NEW d \in Pods, SweepSelect(d) \/ SweepUpdate(d) PROVE ListTypes'
  <2>1. swept' \in [Pods -> SUBSET Keys]
    BY <1>0, <1>5 DEF SweepSelect, SweepUpdate, ListTypes
  <2>2. UNCHANGED <<proj, activated, cfg, requeue, rec>>
    BY <1>5 DEF SweepSelect, SweepUpdate
  <2> QED BY <1>0, <2>1, <2>2 DEF ListTypes
<1>6. ASSUME NEW d \in Pods, Restart(d) PROVE ListTypes'
  <2>1. PICK c \in [max : Maxes, on : Configs] :
          /\ cfg' = [cfg EXCEPT ![d] = c]
          /\ \E p \in Projects :
               LET K == {k \in {p} \X c.on : row[k] = "abandoned" /\ requeues[k] < MaxRequeues}
               IN  requeue' = [requeue EXCEPT ![d] = K] \/ requeue' = [requeue EXCEPT ![d] = {}]
    BY <1>6 DEF Restart
  <2>2. c.on \subseteq Targets
    <3>1. world \in Worlds
      BY TypeParts
    <3> QED BY <2>1, <3>1, Settings
  <2>3. \A p \in Projects : {k \in {p} \X c.on : row[k] = "abandoned" /\ requeues[k] < MaxRequeues}
                              \subseteq Keys
    BY <2>2 DEF Keys
  <2>4. requeue' \in [Pods -> SUBSET Keys]
    BY <1>0, <2>1, <2>3 DEF ListTypes
  <2>5. cfg' \in [Pods -> [max : Maxes, on : Configs]]
    BY <1>0, <2>1 DEF ListTypes
  <2>6. swept' \in [Pods -> SUBSET Keys] /\ UNCHANGED <<proj, activated, rec>>
    BY <1>0, <1>6 DEF Restart, ListTypes
  <2> QED BY <1>0, <2>4, <2>5, <2>6 DEF ListTypes
<1>7. ASSUME NEW d \in Pods, Requeue(d) PROVE ListTypes'
  <2>1. requeue' \in [Pods -> SUBSET Keys]
    BY <1>0, <1>7 DEF Requeue, ListTypes
  <2> QED BY <1>0, <1>7, <2>1 DEF Requeue, ListTypes
<1>8. ASSUME NEW k \in Keys, ProvPurge(k) \/ LeaseRuns(k) \/ BecomesDue(k)
      PROVE  ListTypes'
  BY <1>1, <1>8 DEF ProvPurge, LeaseRuns, BecomesDue
<1>9. ASSUME Scan PROVE ListTypes'
  <2>1. rec' \subseteq Projects
    BY <1>9 DEF Scan
  <2> QED BY <1>0, <1>9, <2>1 DEF Scan, ListTypes
<1>10. ASSUME Repair PROVE ListTypes'
  <2>1. activated' \in [Projects -> BOOLEAN]
    BY <1>0, <1>10 DEF Repair, ListTypes
  <2> QED BY <1>0, <1>10, <2>1 DEF Repair, ListTypes
<1> QED
  BY <1>2, <1>3, <1>4, <1>5, <1>6, <1>7, <1>8, <1>9, <1>10 DEF Step

LEMMA StepFaults ==
  ASSUME Step
  PROVE  Done \/ Fault
<1> DEFINE Goal == Done \/ Fault
<1>1. \A c \in Crew, p \in Projects : Claim(c, p) => Goal
  BY DEF Claim
<1>2. \A c \in Crew : Look(c) \/ Latch(c) => Goal
  BY DEF Look, Latch
<1>3. \A c \in Crew : Call(c) => Goal
  BY DEF Call, Done
<1>4. \A k, r, to, later : Write(k, r, to, later) => Goal
  BY DEF Write
<1>5. \A c \in Crew : Finish(c) \/ GiveUp(c) \/ Release(c) => Goal
  BY <1>4 DEF Finish, GiveUp, Release
<1>6. \A d \in Pods : SweepUpdate(d) \/ Restart(d) => Goal
  BY DEF SweepUpdate, Restart
<1>7. \A d \in Pods : SweepSelect(d) \/ Requeue(d) => Goal
  BY DEF SweepSelect, Requeue, Done
<1>8. \A d \in Pods, p \in Projects : Create(d, p) \/ Disband(p) => Goal
  BY DEF Create, Disband, Done
<1>9. \A k \in Keys : ProvPurge(k) \/ LeaseRuns(k) \/ BecomesDue(k) => Goal
  BY DEF ProvPurge, LeaseRuns, BecomesDue, Done
<1>10. Scan \/ Repair => Goal
  BY DEF Scan, Repair, Done
<1>11. \A p \in Projects : Disband(p) => Goal
  BY DEF Disband, Done
<1> HIDE DEF Goal
<1>12. Goal
  BY <1>1, <1>2, <1>3, <1>5, <1>6, <1>7, <1>8, <1>9, <1>10, <1>11 DEF Step, Works
<1> QED BY <1>12 DEF Goal

LEMMA ProvNextTypes ==
  ASSUME ProvTypeOK, [ProvNext]_<<provVars, world>>
  PROVE  ProvTypeOK'
<1>1. CASE UNCHANGED <<provVars, world>>
  BY <1>1, SameWorld DEF ProvTypeOK, provVars, Keys, Crew, Jobs, ProvIdle
<1>2. CASE ProvNext
  <2>0. Step /\ UNCHANGED world
    BY <1>2 DEF ProvNext
  <2>1. RowTypes' /\ ListTypes' /\ world' \in Worlds
    BY <2>0, RowStepTypes, ListStepTypes, TypeParts
  <2>2. wk' \in [Crew -> Jobs]
    <3>1. wk \in [Crew -> Jobs] /\ ProvIdle \in Jobs
      BY TypeParts DEF Jobs
    <3>2. ASSUME NEW d \in Pods, Restart(d) PROVE wk' \in [Crew -> Jobs]
      BY <3>1, <3>2 DEF Restart
    <3>3. \A c \in Crew : Works(c) => wk' \in [Crew -> Jobs]
      BY WorkTypes
    <3>4. (\A c \in Crew : ~ Works(c)) /\ (\A d \in Pods : ~ Restart(d)) => UNCHANGED wk
      BY <2>0 DEF Step, Create, Disband, SweepSelect, SweepUpdate,
         Requeue, ProvPurge, LeaseRuns, BecomesDue, Scan, Repair
    <3> QED BY <3>1, <3>2, <3>3, <3>4
  <2>3. faults' \in 0..MaxFaults
    BY <2>0, StepFaults, FaultTypes
  <2>4. /\ MaxFaults' = MaxFaults /\ Crew' = Crew /\ Jobs' = Jobs
    BY <2>0, SameWorld DEF Crew, Jobs, ProvIdle
  <2> QED BY <2>1, <2>2, <2>3, <2>4, TypeParts DEF ProvTypeOK, RowTypes, ListTypes, Statuses, Leases
<1> QED BY <1>1, <1>2

-----------------------------------------------------------------------------
(* What a row says, and of what. *)

\* A row in use is one of a live project, a reclaimable row one of a disbanded project, only a
\* live consumer's row is purged, and nothing is created without a row.
RowFits(k) ==
    /\ row[k] \in {"pending", "ready", "abandoned"} => proj[k[1]] = "normal"
    /\ row[k] \in {"disband", "purged"} => proj[k[1]] = "disbanded"
    /\ row[k] = "purged" => k[2] \in Reclaim
    /\ created[k] => row[k] # "none"
RowsFit == \A k \in Keys : RowFits(k)

\* A running job was claimed and its row is still there.
JobFits(c) ==
    wk[c].pc # "idle" => wk[c].own >= 1 /\ row[<<wk[c].p, c[2]>>] \notin {"none", "purged"}
JobsFit == \A c \in Crew : JobFits(c)

ProvInv == ProvTypeOK /\ RowsFit /\ JobsFit

LEMMA ProvInitFits ==
  ASSUME ProvInit
  PROVE  RowsFit /\ JobsFit
<1>1. RowsFit
  BY DEF ProvInit, RowsFit, RowFits
<1>2. JobsFit
  BY DEF ProvInit, ProvIdle, JobsFit, JobFits
<1> QED BY <1>1, <1>2

\* A running job, its project and its row.
LEMMA RunningJob ==
  ASSUME ProvInv, NEW c \in Crew, wk[c].pc # "idle"
  PROVE  /\ wk[c] \in Busy /\ wk[c].p \in Projects /\ <<wk[c].p, c[2]>> \in Keys
         /\ wk[c].own \in Nat /\ wk[c].own >= 1
         /\ row[<<wk[c].p, c[2]>>] \notin {"none", "purged"}
<1>1. wk[c] \in Jobs
  BY TypeParts DEF ProvInv
<1>2. wk[c] \in Busy /\ wk[c].p \in Projects /\ wk[c].own \in Nat
  BY <1>1, JobFields
<1> QED BY <1>2, Pairs DEF ProvInv, JobsFit, JobFits

\* What an outcome does to the rows: only the row of the job, and only while it is pending.
LEMMA OutcomeRows ==
  ASSUME ProvInv, NEW c \in Crew, Finish(c) \/ GiveUp(c) \/ Release(c)
  PROVE  /\ wk[c].pc \in Phases
         /\ \/ UNCHANGED <<row, holder, leased>>
            \/ \E k \in Keys, to \in {"ready", "abandoned", "pending"} :
                 /\ k = <<wk[c].p, c[2]>> /\ row[k] = "pending" /\ row' = [row EXCEPT ![k] = to]
                 /\ holder' = [holder EXCEPT ![k] = 0]
                 /\ leased' = [leased EXCEPT ![k] = "null"]
                 /\ to = "ready" => wk[c].pc = "ready"
<1>1. wk[c].pc \in Phases
  BY DEF Finish, GiveUp, ProvGivesUp, Release, Phases
<1>2. PICK k \in Keys : k = <<wk[c].p, c[2]>>
  BY <1>1, RunningJob DEF Phases
<1>3. \E to \in {"ready", "abandoned", "pending"}, later \in BOOLEAN :
         Write(k, wk[c], to, later) /\ (to = "ready" => wk[c].pc = "ready")
  BY <1>2 DEF Finish, GiveUp, Release
<1> QED BY <1>1, <1>2, <1>3 DEF Write, Holds

\* The steps that touch neither projects nor rows nor containers.
LeavesRows ==
    \/ \E c \in Crew : \/ \E p \in Projects : Claim(c, p)
                       \/ Look(c) \/ Latch(c)
    \/ \E d \in Pods : SweepSelect(d) \/ Restart(d)
    \/ \E k \in Keys : LeaseRuns(k) \/ BecomesDue(k)
    \/ Scan \/ Repair

LEMMA LeavesRowsStep == LeavesRows => UNCHANGED <<proj, row, created>>
<1>1. \A c \in Crew, p \in Projects : Claim(c, p) => UNCHANGED <<proj, row, created>>
  BY DEF Claim
<1>2. \A c \in Crew : Look(c) \/ Latch(c) => UNCHANGED <<proj, row, created>>
  BY DEF Look, Latch, cell
<1>3. \A d \in Pods : SweepSelect(d) \/ Restart(d) => UNCHANGED <<proj, row, created>>
  BY DEF SweepSelect, Restart, cell
<1>4. \A k \in Keys : LeaseRuns(k) \/ BecomesDue(k) => UNCHANGED <<proj, row, created>>
  BY DEF LeaseRuns, BecomesDue
<1>5. Scan \/ Repair => UNCHANGED <<proj, row, created>>
  BY DEF Scan, Repair, cell
<1> QED BY <1>1, <1>2, <1>3, <1>4, <1>5 DEF LeavesRows

\* The steps of the outbox, by what they do to its rows.
LEMMA StepKinds ==
  ASSUME Step
  PROVE  \/ LeavesRows
         \/ \E d \in Pods, p \in Projects : Create(d, p)
         \/ \E p \in Projects : Disband(p)
         \/ \E c \in Crew : Call(c)
         \/ \E c \in Crew : Finish(c) \/ GiveUp(c) \/ Release(c)
         \/ \E d \in Pods : SweepUpdate(d) \/ Requeue(d)
         \/ \E k \in Keys : ProvPurge(k)
<1>1. ASSUME NEW c \in Crew, Works(c)
      PROVE  \/ LeavesRows
             \/ Call(c)
             \/ Finish(c) \/ GiveUp(c) \/ Release(c)
  <2>1. ASSUME (\E p \in Projects : Claim(c, p)) \/ Look(c) \/ Latch(c) PROVE LeavesRows
    <3>1. \E i \in Crew : (\E p \in Projects : Claim(i, p)) \/ Look(i) \/ Latch(i)
      BY <2>1
    <3> QED BY <3>1 DEF LeavesRows
  <2> QED BY <1>1, <2>1 DEF Works
<1>2. ASSUME NEW d \in Pods, SweepSelect(d) \/ SweepUpdate(d) \/ Restart(d) \/ Requeue(d)
      PROVE  LeavesRows \/ SweepUpdate(d) \/ Requeue(d)
  BY <1>2 DEF LeavesRows
<1>3. ASSUME NEW k \in Keys, ProvPurge(k) \/ LeaseRuns(k) \/ BecomesDue(k)
      PROVE  LeavesRows \/ ProvPurge(k)
  BY <1>3 DEF LeavesRows
<1>4. Scan \/ Repair => LeavesRows
  BY DEF LeavesRows
<1> QED BY <1>1, <1>2, <1>3, <1>4 DEF Step

LEMMA NextRows ==
  ASSUME ProvInv, Step, UNCHANGED world
  PROVE  RowsFit'
<1>0. /\ \A k \in Keys : RowFits(k) /\ k[1] \in Projects
      /\ row \in [Keys -> Statuses] /\ proj \in [Projects -> {"none", "normal", "disbanded"}]
      /\ created \in [Keys -> BOOLEAN]
      /\ Keys' = Keys
  BY TypeParts, Pairs DEF ProvInv, RowsFit, RowTypes, ListTypes, Keys
<1> SUFFICES ASSUME NEW k \in Keys PROVE RowFits(k)'
  BY <1>0 DEF RowsFit
<1>00. RowFits(k) /\ k[1] \in Projects /\ row[k] \in Statuses
       /\ proj[k[1]] \in {"none", "normal", "disbanded"}
  BY <1>0
<1>1. CASE LeavesRows
  BY <1>00, <1>1, LeavesRowsStep DEF RowFits
<1>2. ASSUME NEW d \in Pods, NEW p \in Projects, Create(d, p) PROVE RowFits(k)'
  <2>1. CASE k[1] = p
    <3>1. proj[p] = "none" /\ proj'[p] = "normal" /\ row'[k] \in {"pending", row[k]}
          /\ UNCHANGED created
      BY <1>0, <1>2 DEF Create
    <3>2. row[k] = "none"
      BY <1>00, <2>1, <3>1 DEF RowFits, Statuses
    <3> QED BY <1>00, <2>1, <3>1, <3>2 DEF RowFits
  <2>2. CASE k[1] # p
    <3>1. proj'[k[1]] = proj[k[1]] /\ row'[k] = row[k] /\ UNCHANGED created
      BY <1>0, <1>2, <2>2 DEF Create
    <3> QED BY <1>00, <3>1 DEF RowFits
  <2> QED BY <2>1, <2>2
<1>3. ASSUME NEW p \in Projects, Disband(p) PROVE RowFits(k)'
  <2>1. CASE k[1] = p
    <3>1. proj[p] = "normal" /\ proj'[p] = "disbanded" /\ UNCHANGED created
          /\ row'[k] = IF row[k] \notin {"none", "disband", "purged"} THEN "disband" ELSE row[k]
      BY <1>0, <1>3, <2>1 DEF Disband, Marks
    <3> QED BY <1>00, <2>1, <3>1 DEF RowFits, Statuses
  <2>2. CASE k[1] # p
    <3>1. proj'[k[1]] = proj[k[1]] /\ row'[k] = row[k] /\ UNCHANGED created
      BY <1>0, <1>3, <2>2 DEF Disband
    <3> QED BY <1>00, <3>1 DEF RowFits
  <2> QED BY <2>1, <2>2
<1>4. ASSUME NEW c \in Crew, Call(c) PROVE RowFits(k)'
  <2>1. wk[c].pc # "idle" /\ UNCHANGED <<proj, row>>
        /\ (created'[k] = created[k] \/ k = <<wk[c].p, c[2]>>)
    BY <1>0, <1>4 DEF Call, cell
  <2>2. k = <<wk[c].p, c[2]>> => row[k] # "none"
    BY <2>1, RunningJob
  <2> QED BY <1>00, <2>1, <2>2 DEF RowFits
<1>5. ASSUME NEW c \in Crew, Finish(c) \/ GiveUp(c) \/ Release(c)
      PROVE  RowFits(k)'
  <2>1. UNCHANGED <<proj, created>>
    BY <1>5 DEF Finish, GiveUp, Release
  <2>2. row'[k] = row[k] \/ (row[k] = "pending" /\ row'[k] \in {"ready", "abandoned", "pending"})
    BY <1>0, <1>5, OutcomeRows
  <2> QED BY <1>00, <2>1, <2>2 DEF RowFits
<1>6. ASSUME NEW d \in Pods, SweepUpdate(d) \/ Requeue(d) PROVE RowFits(k)'
  <2>1. UNCHANGED <<proj, created>>
    BY <1>6 DEF SweepUpdate, Requeue
  <2>2. \/ row'[k] = row[k]
        \/ row[k] \in {"pending", "abandoned"} /\ row'[k] \in {"abandoned", "pending"}
    BY <1>6 DEF SweepUpdate, Requeue, Still, Sweepable, Requeued
  <2> QED BY <1>00, <2>1, <2>2 DEF RowFits
<1>7. ASSUME NEW i \in Keys, ProvPurge(i) PROVE RowFits(k)'
  <2>1. UNCHANGED <<proj, created>> /\ i[2] \in Reclaim /\ row[i] = "disband"
        /\ row'[k] = IF k = i THEN "purged" ELSE row[k]
    BY <1>0, <1>7 DEF ProvPurge
  <2> QED BY <1>00, <2>1 DEF RowFits
<1> QED BY <1>1, <1>2, <1>3, <1>4, <1>5, <1>6, <1>7, StepKinds

\* A job's row stays until it is purged, and a job's row is not purged.
LEMMA RowsStay ==
  ASSUME ProvInv, Step, NEW k \in Keys
  PROVE  row'[k] \in {"none", "purged"} => row[k] \in {"none", "purged"} \/ ProvPurge(k)
<1>0. row \in [Keys -> Statuses]
  BY TypeParts DEF ProvInv, RowTypes
<1>1. CASE LeavesRows
  BY <1>1, LeavesRowsStep
<1>2. ASSUME NEW d \in Pods, NEW p \in Projects, Create(d, p)
      PROVE  row'[k] = row[k] \/ row'[k] = "pending"
  BY <1>2 DEF Create
<1>3. ASSUME NEW p \in Projects, Disband(p) PROVE row'[k] = row[k] \/ row'[k] = "disband"
  BY <1>3 DEF Disband
<1>4. ASSUME NEW c \in Crew, Call(c) PROVE row'[k] = row[k]
  BY <1>4 DEF Call, cell
<1>5. ASSUME NEW c \in Crew, Finish(c) \/ GiveUp(c) \/ Release(c)
      PROVE  row'[k] = row[k] \/ row'[k] \in {"ready", "abandoned", "pending"}
  BY <1>0, <1>5, OutcomeRows
<1>6. ASSUME NEW d \in Pods, SweepUpdate(d) \/ Requeue(d)
      PROVE  row'[k] = row[k] \/ row'[k] \in {"abandoned", "pending"}
  BY <1>6 DEF SweepUpdate, Requeue
<1>7. ASSUME NEW i \in Keys, ProvPurge(i) PROVE row'[k] = row[k] \/ ProvPurge(k)
  BY <1>0, <1>7 DEF ProvPurge
<1> QED BY <1>1, <1>2, <1>3, <1>4, <1>5, <1>6, <1>7, StepKinds

\* What becomes of the jobs: a job goes on with its claim, ends, or is claimed.
LEMMA JobMoves ==
  ASSUME ProvInv, Step, NEW c \in Crew, wk'[c].pc # "idle"
  PROVE  \/ wk[c].pc # "idle" /\ wk'[c].p = wk[c].p /\ wk'[c].own = wk[c].own
         \/ \E p \in Projects : /\ Claim(c, p) /\ wk'[c].p = p
                                /\ wk'[c].own = claims[<<p, c[2]>>] + 1
                                /\ wk'[c].pc \in {"look", "call"}
<1>0. wk \in [Crew -> Jobs] /\ ProvTypeOK
  BY TypeParts DEF ProvInv
<1>1. ASSUME NEW b \in Crew, NEW p \in Projects, Claim(b, p), b = c
      PROVE  \/ wk'[c] = wk[c]
             \/ /\ wk'[c].p = p /\ wk'[c].own = claims[<<p, c[2]>>] + 1
                /\ wk'[c].pc \in {"look", "call"}
  BY <1>0, <1>1, ClaimJob, JobToTypes, BusyJob
<1>2. ASSUME NEW b \in Crew, NEW p \in Projects, Claim(b, p), b # c
      PROVE  wk'[c] = wk[c]
  <2>1. ASSUME NEW j \in Busy, JobTo(b, j) PROVE wk'[c] = wk[c]
    BY <1>0, <1>2, <2>1, JobToTypes, BusyJob
  <2> QED BY <1>0, <1>2, <2>1, ClaimJob
<1>3. ASSUME NEW b \in Crew, \E pcs : GoesTo(b, pcs)
      PROVE  wk'[c] = wk[c] \/ (b = c /\ wk'[c].p = wk[c].p /\ wk'[c].own = wk[c].own)
  <2>1. PICK j \in Busy : JobTo(b, j) /\ j.p = wk[b].p /\ j.own = wk[b].own
    BY <1>3 DEF GoesTo
  <2> QED BY <1>0, <2>1, JobToTypes, BusyJob
<1>4. ASSUME NEW b \in Crew, JobTo(b, ProvIdle)
      PROVE  wk'[c] = wk[c] \/ wk'[c] = ProvIdle
  BY <1>0, <1>4, RestsIdle DEF JobTo
<1>5. ProvIdle.pc = "idle"
  BY DEF ProvIdle
<1>6. ASSUME NEW b \in Crew,
             Look(b) \/ Call(b) \/ Finish(b) \/ GiveUp(b) \/ Release(b)
               \/ Latch(b)
      PROVE  wk'[c] = wk[c]
             \/ (wk[c].pc # "idle" /\ wk'[c].p = wk[c].p /\ wk'[c].own = wk[c].own)
  <2>1. wk[b].pc # "idle"
    BY <1>6 DEF Look, Call, Finish, GiveUp, ProvGivesUp, Release, Latch
  <2>2. (\E pcs : GoesTo(b, pcs)) \/ JobTo(b, ProvIdle)
    BY <1>0, <1>6, JobSteps
  <2>3. CASE \E pcs : GoesTo(b, pcs)
    BY <1>3, <2>1, <2>3
  <2>4. CASE JobTo(b, ProvIdle)
    BY <1>4, <1>5, <2>4
  <2> QED BY <2>2, <2>3, <2>4
<1>7. ASSUME NEW d \in Pods, Restart(d) PROVE wk'[c] = wk[c] \/ wk'[c] = ProvIdle
  BY <1>7 DEF Restart
<1>8. (\A b \in Crew : ~ Works(b)) /\ (\A d \in Pods : ~ Restart(d)) => UNCHANGED wk
  BY DEF Step, Create, Disband, SweepSelect, SweepUpdate,
     Requeue, ProvPurge, LeaseRuns, BecomesDue, Scan, Repair
<1> QED BY <1>1, <1>2, <1>5, <1>6, <1>7, <1>8 DEF Works

LEMMA NextJobs ==
  ASSUME ProvInv, Step
  PROVE  JobsFit'
<1>0. Crew' = Crew
  BY DEF Crew
<1> SUFFICES ASSUME NEW c \in Crew, wk'[c].pc # "idle"
             PROVE  wk'[c].own >= 1 /\ row'[<<wk'[c].p, c[2]>>] \notin {"none", "purged"}
  BY <1>0 DEF JobsFit, JobFits
<1>1. CASE wk[c].pc # "idle" /\ wk'[c].p = wk[c].p /\ wk'[c].own = wk[c].own
  <2>1. PICK k \in Keys : k = <<wk[c].p, c[2]>>
    BY <1>1, RunningJob
  <2>2. row[k] \notin {"none", "purged"} /\ wk[c].own >= 1
    BY <1>1, <2>1, RunningJob
  <2>3. k[1] = wk[c].p /\ k[2] = c[2] /\ c[1] \in Pods /\ <<c[1], k[2]>> = c
    BY <2>1, Pairs
  <2>4. ~ ProvPurge(k)
    BY <1>1, <2>3 DEF ProvPurge
  <2>5. row'[k] \notin {"none", "purged"}
    BY <2>2, <2>4, RowsStay
  <2> QED BY <1>1, <2>1, <2>2, <2>5
<1>2. ASSUME NEW p \in Projects, Claim(c, p), wk'[c].p = p,
             wk'[c].own = claims[<<p, c[2]>>] + 1
      PROVE  wk'[c].own >= 1 /\ row'[<<p, c[2]>>] = "pending"
  <2>1. <<p, c[2]>> \in Keys
    BY Pairs
  <2>2. claims[<<p, c[2]>>] \in Nat
    BY <2>1 DEF ProvInv, ProvTypeOK
  <2> QED BY <1>2, <2>2 DEF Claim
<1> QED BY <1>1, <1>2, JobMoves

LEMMA NextKeepsProvInv ==
  ASSUME ProvInv, [ProvNext]_<<provVars, world>>
  PROVE  ProvInv'
<1>1. CASE UNCHANGED <<provVars, world>>
  <2>1. UNCHANGED <<proj, row, created, wk>>
    BY <1>1 DEF provVars
  <2>2. RowsFit' /\ JobsFit'
    BY <2>1 DEF ProvInv, RowsFit, RowFits, JobsFit, JobFits, Keys, Crew
  <2> QED BY <2>2, ProvNextTypes DEF ProvInv
<1>2. CASE ProvNext
  BY <1>2, ProvNextTypes, NextRows, NextJobs DEF ProvNext, ProvInv
<1> QED BY <1>1, <1>2

LEMMA ProvInvariant == ProvSpec => []ProvInv
<1>1. ProvInit => ProvInv
  BY ProvInitTypes, ProvInitFits DEF ProvInv
<1>2. ProvInv /\ [ProvNext]_<<provVars, world>> => ProvInv'
  BY NextKeepsProvInv
<1> QED BY <1>1, <1>2, PTL DEF ProvSpec

\* The rows, the jobs and the lists of the outbox keep their types, for any number of pods,
\* projects and targets and every world of settings.
THEOREM ProvisioningTypes == ProvSpec => []ProvTypeOK
<1>1. ProvInv => ProvTypeOK
  BY DEF ProvInv
<1> QED BY <1>1, ProvInvariant, PTL

\* Every container of a disbanded project is on record as reclaimable or has been handed to a
\* live consumer, also one that a late call creates and one whose row was given up.
THEOREM ContainersReclaimable == ProvSpec => []Reclaimable
<1>1. ProvInv => Reclaimable
  <2> SUFFICES ASSUME ProvInv, NEW k \in Keys, proj[k[1]] = "disbanded", created[k]
               PROVE  row[k] = "disband" \/ (row[k] = "purged" /\ k[2] \in Reclaim)
    BY DEF Reclaimable
  <2>1. RowFits(k) /\ row[k] \in Statuses
    BY TypeParts DEF ProvInv, RowsFit, RowTypes
  <2> QED BY <2>1 DEF RowFits, Statuses
<1> QED BY <1>1, ProvInvariant, PTL

-----------------------------------------------------------------------------
(* Shown with a container. *)

\* What makes ShownWithContainer inductive: whoever is about to show a project, the worker
\* and the two repairs, knows of its container or of no fleet row.
LatchFits(c) ==
    /\ wk[c].pc = "latch" => c[2] = Fleet
    /\ wk[c].pc \in {"ready", "latch"} => created[<<wk[c].p, c[2]>>]
ReadyFits(p) == row[<<p, Fleet>>] = "ready" => created[<<p, Fleet>>]
RepairFits(p) == proj[p] # "none" /\ (row[<<p, Fleet>>] = "none" \/ created[<<p, Fleet>>])
ShownFit ==
    /\ \A c \in Crew : LatchFits(c)
    /\ \A p \in Projects : ReadyFits(p)
    /\ \A p \in rec : RepairFits(p)
    /\ ShownWithContainer

\* A container stays, and no row comes to a project that exists.
LEMMA Lasting ==
  ASSUME ProvInv, Step
  PROVE  /\ \A k \in Keys : created[k] => created'[k]
         /\ \A k \in Keys : row[k] = "none" /\ proj[k[1]] # "none" => row'[k] = "none"
         /\ \A p \in Projects : proj[p] # "none" => proj'[p] # "none"
<1>0. /\ created \in [Keys -> BOOLEAN] /\ row \in [Keys -> Statuses]
      /\ proj \in [Projects -> {"none", "normal", "disbanded"}]
  BY TypeParts DEF ProvInv, RowTypes, ListTypes
<1>1. CASE LeavesRows
  BY <1>1, LeavesRowsStep
<1> DEFINE Goal == /\ \A k \in Keys : created[k] => created'[k]
                   /\ \A k \in Keys : row[k] = "none" /\ proj[k[1]] # "none" => row'[k] = "none"
                   /\ \A p \in Projects : proj[p] # "none" => proj'[p] # "none"
<1>2. ASSUME NEW d \in Pods, NEW p \in Projects, Create(d, p) PROVE Goal
  <2>1. /\ UNCHANGED created /\ proj[p] = "none" /\ proj' = [proj EXCEPT ![p] = "normal"]
        /\ row' = [k \in Keys |-> IF k \in {p} \X cfg[d].on THEN "pending" ELSE row[k]]
    BY <1>2 DEF Create
  <2>2. \A k \in Keys : k \in {p} \X cfg[d].on => k[1] = p
    OBVIOUS
  <2> QED BY <1>0, <2>1, <2>2
<1>3. ASSUME NEW p \in Projects, Disband(p) PROVE Goal
  BY <1>0, <1>3 DEF Disband, Marks
<1>4. ASSUME NEW c \in Crew, Call(c) PROVE Goal
  BY <1>0, <1>4 DEF Call, cell
<1>5. ASSUME NEW c \in Crew, Finish(c) \/ GiveUp(c) \/ Release(c)
      PROVE  Goal
  <2>1. UNCHANGED <<proj, created>>
    BY <1>5 DEF Finish, GiveUp, Release
  <2>2. \A k \in Keys : row[k] = "none" => row'[k] = "none"
    BY <1>0, <1>5, OutcomeRows
  <2> QED BY <2>1, <2>2
<1>6. ASSUME NEW d \in Pods, SweepUpdate(d) \/ Requeue(d) PROVE Goal
  BY <1>6 DEF SweepUpdate, Requeue, Still, Sweepable, Requeued
<1>7. ASSUME NEW i \in Keys, ProvPurge(i) PROVE Goal
  BY <1>0, <1>7 DEF ProvPurge
<1> QED BY <1>1, <1>2, <1>3, <1>4, <1>5, <1>6, <1>7, StepKinds

\* A call that is answered leaves a container behind.
LEMMA NextLatches ==
  ASSUME ProvInv, Step, NEW c \in Crew, LatchFits(c)
  PROVE  LatchFits(c)'
<1>0. wk \in [Crew -> Jobs] /\ ProvTypeOK /\ created \in [Keys -> BOOLEAN]
  BY TypeParts DEF ProvInv, RowTypes
<1> SUFFICES ASSUME wk'[c].pc \in {"ready", "latch"}
             PROVE  /\ wk'[c].pc = "latch" => c[2] = Fleet
                    /\ created'[<<wk'[c].p, c[2]>>]
  BY DEF LatchFits
<1>1. wk[c].pc # "idle" /\ wk'[c].p = wk[c].p
  BY JobMoves
<1>2. PICK k \in Keys : k = <<wk[c].p, c[2]>>
  BY <1>1, RunningJob
<1>3. created[k] => created'[k]
  BY Lasting
<1>4. ASSUME NEW pc \in Phases, Goes(c, pc) PROVE wk'[c].pc = pc
  BY <1>0, <1>1, <1>4, GoesOn, JobToTypes, BusyJob
<1>5. CASE wk'[c] = wk[c]
  BY <1>1, <1>2, <1>3, <1>5 DEF LatchFits
<1>6. CASE Call(c)
  <2>1. Goes(c, "ready") \/ Goes(c, "failed") \/ Goes(c, "refused")
    BY <1>6 DEF Call
  <2>2. wk'[c].pc = "ready" /\ ~ Goes(c, "failed") /\ ~ Goes(c, "refused")
    BY <1>4, <2>1 DEF Phases
  <2>3. created' = [created EXCEPT ![k] = TRUE]
    BY <1>2, <1>6, <2>2 DEF Call
  <2> QED BY <1>0, <1>1, <1>2, <2>2, <2>3
<1>7. CASE Finish(c)
  <2>1. wk[c].pc = "ready" /\ (c[2] = Fleet \/ Rests(c))
    BY <1>7 DEF Finish
  <2>2. ~ Rests(c)
    BY <1>0, RestsIdle, JobToTypes
  <2> QED BY <1>1, <1>2, <1>3, <2>1, <2>2 DEF LatchFits
<1>8. wk'[c] = wk[c] \/ Call(c) \/ Finish(c)
  <2>1. ASSUME NEW b \in Crew, Works(b), b # c PROVE wk'[c] = wk[c]
    <3>1. ASSUME NEW j \in Jobs, JobTo(b, j) PROVE wk'[c] = wk[c]
      BY <1>0, <2>1, <3>1, JobToTypes
    <3>2. \A pcs : GoesTo(b, pcs) => wk'[c] = wk[c]
      BY <3>1, BusyJob DEF GoesTo
    <3>3. JobTo(b, ProvIdle) => wk'[c] = wk[c]
      BY <3>1 DEF Jobs
    <3>4. \A p \in Projects : Claim(b, p) => wk'[c] = wk[c]
      BY <1>0, <3>1, BusyJob, ClaimJob
    <3> QED BY <1>0, <2>1, <3>2, <3>3, <3>4, JobSteps DEF Works
  <2>2. ~ GiveUp(c) /\ ~ Release(c) /\ ~ Latch(c)
    <3>1. ~ JobTo(c, ProvIdle)
      <4>1. ProvIdle \in Jobs /\ ProvIdle.pc = "idle"
        BY DEF Jobs, ProvIdle
      <4> QED BY <1>0, <4>1, JobToTypes
    <3> QED BY <1>0, <3>1, JobSteps
  <2>3. ~ Look(c)
    BY <1>4 DEF Look, Phases
  <2>4. \A p \in Projects : ~ Claim(c, p)
    BY <1>1 DEF Claim, ProvIdle
  <2>5. \A d \in Pods : Restart(d) => wk'[c] = wk[c]
    BY DEF Restart, ProvIdle
  <2>6. (\A b \in Crew : ~ Works(b)) /\ (\A d \in Pods : ~ Restart(d)) => UNCHANGED wk
    BY DEF Step, Create, Disband, SweepSelect, SweepUpdate,
       Requeue, ProvPurge, LeaseRuns, BecomesDue, Scan, Repair
  <2> QED BY <2>1, <2>2, <2>3, <2>4, <2>5, <2>6 DEF Works
<1> QED BY <1>5, <1>6, <1>7, <1>8

LEMMA NextReady ==
  ASSUME ProvInv, ShownFit, Step, NEW p \in Projects, Fleet \in Targets
  PROVE  ReadyFits(p)'
<1>1. PICK k \in Keys : k = <<p, Fleet>>
  BY Pairs
<1>2. /\ row[k] = "ready" => created[k]
      /\ created[k] => created'[k]
      /\ row \in [Keys -> Statuses]
  BY <1>1, Lasting, TypeParts DEF ShownFit, ReadyFits, ProvInv, RowTypes
<1> SUFFICES ASSUME row'[k] = "ready", row[k] # "ready" PROVE created'[k]
  BY <1>1, <1>2 DEF ReadyFits
<1>3. ASSUME NEW c \in Crew, Finish(c) \/ GiveUp(c) \/ Release(c)
      PROVE  created[k]
  <2>1. k = <<wk[c].p, c[2]>> /\ wk[c].pc = "ready"
    BY <1>2, <1>3, OutcomeRows
  <2> QED BY <2>1 DEF ShownFit, LatchFits
<1>4. CASE LeavesRows
  BY <1>4, LeavesRowsStep
<1>5. ~ \E d \in Pods, q \in Projects : Create(d, q)
  BY DEF Create
<1>6. ~ \E q \in Projects : Disband(q)
  BY DEF Disband
<1>7. ~ \E c \in Crew : Call(c)
  BY DEF Call, cell
<1>8. ~ \E d \in Pods : SweepUpdate(d) \/ Requeue(d)
  BY DEF SweepUpdate, Requeue
<1>9. ~ \E i \in Keys : ProvPurge(i)
  BY <1>2 DEF ProvPurge
<1> QED BY <1>2, <1>3, <1>4, <1>5, <1>6, <1>7, <1>8, <1>9, StepKinds

\* A job leaves the lists alone, and shows a project only in its last phase.
LEMMA WorksSpares ==
  ASSUME NEW c \in Crew, Works(c)
  PROVE  UNCHANGED <<rec, swept>> /\ (Latch(c) \/ UNCHANGED activated)
<1> DEFINE Goal == UNCHANGED <<rec, swept>> /\ (Latch(c) \/ UNCHANGED activated)
<1>1. (\E p \in Projects : Claim(c, p)) => Goal
  BY DEF Claim
<1>2. Look(c) \/ Call(c) => Goal
  BY DEF Look, Call
<1>3. Finish(c) => Goal
  BY DEF Finish
<1>4. GiveUp(c) \/ Release(c) => Goal
  BY DEF GiveUp, Release
<1>5. Latch(c) => Goal
  BY DEF Latch
<1> HIDE DEF Goal
<1>6. Goal
  BY <1>1, <1>2, <1>3, <1>4, <1>5 DEF Works
<1> QED BY <1>6 DEF Goal

LEMMA NextRepair ==
  ASSUME ProvInv, ShownFit, Step, Fleet \in Targets
  PROVE  \A p \in rec' : RepairFits(p)'
<1>0. rec \subseteq Projects
  BY TypeParts DEF ProvInv, ListTypes
<1>1. CASE Scan
  <2>1. UNCHANGED <<proj, row, created>>
    BY <1>1 DEF Scan, cell
  <2>2. \A p \in rec' : /\ p \in Projects /\ proj[p] = "normal"
                        /\ row[<<p, Fleet>>] \in {"none", "ready"}
    BY <1>1 DEF Scan, Unconfirmable, Confirmed
  <2> QED BY <2>1, <2>2 DEF ShownFit, ReadyFits, RepairFits
<1>2. CASE rec' \subseteq rec
  <2> SUFFICES ASSUME NEW p \in rec PROVE RepairFits(p)'
    BY <1>2
  <2>1. p \in Projects /\ RepairFits(p)
    BY <1>0 DEF ShownFit
  <2>2. PICK k \in Keys : k = <<p, Fleet>> /\ k[1] = p
    BY <2>1, Pairs
  <2> QED BY <2>1, <2>2, Lasting DEF RepairFits
<1>3. Scan \/ rec' \subseteq rec
  <2>1. \A c \in Crew : Works(c) => rec' = rec
    BY WorksSpares
  <2>2. \A d \in Pods, p \in Projects : Create(d, p) \/ Disband(p) => rec' = rec
    BY DEF Create, Disband
  <2>3. \A p \in Projects : Disband(p) => rec' = rec
    BY DEF Disband
  <2>4. \A d \in Pods : SweepSelect(d) \/ SweepUpdate(d) \/ Restart(d) \/ Requeue(d)
                          => rec' = rec
    BY DEF SweepSelect, SweepUpdate, Restart, Requeue
  <2>5. \A k \in Keys : ProvPurge(k) \/ LeaseRuns(k) \/ BecomesDue(k) => rec' = rec
    BY DEF ProvPurge, LeaseRuns, BecomesDue
  <2>6. Repair => rec' \subseteq rec
    BY DEF Repair
  <2> QED BY <2>1, <2>2, <2>3, <2>4, <2>5, <2>6 DEF Step
<1> QED BY <1>1, <1>2, <1>3

\* The latch of a project is set by its creation, by its job or by a repair.
LEMMA NextActivated ==
  ASSUME ProvInv, ShownFit, Step, NEW p \in Projects, Fleet \in Targets,
         activated'[p], row'[<<p, Fleet>>] # "none"
  PROVE  created'[<<p, Fleet>>]
<1>1. PICK k \in Keys : k = <<p, Fleet>> /\ k[1] = p
  BY Pairs
<1>2. /\ activated[p] /\ row[k] # "none" => created[k]
      /\ created[k] => created'[k]
      /\ row[k] = "none" /\ proj[p] # "none" => row'[k] = "none"
      /\ RowFits(k) /\ row[k] \in Statuses
      /\ activated \in [Projects -> BOOLEAN]
  BY <1>1, Lasting, TypeParts DEF ShownFit, ShownWithContainer, ProvInv, RowsFit, RowTypes, ListTypes
<1>3. ASSUME NEW d \in Pods, NEW q \in Projects, Create(d, q) PROVE created'[k]
  <2>1. CASE q = p
    <3>1. proj[p] = "none" /\ Fleet \notin cfg[d].on
      BY <1>2, <1>3, <2>1 DEF Create, Waits
    <3>2. row[k] = "none"
      BY <1>1, <1>2, <3>1 DEF RowFits, Statuses
    <3>3. row'[k] = "none"
      BY <1>1, <1>3, <2>1, <3>1, <3>2 DEF Create
    <3> QED BY <1>1, <3>3
  <2>2. CASE q # p
    <3>1. activated'[p] = activated[p] /\ row'[k] = row[k]
      BY <1>1, <1>2, <1>3, <2>2 DEF Create
    <3> QED BY <1>1, <1>2, <3>1
  <2> QED BY <2>1, <2>2
<1>4. ASSUME \A d \in Pods, q \in Projects : ~ Create(d, q), row[k] = "none" PROVE FALSE
  <2>1. \/ LeavesRows
        \/ \E q \in Projects : Disband(q)
        \/ \E c \in Crew : Call(c)
        \/ \E c \in Crew : Finish(c) \/ GiveUp(c) \/ Release(c)
        \/ \E d \in Pods : SweepUpdate(d) \/ Requeue(d)
        \/ \E i \in Keys : ProvPurge(i)
    BY <1>4, StepKinds
  <2>2. row'[k] # "none" /\ row \in [Keys -> Statuses]
    BY <1>1, TypeParts DEF ProvInv, RowTypes
  <2>3. ~ LeavesRows
    BY <1>4, <2>2, LeavesRowsStep
  <2>4. ~ \E q \in Projects : Disband(q)
    BY <1>4, <2>2 DEF Disband, Marks
  <2>5. ~ \E c \in Crew : Call(c)
    BY <1>4, <2>2 DEF Call, cell
  <2>6. ~ \E c \in Crew : Finish(c) \/ GiveUp(c) \/ Release(c)
    BY <1>4, <2>2, OutcomeRows
  <2>7. ~ \E d \in Pods : SweepUpdate(d) \/ Requeue(d)
    BY <1>4, <2>2 DEF SweepUpdate, Requeue, Still, Sweepable, Requeued
  <2>8. ~ \E i \in Keys : ProvPurge(i)
    BY <1>4, <2>2 DEF ProvPurge
  <2> QED BY <2>1, <2>3, <2>4, <2>5, <2>6, <2>7, <2>8
<1>5. ASSUME NEW c \in Crew, Latch(c), ~ activated[p] PROVE created[k]
  <2>1. wk[c].p = p /\ wk[c].pc = "latch"
    BY <1>2, <1>5 DEF Latch
  <2> QED BY <1>1, <2>1 DEF ShownFit, LatchFits
<1>6. ASSUME Repair, ~ activated[p] PROVE created[k] \/ row[k] = "none"
  <2>1. p \in rec
    BY <1>6 DEF Repair
  <2> QED BY <1>1, <2>1 DEF ShownFit, RepairFits
<1>7. \/ activated'[p] = activated[p]
      \/ \E c \in Crew : Latch(c)
      \/ Repair
      \/ \E d \in Pods, q \in Projects : Create(d, q)
  <2>1. \A c \in Crew : Works(c) /\ ~ Latch(c) => UNCHANGED activated
    BY WorksSpares
  <2>2. \A q \in Projects : Disband(q) => UNCHANGED activated
    BY DEF Disband
  <2>3. \A d \in Pods : SweepSelect(d) \/ SweepUpdate(d) \/ Restart(d) \/ Requeue(d)
                          => UNCHANGED activated
    BY DEF SweepSelect, SweepUpdate, Restart, Requeue
  <2>4. \A i \in Keys : ProvPurge(i) \/ LeaseRuns(i) \/ BecomesDue(i) => UNCHANGED activated
    BY DEF ProvPurge, LeaseRuns, BecomesDue
  <2>5. Scan => UNCHANGED activated
    BY DEF Scan
  <2> QED BY <2>1, <2>2, <2>3, <2>4, <2>5 DEF Step
<1>8. activated[p] \in BOOLEAN /\ activated'[p]
  BY <1>2
<1> QED BY <1>1, <1>2, <1>3, <1>4, <1>5, <1>6, <1>7, <1>8

LEMMA NextShown ==
  ASSUME ProvInv, ShownFit, [ProvNext]_<<provVars, world>>
  PROVE  ShownFit'
<1>1. CASE UNCHANGED <<provVars, world>>
  <2>1. UNCHANGED <<proj, row, created, wk, rec, activated>>
    BY <1>1 DEF provVars
  <2> QED BY <2>1 DEF ShownFit, LatchFits, ReadyFits, RepairFits, ShownWithContainer, Crew
<1>2. CASE ProvNext
  <2>1. Step /\ Fleet \in Targets /\ Crew' = Crew
    BY <1>2, ProvisioningAssumption DEF ProvNext, Crew
  <2>2. \A c \in Crew : LatchFits(c)'
    BY <2>1, NextLatches DEF ShownFit
  <2>3. \A p \in Projects : ReadyFits(p)'
    BY <2>1, NextReady
  <2>4. \A p \in rec' : RepairFits(p)'
    BY <2>1, NextRepair
  <2>5. ShownWithContainer'
    BY <2>1, NextActivated DEF ShownWithContainer
  <2> QED BY <2>1, <2>2, <2>3, <2>4, <2>5 DEF ShownFit
<1> QED BY <1>1, <1>2

\* A project that waits for its container is shown only once it has one, whatever the pods'
\* configurations are and whichever of the worker and the two repairs sets the latch.
THEOREM ShownHasContainer == ProvSpec => []ShownWithContainer
<1>1. ProvInit => ShownFit
  BY ProvisioningAssumption DEF ProvInit, ProvIdle, ShownFit, LatchFits,
     ReadyFits, RepairFits, ShownWithContainer, Keys
<1>2. ProvInv /\ ShownFit /\ [ProvNext]_<<provVars, world>> => ShownFit'
  BY NextShown
<1>3. ShownFit => ShownWithContainer
  BY DEF ShownFit
<1> QED BY <1>1, <1>2, <1>3, ProvInvariant, PTL DEF ProvSpec

-----------------------------------------------------------------------------
(* The calls. *)

\* What makes CallsBounded inductive: a budget is spent before a row is put back.
CallsFit == \A k \in Keys : claims[k] <= Limit * requeues[k] + tries[k]

LEMMA Another ==
  ASSUME NEW l \in Nat, NEW n \in Nat
  PROVE  l * n \in Nat /\ l * (n + 1) = l * n + l /\ l * (1 + n) = l * n + l
  OBVIOUS

LEMMA NextCalls ==
  ASSUME ProvInv, CallsFit, [ProvNext]_<<provVars, world>>
  PROVE  CallsFit'
<1>0. /\ claims \in [Keys -> Nat] /\ tries \in [Keys -> 0..Limit]
      /\ requeues \in [Keys -> 0..MaxRequeues] /\ Limit \in Nat
      /\ world \in Worlds /\ MaxRequeues \in Nat
  BY TypeParts, Settings DEF ProvInv, RowTypes
<1>00. Limit' = Limit /\ Keys' = Keys
  BY SameWorld DEF ProvNext, Keys
<1> SUFFICES ASSUME NEW k \in Keys
             PROVE  claims'[k] <= Limit * requeues'[k] + tries'[k]
  BY <1>00 DEF CallsFit
<1>1. /\ claims[k] \in Nat /\ tries[k] \in Nat /\ tries[k] <= Limit
      /\ requeues[k] \in Nat /\ claims[k] <= Limit * requeues[k] + tries[k]
  BY <1>0 DEF CallsFit
<1>2. CASE UNCHANGED <<claims, tries, requeues>>
  BY <1>1, <1>2
<1>3. ASSUME NEW c \in Crew, NEW p \in Projects, Claim(c, p)
      PROVE  claims'[k] <= Limit * requeues'[k] + tries'[k]
  <2>1. PICK i \in Keys : i = <<p, c[2]>>
    BY Pairs
  <2>2. /\ claims' = [claims EXCEPT ![i] = @ + 1] /\ requeues' = requeues
        /\ tries' = [tries EXCEPT ![i] = tries[i] + 1]
    BY <1>3, <2>1 DEF Claim, Counted
  <2>3. requeues'[k] = requeues[k] /\ \/ claims'[k] = claims[k] /\ tries'[k] = tries[k]
                                      \/ /\ claims'[k] = claims[k] + 1
                                         /\ tries'[k] = tries[k] + 1
    BY <1>0, <2>2
  <2>4. PICK n \in Nat : n = Limit * requeues[k]
    BY <1>0, <1>1, Another
  <2> QED BY <1>1, <2>3, <2>4
<1>4. ASSUME NEW d \in Pods, Requeue(d)
      PROVE  claims'[k] <= Limit * requeues'[k] + tries'[k]
  <2>1. claims' = claims /\ \/ requeues'[k] = requeues[k] /\ tries'[k] = tries[k]
                            \/ requeues'[k] = requeues[k] + 1 /\ tries'[k] = 0
    BY <1>4 DEF Requeue
  <2>2. PICK n \in Nat : n = Limit * requeues[k]
    BY <1>0, <1>1, Another
  <2>3. Limit * (requeues[k] + 1) = n + Limit
    BY <1>0, <1>1, <2>2, Another
  <2> QED BY <1>0, <1>1, <2>1, <2>2, <2>3
<1>5. \/ UNCHANGED <<claims, tries, requeues>>
      \/ \E c \in Crew, p \in Projects : Claim(c, p)
      \/ \E d \in Pods : Requeue(d)
  <2> DEFINE Same == UNCHANGED <<claims, tries, requeues>>
  <2>1. \A c \in Crew : Look(c) \/ Call(c) \/ Latch(c) => Same
    BY DEF Look, Call, Latch, cell
  <2>2. \A c \in Crew : Finish(c) \/ GiveUp(c) \/ Release(c) => Same
    BY DEF Finish, GiveUp, Release
  <2>3. \A d \in Pods, p \in Projects : Create(d, p) => Same
    BY DEF Create
  <2>4. \A p \in Projects : Disband(p) => Same
    BY DEF Disband
  <2>5. \A d \in Pods : SweepSelect(d) \/ SweepUpdate(d) \/ Restart(d) => Same
    BY DEF SweepSelect, SweepUpdate, Restart, cell
  <2>6. \A i \in Keys : ProvPurge(i) \/ LeaseRuns(i) \/ BecomesDue(i) => Same
    BY DEF ProvPurge, LeaseRuns, BecomesDue
  <2>7. Scan \/ Repair => Same
    BY DEF Scan, Repair, cell
  <2>8. UNCHANGED <<provVars, world>> => Same
    BY DEF provVars
  <2> HIDE DEF Same
  <2>9. \/ Same
        \/ \E c \in Crew, p \in Projects : Claim(c, p)
        \/ \E d \in Pods : Requeue(d)
    BY <2>1, <2>2, <2>3, <2>4, <2>5, <2>6, <2>7, <2>8 DEF ProvNext, Step, Works
  <2> QED BY <2>9 DEF Same
<1> QED BY <1>2, <1>3, <1>4, <1>5

\* A row is tried at most MaxAttempts times, and as often again for each time it is put back,
\* however often the pods that try it die and whatever their budgets are.
THEOREM CallsAreBounded == ProvSpec => []CallsBounded
<1>1. ProvInit => CallsFit
  <2> SUFFICES ASSUME ProvInit PROVE CallsFit
    OBVIOUS
  <2>1. Limit \in Nat
    BY Settings DEF ProvInit
  <2> QED BY <2>1 DEF ProvInit, CallsFit
<1>2. ProvInv /\ CallsFit /\ [ProvNext]_<<provVars, world>> => CallsFit'
  BY NextCalls
<1>3. ProvInv /\ CallsFit => CallsBounded
  <2> SUFFICES ASSUME ProvInv, CallsFit, NEW k \in Keys
               PROVE  claims[k] <= Limit * (1 + requeues[k])
    BY DEF CallsBounded
  <2>1. /\ claims[k] \in Nat /\ tries[k] \in 0..Limit /\ Limit \in Nat
        /\ requeues[k] \in Nat
    BY TypeParts, Settings DEF ProvInv, RowTypes
  <2>2. PICK n \in Nat : n = Limit * requeues[k]
    BY <2>1, Another
  <2>3. Limit * (1 + requeues[k]) = n + Limit
    BY <2>1, <2>2, Another
  <2>4. claims[k] <= n + tries[k]
    BY <2>2 DEF CallsFit
  <2> QED BY <2>1, <2>3, <2>4
<1> QED BY <1>1, <1>2, <1>3, ProvInvariant, PTL DEF ProvSpec

-----------------------------------------------------------------------------
(* The sweep. *)

\* Where jobs end within their leases, whoever holds a row and works on it has a live lease.
LeaseFit ==
    ~ Stalls =>
        \A k \in Keys : Running(k) /\ row[k] = "pending" => leased[k] = "live"

\* The jobs that hold a row.
LEMMA RunningHolds ==
  ASSUME NEW k \in Keys
  PROVE  Running(k) <=> \E c \in Crew : /\ wk[c].pc # "idle" /\ <<wk[c].p, c[2]>> = k
                                        /\ wk[c].own = holder[k]
<1>1. k = <<k[1], k[2]>>
  BY Pairs
<1>2. ASSUME NEW d \in Pods, wk[<<d, k[2]>>].pc # "idle", wk[<<d, k[2]>>].p = k[1],
             wk[<<d, k[2]>>].own = holder[k]
      PROVE  \E c \in Crew : /\ wk[c].pc # "idle" /\ <<wk[c].p, c[2]>> = k
                             /\ wk[c].own = holder[k]
  <2>1. PICK c \in Crew : c = <<d, k[2]>> /\ c[2] = k[2]
    BY Pairs
  <2> QED BY <1>1, <1>2, <2>1
<1>3. ASSUME NEW c \in Crew, wk[c].pc # "idle", <<wk[c].p, c[2]>> = k,
             wk[c].own = holder[k]
      PROVE  Running(k)
  <2>1. k[1] = wk[c].p /\ k[2] = c[2]
    BY <1>3
  <2>2. c[1] \in Pods /\ c = <<c[1], k[2]>>
    BY <2>1, Pairs
  <2>3. /\ wk[<<c[1], k[2]>>].pc # "idle" /\ wk[<<c[1], k[2]>>].p = k[1]
        /\ wk[<<c[1], k[2]>>].own = holder[k]
    BY <1>3, <2>1, <2>2
  <2> QED BY <2>2, <2>3 DEF Running
<1> QED BY <1>2, <1>3 DEF Running

\* A job that holds a row after a step held it before, or has just claimed it.
LEMMA HoldsOn ==
  ASSUME ProvInv, Step, NEW k \in Keys, Running(k)'
  PROVE  \/ \E c \in Crew : /\ wk[c].pc # "idle" /\ <<wk[c].p, c[2]>> = k
                            /\ wk[c].own = holder'[k]
         \/ leased'[k] = "live"
<1>0. Crew' = Crew /\ leased \in [Keys -> Leases]
  BY TypeParts DEF Crew, ProvInv, RowTypes
<1>1. PICK d \in Pods : /\ wk'[<<d, k[2]>>].pc # "idle" /\ wk'[<<d, k[2]>>].p = k[1]
                        /\ wk'[<<d, k[2]>>].own = holder'[k]
  BY DEF Running
<1>2. PICK c \in Crew : c = <<d, k[2]>> /\ c[2] = k[2]
  BY Pairs
<1>3. k = <<k[1], k[2]>> /\ k[1] \in Projects
  BY Pairs
<1>4. CASE wk[c].pc # "idle" /\ wk'[c].p = wk[c].p /\ wk'[c].own = wk[c].own
  BY <1>1, <1>2, <1>3, <1>4
<1>5. ASSUME NEW p \in Projects, Claim(c, p), wk'[c].p = p PROVE leased'[k] = "live"
  <2>1. k = <<p, c[2]>>
    BY <1>1, <1>2, <1>3, <1>5
  <2> QED BY <1>0, <1>5, <2>1 DEF Claim
<1> QED BY <1>1, <1>2, <1>4, <1>5, JobMoves

LEMMA NextLeases ==
  ASSUME ProvInv, LeaseFit, [ProvNext]_<<provVars, world>>
  PROVE  LeaseFit'
<1>0. Keys' = Keys /\ Stalls' = Stalls
  BY SameWorld DEF ProvNext, Keys
<1> SUFFICES ASSUME ~ Stalls, NEW k \in Keys, Running(k)', row'[k] = "pending"
             PROVE  leased'[k] = "live"
  BY <1>0 DEF LeaseFit
<1>1. /\ leased \in [Keys -> Leases] /\ holder \in [Keys -> Nat]
      /\ row \in [Keys -> Statuses]
  BY TypeParts DEF ProvInv, RowTypes
<1>2. Running(k) /\ row[k] = "pending" => leased[k] = "live"
  BY DEF LeaseFit
<1>3. CASE UNCHANGED <<provVars, world>>
  <2>1. UNCHANGED <<row, leased, holder, wk>>
    BY <1>3 DEF provVars
  <2>2. Running(k)
    BY <2>1 DEF Running
  <2> QED BY <1>2, <2>1, <2>2
<1>4. ASSUME Step, leased'[k] # "live" PROVE FALSE
  <2>1. PICK c \in Crew : /\ wk[c].pc # "idle" /\ <<wk[c].p, c[2]>> = k
                          /\ wk[c].own = holder'[k]
    BY <1>4, HoldsOn
  <2>2. row[k] \notin {"none", "purged"} /\ holder'[k] # 0
    BY <2>1, RunningJob
  <2>3. holder'[k] = holder[k] => Running(k)
    BY <2>1, RunningHolds
  <2>4. ASSUME NEW d \in Pods, NEW p \in Projects, Create(d, p) PROVE FALSE
    <3>1. UNCHANGED <<holder, leased>> /\ row'[k] \in {row[k], "pending"}
      BY <2>4 DEF Create
    <3>2. row[k] = row'[k]
      <4>1. proj[p] = "none" /\ RowFits(k) /\ row[k] \in Statuses
        BY <1>1, <2>4 DEF Create, ProvInv, RowsFit
      <4>2. k[1] # p
        BY <2>2, <4>1 DEF RowFits, Statuses
      <4> QED BY <2>4, <4>2 DEF Create
    <3> QED BY <1>2, <1>4, <2>3, <3>1, <3>2
  <2>5. ASSUME NEW p \in Projects, Disband(p) PROVE FALSE
    <3>1. row'[k] = row[k] /\ holder'[k] = holder[k] /\ leased'[k] = leased[k]
      BY <2>2, <2>5 DEF Disband
    <3> QED BY <1>2, <1>4, <2>3, <3>1
  <2>6. ASSUME NEW b \in Crew, NEW p \in Projects, Claim(b, p) PROVE FALSE
    <3>1. PICK i \in Keys : i = <<p, b[2]>>
      BY Pairs
    <3>2. /\ leased' = [leased EXCEPT ![i] = "live"]
          /\ holder' = [holder EXCEPT ![i] = claims[i] + 1] /\ row' = row
      BY <2>6, <3>1 DEF Claim
    <3>3. i # k
      BY <1>1, <1>4, <3>2
    <3> QED BY <1>1, <1>2, <1>4, <2>3, <3>2, <3>3
  <2>7. ASSUME UNCHANGED <<row, holder, leased>> PROVE FALSE
    BY <1>2, <1>4, <2>3, <2>7
  <2>8. ASSUME NEW b \in Crew, Finish(b) \/ GiveUp(b) \/ Release(b) PROVE FALSE
    <3>1. PICK i \in Keys, to \in {"ready", "abandoned", "pending"} :
            /\ i = <<wk[b].p, b[2]>> /\ row[i] = "pending" /\ row' = [row EXCEPT ![i] = to]
            /\ holder' = [holder EXCEPT ![i] = 0]
            /\ leased' = [leased EXCEPT ![i] = "null"]
            /\ to = "ready" => wk[b].pc = "ready"
      BY <2>7, <2>8, OutcomeRows, Zenon
    <3>2. i # k
      BY <1>1, <2>2, <3>1
    <3>3. row'[k] = row[k] /\ holder'[k] = holder[k] /\ leased'[k] = leased[k]
      BY <1>1, <3>1, <3>2
    <3> QED BY <1>2, <1>4, <2>3, <3>3
  <2>9. ASSUME NEW d \in Pods, SweepUpdate(d) PROVE FALSE
    <3>1. row'[k] = row[k] /\ holder'[k] = holder[k] /\ leased'[k] = leased[k]
      BY <2>9 DEF SweepUpdate
    <3> QED BY <1>2, <1>4, <2>3, <3>1
  <2>10. ASSUME NEW d \in Pods, Requeue(d) PROVE FALSE
    <3>1. row'[k] = row[k] /\ holder'[k] = holder[k] /\ leased'[k] = leased[k]
      BY <2>2, <2>10 DEF Requeue
    <3> QED BY <1>2, <1>4, <2>3, <3>1
  <2>11. ASSUME NEW i \in Keys, ProvPurge(i) PROVE FALSE
    <3>1. UNCHANGED <<holder, leased>> /\ row' = [row EXCEPT ![i] = "purged"]
      BY <2>11 DEF ProvPurge
    <3> QED BY <1>1, <1>2, <1>4, <2>3, <3>1
  <2>12. ASSUME NEW i \in Keys, LeaseRuns(i) PROVE FALSE
    <3>1. /\ UNCHANGED <<holder, row>> /\ ~ Running(i)
          /\ (i # k => leased'[k] = leased[k])
      BY <1>1, <2>12 DEF LeaseRuns
    <3> QED BY <1>2, <1>4, <2>3, <3>1
  <2>13. \A b \in Crew : Look(b) \/ Call(b) \/ Latch(b) => FALSE
    BY <2>7 DEF Look, Call, Latch, cell
  <2>14. \A d \in Pods : SweepSelect(d) \/ Restart(d) => FALSE
    BY <2>7 DEF SweepSelect, Restart, cell
  <2>15. \A i \in Keys : ~ BecomesDue(i)
    BY <2>7 DEF BecomesDue
  <2>16. ~ Scan /\ ~ Repair
    BY <2>7 DEF Scan, Repair, cell
  <2> QED
    BY <1>4, <2>4, <2>5, <2>6, <2>8, <2>9, <2>10, <2>11, <2>12, <2>13, <2>14, <2>15, <2>16
    DEF Step, Works
<1> QED BY <1>3, <1>4 DEF ProvNext

\* The sweep gives up no row that a pod is working on as long as jobs end within their leases,
\* also while the pods disagree on the budget.
THEOREM SweepSpares == ProvSpec => SweepSparesRunning
<1>1. ProvInit => LeaseFit
  BY DEF ProvInit, ProvIdle, LeaseFit, Running, Keys, Crew
<1>2. ProvInv /\ LeaseFit /\ [ProvNext]_<<provVars, world>> => LeaseFit'
  BY NextLeases
<1> DEFINE Spares ==
      \A k \in Keys :
        ~ Stalls /\ (\E d \in Pods : swept[d] # {} /\ swept'[d] = {} /\ cfg' = cfg)
            /\ Running(k) /\ row[k] = "pending" => row'[k] = "pending"
<1>3. ProvInv /\ LeaseFit /\ [ProvNext]_<<provVars, world>> => [Spares]_provVars
  <2> SUFFICES ASSUME ProvInv, LeaseFit, Step, NEW k \in Keys, ~ Stalls,
                      NEW d \in Pods, swept[d] # {}, swept'[d] = {},
                      Running(k), row[k] = "pending"
               PROVE  row'[k] = "pending"
    BY DEF ProvNext
  <2>1. leased[k] = "live"
    BY DEF LeaseFit
  <2>2. ASSUME NEW e \in Pods, SweepUpdate(e) PROVE row'[k] = "pending"
    BY <2>1, <2>2 DEF SweepUpdate, Still, Sweepable, Quiet
  <2>3. ASSUME NEW e \in Pods, Restart(e) PROVE row'[k] = "pending"
    BY <2>3 DEF Restart, cell
  <2>4. ASSUME NEW e \in Pods, SweepSelect(e) PROVE row'[k] = "pending"
    BY <2>4 DEF SweepSelect, cell
  <2>5. \/ UNCHANGED swept
        \/ \E e \in Pods : SweepUpdate(e) \/ Restart(e) \/ SweepSelect(e)
    <3>1. \A c \in Crew : Works(c) => UNCHANGED swept
      BY WorksSpares
    <3>2. \A e \in Pods, p \in Projects : Create(e, p) => UNCHANGED swept
      BY DEF Create
    <3>3. \A p \in Projects : Disband(p) => UNCHANGED swept
      BY DEF Disband
    <3>4. \A e \in Pods : Requeue(e) => UNCHANGED swept
      BY DEF Requeue
    <3>5. \A i \in Keys : ProvPurge(i) \/ LeaseRuns(i) \/ BecomesDue(i) => UNCHANGED swept
      BY DEF ProvPurge, LeaseRuns, BecomesDue
    <3>6. Scan \/ Repair => UNCHANGED swept
      BY DEF Scan, Repair
    <3> QED BY <3>1, <3>2, <3>3, <3>4, <3>5, <3>6 DEF Step
  <2> QED BY <2>2, <2>3, <2>4, <2>5
<1>4. SweepSparesRunning <=> [][Spares]_provVars
  BY DEF SweepSparesRunning
<1> QED BY <1>1, <1>2, <1>3, <1>4, ProvInvariant, PTL DEF ProvSpec

\* The invariant of the provisioning outbox: its types, containers on record, projects shown
\* with their container, and bounded calls.
THEOREM ContainersAreSound == ProvSpec => []ContainersSound
<1>1. ProvTypeOK /\ Reclaimable /\ ShownWithContainer /\ CallsBounded
        => ContainersSound
  BY DEF ContainersSound
<1> QED
  BY <1>1, ProvisioningTypes, ContainersReclaimable, ShownHasContainer, CallsAreBounded, PTL
=============================================================================
