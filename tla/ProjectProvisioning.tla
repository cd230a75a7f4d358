------------------------ MODULE ProjectProvisioning ------------------------
(***************************************************************************)
(* The containers that a project has in other subsystems, and the latch    *)
(* that shows the project to the peer (modules/project: db_provisioning.go,*)
(* provisioning_worker.go, activation.go).  Creating a project writes one  *)
(* outbox row per target that the pod has enabled; every pod claims rows   *)
(* under a lease, calls the target and records the outcome.  A clean answer*)
(* of the fleet target sets activated_at.                                  *)
(*                                                                         *)
(* ProjectLifecycle is the other outbox of the same Go package; what has a *)
(* name there is ProvInit, ProvNext, ... here, and the columns attempts,   *)
(* next_attempt_at, lease_until and lease_owner are tries, dueNow, leased  *)
(* and holder.                                                             *)
(***************************************************************************)
EXTENDS ProjectPods, Integers, FiniteSets

CONSTANTS
    Targets,
    Fleet,        \* the target whose answer activates a project
    Reclaim,      \* targets with a live reclaim consumer (ReclaimTargets)
    Worlds        \* the situations considered, see ProvisioningAssumption

\* What does not change in a behaviour: the values that pods may have of
\* OCTO_PROJECT_PROVISION_MAX_ATTEMPTS and of OCTO_PROJECT_PROVISION_TARGETS, whether a job
\* may outlast its lease, and two bounds: restarts, failed statements and lost answers; rows
\* put back by an operator.
ASSUME ProvisioningAssumption ==
    /\ Fleet \in Targets /\ Reclaim \subseteq Targets
    /\ \A w \in Worlds :
           /\ DOMAIN w = {"maxes", "configs", "stalls", "maxFaults", "maxRequeues"}
           /\ w.maxes \subseteq Nat \ {0} /\ w.configs \subseteq SUBSET Targets
           /\ \E m \in w.maxes : \A n \in w.maxes : n <= m
           /\ w.stalls \in BOOLEAN /\ w.maxFaults \in Nat /\ w.maxRequeues \in Nat

VARIABLES
    world,      \* a member of Worlds, chosen once
    proj,       \* "none", "normal" or "disbanded"
    activated,  \* activated_at is set
    row,        \* status of the row of a project and target
    tries, dueNow, leased,
    holder,     \* which claim of the row holds it; 0 for none
    claims,     \* how many claims the row has seen
    created,    \* whether the container exists at the target
    wk,         \* what each pod does for each target
    cfg,        \* each pod's configuration, fixed at its start
    swept,      \* rows a pod's sweep has selected
    requeue,    \* rows a starting pod has selected for the operator
    rec,        \* projects a reconcile scan has selected
    faults, requeues

Maxes       == world.maxes
Configs     == world.configs
Stalls      == world.stalls
MaxFaults   == world.maxFaults
MaxRequeues == world.maxRequeues

Keys == Projects \X Targets
Crew == Pods \X Targets
cell == <<row, tries, dueNow, leased, holder, claims>>
provVars == <<proj, activated, row, tries, dueNow, leased, holder, claims, created, wk, cfg,
              swept, requeue, rec, faults, requeues>>

ProvIdle == [pc |-> "idle"]
Jobs == {ProvIdle} \cup [pc : {"look", "call", "ready", "failed", "refused", "latch"},
                     p : Projects, own : Nat, att : Nat]
Limit == CHOOSE m \in Maxes : \A n \in Maxes : n <= m

ProvTypeOK ==
    /\ world \in Worlds
    /\ proj \in [Projects -> {"none", "normal", "disbanded"}]
    /\ activated \in [Projects -> BOOLEAN]
    /\ row \in [Keys -> {"none", "pending", "ready", "abandoned", "disband", "purged"}]
    /\ tries \in [Keys -> 0..Limit] /\ dueNow \in [Keys -> BOOLEAN]
    /\ leased \in [Keys -> {"null", "live", "lapsed", "grace"}]
    /\ holder \in [Keys -> Nat] /\ claims \in [Keys -> Nat] /\ created \in [Keys -> BOOLEAN]
    /\ wk \in [Crew -> Jobs] /\ cfg \in [Pods -> [max : Maxes, on : Configs]]
    /\ swept \in [Pods -> SUBSET Keys] /\ requeue \in [Pods -> SUBSET Keys]
    /\ rec \subseteq Projects /\ faults \in 0..MaxFaults /\ requeues \in [Keys -> 0..MaxRequeues]

ProvInit ==
    /\ world \in Worlds
    /\ proj = [p \in Projects |-> "none"] /\ activated = [p \in Projects |-> FALSE]
    /\ row = [k \in Keys |-> "none"] /\ tries = [k \in Keys |-> 0]
    /\ dueNow = [k \in Keys |-> FALSE] /\ leased = [k \in Keys |-> "null"]
    /\ holder = [k \in Keys |-> 0] /\ claims = [k \in Keys |-> 0]
    /\ created = [k \in Keys |-> FALSE] /\ wk = [w \in Crew |-> ProvIdle]
    /\ cfg \in [Pods -> [max : Maxes, on : Configs]]
    /\ swept = [d \in Pods |-> {}] /\ requeue = [d \in Pods |-> {}] /\ rec = {}
    /\ faults = 0 /\ requeues = [k \in Keys |-> 0]

Fault == faults < MaxFaults /\ faults' = faults + 1
Done == UNCHANGED faults

-----------------------------------------------------------------------------
(* Requests. *)

\* twoPhaseCreateApplies: this pod's configuration says whether anything will confirm.
Waits(d) == Fleet \in cfg[d].on

\* createProject: the project and its rows in one transaction.
Create(d, p) ==
    LET K == {p} \X cfg[d].on IN
    /\ proj[p] = "none" /\ proj' = [proj EXCEPT ![p] = "normal"]
    /\ activated' = [activated EXCEPT ![p] = ~ Waits(d)]
    /\ row' = [k \in Keys |-> IF k \in K THEN "pending" ELSE row[k]]
    /\ dueNow' = [k \in Keys |-> k \in K \/ dueNow[k]]
    /\ UNCHANGED <<tries, leased, holder, claims, created, wk, cfg, swept, requeue, rec,
                   faults, requeues>>

\* markProvisioningDisbandPendingTx.
Marks(k) == row[k] \notin {"none", "disband", "purged"}

\* disbandProjectTx: the project and its rows in one transaction.
Disband(p) ==
    LET K == {k \in Keys : k[1] = p /\ Marks(k)} IN
    /\ proj[p] = "normal" /\ proj' = [proj EXCEPT ![p] = "disbanded"]
    /\ row' = [k \in Keys |-> IF k \in K THEN "disband" ELSE row[k]]
    /\ holder' = [k \in Keys |-> IF k \in K THEN 0 ELSE holder[k]]
    /\ leased' = [k \in Keys |-> IF k \in K THEN "null" ELSE leased[k]]
    /\ UNCHANGED <<activated, tries, dueNow, claims, created, wk, cfg, swept, requeue, rec,
                   faults, requeues>>

-----------------------------------------------------------------------------
(* A pod's batch for one target: c is the pod and the target. *)

Within(k, d) == tries[k] < cfg[d].max

Counted(k) == tries[k] + 1

\* claimProvisioningJob.  A pod that is still starting has no timers.
Claim(c, p) ==
    LET k == <<p, c[2]>> IN
    /\ requeue[c[1]] = {} /\ c[2] \in cfg[c[1]].on /\ wk[c] = ProvIdle
    /\ row[k] = "pending" /\ dueNow[k] /\ Within(k, c[1]) /\ leased[k] \in {"null", "lapsed", "grace"}
    /\ tries' = [tries EXCEPT ![k] = Counted(k)]
    /\ claims' = [claims EXCEPT ![k] = @ + 1]
    /\ holder' = [holder EXCEPT ![k] = claims[k] + 1]
    /\ leased' = [leased EXCEPT ![k] = "live"]
    /\ \/ Done /\ wk' = [wk EXCEPT ![c] =
                  [pc |-> IF c[2] = Fleet THEN "call" ELSE "look",
                   p |-> p, own |-> claims[k] + 1, att |-> tries[k] + 1]]
       \/ Fault /\ UNCHANGED wk
    /\ UNCHANGED <<proj, activated, row, dueNow, created, cfg, swept, requeue, rec, requeues>>

Goes(c, pc) == wk' = [wk EXCEPT ![c].pc = pc]
Rests(c) == wk' = [wk EXCEPT ![c] = ProvIdle]

\* queryProvisioningProject: the other targets are told of the project as it is now.
Look(c) ==
    LET r == wk[c] IN
    /\ r.pc = "look"
    /\ \/ proj[r.p] = "normal" /\ Goes(c, "call") /\ Done
       \/ proj[r.p] # "normal" /\ Goes(c, "failed") /\ Done
       \/ Fault /\ Goes(c, "failed")
    /\ UNCHANGED <<proj, activated, cell, created, cfg, swept, requeue, rec, requeues>>

\* Ensure, CreateDriveSpace: the target answers, refuses for good, or the call fails, and
\* then the container may exist all the same.
Call(c) ==
    LET r == wk[c] k == <<r.p, c[2]>> IN
    /\ r.pc = "call"
    /\ \/ created' = [created EXCEPT ![k] = TRUE] /\ Goes(c, "ready")
       \/ created' = [created EXCEPT ![k] = TRUE] /\ Goes(c, "failed")
       \/ UNCHANGED created /\ (Goes(c, "failed") \/ Goes(c, "refused"))
    /\ UNCHANGED <<proj, activated, cell, cfg, swept, requeue, rec, faults, requeues>>

\* finishProvisioningJob, releaseProvisioningJob: the row is pending under this claim.
Holds(k, r) == row[k] = "pending" /\ holder[k] = r.own

\* Sets the row's status; nothing when the claim is lost or the statement fails.
Write(k, r, status, later) ==
    \/ /\ Holds(k, r) /\ Done
       /\ row' = [row EXCEPT ![k] = status] /\ holder' = [holder EXCEPT ![k] = 0]
       /\ leased' = [leased EXCEPT ![k] = "null"] /\ dueNow' = [dueNow EXCEPT ![k] = ~ later]
    \/ ((~ Holds(k, r) /\ Done) \/ Fault) /\ UNCHANGED <<row, holder, leased, dueNow>>

\* Success: the row is ready, then (fleet) the project is shown.
Finish(c) ==
    LET r == wk[c] IN
    /\ r.pc = "ready" /\ Write(<<r.p, c[2]>>, r, "ready", FALSE)
    /\ IF c[2] = Fleet THEN Goes(c, "latch") ELSE Rests(c)
    /\ UNCHANGED <<proj, activated, tries, claims, created, cfg, swept, requeue, rec, requeues>>

\* releaseOrAbandon.
ProvGivesUp(d, r) == r.pc = "refused" \/ (r.pc = "failed" /\ r.att >= cfg[d].max)
GiveUp(c) ==
    LET r == wk[c] IN
    /\ ProvGivesUp(c[1], r) /\ Write(<<r.p, c[2]>>, r, "abandoned", FALSE) /\ Rests(c)
    /\ UNCHANGED <<proj, activated, tries, claims, created, cfg, swept, requeue, rec, requeues>>
Release(c) ==
    LET r == wk[c] IN
    /\ r.pc = "failed" /\ ~ ProvGivesUp(c[1], r)
    /\ Write(<<r.p, c[2]>>, r, "pending", TRUE) /\ Rests(c)
    /\ UNCHANGED <<proj, activated, tries, claims, created, cfg, swept, requeue, rec, requeues>>

\* confirmProjectActive.
Latch(c) ==
    LET r == wk[c] IN
    /\ r.pc = "latch" /\ Rests(c)
    /\ \/ activated' = [activated EXCEPT ![r.p] = TRUE] /\ Done
       \/ Fault /\ UNCHANGED activated
    /\ UNCHANGED <<proj, cell, created, cfg, swept, requeue, rec, requeues>>

Works(c) ==
    \/ \E p \in Projects : Claim(c, p)
    \/ Look(c) \/ Call(c) \/ Finish(c) \/ GiveUp(c) \/ Release(c) \/ Latch(c)

-----------------------------------------------------------------------------
(* Sweep, purge, restart, reconcile. *)

\* Mutant: a row that was released has no lease and is not swept.
QuietHeld(k) == leased[k] = "grace"
Quiet(k) == leased[k] \in {"null", "grace"}

Sweepable(k, d) ==
    k[2] \in cfg[d].on /\ row[k] = "pending" /\ tries[k] >= cfg[d].max /\ Quiet(k)

\* Mutant: the UPDATE asks for the id and the status.
StillPending(k, d) == row[k] = "pending"
Still(k, d) == Sweepable(k, d)

\* abandonExhaustedProvisioningJobs: a SELECT, then an UPDATE that asks again.
SweepSelect(d) ==
    /\ requeue[d] = {} /\ swept[d] = {}
    /\ LET K == {k \in Keys : Sweepable(k, d)} IN K # {} /\ swept' = [swept EXCEPT ![d] = K]
    /\ UNCHANGED <<proj, activated, cell, created, wk, cfg, requeue, rec, faults, requeues>>
SweepUpdate(d) ==
    LET K == {k \in swept[d] : Still(k, d)} IN
    /\ swept[d] # {} /\ swept' = [swept EXCEPT ![d] = {}]
    /\ \/ /\ row' = [k \in Keys |-> IF k \in K THEN "abandoned" ELSE row[k]]
          /\ holder' = [k \in Keys |-> IF k \in K THEN 0 ELSE holder[k]]
          /\ leased' = [k \in Keys |-> IF k \in K THEN "null" ELSE leased[k]]
          /\ Done
       \/ Fault /\ UNCHANGED <<row, holder, leased>>
    /\ UNCHANGED <<proj, activated, tries, dueNow, claims, created, wk, cfg, requeue, rec, requeues>>

\* purgeFinishedProvisioningJobs, 90 days after the disband, when no job can be left.
ProvPurge(k) ==
    /\ row[k] = "disband" /\ k[2] \in Reclaim
    /\ \A d \in Pods : wk[<<d, k[2]>>].pc # "idle" => wk[<<d, k[2]>>].p # k[1]
    /\ row' = [row EXCEPT ![k] = "purged"]
    /\ UNCHANGED <<proj, activated, tries, dueNow, leased, holder, claims, created, wk, cfg, swept,
                   requeue, rec, faults, requeues>>

\* A pod dies and comes back, perhaps with another configuration, perhaps told to requeue
\* one project (requeueAbandonedProvisioningAtBoot, its SELECT).
Restart(d) ==
    /\ Fault
    /\ \E c \in [max : Maxes, on : Configs] :
        /\ cfg' = [cfg EXCEPT ![d] = c]
        /\ \E p \in Projects :
            LET K == {k \in {p} \X c.on : row[k] = "abandoned" /\ requeues[k] < MaxRequeues} IN
            requeue' = [requeue EXCEPT ![d] = K] \/ requeue' = [requeue EXCEPT ![d] = {}]
    /\ wk' = [w \in Crew |-> IF w[1] = d THEN ProvIdle ELSE wk[w]]
    /\ swept' = [swept EXCEPT ![d] = {}]
    /\ UNCHANGED <<proj, activated, cell, created, rec, requeues>>

Requeued(k) == row[k] = "abandoned"

\* Its UPDATE.
Requeue(d) ==
    LET K == {k \in requeue[d] : Requeued(k) /\ requeues[k] < MaxRequeues} IN
    /\ requeue[d] # {} /\ requeue' = [requeue EXCEPT ![d] = {}]
    /\ row' = [k \in Keys |-> IF k \in K THEN "pending" ELSE row[k]]
    /\ tries' = [k \in Keys |-> IF k \in K THEN 0 ELSE tries[k]]
    /\ dueNow' = [k \in Keys |-> k \in K \/ dueNow[k]]
    /\ holder' = [k \in Keys |-> IF k \in K THEN 0 ELSE holder[k]]
    /\ leased' = [k \in Keys |-> IF k \in K THEN "null" ELSE leased[k]]
    /\ requeues' = [k \in Keys |-> IF k \in K THEN requeues[k] + 1 ELSE requeues[k]]
    /\ UNCHANGED <<proj, activated, claims, created, wk, cfg, swept, rec, faults>>

\* Mutant: decided by whether this pod has the fleet target.
UnconfirmableHere(p) == \E d \in Pods : ~ Waits(d)
\* Nothing will ever confirm a project without a fleet row.
Unconfirmable(p) == row[<<p, Fleet>>] = "none"

Confirmed(p) == row[<<p, Fleet>>] = "ready"

\* scanUnlatchedActivations: latchUnconfirmableProjects and repairConfirmedButUnlatched,
\* each a SELECT and an UPDATE.
Scan ==
    /\ rec = {}
    /\ LET N == {p \in Projects : proj[p] = "normal" /\ ~ activated[p]} IN
       \/ rec' = {p \in N : Unconfirmable(p)}
       \/ rec' = {p \in N : Confirmed(p)}
    /\ rec' # {}
    /\ UNCHANGED <<proj, activated, cell, created, wk, cfg, swept, requeue, faults, requeues>>
Repair ==
    /\ rec # {} /\ rec' = {}
    /\ activated' = [p \in Projects |-> activated[p] \/ (p \in rec /\ proj[p] = "normal")]
    /\ UNCHANGED <<proj, cell, created, wk, cfg, swept, requeue, faults, requeues>>

-----------------------------------------------------------------------------
(* Time. *)

Running(k) == \E d \in Pods : /\ wk[<<d, k[2]>>].pc # "idle" /\ wk[<<d, k[2]>>].p = k[1]
                              /\ wk[<<d, k[2]>>].own = holder[k]

\* A lease runs out, and another lease's length after it.
LeaseRuns(k) ==
    /\ row[k] = "pending" /\ leased[k] \in {"live", "lapsed"} /\ (Stalls \/ ~ Running(k))
    /\ leased' = [leased EXCEPT ![k] = IF @ = "live" THEN "lapsed" ELSE "grace"]
    /\ UNCHANGED <<proj, activated, row, tries, dueNow, holder, claims, created, wk, cfg, swept,
                   requeue, rec, faults, requeues>>
BecomesDue(k) ==
    /\ row[k] = "pending" /\ ~ dueNow[k] /\ dueNow' = [dueNow EXCEPT ![k] = TRUE]
    /\ UNCHANGED <<proj, activated, row, tries, leased, holder, claims, created, wk, cfg, swept,
                   requeue, rec, faults, requeues>>

-----------------------------------------------------------------------------
Step ==
    \/ \E d \in Pods, p \in Projects : Create(d, p)
    \/ \E p \in Projects : Disband(p)
    \/ \E c \in Crew : Works(c)
    \/ \E d \in Pods : SweepSelect(d) \/ SweepUpdate(d) \/ Restart(d) \/ Requeue(d)
    \/ \E k \in Keys : ProvPurge(k) \/ LeaseRuns(k) \/ BecomesDue(k)
    \/ Scan \/ Repair

ProvNext == Step /\ UNCHANGED world

ProvSpec == ProvInit /\ [][ProvNext]_<<provVars, world>>

\* Timers fire, calls end, leases and backoffs run out.
ProvFairSpec ==
    /\ ProvSpec
    /\ \A c \in Crew : WF_provVars(Works(c))
    /\ \A d \in Pods : /\ WF_provVars(SweepSelect(d)) /\ WF_provVars(SweepUpdate(d))
                       /\ WF_provVars(Requeue(d))
    /\ \A k \in Keys : WF_provVars(LeaseRuns(k)) /\ WF_provVars(BecomesDue(k))
    /\ WF_provVars(Scan) /\ WF_provVars(Repair)

-----------------------------------------------------------------------------
(* Properties. *)

\* Every container of a disbanded project is on record as reclaimable, also one that a late
\* call creates and one whose row was given up, until a live consumer's row is purged.
Reclaimable == \A k \in Keys :
    proj[k[1]] = "disbanded" /\ created[k] =>
        row[k] = "disband" \/ (row[k] = "purged" /\ k[2] \in Reclaim)

\* A project that waits for its container is shown to the peer only once it has one,
\* whatever the pods' configurations, and whichever of the worker and the two repairs sets
\* the latch.
ShownWithContainer == \A p \in Projects :
    activated[p] /\ row[<<p, Fleet>>] # "none" => created[<<p, Fleet>>]

\* A row is tried at most MaxAttempts times, and as often again for each requeue, however
\* often the pods that try it die.
CallsBounded == \A k \in Keys : claims[k] <= Limit * (1 + requeues[k])

\* The sweep gives up no row that a pod is working on as long as jobs end within their
\* leases, also while the pods disagree on the budget.
SweepSparesRunning == [][\A k \in Keys :
    ~ Stalls /\ (\E d \in Pods : swept[d] # {} /\ swept'[d] = {} /\ cfg' = cfg)
        /\ Running(k) /\ row[k] = "pending" => row'[k] = "pending"]_provVars

\* Every project is shown to the peer, given up or disbanded in the end, if a pod that has
\* the fleet target is left.
Settles == \A p \in Projects :
    []<>(proj[p] = "normal" /\ (\E d \in Pods : Fleet \in cfg[d].on)
            => activated[p] \/ row[<<p, Fleet>>] = "abandoned")

\* Containers stay on record, are there when they are shown and cost a bounded number of calls.
ContainersSound == ProvTypeOK /\ Reclaimable /\ ShownWithContainer /\ CallsBounded
=============================================================================
