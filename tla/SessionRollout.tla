--------------------------- MODULE SessionRollout ---------------------------
(***************************************************************************)
(* The rollout of bounded sessions (pkg/auth: session_rollout_*.go,        *)
(* writer_registry.go, ApplyAndPublishRolloutState).  MySQL keeps the      *)
(* floor; replicas poll it, run at it and say so in a registry of write    *)
(* leases in Redis; reconcilers and the operator's command move the floor  *)
(* when the registry and a scan of the tokens allow it.  Floors are        *)
(* numbered 0 expand, 1 v3-write, 2 revoke, 3 bounded, 4 enforce.          *)
(***************************************************************************)
EXTENDS Integers, FiniteSets

CONSTANTS
    Replicas,   \* process incarnations; a restart is another member
    Deciders,   \* reconcilers, and the operator's advance
    Deployments \* the situations considered, see RolloutAssumption

\* What does not change in a behaviour: the incarnations and deciders there are, the canaries,
\* which run one phase ahead, OCTO_AUTH_SESSION_EXPECT_WRITERS (the replicas deployed),
\* whether a whole process may stall and resume, and the bounds: the floors between which
\* the rollout moves, the cuts, deaths, stalls, lost answers and failed evaluations, and the
\* operator's cap changes and pauses.
ASSUME RolloutAssumption ==
    \A w \in Deployments :
        /\ DOMAIN w = {"procs", "deciders", "canary", "expect", "freezes", "first", "last",
                       "maxMishaps", "maxOps"}
        /\ w.procs \subseteq Replicas /\ w.deciders \subseteq Deciders
        /\ w.canary \subseteq Replicas /\ w.expect \in Nat \ {0} /\ w.freezes \in BOOLEAN
        /\ w.first \in 0..4 /\ w.last \in w.first..4 /\ w.maxMishaps \in Nat /\ w.maxOps \in Nat

Expand == 0
V3Write == 1
Bounded == 3
Enforce == 4
Absent == -1

VARIABLES
    deployment, \* a member of Deployments, chosen once
    control,    \* octo_session_rollout_state
    proc,       \* each process
    entry,      \* each process's entry in the registry: the state it advertises
    dec,        \* each evaluation of the predicate
    conv,       \* WriterConvergence of each decider: the set, and whether a lease TTL passed
    old,        \* whether a process from before the registry still runs
    legacy,     \* whether tokens from before v3 are stored
    persistent, \* whether some of them have no deadline
    mishaps, ops

Canary     == deployment.canary
Expect     == deployment.expect
Freezes    == deployment.freezes
First      == deployment.first
Last       == deployment.last
MaxMishaps == deployment.maxMishaps
MaxOps     == deployment.maxOps

rolloutVars == <<control, proc, entry, dec, conv, old, legacy, persistent, mishaps, ops>>
stored == <<old, legacy, persistent>>

NoReplica == [st |-> "off", mode |-> First, cap |-> 1, seen |-> First, fenced |-> FALSE,
           self |-> First, held |-> FALSE, publishing |-> FALSE, cut |-> FALSE,
           frozen |-> FALSE, writing |-> FALSE]
NoDec == [pc |-> "idle", floor |-> First, version |-> 0, cap |-> 1,
          live |-> [p \in Replicas |-> Absent], cand |-> <<FALSE, FALSE>>, ok |-> FALSE]
NoConv == [set |-> [p \in Replicas |-> Absent], known |-> FALSE, aged |-> FALSE]

RolloutTypeOK ==
    /\ deployment \in Deployments
    /\ control.floor \in First..Last /\ control.version \in 1..(1 + Last - First + MaxOps)
    /\ control.cap \in 1..2 /\ control.paused \in BOOLEAN
    /\ \A p \in Replicas :
           /\ proc[p].st \in {"off", "boot", "up", "gone"}
           /\ proc[p].seen \in First..control.floor
           /\ proc[p].mode \in proc[p].seen..(proc[p].seen + 1) /\ proc[p].mode <= Enforce
           /\ entry[p] \in {Absent} \cup First..proc[p].mode
           /\ proc[p].writing => First = Expand
    /\ \A d \in Deciders : dec[d].version \in 0..control.version
    /\ persistent => legacy
    /\ mishaps \in 0..MaxMishaps /\ ops \in 0..MaxOps

RolloutInit ==
    /\ deployment \in Deployments
    /\ control = [floor |-> First, version |-> 1, cap |-> 1, paused |-> FALSE]
    /\ proc = [p \in Replicas |-> NoReplica]
    /\ entry = [p \in Replicas |-> Absent]
    /\ dec = [d \in Deciders |-> NoDec] /\ conv = [d \in Deciders |-> NoConv]
    /\ old = (First = Expand) /\ legacy = (First < Enforce)
    /\ persistent = (First < Bounded)
    /\ mishaps = 0 /\ ops = 0

Mishap == mishaps < MaxMishaps /\ mishaps' = mishaps + 1
Running(p) == proc[p].st \in {"boot", "up"}
Acts(p) == proc[p].st = "up" /\ ~ proc[p].frozen

\* mayWrite: not fenced, and the lease has not lapsed on the holder's clock.
MayWrite(p) == Acts(p) /\ ~ proc[p].fenced /\ proc[p].held

-----------------------------------------------------------------------------
(* A replica. *)

\* The mode of a replica at a floor.
Ahead(p, f) == IF p \in Canary /\ f < Enforce THEN f + 1 ELSE f

\* InitializeSessionRollout reads the floor; the deployment runs Expect replicas.
Boot(p) ==
    /\ p \in deployment.procs /\ proc[p].st = "off" /\ Cardinality({q \in Replicas : Running(q)}) < Expect
    /\ LET m == Ahead(p, control.floor) IN
       proc' = [proc EXCEPT ![p] = [NoReplica EXCEPT !.st = "boot", !.mode = m, !.self = m,
                                        !.cap = control.cap, !.seen = control.floor]]
    /\ UNCHANGED <<control, entry, dec, conv, stored, mishaps, ops>>

\* Join: the first attempt to take the lease may fail, the heartbeat goes on.
Join(p) ==
    /\ proc[p].st = "boot"
    /\ proc' = [proc EXCEPT ![p].st = "up", ![p].held = ~ proc[p].cut]
    /\ entry' = IF proc[p].cut THEN entry ELSE [entry EXCEPT ![p] = proc[p].self]
    /\ UNCHANGED <<control, dec, conv, stored, mishaps, ops>>

\* The published state is the one this floor asks for.
Applied(p, m) == ~ proc[p].fenced /\ proc[p].mode = m /\ proc[p].cap = control.cap

\* pollFloor: the floor is read and applied to this process, with issuance fenced until the
\* registry has it too.  An unchanged mode and cap need no publication.
PollFloor(p) ==
    LET r == proc[p]
        m == Ahead(p, control.floor)
    IN  /\ Acts(p) /\ ~ r.publishing
        /\ r.seen # control.floor \/ r.fenced \/ r.cap # control.cap
        /\ proc' = [proc EXCEPT ![p] =
               IF Applied(p, m)
               THEN [r EXCEPT !.seen = control.floor]
               ELSE [r EXCEPT !.seen = control.floor, !.cap = control.cap, !.publishing = TRUE,
                              !.mode = IF m > @ THEN m ELSE @, !.fenced = TRUE]]
        /\ UNCHANGED <<control, entry, dec, conv, stored, mishaps, ops>>

\* PublishAppliedState, then the fence opens; a failure leaves it shut until the next poll.
Publish(p) ==
    LET r == proc[p] IN
    /\ Acts(p) /\ r.publishing
    /\ proc' = [proc EXCEPT ![p] =
           IF r.cut THEN [r EXCEPT !.publishing = FALSE]
           ELSE [r EXCEPT !.publishing = FALSE, !.self = r.mode, !.held = TRUE, !.fenced = FALSE]]
    /\ entry' = IF r.cut THEN entry ELSE [entry EXCEPT ![p] = r.mode]
    /\ UNCHANGED <<control, dec, conv, stored, mishaps, ops>>

\* The script ran and its answer was lost.
PublishLost(p) ==
    /\ Acts(p) /\ proc[p].publishing /\ ~ proc[p].cut /\ Mishap
    /\ proc' = [proc EXCEPT ![p].publishing = FALSE]
    /\ entry' = [entry EXCEPT ![p] = proc[p].mode]
    /\ UNCHANGED <<control, dec, conv, stored, ops>>

\* refresh renews the lease with the last state that was published.
Heartbeat(p) ==
    /\ Acts(p) /\ ~ proc[p].cut
    /\ entry[p] # proc[p].self \/ ~ proc[p].held
    /\ proc' = [proc EXCEPT ![p].held = TRUE]
    /\ entry' = [entry EXCEPT ![p] = proc[p].self]
    /\ UNCHANGED <<control, dec, conv, stored, mishaps, ops>>

\* The lease passes on the holder's clock, writerLeaseMargin before it does in Redis.
WriterLeaseLapses(p) ==
    /\ proc[p].held /\ (proc[p].cut \/ proc[p].frozen)
    /\ proc' = [proc EXCEPT ![p].held = FALSE]
    /\ UNCHANGED <<control, entry, dec, conv, stored, mishaps, ops>>

\* The key passes in Redis: six poll intervals after the last refresh.
EntryExpires(p) ==
    /\ entry[p] # Absent
    /\ \/ proc[p].st = "gone"
       \/ ~ proc[p].held /\ proc[p].frozen
       \/ ~ proc[p].held /\ proc[p].cut /\ proc[p].seen = control.floor
    /\ entry' = [entry EXCEPT ![p] = Absent]
    /\ UNCHANGED <<control, proc, dec, conv, stored, mishaps, ops>>

\* Redis is out of a replica's reach for a while; MySQL is not.
Cut(p) ==
    /\ Running(p) /\ ~ proc[p].cut /\ Mishap
    /\ proc' = [proc EXCEPT ![p].cut = TRUE]
    /\ UNCHANGED <<control, entry, dec, conv, stored, ops>>
Heal(p) ==
    /\ proc[p].cut
    /\ proc' = [proc EXCEPT ![p].cut = FALSE]
    /\ UNCHANGED <<control, entry, dec, conv, stored, mishaps, ops>>

\* A process stalls as a whole, and resumes.
Freeze(p) ==
    /\ Freezes /\ Acts(p) /\ Mishap
    /\ proc' = [proc EXCEPT ![p].frozen = TRUE]
    /\ UNCHANGED <<control, entry, dec, conv, stored, ops>>
Thaw(p) ==
    /\ proc[p].frozen /\ ~ proc[p].held
    /\ proc' = [proc EXCEPT ![p].frozen = FALSE]
    /\ UNCHANGED <<control, entry, dec, conv, stored, mishaps, ops>>

\* A clean shutdown drops the entry, a death leaves it to expire.
Stop(p) ==
    /\ Running(p) /\ Mishap
    /\ proc' = [proc EXCEPT ![p] = [NoReplica EXCEPT !.st = "gone", !.seen = proc[p].seen,
                                        !.mode = proc[p].mode]]
    /\ entry' = entry \/ entry' = [entry EXCEPT ![p] = Absent]
    /\ UNCHANGED <<control, dec, conv, stored, ops>>

-----------------------------------------------------------------------------
(* Tokens. *)

\* IssueNew: the gate is asked, the token written later.
StartWrite(p) ==
    /\ MayWrite(p) /\ proc[p].mode = Expand /\ ~ proc[p].writing
    /\ proc' = [proc EXCEPT ![p].writing = TRUE]
    /\ UNCHANGED <<control, entry, dec, conv, stored, mishaps, ops>>
FinishWrite(p) ==
    /\ Acts(p) /\ proc[p].writing
    /\ proc' = [proc EXCEPT ![p].writing = FALSE]
    /\ legacy' = (legacy \/ ~ proc[p].cut)
    /\ UNCHANGED <<control, entry, dec, conv, old, persistent, mishaps, ops>>

\* A process from before the registry issues tokens, some without a deadline, and ends.
OldWrites ==
    /\ old /\ ~ (legacy /\ persistent)
    /\ legacy' = TRUE /\ persistent' = TRUE
    /\ UNCHANGED <<control, proc, entry, dec, conv, old, mishaps, ops>>
OldExits ==
    /\ old /\ old' = FALSE
    /\ UNCHANGED <<control, proc, entry, dec, conv, legacy, persistent, mishaps, ops>>

\* The operator's migration gives every token a deadline; tokens expire or are promoted.
Migrate ==
    /\ persistent /\ persistent' = FALSE
    /\ UNCHANGED <<control, proc, entry, dec, conv, old, legacy, mishaps, ops>>
LegacyExpires ==
    /\ legacy /\ ~ persistent /\ legacy' = FALSE
    /\ UNCHANGED <<control, proc, entry, dec, conv, old, persistent, mishaps, ops>>

-----------------------------------------------------------------------------
(* EvaluateRolloutAdvance and Advance. *)

\* Thirty seconds between decisions are six polls, and outlast a call in flight: a replica
\* that is out of the registry without being stalled has seen the floor, and a token whose
\* issue began at an earlier mode has been written.
InTime == \A p \in Replicas : (Running(p) /\ ~ proc[p].frozen) =>
    /\ entry[p] = Absent => proc[p].seen = control.floor
    /\ proc[p].writing => proc[p].mode = Expand

Target(d) == dec[d].floor + 1
Scans(d) == Target(d) \in {V3Write, Bounded, Enforce}

Load(d) ==
    /\ d \in deployment.deciders /\ dec[d].pc = "idle" /\ ~ control.paused /\ control.floor < Last /\ InTime
    /\ dec' = [dec EXCEPT ![d] = [NoDec EXCEPT !.pc = "live", !.floor = control.floor,
                                      !.version = control.version, !.cap = control.cap]]
    /\ UNCHANGED <<control, proc, entry, conv, stored, mishaps, ops>>

\* Mutant: a replica behind the floor does not hold the floor.
ConvergedAny(d, live) == \E p \in Replicas : live[p] # Absent
\* Mutant: a replica at the current floor does not hold it.
ConvergedPast(d, live) ==
    /\ \E p \in Replicas : live[p] # Absent
    /\ \A p \in Replicas : live[p] # Absent => live[p] > dec[d].floor

\* There are live writers, and all advertise the current floor or more.
Converged(d, live) ==
    /\ \E p \in Replicas : live[p] # Absent
    /\ \A p \in Replicas : live[p] # Absent => live[p] >= dec[d].floor

\* Live, after which the scan begins.
ReadLive(d) ==
    /\ dec[d].pc = "live"
    /\ dec' = [dec EXCEPT ![d] =
           [dec[d] EXCEPT !.live = entry, !.cand = <<legacy, persistent>>,
                          !.ok = Converged(d, entry), !.pc = IF Scans(d) THEN "scan" ELSE "final"]]
    /\ UNCHANGED <<control, proc, entry, conv, stored, mishaps, ops>>

\* The set of writers has been the same for a lease TTL.
Stable(d) == conv[d].known /\ conv[d].set = dec[d].live /\ conv[d].aged

\* What the readers of the next phase would newly reject is absent.
Clean(d, l, n) == (Target(d) = Bounded => ~ n) /\ (Target(d) = Enforce => ~ l)

\* The end of the scan, which may or may not have met what was written while it ran, and
\* the check of the window (first v3 floor only).
EndScan(d) ==
    LET same == conv[d].known /\ conv[d].set = dec[d].live
        fleet == Stable(d) /\ Cardinality({p \in Replicas : dec[d].live[p] # Absent}) = Expect
    IN  /\ dec[d].pc = "scan"
        /\ \E l, n \in BOOLEAN :
            /\ (dec[d].cand[1] /\ legacy) => l
            /\ (dec[d].cand[2] /\ persistent) => n
            /\ l => dec[d].cand[1] \/ legacy
            /\ n => dec[d].cand[2] \/ persistent
            /\ dec' = [dec EXCEPT ![d] = [dec[d] EXCEPT !.pc = "final",
                   !.ok = dec[d].ok /\ Clean(d, l, n) /\ (Target(d) = V3Write => fleet)]]
        /\ conv' = IF Target(d) # V3Write \/ same THEN conv
                   ELSE [conv EXCEPT ![d] = [set |-> dec[d].live, known |-> TRUE, aged |-> FALSE]]
        /\ UNCHANGED <<control, proc, entry, stored, mishaps, ops>>

\* A lease TTL passes with a set of writers unchanged.  The process from before the registry
\* is gone within that time of the last of its successors joining: the deployment goes on.
WindowAges(d) ==
    /\ conv[d].known /\ ~ conv[d].aged
    /\ old => Cardinality({p \in Replicas : conv[d].set[p] # Absent}) < Expect
    /\ conv' = [conv EXCEPT ![d].aged = TRUE]
    /\ UNCHANGED <<control, proc, entry, dec, stored, mishaps, ops>>

\* The registry is read again.
Confirm(d) ==
    /\ dec[d].pc = "final"
    /\ dec' = [dec EXCEPT ![d].pc = IF dec[d].ok /\ entry = dec[d].live THEN "advance" ELSE "idle"]
    /\ UNCHANGED <<control, proc, entry, conv, stored, mishaps, ops>>

\* Mutant: the update compares the floor and not the version.
CurrentFloor(d) == control.floor = dec[d].floor /\ ~ control.paused

Current(d) ==
    control.floor = dec[d].floor /\ control.version = dec[d].version /\ ~ control.paused

\* Advance: one statement, which also writes back the cap that was read.
Advance(d) ==
    /\ dec[d].pc = "advance"
    /\ dec' = [dec EXCEPT ![d] = NoDec]
    /\ control' = IF Current(d)
                  THEN [control EXCEPT !.floor = @ + 1, !.version = @ + 1, !.cap = dec[d].cap]
                  ELSE control
    /\ UNCHANGED <<proc, entry, conv, stored, mishaps, ops>>

\* An evaluation fails, or its process ends.
Abort(d) ==
    /\ dec[d].pc # "idle" /\ Mishap
    /\ dec' = [dec EXCEPT ![d] = NoDec]
    /\ conv' = conv \/ conv' = [conv EXCEPT ![d] = NoConv]
    /\ UNCHANGED <<control, proc, entry, stored, ops>>

\* SetMaxPerUID, pause and resume.
SetCap ==
    /\ ops < MaxOps /\ ops' = ops + 1 /\ control.cap = 1
    /\ control' = [control EXCEPT !.cap = 2, !.version = @ + 1]
    /\ UNCHANGED <<proc, entry, dec, conv, stored, mishaps>>
SetPaused ==
    /\ IF control.paused THEN UNCHANGED ops ELSE ops + 2 <= MaxOps /\ ops' = ops + 2
    /\ control' = [control EXCEPT !.paused = ~ @, !.version = @ + 1]
    /\ UNCHANGED <<proc, entry, dec, conv, stored, mishaps>>

-----------------------------------------------------------------------------
Replica(p) ==
    \/ Boot(p) \/ Join(p) \/ PollFloor(p) \/ Publish(p) \/ Heartbeat(p)
    \/ WriterLeaseLapses(p) \/ EntryExpires(p) \/ Heal(p) \/ Thaw(p) \/ FinishWrite(p)

Decide(d) == Load(d) \/ ReadLive(d) \/ EndScan(d) \/ Confirm(d) \/ Advance(d)

RolloutStep ==
    \/ \E p \in Replicas : Replica(p) \/ PublishLost(p) \/ Cut(p) \/ Freeze(p) \/ Stop(p)
                        \/ StartWrite(p)
    \/ \E d \in Deciders : Decide(d) \/ WindowAges(d) \/ Abort(d)
    \/ OldWrites \/ OldExits \/ Migrate \/ LegacyExpires \/ SetCap \/ SetPaused

RolloutNext == RolloutStep /\ UNCHANGED deployment

RolloutSpec == RolloutInit /\ [][RolloutNext]_<<rolloutVars, deployment>>

\* Tickers tick, leases pass, outages end, the deployment and the operator go on.
RolloutFairSpec ==
    /\ RolloutSpec
    /\ \A p \in Replicas :
           /\ WF_rolloutVars(Boot(p) \/ Join(p)) /\ WF_rolloutVars(PollFloor(p))
           /\ WF_rolloutVars(Publish(p)) /\ WF_rolloutVars(Heartbeat(p))
           /\ WF_rolloutVars(WriterLeaseLapses(p)) /\ WF_rolloutVars(EntryExpires(p))
           /\ WF_rolloutVars(Heal(p)) /\ WF_rolloutVars(Thaw(p)) /\ WF_rolloutVars(FinishWrite(p))
    /\ \A d \in Deciders : WF_rolloutVars(Decide(d)) /\ WF_rolloutVars(WindowAges(d))
    /\ WF_rolloutVars(OldExits) /\ WF_rolloutVars(Migrate) /\ WF_rolloutVars(LegacyExpires)
    /\ WF_rolloutVars(control.paused /\ SetPaused)

-----------------------------------------------------------------------------
(* Properties. *)

\* A replica that may issue sessions is at most one phase behind the floor: no advance
\* goes past a replica that has not caught up (the convergence check of the predicate, the
\* fence, and the lease that ends on the holder's clock).
OnePhaseBehind == \A p \in Replicas : MayWrite(p) => proc[p].mode + 1 >= control.floor

\* What a phase rejects is absent when it begins and does not come back: no token without
\* a deadline under bounded, none from before v3 under enforce.
RejectsNothing ==
    /\ control.floor >= Bounded => ~ persistent
    /\ control.floor >= Enforce => ~ legacy

\* No process from before the registry runs once v3 tokens are the floor (WriterConvergence
\* and the expected number of writers).
FirstFloorExcludesOld == control.floor >= V3Write => ~ old

\* An advance never undoes a change of the cap that it did not see, although it writes the
\* cap (the version in the compare-and-set of Advance).
CapKept == [][control'.floor # control.floor => control'.cap = control.cap]_rolloutVars

\* The rollout reaches its last phase by itself once the faults and the operator end, if
\* enough replicas outlive them.
Depleted == Cardinality({p \in deployment.procs : proc[p].st # "gone"}) < Expect
RolloutCompletes == <>(control.floor = Last \/ Depleted)

\* No advance of the floor outruns a writer, a stored token or an old binary.
RolloutSound == RolloutTypeOK /\ OnePhaseBehind /\ RejectsNothing /\ FirstFloorExcludesOld
=============================================================================
