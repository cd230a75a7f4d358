--------------------------- MODULE ProjectRemoval ---------------------------
(***************************************************************************)
(* The seats of one project, and their two-phase close.                    *)
(*                                                                         *)
(* Every request that changes a seat runs in one transaction that holds    *)
(* the project's row, and is one action here.  Removing a member only      *)
(* marks the seat (removing) and writes a job; a worker of any process     *)
(* closes the seat later, in transactions that lock the member's row.      *)
(* Meanwhile the member is re-admitted and removed again, changes role,    *)
(* becomes Owner, leaves the Space, or the project is disbanded.           *)
(*                                                                         *)
(* The epoch is member_epoch modulo two: every statement that writes it    *)
(* adds one, so two values tell a move from none.  The purge of old rows   *)
(* is left out (nothing reads them), and so are collaboration roles, the   *)
(* membership cache and the lifecycle events (see ProjectLifecycle).       *)
(*                                                                         *)
(* The rows octo_project_member are seat here: SpaceMembership has member, *)
(* the other names that the two share begin with Rem.                      *)
(***************************************************************************)
EXTENDS Accounts, Naturals, FiniteSets

CONSTANTS
    Workers,
    FirstOwner,     \* the member who created the project
    Creator,        \* robot.creator_uid of each agent; Nobody for a human
    Nobody,
    MaxMembers,     \* the project's member quota
    MaxAttempts,    \* removalMaxAttempts
    Batch,          \* removalBatch
    MaxRemovals,    \* bound on how often one user's seat begins to close
    MaxJobs,        \* bound on how often any seat does
    MaxFaults       \* bound on crashes, lost writes and missed heartbeats

Roles == {"common", "admin", "owner"}

ASSUME ProjectRemovalAssumption ==
    /\ Nobody \notin Users \cup Workers \cup Roles
    /\ FirstOwner \in Users /\ Creator[FirstOwner] = Nobody
    /\ Creator \in [Users -> Users \cup {Nobody}]
    /\ IsFiniteSet(Users)
    /\ {MaxMembers, MaxAttempts, Batch, MaxRemovals, MaxJobs} \subseteq Nat \ {0}
    /\ MaxFaults \in Nat

Jobs == Users \X (1..MaxRemovals)     \* the job of the user's n-th removal

VARIABLES
    project,    \* octo_project.status and archived_at
    seat,       \* octo_project_member
    spaceSeat,  \* who holds a seat in the Space
    epoch,      \* octo_project.member_epoch, modulo 2
    job,        \* octo_project_member_removal_cleanup
    worker,     \* runRemovalCascade, one batch at a time in each process
    faults

seatVars == <<project, seat, spaceSeat, epoch>>
remVars == <<seatVars, job, worker, faults>>

Member == [active : BOOLEAN, removing : BOOLEAN, role : Roles]
NoSeat == [active |-> FALSE, removing |-> FALSE, role |-> "common"]

Job == [status : {"none", "pending", "done", "abandoned", "cancelled"},
        attempts : 0..MaxAttempts,          \* as far as the code tells it apart
        lease : {"none", "live", "expired"},
        owner : Workers \cup {Nobody},
        due : BOOLEAN]
NoJob == [status |-> "none", attempts |-> 0, lease |-> "none", owner |-> Nobody, due |-> FALSE]

Worker == [pc : {"idle", "next", "finish", "retire"},
           ids : SUBSET Jobs,               \* the claimed batch
           todo : SUBSET Jobs,              \* what is left of it
           job : Jobs \cup {<<>>},
           verdict : {"none", "done", "cancelled", "failed"}]
IdleWorker == [pc |-> "idle", ids |-> {}, todo |-> {}, job |-> <<>>, verdict |-> "none"]

RemTypeOK ==
    /\ project \in {"live", "archived", "disbanded"}
    /\ seat \in [Users -> Member]
    /\ spaceSeat \subseteq Users
    /\ epoch \in {0, 1}
    /\ job \in [Jobs -> Job]
    /\ worker \in [Workers -> Worker]
    /\ faults \in 0..MaxFaults

RemInit ==
    /\ project = "live"
    /\ seat = [u \in Users |-> IF u = FirstOwner THEN [NoSeat EXCEPT !.active = TRUE, !.role = "owner"]
                                 ELSE NoSeat]
    /\ spaceSeat = Users
    /\ epoch = 1
    /\ job = [j \in Jobs |-> NoJob]
    /\ worker = [w \in Workers |-> IdleWorker]
    /\ faults = 0

-----------------------------------------------------------------------------
(* Requests.  The actor's role and every target are read under the project's *)
(* row lock; a seat that is closing is no seat.                              *)

Effective(u) == seat[u].active /\ ~seat[u].removing

\* actorRoleTx
ActorRole(u) == IF Effective(u) THEN seat[u].role ELSE Nobody
CanManageMembers(u) == ActorRole(u) \in {"admin", "owner"}

Bump == epoch' = 1 - epoch      \* bumpMemberEpochTx

Removals(u) == {n \in 1..MaxRemovals : job[<<u, n>>].status # "none"}
LatestJob(u) == <<u, Cardinality(Removals(u))>>
CanRemove(S) ==
    /\ \A u \in S : Cardinality(Removals(u)) < MaxRemovals
    /\ Cardinality({j \in Jobs : job[j].status # "none"}) + Cardinality(S) <= MaxJobs

\* A row in its last state: what else it holds is read by nobody.
Terminal(status) == [NoJob EXCEPT !.status = status]

\* enqueueRemovalJobTx for the seats in S, cancelPendingRemovalJobsTx for those in C.
WriteJobs(S, C) ==
    job' = [j \in Jobs |->
              IF j[1] \in S /\ j[2] = Cardinality(Removals(j[1])) + 1
              THEN [NoJob EXCEPT !.status = "pending", !.due = TRUE]
              ELSE IF j[1] \in C /\ job[j].status = "pending" THEN Terminal("cancelled")
              ELSE job[j]]

\* beginMemberRemovalTx
BeginRemoval(S) == [u \in Users |-> IF u \in S THEN [seat[u] EXCEPT !.removing = TRUE] ELSE seat[u]]

\* queryOwnedAgentSeatsTx
OwnedAgents(u) ==
    {a \in Users : Creator[a] = u /\ Effective(a) /\ seat[a].role # "owner"}

\* The targets that will take one more place of the quota.
NewSeats(S) == {u \in S : ~Effective(u)}

\* An agent comes in only while its creator holds a Space seat.
Eligible(u) == u \in spaceSeat /\ (Creator[u] # Nobody => Creator[u] \in spaceSeat)

\* admitMemberTx: the role is kept on a seat that is open.
Admitted(S, role) ==
    [u \in Users |-> IF u \in S THEN [active |-> TRUE, removing |-> FALSE, role |-> role]
                     ELSE seat[u]]

\* addMembersOnce
AddMembers(actor, S, role) ==
    /\ project = "live" /\ actor \in spaceSeat /\ CanManageMembers(actor)
    /\ \A u \in S : Eligible(u)
    /\ \A u \in S : Effective(u) => seat[u].role = role        \* errMemberRoleConflict
    /\ \E u \in S : ~Effective(u)
    /\ Cardinality({u \in Users : Effective(u)}) + Cardinality(NewSeats(S)) <= MaxMembers
    /\ seat' = Admitted({u \in S : ~Effective(u)}, role)
    /\ WriteJobs({}, {u \in S : ~Effective(u)})
    /\ Bump
    /\ UNCHANGED <<project, spaceSeat, worker, faults>>

\* beginRemovalWithAgentsTx: the member, and with them their agents, one bump for all.
BeginRemovalWithAgents(u) ==
    LET leaving == {u} \cup OwnedAgents(u) IN
    /\ CanRemove(leaving)
    /\ seat' = BeginRemoval(leaving)
    /\ WriteJobs(leaving, {})
    /\ Bump
    /\ UNCHANGED <<project, spaceSeat, worker, faults>>

\* removeMemberOnce; an archived project can still lose members.
RemoveMemberOnce(actor, u) ==
    /\ project # "disbanded" /\ actor # u
    /\ actor \in spaceSeat /\ CanManageMembers(actor)
    /\ Effective(u) /\ seat[u].role # "owner"
    /\ BeginRemovalWithAgents(u)

\* leaveProjectOnce
LeaveProject(u) ==
    /\ project # "disbanded" /\ u \in spaceSeat
    /\ Effective(u) /\ seat[u].role # "owner"
    /\ BeginRemovalWithAgents(u)

\* changeMemberRoleOnce
ChangeMemberRole(actor, u, role) ==
    /\ project = "live" /\ {actor, u} \subseteq spaceSeat /\ CanManageMembers(actor)
    /\ Effective(u) /\ seat[u].role \notin {"owner", role}
    /\ seat' = [seat EXCEPT ![u].role = role]
    /\ Bump
    /\ UNCHANGED <<project, spaceSeat, job, worker, faults>>

\* A member who may take over: human, present, not the Owner.
Successor(u) == Effective(u) /\ seat[u].role # "owner" /\ Creator[u] = Nobody

\* transferProjectOwnerOnce
TransferProjectOwner(actor, u) ==
    /\ project # "disbanded" /\ {actor, u} \subseteq spaceSeat
    /\ ActorRole(actor) = "owner" /\ Successor(u)
    /\ seat' = [seat EXCEPT ![u].role = "owner", ![actor].role = "admin"]
    /\ Bump
    /\ UNCHANGED <<project, spaceSeat, job, worker, faults>>

\* updateArchiveStateTx, by the Owner: the seats and the epoch stay as they are.
Archive(actor) ==
    /\ project # "disbanded" /\ actor \in spaceSeat /\ ActorRole(actor) = "owner"
    /\ project' = IF project = "live" THEN "archived" ELSE "live"
    /\ UNCHANGED <<seat, spaceSeat, epoch, job, worker, faults>>

\* Mutant: the seats are closed and the marks stay.
ClosedMarked(r) == [r EXCEPT !.active = FALSE]

\* What disbandProjectTx and deactivateMemberTx leave of a seat: the role of a closed row
\* is read by nobody, and written again when the row is opened.
Closed(r) == NoSeat

\* disbandProjectOnce: the epoch, then the status, the seats and their jobs.
Disband(actor) ==
    /\ project = "live" /\ actor \in spaceSeat /\ ActorRole(actor) = "owner"
    /\ project' = "disbanded"
    /\ seat' = [u \in Users |-> IF seat[u].active THEN Closed(seat[u]) ELSE seat[u]]
    /\ WriteJobs({}, Users)
    /\ Bump
    /\ UNCHANGED <<spaceSeat, worker, faults>>

-----------------------------------------------------------------------------
(* The Space. *)

\* bumpMemberEpochForSpaceMemberTx, in the Space's transaction, either way.
BumpOnTransition(u) ==
    epoch' = IF Effective(u) /\ project # "disbanded" THEN 1 - epoch ELSE epoch

\* A Space seat closes or opens again (bumpEpochsOnSeatTransition).
SpaceSeatTransition(u) ==
    /\ spaceSeat' = IF u \in spaceSeat THEN spaceSeat \ {u} ELSE spaceSeat \cup {u}
    /\ BumpOnTransition(u)
    /\ UNCHANGED <<project, seat, job, worker, faults>>

\* deactivateMemberTx: the unique Owner keeps the row.
Deactivates(u) == seat[u].active /\ seat[u].role # "owner"

\* deactivateSeatForCascadeResult, some time later, if the seat is still closed: an Owner's
\* row is kept, their agents go.
SpaceCascade(u) ==
    LET agents == IF Effective(u) THEN OwnedAgents(u) \ {u} ELSE {}
    IN
    /\ project # "disbanded" /\ u \notin spaceSeat /\ seat[u].active
    /\ CanRemove(agents)
    /\ Deactivates(u) \/ agents # {}
    /\ seat' = [BeginRemoval(agents) EXCEPT ![u] = IF Deactivates(u) THEN Closed(seat[u]) ELSE @]
    /\ WriteJobs(agents, IF Deactivates(u) THEN {u} ELSE {})
    /\ Bump
    /\ UNCHANGED <<project, spaceSeat, worker, faults>>

-----------------------------------------------------------------------------
(* The job rows and their workers. *)

Fault == faults < MaxFaults /\ faults' = faults + 1
Set(w, rec) == worker' = [worker EXCEPT ![w] = rec]
Next1(w) == [worker[w] EXCEPT !.pc = IF worker[w].todo = {} THEN "idle" ELSE "next",
                              !.ids = IF worker[w].todo = {} THEN {} ELSE @,
                              !.job = <<>>, !.verdict = "none"]

Claimable(j) == job[j].status = "pending" /\ job[j].due /\ job[j].lease # "live"

\* Counting past MaxAttempts changes nothing: the code only asks whether it is reached.
OneMore(n) == IF n < MaxAttempts THEN n + 1 ELSE MaxAttempts

\* claimRemovalJobs: rows another transaction holds are skipped, so any part of the
\* queue may come back; how often a job was tried does not matter.
ClaimRemovalJobs(w, S) ==
    /\ worker[w].pc = "idle" /\ S # {} /\ Cardinality(S) <= Batch
    /\ \A j \in S : Claimable(j)
    /\ job' = [j \in Jobs |-> IF j \in S THEN [job[j] EXCEPT !.attempts = OneMore(@),
                                                           !.lease = "live", !.owner = w]
                             ELSE job[j]]
    /\ Set(w, [IdleWorker EXCEPT !.pc = "next", !.ids = S, !.todo = S])
    /\ UNCHANGED <<seatVars, faults>>

\* heartbeatRemovalLeases: the whole batch, as far as it is still this worker's.
Heartbeat(w) ==
    LET held == {j \in worker[w].ids : job[j].status = "pending" /\ job[j].owner = w} IN
    /\ \E j \in held : job[j].lease = "expired"
    /\ job' = [j \in Jobs |-> IF j \in held THEN [job[j] EXCEPT !.lease = "live"] ELSE job[j]]
    /\ UNCHANGED <<seatVars, worker, faults>>

\* lease_until passes: the worker has gone, or its heartbeats did not come through.
LeaseExpires(j) ==
    /\ job[j].lease = "live"
    /\ IF \E w \in Workers : j \in worker[w].ids /\ job[j].owner = w THEN Fault ELSE UNCHANGED faults
    /\ job' = [job EXCEPT ![j].lease = "expired"]
    /\ UNCHANGED <<seatVars, worker>>

ComeDue(j) ==
    /\ job[j].status = "pending" /\ ~job[j].due
    /\ job' = [job EXCEPT ![j].due = TRUE]
    /\ UNCHANGED <<seatVars, worker, faults>>

\* Mutant: a removal is in progress, so it must be this one.
JobStillOwnsRemovalAssumed(w, j) == TRUE

\* jobStillOwnsRemovalTx
JobStillOwnsRemoval(w, j) == job[j].status = "pending" /\ job[j].owner = w

\* removalCancelled: the next job of the batch, looked at under the member's lock.
RemovalCancelled(w, j) ==
    /\ worker[w].pc = "next" /\ j \in worker[w].todo
    /\ \E verdict \in {"none", "cancelled", "failed"} :
          /\ verdict = "none" => seat[j[1]].removing /\ JobStillOwnsRemoval(w, j)
          /\ verdict = "cancelled" => ~(seat[j[1]].removing /\ JobStillOwnsRemoval(w, j))
          /\ Set(w, [worker[w] EXCEPT !.pc = IF verdict = "none" THEN "finish" ELSE "retire",
                                      !.todo = @ \ {j}, !.job = j, !.verdict = verdict])
    /\ UNCHANGED <<seatVars, job, faults>>

\* finishRemoval: looked at again, and closed if it is still this job's to close.
FinishRemoval(w) ==
    LET j == worker[w].job
        u == j[1]
    IN
    /\ worker[w].pc = "finish"
    /\ \/ /\ seat' = IF seat[u].active /\ seat[u].removing /\ JobStillOwnsRemoval(w, j)
                       THEN [seat EXCEPT ![u] = Closed(@)] ELSE seat
          /\ Set(w, [worker[w] EXCEPT !.pc = "retire", !.verdict = "done"])
       \/ /\ Set(w, [worker[w] EXCEPT !.pc = "retire", !.verdict = "failed"])
          /\ UNCHANGED seat
    /\ UNCHANGED <<project, spaceSeat, epoch, job, faults>>

\* The fence of completeRemovalJob and rescheduleRemovalJob.
Held(w, j) == job[j].status = "pending" /\ job[j].owner = w

\* Mutant: a job that fails is put back for ever.
ExhaustedNever(j) == FALSE

Exhausted(j) == job[j].attempts >= MaxAttempts

\* retireRemovalJob, rescheduleAfterFailure
RetireRemovalJob(w) ==
    LET j == worker[w].job
        verdict == worker[w].verdict
    IN
    /\ worker[w].pc = "retire"
    /\ job' = IF ~Held(w, j) THEN job
              ELSE [job EXCEPT ![j] =
                      IF verdict # "failed" THEN Terminal(verdict)
                      ELSE IF Exhausted(j) THEN Terminal("abandoned")
                      ELSE [@ EXCEPT !.lease = "none", !.owner = Nobody, !.due = FALSE]]
    /\ Set(w, Next1(w))
    /\ UNCHANGED <<seatVars, faults>>

\* The write fails or the job panics: logged, and the next job of the batch is taken.
RetireFails(w) ==
    /\ worker[w].pc = "retire" /\ Fault
    /\ Set(w, Next1(w))
    /\ UNCHANGED <<seatVars, job>>

Crash(w) ==
    /\ worker[w].pc # "idle" /\ Fault
    /\ Set(w, IdleWorker)
    /\ UNCHANGED <<seatVars, job>>

-----------------------------------------------------------------------------
Requests ==
    \/ \E a, u \in Users, r \in {"common", "admin"} : ChangeMemberRole(a, u, r)
    \/ \E a \in Users, S \in SUBSET Users, r \in {"common", "admin"} : AddMembers(a, S, r)
    \/ \E a, u \in Users : RemoveMemberOnce(a, u) \/ TransferProjectOwner(a, u)
    \/ \E u \in Users : LeaveProject(u) \/ Archive(u) \/ Disband(u)

Space == \E u \in Users : SpaceSeatTransition(u) \/ SpaceCascade(u)

ClaimAny == \E w \in Workers, S \in SUBSET Jobs : ClaimRemovalJobs(w, S)

WorkerStep(w) ==
    \/ \E j \in Jobs : RemovalCancelled(w, j)
    \/ FinishRemoval(w) \/ RetireRemovalJob(w)

RemNext ==
    \/ Requests \/ Space \/ ClaimAny
    \/ \E w \in Workers : WorkerStep(w) \/ Heartbeat(w) \/ RetireFails(w) \/ Crash(w)
    \/ \E j \in Jobs : LeaseExpires(j) \/ ComeDue(j)

RemSpec == RemInit /\ [][RemNext]_remVars

\* Every process polls, works its batch off and renews its leases; time passes.
RemFairSpec ==
    /\ RemSpec
    /\ WF_remVars(ClaimAny)
    /\ \A w \in Workers : WF_remVars(WorkerStep(w))
    /\ \A j \in Jobs : WF_remVars(LeaseExpires(j)) /\ WF_remVars(ComeDue(j))

-----------------------------------------------------------------------------
\* What an authorization of u answers: the role, through the project's and the Space's gate.
Standing(u) ==
    IF project # "disbanded" /\ u \in spaceSeat /\ Effective(u) THEN seat[u].role ELSE Nobody

\* A seat that is closing has its own removal's job to close it, pending or given up in the
\* open, and is never left closed with the mark on, where no statement finds it again: not
\* by a worker that lost its lease, by the Space's cascade, by a disband or by a re-admission.
RemovalCovered ==
    \A u \in Users : seat[u].removing =>
        seat[u].active /\ job[LatestJob(u)].status \in {"pending", "abandoned"}

\* Remove, re-add, remove: a worker closes a seat only for the removal its job was written
\* for, however long it was stalled over the first one.
OwnCycleOnly ==
    [][\A w \in Workers, u \in Users :
          worker'[w] # worker[w] /\ seat'[u] # seat[u] => worker[w].job = LatestJob(u)]_remVars

\* As long as the project exists it has exactly one Owner, with a seat that is not closing,
\* whatever the order of transfers, removals, Space exits and worker steps.
OwnerKept ==
    project # "disbanded" => Cardinality({u \in Users : Effective(u) /\ seat[u].role = "owner"}) = 1

\* The quota counts the seats that are in effect, and re-admitting members whose removal
\* is under way cannot take the project past it.
WithinQuota == Cardinality({u \in Users : Effective(u)}) <= MaxMembers

\* docs/project-member-epoch-rollout.md: peers cache an answer under the epoch, so no step of
\* a request, of the Space or of a worker changes anybody's standing without moving it.
EpochTells == [][(\E u \in Users : Standing(u)' # Standing(u)) => epoch' # epoch]_remVars

\* Once the faults have stopped, a seat that is closing is closed, re-admitted or given up.
RemovalsFinish ==
    \A u \in Users : []<>(seat[u].removing => job[LatestJob(u)].status = "abandoned")

\* Whatever a removal, its worker, the Space and the members do to a project: no removal is
\* lost, one Owner stays, the quota holds.
RemovalSound == RemTypeOK /\ RemovalCovered /\ OwnerKept /\ WithinQuota

\* Whoever takes a seat away does it for its latest removal, and peers can tell.
SeatStepsSound == OwnCycleOnly /\ EpochTells
=============================================================================
