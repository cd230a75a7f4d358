--------------------------- MODULE MemberRemoval ---------------------------
(***************************************************************************)
(* Taking a removed Space member out of the Space's groups and projects.   *)
(*                                                                         *)
(* Closing a seat writes a cleanup job in the same transaction.  Every     *)
(* process runs one cleanup worker at a time: it claims a job under a      *)
(* lease that has no heartbeat, re-checks the seat, runs the group step    *)
(* and then the project step, each in short transactions, and finishes or  *)
(* releases the job.  Meanwhile members rejoin, admissions that were       *)
(* checked earlier commit, and the Space is banned or disbanded.           *)
(*                                                                         *)
(* One Space.  A lease is live, past lease_until (expired), or past it by  *)
(* a whole lease more (dead), which is what the sweep asks for.  The purge *)
(* of old done rows is left out: nothing reads them; and the rejoined jobs *)
(* of an older release, which are finished without any step.               *)
(***************************************************************************)
EXTENDS Naturals, FiniteSets, FiniteSetsExt

CONSTANTS
    Users, Groups, Projects, Workers,
    MaxAttempts,    \* removalCleanupMaxAttempts
    PageSize,       \* cascadePageSize
    MaxPages,       \* cascadeMaxPages
    MaxRemovals     \* bound on how often one user's seat is closed

ASSUME RemovalAssumption ==
    /\ {MaxAttempts, PageSize, MaxPages, MaxRemovals} \subseteq Nat \ {0}
    /\ IsFiniteSet(Projects)

None == "none"
Jobs == Users \X (1..MaxRemovals)     \* the job of the user's n-th removal

VARIABLES
    space,      \* space.status
    seat,       \* space_member.status
    groups,     \* group_member rows of each user, in groups of this Space
    projects,   \* octo_project_member seats of each user other than Owner seats
    joining,    \* joins that passed their checks and have not committed
    admitting,  \* group admissions that passed their checks and have not committed
    setting,    \* a ban or unban that has read the Space and not yet written it
    job,        \* space_member_removal_cleanup
    sweeping,   \* the ids the sweep's SELECT returned
    worker,
    late        \* group rows committed for someone who had no seat by then

doorVars == <<space, seat, joining, admitting, setting>>
rowVars == <<groups, projects, late>>
vars == <<doorVars, rowVars, job, sweeping, worker>>

NoJob == [status |-> None, attempts |-> 0, lease |-> None, owner |-> 0, due |-> FALSE]

Job == [status : {None, "pending", "done", "abandoned"},
        attempts : 0..MaxAttempts,
        lease : {None, "live", "expired", "dead"},
        owner : 0..MaxAttempts,     \* the claim that holds the lease, 0 for none
        due : BOOLEAN]

Idle == [pc |-> "idle", job |-> <<>>, owner |-> 0, todo |-> {}, page |-> 0,
         full |-> FALSE, progressed |-> FALSE, failed |-> FALSE]

Worker == [pc : {"idle", "check", "gcheck", "glist", "gexit",
                 "pcheck", "plist", "pexit", "confirm", "end"},
           job : Jobs \cup {<<>>},
           owner : 0..MaxAttempts,
           todo : (SUBSET Groups) \cup (SUBSET Projects),
           page : 0..MaxPages,
           full : BOOLEAN, progressed : BOOLEAN,
           failed : BOOLEAN]       \* firstErr # nil

TypeOK ==
    /\ space \in {"live", "banned", "disbanded"}
    /\ seat \in [Users -> BOOLEAN]
    /\ groups \in [Users -> SUBSET Groups]
    /\ projects \in [Users -> SUBSET Projects]
    /\ joining \subseteq Users
    /\ admitting \subseteq Users \X Groups
    /\ setting \in {None, "live", "banned"}
    /\ job \in [Jobs -> Job]
    /\ sweeping \subseteq Jobs
    /\ worker \in [Workers -> Worker]
    /\ late \subseteq Users \X Groups

Init ==
    /\ space = "live"
    /\ seat = [u \in Users |-> TRUE]
    /\ groups = [u \in Users |-> {}]
    /\ projects = [u \in Users |-> Projects]
    /\ joining = {} /\ admitting = {} /\ setting = None
    /\ job = [j \in Jobs |-> NoJob]
    /\ sweeping = {}
    /\ worker = [w \in Workers |-> Idle]
    /\ late = {}

-----------------------------------------------------------------------------
(* The doors of the Space. *)

\* Mutant: the outer gate as it was, which reads the seat and not the Space.
CheckMembershipSeatOnly(u) == seat[u]

\* A banned Space keeps its members, a disbanded one has none.
CheckMembershipForCleanup(u) == seat[u] /\ space # "disbanded"

Removals(u) == {n \in 1..MaxRemovals : job[<<u, n>>].status # None}
CanRemove(S) == \A u \in S : Cardinality(Removals(u)) < MaxRemovals

\* enqueueMemberRemovalCleanupTx and its batch form, in the transaction that closes seats.
Enqueue(S) ==
    job' = [j \in Jobs |-> IF j[1] \in S /\ j[2] = Cardinality(Removals(j[1])) + 1
                          THEN [NoJob EXCEPT !.status = "pending", !.due = TRUE]
                          ELSE job[j]]

\* closeSeatTx, from every door that removes one member.
CloseSeat(u) ==
    /\ seat[u] /\ CanRemove({u})
    /\ seat' = [seat EXCEPT ![u] = FALSE]
    /\ Enqueue({u})
    /\ UNCHANGED <<space, joining, admitting, setting, rowVars, sweeping, worker>>

\* disbandSpace, forceDisbandSpace: the members are read under the lock that closes them.
Disband ==
    LET members == {u \in Users : seat[u]} IN
    /\ space # "disbanded" /\ CanRemove(members)
    /\ space' = "disbanded"
    /\ seat' = [u \in Users |-> FALSE]
    /\ Enqueue(members)
    /\ UNCHANGED <<joining, admitting, setting, rowVars, sweeping, worker>>

\* joinSpace looks at the Space and the member first ...
BeginJoin(u) ==
    /\ space = "live" /\ ~seat[u] /\ u \notin joining
    /\ joining' = joining \cup {u}
    /\ UNCHANGED <<space, seat, admitting, setting, rowVars, job, sweeping, worker>>

\* ... and opens the seat without looking at the Space again.
CommitJoin(u) ==
    /\ u \in joining
    /\ joining' = joining \ {u}
    /\ seat' = [seat EXCEPT ![u] = TRUE]
    /\ UNCHANGED <<space, admitting, setting, rowVars, job, sweeping, worker>>

\* liftBan (and its ban) refuses a disbanded Space, from a read outside any lock ...
BeginLiftBan(s) ==
    /\ setting = None /\ space # "disbanded" /\ space # s
    /\ setting' = s
    /\ UNCHANGED <<space, seat, joining, admitting, rowVars, job, sweeping, worker>>

\* ... and updateSpaceStatus writes whatever it finds.
UpdateSpaceStatus ==
    /\ setting # None
    /\ space' = setting
    /\ setting' = None
    /\ UNCHANGED <<seat, joining, admitting, rowVars, job, sweeping, worker>>

\* AddGroupMembers and joinPresetGroups: the seat is looked at before the transaction.
BeginAdmit(u, g) ==
    /\ seat[u] /\ space = "live" /\ g \notin groups[u] /\ <<u, g>> \notin admitting
    /\ admitting' = admitting \cup {<<u, g>>}
    /\ UNCHANGED <<space, seat, joining, setting, rowVars, job, sweeping, worker>>

CommitAdmit(u, g) ==
    /\ <<u, g>> \in admitting
    /\ admitting' = admitting \ {<<u, g>>}
    /\ groups' = [groups EXCEPT ![u] = @ \cup {g}]
    /\ late' = IF seat[u] /\ space # "disbanded" THEN late ELSE late \cup {<<u, g>>}
    /\ UNCHANGED <<space, seat, joining, setting, projects, job, sweeping, worker>>

\* A project admits a member under a shared lock on the seat.
AdmitToProject(u, p) ==
    /\ seat[u] /\ space = "live" /\ p \notin projects[u]
    /\ projects' = [projects EXCEPT ![u] = @ \cup {p}]
    /\ UNCHANGED <<doorVars, groups, late, job, sweeping, worker>>

-----------------------------------------------------------------------------
(* The job rows. *)

\* The WHERE clause of claimMemberRemovalCleanup.
Claimable(j) ==
    /\ job[j].status = "pending" /\ job[j].attempts < MaxAttempts
    /\ job[j].due /\ job[j].lease # "live"

\* Mutant: the claimed job keeps the count the SELECT read.
ClaimedAttemptsStale(j) == job[j].attempts

\* The claim counts itself, and its owner string is new: the pair is told by the count.
ClaimedAttempts(j) == job[j].attempts + 1

\* claimMemberRemovalCleanup
Claim(w, j) ==
    /\ worker[w] = Idle /\ Claimable(j)
    /\ job' = [job EXCEPT ![j].attempts = @ + 1, ![j].lease = "live",
                         ![j].owner = ClaimedAttempts(j)]
    /\ worker' = [worker EXCEPT ![w] = [Idle EXCEPT !.pc = "check", !.job = j,
                                                   !.owner = ClaimedAttempts(j)]]
    /\ UNCHANGED <<doorVars, rowVars, sweeping>>

\* The fence of finish and release.
Owned(w) ==
    LET j == worker[w].job IN
    job[j].status = "pending" /\ job[j].owner = worker[w].owner

\* finishMemberRemovalCleanup
FinishRow(w, s) ==
    job' = IF Owned(w)
           THEN [job EXCEPT ![worker[w].job].status = s, ![worker[w].job].lease = None,
                            ![worker[w].job].owner = 0]
           ELSE job

\* releaseMemberRemovalCleanup
ReleaseRow(w) ==
    job' = IF Owned(w)
           THEN [job EXCEPT ![worker[w].job].due = FALSE, ![worker[w].job].lease = None,
                            ![worker[w].job].owner = 0]
           ELSE job

RetriesExhausted(w) == worker[w].owner >= MaxAttempts

\* finishCleanupJob, releaseCleanupJob
EndJob(w) ==
    /\ worker[w].pc = "end"
    /\ IF ~worker[w].failed THEN FinishRow(w, "done")
       ELSE IF RetriesExhausted(w) THEN FinishRow(w, "abandoned")
       ELSE ReleaseRow(w)
    /\ worker' = [worker EXCEPT ![w] = Idle]
    /\ UNCHANGED <<doorVars, rowVars, sweeping>>

\* The write fails, and is only logged.
EndJobFails(w) ==
    /\ worker[w].pc = "end"
    /\ worker' = [worker EXCEPT ![w] = Idle]
    /\ UNCHANGED <<doorVars, rowVars, job, sweeping>>

\* abandonExhaustedMemberRemovalCleanups: a plain SELECT ...
SweepSelect ==
    /\ sweeping = {}
    /\ sweeping' = {j \in Jobs : /\ job[j].status = "pending"
                                /\ job[j].attempts >= MaxAttempts
                                /\ job[j].lease = "dead"}
    /\ sweeping' # {}
    /\ UNCHANGED <<doorVars, rowVars, job, worker>>

Abandon(S) ==
    job' = [j \in Jobs |-> IF j \in S
                          THEN [job[j] EXCEPT !.status = "abandoned", !.lease = None, !.owner = 0]
                          ELSE job[j]]

\* Mutant: the UPDATE names the ids alone.
SweepUpdateBlind ==
    /\ sweeping # {}
    /\ Abandon(sweeping)
    /\ sweeping' = {}
    /\ UNCHANGED <<doorVars, rowVars, worker>>

\* ... and an UPDATE by id of what is still pending.
SweepUpdate ==
    /\ sweeping # {}
    /\ Abandon({j \in sweeping : job[j].status = "pending"})
    /\ sweeping' = {}
    /\ UNCHANGED <<doorVars, rowVars, worker>>

\* The lease runs out, and a lease later the sweep may look at the row.
Age(j) ==
    /\ job[j].lease \in {"live", "expired"}
    /\ job' = [job EXCEPT ![j].lease = IF @ = "live" THEN "expired" ELSE "dead"]
    /\ UNCHANGED <<doorVars, rowVars, sweeping, worker>>

\* memberRemovalRetryDelay passes.
ComeDue(j) ==
    /\ job[j].status = "pending" /\ ~job[j].due
    /\ job' = [job EXCEPT ![j].due = TRUE]
    /\ UNCHANGED <<doorVars, rowVars, sweeping, worker>>
-----------------------------------------------------------------------------
(* One pass of a worker over its job. *)

At(w, pc) == worker[w].pc = pc
Uid(w) == worker[w].job[1]
Set(w, rec) == worker' = [worker EXCEPT ![w] = rec]
Goto(w, pc) == Set(w, [worker[w] EXCEPT !.pc = pc, !.todo = {}])
FailTo(w, pc) == Set(w, [worker[w] EXCEPT !.pc = pc, !.todo = {}, !.failed = TRUE])

\* runMemberRemovalCleanupJob: the outer gate.
CheckSeat(w) ==
    /\ At(w, "check")
    /\ \/ FailTo(w, "end")
       \/ Goto(w, IF CheckMembershipForCleanup(Uid(w)) THEN "end" ELSE "gcheck")
    /\ UNCHANGED <<doorVars, rowVars, job, sweeping>>

\* cleanupSpaceMemberGroups: whatever happens here, the project step runs next.
GroupCheck(w) ==
    /\ At(w, "gcheck")
    /\ \/ FailTo(w, "pcheck")
       \/ Goto(w, IF CheckMembershipForCleanup(Uid(w)) THEN "pcheck" ELSE "glist")
    /\ UNCHANGED <<doorVars, rowVars, job, sweeping>>

\* queryAllGroupsWithMemberUIDAndSpaceID
GroupList(w) ==
    /\ At(w, "glist")
    /\ \/ FailTo(w, "pcheck")
       \/ Set(w, [worker[w] EXCEPT !.todo = groups[Uid(w)],
                                   !.pc = IF groups[Uid(w)] = {} THEN "pcheck" ELSE "gexit"])
    /\ UNCHANGED <<doorVars, rowVars, job, sweeping>>

\* Mutant: the transaction trusts the check made before it.
SeatStillOpenTrusted(u) == FALSE

\* The seat as a step's own transaction reads it, under a lock on its row.
SeatStillOpen(u) == seat[u] /\ space # "disbanded"

\* The next group of the list, or the project step; failed sticks.
AfterGroup(w, g, failed) ==
    LET rest == worker[w].todo \ {g} IN
    Set(w, [worker[w] EXCEPT !.todo = rest, !.failed = @ \/ failed,
                             !.pc = IF rest = {} THEN "pcheck" ELSE "gexit"])

\* exitSpaceMemberFromGroup: one transaction of RemoveGroupMembers.
ExitGroup(w, g) ==
    /\ At(w, "gexit") /\ g \in worker[w].todo
    /\ IF SeatStillOpen(Uid(w))
       THEN UNCHANGED rowVars
       ELSE /\ groups' = [groups EXCEPT ![Uid(w)] = @ \ {g}]
            /\ late' = late \ {<<Uid(w), g>>}
            /\ UNCHANGED projects
    /\ AfterGroup(w, g, FALSE)
    /\ UNCHANGED <<doorVars, job, sweeping>>

ExitGroupFails(w, g) ==
    /\ At(w, "gexit") /\ g \in worker[w].todo
    /\ AfterGroup(w, g, TRUE)
    /\ UNCHANGED <<doorVars, rowVars, job, sweeping>>

\* cleanupSpaceMemberProjects
ProjectCheck(w) ==
    /\ At(w, "pcheck")
    /\ \/ FailTo(w, "end")
       \/ Goto(w, IF CheckMembershipForCleanup(Uid(w)) THEN "end" ELSE "plist")
    /\ UNCHANGED <<doorVars, rowVars, job, sweeping>>

\* queryActiveProjectIDsForSpaceMember: the next page of open seats.
ProjectList(w) ==
    LET open == projects[Uid(w)]
        size == IF Cardinality(open) < PageSize THEN Cardinality(open) ELSE PageSize
    IN
    /\ At(w, "plist")
    /\ \/ FailTo(w, "end")
       \/ open = {} /\ Goto(w, "end")
       \/ /\ open # {}
          /\ \E page \in kSubset(size, open) :
                Set(w, [worker[w] EXCEPT !.pc = "pexit", !.todo = page,
                                         !.full = (size = PageSize), !.progressed = FALSE])
    /\ UNCHANGED <<doorVars, rowVars, job, sweeping>>

\* Another page, or the question whether anything is left.
NextPage(page) == IF page + 1 < MaxPages THEN "plist" ELSE "confirm"

\* The next project of the page; a short page or one without progress is the last.
AfterProject(w, p, changed, failed) ==
    LET r == worker[w]
        rest == r.todo \ {p}
        progressed == r.progressed \/ changed
        more == r.full /\ progressed
    IN Set(w, [r EXCEPT !.todo = rest, !.failed = @ \/ failed, !.progressed = progressed,
                        !.page = IF rest = {} THEN @ + 1 ELSE @,
                        !.pc = IF rest # {} THEN "pexit"
                               ELSE IF more THEN NextPage(r.page) ELSE "end"])

\* deactivateSeatForCascadeResult
CloseProjectSeat(w, p) ==
    /\ At(w, "pexit") /\ p \in worker[w].todo
    /\ IF SeatStillOpen(Uid(w))
       THEN UNCHANGED projects /\ AfterProject(w, p, FALSE, FALSE)
       ELSE /\ projects' = [projects EXCEPT ![Uid(w)] = @ \ {p}]
            /\ AfterProject(w, p, p \in projects[Uid(w)], FALSE)
    /\ UNCHANGED <<doorVars, groups, late, job, sweeping>>

CloseProjectSeatFails(w, p) ==
    /\ At(w, "pexit") /\ p \in worker[w].todo
    /\ AfterProject(w, p, FALSE, TRUE)
    /\ UNCHANGED <<doorVars, rowVars, job, sweeping>>

\* The page budget is spent: an error (errCascadeIncomplete) keeps the job alive.
Confirm(w) ==
    /\ At(w, "confirm")
    /\ \/ FailTo(w, "end")
       \/ projects[Uid(w)] = {} /\ Goto(w, "end")
    /\ UNCHANGED <<doorVars, rowVars, job, sweeping>>

\* The process is killed; what it committed stays.
Crash(w) ==
    /\ ~At(w, "idle")
    /\ worker' = [worker EXCEPT ![w] = Idle]
    /\ UNCHANGED <<doorVars, rowVars, job, sweeping>>

-----------------------------------------------------------------------------
WorkerStep(w) ==
    \/ CheckSeat(w) \/ GroupCheck(w) \/ GroupList(w) \/ ProjectCheck(w) \/ ProjectList(w)
    \/ \E g \in Groups : ExitGroup(w, g) \/ ExitGroupFails(w, g)
    \/ \E p \in Projects : CloseProjectSeat(w, p) \/ CloseProjectSeatFails(w, p)
    \/ Confirm(w) \/ EndJob(w) \/ EndJobFails(w)

ClaimAny == \E w \in Workers, j \in Jobs : Claim(w, j)
Sweep == SweepSelect \/ SweepUpdate

Doors ==
    \/ \E u \in Users : CloseSeat(u) \/ BeginJoin(u) \/ CommitJoin(u)
    \/ Disband \/ UpdateSpaceStatus
    \/ \E s \in {"live", "banned"} : BeginLiftBan(s)
    \/ \E u \in Users, g \in Groups : BeginAdmit(u, g) \/ CommitAdmit(u, g)
    \/ \E u \in Users, p \in Projects : AdmitToProject(u, p)

Next ==
    \/ Doors \/ ClaimAny \/ Sweep
    \/ \E w \in Workers : WorkerStep(w) \/ Crash(w)
    \/ \E j \in Jobs : Age(j) \/ ComeDue(j)

Spec == Init /\ [][Next]_vars

\* Time passes, every process has a ticker that claims and sweeps, and a job that is
\* running goes on unless its process dies, which may happen at any time and for ever.
FairSpec ==
    /\ Spec
    /\ WF_vars(ClaimAny) /\ WF_vars(Sweep)
    /\ \A w \in Workers : WF_vars(WorkerStep(w))
    /\ \A j \in Jobs : WF_vars(Age(j)) /\ WF_vars(ComeDue(j))

-----------------------------------------------------------------------------
Member(u) == seat[u] /\ space # "disbanded"
Leftovers(u) == {g \in groups[u] : <<u, g>> \notin late} \cup projects[u]

\* Whoever holds no seat and still sits in a group or a project of the Space has a job
\* that is pending or was given up in the open: no interleaving of rejoining, disbanding,
\* failing steps and page budgets lets a job end as done with its work undone.  Not so
\* for a group row that was admitted after the seat closed (late): nobody looks for it.
CleanupCovered ==
    \A u \in Users : ~Member(u) /\ Leftovers(u) # {} =>
        \E n \in 1..MaxRemovals : job[<<u, n>>].status \in {"pending", "abandoned"}

\* A step of the pipeline, however stale its job, its check or its list is, never takes a
\* group or a project from someone who holds a seat at that moment.
SparesMembers ==
    [][\A u \in Users : Member(u) =>
          groups[u] \subseteq groups'[u] /\ projects[u] \subseteq projects'[u]]_vars

\* finishMemberRemovalCleanup promises operators that an abandoned row has used exactly
\* its whole budget of attempts, however it was given up.
AbandonedMeansExhausted ==
    \A j \in Jobs : job[j].status = "abandoned" => job[j].attempts = MaxAttempts

\* What has been written about a job stands: the sweep does not call a job failed that a
\* slow worker finished between its SELECT and its UPDATE, and no late worker revives one.
VerdictsStand ==
    [][\A j \in Jobs : job[j].status \in {"done", "abandoned"} => job'[j].status = job[j].status]_vars

\* A job never stays pending for ever, not even when every attempt kills its process:
\* claims are counted when they are made, and the sweep ends what can no more be claimed.
JobsSettle ==
    \A j \in Jobs : []<>(job[j].status # "pending")

\* A removal is never half done in silence: its job covers what is left of it, and a job
\* that was given up was given every attempt.
CleanupSound == TypeOK /\ CleanupCovered /\ AbandonedMeansExhausted
=============================================================================
