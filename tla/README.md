# A TLA+ verification of octo-server

octo-server is the server of an instant-messaging product: several identical
replicas of one Go process over MySQL, Redis and an external message router. Most of
its code is request handlers that validate, authorize and read or write a few rows.
What is hard to get right, and hard to test, is what several replicas, requests and
workers do *together*: durable queues with leases, a version allocator with an online
cutover, outboxes that talk to another service, two-phase removals, sessions that are
issued and revoked call by call. This project models those parts, checks them with TLC
on small instances, and proves the safety of most of them with TLAPS.

| Component | Specification | Abstract | Proofs | TLC run |
|---|---|---|---|---|
| card action callbacks | `CardActionQueue`, `CardActionDispatch` | `DurableEvents` | `CardActionDispatchProofs` | `card` |
| `message_extra` versions, cutover, sync cursor | `MsgExtraSeq` | | `MsgExtraSeqProofs` | `msgextra` |
| project lifecycle outbox | `ProjectLifecycle` | `OrderedFeed` | `ProjectProofs` | `lifecycle` |
| Space member removal cleanup | `MemberRemoval` | | `MemberRemovalProofs` | `removal` |
| Space membership | `SpaceMembership` | | `SeatProofs` | `space` |
| project seats and their removal | `ProjectRemoval` | | `SeatProofs` | `project_removal` |
| bot event ids and mode | `BotEventSeq` | | `BotEventProofs` | `botseq` |
| bot event long poll | `BotEventPoll` | | `BotEventProofs` | `poll` |
| sessions and their revocation | `SessionStore` | | `SessionProofs` | `session` |
| session rollout | `SessionRollout` | | `SessionProofs` | `rollout` |
| welcome messages | `WelcomeDelivery` | | `WelcomeDeliveryProofs` | `welcome` |
| project provisioning and activation | `ProjectProvisioning` | | `ProjectProofs` | `provision` |

Each specification has an `MC*` module and one `.cfg`. `PROJECT.json` lists the runs, a
mutant for every property, the source lines of every definition, the hazards with the
properties that would catch them, and the theorems.

## 1. Inventory

**Card action callbacks** (`internal/cardactiondispatch`). A user acts on a card;
`Service.Enqueue` puts the event on a Redis queue (ready and leased ZSETs, payload,
attempts and token hashes, a dead-letter ZSET, a `route_missing_since` hash). Workers
of every replica claim an event under a random lease token, look its route up in the
registry *their* process was started with, call the consumer, finalize the answer (a
database write beside a lease heartbeat) and Ack, Nack or Defer. A ticker reclaims
leases that ran out. Hard: workers that outlive their leases, replicas with different
registries during a deploy, crashes between callback, finalization and Ack, lost
replies, refunded attempts. Correct: no event is lost or acknowledged before it was
finalized, stale workers are fenced off, the retry budget is kept, every event ends.

**`message_extra` versions** (`internal/msgextraseq`, `pkg/cutover`, the writers).
Edits, deletions, read receipts and card frames get a per-channel version; clients
page through changes with an exclusive cursor. In *legacy* mode versions come from
octo-lib's block allocator (process-local, no lock across replicas); in
*transactional* mode from a row that the writer's transaction locks until it commits.
Each transaction reads the mode from a state row `FOR SHARE`; the activation takes it
`FOR UPDATE` and so waits for every writer, then installs a floor. Hard: lock order,
stale snapshots, a lost state row, rollback by runbook, cursors stored some time after
they were computed. Correct: commit order is version order, nothing a client has not
seen is below its cursor, no deadlock, no hang.

**Project lifecycle outbox** (`modules/project/lifecycle_event*.go`). Business
transactions insert event rows; on every pod a worker leases at most one row per
project, sends it, records the outcome and goes on with the project's next row; a
heartbeat renews what the tick holds, a sweep abandons rows whose budget is spent, a
purge deletes old ones. Correct: per-project order, one live sender per project, a
bounded number of requests, no project blocked for ever.

**Space member removal** (`modules/space/member_removal.go`, `db_member_removal.go`,
the group and project cascades). Closing a seat writes a job in the same transaction;
workers claim it under a lease *without* heartbeat, check the seat again, take the
member out of groups and projects page by page, and finish or release the job.
Meanwhile members rejoin, Spaces are banned and disbanded, late admissions commit.
Correct: nobody is left in a group or project without a job on record, nobody who holds
a seat is thrown out, a job's verdict stands.

**Space membership** (`modules/space/api.go`, `db.go`, `db_manager.go`,
`initial_space.go`). Joining by code, application and approval, admin and system doors,
leaving, roles, handing over. Requests read first and write later. Correct: one owner,
every seat paid for by a use of its code, no more seats than `max_users` at the doors
that count under a lock, no approval without a seat.

**Project seats** (`modules/project/service.go`, `db_removal.go`, `removal_worker.go`,
the Space cascade). Removal marks a seat and writes a job; a worker closes the seat
later, while the member is re-admitted, removed again, promoted, or leaves the Space.
Correct: every closing seat has its own removal's job, an old job closes no later
removal's seat, the project keeps its Owner and its quota, the epoch tells of every
change of standing.

**Bot event ids** (`pkg/botevent`, `cutover_botevent.go`). A Redis counter per bot, a
MySQL authority row, a Redis mirror of the mode, a durable high-water mark, process
caches. Hard: Redis restored from a snapshot, a lost or forged mode key, mark writes
that fail, producers on both sides of the flip. Correct: ids never go back below one
that was published, and GenSeq is never used again once the counter has been.

**Bot event long poll** (`modules/bot_api/events*.go`, `pkg/botevent/notify.go`,
`bell.go`). A queue ZSET with an exclusive cursor, a bell list as a hint, a hold
budget. Hard: coalesced, dropped and stolen bells, a token taken by another request,
filtered and undecodable events. Correct: no lost wake-up, no event behind a cursor,
every request ends, every visible event is delivered.

**Sessions** (`pkg/auth`, `modules/user/session_revocation.go`, `api.go`). A login is
half a dozen Redis calls (fence, credentials, token, index, device key, second fence),
each of which may fail and be compensated; a password change commits a revocation
intent in MySQL that the request or a worker applies to Redis. Correct: no session
opened with an old password survives an applied change, deleted tokens stay deleted,
adopted tokens are not taken back, `max_per_uid` holds, every change is applied.

**Session rollout** (`pkg/auth/session_rollout_*.go`, `writer_registry.go`). MySQL
keeps the floor, replicas poll it and register write leases in Redis, reconcilers and
the operator move the floor when the registry and a token scan allow. Correct: no
advance outruns a writer or rejects a stored token, and the rollout completes.

**Welcome messages** (`modules/notify`). Two engines (Space, group) with a ledger row
per member, leases, a pre-send mark, one HTTP call and a recorded outcome. Correct:
nobody is welcomed twice, the ledger tells the truth, a fate is kept, and in time given.

**Project provisioning** (`modules/project/provisioning*.go`, `activation.go`). An outbox
row per target; workers create containers, the fleet's answer sets `activated_at`; a
sweep, a requeue and two repairs run beside them. Correct: no container of a disbanded
project is forgotten, no project is shown without its container, calls are bounded.

**Not modelled.** The event table (`modules/base/event`: the commit path and the timers
of all replicas handle one row), the project reconcile scans (read-only), keyed lock and
wait list (`pkg/keylock`, `pkg/wait`), OIDC identity linking, and the REST handlers,
search, files, push, statistics, card templates and linters, which are I/O or formatting
without a protocol of their own. `components` in `PROJECT.json` gives the reason part by
part.

## 2. How the models are built

One action is one Lua script, SQL transaction or statement, or call to another service,
with everything the code does up to the next one; so any other actor may act in between.
A worker's `pc` names the call it makes next, its record holds the locals that later
calls use. *Time* is only what the code can tell apart: due or not, lease live or past,
inside or outside a retention. A lease may end under its holder at any moment, unless a
specification says otherwise below; clock skew is thereby covered as "it ended early".
Crashes, failed calls and lost replies are actions that share one budget per model
(`MaxFaults`, `MaxDisturb`). Sets of small situations that a run considers side by side are
variables that are chosen once and never change (`world`, `place`, `projectOf`, `doors`,
`procOf`, `engine`); a theorem about such a specification holds for every choice.

- **Cards.** `CardActionQueue` has one operator per Redis script, `CardActionDispatch` one
  action per call of `ProcessOne`. The dead letter's ZSET member, payload and metadata move
  together and are one variable. A claim picks any due event; live keys expire only while
  every replica is down, since a running ticker renews them.
- **`MsgExtraSeq`.** A transaction's `pc`, mode, rows and versions determine its locks; its
  writes are its own until `Commit`. `GenSeq` is octo-lib and external: modelled from how
  this repository describes and uses it. Left out: the epoch (only observed), gap locks,
  chunked reservations, pinned messages. The state row is lost only while every process runs
  with the transactional expectation; without that guard a loss sends writers back to the
  legacy allocator, as the guard's own comment says.
- **`ProjectLifecycle`.** The columns of a row, and per pod one tick (`lifecycleEventRunning`).
  `late` holds requests whose sender gave up: they arrive at any later time or never.
- **`MemberRemoval`.** One Space. A worker's page of projects is one step; a seat may close and
  reopen in between. `late` names group rows admitted after the seat closed.
- **`SpaceMembership`.** What a transaction re-reads under its locks is one step; reads before
  it are earlier steps. An expired and a disabled code look alike to every reader.
- **`ProjectRemoval`.** Requests hold the project's row and are one step. The epoch counts modulo
  two. `MaxRemovals` bounds the removals of one member (their jobs are numbered, so that cycles can
  be told apart), `MaxJobs` those of all. It shares the users of `SpaceMembership` (`Accounts`), and
  its names are kept apart from that module's, so that one module can prove about both.
- **`BotEventSeq`.** Assumptions: the flip comes with writes drained and the mirror published
  before the pause ends; the pause outlasts the repair cooldown; the floor clears every
  cursor; evidence is removed only once all replicas are armed; the counter is lost or rolled
  back only while no id whose write of the mark failed is above the mark (`Shielded`; `lost` is
  the history of those writes), and not between a seed's floor and the SETNX or an INCR and its
  mark; an RDB rollback comes with a lost mirror and with no allocation in flight. Left out: the
  `prior != seen` shortcut, malformed values, several bots, the queue's contents.
- **`BotEventPoll`.** `InOrder` states that ids reach the queue in order
  (`TestKnownResidualZaddReorderingCanStillSkip` documents that they need not). Only holds
  with `wait > 0`. `worker` says what each goroutine of a replica's doorbell has in hand: a bot
  that is still marked, or a ring in flight. `BellCovers` speaks of requests whose hints are not lost
  (`Undisturbed`): rings arrive, every event decodes, no other request takes the bot's token, and the
  doorbell has room for the bots that the replica's producers write to (`HintsFit`; 1024 places in the
  source, one place and one bot in the run).
- **`SessionStore`.** One user, mode *revoke*. Not modelled: lifetimes, the other login forms,
  token revisions, backoff. The event id is its version. `MaxGens` bounds the generations and is
  never reached in the run (at most four are made). `unlisted` is history: index entries that a promotion's cleanup
  removed, see section 5.
- **`SessionRollout`.** Floors 0 to 4. Assumptions: a replica polls in time unless frozen; its
  registry entry expires only after polls unless frozen; a deployment of `Expect` writers
  moves on within a lease time. Left out: the scan lease, Redis restarts, takeover,
  `ForceAdvanceRollout`, the migration's own steps. A situation (`Deployments`) is fixed in a
  behaviour; the names are kept apart from those of `SessionStore`, so that one module can prove about both.
- **`WelcomeDelivery`.** Time is scaled for the Space engine, whose calls keep to their timeouts;
  the group engine is untimed and nothing live is claimed of it. Several Spaces, rotation
  caps and the robot filters are folded into eligibility.
- **`ProjectProvisioning`.** A claim's identity is the row's claim number; a lease is null, live,
  lapsed or in its grace time; a purge waits until no job of the row runs. The pods' settings
  are a world, fixed in a behaviour; of a world it is assumed that its budgets
  are positive and have a greatest one. Names are kept apart from those of `ProjectLifecycle`, the
  other outbox of the same pods and projects (`ProjectPods`), so that one module can prove about both.

## 3. Runs

Every run checks one type invariant and the properties below. Merged properties name
their parts.

| Run | Checks | Instance |
|---|---|---|
| `card` | `QueueSound` (types, `LiveKeysAgree`, `OneOwner`), `BudgetKept` (`AttemptsAccounted`, `DeliveriesBounded`), `KeepsPromise`, `EventuallySettled` | 2 events, 2 workers of one replica whose registry has the route or not, 2 attempts; 2 disturbances for one event, 1 for two |
| `msgextra` | `LocksSound` (types, `NoTransactionalDeadlock`), `VersionsFresh` (`FreshCommits`, `FloorCoversIssued`), `NothingSkipped`, `CallsEnd` (`WritesEnd`, `FlipAnswered`) | a card and a batch writer in one process or two, one channel, 2 messages, one sync, versions up to 4 |
| `lifecycle` | `OutboxSound` (types, `OneSenderPerProject`, `SendsCharged`), `KeepsOrder`, `EventsSettle` | 2 events of one project or two, 2 pods, 2 attempts, 2 disturbances |
| `removal` | `CleanupSound` (types, `CleanupCovered`, `AbandonedMeansExhausted`), `SparesMembers`, `VerdictsStand`, `JobsSettle` | a member, a group, a project, 2 workers, 2 attempts, one removal |
| `space` | `SeatsSound` (types, `OneOwner`, `SeatsPaidFor`, `WithinCapacity`), `ApprovalsHold` (`ApprovedWithSeat`, `ApprovalStands`) | 3 users, 3 requests, one code of 2 uses, 2 seats, three sets of doors |
| `project_removal` | `RemovalSound` (types, `RemovalCovered`, `OwnerKept`, `WithinQuota`), `SeatStepsSound` (`OwnCycleOnly`, `EpochTells`), `RemovalsFinish` | a founder, a member, its agent; one worker, 2 attempts, 2 removals, 1 fault |
| `botseq` | `CounterSound` (types, `MirrorCannotActivate`), `IdsIncrease`, `OneSource`, `AllocationsEnd` | 2 goroutines of one replica or two, 2 epochs, 2 allocations, 3 faults, and endless loss of the mode key |
| `poll` | `HoldsSound` (types, `BellCovers`, `HoldsAccounted`), `NothingSkipped`, `PollsServed` (`PollsEnd`, `Delivered`) | `Moving`: one bot, 2 replicas, all hints may fail; `Crowded`: 2 bots and one hold |
| `session` | `SessionsSound` (types, `AppliedRevokes`, `NewestDenies`, `DeadStaysDead`, `SessionsCapped`), `AdoptedIsKept`, `RevocationsApplied` | five worlds of 3 logins, a logout, 2 changes and a worker |
| `rollout` | `RolloutSound` (types, `OnePhaseBehind`, `RejectsNothing`, `FirstFloorExcludesOld`), `CapKept`, `RolloutCompletes` | `Rolling`: 2 replicas, a canary; `Replaced`: one at a time; `Operated`: 2 deciders, the operator, a stalling replica |
| `welcome` | `LedgerSound` (types, `AtMostOnce`, `LedgerTruthful`), `LeaseOutlivesCall`, `TerminalStays`, `Settled` | 2 workers; group engine with 2 members, Space engine with one |
| `provision` | `ContainersSound` (types, `Reclaimable`, `ShownWithContainer`, `CallsBounded`), `SweepSparesRunning`, `Settles` | 2 pods that disagree on targets or on the budget, one project, three worlds |

*Why these bounds.* Every race here is between two actors about one row, event, token or
seat; a second event is needed for order and bulk scripts, a third login for a cap that
two others race for. Two attempts are the least with a retry and a last attempt. The
fault budgets are what the races take; a mutant of the code for every property shows that
the instance reaches what the property is about. `HiLoStep` is 1 so that blocks run out all
the time, and `MaxSafe` leaves room for overflow to happen.

*Symmetry* is used in `space` only, which has no liveness. *Deadlock* is checked in
`msgextra` and `welcome`; elsewhere the work is finite and the system may rest.

*Fairness.* What has work goes on: workers, tickers and heartbeats of running processes,
because every call has a timeout and every loop a ticker; leases, backoffs and windows
pass; a stopped replica is started again by its supervisor. `message_extra` takes strong
fairness for statements (InnoDB queues lock requests) and the deadlock detector. The poll
run lets handlers and producers go on and the client poll again; rings, blocks and
auto-acks may fail for ever. Rollout assumes that outages heal and the operator unpauses.
There is no fairness for producers, faults, late arrivals, purges or manual steps.

## 4. Proofs

TLAPS checks every theorem for all values of the constants under the named assumptions of
the specifications (types of the constants, finiteness where something is counted, and that
"none" is nobody's name). Each invariant below was first checked by TLC on the run's
instance or on one nearby. The structure is the same everywhere: the property is not
inductive, so an invariant `IInv` says in addition what each actor that is half way
through its steps knows, has done, or holds; one lemma per kind of step shows that it is
kept.

**Card actions.** `TypeCorrect`, `KeysAgree` and `Fencing` give `QueueIsSound`. One worker
per event (`OneOwner`) needs that no two workers *remember* one token, for the queue may
hold another one now and the next claim might issue the shared one again (`OwnerInv`).
`KeepsThePromise` is the refinement of `DurableEvents`: its invariant `Books` ties the history
to the queue. `WaitingIsFree` accounts for every attempt;
`BudgetIsKept` adds the bound on callbacks and reads
`Spec /\ []SameTables => []BudgetKept`: running replicas were started with one
route table. It is false without (section 5).

**`message_extra`.** `IInv` says of each writer what it has read and holds (`WriterSound`: its
reservations rise, were issued, and are above what is committed), that the fleet's intent
and the row agree, that `since` is covered by the sequence rows, and, where one process does
the writing, that its block and the highest version bound each other. `LocksAreSound` argues on
any set of deadlocked writers: all have passed the state row and so are in one mode, and a
transactional one that waits for a message row holds the sequence row that the
row's holder would hold too. `VersionsAreFresh` and `NoneIsSkipped` state the several-process
case without, and the floor with, the premise of one process (`OneProcess`), as the
properties do, see section 5.

**Lifecycle outbox.** `FeedRefined` is the refinement of `OrderedFeed`: what a tick is about to
send has no older pending row (`Order`). `OneSender`, `RequestsCharged` (with the number of
requests under way in `Charged`) and `TypeCorrect` give `OutboxIsSound`.

**Provisioning.** The second half of `ProjectProofs`. A row in use belongs to a live project and a reclaimable one to a disbanded (`RowsFit`), and a running job's
row is still there (`JobsFit`), so a container that appears after the disband finds its row reclaimable:
`ContainersReclaimable`. `ShownHasContainer` needs that whoever is about to set the latch, worker or
repair, knows of the container or of there being no fleet row (`ShownFit`), and that no row comes to
an existing project. `CallsAreBounded` counts a spent budget before each requeue (`CallsFit`).
`SweepSpares`: where jobs keep to their leases, whoever works on a row it holds has a live
lease (`LeaseFit`); its owner is never 0, so a row that is put back is held by nobody.

**Member removal.** `JobsCounted` (types, gapless jobs, an owner is the count of its claim),
`AbandonedUsedUp`, `VerdictsAreFinal` and `MembersAreSpared` need no premise. `CleanupIsSound`
assumes `OnePage`: the Space has no more projects than one page of the cascade
(section 5). It rests on `Thorough`, which says
what a worker at each step has already emptied and for which seat.

**Membership.** `SeatsAreSound` and `ApprovalsAreHeld`: uses of a code are at least the seats it
opened plus the requests that have paid and not yet written (counted as sets, hence
`Users` and `Reqs` finite).

**Project seats.** The second half of `SeatProofs`. A user's removals are numbered without a gap,
only the last job can be pending, and only while the seat is not in effect (`UserFits`); so a
worker whose job is still pending works for the user's last removal (`SeatStepsAreSound`, with
`Told` for the epoch) and never on the seat of an Owner, who is in effect: there is one Owner before
and after each step (`OwnerSits`). A job may leave the queue as settled only when its seat is
not closing: a worker about to report so, and still its job's owner, has seen to that, and no
request begins a removal while a job is pending (`WorkFits`). `RemovalIsSound` follows. The quota is
counted over the seats in effect; admissions add those that were not (`AdmitStep`).

**Sessions.** `SessionInvariant` has a part for each token, each login or logout, each executor
of a revocation, and the index. `Cutting` are the changes that have taken effect on Redis or are recorded:
whatever is of the current generation, in the token store *or in the hands of a login that has
yet to write it* (its fence and credentials, or a payload it has read), was opened with
a password no older than each of them. That covers every order of the calls of a login and
a revocation, and gives `AppliedRevokes`. For the cap, whoever has written its token is in the index, or was
taken out by another promotion's cleanup (`unlisted`), or is deleted. For
`AdoptedIsKept` (`AdoptionsAreKept`): a login that deletes its own token has read it with its own mark, and
a token that was returned by somebody else has lost the mark. Steps of a login are first
reduced to what they do to shared state (`Moves`) and to the login's own record
(`Turn`); those of an executor to `Runs`.

**Session rollout.** The second half of `SessionProofs`. `CapIsKept` holds of every rollout: the
control row's version counts the advances and the operator's changes (`VersionFits`), so a
decision whose version is still the row's has the row's floor and cap (`Loaded`). `RolloutIsSound` reads
`RolloutSpec /\ OnePhaseRun => []RolloutSound`: no process stalls as a whole, or the rollout has one
phase; it is false without (section 5). Its invariant has three facts about a decision that
may still count: a replica that advertises nothing runs at the floor, for an entry only expires
after polls (`Clears`, which is where stalls hurt); the set of writers it has read runs at the floor
(`LiveFits`); and what the next phase rejects is absent (`ScanFits`): tokens of the old form come
only from replicas at *expand* or from the old build, and both are excluded before, the
latter because the expected number of writers could not have stood still for a
lease time while it ran (`WindowFits`). The steps of a replica are first reduced to what a decider can
tell of them (`Follows`).

**Welcome messages.** `IInv` relates the ledger to what was asked of the IM: rows before the
pre-send mark were never asked for, a row is won by one worker, and a row whose call
may have gone out is never sent again. `LedgerIsSound` and `FateKept` follow.
`CallsEndInTime` proves `LeaseOutlivesCall` for the timed Space engine: what is left of a won
row's lease and what the present call has used add up to the lease, less the one call's time
that may pass between the mark and the send (`InTime`). It needs the lease to be longer than
the IM call *and* one database call (`WelcomeAssumption`; 30 s against 15 s and 3 s in the
source, whose comment at `space_welcome_model.go:58` compares the IM call alone).

**Long poll.** Pages are argued from two facts about `Members`, the first `Limit` members above a
cursor: it has no gap (`PagePrefix`), and if it is short it has them all (`ShortPage`).
`HoldsAreSound`: the books of the holds (`BooksInv`) need that a bot has one hold on a replica
(`OneMark`), for the end of a hold takes the bot's mark away. A parked request's bell
(`BellInv`) needs that a mark which coalesces a hint stands for a hint that is still to be rung
(`MarkQueued`), that the doorbell holds no bot that its producers do not write to (`QueueFits`, so that
`HintsFit` leaves room), and that a page passed without a reread had nothing to see above it; a
request is covered from its first read on, not only while it is parked. `NothingPassed` reads
`InOrder => (Spec => []NothingSkipped)`: every cursor that a client or a request carries is behind
each id still to be published and past no unseen event (`Safe`). It is false without `InOrder`, the residual
that the source documents.

**Ids.** The second half of `BotEventProofs`. The source needs `CutoverFits`: from the flip on
there is always something that tells a replica of the counter era: the counter, the armed guard, or a
mirror that claims it with an authority that no replica remembers denying it. Hence a
worker that is about to draw from GenSeq, or whose probe could still lead there, is from before
(`WorkFits`), which gives `SourceIsOne`, and `CounterIsSound`. `IdsRise` rests on three more parts. `MarkFits`:
every published id is below each floor in use, or less than a block above the mark or above the highest id
whose write of it failed (`NearMark`); a failed write moves the throttle on, so the second case is
real. `GapFits`: while the counter is missing or behind, no failed write is ahead, nobody is between INCR and
mark, and every seed about to be written covers all ids, because `Margin` is two blocks and the mark
trails by less than one. `GateFits`: until that seed no gate opens, for the mirror is gone and no replica that
skips the seed knows the mirror's epoch. An earlier history variable, cleared by the next successful write, was
not inductive: a write of a lower id may succeed after a higher one failed. The steps of a worker are first
reduced to their effects on each part (`ModeStep`, `MarkStep`, `GapStep`).

*Only model-checked.* All liveness (fairness and ENABLED are out of the prover's reach); every safety
property and action property that a run checks is stated by a theorem.

## 5. Where text and code disagree

Each of these is a behaviour the models show when the premise or exclusion named here is
dropped; the properties state what the code does keep.

- *A refunded delivery attempt* (`cardactiondispatch/queue.go:232`). Comments say that a
  delivery lease is never refunded, so that `MaxAttempts` bounds the callbacks. The marker
  that decides is written without a token: a worker of a replica without the route claims,
  stalls, is reclaimed; a replica with the route clears the marker and calls back; the
  stalled one plants it; the second replica crashes; the reclaim refunds its attempt. The
  source tracks a related corner as #680. Premise: one route table (`SameTables`).
- *The floor is below a committed version* (`msgextraseq/activation.go:269`). `min_seq` is
  called the upper bound of what the legacy allocator handed out, but each process writes it
  back from its own state: one that read it before another extended it moves it backwards, and
  its lower version overwrites the row that held the highest. Premise: one process.
- *A job is done and seats are left* (`project/space_member_removal.go:213`). A
  worker that has overrun its lease closes a full page under another one, which then finds
  no progress and ends. Premise: one page (`OnePage`).
- *A disbanded Space comes back* (`space/db_manager.go:287`): ban and unban set the status without
  looking at it.
- *Uses and seats* (`space/db.go:918`): a returning member's second concurrent join wastes a use of
  the code. `addMembers` counts outside the transaction (`space/api.go:859`), so
  `WithinCapacity` speaks of the other doors.
- *The epoch moves twice* for one removal by the Space's cascade (`project/space_member_removal.go:424` and
  `removal_worker.go:343`).
- *A counter lost between INCR and its mark* (`botevent/seq.go:999`, `1011`) lets an id repeat.
- *A promotion's cleanup removes the winner's index entry* (`session_v3.go:558`–`576` against the
  comment at 549): it reads the token as not yet v3, another promotion wins, and the removal then hits the winner's
  entry; the next login is admitted over `max_per_uid`. `SessionsCapped` leaves out such entries
  (`unlisted`); without that the run's world `Squeezed` violates it.
- *A v2 token after the floor* (`session_store.go:270`): a process that stalls in a write and resumes after
  the advance still writes the old form. Freezes are therefore only in the one-advance situation
  of `rollout`, and `RolloutIsSound` has the premise `OnePhaseRun`.
- *A resumed replica is two phases behind* (`writer_registry.go:252`). The
  heartbeat of a process that resumes after a stall takes the lease again, with the state it last
  published, before it has read the floor. Until its next poll it may issue sessions, two phases
  behind, which `session_rollout_predicate.go:111` means to exclude. TLC finds it
  within seconds with `Deployments <- StalledAlone`, `RolloutSpec` and the invariant `OnePhaseBehind`.
- *A group batch's lease lapses before its send* (`notify/group_welcome.go:568` against the budget at
  `space_welcome_model.go:58`); the pre-send mark keeps it from being sent twice.
- *A failed `finishProvisioning` is ignored* before `confirmProjectActive`
  (`provisioning_worker.go:459`, `464`, `493`): the project can be shown to the peer while its job
  still reads as unfinished, which the comment there means to exclude.

## 6. What is left

Models: the event table (`base/event/db.go:34`: `version_lock` is compared and never advanced),
OIDC identity linking and redemption codes, a group admission that commits after the cleanup
(`space/api.go:1438`), gap locks of two first frames (`carddispatch/mutation.go:578`), clock skew between
hosts (`cardactiondispatch/dispatcher.go:322`).
