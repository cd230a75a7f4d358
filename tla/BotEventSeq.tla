---------------------------- MODULE BotEventSeq ----------------------------
(***************************************************************************)
(* The allocator of bot event ids (pkg/botevent): one bot's Redis counter, *)
(* the Redis mirror of the mode, the MySQL authority row, the durable      *)
(* high-water mark, and the replicas that allocate.  Ids are the scores of *)
(* the bot's queue, which its consumer reads above an exclusive cursor: an *)
(* id at or below one already published is an event nobody will see.       *)
(*                                                                         *)
(* Each Redis script, each MySQL statement and each decision on process    *)
(* memory is a step of its own.  A worker is one goroutine that allocates  *)
(* and then publishes; workers of one process share its caches.            *)
(***************************************************************************)
EXTENDS Integers, FiniteSets, FiniteSetsExt

CONSTANTS
    Procs,          \* replicas
    Workers,        \* goroutines that produce events for the bot
    Placements,     \* the assignments of workers to replicas
    GenSeqStep,     \* legacyGenSeqStep: block, tolerance and throttle interval
    MaxAttempts,    \* maxAllocAttempts
    MaxEpoch,       \* bound: activations
    MaxAllocs,      \* bound: allocations started
    MaxMishaps,     \* bound: losses, restarts and failed reads
    Endless         \* mirror losses are not counted against MaxMishaps

ASSUME SeqAssumption ==
    /\ Placements \subseteq [Workers -> Procs]
    /\ GenSeqStep \in Nat \ {0} /\ MaxAttempts \in Nat \ {0}
    /\ MaxEpoch \in Nat \ {0} /\ MaxAllocs \in Nat /\ MaxMishaps \in Nat
    /\ Endless \in BOOLEAN

VARIABLES
    authority,      \* octo_bot_event_seq_state: mode, epoch, cutover_floor
    minSeq,         \* the bot's GenSeq row
    mark,           \* the bot's high-water row
    mirror,         \* ModeKey: an epoch, Bare or Absent
    counter,        \* SeqKey(bot), or None
    queueMax,       \* highest score in the bot's queue, 0 when it is empty
    op,             \* where the operator's activation is
    belief,         \* activeBelief of each process
    seeded,         \* whether a process has seeded this bot
    lastIssued,     \* highest counter id a process has handed out, or None
    lastPersisted,  \* the throttle's marker, or None
    block,          \* GenSeq's cached block of each process
    expected,       \* OCTO_BOTEVENT_EXPECTED_MODE of each process
    wk,             \* each worker's allocation in progress
    allocs, mishaps, \* how much of the bounds is used
    top,            \* history: the highest id published
    era,            \* history: a counter id has been issued
    lost,           \* history: the highest id whose write of the mark failed, or 0
    procOf          \* the replica each worker runs in

durable == <<authority, minSeq, mark>>
redis   == <<mirror, counter, queueMax>>
memory  == <<belief, seeded, lastIssued, lastPersisted, block, expected>>
bounds  == <<allocs, mishaps>>
others  == <<top, era, lost, procOf>>
seqVars == <<durable, redis, op, memory, wk, bounds, others>>

None   == -1
Absent == 0
Bare   == -1        \* a hand-written "incr" that names no generation
Margin == 2 * GenSeqStep  \* seedSafetyMargin

Idle      == [pc |-> "idle", stage |-> "first", att |-> 0, epoch |-> 0, floor |-> 0,
              prev |-> None, mirror |-> Absent, counterExists |-> FALSE, rebuild |-> FALSE,
              low |-> 0, id |-> 0]
NoBelief  == [kind |-> "none", epoch |-> 0, floor |-> 0, fresh |-> FALSE, denied |-> Absent]
Negative  == [NoBelief EXCEPT !.kind = "neg", !.fresh = TRUE]
Positive(a) == [NoBelief EXCEPT !.kind = "pos", !.epoch = a.epoch, !.floor = a.floor]
ColdBlock == [at |-> 0, top |-> 0]

Claims(m) == m # Absent
Permits(p, active) == expected[p] = "unset" \/ (expected[p] = "incr" <=> active)

Running      == {procOf[w] : w \in Workers}      \* the replicas that serve producers
At(w, where) == wk[w].pc = where
Set(w, rec)  == wk' = [wk EXCEPT ![w] = rec]
Quiet        == \A w \in Workers : At(w, "idle")
Spend        == mishaps < MaxMishaps /\ mishaps' = mishaps + 1 /\ UNCHANGED allocs

SeqTypeOK ==
    /\ authority \in [on : BOOLEAN, epoch : Nat, floor : Nat]
    /\ minSeq \in Nat /\ mark \in Nat /\ queueMax \in Nat /\ top \in Nat
    /\ mirror \in Nat \cup {Bare} /\ counter \in Nat \cup {None}
    /\ op \in {"idle", "paused", "flipped", "done"}
    /\ belief \in [Procs -> [kind : {"none", "neg", "pos"}, epoch : Nat, floor : Nat,
                             fresh : BOOLEAN, denied : Nat \cup {Bare}]]
    /\ seeded \in [Procs -> BOOLEAN]
    /\ lastIssued \in [Procs -> Nat \cup {None}]
    /\ lastPersisted \in [Procs -> Nat \cup {None}]
    /\ block \in [Procs -> [at : Nat, top : Nat]]
    /\ expected \in [Procs -> {"unset", "incr"}]
    /\ \A w \in Workers : wk[w].pc \in {"idle", "probe", "resolve", "legacy", "floors", "seed",
                                        "mirror", "gate", "closed", "check", "persist", "publish"}
    /\ allocs \in 0..MaxAllocs /\ mishaps \in 0..MaxMishaps /\ era \in BOOLEAN
    /\ lost \in Nat /\ procOf \in Placements

SeqInit ==
    /\ authority = [on |-> FALSE, epoch |-> 0, floor |-> 0]
    /\ minSeq = 0 /\ mark = 0
    /\ mirror = Absent /\ counter = None /\ queueMax = 0
    /\ op = "idle"
    /\ belief = [p \in Procs |-> NoBelief]
    /\ seeded = [p \in Procs |-> FALSE]
    /\ lastIssued = [p \in Procs |-> None]
    /\ lastPersisted = [p \in Procs |-> None]
    /\ block = [p \in Procs |-> ColdBlock]
    /\ expected = [p \in Procs |-> "unset"]
    /\ wk = [w \in Workers |-> Idle]
    /\ allocs = 0 /\ mishaps = 0
    /\ top = 0 /\ era = FALSE /\ lost = 0 /\ procOf \in Placements

----------------------------------------------------------------------------
(* allocate: entry, mode resolution and the legacy delegation. *)

\* The top of allocate: give up after maxAllocAttempts, take the one-round-trip path when
\* the authority is resolved and the bot seeded, else read the mirror.
Enter(p, isSeeded, b, att) ==
    IF att >= MaxAttempts THEN Idle
    ELSE IF b.kind = "pos" /\ isSeeded
         THEN IF Permits(p, TRUE)
              THEN [Idle EXCEPT !.pc = "gate", !.att = att, !.epoch = b.epoch, !.floor = b.floor]
              ELSE Idle
         ELSE [Idle EXCEPT !.pc = "probe", !.att = att]

\* A producer asks for an id.  The write pause of the cutover holds producers back.
Allocate(w) ==
    LET p == procOf[w] IN
    /\ At(w, "idle") /\ op \in {"idle", "done"} /\ allocs < MaxAllocs
    /\ allocs' = allocs + 1
    /\ Set(w, Enter(p, seeded[p], belief[p], 0))
    /\ UNCHANGED <<durable, redis, op, memory, mishaps, others>>

\* probeScript: the mirror and whether the counter exists, in one round trip.
Probe(w) ==
    /\ At(w, "probe")
    /\ Set(w, [wk[w] EXCEPT !.pc = "resolve", !.mirror = mirror,
                             !.counterExists = (counter # None)])
    /\ UNCHANGED <<durable, redis, op, memory, bounds, others>>

\* resolveMode's cached answers: a positive belief unless the mirror names a newer epoch, a
\* young negative one that the mirror does not contradict, a recent denial of this value.
Cached(b, m) ==
    \/ b.kind = "pos" /\ ~ (m > b.epoch)
    \/ b.kind = "neg" /\ ~ Claims(m) /\ b.fresh
    \/ b.kind = "neg" /\ Claims(m) /\ m = b.denied

\* What refreshAuthority makes of the row (a readable one): the belief it installs, or
\* the prior belief with a refusal when a legacy row would downgrade an activated process.
Refused(b) == [belief |-> b, ok |-> FALSE, unauthorized |-> Absent]
Resolved(b, u) == [belief |-> b, ok |-> TRUE, unauthorized |-> u]

RefreshAuthority(b, m, readable) ==
    IF ~ readable
    THEN IF b.kind = "pos" \/ Claims(m) THEN Refused(b) ELSE Resolved(Negative, Absent)
    ELSE IF authority.on THEN Resolved(Positive(authority), Absent)
    ELSE IF b.kind = "pos" THEN Refused(b)
    ELSE Resolved(Negative, m)

\* Mutant: a mirror that claims activation is believed.
ResolveModeByMirror(b, m, readable) ==
    IF m > 0 THEN Resolved(Positive([epoch |-> m, floor |-> 0]), Absent)
    ELSE IF Cached(b, m) THEN Resolved(b, Absent) ELSE RefreshAuthority(b, m, readable)

\* resolveMode, with the refusal of a mirror whose newer epoch is not confirmed.
ResolveMode(b, m, readable) ==
    IF Cached(b, m) THEN Resolved(b, Absent)
    ELSE LET r == RefreshAuthority(b, m, readable) IN
         IF b.kind = "pos" /\ r.belief.epoch < m THEN Refused(r.belief) ELSE r

\* Mutant: only this process's own memory counts as evidence.
LegacyAllowedCold(p, counterExists) == lastIssued[p] = None

\* legacyDelegate's two pieces of evidence that the counter era has begun for this bot.
LegacyAllowed(p, counterExists) == lastIssued[p] = None /\ ~ counterExists

\* The part of allocate between the probe and the seed.
Resolve(w, readable) ==
    LET p == procOf[w]
        m == wk[w].mirror
        r == ResolveMode(belief[p], m, readable)
        active  == r.belief.kind = "pos"
        go      == r.ok /\ Permits(p, active)
        rebuild == m # r.belief.epoch
    IN  /\ At(w, "resolve")
        /\ belief' = [belief EXCEPT ![p] =
               IF go /\ r.unauthorized # Absent /\ ~ wk[w].counterExists
               THEN [r.belief EXCEPT !.denied = r.unauthorized] ELSE r.belief]
        /\ IF go /\ active
           THEN /\ Set(w, [Idle EXCEPT !.pc = "floors", !.att = wk[w].att,
                                        !.epoch = r.belief.epoch, !.floor = r.belief.floor,
                                        !.rebuild = rebuild])
                /\ seeded' = [seeded EXCEPT ![p] = @ /\ ~ rebuild]
                /\ lastPersisted' = [lastPersisted EXCEPT ![p] = IF rebuild THEN None ELSE @]
           ELSE /\ Set(w, IF go /\ LegacyAllowed(p, wk[w].counterExists)
                          THEN [Idle EXCEPT !.pc = "legacy"] ELSE Idle)
                /\ UNCHANGED <<seeded, lastPersisted>>
        /\ UNCHANGED <<durable, redis, op, lastIssued, block, expected, allocs, others>>

ResolveRead(w) == Resolve(w, TRUE) /\ UNCHANGED mishaps

\* The authority cannot be read within authorityTimeout.
ResolveUnreadable(w) ==
    /\ authority.on => (counter # None \/ \A p \in Procs : expected[p] = "incr")
    /\ mishaps < MaxMishaps /\ mishaps' = mishaps + 1
    /\ Resolve(w, FALSE)

\* octo-lib's GenSeq: a block of the row, taken on a cold start or when the cached one is
\* used up, and written back as an absolute value.
Legacy(w) ==
    LET p == procOf[w]
        b == IF block[p] = ColdBlock THEN [at |-> minSeq, top |-> minSeq] ELSE block[p]
        hi == IF b.at = b.top THEN b.top + GenSeqStep ELSE b.top
    IN  /\ At(w, "legacy")
        /\ block' = [block EXCEPT ![p] = [at |-> b.at + 1, top |-> hi]]
        /\ minSeq' = IF b.at = b.top THEN hi ELSE minSeq
        /\ Set(w, [Idle EXCEPT !.pc = "publish", !.id = b.at + 1])
        /\ UNCHANGED <<authority, mark, redis, op, belief, seeded, lastIssued, lastPersisted,
                       expected, bounds, others>>

----------------------------------------------------------------------------
(* The seed, the mirror's rebuild and the gate. *)

AfterSeed(r) ==
    [r EXCEPT !.pc = IF r.rebuild THEN "mirror" ELSE "gate", !.rebuild = FALSE, !.low = 0]

\* Mutant: the durable mark is left out of the floor.
SeedFloorNoMark(floor) ==
    LET f == Max({queueMax, minSeq, floor})
    IN  IF f > 0 THEN f + Margin ELSE 0

\* reseed takes the bot's lock of the process and looks again; seedCounter reads the queue
\* and the two seq rows.
SeedFloor(floor) ==
    LET f == Max({queueMax, minSeq, mark, floor})
    IN  IF f > 0 THEN f + Margin ELSE 0

ReadFloors(w) ==
    LET p == procOf[w] IN
    /\ At(w, "floors")
    /\ \A x \in Workers : procOf[x] = p => ~ At(x, "seed")
    /\ Set(w, IF seeded[p] THEN AfterSeed(wk[w])
              ELSE [wk[w] EXCEPT !.pc = "seed", !.low = SeedFloor(wk[w].floor)])
    /\ UNCHANGED <<durable, redis, op, memory, bounds, others>>

\* seedScript: raise the counter to the floor, never lower it.
Seed(w) ==
    LET p == procOf[w] IN
    /\ At(w, "seed")
    /\ counter' = Max({counter, wk[w].low})
    /\ seeded' = [seeded EXCEPT ![p] = TRUE]
    /\ Set(w, AfterSeed(wk[w]))
    /\ UNCHANGED <<durable, mirror, queueMax, op, belief, lastIssued, lastPersisted, block,
                   expected, bounds, others>>

\* The mirror is written back only after the bot has been raised to its floor.
RebuildMirror(w) ==
    /\ At(w, "mirror")
    /\ mirror' = wk[w].epoch
    /\ Set(w, [wk[w] EXCEPT !.pc = "gate"])
    /\ UNCHANGED <<durable, counter, queueMax, op, memory, bounds, others>>

\* gateScript's three answers.
GateOpen(w) == mirror = wk[w].epoch
GateReady   == counter # None

\* Mutant: a closed gate does not count as an attempt.
GateShutUncounted(w) ==
    /\ At(w, "gate") /\ ~ GateOpen(w)
    /\ Set(w, [Idle EXCEPT !.pc = "closed", !.att = wk[w].att])
    /\ UNCHANGED <<durable, redis, op, memory, bounds, others>>

\* gateNotActivated: gateClosed, which counts an attempt.
GateShut(w) ==
    /\ At(w, "gate") /\ ~ GateOpen(w)
    /\ Set(w, IF wk[w].att + 1 >= MaxAttempts THEN Idle
              ELSE [Idle EXCEPT !.pc = "closed", !.att = wk[w].att + 1])
    /\ UNCHANGED <<durable, redis, op, memory, bounds, others>>

\* gateCounterMissing: the first time the bot is seeded again, on a retry it is an error.
GateMissing(w) ==
    LET p == procOf[w] IN
    /\ At(w, "gate") /\ GateOpen(w) /\ ~ GateReady
    /\ IF wk[w].stage = "first"
       THEN /\ seeded' = [seeded EXCEPT ![p] = FALSE]
            /\ lastPersisted' = [lastPersisted EXCEPT ![p] = None]
            /\ Set(w, [wk[w] EXCEPT !.pc = "floors", !.stage = "missing"])
       ELSE Set(w, Idle) /\ UNCHANGED <<seeded, lastPersisted>>
    /\ UNCHANGED <<durable, redis, op, belief, lastIssued, block, expected, bounds, others>>

\* INCR, and what afterIssue's last comparison makes of a retry after a regression.
GateIssue(w) ==
    LET p == procOf[w]
        v == IF counter = None THEN 1 ELSE counter + 1
        r == wk[w]
    IN  /\ At(w, "gate") /\ GateOpen(w) /\ GateReady
        /\ counter' = v
        /\ era' = TRUE
        /\ IF r.stage = "regressed"
           THEN /\ lastIssued' = [lastIssued EXCEPT ![p] = IF v > r.prev THEN Max({@, v}) ELSE @]
                /\ Set(w, IF v > r.prev THEN [Idle EXCEPT !.pc = "persist", !.id = v] ELSE Idle)
           ELSE /\ Set(w, [Idle EXCEPT !.pc = "check", !.id = v,
                                       !.att = IF r.stage = "missing" THEN r.att + 1 ELSE r.att])
                /\ UNCHANGED lastIssued
        /\ UNCHANGED <<durable, mirror, queueMax, op, belief, seeded, lastPersisted, block,
                       expected, bounds, top, lost, procOf>>

\* gateClosed: a forced read of the authority, then allocate from the top.
Reresolve(w, readable) ==
    LET p == procOf[w]
        r == RefreshAuthority(belief[p], Absent, readable)
        go == r.ok /\ Permits(p, r.belief.kind = "pos")
    IN  /\ At(w, "closed")
        /\ belief' = [belief EXCEPT ![p] = r.belief]
        /\ seeded' = [seeded EXCEPT ![p] = @ /\ ~ go]
        /\ Set(w, IF go THEN Enter(p, FALSE, r.belief, wk[w].att) ELSE Idle)
        /\ UNCHANGED <<durable, redis, op, lastIssued, lastPersisted, block, expected, allocs,
                       others>>

ReresolveRead(w) == Reresolve(w, TRUE) /\ UNCHANGED mishaps

ReresolveUnreadable(w) ==
    /\ mishaps < MaxMishaps /\ mishaps' = mishaps + 1
    /\ Reresolve(w, FALSE)

\* afterIssue: an id a whole block below what this process has issued is a regression of
\* the counter; the bot is seeded again and the gate retried once.
Regressed(p, v) == lastIssued[p] # None /\ v + GenSeqStep <= lastIssued[p]

AfterIssue(w) ==
    LET p == procOf[w]
        r == wk[w]
    IN  /\ At(w, "check")
        /\ IF r.att >= MaxAttempts
           THEN Set(w, Idle) /\ UNCHANGED <<seeded, lastPersisted, lastIssued>>
           ELSE IF Regressed(p, r.id)
           THEN /\ seeded' = [seeded EXCEPT ![p] = FALSE]
                /\ lastPersisted' = [lastPersisted EXCEPT ![p] = None]
                /\ Set(w, [Idle EXCEPT !.pc = "floors", !.stage = "regressed", !.att = r.att,
                                        !.epoch = belief[p].epoch, !.floor = belief[p].floor,
                                        !.prev = lastIssued[p]])
                /\ UNCHANGED lastIssued
           ELSE /\ lastIssued' = [lastIssued EXCEPT ![p] = Max({@, r.id})]
                /\ Set(w, [Idle EXCEPT !.pc = "persist", !.id = r.id])
                /\ UNCHANGED <<seeded, lastPersisted>>
        /\ UNCHANGED <<durable, redis, op, belief, block, expected, bounds, others>>

\* persistHighWater: throttled to one write per GenSeqStep ids, GREATEST in the statement, the
\* throttle re-armed whether or not the write succeeds.
Throttled(p, v) == lastPersisted[p] # None /\ v - lastPersisted[p] < GenSeqStep

PersistHighWater(w) ==
    LET p == procOf[w]
        v == wk[w].id
    IN  /\ At(w, "persist")
        /\ IF Throttled(p, v) THEN UNCHANGED <<mark, lastPersisted, lost, bounds>>
           ELSE /\ \/ mark' = Max({mark, v}) /\ UNCHANGED <<lost, bounds>>
                   \/ Spend /\ lost' = Max({lost, v}) /\ UNCHANGED mark
                /\ lastPersisted' = [lastPersisted EXCEPT ![p] = Max({@, v})]
        /\ Set(w, [Idle EXCEPT !.pc = "publish", !.id = v])
        /\ UNCHANGED <<authority, minSeq, redis, op, belief, seeded, lastIssued, block, expected,
                       top, era, procOf>>

\* The producer's ZADD with the id as score.
Publish(w) ==
    /\ At(w, "publish")
    /\ queueMax' = Max({queueMax, wk[w].id})
    /\ top' = Max({top, wk[w].id})
    /\ Set(w, Idle)
    /\ UNCHANGED <<durable, mirror, counter, op, memory, bounds, era, lost, procOf>>

\* A Redis or MySQL call of an allocation fails: the enqueue is refused.
CallFails(w) ==
    /\ wk[w].pc \in {"probe", "legacy", "floors", "seed", "mirror", "gate", "publish"}
    /\ Set(w, Idle)
    /\ UNCHANGED <<durable, redis, op, memory, bounds, others>>

----------------------------------------------------------------------------
(* The operator's cutover (cutover_botevent.go, runbook sections 2 to 4). *)

\* Bot-event writes are paused before the flip; again after the row has regressed.
Pause ==
    /\ op \in {"idle", "done"} /\ ~ authority.on /\ authority.epoch < MaxEpoch
    /\ op' = "paused"
    /\ UNCHANGED <<durable, redis, memory, wk, bounds, others>>

\* refuseUnauthorizedBoteventMirror stops the command; the operator deletes the key.
ClearMirror ==
    /\ op = "paused" /\ ~ authority.on /\ Claims(mirror)
    /\ mirror' = Absent
    /\ UNCHANGED <<durable, counter, queueMax, op, memory, wk, bounds, others>>

\* activate: the writes are drained, the evidence is complete, the floor clears it and, by
\* the first precondition of the runbook, every cursor a consumer holds.
Activate ==
    /\ op = "paused" /\ Quiet /\ ~ authority.on /\ ~ Claims(mirror)
    /\ authority' = [on |-> TRUE, epoch |-> authority.epoch + 1,
                     floor |-> Max({queueMax, minSeq, mark, top}) + 1]
    /\ op' = "flipped"
    /\ UNCHANGED <<minSeq, mark, redis, memory, wk, bounds, others>>

\* The mirror is published (a failed write is rerun) and the pause is lifted.  The pause
\* has lasted longer than repairCooldown.
WriteMirror ==
    /\ op = "flipped"
    /\ \A p \in Procs : belief[p].denied = Absent
    /\ mirror' = authority.epoch
    /\ op' = "done"
    /\ UNCHANGED <<durable, counter, queueMax, memory, wk, bounds, others>>

----------------------------------------------------------------------------
(* Time, the consumer, and mishaps. *)

\* negativeBeliefTTL passes, or repairCooldown does.
BeliefAges(p) ==
    /\ belief[p].fresh \/ belief[p].denied # Absent
    /\ \/ belief' = [belief EXCEPT ![p] = [belief[p] EXCEPT !.denied = Absent]]
       \/ belief' = [belief EXCEPT ![p] = [belief[p] EXCEPT !.denied = Absent, !.fresh = FALSE]]
    /\ UNCHANGED <<durable, redis, op, seeded, lastIssued, lastPersisted, block, expected, wk,
                   bounds, others>>

\* The bot has acknowledged every event, or the queue has expired.
Drain ==
    /\ queueMax > 0
    /\ queueMax' = 0
    /\ UNCHANGED <<durable, mirror, counter, op, memory, wk, bounds, others>>

\* After the activation the expected-mode guard is rolled out.  Until it is, the counter is
\* the only evidence of the counter era: what takes that away is outside the design.
Armed   == \A p \in Running : expected[p] = "incr"
Settled == op = "done" /\ (counter # None \/ Armed)

\* The mark is the durable trace of the counter: a loss of the counter while writes of the
\* mark fail, or between an INCR and its mark, is not survived.
Shielded == lost <= mark

\* Somebody writes the mode key by hand before any activation.
ForgeMirror ==
    /\ Spend /\ op = "idle" /\ mirror = Absent
    /\ mirror' \in {Bare, 1}
    /\ UNCHANGED <<durable, counter, queueMax, op, memory, wk, others>>

LoseMirror ==
    /\ Settled /\ Claims(mirror)
    /\ IF Endless THEN UNCHANGED bounds ELSE Spend
    /\ mirror' = Absent
    /\ UNCHANGED <<durable, counter, queueMax, op, memory, wk, others>>

\* A stray DEL or a FLUSHDB; the mirror may go with the counter.
LoseCounter ==
    /\ Spend /\ Armed /\ counter # None /\ Shielded
    /\ \A w \in Workers : wk[w].pc \notin {"seed", "check", "persist"}
    /\ counter' = None
    /\ mirror' \in {mirror, Absent}
    /\ UNCHANGED <<durable, queueMax, op, memory, wk, others>>

\* A partial restore: an older counter and no mirror, after an outage that outlasts the
\* allocations in flight.
Rollback ==
    /\ Spend /\ Settled /\ Quiet /\ Shielded /\ counter > 1
    /\ counter' \in {counter - 1, counter - Margin} \cap Nat
    /\ mirror' = Absent /\ queueMax' = 0
    /\ UNCHANGED <<durable, op, memory, wk, others>>

\* The row is restored from before the activation, or set back by hand; and put back.
AuthorityRegresses ==
    /\ Spend /\ Settled /\ Quiet /\ authority.on
    /\ authority' = [authority EXCEPT !.on = FALSE]
    /\ UNCHANGED <<minSeq, mark, redis, op, memory, wk, others>>

RestoreAuthority ==
    /\ op = "done" /\ ~ authority.on /\ authority.epoch > 0
    /\ authority' = [authority EXCEPT !.on = TRUE]
    /\ UNCHANGED <<minSeq, mark, redis, op, memory, wk, bounds, others>>

\* A replica restarts: its caches and its allocations are gone.
Restarted(p) ==
    /\ belief' = [belief EXCEPT ![p] = NoBelief]
    /\ seeded' = [seeded EXCEPT ![p] = FALSE]
    /\ lastIssued' = [lastIssued EXCEPT ![p] = None]
    /\ lastPersisted' = [lastPersisted EXCEPT ![p] = None]
    /\ block' = [block EXCEPT ![p] = ColdBlock]
    /\ wk' = [w \in Workers |-> IF procOf[w] = p THEN Idle ELSE wk[w]]
    /\ UNCHANGED <<durable, redis, op, others>>

Restart(p) == Spend /\ Restarted(p) /\ UNCHANGED expected

\* The last step of the cutover: the replicas are restarted with the guard set.
Arm(p) ==
    /\ op = "done" /\ authority.on /\ expected[p] = "unset"
    /\ expected' = [expected EXCEPT ![p] = "incr"]
    /\ Restarted(p)
    /\ UNCHANGED bounds

----------------------------------------------------------------------------
Advance(w) ==
    \/ Probe(w) \/ ResolveRead(w) \/ Legacy(w)
    \/ ReadFloors(w) \/ Seed(w) \/ RebuildMirror(w)
    \/ GateShut(w) \/ GateMissing(w) \/ GateIssue(w)
    \/ ReresolveRead(w) \/ AfterIssue(w) \/ PersistHighWater(w) \/ Publish(w)

SeqNext ==
    \/ \E w \in Workers : \/ Allocate(w) \/ Advance(w) \/ CallFails(w)
                          \/ ResolveUnreadable(w) \/ ReresolveUnreadable(w)
    \/ Pause \/ ClearMirror \/ Activate \/ WriteMirror
    \/ \E p \in Running : BeliefAges(p) \/ Restart(p) \/ Arm(p)
    \/ Drain \/ ForgeMirror \/ LoseMirror \/ LoseCounter \/ Rollback
    \/ AuthorityRegresses \/ RestoreAuthority

SeqSpec == SeqInit /\ [][SeqNext]_seqVars

\* Every Redis and MySQL call of an allocation has a deadline: a goroutine goes on.
SeqFairSpec == SeqSpec /\ \A w \in Workers : WF_seqVars(Advance(w))

----------------------------------------------------------------------------
(* Properties. *)

\* Whatever Redis loses, the id that an INCR hands out is above every id published so far,
\* legacy or counter: no new event starts below a cursor that the bot may hold (gateSource,
\* seedCounter, persistHighWater).
IdsIncrease ==
    [][\A w \in Workers :
           (At(w, "gate") /\ wk'[w].pc \in {"check", "persist"}) => wk'[w].id > top]_seqVars

\* Once a counter id has been issued no replica draws from GenSeq again: not after losing
\* the mirror, a restart, an unreadable authority or one that says legacy (legacyDelegate).
OneSource ==
    [][\A w \in Workers : (At(w, "legacy") /\ wk'[w].pc = "publish") => ~ era]_seqVars

\* A mirror alone never activates the counter: without an activation of the authority no
\* counter exists, whatever the mode key says (mode.go: "The authority decides").
MirrorCannotActivate == counter # None => authority.epoch > 0

\* An allocation ends, with an id or an error, even when Redis loses the mode key again
\* and again underneath it (maxAllocAttempts).
AllocationsEnd == \A w \in Workers : []<>At(w, "idle")

\* The counter exists only by the authority's word, whatever the mode keys say.
CounterSound == SeqTypeOK /\ MirrorCannotActivate
=============================================================================
