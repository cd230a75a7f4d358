----------------------------- MODULE MsgExtraSeq -----------------------------
(***************************************************************************)
(* The message_extra version allocator (internal/msgextraseq), the writers *)
(* that reserve from it inside their own MySQL transaction, its one-way    *)
(* legacy -> transactional cutover (pkg/cutover) and the sync cursors that *)
(* clients page through the versions with.                                 *)
(*                                                                         *)
(* A transaction is a record in tx; what it has done so far decides the    *)
(* row locks it holds (HoldsState, HoldsSeq, HoldsRow), which it keeps     *)
(* until it commits or rolls back.  Uncommitted writes live in the record  *)
(* and are published by Commit, as other sessions' reads see them.         *)
(***************************************************************************)
EXTENDS Naturals, Sequences, FiniteSets

CONSTANTS
    Replicas,
    Writers,        \* transactions that may run at once
    Cards,          \* ... the ones on the card path (row-first in legacy mode)
    Placements,     \* the assignments of writers to replicas
    Channels, Messages,
    ChannelOf,      \* the storage channel of each message
    Batches,        \* what each writer may be asked to write, a card one message
    Syncs,          \* sync requests of one user that may run at once
    Guards,         \* values OCTO_MESSAGE_EXTRA_VERSION_EXPECTED_MODE may have
    HiLoStep,       \* block size of the octo-lib HiLo allocator
    MaxReserveCount,
    MaxSafe,        \* maxSafeInteger
    MaxLegacy       \* bound on the versions legacy mode hands out

Modes == {"legacy", "transactional"}

ASSUME MsgExtraAssumption ==
    /\ Cards \subseteq Writers
    /\ Placements \subseteq [Writers -> Replicas]
    /\ ChannelOf \in [Messages -> Channels]
    /\ Batches \in [Writers -> SUBSET Seq(Messages)]
    /\ \A w \in Writers : \A b \in Batches[w] :
        /\ Len(b) \in 1..(IF w \in Cards THEN 1 ELSE MaxReserveCount)
        /\ \A i, j \in DOMAIN b : /\ ChannelOf[b[i]] = ChannelOf[b[j]]
                                  /\ b[i] = b[j] => i = j
    /\ HiLoStep \in Nat \ {0}
    /\ MaxReserveCount \in Nat \ {0}
    /\ MaxSafe \in Nat /\ MaxSafe >= MaxReserveCount
    /\ MaxLegacy \in Nat

VARIABLES
    state,      \* octo_message_extra_version_state: mode, floor, or no row
    seq,        \* octo_message_extra_channel_seq.last_version; 0 is no row
    extra,      \* message_extra.version of each message; 0 is no row
    minSeq,     \* seq.min_seq of each channel's legacy key
    block,      \* each process's cached HiLo block per channel
    guard,      \* the expected mode each process was started with
    place,      \* the replica each writer runs on
    tx,         \* the writers' transactions
    flip,       \* the floor of the activation waiting for the state row, if any
    cached,     \* Redis messageExtraVersion of the user, per channel
    sync,       \* sync handlers between reading and storing a cursor
    high,       \* highest version ever committed per channel
    since,      \* ... of the ones that the last activation found, and since then
    intended    \* the mode the operators last put the fleet in

dbVars == <<state, seq, extra, minSeq>>
procVars == <<block, guard, place>>
syncVars == <<cached, sync>>
ghostVars == <<high, since, intended>>
vars == <<dbVars, procVars, tx, flip, syncVars, ghostVars>>

NoRow == [mode |-> "none", floor |-> 0]
NoFlip == MaxSafe + 1
Idle == [pc |-> "idle"]
Cold == [at |-> "cold"]

\* The locals of one transaction: what it writes, the rows it has locked so far, the
\* versions it was given, and what readStateForShare and computeBootstrap returned.
Tx == [pc : {"state", "probe", "seq", "gen", "row", "commit"},
       msgs : UNION {Batches[w] : w \in Writers}, rows : 0..MaxReserveCount,
       vs : Seq(Nat), mode : Modes, floor : Nat, base : Nat]

TypeOK ==
    /\ state \in [mode : Modes, floor : Nat] \cup {NoRow}
    /\ seq \in [Channels -> 0..MaxSafe]
    /\ extra \in [Messages -> Nat]
    /\ minSeq \in [Channels -> Nat]
    /\ block \in [Replicas -> [Channels -> [at : Nat, top : Nat] \cup {Cold}]]
    /\ guard \in [Replicas -> Guards]
    /\ place \in Placements
    /\ tx \in [Writers -> Tx \cup {Idle}]
    /\ flip \in Nat
    /\ cached \in [Channels -> Nat]
    /\ sync \in [Syncs -> [ch : Channels, cursor : Nat] \cup {Idle}]
    /\ high \in [Channels -> Nat]
    /\ since \in [Channels -> Nat]
    /\ intended \in Modes

Init ==
    /\ state = [mode |-> "legacy", floor |-> 0]
    /\ seq = [ch \in Channels |-> 0]
    /\ extra = [m \in Messages |-> 0]
    /\ minSeq = [ch \in Channels |-> 0]
    /\ block = [r \in Replicas |-> [ch \in Channels |-> Cold]]
    /\ guard \in [Replicas -> Guards \ {"transactional"}]
    /\ place \in Placements
    /\ tx = [w \in Writers |-> Idle]
    /\ flip = NoFlip
    /\ cached = [ch \in Channels |-> 0]
    /\ sync = [s \in Syncs |-> Idle]
    /\ high = [ch \in Channels |-> 0]
    /\ since = [ch \in Channels |-> 0]
    /\ intended = "legacy"

-----------------------------------------------------------------------------
IsMax(x, S) == x \in S /\ \A y \in S : y <= x
Rows(ch) == {m \in Messages : ChannelOf[m] = ch}
Chan(w) == ChannelOf[tx[w].msgs[1]]
At(w, pc) == tx[w].pc = pc
Active(w) == tx[w] # Idle
End(w) == tx' = [tx EXCEPT ![w] = Idle]

\* The locks a transaction holds: the state row FOR SHARE, its channel's sequence
\* row, and the message rows it has locked or upserted.
HoldsState(w) == Active(w) /\ ~At(w, "state")
HoldsSeq(w, ch) ==
    /\ Active(w) /\ tx[w].mode = "transactional" /\ tx[w].vs # <<>> /\ Chan(w) = ch
HoldsRow(w, m) == Active(w) /\ \E i \in 1..tx[w].rows : tx[w].msgs[i] = m

NextRow(w) == tx[w].msgs[tx[w].rows + 1]
WaitsFor(w, h) ==
    /\ w # h /\ Active(w)
    /\ \/ At(w, "seq") /\ HoldsSeq(h, Chan(w))
       \/ At(w, "row") /\ HoldsRow(h, NextRow(w))

-----------------------------------------------------------------------------
(* A message_extra write. *)

Begin(w, msgs) ==
    /\ tx[w] = Idle
    /\ tx' = [tx EXCEPT ![w] = [pc |-> "state", msgs |-> msgs, rows |-> 0, vs |-> <<>>,
                                mode |-> "legacy", floor |-> 0, base |-> 0]]
    /\ UNCHANGED <<dbVars, procVars, flip, syncVars, ghostVars>>

\* Where a mode's versions come from.
Allocate(mode) == IF mode = "legacy" THEN "gen" ELSE "probe"

\* Mutant: cards take the message row first in both modes.
AfterStateRowFirst(w, mode) == IF w \in Cards THEN "row" ELSE Allocate(mode)

\* The lock order: cards lock their message row first, but only in legacy mode.
AfterState(w, mode) ==
    IF w \in Cards /\ mode = "legacy" THEN "row" ELSE Allocate(mode)

\* ExpectedMode.Check: unset asserts nothing, a malformed value matches no mode.
GuardOK(r, mode) == guard[r] \in {"unset", mode}

\* readStateForShare, from Mode or ReserveTx: waits behind a pending exclusive lock.
\* ReserveTx reads the row again on the card path, under the lock already held.
ReadState(w) ==
    LET mode == IF state = NoRow THEN "legacy" ELSE state.mode IN
    /\ At(w, "state") /\ flip = NoFlip
    /\ IF GuardOK(place[w], mode)
       THEN tx' = [tx EXCEPT ![w].pc = AfterState(w, mode),
                             ![w].mode = mode, ![w].floor = state.floor]
       ELSE End(w)
    /\ UNCHANGED <<dbVars, procVars, flip, syncVars, ghostVars>>

\* selectSequence, and computeBootstrap for a channel without a row: both read the
\* transaction's snapshot, lock nothing, and may be stale when Reserve runs.
Probe(w) ==
    LET ch == Chan(w)
        evidence == {tx[w].floor, minSeq[ch]} \cup {extra[m] : m \in Rows(ch)}
    IN
    /\ At(w, "probe")
    /\ \E b \in evidence \cup {0} :
        /\ IF seq[ch] = 0 THEN IsMax(b, evidence) ELSE b = 0
        /\ tx' = [tx EXCEPT ![w].pc = "seq", ![w].base = b]
    /\ UNCHANGED <<dbVars, procVars, flip, syncVars, ghostVars>>

AfterVersions(w) == IF tx[w].rows = Len(tx[w].msgs) THEN "commit" ELSE "row"

\* The row's value, materialised at the baseline if still absent, raised to the floor.
Start(w) ==
    LET cur == IF seq[Chan(w)] = 0 THEN tx[w].base ELSE seq[Chan(w)]
    IN IF cur < tx[w].floor THEN tx[w].floor ELSE cur

Overflows(w) == Start(w) > MaxSafe - Len(tx[w].msgs)

\* The upsert, the FOR UPDATE read and the advance of reserveTransactional: the first
\* of them waits for the row lock, which the transaction then holds to its end.
Reserve(w) ==
    /\ At(w, "seq")
    /\ \A h \in Writers : ~WaitsFor(w, h)
    /\ IF Overflows(w)
       THEN End(w)
       ELSE tx' = [tx EXCEPT ![w].pc = AfterVersions(w),
                             ![w].vs = [i \in DOMAIN tx[w].msgs |-> Start(w) + i]]
    /\ UNCHANGED <<dbVars, procVars, flip, syncVars, ghostVars>>

\* octo-lib's GenSeq, called by reserveLegacy.  Nothing but a process-local mutex guards
\* it: the cold start reads min_seq, and every new block is written back as an absolute
\* value computed from the process's own state, over whatever another replica wrote.
ColdStart(w) ==
    LET ch == Chan(w) IN
    /\ At(w, "gen") /\ block[place[w]][ch] = Cold
    /\ block' = [block EXCEPT ![place[w]][ch] = [at |-> minSeq[ch], top |-> minSeq[ch]]]
    /\ UNCHANGED <<dbVars, guard, place, tx, flip, syncVars, ghostVars>>

GenSeq(w) ==
    LET ch == Chan(w)
        b == block[place[w]][ch]
        top == IF b.at = b.top THEN b.top + HiLoStep ELSE b.top
    IN
    /\ At(w, "gen") /\ b # Cold /\ b.at < MaxLegacy
    /\ minSeq' = IF b.at = b.top THEN [minSeq EXCEPT ![ch] = top] ELSE minSeq
    /\ block' = [block EXCEPT ![place[w]][ch] = [at |-> b.at + 1, top |-> top]]
    /\ tx' = [tx EXCEPT ![w].vs = Append(@, b.at + 1),
                        ![w].pc = IF Len(tx[w].vs) + 1 = Len(tx[w].msgs)
                                  THEN AfterVersions(w) ELSE "gen"]
    /\ UNCHANGED <<state, seq, extra, guard, place, flip, syncVars, ghostVars>>

\* GenSeq's database error, or the bound of this model.
GenSeqFails(w) ==
    /\ At(w, "gen")
    /\ End(w)
    /\ UNCHANGED <<dbVars, procVars, flip, syncVars, ghostVars>>

\* The next message row: a card's FOR UPDATE read, or an upsert.
LockRow(w) ==
    /\ At(w, "row")
    /\ \A h \in Writers : ~WaitsFor(w, h)
    /\ tx' = [tx EXCEPT ![w].rows = @ + 1,
                        ![w].pc = IF tx[w].rows + 1 < Len(tx[w].msgs) THEN "row"
                                  ELSE IF tx[w].vs = <<>> THEN Allocate(tx[w].mode) ELSE "commit"]
    /\ UNCHANGED <<dbVars, procVars, flip, syncVars, ghostVars>>

\* casGate finds a stale frame or a replay: the reservation is rolled back with it.
CasRejects(w) ==
    /\ w \in Cards /\ At(w, "row")
    /\ \A h \in Writers : ~WaitsFor(w, h)
    /\ End(w)
    /\ UNCHANGED <<dbVars, procVars, flip, syncVars, ghostVars>>

Commit(w) ==
    LET ch == Chan(w)
        msgs == tx[w].msgs
        vs == tx[w].vs
    IN
    /\ At(w, "commit")
    /\ extra' = [m \in Messages |-> IF \E i \in DOMAIN msgs : msgs[i] = m
                                    THEN vs[CHOOSE i \in DOMAIN msgs : msgs[i] = m]
                                    ELSE extra[m]]
    /\ seq' = IF tx[w].mode = "transactional" THEN [seq EXCEPT ![ch] = vs[Len(vs)]] ELSE seq
    /\ \E h \in {high[ch]} \cup {vs[i] : i \in DOMAIN vs} :
        /\ IsMax(h, {high[ch]} \cup {vs[i] : i \in DOMAIN vs})
        /\ high' = [high EXCEPT ![ch] = h]
    /\ \E h \in {since[ch]} \cup {vs[i] : i \in DOMAIN vs} :
        /\ IsMax(h, {since[ch]} \cup {vs[i] : i \in DOMAIN vs})
        /\ since' = [since EXCEPT ![ch] = h]
    /\ End(w)
    /\ UNCHANGED <<state, minSeq, procVars, flip, syncVars, intended>>

\* An error, a lock-wait timeout, a cancelled request: everything is undone.  The
\* caller may begin again.
Rollback(w) ==
    /\ Active(w)
    /\ End(w)
    /\ UNCHANGED <<dbVars, procVars, flip, syncVars, ghostVars>>

\* InnoDB's deadlock detector picks a victim.
DeadlockedSet(S) == S # {} /\ \A w \in S : \E h \in S : WaitsFor(w, h)
Victim(w) == (\E S \in SUBSET Writers : w \in S /\ DeadlockedSet(S)) /\ Rollback(w)

\* A process restart loses its HiLo blocks and its transactions, and may change the
\* expected mode it runs with (not to a laxer one while the state row is lost or reset).
Restart(r, g) ==
    /\ state.mode # intended => g = guard[r]
    /\ guard' = [guard EXCEPT ![r] = g]
    /\ block' = [block EXCEPT ![r] = [ch \in Channels |-> Cold]]
    /\ tx' = [w \in Writers |-> IF place[w] = r THEN Idle ELSE tx[w]]
    /\ UNCHANGED <<dbVars, place, flip, syncVars, ghostVars>>

-----------------------------------------------------------------------------
(* The cutover. *)

Maxima == {extra[m] : m \in Messages} \cup {minSeq[ch] : ch \in Channels}
\* observedMaxima and, up to that ceiling, the Redis cursors.
Evidence ==
    Maxima \cup {c \in {cached[ch] : ch \in Channels} : \E v \in Maxima : c <= v}

MaxCutoverFloor == MaxSafe - MaxReserveCount

FloorOK(f) == (\A v \in Evidence : v <= f) /\ f <= MaxCutoverFloor

\* `app cutover msgextra activate': preflight, then ask for the state row FOR UPDATE.
RequestFlip(f) ==
    /\ flip = NoFlip
    /\ state.mode = "legacy"
    /\ FloorOK(f)
    /\ flip' = f
    /\ UNCHANGED <<dbVars, procVars, tx, syncVars, ghostVars>>

\* Mutant: the activation also waits for the writers queued behind it.
DrainedOfAll == \A w \in Writers : ~Active(w)

\* The state row's exclusive lock is granted once every share lock is gone.
Drained == \A w \in Writers : ~HoldsState(w)

\* Mutant: the evidence is not looked at again under the lock.
GrantFlipTrustsPreflight ==
    /\ flip # NoFlip /\ Drained
    /\ IF state.mode = "legacy"
       THEN /\ state' = [mode |-> "transactional", floor |-> flip]
            /\ intended' = "transactional"
       ELSE UNCHANGED <<state, intended>>
    /\ flip' = NoFlip
    /\ UNCHANGED <<seq, extra, minSeq, procVars, tx, syncVars, high, since>>

\* cutover.Flip once every share lock is gone: nothing else can write until it ends.
GrantFlip ==
    /\ flip # NoFlip /\ Drained
    /\ IF state.mode = "legacy" /\ FloorOK(flip)
       THEN /\ state' = [mode |-> "transactional", floor |-> flip]
            /\ intended' = "transactional"
            /\ since' \in [Channels -> {0} \cup {extra[m] : m \in Messages}]
            /\ \A ch \in Channels : IsMax(since'[ch], {0} \cup {extra[m] : m \in Rows(ch)})
       ELSE UNCHANGED <<state, intended, since>>
    /\ flip' = NoFlip
    /\ UNCHANGED <<seq, extra, minSeq, procVars, tx, syncVars, high>>

\* innodb_lock_wait_timeout, an interrupted command or a lost connection.
FlipAborted ==
    /\ flip # NoFlip
    /\ flip' = NoFlip
    /\ UNCHANGED <<dbVars, procVars, tx, syncVars, ghostVars>>

\* The state row is lost or reset while every process expects transactional.
LoseStateRow ==
    /\ state.mode = "transactional" /\ flip = NoFlip
    /\ \A r \in Replicas : guard[r] = "transactional"
    /\ \A w \in Writers : ~HoldsState(w)
    /\ state' \in {NoRow, [mode |-> "legacy", floor |-> 0]}
    /\ UNCHANGED <<seq, extra, minSeq, procVars, tx, flip, syncVars, ghostVars>>

\* The runbook's rollback, run with writes and syncs drained: legacy boundaries above
\* everything issued, mode flipped back, every process restarted with a laxer guard.
RunbookRollback ==
    /\ state.mode = "transactional" /\ flip = NoFlip
    /\ \A w \in Writers : tx[w] = Idle
    /\ \A s \in Syncs : sync[s] = Idle
    /\ \E water \in Evidence \cup {state.floor} \cup {seq[ch] : ch \in Channels} :
        /\ IsMax(water, Evidence \cup {state.floor} \cup {seq[ch] : ch \in Channels})
        /\ minSeq' = [ch \in Channels |->
                        IF minSeq[ch] > 0 \/ seq[ch] > 0 THEN water ELSE 0]
    /\ state' = [mode |-> "legacy", floor |-> state.floor]
    /\ block' = [r \in Replicas |-> [ch \in Channels |-> Cold]]
    /\ guard' \in [Replicas -> Guards \ {"transactional"}]
    /\ intended' = "legacy"
    /\ UNCHANGED <<seq, extra, place, tx, flip, syncVars, high, since>>

-----------------------------------------------------------------------------
(* syncMessageExtra: the cursor of one user, kept in Redis per channel. *)

\* Mutant: a claim above what the channel issued is taken as it comes.
ClampUnbounded(x, max) == x

Clamp(x, max) == IF x > max THEN max ELSE x

\* resolveMessageExtraSyncCursor, when it decides to store the cursor.
SyncRead(s, ch, requested) ==
    /\ sync[s] = Idle
    /\ \E max \in {0} \cup {extra[m] : m \in Rows(ch)} :
        /\ IsMax(max, {0} \cup {extra[m] : m \in Rows(ch)})
        /\ cached[ch] > max \/ cached[ch] < Clamp(requested, max)
        /\ sync' = [sync EXCEPT ![s] = [ch |-> ch, cursor |-> Clamp(requested, max)]]
    /\ UNCHANGED <<dbVars, procVars, tx, flip, cached, ghostVars>>

SyncStore(s) ==
    /\ sync[s] # Idle
    /\ cached' = [cached EXCEPT ![sync[s].ch] = sync[s].cursor]
    /\ sync' = [sync EXCEPT ![s] = Idle]
    /\ UNCHANGED <<dbVars, procVars, tx, flip, ghostVars>>

SyncFails(s) ==
    /\ sync[s] # Idle
    /\ sync' = [sync EXCEPT ![s] = Idle]
    /\ UNCHANGED <<dbVars, procVars, tx, flip, cached, ghostVars>>

-----------------------------------------------------------------------------
Claims == 0..(MaxSafe + 1)

WriterStep(w) ==
    \/ ReadState(w) \/ Probe(w) \/ Reserve(w) \/ ColdStart(w) \/ GenSeq(w) \/ GenSeqFails(w)
    \/ LockRow(w) \/ CasRejects(w) \/ Commit(w)

Next ==
    \/ \E w \in Writers : \/ \E b \in Batches[w] : Begin(w, b)
                          \/ WriterStep(w) \/ Rollback(w)
    \/ \E r \in Replicas, g \in Guards : Restart(r, g)
    \/ \E f \in 0..MaxSafe : RequestFlip(f)
    \/ GrantFlip \/ FlipAborted \/ LoseStateRow \/ RunbookRollback
    \/ \E s \in Syncs : \/ \E ch \in Channels, c \in Claims : SyncRead(s, ch, c)
                        \/ SyncStore(s) \/ SyncFails(s)

Spec == Init /\ [][Next]_vars

\* Every statement a transaction has sent is answered; InnoDB grants row locks in the
\* order they were asked for and breaks deadlocks.  No timeout is relied on.
Fairness ==
    /\ \A w \in Writers : SF_vars(WriterStep(w)) /\ WF_vars(Victim(w))
    /\ WF_vars(GrantFlip)

FairSpec == Spec /\ Fairness

-----------------------------------------------------------------------------
(* Safety. *)

\* Commit order is version order: while the fleet is meant to be transactional, a
\* committed change carries a version above everything its channel had at the
\* activation and everything committed on any replica since, so a cursor taken from
\* one of those is never past it.
FreshCommits ==
    [][\A m \in Messages :
         extra'[m] # extra[m] /\ intended = "transactional" =>
            extra'[m] > since[ChannelOf[m]]]_vars

\* All writers share one process, and so one HiLo block per channel.  With several, a
\* lagging one writes min_seq backwards.
OneProcess == \A v, w \in Writers : place[v] = place[w]

\* What FreshCommits leaves open: where one process did the writing, an activation's
\* floor is at least every version that was ever committed, so that cursors from before
\* the activation are not past the changes that follow it.
FloorCoversIssued ==
    [][OneProcess /\ intended = "legacy" /\ intended' = "transactional" =>
         \A ch \in Channels : high[ch] <= state'.floor]_vars

\* No change is hidden from a client, where FloorCoversIssued applies: a change committed
\* while the fleet is meant to be transactional is above the user's cursor of its channel, stored or about to be,
\* whatever the clients claimed, and so the next sync returns it.
NothingSkipped ==
    [][\A m \in Messages :
         OneProcess /\ extra'[m] # extra[m] /\ intended = "transactional" =>
            /\ extra'[m] > cached[ChannelOf[m]]
            /\ \A s \in Syncs : sync[s] # Idle /\ sync[s].ch = ChannelOf[m] =>
                                   extra'[m] > sync[s].cursor]_vars

\* The uniform lock order of the transactional mode: a writer that has its sequence
\* row never waits for another, so no deadlock involves one.
NoTransactionalDeadlock ==
    \A S \in SUBSET Writers :
        DeadlockedSet(S) => \A w \in S : tx[w].mode = "legacy"

\* Versions stay in the range that reserveTransactional admits, and no transactional
\* writer deadlocks.
LocksSound == TypeOK /\ NoTransactionalDeadlock

\* The cutover loses no order: what commits after it is above what was committed before.
VersionsFresh == FreshCommits /\ FloorCoversIssued

-----------------------------------------------------------------------------
(* Liveness. *)

\* No write hangs: not behind other writers, nor behind an activation that is itself
\* waiting for them.
WritesEnd == \A w \in Writers : []<>~Active(w)

\* The drain barrier is reached: an activation gets its answer.
FlipAnswered == []<>(flip = NoFlip)

\* Writers and the activation wait for each other (the drain barrier), and both end.
CallsEnd == WritesEnd /\ FlipAnswered
=============================================================================
