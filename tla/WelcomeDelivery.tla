-------------------------- MODULE WelcomeDelivery --------------------------
(***************************************************************************)
(* The welcome messages of a Space and of a group (modules/notify:         *)
(* space_welcome*.go, group_welcome*.go).  A ledger row per member says    *)
(* how far the member's welcome has come; the join event and a reconciler  *)
(* insert rows, and one worker per process leases rows, checks them again, *)
(* sends one message and records the outcome.  The two engines differ in   *)
(* the size of a batch, in what a worker checks before it sends and in     *)
(* what a rejoin does to the member's join time.                           *)
(***************************************************************************)
EXTENDS Integers, FiniteSets

CONSTANTS
    Workers,     \* processes; a restarted one may have its predecessor's owner name
    Members,
    MaxAttempts, \* swMaxPreIMAttempts
    Engines      \* the engines considered, see WelcomeAssumption

\* What does not change in a behaviour: the members there are, whether this is the group
\* engine rather than the Space one, the size of a batch (groupWelcomeCoalesceMax or 1),
\* swClaimLease in calls to the database, swHTTPTimeout in the same unit, whether calls keep
\* to their timeouts (else a host may stall), and two bounds: deaths, failed calls and lost
\* answers; joins, leaves and changes of the configuration.  A lease is longer than the call
\* to the IM and one call to the database together (30 s against 15 s and 3 s).
ASSUME WelcomeAssumption ==
    /\ MaxAttempts \in Nat /\ IsFiniteSet(Members)
    /\ \A e \in Engines :
           /\ e.members \subseteq Members /\ e.group \in BOOLEAN /\ e.batchMax \in Nat \ {0}
           /\ e.lease \in Nat \ {0} /\ e.httpTime \in Nat \ {0} /\ e.timed \in BOOLEAN
           /\ e.maxFaults \in Nat /\ e.maxMoves \in Nat
           /\ e.timed => e.lease > e.httpTime + 1

NoOwner == "none"
ASSUME OwnerAssumption == NoOwner \notin Workers

Paths == {"event", "scan"}
Before == {"none", "pending", "claimed", "failed", "skipped"}
Terminal == {"sent", "failed", "skipped", "unknown"}
Status == Before \cup Terminal \cup {"dispatching"}

VARIABLES
    engine,     \* a member of Engines, chosen once
    status,     \* of each member's row; "none" when there is none
    owner,      \* claim_owner
    attempts,   \* failures before the call to the IM
    due,        \* whether next_retry_at has passed
    left,       \* what is left of the lease
    asked,      \* how many messages naming the member were given to the IM
    wk,         \* each worker
    noticed,    \* members about to be given a row, and who found them
    joined,     \* active members
    fresh,      \* members whose join time is in the configured window
    enabled,    \* the configuration
    faults, moves

Group     == engine.group
BatchMax  == engine.batchMax
Lease     == engine.lease
HttpTime  == engine.httpTime
Timed     == engine.timed
MaxFaults == engine.maxFaults
MaxMoves  == engine.maxMoves

ledger == <<status, owner, attempts, due, left>>
world == <<joined, fresh, enabled, moves>>
vars == <<status, owner, attempts, due, left, asked, wk, noticed, joined, fresh, enabled,
          faults, moves>>

NoWork == [pc |-> "idle", todo |-> {}, ok |-> {}, skip |-> {}, fail |-> {}, win |-> {},
           amb |-> {}, good |-> FALSE, used |-> 0]

Work == [pc : {"idle", "sweep", "claim", "check", "mark", "sending", "record"},
         todo : SUBSET Members, ok : SUBSET Members, skip : SUBSET Members,
         fail : SUBSET Members, win : SUBSET Members, amb : SUBSET Members,
         good : BOOLEAN, used : Nat]

TypeOK ==
    /\ engine \in Engines
    /\ status \in [Members -> Status] /\ owner \in [Members -> Workers \cup {NoOwner}]
    /\ attempts \in [Members -> 0..(MaxAttempts + 1)] /\ due \in [Members -> BOOLEAN]
    /\ left \in [Members -> 0..Lease] /\ asked \in [Members -> Nat]
    /\ wk \in [Workers -> Work]
    /\ noticed \subseteq Members \X Paths /\ joined \subseteq Members /\ fresh \subseteq Members
    /\ enabled \in BOOLEAN /\ faults \in 0..MaxFaults /\ moves \in 0..MaxMoves

Init ==
    /\ engine \in Engines
    /\ status = [u \in Members |-> "none"] /\ owner = [u \in Members |-> NoOwner]
    /\ attempts = [u \in Members |-> 0] /\ due = [u \in Members |-> FALSE]
    /\ left = [u \in Members |-> 0] /\ asked = [u \in Members |-> 0]
    /\ wk = [w \in Workers |-> NoWork]
    /\ noticed = {} /\ joined \in SUBSET engine.members /\ fresh = Members
    /\ enabled = TRUE /\ faults = 0 /\ moves = 0

Fault == faults < MaxFaults /\ faults' = faults + 1
Move == moves < MaxMoves /\ moves' = moves + 1

-----------------------------------------------------------------------------
(* Members and the configuration. *)

\* A rejoin resets the join time in a group and not in a Space.  The join event reaches
\* handleMemberJoin, which finds the member eligible, or is lost.
Join(u) ==
    /\ u \in engine.members \ joined /\ Move
    /\ joined' = joined \cup {u}
    /\ fresh' = IF Group THEN fresh \cup {u} ELSE fresh
    /\ \/ enabled /\ u \in fresh' /\ noticed' = noticed \cup {<<u, "event">>}
       \/ UNCHANGED noticed
    /\ UNCHANGED <<ledger, asked, wk, enabled, faults>>
Leave(u) ==
    /\ u \in joined /\ Move /\ joined' = joined \ {u}
    /\ UNCHANGED <<ledger, asked, wk, noticed, fresh, enabled, faults>>

\* An administrator turns the welcome off or on, or moves active_from forward.
Toggle ==
    /\ IF enabled THEN moves + 2 <= MaxMoves /\ moves' = moves + 2 ELSE UNCHANGED moves
    /\ enabled' = ~ enabled
    /\ UNCHANGED <<ledger, asked, wk, noticed, joined, fresh, faults>>
MoveWindow ==
    /\ Move /\ fresh # {} /\ fresh' = {}
    /\ UNCHANGED <<ledger, asked, wk, noticed, joined, enabled, faults>>

\* runReconcileOnce finds an eligible member without a row.
Notice(u) ==
    /\ enabled /\ u \in joined \cap fresh /\ <<u, "scan">> \notin noticed
    /\ status[u] = "none"
    /\ noticed' = noticed \cup {<<u, "scan">>}
    /\ UNCHANGED <<ledger, asked, wk, world, faults>>

\* Mutant: the upsert takes an existing row back to pending.
InsertableAlways(u) == TRUE

\* The unique key of the ledger.
Insertable(u) == status[u] = "none"

\* upsertPending inserts the row unless there is one.  The call may fail.
Upsert(u, path) ==
    /\ <<u, path>> \in noticed /\ noticed' = noticed \ {<<u, path>>}
    /\ \/ /\ Insertable(u)
          /\ status' = [status EXCEPT ![u] = "pending"] /\ due' = [due EXCEPT ![u] = ~ Group]
          /\ UNCHANGED <<owner, attempts, left, faults>>
       \/ ~ Insertable(u) /\ UNCHANGED <<ledger, faults>>
       \/ Fault /\ UNCHANGED ledger
    /\ UNCHANGED <<asked, wk, world>>

\* The coalescing window and the backoffs pass.
BecomesDue(u) ==
    /\ status[u] = "pending" /\ ~ due[u] /\ due' = [due EXCEPT ![u] = TRUE]
    /\ UNCHANGED <<status, owner, attempts, left, asked, wk, noticed, world, faults>>

-----------------------------------------------------------------------------
(* A worker. *)

\* The worker's next call, with its time starting again.
Goes(w, r) == wk' = [wk EXCEPT ![w] = [r EXCEPT !.used = 0]]

\* How a statement ends: it is done, it is done and its answer lost, or it fails.
Done == UNCHANGED faults
Errs == Fault

\* Mutant: a row that is being sent goes back to pending too.
SweptBackAny == {"claimed", "dispatching"}
\* Mutant: a row whose worker died stays claimed.
SweptBackNone == {}
SweptBack == {"claimed"}

\* runWorkerWake begins with sweepClaimedAll ...
SweepClaimed(w) ==
    /\ wk[w].pc = "idle" /\ Goes(w, [wk[w] EXCEPT !.pc = "sweep"])
    /\ LET S == {u \in Members : status[u] \in SweptBack /\ left[u] = 0} IN
       \/ /\ status' = [u \in Members |-> IF u \in S THEN "pending" ELSE status[u]]
          /\ owner' = [u \in Members |-> IF u \in S THEN NoOwner ELSE owner[u]]
          /\ due' = [u \in Members |-> u \in S \/ due[u]]
          /\ Done
       \/ Errs /\ UNCHANGED <<status, owner, due>>
    /\ UNCHANGED <<attempts, left, asked, noticed, world>>

\* ... and sweepDispatchingAll.
SweepDispatching(w) ==
    /\ wk[w].pc = "sweep" /\ Goes(w, [wk[w] EXCEPT !.pc = "claim"])
    /\ LET S == {u \in Members : status[u] = "dispatching" /\ left[u] = 0} IN
       \/ /\ status' = [u \in Members |-> IF u \in S THEN "unknown" ELSE status[u]]
          /\ owner' = [u \in Members |-> IF u \in S THEN NoOwner ELSE owner[u]]
          /\ Done
       \/ Errs /\ UNCHANGED <<status, owner>>
    /\ UNCHANGED <<attempts, due, left, asked, noticed, world>>

Claimable == {u \in Members : status[u] = "pending" /\ due[u]}

\* claimOne, claimBatch: a transaction that locks the rows it takes.
Claim(w) ==
    /\ wk[w].pc = "claim" /\ enabled
    /\ \E S \in SUBSET Claimable :
        /\ S # {} /\ Cardinality(S) <= BatchMax
        /\ S = Claimable \/ Cardinality(S) = BatchMax
        /\ status' = [u \in Members |-> IF u \in S THEN "claimed" ELSE status[u]]
        /\ owner' = [u \in Members |-> IF u \in S THEN w ELSE owner[u]]
        /\ left' = [u \in Members |-> IF u \in S THEN Lease ELSE left[u]]
        /\ \/ Done /\ Goes(w, [NoWork EXCEPT !.pc = "check", !.todo = S])
           \/ Errs /\ Goes(w, NoWork)
    /\ UNCHANGED <<attempts, due, asked, noticed, world>>

\* Nothing to claim, or the welcome has been turned off: the worker sleeps.
Sleep(w) ==
    /\ wk[w].pc = "claim" /\ (~ enabled \/ Claimable = {}) /\ Goes(w, NoWork)
    /\ UNCHANGED <<ledger, asked, noticed, world, faults>>

\* precheckRecipient: a Space asks whether the member is still there, a group whether the
\* join is still in the window.
Eligible(u) == IF Group THEN u \in fresh ELSE u \in joined

Precheck(w, u) ==
    LET r == wk[w] IN
    /\ r.pc = "check" /\ u \in r.todo /\ r.skip = {} /\ r.fail = {}
    /\ \/ Eligible(u) /\ Done /\ Goes(w, [r EXCEPT !.todo = @ \ {u}, !.ok = @ \cup {u}])
       \/ ~ Eligible(u) /\ Done /\ Goes(w, [r EXCEPT !.todo = @ \ {u}, !.skip = {u}])
       \/ Errs /\ Goes(w, [r EXCEPT !.todo = @ \ {u}, !.fail = {u}])
    /\ UNCHANGED <<ledger, asked, noticed, world>>

\* Every transition after the claim asks for the status and the owner.
Holds(w, u, s) == status[u] = s /\ owner[u] = w

\* casToSkipped.
Skip(w, u) ==
    LET r == wk[w] IN
    /\ u \in r.skip /\ Goes(w, [r EXCEPT !.skip = @ \ {u}])
    /\ \/ /\ Holds(w, u, "claimed") /\ Done
          /\ status' = [status EXCEPT ![u] = "skipped"] /\ owner' = [owner EXCEPT ![u] = NoOwner]
       \/ ~ Holds(w, u, "claimed") /\ Done /\ UNCHANGED <<status, owner>>
       \/ Errs /\ UNCHANGED <<status, owner>>
    /\ UNCHANGED <<attempts, due, left, asked, noticed, world>>

Exhausted(u) == attempts[u] + 1 > MaxAttempts

\* casPreIMFailure: back to pending with a backoff, or failed for good.
PreIMFailure(w, u) ==
    LET r == wk[w] IN
    /\ u \in r.fail /\ Goes(w, [r EXCEPT !.fail = @ \ {u}])
    /\ \/ /\ Holds(w, u, "claimed") /\ Done
          /\ status' = [status EXCEPT ![u] = IF Exhausted(u) THEN "failed" ELSE "pending"]
          /\ owner' = [owner EXCEPT ![u] = NoOwner]
          /\ attempts' = [attempts EXCEPT ![u] = @ + 1]
          /\ due' = [due EXCEPT ![u] = FALSE]
       \/ ~ Holds(w, u, "claimed") /\ Done /\ UNCHANGED <<status, owner, attempts, due>>
       \/ Errs /\ UNCHANGED <<status, owner, attempts, due>>
    /\ UNCHANGED <<left, asked, noticed, world>>

Checked(w) == wk[w].pc = "check" /\ wk[w].todo = {} /\ wk[w].skip = {} /\ wk[w].fail = {}

\* The notification bot and the IM's address are looked at once for the batch.
Preflight(w) ==
    /\ Checked(w) /\ wk[w].ok # {}
    /\ \/ Done /\ Goes(w, [wk[w] EXCEPT !.pc = "mark"])
       \/ Errs /\ Goes(w, [wk[w] EXCEPT !.ok = {}, !.fail = wk[w].ok])
    /\ UNCHANGED <<ledger, asked, noticed, world>>

\* Mutant: the lease of the claim goes on running.
MarkLeaseKept(u) == left[u]
MarkLease(u) == Lease

\* casToDispatching, row by row.  After an error the failure is recorded, which asks for a
\* row that is still claimed.
Mark(w, u) ==
    LET r == wk[w] IN
    /\ r.pc = "mark" /\ u \in r.ok /\ r.fail = {}
    /\ \/ /\ Holds(w, u, "claimed")
          /\ status' = [status EXCEPT ![u] = "dispatching"]
          /\ left' = [left EXCEPT ![u] = MarkLease(u)]
          /\ \/ Done /\ Goes(w, [r EXCEPT !.ok = @ \ {u}, !.win = @ \cup {u}])
             \/ Errs /\ Goes(w, [r EXCEPT !.ok = @ \ {u}, !.fail = {u}])
       \/ /\ ~ Holds(w, u, "claimed") /\ Done
          /\ Goes(w, [r EXCEPT !.ok = @ \ {u}]) /\ UNCHANGED <<status, left>>
       \/ /\ Errs /\ Goes(w, [r EXCEPT !.ok = @ \ {u}, !.fail = {u}])
          /\ UNCHANGED <<status, left>>
    /\ UNCHANGED <<owner, attempts, due, asked, noticed, world>>

\* One message naming the rows that were won.
Send(w) ==
    LET r == wk[w] IN
    /\ r.pc = "mark" /\ r.ok = {} /\ r.fail = {} /\ r.win # {}
    /\ asked' = [u \in Members |-> IF u \in r.win THEN asked[u] + 1 ELSE asked[u]]
    /\ Goes(w, [r EXCEPT !.pc = "sending"])
    /\ UNCHANGED <<ledger, noticed, world, faults>>

\* The IM answers, or the call ends without saying whether the message was taken.
Answer(w) ==
    /\ wk[w].pc = "sending"
    /\ \E g \in BOOLEAN : Goes(w, [wk[w] EXCEPT !.pc = "record", !.good = g])
    /\ UNCHANGED <<ledger, asked, noticed, world, faults>>

\* casToSent; an error is followed by casToUnknown.
Record(w, u) ==
    LET r == wk[w] IN
    /\ r.pc = "record" /\ r.good /\ u \in r.win /\ r.amb = {}
    /\ \/ /\ Holds(w, u, "dispatching") /\ status' = [status EXCEPT ![u] = "sent"]
          /\ \/ Done /\ Goes(w, [r EXCEPT !.win = @ \ {u}])
             \/ Errs /\ Goes(w, [r EXCEPT !.win = @ \ {u}, !.amb = {u}])
       \/ ~ Holds(w, u, "dispatching") /\ Done /\ Goes(w, [r EXCEPT !.win = @ \ {u}])
          /\ UNCHANGED status
       \/ Errs /\ Goes(w, [r EXCEPT !.win = @ \ {u}, !.amb = {u}]) /\ UNCHANGED status
    /\ UNCHANGED <<owner, attempts, due, left, asked, noticed, world>>

\* casToUnknown.
ToUnknown(w, u) ==
    LET r == wk[w] IN
    /\ r.pc = "record" /\ (u \in r.amb \/ (~ r.good /\ u \in r.win))
    /\ Goes(w, [r EXCEPT !.win = @ \ {u}, !.amb = @ \ {u}])
    /\ \/ /\ Holds(w, u, "dispatching") /\ Done
          /\ status' = [status EXCEPT ![u] = "unknown"] /\ owner' = [owner EXCEPT ![u] = NoOwner]
       \/ ~ Holds(w, u, "dispatching") /\ Done /\ UNCHANGED <<status, owner>>
       \/ Errs /\ UNCHANGED <<status, owner>>
    /\ UNCHANGED <<attempts, due, left, asked, noticed, world>>

\* A Space's worker claims again, a group's goes to sleep.
BatchEnds(w) ==
    LET r == wk[w] IN
    /\ \/ Checked(w) /\ r.ok = {}
       \/ r.pc = "mark" /\ r.ok = {} /\ r.fail = {} /\ r.win = {}
       \/ r.pc = "record" /\ r.win = {} /\ r.amb = {}
    /\ Goes(w, [NoWork EXCEPT !.pc = IF Group THEN "idle" ELSE "claim"])
    /\ UNCHANGED <<ledger, asked, noticed, world, faults>>

\* The process dies.
Dies(w) ==
    /\ wk[w].pc # "idle" /\ Fault /\ Goes(w, NoWork)
    /\ UNCHANGED <<ledger, asked, noticed, world>>

-----------------------------------------------------------------------------
(* Time. *)

Limit(w) == CASE wk[w].pc = "sending" -> HttpTime [] OTHER -> 1

\* Leases run down.  In a timed instance no call lasts longer than its timeout.
Tick ==
    /\ \E u \in Members : status[u] \in {"claimed", "dispatching"} /\ left[u] > 0
    /\ Timed => \A w \in Workers : wk[w].pc # "idle" => wk[w].used < Limit(w)
    /\ left' = [u \in Members |-> IF left[u] > 0 THEN left[u] - 1 ELSE 0]
    /\ wk' = IF Timed THEN [w \in Workers |-> [wk[w] EXCEPT
                                !.used = IF wk[w].pc = "idle" THEN 0 ELSE @ + 1]]
             ELSE wk
    /\ UNCHANGED <<status, owner, attempts, due, asked, noticed, world, faults>>

-----------------------------------------------------------------------------
Row(w, u) == Precheck(w, u) \/ Skip(w, u) \/ PreIMFailure(w, u) \/ Mark(w, u)
             \/ Record(w, u) \/ ToUnknown(w, u)

Step(w) ==
    \/ SweepClaimed(w) \/ SweepDispatching(w) \/ Claim(w) \/ Sleep(w) \/ Preflight(w)
    \/ Send(w) \/ Answer(w) \/ BatchEnds(w) \/ \E u \in Members : Row(w, u)

Next ==
    \/ \E u \in Members : Join(u) \/ Leave(u) \/ BecomesDue(u) \/ Notice(u)
                           \/ \E path \in Paths : Upsert(u, path)
    \/ Toggle \/ MoveWindow \/ Tick
    \/ \E w \in Workers : Step(w) \/ Dies(w)

Spec == Init /\ [][Next /\ UNCHANGED engine]_<<vars, engine>>

\* Tickers tick, calls end, time passes, an administrator who turned the welcome off turns
\* it on again.
FairSpec ==
    /\ Spec
    /\ \A u \in Members : WF_vars(BecomesDue(u)) /\ WF_vars(Notice(u))
                         /\ WF_vars(Upsert(u, "event")) /\ WF_vars(Upsert(u, "scan"))
    /\ \A w \in Workers : WF_vars(Step(w))
    /\ WF_vars(Tick) /\ WF_vars(~ enabled /\ Toggle)

-----------------------------------------------------------------------------
(* Properties. *)

\* No member is named in two welcome messages, whatever the leases, deaths, lost answers,
\* restarts under the same owner name and rejoins (at-most-once of the ledger).
AtMostOnce == \A u \in Members : asked[u] <= 1

\* A row that says nothing was sent is right, and so is one that says it was: a message
\* may only have gone out for a row that is being sent, sent or unknown.
LedgerTruthful == \A u \in Members :
    /\ status[u] \in Before => asked[u] = 0
    /\ status[u] = "sent" => asked[u] = 1

\* A row whose fate is recorded keeps it: no sweep, late worker or rejoin takes it back.
TerminalStays == [][\A u \in Members : status[u] \in Terminal => status'[u] = status[u]]_vars

\* When calls keep to their timeouts, a hung request of the Space engine never outlives the
\* lease of the row it names, so the row is not given up as unknown while its message is
\* still on its way (swClaimLease, swHTTPTimeout).
LeaseOutlivesCall == (Timed /\ BatchMax = 1) => \A w \in Workers, u \in Members :
    wk[w].pc = "sending" /\ u \in wk[w].win => status[u] = "dispatching"

\* When calls keep to their timeouts, every member who joins in the window and stays gets a
\* row with an outcome (leases that lapse under every call can go round for ever).
Settled == \A u \in Members :
    []<>(Timed /\ u \in joined \cap fresh => status[u] \in Terminal)

\* The ledger bounds what was sent and says what was sent.
LedgerSound == TypeOK /\ AtMostOnce /\ LedgerTruthful
=============================================================================
