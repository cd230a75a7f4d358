----------------------- MODULE WelcomeDeliveryProofs -----------------------
(***************************************************************************)
(* Proofs about WelcomeDelivery, for every set of workers and of members,  *)
(* every batch size, lease and retry budget: its types, that no member    *)
(* is named in two messages, and that no call outlives its lease.          *)
(***************************************************************************)
EXTENDS WelcomeDelivery, FiniteSetTheorems, TLAPS

\* Only a row that failed has used up its retries.
Retries == \A u \in Members : status[u] # "failed" => attempts[u] <= MaxAttempts

TypeInv == TypeOK /\ Retries

\* What the assumption says of the engine that was chosen.
LEMMA EngineFacts ==
  ASSUME engine \in Engines
  PROVE  /\ engine.members \subseteq Members /\ Group \in BOOLEAN /\ BatchMax \in Nat \ {0}
         /\ Lease \in Nat \ {0} /\ HttpTime \in Nat \ {0} /\ Timed \in BOOLEAN
         /\ MaxFaults \in Nat /\ MaxMoves \in Nat
  BY WelcomeAssumption DEF Group, BatchMax, Lease, HttpTime, Timed, MaxFaults, MaxMoves

\* The engine is chosen once.
LEMMA EngineKept ==
  ASSUME UNCHANGED engine
  PROVE  Group' = Group /\ Lease' = Lease /\ MaxFaults' = MaxFaults /\ MaxMoves' = MaxMoves
  BY DEF Group, Lease, MaxFaults, MaxMoves

\* A step of the specification: one of Next under the engine that was chosen.
Steps == [Next]_vars /\ UNCHANGED engine

\* The initial state has the types.
LEMMA InitTypes == Init => TypeInv
  BY WelcomeAssumption, EngineFacts DEF Init, TypeInv, TypeOK, Retries, NoWork, Work, Status, Before

\* A worker's hands after an edit of its record, with the phase and the rows won.
IsWork(r, pc, win) == r \in Work /\ r.pc = pc /\ r.win = win

\* What a worker may go on to from r, whatever its rows.
LEMMA PhaseEdits ==
  ASSUME NEW r \in Work
  PROVE  /\ IsWork([r EXCEPT !.pc = "sweep"], "sweep", r.win)
         /\ IsWork([r EXCEPT !.pc = "claim"], "claim", r.win)
         /\ IsWork([r EXCEPT !.pc = "mark"], "mark", r.win)
         /\ IsWork([r EXCEPT !.pc = "sending"], "sending", r.win)
         /\ IsWork([r EXCEPT !.ok = {}, !.fail = r.ok], r.pc, r.win)
<1> USE DEF IsWork, Work
<1>1. IsWork([r EXCEPT !.pc = "sweep"], "sweep", r.win)
  OBVIOUS
<1>2. IsWork([r EXCEPT !.pc = "claim"], "claim", r.win)
  OBVIOUS
<1>3. IsWork([r EXCEPT !.pc = "mark"], "mark", r.win)
  OBVIOUS
<1>4. IsWork([r EXCEPT !.pc = "sending"], "sending", r.win)
  OBVIOUS
<1>5. IsWork([r EXCEPT !.ok = {}, !.fail = r.ok], r.pc, r.win)
  OBVIOUS
<1> QED BY <1>1, <1>2, <1>3, <1>4, <1>5

\* What it may go on to from r by taking, checking or settling one row.
LEMMA RowEdits ==
  ASSUME NEW r \in Work, NEW u \in Members
  PROVE  /\ IsWork([r EXCEPT !.todo = @ \ {u}, !.ok = @ \cup {u}], r.pc, r.win)
         /\ IsWork([r EXCEPT !.todo = @ \ {u}, !.skip = {u}], r.pc, r.win)
         /\ IsWork([r EXCEPT !.todo = @ \ {u}, !.fail = {u}], r.pc, r.win)
         /\ IsWork([r EXCEPT !.skip = @ \ {u}], r.pc, r.win)
         /\ IsWork([r EXCEPT !.fail = @ \ {u}], r.pc, r.win)
         /\ IsWork([r EXCEPT !.ok = @ \ {u}, !.win = @ \cup {u}], r.pc, r.win \cup {u})
         /\ IsWork([r EXCEPT !.ok = @ \ {u}, !.fail = {u}], r.pc, r.win)
         /\ IsWork([r EXCEPT !.ok = @ \ {u}], r.pc, r.win)
         /\ IsWork([r EXCEPT !.win = @ \ {u}], r.pc, r.win \ {u})
         /\ IsWork([r EXCEPT !.win = @ \ {u}, !.amb = {u}], r.pc, r.win \ {u})
         /\ IsWork([r EXCEPT !.win = @ \ {u}, !.amb = @ \ {u}], r.pc, r.win \ {u})
<1> USE DEF IsWork, Work
<1>1. IsWork([r EXCEPT !.todo = @ \ {u}, !.ok = @ \cup {u}], r.pc, r.win)
  OBVIOUS
<1>2. IsWork([r EXCEPT !.todo = @ \ {u}, !.skip = {u}], r.pc, r.win)
  OBVIOUS
<1>3. IsWork([r EXCEPT !.todo = @ \ {u}, !.fail = {u}], r.pc, r.win)
  OBVIOUS
<1>4. IsWork([r EXCEPT !.skip = @ \ {u}], r.pc, r.win)
  OBVIOUS
<1>5. IsWork([r EXCEPT !.fail = @ \ {u}], r.pc, r.win)
  OBVIOUS
<1>6. IsWork([r EXCEPT !.ok = @ \ {u}, !.win = @ \cup {u}], r.pc, r.win \cup {u})
  OBVIOUS
<1>7. IsWork([r EXCEPT !.ok = @ \ {u}, !.fail = {u}], r.pc, r.win)
  OBVIOUS
<1>8. IsWork([r EXCEPT !.ok = @ \ {u}], r.pc, r.win)
  OBVIOUS
<1>9. IsWork([r EXCEPT !.win = @ \ {u}], r.pc, r.win \ {u})
  OBVIOUS
<1>10. IsWork([r EXCEPT !.win = @ \ {u}, !.amb = {u}], r.pc, r.win \ {u})
  OBVIOUS
<1>11. IsWork([r EXCEPT !.win = @ \ {u}, !.amb = @ \ {u}], r.pc, r.win \ {u})
  OBVIOUS
<1> QED BY <1>1, <1>2, <1>3, <1>4, <1>5, <1>6, <1>7, <1>8, <1>9, <1>10, <1>11

\* The records a worker starts over with, and those of an answer.
LEMMA FreshWork ==
  /\ IsWork(NoWork, "idle", {})
  /\ \A S \in SUBSET Members : IsWork([NoWork EXCEPT !.pc = "check", !.todo = S], "check", {})
  /\ IsWork([NoWork EXCEPT !.pc = "idle"], "idle", {})
  /\ IsWork([NoWork EXCEPT !.pc = "claim"], "claim", {})
  /\ \A r \in Work, g \in BOOLEAN :
        IsWork([r EXCEPT !.pc = "record", !.good = g], "record", r.win)
<1> USE DEF IsWork, Work, NoWork
<1>1. IsWork(NoWork, "idle", {})
  OBVIOUS
<1>2. \A S \in SUBSET Members : IsWork([NoWork EXCEPT !.pc = "check", !.todo = S], "check", {})
  OBVIOUS
<1>3. IsWork([NoWork EXCEPT !.pc = "idle"], "idle", {}) /\ IsWork([NoWork EXCEPT !.pc = "claim"], "claim", {})
  OBVIOUS
<1>4. \A r \in Work, g \in BOOLEAN : IsWork([r EXCEPT !.pc = "record", !.good = g], "record", r.win)
  OBVIOUS
<1> QED BY <1>1, <1>2, <1>3, <1>4

\* The record of a worker whose call has taken a moment longer.
LEMMA TickedWork ==
  ASSUME NEW r \in Work
  PROVE  [r EXCEPT !.used = IF r.pc = "idle" THEN 0 ELSE @ + 1] \in Work
<1> DEFINE n == IF r.pc = "idle" THEN 0 ELSE r.used + 1
<1>1. n \in Nat
  BY DEF Work
<1> HIDE DEF n
<1>2. [r EXCEPT !.used = n] \in Work
  BY <1>1 DEF Work
<1> QED BY <1>2 DEF n

\* Goes keeps the workers well typed.
LEMMA GoesTypes ==
  ASSUME wk \in [Workers -> Work], NEW w \in Workers, NEW r, NEW pc, NEW win,
         IsWork(r, pc, win), Goes(w, r)
  PROVE  wk' \in [Workers -> Work]
<1>1. r \in Work
  BY DEF IsWork
<1>2. [r EXCEPT !.used = 0] \in Work
  BY <1>1 DEF Work
<1> QED BY <1>2 DEF Goes

\* So does every step: the row's transitions keep to the statuses and to the retry budget.
LEMMA NextTypes == TypeInv /\ Steps => TypeInv'
<1> SUFFICES ASSUME TypeInv, [Next]_vars, UNCHANGED engine PROVE TypeInv'
  BY DEF Steps
<1>0. /\ engine.members \subseteq Members /\ Group \in BOOLEAN /\ BatchMax \in Nat \ {0}
      /\ Lease \in Nat \ {0} /\ MaxFaults \in Nat /\ MaxMoves \in Nat
      /\ Lease' = Lease /\ MaxFaults' = MaxFaults /\ MaxMoves' = MaxMoves
  BY EngineFacts, EngineKept DEF TypeInv, TypeOK
<1>w. \A w \in Workers : wk[w] \in Work
  BY DEF TypeInv, TypeOK
<1> USE <1>0, WelcomeAssumption DEF TypeInv, TypeOK, Retries, Status, Before, Terminal
<1>1. ASSUME NEW u \in Members, Join(u) PROVE TypeInv'
  BY <1>1 DEF Join, Move, ledger, Paths
<1>2. ASSUME NEW u \in Members, Leave(u) PROVE TypeInv'
  BY <1>2 DEF Leave, Move, ledger
<1>3. ASSUME NEW u \in Members, Notice(u) PROVE TypeInv'
  BY <1>3 DEF Notice, world, ledger, Paths
<1>4. ASSUME NEW u \in Members, NEW path \in Paths, Upsert(u, path) PROVE TypeInv'
  <2>1. /\ asked' = asked /\ wk' = wk /\ joined' = joined /\ fresh' = fresh
        /\ enabled' = enabled /\ moves' = moves /\ noticed' \subseteq Members \X Paths
    BY <1>4 DEF Upsert, world
  <2>2. CASE /\ Insertable(u) /\ status' = [status EXCEPT ![u] = "pending"]
             /\ due' = [due EXCEPT ![u] = ~ Group]
             /\ UNCHANGED <<owner, attempts, left, faults>>
    <3>1. due' \in [Members -> BOOLEAN]
      BY <2>2
    <3> QED BY <2>1, <2>2, <3>1 DEF Insertable
  <2>3. CASE UNCHANGED ledger /\ faults' \in 0..MaxFaults
    BY <2>1, <2>3 DEF ledger
  <2> QED BY <1>4, <2>2, <2>3 DEF Upsert, Fault
<1>5. ASSUME NEW u \in Members, BecomesDue(u) PROVE TypeInv'
  BY <1>5 DEF BecomesDue, world
<1>6. CASE Toggle
  BY <1>6 DEF Toggle, ledger
<1>7. CASE MoveWindow
  BY <1>7 DEF MoveWindow, Move, ledger
<1>8. CASE Tick
  <2>1. \A w \in Workers :
          [wk[w] EXCEPT !.used = IF wk[w].pc = "idle" THEN 0 ELSE @ + 1] \in Work
    BY <1>w, TickedWork, Zenon
  <2>2. wk' \in [Workers -> Work]
    BY <1>8, <2>1 DEF Tick
  <2>3. left' \in [Members -> 0..Lease]
    BY <1>8 DEF Tick
  <2> QED BY <1>8, <2>2, <2>3 DEF Tick, world
<1>9. ASSUME NEW w \in Workers, SweepClaimed(w) PROVE TypeInv'
  <2>1. IsWork([wk[w] EXCEPT !.pc = "sweep"], "sweep", wk[w].win)
    BY <1>w, PhaseEdits, Zenon
  <2>2. wk' \in [Workers -> Work]
    BY <1>9, <2>1, GoesTypes, Zenon DEF SweepClaimed
  <2>3. due' \in [Members -> BOOLEAN]
    BY <1>9 DEF SweepClaimed
  <2> QED BY <1>9, <2>2, <2>3 DEF SweepClaimed, SweptBack, Done, Errs, Fault, world
<1>10. ASSUME NEW w \in Workers, SweepDispatching(w) PROVE TypeInv'
  <2>1. IsWork([wk[w] EXCEPT !.pc = "claim"], "claim", wk[w].win)
    BY <1>w, PhaseEdits, Zenon
  <2>2. wk' \in [Workers -> Work]
    BY <1>10, <2>1, GoesTypes, Zenon DEF SweepDispatching
  <2> QED BY <1>10, <2>2 DEF SweepDispatching, Done, Errs, Fault, world
<1>11. ASSUME NEW w \in Workers, Claim(w) PROVE TypeInv'
  <2>1. /\ IsWork(NoWork, "idle", {})
        /\ \A S \in SUBSET Members : IsWork([NoWork EXCEPT !.pc = "check", !.todo = S], "check", {})
    BY FreshWork, Zenon
  <2>2. wk' \in [Workers -> Work]
    BY <1>11, <2>1, GoesTypes, Zenon DEF Claim, Claimable
  <2> QED BY <1>11, <2>2 DEF Claim, Claimable, Done, Errs, Fault, world
<1>12. ASSUME NEW w \in Workers, Sleep(w) PROVE TypeInv'
  <2>1. IsWork(NoWork, "idle", {})
    BY FreshWork, Zenon
  <2>2. wk' \in [Workers -> Work]
    BY <1>12, <2>1, GoesTypes, Zenon DEF Sleep
  <2> QED BY <1>12, <2>2 DEF Sleep, world, ledger
<1>13. ASSUME NEW w \in Workers, Preflight(w) PROVE TypeInv'
  <2>1. /\ IsWork([wk[w] EXCEPT !.pc = "mark"], "mark", wk[w].win)
        /\ IsWork([wk[w] EXCEPT !.ok = {}, !.fail = wk[w].ok], wk[w].pc, wk[w].win)
    BY <1>w, PhaseEdits, Zenon
  <2>2. wk' \in [Workers -> Work]
    BY <1>13, <2>1, GoesTypes, Zenon DEF Preflight
  <2> QED BY <1>13, <2>2 DEF Preflight, Done, Errs, Fault, world, ledger
<1>14. ASSUME NEW w \in Workers, Send(w) PROVE TypeInv'
  <2>1. IsWork([wk[w] EXCEPT !.pc = "sending"], "sending", wk[w].win)
    BY <1>w, PhaseEdits, Zenon
  <2>2. wk' \in [Workers -> Work]
    BY <1>14, <2>1, GoesTypes, Zenon DEF Send
  <2> QED BY <1>14, <2>2 DEF Send, world, ledger
<1>15. ASSUME NEW w \in Workers, Answer(w) PROVE TypeInv'
  <2>1. \A g \in BOOLEAN :
          IsWork([wk[w] EXCEPT !.pc = "record", !.good = g], "record", wk[w].win)
    BY <1>w, FreshWork, Zenon
  <2>2. wk' \in [Workers -> Work]
    BY <1>15, <2>1, GoesTypes, Zenon DEF Answer
  <2> QED BY <1>15, <2>2 DEF Answer, world, ledger
<1>16. ASSUME NEW w \in Workers, BatchEnds(w) PROVE TypeInv'
  <2>1. \/ Goes(w, [NoWork EXCEPT !.pc = "idle"]) /\ IsWork([NoWork EXCEPT !.pc = "idle"], "idle", {})
        \/ Goes(w, [NoWork EXCEPT !.pc = "claim"]) /\ IsWork([NoWork EXCEPT !.pc = "claim"], "claim", {})
    BY <1>16, FreshWork, Zenon DEF BatchEnds
  <2>2. wk' \in [Workers -> Work]
    BY <1>16, <2>1, GoesTypes, Zenon
  <2> QED BY <1>16, <2>2 DEF BatchEnds, world, ledger
<1>17. ASSUME NEW w \in Workers, Dies(w) PROVE TypeInv'
  <2>1. IsWork(NoWork, "idle", {})
    BY FreshWork, Zenon
  <2>2. wk' \in [Workers -> Work]
    BY <1>17, <2>1, GoesTypes, Zenon DEF Dies
  <2> QED BY <1>17, <2>2 DEF Dies, Fault, world, ledger
<1>18. ASSUME NEW w \in Workers, NEW u \in Members, Precheck(w, u) PROVE TypeInv'
  <2>1. /\ IsWork([wk[w] EXCEPT !.todo = @ \ {u}, !.ok = @ \cup {u}], wk[w].pc, wk[w].win)
        /\ IsWork([wk[w] EXCEPT !.todo = @ \ {u}, !.skip = {u}], wk[w].pc, wk[w].win)
        /\ IsWork([wk[w] EXCEPT !.todo = @ \ {u}, !.fail = {u}], wk[w].pc, wk[w].win)
    BY <1>w, RowEdits, Zenon
  <2>2. wk' \in [Workers -> Work]
    BY <1>18, <2>1, GoesTypes, Zenon DEF Precheck
  <2> QED BY <1>18, <2>2 DEF Precheck, Done, Errs, Fault, world, ledger
<1>19. ASSUME NEW w \in Workers, NEW u \in Members, Skip(w, u) PROVE TypeInv'
  <2>1. IsWork([wk[w] EXCEPT !.skip = @ \ {u}], wk[w].pc, wk[w].win)
    BY <1>w, RowEdits, Zenon
  <2>2. wk' \in [Workers -> Work]
    BY <1>19, <2>1, GoesTypes, Zenon DEF Skip
  <2> QED BY <1>19, <2>2 DEF Skip, Holds, Done, Errs, Fault, world
<1>20. ASSUME NEW w \in Workers, NEW u \in Members, PreIMFailure(w, u) PROVE TypeInv'
  <2>1. IsWork([wk[w] EXCEPT !.fail = @ \ {u}], wk[w].pc, wk[w].win)
    BY <1>w, RowEdits, Zenon
  <2>2. wk' \in [Workers -> Work]
    BY <1>20, <2>1, GoesTypes, Zenon DEF PreIMFailure
  <2>3. CASE /\ Holds(w, u, "claimed") /\ Done
             /\ status' = [status EXCEPT ![u] = IF Exhausted(u) THEN "failed" ELSE "pending"]
             /\ owner' = [owner EXCEPT ![u] = NoOwner]
             /\ attempts' = [attempts EXCEPT ![u] = @ + 1]
             /\ due' = [due EXCEPT ![u] = FALSE]
    <3>1. attempts[u] <= MaxAttempts /\ attempts[u] \in Nat
      BY <2>3 DEF Holds
    <3>2. status' \in [Members -> Status] /\ due' \in [Members -> BOOLEAN]
      BY <2>3
    <3>3. attempts' \in [Members -> 0..(MaxAttempts + 1)]
      BY <2>3, <3>1
    <3>4. Retries'
      BY <2>3, <3>1 DEF Exhausted
    <3> QED BY <1>20, <2>2, <2>3, <3>2, <3>3, <3>4 DEF PreIMFailure, Done, world
  <2>4. CASE UNCHANGED <<status, owner, attempts, due>>
    BY <1>20, <2>2, <2>4 DEF PreIMFailure, Done, Errs, Fault, world
  <2> QED BY <1>20, <2>3, <2>4 DEF PreIMFailure
<1>21. ASSUME NEW w \in Workers, NEW u \in Members, Mark(w, u) PROVE TypeInv'
  <2>1. /\ IsWork([wk[w] EXCEPT !.ok = @ \ {u}, !.win = @ \cup {u}], wk[w].pc, wk[w].win \cup {u})
        /\ IsWork([wk[w] EXCEPT !.ok = @ \ {u}, !.fail = {u}], wk[w].pc, wk[w].win)
        /\ IsWork([wk[w] EXCEPT !.ok = @ \ {u}], wk[w].pc, wk[w].win)
    BY <1>w, RowEdits, Zenon
  <2>2. wk' \in [Workers -> Work]
    BY <1>21, <2>1, GoesTypes, Zenon DEF Mark
  <2> QED BY <1>21, <2>2 DEF Mark, MarkLease, Holds, Done, Errs, Fault, world
<1>22. ASSUME NEW w \in Workers, NEW u \in Members, Record(w, u) PROVE TypeInv'
  <2>1. /\ IsWork([wk[w] EXCEPT !.win = @ \ {u}], wk[w].pc, wk[w].win \ {u})
        /\ IsWork([wk[w] EXCEPT !.win = @ \ {u}, !.amb = {u}], wk[w].pc, wk[w].win \ {u})
    BY <1>w, RowEdits, Zenon
  <2>2. wk' \in [Workers -> Work]
    BY <1>22, <2>1, GoesTypes, Zenon DEF Record
  <2> QED BY <1>22, <2>2 DEF Record, Holds, Done, Errs, Fault, world
<1>23. ASSUME NEW w \in Workers, NEW u \in Members, ToUnknown(w, u) PROVE TypeInv'
  <2>1. IsWork([wk[w] EXCEPT !.win = @ \ {u}, !.amb = @ \ {u}], wk[w].pc, wk[w].win \ {u})
    BY <1>w, RowEdits, Zenon
  <2>2. wk' \in [Workers -> Work]
    BY <1>23, <2>1, GoesTypes, Zenon DEF ToUnknown
  <2> QED BY <1>23, <2>2 DEF ToUnknown, Holds, Done, Errs, Fault, world
<1>24. CASE UNCHANGED vars
  BY <1>24 DEF vars
<1> QED
  BY <1>1, <1>2, <1>3, <1>4, <1>5, <1>6, <1>7, <1>8, <1>9, <1>10, <1>11, <1>12, <1>13,
     <1>14, <1>15, <1>16, <1>17, <1>18, <1>19, <1>20, <1>21, <1>22, <1>23, <1>24
     DEF Next, Step, Row

\* Types, and the bound on the failures before the IM is called (casPreIMFailure).
THEOREM Types == Spec => []TypeOK
<1>1. TypeInv => TypeOK
  BY DEF TypeInv
<1>2. TypeInv /\ [Next /\ UNCHANGED engine]_<<vars, engine>> => TypeInv'
  BY NextTypes DEF Steps
<1> QED BY InitTypes, <1>1, <1>2, PTL DEF Spec

-----------------------------------------------------------------------------
(* At most one message. *)

Asleep == {"idle", "sweep", "claim", "check"}
Given == {"sending", "record"}

\* What makes AtMostOnce inductive: a row won for a message that has not gone out is named
\* by no earlier message and is won by one worker only; a row of a message that has gone
\* out is counted.
WonUnasked == \A w \in Workers, u \in Members :
    wk[w].pc = "mark" /\ u \in wk[w].win => status[u] \in {"dispatching", "unknown"} /\ asked[u] = 0
WonByOne == \A v, w \in Workers, u \in Members :
    wk[v].pc = "mark" /\ wk[w].pc = "mark" /\ u \in wk[v].win /\ u \in wk[w].win => v = w
GivenAsked == \A w \in Workers, u \in Members :
    wk[w].pc \in Given /\ u \in wk[w].win => asked[u] = 1
WonLate == \A w \in Workers : wk[w].pc \in Asleep => wk[w].win = {}

Sound == AtMostOnce /\ LedgerTruthful /\ WonUnasked /\ WonByOne /\ GivenAsked /\ WonLate
IInv == TypeInv /\ Sound

\* What every step but winning a row and sending does to the rows and the workers.
RowQuiet(u) ==
    \/ status'[u] = status[u]
    \/ status[u] \in Before /\ status'[u] \in Before
    \/ status'[u] \in {"dispatching", "unknown"}
    \/ status'[u] = "sent" /\ asked[u] = 1
WorkerQuiet(v) ==
    \/ wk'[v].win = {}
    \/ /\ wk'[v].win \subseteq wk[v].win
       /\ wk'[v].pc = wk[v].pc \/ (wk[v].pc = "sending" /\ wk'[v].pc = "record")

\* Such a step keeps the invariant.
LEMMA QuietSound ==
  ASSUME TypeInv, TypeInv', Sound, asked' = asked,
         \A u \in Members : RowQuiet(u), \A v \in Workers : WorkerQuiet(v)
  PROVE  Sound'
<1> USE DEF Sound, RowQuiet, WorkerQuiet, Before, Asleep, Given
<1>1. AtMostOnce' /\ LedgerTruthful'
  BY DEF AtMostOnce, LedgerTruthful
<1>2. WonUnasked'
  BY DEF WonUnasked, LedgerTruthful
<1>3. WonByOne'
  BY DEF WonByOne
<1>4. GivenAsked'
  BY DEF GivenAsked
<1>5. WonLate'
  BY DEF WonLate
<1> QED BY <1>1, <1>2, <1>3, <1>4, <1>5

\* A worker that goes on to r leaves the others alone, and has r's phase and rows.
LEMMA GoesFields ==
  ASSUME wk \in [Workers -> Work], NEW w \in Workers, NEW r, NEW pc, NEW win,
         IsWork(r, pc, win), Goes(w, r)
  PROVE  /\ wk'[w].pc = pc /\ wk'[w].win = win
         /\ \A v \in Workers : v # w => wk'[v] = wk[v]
<1>1. r \in Work /\ r.pc = pc /\ r.win = win
  BY DEF IsWork
<1>2. [r EXCEPT !.used = 0].pc = pc /\ [r EXCEPT !.used = 0].win = win
  BY <1>1 DEF Work
<1> QED BY <1>2 DEF Goes

\* A worker that keeps its phase and wins no row, and one that starts over, are quiet.
LEMMA GoesQuiet ==
  ASSUME wk \in [Workers -> Work], NEW w \in Workers, NEW r, NEW pc, NEW win,
         IsWork(r, pc, win), Goes(w, r),
         win = {} \/ (win \subseteq wk[w].win /\ pc = wk[w].pc)
  PROVE  \A v \in Workers : WorkerQuiet(v)
  BY GoesFields, Zenon DEF WorkerQuiet

\* The invariant holds initially.
LEMMA InitSound == Init => Sound
  BY DEF Init, Sound, AtMostOnce, LedgerTruthful, WonUnasked, WonByOne, GivenAsked, WonLate,
         Before, NoWork, Given, Asleep

\* Every step keeps it: only winning a row and sending need more than quietness.
LEMMA NextSound == IInv /\ Steps => Sound'
<1> SUFFICES ASSUME TypeInv, Sound, [Next]_vars, TypeInv' PROVE Sound'
  BY NextTypes DEF IInv, Steps
<1>0. /\ wk \in [Workers -> Work] /\ status \in [Members -> Status]
      /\ asked \in [Members -> Nat] /\ wk' \in [Workers -> Work]
      /\ status' \in [Members -> Status]
  BY DEF TypeInv, TypeOK
<1>t. wk \in [Workers -> Work]
  BY <1>0
<1>w. \A w \in Workers : wk[w] \in Work
  BY <1>t
<1>1. ASSUME UNCHANGED <<status, asked, wk>> PROVE Sound'
  BY <1>1, QuietSound DEF RowQuiet, WorkerQuiet
<1>2. ASSUME NEW u \in Members, Join(u) \/ Leave(u) \/ Notice(u) \/ BecomesDue(u)
      PROVE  Sound'
  BY <1>1, <1>2 DEF Join, Leave, Notice, BecomesDue, ledger
<1>3. CASE Toggle \/ MoveWindow
  BY <1>1, <1>3 DEF Toggle, MoveWindow, ledger
<1>4. ASSUME NEW u \in Members, NEW path \in Paths, Upsert(u, path) PROVE Sound'
  <2>1. \A x \in Members : RowQuiet(x)
    BY <1>0, <1>4 DEF Upsert, Insertable, RowQuiet, ledger, Before
  <2> QED BY <1>4, <2>1, QuietSound DEF Upsert, WorkerQuiet
<1>5. CASE Tick
  <2>1. \A v \in Workers : wk'[v].win = wk[v].win /\ wk'[v].pc = wk[v].pc
    BY <1>0, <1>5 DEF Tick, Work
  <2> QED BY <1>5, <2>1, QuietSound DEF Tick, RowQuiet, WorkerQuiet
<1>6. ASSUME NEW w \in Workers, Claim(w) PROVE Sound'
  <2>1. /\ IsWork(NoWork, "idle", {})
        /\ \A S \in SUBSET Members : IsWork([NoWork EXCEPT !.pc = "check", !.todo = S], "check", {})
    BY FreshWork, Zenon
  <2>2. \A v \in Workers : WorkerQuiet(v)
    BY <1>t, <1>6, <2>1, GoesQuiet, Zenon DEF Claim, Claimable
  <2>3. \A x \in Members : RowQuiet(x)
    BY <1>0, <1>6 DEF Claim, Claimable, RowQuiet, Before
  <2> QED BY <1>6, <2>2, <2>3, QuietSound DEF Claim
<1>7. ASSUME NEW w \in Workers, Answer(w) PROVE Sound'
  <2>1. \A g \in BOOLEAN :
          IsWork([wk[w] EXCEPT !.pc = "record", !.good = g], "record", wk[w].win)
    BY <1>w, FreshWork, Zenon
  <2>2. PICK g \in BOOLEAN : Goes(w, [wk[w] EXCEPT !.pc = "record", !.good = g])
    BY <1>7, Zenon DEF Answer
  <2>3. /\ wk'[w].pc = "record" /\ wk'[w].win = wk[w].win
        /\ \A v \in Workers : v # w => wk'[v] = wk[v]
    BY <1>t, <2>1, <2>2, GoesFields, Zenon
  <2>4. wk[w].pc = "sending"
    BY <1>7 DEF Answer
  <2>5. \A v \in Workers : WorkerQuiet(v)
    BY <2>3, <2>4 DEF WorkerQuiet
  <2> QED BY <1>7, <2>5, QuietSound DEF Answer, RowQuiet, ledger
<1>8. ASSUME NEW w \in Workers, SweepClaimed(w) PROVE Sound'
  <2>1. /\ IsWork([wk[w] EXCEPT !.pc = "sweep"], "sweep", wk[w].win)
    BY <1>w, PhaseEdits, Zenon
  <2>e. wk[w].win = {}
    BY <1>8 DEF SweepClaimed, Sound, WonLate, Asleep
  <2>2. \A v \in Workers : WorkerQuiet(v)
    BY <1>t, <1>8, <2>1, <2>e, GoesQuiet, Zenon DEF SweepClaimed
  <2>3. \A x \in Members : RowQuiet(x)
    BY <1>0, <1>8 DEF SweepClaimed, RowQuiet, Before, SweptBack
  <2> QED BY <1>8, <2>2, <2>3, QuietSound DEF SweepClaimed
<1>9. ASSUME NEW w \in Workers, SweepDispatching(w) PROVE Sound'
  <2>1. /\ IsWork([wk[w] EXCEPT !.pc = "claim"], "claim", wk[w].win)
    BY <1>w, PhaseEdits, Zenon
  <2>e. wk[w].win = {}
    BY <1>9 DEF SweepDispatching, Sound, WonLate, Asleep
  <2>2. \A v \in Workers : WorkerQuiet(v)
    BY <1>t, <1>9, <2>1, <2>e, GoesQuiet, Zenon DEF SweepDispatching
  <2>3. \A x \in Members : RowQuiet(x)
    BY <1>0, <1>9 DEF SweepDispatching, RowQuiet, Before
  <2> QED BY <1>9, <2>2, <2>3, QuietSound DEF SweepDispatching
<1>10. ASSUME NEW w \in Workers, Sleep(w) PROVE Sound'
  <2>1. IsWork(NoWork, "idle", {})
    BY FreshWork, Zenon
  <2>2. \A v \in Workers : WorkerQuiet(v)
    BY <1>t, <1>10, <2>1, GoesQuiet, Zenon DEF Sleep
  <2> QED BY <1>10, <2>2, QuietSound DEF Sleep, RowQuiet, ledger
<1>11. ASSUME NEW w \in Workers, Preflight(w) PROVE Sound'
  <2>1. /\ IsWork([wk[w] EXCEPT !.pc = "mark"], "mark", wk[w].win)
        /\ IsWork([wk[w] EXCEPT !.ok = {}, !.fail = wk[w].ok], wk[w].pc, wk[w].win)
    BY <1>w, PhaseEdits, Zenon
  <2>e. wk[w].win = {}
    BY <1>11 DEF Preflight, Checked, Sound, WonLate, Asleep
  <2>2. \A v \in Workers : WorkerQuiet(v)
    BY <1>t, <1>11, <2>1, <2>e, GoesQuiet, Zenon DEF Preflight
  <2> QED BY <1>11, <2>2, QuietSound DEF Preflight, RowQuiet, ledger
<1>12. ASSUME NEW w \in Workers, BatchEnds(w) PROVE Sound'
  <2>1. \/ Goes(w, [NoWork EXCEPT !.pc = "idle"]) /\ IsWork([NoWork EXCEPT !.pc = "idle"], "idle", {})
        \/ Goes(w, [NoWork EXCEPT !.pc = "claim"]) /\ IsWork([NoWork EXCEPT !.pc = "claim"], "claim", {})
    BY <1>12, FreshWork, Zenon DEF BatchEnds
  <2>2. \A v \in Workers : WorkerQuiet(v)
    BY <1>t, <1>12, <2>1, GoesQuiet, Zenon
  <2> QED BY <1>12, <2>2, QuietSound DEF BatchEnds, RowQuiet, ledger
<1>13. ASSUME NEW w \in Workers, Dies(w) PROVE Sound'
  <2>1. IsWork(NoWork, "idle", {})
    BY FreshWork, Zenon
  <2>2. \A v \in Workers : WorkerQuiet(v)
    BY <1>t, <1>13, <2>1, GoesQuiet, Zenon DEF Dies
  <2> QED BY <1>13, <2>2, QuietSound DEF Dies, RowQuiet, ledger
<1>14. ASSUME NEW w \in Workers, NEW u \in Members, Precheck(w, u) PROVE Sound'
  <2>1. /\ IsWork([wk[w] EXCEPT !.todo = @ \ {u}, !.ok = @ \cup {u}], wk[w].pc, wk[w].win)
        /\ IsWork([wk[w] EXCEPT !.todo = @ \ {u}, !.skip = {u}], wk[w].pc, wk[w].win)
        /\ IsWork([wk[w] EXCEPT !.todo = @ \ {u}, !.fail = {u}], wk[w].pc, wk[w].win)
    BY <1>w, RowEdits, Zenon
  <2>2. \A v \in Workers : WorkerQuiet(v)
    BY <1>t, <1>14, <2>1, GoesQuiet, Zenon DEF Precheck
  <2> QED BY <1>14, <2>2, QuietSound DEF Precheck, RowQuiet, ledger
<1>15. ASSUME NEW w \in Workers, NEW u \in Members, Skip(w, u) PROVE Sound'
  <2>1. /\ IsWork([wk[w] EXCEPT !.skip = @ \ {u}], wk[w].pc, wk[w].win)
    BY <1>w, RowEdits, Zenon
  <2>2. \A v \in Workers : WorkerQuiet(v)
    BY <1>t, <1>15, <2>1, GoesQuiet, Zenon DEF Skip
  <2>3. \A x \in Members : RowQuiet(x)
    BY <1>0, <1>15 DEF Skip, RowQuiet, Before, Holds
  <2> QED BY <1>15, <2>2, <2>3, QuietSound DEF Skip
<1>16. ASSUME NEW w \in Workers, NEW u \in Members, PreIMFailure(w, u) PROVE Sound'
  <2>1. /\ IsWork([wk[w] EXCEPT !.fail = @ \ {u}], wk[w].pc, wk[w].win)
    BY <1>w, RowEdits, Zenon
  <2>2. \A v \in Workers : WorkerQuiet(v)
    BY <1>t, <1>16, <2>1, GoesQuiet, Zenon DEF PreIMFailure
  <2>3. \A x \in Members : RowQuiet(x)
    BY <1>0, <1>16 DEF PreIMFailure, RowQuiet, Before, Holds
  <2> QED BY <1>16, <2>2, <2>3, QuietSound DEF PreIMFailure
<1>17. ASSUME NEW w \in Workers, NEW u \in Members, Record(w, u) PROVE Sound'
  <2>1. /\ IsWork([wk[w] EXCEPT !.win = @ \ {u}], wk[w].pc, wk[w].win \ {u})
        /\ IsWork([wk[w] EXCEPT !.win = @ \ {u}, !.amb = {u}], wk[w].pc, wk[w].win \ {u})
    BY <1>w, RowEdits, Zenon
  <2>2. \A v \in Workers : WorkerQuiet(v)
    <3>1. wk[w].win \ {u} \subseteq wk[w].win
      OBVIOUS
    <3> QED BY <1>t, <1>17, <2>1, <3>1, GoesQuiet, Zenon DEF Record
  <2>3. \A x \in Members : RowQuiet(x)
    BY <1>0, <1>17 DEF Record, RowQuiet, Before, GivenAsked, Given, Sound
  <2> QED BY <1>17, <2>2, <2>3, QuietSound DEF Record
<1>18. ASSUME NEW w \in Workers, NEW u \in Members, ToUnknown(w, u) PROVE Sound'
  <2>1. /\ IsWork([wk[w] EXCEPT !.win = @ \ {u}, !.amb = @ \ {u}], wk[w].pc, wk[w].win \ {u})
    BY <1>w, RowEdits, Zenon
  <2>2. \A v \in Workers : WorkerQuiet(v)
    <3>1. wk[w].win \ {u} \subseteq wk[w].win
      OBVIOUS
    <3> QED BY <1>t, <1>18, <2>1, <3>1, GoesQuiet, Zenon DEF ToUnknown
  <2>3. \A x \in Members : RowQuiet(x)
    BY <1>0, <1>18 DEF ToUnknown, RowQuiet, Before
  <2> QED BY <1>18, <2>2, <2>3, QuietSound DEF ToUnknown
<1>19. ASSUME NEW w \in Workers, NEW u \in Members, Mark(w, u) PROVE Sound'
  <2> DEFINE Won == [wk[w] EXCEPT !.ok = @ \ {u}, !.win = @ \cup {u}]
  <2>1. /\ IsWork([wk[w] EXCEPT !.ok = @ \ {u}, !.fail = {u}], wk[w].pc, wk[w].win)
        /\ IsWork([wk[w] EXCEPT !.ok = @ \ {u}], wk[w].pc, wk[w].win)
    BY <1>w, RowEdits, Zenon
  <2>2. \A x \in Members : RowQuiet(x)
    BY <1>0, <1>19 DEF Mark, RowQuiet
  <2>3. asked' = asked
    BY <1>19 DEF Mark
  <2>4. ASSUME ~ Goes(w, Won) PROVE Sound'
    <3>1. \A v \in Workers : WorkerQuiet(v)
      BY <1>t, <1>19, <2>1, <2>4, GoesQuiet, Zenon DEF Mark
    <3> QED BY <2>2, <2>3, <3>1, QuietSound
  <2>5. CASE Goes(w, Won) /\ ~ (Holds(w, u, "claimed") /\ status' = [status EXCEPT ![u] = "dispatching"])
    <3>1. \A v \in Workers : WorkerQuiet(v)
      BY <1>t, <1>19, <2>1, <2>5, GoesQuiet, Zenon DEF Mark
    <3> QED BY <2>2, <2>3, <3>1, QuietSound
  <2>6. CASE Goes(w, Won) /\ Holds(w, u, "claimed") /\ status' = [status EXCEPT ![u] = "dispatching"]
    <3>1. IsWork(Won, wk[w].pc, wk[w].win \cup {u})
      BY <1>w, RowEdits, Zenon
    <3> HIDE DEF Won
    <3>2. /\ wk'[w].pc = "mark" /\ wk[w].pc = "mark" /\ wk'[w].win = wk[w].win \cup {u}
          /\ \A v \in Workers : v # w => wk'[v] = wk[v]
      <4>1. wk[w].pc = "mark"
        BY <1>19 DEF Mark
      <4> QED BY <1>t, <2>6, <3>1, <4>1, GoesFields, Zenon
    <3>3. /\ status[u] = "claimed" /\ asked[u] = 0 /\ status'[u] = "dispatching"
          /\ \A x \in Members : x # u => status'[x] = status[x]
      BY <1>0, <2>6 DEF Holds, Sound, LedgerTruthful, Before
    <3>4. AtMostOnce' /\ LedgerTruthful'
      BY <2>3, <3>3 DEF Sound, AtMostOnce, LedgerTruthful, Before
    <3>5. WonUnasked'
      BY <2>3, <3>2, <3>3 DEF Sound, WonUnasked
    <3>6. WonByOne'
      BY <3>2, <3>3 DEF Sound, WonByOne, WonUnasked
    <3>7. GivenAsked' /\ WonLate'
      BY <2>3, <3>2 DEF Sound, GivenAsked, WonLate, Given, Asleep
    <3> QED BY <3>4, <3>5, <3>6, <3>7 DEF Sound
  <2> QED BY <2>4, <2>5, <2>6
<1>20. ASSUME NEW w \in Workers, Send(w) PROVE Sound'
  <2>1. /\ IsWork([wk[w] EXCEPT !.pc = "sending"], "sending", wk[w].win)
    BY <1>w, PhaseEdits, Zenon
  <2>g. wk[w].pc = "mark" /\ Goes(w, [wk[w] EXCEPT !.pc = "sending"])
    BY <1>20, Zenon DEF Send
  <2>2. /\ wk[w].pc = "mark" /\ wk'[w].pc = "sending" /\ wk'[w].win = wk[w].win
        /\ \A v \in Workers : v # w => wk'[v] = wk[v]
    BY <1>t, <2>1, <2>g, GoesFields, Zenon
  <2>3. /\ status' = status
        /\ \A u \in wk[w].win : u \in Members /\ asked[u] = 0 /\ asked'[u] = 1
        /\ \A u \in Members \ wk[w].win : asked'[u] = asked[u]
    <3>1. wk[w].win \subseteq Members
      BY <1>0 DEF Work
    <3> QED BY <1>0, <1>20, <2>2, <3>1 DEF Send, ledger, Sound, WonUnasked
  <2>4. \A u \in wk[w].win : status[u] \in {"dispatching", "unknown"}
    BY <2>2, <2>3 DEF Sound, WonUnasked
  <2>5. AtMostOnce' /\ LedgerTruthful'
    BY <2>3, <2>4 DEF Sound, AtMostOnce, LedgerTruthful, Before
  <2>6. WonUnasked'
    BY <2>2, <2>3 DEF Sound, WonUnasked, WonByOne
  <2>7. WonByOne'
    BY <2>2 DEF Sound, WonByOne
  <2>8. GivenAsked'
    BY <2>2, <2>3 DEF Sound, GivenAsked, Given
  <2>9. WonLate'
    BY <2>2 DEF Sound, WonLate, Asleep
  <2> QED BY <2>5, <2>6, <2>7, <2>8, <2>9 DEF Sound
<1>21. CASE UNCHANGED vars
  BY <1>1, <1>21 DEF vars
<1> QED
  BY <1>2, <1>3, <1>4, <1>5, <1>6, <1>7, <1>8, <1>9, <1>10, <1>11, <1>12, <1>13, <1>14, <1>15, <1>16, <1>17, <1>18, <1>19, <1>20, <1>21 DEF Next, Step, Row

\* The invariant holds in every state.
LEMMA Invariance == Spec => []IInv
<1>1. Init => IInv
  BY InitTypes, InitSound DEF IInv
<1>2. IInv /\ [Next /\ UNCHANGED engine]_<<vars, engine>> => IInv'
  BY NextTypes, NextSound DEF IInv, Steps
<1> QED BY <1>1, <1>2, PTL DEF Spec

\* No member is named in two welcome messages (the claim and the mark ask for the status and
\* the owner, and no sweep gives a marked row back).
THEOREM OneWelcome == Spec => []AtMostOnce
<1>1. IInv => AtMostOnce
  BY DEF IInv, Sound
<1> QED BY Invariance, <1>1, PTL

\* No row is wrong about what was sent: one that is before its mark, skipped or failed has
\* no message, one that is sent has one.
THEOREM LedgerRight == Spec => []LedgerTruthful
<1>1. IInv => LedgerTruthful
  BY DEF IInv, Sound
<1> QED BY Invariance, <1>1, PTL

\* The ledger's promises, together: types, one message at most, and the truth about it.
THEOREM LedgerIsSound == Spec => []LedgerSound
<1>1. TypeOK /\ AtMostOnce /\ LedgerTruthful => LedgerSound
  BY DEF LedgerSound
<1> QED BY Types, OneWelcome, LedgerRight, <1>1, PTL

\* No step takes a row out of a status that records its fate.
LEMMA NextKeeps ==
  TypeInv /\ [Next]_vars =>
    \A u \in Members : status[u] \in Terminal => status'[u] = status[u]
<1> SUFFICES ASSUME TypeInv, [Next]_vars, NEW x \in Members, status[x] \in Terminal
             PROVE  status'[x] = status[x]
  OBVIOUS
<1>0. status \in [Members -> Status]
  BY DEF TypeInv, TypeOK
<1> USE DEF Terminal
<1>1. ASSUME NEW u \in Members,
             Join(u) \/ Leave(u) \/ Notice(u) \/ BecomesDue(u) \/ \E path \in Paths : Upsert(u, path)
      PROVE  status'[x] = status[x]
  BY <1>0, <1>1 DEF Join, Leave, Notice, BecomesDue, Upsert, Insertable, ledger
<1>2. CASE Toggle \/ MoveWindow \/ Tick \/ UNCHANGED vars
  BY <1>2 DEF Toggle, MoveWindow, Tick, ledger, vars
<1>3. ASSUME NEW w \in Workers,
             SweepClaimed(w) \/ SweepDispatching(w) \/ Claim(w)
      PROVE  status'[x] = status[x]
  BY <1>0, <1>3 DEF SweepClaimed, SweepDispatching, Claim, Claimable, SweptBack
<1>4. ASSUME NEW w \in Workers,
             Sleep(w) \/ Preflight(w) \/ Send(w) \/ Answer(w) \/ BatchEnds(w) \/ Dies(w)
      PROVE  status'[x] = status[x]
  BY <1>4 DEF Sleep, Preflight, Send, Answer, BatchEnds, Dies, ledger
<1>5. ASSUME NEW w \in Workers, NEW u \in Members, Row(w, u) PROVE status'[x] = status[x]
  BY <1>0, <1>5 DEF Row, Precheck, Skip, PreIMFailure, Mark, Record, ToUnknown, Holds, ledger
<1> QED BY <1>1, <1>2, <1>3, <1>4, <1>5 DEF Next, Step

\* A row whose fate is recorded keeps it.
THEOREM FateKept == Spec => TerminalStays
<1>1. TypeInv /\ [Next]_vars =>
        [\A u \in Members : status[u] \in Terminal => status'[u] = status[u]]_vars
  BY NextKeeps
<1>2. TypeInv /\ [Next /\ UNCHANGED engine]_<<vars, engine>> => TypeInv'
  BY NextTypes DEF Steps
<1>3. TypeInv /\ [Next /\ UNCHANGED engine]_<<vars, engine>> =>
        [\A u \in Members : status[u] \in Terminal => status'[u] = status[u]]_vars
  BY <1>1
<1> QED BY InitTypes, <1>2, <1>3, PTL DEF Spec, TerminalStays

-----------------------------------------------------------------------------
(* The lease outlives the call. *)

Late == {"mark", "sending", "record"}

\* With a batch of one, a worker has at most one row, in one of its hands: a row that is won
\* leaves nothing else to do before the message is sent.
Lone(r) ==
    /\ \A u, v \in r.todo \cup r.ok : u = v
    /\ r.pc \in Late => r.todo = {} /\ r.skip = {}
    /\ r.win # {} => r.pc \in Late /\ r.ok = {} /\ r.fail = {}

\* How much of the lease the present call has not been able to use up.
Spared(r) == IF r.pc = "sending" THEN Lease - 1 ELSE Lease
LimitAt(pc) == IF pc = "sending" THEN HttpTime ELSE 1

\* A call is within its timeout, and the row that was won for it is leased to its worker.
Leased(w, r) ==
    /\ r.pc # "idle" => r.used <= LimitAt(r.pc)
    /\ r.pc \in {"mark", "sending"} => \A u \in r.win :
           status[u] = "dispatching" /\ owner[u] = w /\ left[u] + r.used >= Spared(r)

InTime == Timed /\ BatchMax = 1 => \A w \in Workers : Lone(wk[w]) /\ Leased(w, wk[w])

\* A row that another worker is sending under a lease that stands.
Spares(w, u) ==
    status[u] = "dispatching" /\ owner[u] # w /\ left[u] > 0 =>
        status'[u] = status[u] /\ owner'[u] = owner[u] /\ left'[u] = left[u]

\* The lease of a row that is won has not run out.
LEMMA LeaseStands ==
  ASSUME TypeInv, InTime, Timed, BatchMax = 1, NEW w \in Workers, NEW u \in wk[w].win,
         wk[w].pc \in {"mark", "sending"}
  PROVE  u \in Members /\ left[u] > 0 /\ status[u] = "dispatching" /\ owner[u] = w
<1>1. /\ Lease \in Nat /\ HttpTime \in Nat /\ Lease > HttpTime + 1
      /\ HttpTime >= 1
  BY WelcomeAssumption, EngineFacts DEF TypeInv, TypeOK, Lease, HttpTime, Timed
<1>2. wk[w] \in Work /\ u \in Members /\ left[u] \in Nat /\ wk[w].used \in Nat
  BY <1>1 DEF TypeInv, TypeOK, Work
<1>3. Leased(w, wk[w])
  BY DEF InTime
<1> QED BY <1>1, <1>2, <1>3 DEF Leased, LimitAt, Spared

\* A worker's step keeps the leases when what it goes on to is lone and leased and it spares
\* the rows that others send.
LEMMA TurnInTime ==
  ASSUME TypeInv, InTime, UNCHANGED engine, NEW w \in Workers, NEW r \in Work, wk' = [wk EXCEPT ![w] = r],
         Timed /\ BatchMax = 1 => Lone(r) /\ Leased(w, r)',
         \A u \in Members : Spares(w, u)
  PROVE  InTime'
<1>1. Timed' = Timed /\ BatchMax' = BatchMax /\ Lease' = Lease /\ HttpTime' = HttpTime
  BY DEF Timed, BatchMax, Lease, HttpTime
<1> SUFFICES ASSUME Timed, BatchMax = 1, NEW v \in Workers
             PROVE  (Lone(wk[v]) /\ Leased(v, wk[v]))'
  BY <1>1 DEF InTime
<1>2. wk \in [Workers -> Work]
  BY DEF TypeInv, TypeOK
<1>3. CASE v = w
  <2>1. wk'[v] = r
    BY <1>2, <1>3
  <2> QED BY <1>1, <1>3, <2>1 DEF Lone, Leased, LimitAt, Spared
<1>4. CASE v # w
  <2>1. wk'[v] = wk[v]
    BY <1>2, <1>4
  <2>2. \A u \in wk[v].win : wk[v].pc \in {"mark", "sending"} =>
          status'[u] = status[u] /\ owner'[u] = owner[u] /\ left'[u] = left[u]
    BY <1>4, LeaseStands DEF Spares
  <2>3. Lone(wk[v]) /\ Leased(v, wk[v])
    BY DEF InTime
  <2> QED BY <1>1, <2>1, <2>2, <2>3 DEF Lone, Leased, LimitAt, Spared
<1> QED BY <1>3, <1>4

\* So does a step that leaves the worker with no row won for a call, a call just begun.
LEMMA EmptyInTime ==
  ASSUME TypeInv, InTime, UNCHANGED engine, NEW w \in Workers, NEW r \in Work, Goes(w, r),
         Timed /\ BatchMax = 1 => Lone(r),
         r.win = {} \/ r.pc = "record",
         \A u \in Members : Spares(w, u)
  PROVE  InTime'
<1> DEFINE R == [r EXCEPT !.used = 0]
<1>1. /\ R \in Work /\ R.pc = r.pc /\ R.win = r.win /\ R.used = 0
      /\ R.todo = r.todo /\ R.ok = r.ok /\ R.skip = r.skip /\ R.fail = r.fail
      /\ wk' = [wk EXCEPT ![w] = R]
  BY DEF Goes, Work
<1>2. HttpTime' \in Nat
  BY EngineFacts DEF TypeInv, TypeOK, HttpTime
<1> HIDE DEF R
<1>3. Timed /\ BatchMax = 1 => Lone(R) /\ Leased(w, R)'
  BY <1>1, <1>2 DEF Lone, Leased, LimitAt
<1> QED BY <1>1, <1>3, TurnInTime

\* A batch of one is one row.
LEMMA BatchOfOne ==
  ASSUME NEW S \in SUBSET Members, S # {}, Cardinality(S) <= 1
  PROVE  \A u, v \in S : u = v
<1>1. IsFiniteSet(S) /\ Cardinality(S) \in Nat
  BY WelcomeAssumption, FS_Subset, FS_CardinalityType
<1>2. Cardinality(S) # 0
  BY <1>1, FS_EmptySet
<1>3. Cardinality(S) = 1
  BY <1>1, <1>2
<1> QED BY <1>1, <1>3, FS_Singleton

\* Leases and calls run down together, and no call past its timeout.
LEMMA TickInTime == TypeInv /\ InTime /\ UNCHANGED engine /\ Tick => InTime'
<1> SUFFICES ASSUME TypeInv, InTime, UNCHANGED engine, Tick, Timed, BatchMax = 1, NEW w \in Workers
             PROVE  (Lone(wk[w]) /\ Leased(w, wk[w]))'
  BY DEF InTime, Timed, BatchMax
<1>0. Lease' = Lease /\ HttpTime' = HttpTime /\ Lease \in Nat /\ HttpTime \in Nat
  BY EngineFacts DEF TypeInv, TypeOK, Lease, HttpTime
<1> DEFINE n == IF wk[w].pc = "idle" THEN 0 ELSE wk[w].used + 1
<1>1. /\ wk'[w] = [wk[w] EXCEPT !.used = n] /\ wk[w] \in Work
      /\ status' = status /\ owner' = owner
      /\ \A u \in Members : left'[u] = IF left[u] > 0 THEN left[u] - 1 ELSE 0
      /\ wk[w].pc # "idle" => wk[w].used < LimitAt(wk[w].pc)
  BY DEF Tick, TypeInv, TypeOK, Work, Limit, LimitAt
<1>2. /\ wk'[w].pc = wk[w].pc /\ wk'[w].used = n /\ wk'[w].todo = wk[w].todo
      /\ wk'[w].ok = wk[w].ok /\ wk'[w].skip = wk[w].skip /\ wk'[w].fail = wk[w].fail
      /\ wk'[w].win = wk[w].win /\ wk[w].used \in Nat /\ wk[w].win \subseteq Members
  BY <1>1 DEF Work
<1>3. Lone(wk[w]) /\ Leased(w, wk[w])
  BY DEF InTime
<1>4. \A u \in Members : left[u] \in Nat /\ left'[u] \in Nat /\ left'[u] + 1 >= left[u]
  BY <1>0, <1>1 DEF TypeInv, TypeOK
<1> HIDE DEF Tick
<1>5. Lone(wk[w])'
  BY <1>2, <1>3 DEF Lone
<1>6. wk[w].pc # "idle" => wk[w].used + 1 <= LimitAt(wk[w].pc)
  BY <1>0, <1>1, <1>2 DEF LimitAt
<1>7. wk[w].pc \in {"mark", "sending"} => \A u \in wk[w].win :
          status'[u] = "dispatching" /\ owner'[u] = w /\ left'[u] + n >= Spared(wk[w])
  BY <1>0, <1>1, <1>2, <1>3, <1>4 DEF Leased, Spared
<1>8. LimitAt(wk[w].pc)' = LimitAt(wk[w].pc) /\ Spared(wk[w])' = Spared(wk[w])
  BY <1>0, <1>2 DEF LimitAt, Spared
<1>9. Leased(w, wk[w])'
  BY <1>2, <1>6, <1>7, <1>8 DEF Leased
<1> QED BY <1>5, <1>9

\* A step of nobody's worker keeps the leases when it touches no row that is being sent.
LEMMA OthersInTime ==
  ASSUME TypeInv, InTime, UNCHANGED engine, wk' = wk, owner' = owner, left' = left,
         \A u \in Members : status[u] = "dispatching" => status'[u] = status[u]
  PROVE  InTime'
<1>1. /\ Timed' = Timed /\ BatchMax' = BatchMax /\ Lease' = Lease /\ HttpTime' = HttpTime
  BY DEF Timed, BatchMax, Lease, HttpTime
<1> SUFFICES ASSUME Timed, BatchMax = 1, NEW w \in Workers
             PROVE  (Lone(wk[w]) /\ Leased(w, wk[w]))'
  BY <1>1 DEF InTime
<1>2. Lone(wk[w]) /\ Leased(w, wk[w]) /\ wk[w] \in Work
  BY DEF InTime, TypeInv, TypeOK
<1>3. Lone(wk[w])'
  BY <1>2 DEF Lone
<1>4. LimitAt(wk[w].pc)' = LimitAt(wk[w].pc) /\ Spared(wk[w])' = Spared(wk[w])
  BY <1>1 DEF LimitAt, Spared
<1>5. Leased(w, wk[w])'
  BY <1>2, <1>4 DEF Leased, Work
<1> QED BY <1>3, <1>5

\* The invariant holds initially.
LEMMA InitInTime == Init => InTime
<1> SUFFICES ASSUME Init, NEW w \in Workers PROVE Lone(wk[w]) /\ Leased(w, wk[w])
  BY DEF InTime
<1>1. wk[w] = NoWork
  BY DEF Init
<1> QED BY <1>1 DEF NoWork, Lone, Leased, Late

\* Every step keeps it: the sweeps wait for leases that have run out, the other statements
\* ask for the owner or for a row that is not being sent, and a row that is won starts a
\* lease of its own.
LEMMA NextInTime == IInv /\ InTime /\ Steps => InTime'
<1> SUFFICES ASSUME TypeInv, WonLate, InTime, [Next]_vars, UNCHANGED engine, Timed, BatchMax = 1
             PROVE  InTime'
  BY DEF IInv, Sound, Steps, InTime, Timed, BatchMax
<1>0. /\ wk \in [Workers -> Work] /\ status \in [Members -> Status]
      /\ owner \in [Members -> Workers \cup {NoOwner}] /\ left \in [Members -> 0..Lease]
      /\ Lease \in Nat \ {0} /\ HttpTime \in Nat \ {0} /\ Timed \in BOOLEAN /\ BatchMax \in Nat \ {0}
      /\ Lease' = Lease /\ HttpTime' = HttpTime
      /\ Lease > HttpTime + 1
  BY WelcomeAssumption, EngineFacts DEF TypeInv, TypeOK, Lease, HttpTime, Timed
<1>a. \A w \in Workers : wk[w].pc \in Asleep => wk[w].win = {}
  BY DEF WonLate
<1>b. \A w \in Workers : Lone(wk[w]) /\ Leased(w, wk[w])
  BY DEF InTime
<1>1. ASSUME NEW u \in Members, Join(u) \/ Leave(u) \/ Notice(u) \/ BecomesDue(u)
                                \/ \E path \in Paths : Upsert(u, path)
      PROVE  InTime'
  <2>1. /\ wk' = wk /\ owner' = owner /\ left' = left
        /\ \A x \in Members : status[x] = "dispatching" => status'[x] = status[x]
    BY <1>0, <1>1 DEF Join, Leave, Notice, BecomesDue, Upsert, Insertable, ledger
  <2> QED BY <2>1, OthersInTime
<1>2. CASE Toggle \/ MoveWindow \/ UNCHANGED vars
  <2>1. wk' = wk /\ owner' = owner /\ left' = left /\ status' = status
    BY <1>2 DEF Toggle, MoveWindow, ledger, vars
  <2> QED BY <2>1, OthersInTime
<1>3. CASE Tick
  BY <1>3, TickInTime
<1>4. ASSUME NEW w \in Workers, SweepClaimed(w) PROVE InTime'
  <2> DEFINE r == [wk[w] EXCEPT !.pc = "sweep"]
  <2>1. r \in Work /\ r.win = {} /\ Lone(r)
    <3>1. wk[w] \in Work /\ Lone(wk[w]) /\ wk[w].win = {}
      BY <1>0, <1>a, <1>b, <1>4 DEF SweepClaimed, Asleep
    <3> QED BY <3>1 DEF Work, Lone, Late
  <2>2. \A x \in Members : Spares(w, x)
    BY <1>0, <1>4 DEF SweepClaimed, Spares, SweptBack
  <2>3. Goes(w, r)
    BY <1>4 DEF SweepClaimed
  <2> HIDE DEF r
  <2> QED BY <2>1, <2>2, <2>3, EmptyInTime
<1>5. ASSUME NEW w \in Workers, SweepDispatching(w) PROVE InTime'
  <2> DEFINE r == [wk[w] EXCEPT !.pc = "claim"]
  <2>1. r \in Work /\ r.win = {} /\ Lone(r)
    <3>1. wk[w] \in Work /\ Lone(wk[w]) /\ wk[w].win = {}
      BY <1>0, <1>a, <1>b, <1>5 DEF SweepDispatching, Asleep
    <3> QED BY <3>1 DEF Work, Lone, Late
  <2>2. \A x \in Members : Spares(w, x)
    BY <1>0, <1>5 DEF SweepDispatching, Spares
  <2>3. Goes(w, r)
    BY <1>5 DEF SweepDispatching
  <2> HIDE DEF r
  <2> QED BY <2>1, <2>2, <2>3, EmptyInTime
<1>6. NoWork \in Work /\ NoWork.win = {} /\ Lone(NoWork)
  BY DEF NoWork, Work, Lone, Late
<1>7. ASSUME NEW w \in Workers, Claim(w) PROVE InTime'
  <2>1. \A x \in Members : Spares(w, x)
    BY <1>0, <1>7 DEF Claim, Claimable, Spares
  <2>2. CASE Goes(w, NoWork)
    BY <1>6, <2>1, <2>2, EmptyInTime
  <2>3. CASE ~ Goes(w, NoWork)
    <3>1. PICK S \in SUBSET Claimable :
            S # {} /\ Cardinality(S) <= BatchMax /\ Goes(w, [NoWork EXCEPT !.pc = "check", !.todo = S])
      BY <1>7, <2>3, Zenon DEF Claim
    <3> DEFINE r == [NoWork EXCEPT !.pc = "check", !.todo = S]
    <3>2. S \in SUBSET Members
      BY DEF Claimable
    <3>3. \A u, v \in S : u = v
      BY <3>1, <3>2, BatchOfOne
    <3>4. /\ r \in Work /\ r.win = {} /\ r.pc = "check" /\ r.todo = S /\ r.ok = {}
      BY <3>2 DEF NoWork, Work
    <3>5. Goes(w, r)
      BY <3>1
    <3> HIDE DEF r
    <3>6. Lone(r)
      BY <3>3, <3>4 DEF Lone, Late
    <3> QED BY <2>1, <3>4, <3>5, <3>6, EmptyInTime
  <2> QED BY <2>2, <2>3
<1>8. ASSUME NEW w \in Workers, Sleep(w) \/ Dies(w) PROVE InTime'
  <2>1. Goes(w, NoWork) /\ \A x \in Members : Spares(w, x)
    BY <1>8 DEF Sleep, Dies, ledger, Spares
  <2> QED BY <1>6, <2>1, EmptyInTime
<1>9. ASSUME NEW w \in Workers, BatchEnds(w) PROVE InTime'
  <2> DEFINE r == [NoWork EXCEPT !.pc = IF Group THEN "idle" ELSE "claim"]
  <2>1. r \in Work /\ r.win = {} /\ Lone(r)
    BY DEF NoWork, Work, Lone, Late
  <2>2. Goes(w, r) /\ \A x \in Members : Spares(w, x)
    BY <1>9 DEF BatchEnds, ledger, Spares
  <2> HIDE DEF r
  <2> QED BY <2>1, <2>2, EmptyInTime
<1>10. ASSUME NEW w \in Workers, NEW u \in Members, Precheck(w, u) PROVE InTime'
  <2>1. \A x \in Members : Spares(w, x)
    BY <1>10 DEF Precheck, ledger, Spares
  <2>2. ASSUME NEW r \in {[wk[w] EXCEPT !.todo = @ \ {u}, !.ok = @ \cup {u}],
                          [wk[w] EXCEPT !.todo = @ \ {u}, !.skip = {u}],
                          [wk[w] EXCEPT !.todo = @ \ {u}, !.fail = {u}]}
        PROVE  r \in Work /\ r.win = {} /\ Lone(r)
    <3>1. /\ wk[w].pc = "check" /\ wk[w].win = {} /\ u \in wk[w].todo
      BY <1>a, <1>10 DEF Precheck, Asleep
    <3>2. wk[w] \in Work
      BY <1>0
    <3>3. /\ r \in Work /\ r.pc = "check" /\ r.win = {}
          /\ r.todo \cup r.ok \subseteq wk[w].todo \cup wk[w].ok
      <4>1. CASE r = [wk[w] EXCEPT !.todo = @ \ {u}, !.ok = @ \cup {u}]
        BY <3>1, <3>2, <4>1 DEF Work
      <4>2. CASE r = [wk[w] EXCEPT !.todo = @ \ {u}, !.skip = {u}]
        BY <3>1, <3>2, <4>2 DEF Work
      <4>3. CASE r = [wk[w] EXCEPT !.todo = @ \ {u}, !.fail = {u}]
        BY <3>1, <3>2, <4>3 DEF Work
      <4> QED BY <2>2, <4>1, <4>2, <4>3
    <3> QED BY <1>b, <3>1, <3>3 DEF Lone, Late
  <2> QED BY <1>10, <2>1, <2>2, EmptyInTime DEF Precheck
<1>11. ASSUME NEW w \in Workers, Preflight(w) PROVE InTime'
  <2>1. \A x \in Members : Spares(w, x)
    BY <1>11 DEF Preflight, ledger, Spares
  <2>2. ASSUME NEW r \in {[wk[w] EXCEPT !.pc = "mark"],
                          [wk[w] EXCEPT !.ok = {}, !.fail = wk[w].ok]}
        PROVE  r \in Work /\ r.win = {} /\ Lone(r)
    <3>1. /\ wk[w].pc = "check" /\ wk[w].win = {} /\ wk[w].todo = {} /\ wk[w].skip = {}
      BY <1>a, <1>11 DEF Preflight, Checked, Asleep
    <3>2. /\ r \in Work /\ r.win = {} /\ r.todo = {} /\ r.skip = {} /\ r.ok \subseteq wk[w].ok
      BY <1>0, <3>1 DEF Work
    <3> QED BY <1>b, <3>2 DEF Lone
  <2> QED BY <1>11, <2>1, <2>2, EmptyInTime DEF Preflight
<1>12. ASSUME NEW w \in Workers, NEW u \in Members, Skip(w, u) PROVE InTime'
  <2> DEFINE r == [wk[w] EXCEPT !.skip = @ \ {u}]
  <2>1. \A x \in Members : Spares(w, x)
    BY <1>0, <1>12 DEF Skip, Holds, Spares
  <2>2. wk[w] \in Work /\ Lone(wk[w]) /\ u \in wk[w].skip
    BY <1>0, <1>b, <1>12 DEF Skip
  <2>3. r \in Work /\ r.win = {} /\ Lone(r)
    BY <2>2 DEF Work, Lone
  <2>4. Goes(w, r)
    BY <1>12 DEF Skip
  <2> HIDE DEF r
  <2> QED BY <2>1, <2>3, <2>4, EmptyInTime
<1>13. ASSUME NEW w \in Workers, NEW u \in Members, PreIMFailure(w, u) PROVE InTime'
  <2> DEFINE r == [wk[w] EXCEPT !.fail = @ \ {u}]
  <2>1. \A x \in Members : Spares(w, x)
    BY <1>0, <1>13 DEF PreIMFailure, Holds, Spares
  <2>2. wk[w] \in Work /\ Lone(wk[w]) /\ u \in wk[w].fail
    BY <1>0, <1>b, <1>13 DEF PreIMFailure
  <2>3. r \in Work /\ r.win = {} /\ Lone(r)
    BY <2>2 DEF Work, Lone
  <2>4. Goes(w, r)
    BY <1>13 DEF PreIMFailure
  <2> HIDE DEF r
  <2> QED BY <2>1, <2>3, <2>4, EmptyInTime
<1>14. ASSUME NEW w \in Workers, NEW u \in Members, Mark(w, u) PROVE InTime'
  <2> DEFINE Won == [wk[w] EXCEPT !.ok = @ \ {u}, !.win = @ \cup {u}]
             Other == {[wk[w] EXCEPT !.ok = @ \ {u}, !.fail = {u}], [wk[w] EXCEPT !.ok = @ \ {u}]}
  <2>1. /\ Lone(wk[w]) /\ wk[w] \in Work /\ u \in wk[w].ok /\ wk[w].pc = "mark" /\ wk[w].fail = {}
    BY <1>0, <1>b, <1>14 DEF Mark
  <2>2. wk[w].win = {} /\ wk[w].todo = {} /\ wk[w].skip = {} /\ wk[w].ok = {u}
    BY <2>1 DEF Lone, Late
  <2>3. \A x \in Members : Spares(w, x)
    BY <1>0, <1>14 DEF Mark, Holds, Spares
  <2>4. ASSUME NEW r \in Other, Goes(w, r) PROVE InTime'
    <3>1. r \in Work /\ r.win = {} /\ r.todo = {} /\ r.skip = {} /\ r.ok = {}
      BY <2>1, <2>2 DEF Work
    <3>2. Lone(r)
      BY <3>1 DEF Lone
    <3> QED BY <2>3, <2>4, <3>1, <3>2, EmptyInTime
  <2>5. CASE \A r \in Other : ~ Goes(w, r)
    <3>a. [Won EXCEPT !.used = 0] \in Work
      BY <2>1 DEF Work
    <3>b. PICK R \in Work : R = [Won EXCEPT !.used = 0]
      BY <3>a
    <3>1. /\ owner[u] = w /\ status' = [status EXCEPT ![u] = "dispatching"]
          /\ left' = [left EXCEPT ![u] = Lease] /\ owner' = owner /\ wk' = [wk EXCEPT ![w] = R]
      BY <1>14, <2>5, <3>b DEF Mark, Holds, MarkLease, Goes
    <3>2. /\ R \in Work /\ R.pc = "mark" /\ R.used = 0 /\ R.win = {u} /\ R.todo = {} /\ R.ok = {}
          /\ R.skip = {} /\ R.fail = {}
      BY <2>1, <2>2, <3>b DEF Work
    <3>3. Lone(R)
      BY <3>2 DEF Lone, Late
    <3>4. status'[u] = "dispatching" /\ owner'[u] = w /\ left'[u] = Lease
      BY <1>0, <3>1
    <3>5. Leased(w, R)'
      BY <1>0, <3>2, <3>4 DEF Leased, LimitAt, Spared
    <3> QED BY <2>3, <3>1, <3>2, <3>3, <3>5, TurnInTime
  <2> QED BY <2>4, <2>5
<1>15. ASSUME NEW w \in Workers, Send(w) PROVE InTime'
  <2>a. [wk[w] EXCEPT !.pc = "sending", !.used = 0] \in Work
    BY <1>0 DEF Work
  <2>b. PICK R \in Work : R = [wk[w] EXCEPT !.pc = "sending", !.used = 0]
    BY <2>a
  <2>1. /\ Lone(wk[w]) /\ Leased(w, wk[w]) /\ wk[w] \in Work /\ wk[w].pc = "mark"
        /\ status' = status /\ owner' = owner /\ left' = left /\ wk' = [wk EXCEPT ![w] = R]
    BY <1>0, <1>b, <1>15, <2>b DEF Send, ledger, Goes
  <2>2. /\ R \in Work /\ R.pc = "sending" /\ R.used = 0 /\ R.win = wk[w].win /\ R.todo = wk[w].todo
        /\ R.ok = wk[w].ok /\ R.skip = wk[w].skip /\ R.fail = wk[w].fail
        /\ wk[w].used \in Nat /\ wk[w].win \subseteq Members
    BY <2>1, <2>b DEF Work
  <2>3. Lone(R)
    BY <2>1, <2>2 DEF Lone, Late
  <2>4. \A u \in wk[w].win : /\ status[u] = "dispatching" /\ owner[u] = w
                             /\ left[u] >= Lease - 1
    <3> TAKE u \in wk[w].win
    <3>1. left[u] \in Nat /\ left[u] + wk[w].used >= Lease /\ wk[w].used <= 1
      BY <1>0, <2>1, <2>2 DEF Leased, LimitAt, Spared
    <3> QED BY <1>0, <2>1, <2>2, <3>1 DEF Leased
  <2>5. Leased(w, R)'
    <3>1. \A u \in wk[w].win : left[u] \in Nat
      BY <1>0, <2>2
    <3> QED BY <1>0, <2>1, <2>2, <2>4, <3>1 DEF Leased, LimitAt, Spared
  <2>6. \A x \in Members : Spares(w, x)
    BY <2>1 DEF Spares
  <2> QED BY <2>1, <2>2, <2>3, <2>5, <2>6, TurnInTime
<1>16. ASSUME NEW w \in Workers, Answer(w) PROVE InTime'
  <2>1. PICK g \in BOOLEAN : Goes(w, [wk[w] EXCEPT !.pc = "record", !.good = g])
    BY <1>16, Zenon DEF Answer
  <2> DEFINE r == [wk[w] EXCEPT !.pc = "record", !.good = g]
  <2>2. r \in Work /\ r.pc = "record" /\ Lone(r)
    <3>1. wk[w] \in Work /\ Lone(wk[w]) /\ wk[w].pc = "sending"
      BY <1>0, <1>b, <1>16 DEF Answer
    <3>2. /\ r \in Work /\ r.pc = "record" /\ r.win = wk[w].win /\ r.todo = wk[w].todo
          /\ r.ok = wk[w].ok /\ r.skip = wk[w].skip /\ r.fail = wk[w].fail
      BY <3>1 DEF Work
    <3> QED BY <3>1, <3>2 DEF Lone, Late
  <2>3. Goes(w, r) /\ \A x \in Members : Spares(w, x)
    BY <1>16, <2>1 DEF Answer, ledger, Spares
  <2> HIDE DEF r
  <2> QED BY <2>2, <2>3, EmptyInTime
<1>17. ASSUME NEW w \in Workers, NEW u \in Members, Record(w, u) \/ ToUnknown(w, u) PROVE InTime'
  <2>1. \A x \in Members : Spares(w, x)
    BY <1>0, <1>17 DEF Record, ToUnknown, Holds, Spares
  <2>2. ASSUME NEW r \in {[wk[w] EXCEPT !.win = @ \ {u}],
                          [wk[w] EXCEPT !.win = @ \ {u}, !.amb = {u}],
                          [wk[w] EXCEPT !.win = @ \ {u}, !.amb = @ \ {u}]}
        PROVE  r \in Work /\ r.pc = "record" /\ Lone(r)
    <3>1. wk[w].pc = "record" /\ Lone(wk[w]) /\ wk[w] \in Work
      BY <1>0, <1>b, <1>17 DEF Record, ToUnknown
    <3>2. /\ r \in Work /\ r.pc = "record" /\ r.win \subseteq wk[w].win /\ r.todo = wk[w].todo
          /\ r.ok = wk[w].ok /\ r.skip = wk[w].skip /\ r.fail = wk[w].fail
      <4>1. CASE r = [wk[w] EXCEPT !.win = @ \ {u}]
        BY <3>1, <4>1 DEF Work
      <4>2. CASE r = [wk[w] EXCEPT !.win = @ \ {u}, !.amb = {u}]
        BY <3>1, <4>2 DEF Work
      <4>3. CASE r = [wk[w] EXCEPT !.win = @ \ {u}, !.amb = @ \ {u}]
        BY <3>1, <4>3 DEF Work
      <4> QED BY <2>2, <4>1, <4>2, <4>3
    <3> QED BY <3>1, <3>2 DEF Lone, Late
  <2> QED BY <1>17, <2>1, <2>2, EmptyInTime DEF Record, ToUnknown
<1> QED
  BY <1>1, <1>2, <1>3, <1>4, <1>5, <1>7, <1>8, <1>9, <1>10, <1>11, <1>12, <1>13, <1>14, <1>15,
     <1>16, <1>17 DEF Next, Step, Row

\* A hung request of the Space engine never outlives the lease of the row it names: the lease
\* is longer than the call to the IM and the call to the database before it (the comment at
\* swClaimLease speaks of the first alone).
THEOREM CallsEndInTime == Spec => []LeaseOutlivesCall
<1>1. IInv /\ InTime => LeaseOutlivesCall
  BY LeaseStands DEF IInv, LeaseOutlivesCall
<1>2. IInv /\ InTime /\ [Next /\ UNCHANGED engine]_<<vars, engine>> => InTime'
  BY NextInTime DEF Steps
<1> QED BY Invariance, InitInTime, <1>1, <1>2, PTL DEF Spec
=============================================================================
