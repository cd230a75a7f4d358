--------------------------- MODULE MsgExtraSeqProofs ---------------------------
(***************************************************************************)
(* Proofs about MsgExtraSeq: no transactional writer deadlocks             *)
(* (LocksSound), the cutover loses no order (VersionsFresh) and no change  *)
(* is hidden from a sync client (NothingSkipped), for any number of        *)
(* replicas, writers, channels and messages, whatever the batches.         *)
(***************************************************************************)
EXTENDS MsgExtraSeq, TLAPS

-----------------------------------------------------------------------------
(* The inductive invariant. *)

\* What readStateForShare answers.
Mode == IF state = NoRow THEN "legacy" ELSE state.mode

\* How far a transaction has come decides its mode, its rows and its versions.
Sound(w) ==
    Active(w) =>
    LET t == tx[w] IN
    /\ t.msgs \in Batches[w]
    /\ t.rows <= Len(t.msgs)
    /\ t.pc \in {"state", "probe", "seq"} => t.rows = 0 /\ t.vs = <<>>
    /\ t.pc \in {"probe", "seq"} => t.mode = "transactional"
    /\ t.pc = "gen" => /\ t.mode = "legacy" /\ Len(t.vs) < Len(t.msgs)
                       /\ t.rows \in {0, Len(t.msgs)}
    /\ t.pc = "row" => /\ t.rows < Len(t.msgs)
                       /\ \/ Len(t.vs) = Len(t.msgs)
                          \/ t.vs = <<>> /\ t.mode = "legacy" /\ w \in Cards
    /\ t.pc = "commit" => Len(t.vs) = Len(t.msgs)

\* The shared lock on the state row keeps the mode a transaction read.
ModeKept(w) == HoldsState(w) => tx[w].mode = Mode /\ tx[w].floor = state.floor

\* While the state row is lost or reset, the guards let nobody past it.
Refused(w) ==
    intended = "transactional" /\ state.mode # "transactional" => ~HoldsState(w)

\* One transaction at a time has the sequence row of a channel.
Alone(w) ==
    \A v \in Writers, ch \in Channels : HoldsSeq(w, ch) /\ HoldsSeq(v, ch) => v = w

\* A transaction's reserved versions are above its channel's row and the floor.
Rising(w) ==
    Active(w) /\ tx[w].mode = "transactional" =>
        \A i \in DOMAIN tx[w].vs :
            /\ seq[Chan(w)] < tx[w].vs[i]
            /\ tx[w].floor < tx[w].vs[i]
            /\ tx[w].vs[i] <= tx[w].vs[Len(tx[w].vs)]
            /\ tx[w].vs[i] <= MaxSafe

\* One HiLo block: what it handed out is at most min_seq.
IssuedBelow(w) ==
    Active(w) /\ tx[w].mode = "legacy" =>
        \A i \in DOMAIN tx[w].vs : tx[w].vs[i] <= minSeq[Chan(w)]

WriterSound(w) ==
    /\ Sound(w) /\ ModeKept(w) /\ Refused(w) /\ Alone(w) /\ Rising(w)
    /\ OneProcess => IssuedBelow(w)

Fleet ==
    /\ state.mode = "transactional" => intended = "transactional"
    /\ state.mode # intended => \A r \in Replicas : guard[r] = "transactional"

SinceCovered ==
    state.mode = "transactional" =>
        \A ch \in Channels : since[ch] <= seq[ch] \/ since[ch] <= state.floor

BlockBelow(w, ch) ==
    LET b == block[place[w]][ch] IN
    b # Cold => b.at <= b.top /\ b.top = minSeq[ch]

\* Every committed version of a channel is covered by its legacy boundary, or by its
\* sequence row once the fleet has been meant to be transactional.
HighCovered(ch) ==
    /\ high[ch] <= minSeq[ch] \/ (high[ch] <= seq[ch] /\ intended = "transactional")
    /\ state.mode = "transactional" => high[ch] <= state.floor \/ high[ch] <= seq[ch]

OneBlock ==
    OneProcess =>
        /\ \A w \in Writers, ch \in Channels : BlockBelow(w, ch)
        /\ \A ch \in Channels : HighCovered(ch)

\* No row and no cursor is ahead of what was committed.
Seen ==
    /\ \A m \in Messages : extra[m] <= high[ChannelOf[m]]
    /\ \A ch \in Channels : cached[ch] <= high[ch]
    /\ \A s \in Syncs : sync[s] # Idle => sync[s].cursor <= high[sync[s].ch]

IInv ==
    /\ TypeOK
    /\ \A w \in Writers : WriterSound(w)
    /\ Fleet /\ SinceCovered /\ OneBlock /\ Seen

-----------------------------------------------------------------------------
(* Batches and transactions. *)

\* The constants' numbers, and where a writer runs.
LEMMA Bounds ==
    /\ HiLoStep \in Nat \ {0} /\ MaxReserveCount \in Nat \ {0}
    /\ MaxSafe \in Nat /\ MaxSafe >= MaxReserveCount /\ MaxLegacy \in Nat
BY MsgExtraAssumption

LEMMA Places == \A p \in Placements, w \in Writers : p[w] \in Replicas
BY MsgExtraAssumption

\* A batch is a nonempty list of messages of one channel.
LEMMA BatchFacts ==
    ASSUME NEW w \in Writers, NEW b \in Batches[w]
    PROVE  /\ b \in Seq(Messages) /\ Len(b) \in Nat
           /\ 1 <= Len(b) /\ Len(b) <= MaxReserveCount
           /\ w \in Cards => Len(b) = 1
           /\ ChannelOf[b[1]] \in Channels
           /\ \A i \in DOMAIN b : b[i] \in Messages /\ ChannelOf[b[i]] = ChannelOf[b[1]]
<1>1. b \in Seq(Messages) BY MsgExtraAssumption
<1>2. /\ Len(b) \in 1..(IF w \in Cards THEN 1 ELSE MaxReserveCount)
      /\ \A i, j \in DOMAIN b : ChannelOf[b[i]] = ChannelOf[b[j]]
    BY MsgExtraAssumption
<1>3. MaxReserveCount \in Nat /\ MaxReserveCount >= 1 BY MsgExtraAssumption
<1>4. 1 <= Len(b) /\ Len(b) <= MaxReserveCount /\ (w \in Cards => Len(b) = 1) /\ Len(b) \in Nat
  <2>1. CASE w \in Cards
    <3>1. Len(b) \in 1..1 BY <1>2, <2>1
    <3>2. Len(b) = 1 BY <3>1
    <3> QED BY <3>2, <1>3
  <2>2. CASE w \notin Cards
    <3>1. Len(b) \in 1..MaxReserveCount BY <1>2, <2>2
    <3> QED BY <3>1, <1>3, <2>2
  <2> QED BY <2>1, <2>2
<1>5. 1 \in DOMAIN b BY <1>1, <1>4
<1>6. b[1] \in Messages BY <1>1, <1>5
<1>7. ChannelOf[b[1]] \in Channels BY <1>6, MsgExtraAssumption
<1>8. \A i \in DOMAIN b : b[i] \in Messages /\ ChannelOf[b[i]] = ChannelOf[b[1]]
    BY <1>1, <1>2, <1>5
<1> QED BY <1>1, <1>4, <1>7, <1>8

\* What the type of a running transaction says of its fields.
LEMMA TxFacts ==
    ASSUME TypeOK, NEW w \in Writers, Active(w), Sound(w)
    PROVE  /\ tx[w] \in Tx
           /\ tx[w].pc \in {"state", "probe", "seq", "gen", "row", "commit"}
           /\ tx[w].msgs \in Batches[w] /\ tx[w].msgs \in Seq(Messages)
           /\ Len(tx[w].msgs) \in Nat
           /\ 1 <= Len(tx[w].msgs) /\ Len(tx[w].msgs) <= MaxReserveCount
           /\ w \in Cards => Len(tx[w].msgs) = 1
           /\ tx[w].rows \in Nat /\ tx[w].vs \in Seq(Nat) /\ Len(tx[w].vs) \in Nat
           /\ tx[w].mode \in Modes /\ tx[w].floor \in Nat /\ tx[w].base \in Nat
           /\ Chan(w) \in Channels
<1>1. tx[w] \in Tx BY DEF TypeOK, Active
<1>2. /\ tx[w].pc \in {"state", "probe", "seq", "gen", "row", "commit"}
      /\ tx[w].rows \in 0..MaxReserveCount /\ tx[w].vs \in Seq(Nat)
      /\ tx[w].mode \in Modes /\ tx[w].floor \in Nat /\ tx[w].base \in Nat
    BY <1>1 DEF Tx
<1>3. tx[w].msgs \in Batches[w] BY DEF Sound
<1>4. /\ tx[w].msgs \in Seq(Messages) /\ Len(tx[w].msgs) \in Nat
      /\ 1 <= Len(tx[w].msgs) /\ Len(tx[w].msgs) <= MaxReserveCount
      /\ w \in Cards => Len(tx[w].msgs) = 1
      /\ ChannelOf[tx[w].msgs[1]] \in Channels
    BY <1>3, BatchFacts
<1>5. tx[w].rows \in Nat /\ Len(tx[w].vs) \in Nat BY <1>2, MsgExtraAssumption
<1> QED BY <1>1, <1>2, <1>3, <1>4, <1>5 DEF Chan

\* A transaction with a place in its program is running.
LEMMA AtFacts ==
    ASSUME NEW w \in Writers, NEW pc \in {"state", "probe", "seq", "gen", "row", "commit"},
           At(w, pc)
    PROVE  Active(w)
BY DEF At, Active, Idle

\* What Mode says of the state row.
LEMMA ModeFacts ==
    ASSUME TypeOK
    PROVE  /\ Mode \in Modes /\ state.floor \in Nat
           /\ Mode = "transactional" <=> state.mode = "transactional"
<1>1. CASE state = NoRow BY <1>1 DEF Mode, Modes, NoRow
<1>2. CASE state # NoRow
    <2>1. state \in [mode : Modes, floor : Nat] BY <1>2 DEF TypeOK
    <2> QED BY <1>2, <2>1 DEF Mode
<1> QED BY <1>1, <1>2

-----------------------------------------------------------------------------
(* Steps that change one transaction and nothing that others see. *)

\* A transaction that is over satisfies everything.
LEMMA OverSound ==
    ASSUME NEW w \in Writers, tx'[w] = Idle
    PROVE  WriterSound(w)'
<1>1. ~Active(w)' BY DEF Active
<1> QED BY <1>1 DEF WriterSound, Sound, ModeKept, Refused, Alone, Rising, IssuedBelow, HoldsState,
                    HoldsSeq

\* A transaction that does not move keeps its record's part.
LEMMA StillSound ==
    ASSUME NEW v \in Writers, WriterSound(v), tx'[v] = tx[v],
           state' = state, seq' = seq, intended' = intended
    PROVE  Sound(v)' /\ ModeKept(v)' /\ Refused(v)' /\ Rising(v)'
<1>1. Sound(v)' BY DEF WriterSound, Sound, Active
<1>2. HoldsState(v)' = HoldsState(v) BY DEF HoldsState, Active, At
<1>3. Mode' = Mode BY DEF Mode
<1>4. ModeKept(v)' /\ Refused(v)' BY <1>2, <1>3 DEF WriterSound, ModeKept, Refused
<1>5. Rising(v)' BY DEF WriterSound, Rising, Active, Chan
<1> QED BY <1>1, <1>4, <1>5

\* What one block handed out stays below boundaries that only rise.
LEMMA StillIssued ==
    ASSUME TypeOK, TypeOK', NEW v \in Writers, WriterSound(v), tx'[v] = tx[v], place' = place,
           OneProcess => \A ch \in Channels : minSeq[ch] <= minSeq'[ch]
    PROVE  (OneProcess => IssuedBelow(v))'
<1> SUFFICES ASSUME OneProcess, Active(v), tx[v].mode = "legacy", NEW i \in DOMAIN tx[v].vs
             PROVE  tx[v].vs[i] <= minSeq'[Chan(v)]
    BY DEF OneProcess, IssuedBelow, Active, Chan
<1>1. tx[v].vs[i] <= minSeq[Chan(v)] BY DEF WriterSound, IssuedBelow
<1>2. Chan(v) \in Channels /\ tx[v].vs \in Seq(Nat) BY TxFacts DEF WriterSound
<1>3. minSeq[Chan(v)] \in Nat /\ minSeq'[Chan(v)] \in Nat BY <1>2 DEF TypeOK
<1>4. minSeq[Chan(v)] <= minSeq'[Chan(v)] BY <1>2
<1>5. tx[v].vs[i] \in Nat BY <1>2
<1> QED BY <1>1, <1>3, <1>4, <1>5

\* Two sequence rows of others stay apart.
LEMMA StillAlone ==
    ASSUME NEW w \in Writers, NEW v \in Writers, v # w,
           \A u \in Writers : u # w => tx'[u] = tx[u],
           Alone(v), Alone(w)'
    PROVE  Alone(v)'
<1> SUFFICES ASSUME NEW u \in Writers, NEW ch \in Channels, HoldsSeq(v, ch)', HoldsSeq(u, ch)'
             PROVE  u = v
    BY DEF Alone
<1>1. CASE u = w BY <1>1 DEF Alone
<1>2. CASE u # w
    <2>1. HoldsSeq(v, ch) /\ HoldsSeq(u, ch) BY <1>2 DEF HoldsSeq, Active, Chan
    <2> QED BY <2>1 DEF Alone
<1> QED BY <1>1, <1>2

LEMMA OneMoves ==
    ASSUME IInv, NEW w \in Writers,
           tx' \in [Writers -> Tx \cup {Idle}],
           \A v \in Writers : v # w => tx'[v] = tx[v],
           WriterSound(w)',
           UNCHANGED <<dbVars, procVars, flip, syncVars, ghostVars>>
    PROVE  IInv'
<1> USE DEF dbVars, procVars, syncVars, ghostVars
<1>1. TypeOK' BY DEF IInv, TypeOK
<1>2. ASSUME NEW v \in Writers PROVE WriterSound(v)'
    <2>1. CASE v = w BY <2>1
    <2>2. CASE v # w
        <3>1. WriterSound(v) BY DEF IInv
        <3>2. tx'[v] = tx[v] BY <2>2
        <3>3. Sound(v)' /\ ModeKept(v)' /\ Refused(v)' /\ Rising(v)'
            BY <3>1, <3>2, StillSound
        <3>4. Alone(v)' BY <3>1, <2>2, StillAlone DEF WriterSound
        <3>5. \A ch \in Channels : minSeq[ch] <= minSeq'[ch] BY DEF IInv, TypeOK
        <3>6. (OneProcess => IssuedBelow(v))' BY <1>1, <3>1, <3>2, <3>5, StillIssued DEF IInv
        <3> QED BY <3>3, <3>4, <3>6 DEF WriterSound
    <2> QED BY <2>1, <2>2
<1>3. Fleet' BY DEF IInv, Fleet
<1>4. SinceCovered' BY DEF IInv, SinceCovered
<1>5. OneBlock' BY DEF IInv, OneBlock, OneProcess, BlockBelow, HighCovered
<1>6. Seen' BY DEF IInv, Seen
<1> QED BY <1>1, <1>2, <1>3, <1>4, <1>5, <1>6 DEF IInv

\* A transaction that ends where nothing is published.
LEMMA EndsQuietly ==
    ASSUME IInv, NEW w \in Writers, End(w),
           UNCHANGED <<dbVars, procVars, flip, syncVars, ghostVars>>
    PROVE  IInv'
<1>1. tx \in [Writers -> Tx \cup {Idle}] BY DEF IInv, TypeOK
<1>2. /\ tx' \in [Writers -> Tx \cup {Idle}] /\ tx'[w] = Idle
      /\ \A v \in Writers : v # w => tx'[v] = tx[v]
    BY <1>1 DEF End
<1>3. WriterSound(w)' BY <1>2, OverSound
<1> QED BY <1>2, <1>3, OneMoves

LEMMA BeginStep ==
    ASSUME IInv, NEW w \in Writers, NEW b \in Batches[w], Begin(w, b)
    PROVE  IInv'
<1>1. tx \in [Writers -> Tx \cup {Idle}] BY DEF IInv, TypeOK
<1> DEFINE t == [pc |-> "state", msgs |-> b, rows |-> 0, vs |-> <<>>,
                 mode |-> "legacy", floor |-> 0, base |-> 0]
<1>2. tx' = [tx EXCEPT ![w] = t] BY DEF Begin
<1>3. t \in Tx
    <2>1. b \in UNION {Batches[x] : x \in Writers} OBVIOUS
    <2>2. 0 \in 0..MaxReserveCount BY MsgExtraAssumption
    <2>3. <<>> \in Seq(Nat) OBVIOUS
    <2> QED BY <2>1, <2>2, <2>3 DEF Tx, Modes
<1>4. /\ t.pc = "state" /\ t.msgs = b /\ t.rows = 0 /\ t.vs = <<>> /\ t.mode = "legacy"
      /\ t # Idle
    <2>1. t.pc = "state" /\ t.msgs = b /\ t.rows = 0 /\ t.vs = <<>> /\ t.mode = "legacy"
        OBVIOUS
    <2>2. t.pc # Idle.pc BY DEF Idle
    <2>3. t # Idle BY <2>2
    <2> QED BY <2>1, <2>3
<1> HIDE DEF t
<1>5. /\ tx' \in [Writers -> Tx \cup {Idle}] /\ tx'[w] = t
      /\ \A v \in Writers : v # w => tx'[v] = tx[v]
    BY <1>1, <1>2, <1>3
<1>6. WriterSound(w)'
    <2>1. Active(w)' /\ At(w, "state")' BY <1>4, <1>5 DEF Active, At
    <2>2. ~HoldsState(w)' BY <2>1 DEF HoldsState
    <2>3. \A ch \in Channels : ~HoldsSeq(w, ch)' BY <1>4, <1>5 DEF HoldsSeq
    <2>4. Sound(w)'
        <3>1. 0 <= Len(b) BY BatchFacts
        <3> QED BY <3>1, <1>4, <1>5 DEF Sound
    <2>5. Rising(w)' BY <1>4, <1>5 DEF Rising
    <2>6. IssuedBelow(w)' BY <1>4, <1>5 DEF IssuedBelow
    <2> QED BY <2>2, <2>3, <2>4, <2>5, <2>6 DEF WriterSound, ModeKept, Refused, Alone
<1> QED BY <1>5, <1>6, OneMoves DEF Begin

\* Past the guard, the record has the row's mode and floor; nobody passes it while the
\* state row is lost or reset.
LEMMA ReadStateStep ==
    ASSUME IInv, NEW w \in Writers, ReadState(w)
    PROVE  IInv'
<1> DEFINE p == AfterState(w, Mode)
<1>1. Active(w) /\ At(w, "state") BY AtFacts DEF ReadState
<1>2. WriterSound(w) /\ Sound(w) /\ TypeOK BY DEF IInv, WriterSound
<1>3. /\ tx[w] \in Tx /\ tx[w].msgs \in Batches[w] /\ tx[w].rows = 0 /\ tx[w].vs = <<>>
      /\ 1 <= Len(tx[w].msgs) /\ Len(tx[w].msgs) \in Nat
    BY <1>1, <1>2, TxFacts DEF At, Sound
<1>4. tx \in [Writers -> Tx \cup {Idle}] BY <1>2 DEF TypeOK
<1>5. Mode \in Modes /\ state.floor \in Nat /\ (Mode = "transactional" <=> state.mode = "transactional")
    BY <1>2, ModeFacts
<1>6. CASE ~GuardOK(place[w], Mode)
    BY <1>6, EndsQuietly DEF ReadState, Mode
<1>7. CASE GuardOK(place[w], Mode)
    <2>1. tx' = [tx EXCEPT ![w].pc = p, ![w].mode = Mode, ![w].floor = state.floor]
        BY <1>7 DEF ReadState, Mode
    <2>2. p \in {"row", "gen", "probe"} BY DEF AfterState, Allocate
    <2>3. /\ p = "row" => w \in Cards /\ Mode = "legacy"
          /\ p = "gen" => Mode = "legacy"
          /\ p = "probe" => Mode = "transactional"
        BY <1>5 DEF AfterState, Allocate, Modes
    <2> HIDE DEF p
    <2>4. /\ tx' \in [Writers -> Tx \cup {Idle}]
          /\ \A v \in Writers : v # w => tx'[v] = tx[v]
          /\ tx'[w].pc = p /\ tx'[w].mode = Mode /\ tx'[w].floor = state.floor
          /\ tx'[w].msgs = tx[w].msgs /\ tx'[w].rows = 0 /\ tx'[w].vs = <<>>
        BY <1>3, <1>4, <1>5, <2>1, <2>2 DEF Tx
    <2>5. state' = state /\ intended' = intended BY DEF ReadState, dbVars, ghostVars
    <2>6. Mode' = Mode BY <2>5 DEF Mode
    <2>7. Sound(w)' BY <1>3, <2>2, <2>3, <2>4 DEF Sound
    <2>8. ModeKept(w)' BY <2>4, <2>5, <2>6 DEF ModeKept
    <2>9. Refused(w)'
        <3>1. SUFFICES ASSUME intended = "transactional", state.mode # "transactional" PROVE FALSE
            BY <2>5 DEF Refused
        <3>2. Mode = "legacy" BY <1>5, <3>1 DEF Modes
        <3>3. place[w] \in Replicas BY <1>2, Places DEF TypeOK
        <3>4. guard[place[w]] = "transactional" BY <3>1, <3>3 DEF IInv, Fleet
        <3> QED BY <1>7, <3>2, <3>4 DEF GuardOK
    <2>10. Alone(w)' BY <2>4 DEF Alone, HoldsSeq
    <2>11. Rising(w)' /\ IssuedBelow(w)' BY <2>4 DEF Rising, IssuedBelow
    <2>12. WriterSound(w)' BY <2>7, <2>8, <2>9, <2>10, <2>11 DEF WriterSound
    <2> QED BY <2>4, <2>12, OneMoves DEF ReadState
<1> QED BY <1>6, <1>7

LEMMA ProbeStep ==
    ASSUME IInv, NEW w \in Writers, Probe(w)
    PROVE  IInv'
<1> DEFINE ch == Chan(w)
           evidence == {tx[w].floor, minSeq[ch]} \cup {extra[m] : m \in Rows(ch)}
<1>1. Active(w) /\ At(w, "probe") BY AtFacts DEF Probe
<1>2. WriterSound(w) /\ Sound(w) /\ TypeOK BY DEF IInv, WriterSound
<1>3. /\ tx[w] \in Tx /\ tx[w].msgs \in Batches[w] /\ tx[w].rows = 0 /\ tx[w].vs = <<>>
      /\ tx[w].mode = "transactional" /\ 1 <= Len(tx[w].msgs) /\ Len(tx[w].msgs) \in Nat
      /\ ch \in Channels /\ tx[w].floor \in Nat
    BY <1>1, <1>2, TxFacts DEF At, Sound
<1>4. tx \in [Writers -> Tx \cup {Idle}] BY <1>2 DEF TypeOK
<1>5. evidence \cup {0} \subseteq Nat BY <1>2, <1>3 DEF TypeOK, Rows
<1>6. PICK b \in evidence \cup {0} : tx' = [tx EXCEPT ![w].pc = "seq", ![w].base = b]
    BY DEF Probe
<1>7. b \in Nat BY <1>5
<1>8. /\ tx' \in [Writers -> Tx \cup {Idle}]
      /\ \A v \in Writers : v # w => tx'[v] = tx[v]
      /\ tx'[w].pc = "seq" /\ tx'[w].mode = tx[w].mode /\ tx'[w].floor = tx[w].floor
      /\ tx'[w].msgs = tx[w].msgs /\ tx'[w].rows = 0 /\ tx'[w].vs = <<>>
    BY <1>3, <1>4, <1>6, <1>7 DEF Tx
<1>9. state' = state /\ intended' = intended BY DEF Probe, dbVars, ghostVars
<1>10. Mode' = Mode BY <1>9 DEF Mode
<1>11. HoldsState(w) BY <1>1 DEF HoldsState, At
<1>12. Sound(w)' BY <1>3, <1>8 DEF Sound
<1>13. ModeKept(w)' BY <1>2, <1>8, <1>9, <1>10, <1>11 DEF ModeKept, WriterSound
<1>14. Refused(w)' BY <1>2, <1>9, <1>11 DEF Refused, WriterSound
<1>15. Alone(w)' BY <1>8 DEF Alone, HoldsSeq
<1>16. Rising(w)' /\ IssuedBelow(w)' BY <1>8 DEF Rising, IssuedBelow
<1>17. WriterSound(w)' BY <1>12, <1>13, <1>14, <1>15, <1>16 DEF WriterSound
<1> QED BY <1>8, <1>17, OneMoves DEF Probe

\* A reservation starts at or above the channel's row and the floor.
LEMMA StartFacts ==
    ASSUME TypeOK, NEW w \in Writers, Active(w), Sound(w)
    PROVE  Start(w) \in Nat /\ seq[Chan(w)] \in Nat /\ seq[Chan(w)] <= Start(w)
           /\ tx[w].floor <= Start(w)
<1>1. Chan(w) \in Channels /\ tx[w].floor \in Nat /\ tx[w].base \in Nat BY TxFacts
<1>2. seq[Chan(w)] \in Nat BY <1>1, Bounds DEF TypeOK
<1> DEFINE cur == IF seq[Chan(w)] = 0 THEN tx[w].base ELSE seq[Chan(w)]
<1>3. cur \in Nat /\ seq[Chan(w)] <= cur BY <1>1, <1>2
<1>4. Start(w) = IF cur < tx[w].floor THEN tx[w].floor ELSE cur BY DEF Start
<1> HIDE DEF cur
<1> QED BY <1>1, <1>2, <1>3, <1>4

\* The versions reserved under the row's lock.
LEMMA ReserveStep ==
    ASSUME IInv, NEW w \in Writers, Reserve(w)
    PROVE  IInv'
<1> DEFINE n == Len(tx[w].msgs)
           vs == [i \in DOMAIN tx[w].msgs |-> Start(w) + i]
<1>1. Active(w) /\ At(w, "seq") BY AtFacts DEF Reserve
<1>2. WriterSound(w) /\ Sound(w) /\ TypeOK BY DEF IInv, WriterSound
<1>3. /\ tx[w] \in Tx /\ tx[w].msgs \in Batches[w] /\ tx[w].rows = 0 /\ tx[w].vs = <<>>
      /\ tx[w].mode = "transactional" /\ 1 <= n /\ n \in Nat /\ tx[w].msgs \in Seq(Messages)
      /\ Chan(w) \in Channels /\ tx[w].floor \in Nat /\ n <= MaxReserveCount
    BY <1>1, <1>2, TxFacts DEF At, Sound
<1>4. tx \in [Writers -> Tx \cup {Idle}] BY <1>2 DEF TypeOK
<1>5. CASE Overflows(w)
    BY <1>5, EndsQuietly DEF Reserve
<1>6. CASE ~Overflows(w)
    <2>1. tx' = [tx EXCEPT ![w].pc = AfterVersions(w), ![w].vs = vs] BY <1>6 DEF Reserve
    <2>2. AfterVersions(w) = "row" BY <1>3 DEF AfterVersions
    <2>3. /\ Start(w) \in Nat /\ seq[Chan(w)] \in Nat /\ seq[Chan(w)] <= Start(w)
          /\ tx[w].floor <= Start(w)
        BY <1>1, <1>2, StartFacts
    <2>4. Start(w) + n <= MaxSafe
        BY <1>3, <1>6, <2>3, Bounds DEF Overflows
    <2>5. vs \in Seq(Nat) /\ Len(vs) = n /\ DOMAIN vs = 1..n
        BY <1>3, <2>3
    <2>6. \A i \in 1..n : vs[i] = Start(w) + i BY <1>3
    <2>7. \A i \in 1..n : /\ seq[Chan(w)] < vs[i] /\ tx[w].floor < vs[i]
                          /\ vs[i] <= vs[n] /\ vs[i] <= MaxSafe
        <3> SUFFICES ASSUME NEW i \in 1..n
                     PROVE  /\ seq[Chan(w)] < vs[i] /\ tx[w].floor < vs[i]
                            /\ vs[i] <= vs[n] /\ vs[i] <= MaxSafe
            OBVIOUS
        <3>1. vs[i] = Start(w) + i /\ vs[n] = Start(w) + n BY <1>3, <2>6
        <3>2. /\ i \in Nat /\ 1 <= i /\ i <= n /\ n \in Nat /\ MaxSafe \in Nat
              /\ tx[w].floor \in Nat /\ Start(w) \in Nat /\ seq[Chan(w)] \in Nat
            BY <1>3, <2>3, Bounds
        <3> HIDE DEF vs, n
        <3> QED BY <2>3, <2>4, <3>1, <3>2
    <2> HIDE DEF vs
    <2>8. /\ tx' \in [Writers -> Tx \cup {Idle}]
          /\ \A v \in Writers : v # w => tx'[v] = tx[v]
          /\ tx'[w].pc = "row" /\ tx'[w].mode = tx[w].mode /\ tx'[w].floor = tx[w].floor
          /\ tx'[w].msgs = tx[w].msgs /\ tx'[w].rows = 0 /\ tx'[w].vs = vs
        BY <1>3, <1>4, <2>1, <2>2, <2>5 DEF Tx
    <2>9. state' = state /\ intended' = intended /\ seq' = seq
        BY DEF Reserve, dbVars, ghostVars
    <2>10. Mode' = Mode BY <2>9 DEF Mode
    <2>11. HoldsState(w) BY <1>1 DEF HoldsState, At
    <2>12. Sound(w)' BY <1>3, <2>5, <2>8 DEF Sound
    <2>13. ModeKept(w)' BY <1>2, <2>8, <2>9, <2>10, <2>11 DEF ModeKept, WriterSound
    <2>14. Refused(w)' BY <1>2, <2>9, <2>11 DEF Refused, WriterSound
    <2>15. Chan(w)' = Chan(w) BY <2>8 DEF Chan
    <2>16. Alone(w)'
        <3> SUFFICES ASSUME NEW v \in Writers, NEW ch \in Channels,
                            HoldsSeq(w, ch)', HoldsSeq(v, ch)', v # w
                     PROVE  FALSE
            BY DEF Alone
        <3>1. ch = Chan(w) BY <2>15 DEF HoldsSeq
        <3>2. HoldsSeq(v, ch) BY <2>8 DEF HoldsSeq, Active, Chan
        <3>3. WaitsFor(w, v) BY <1>1, <3>1, <3>2 DEF WaitsFor
        <3> QED BY <3>3 DEF Reserve
    <2>17. Rising(w)' BY <2>5, <2>7, <2>8, <2>9, <2>15 DEF Rising
    <2>18. IssuedBelow(w)' BY <1>3, <2>8 DEF IssuedBelow
    <2>19. WriterSound(w)' BY <2>12, <2>13, <2>14, <2>16, <2>17, <2>18 DEF WriterSound
    <2> QED BY <2>8, <2>19, OneMoves DEF Reserve
<1> QED BY <1>5, <1>6

\* A message row more: with the last one, the versions follow or the commit does.
LEMMA LockRowStep ==
    ASSUME IInv, NEW w \in Writers, LockRow(w)
    PROVE  IInv'
<1> DEFINE n == Len(tx[w].msgs)
           p == IF tx[w].rows + 1 < n THEN "row"
                ELSE IF tx[w].vs = <<>> THEN Allocate(tx[w].mode) ELSE "commit"
           k == tx[w].rows + 1
<1>1. Active(w) /\ At(w, "row") BY AtFacts DEF LockRow
<1>2. WriterSound(w) /\ Sound(w) /\ TypeOK BY DEF IInv, WriterSound
<1>3. /\ tx[w] \in Tx /\ tx[w].msgs \in Batches[w] /\ tx[w].rows \in Nat
      /\ tx[w].rows < n /\ n \in Nat /\ 1 <= n /\ n <= MaxReserveCount
      /\ \/ Len(tx[w].vs) = n
         \/ tx[w].vs = <<>> /\ tx[w].mode = "legacy" /\ w \in Cards /\ n = 1
      /\ tx[w].vs \in Seq(Nat) /\ Len(tx[w].vs) \in Nat
    BY <1>1, <1>2, TxFacts DEF At, Sound
<1>4. tx \in [Writers -> Tx \cup {Idle}] BY <1>2 DEF TypeOK
<1>5. tx' = [tx EXCEPT ![w].rows = @ + 1, ![w].pc = p] BY DEF LockRow
<1>6. /\ p \in {"row", "gen", "commit"}
      /\ p = "row" => k < n /\ Len(tx[w].vs) = n
      /\ p = "gen" => k = n /\ tx[w].vs = <<>> /\ tx[w].mode = "legacy"
      /\ p = "commit" => k = n /\ Len(tx[w].vs) = n
    <2>1. CASE k < n
        <3>1. p = "row" BY <2>1
        <3>2. k \in Nat /\ 1 <= k /\ n \in Nat BY <1>3
        <3> HIDE DEF k, n, p
        <3>3. n # 1 BY <2>1, <3>2
        <3> USE DEF k, n, p
        <3>4. Len(tx[w].vs) = n BY <1>3, <3>3
        <3> QED BY <2>1, <3>1, <3>4
    <2>2. CASE ~(k < n) /\ tx[w].vs = <<>>
        <3>1. tx[w].mode = "legacy" BY <1>3, <2>2
        <3>2. p = "gen" BY <2>2, <3>1 DEF Allocate
        <3>3. k = n BY <1>3, <2>2
        <3> QED BY <2>2, <3>1, <3>2, <3>3
    <2>3. CASE ~(k < n) /\ tx[w].vs # <<>>
        <3>1. p = "commit" BY <2>3
        <3>2. Len(tx[w].vs) = n BY <1>3, <2>3
        <3>3. tx[w].rows \in Nat /\ n \in Nat /\ tx[w].rows < n BY <1>3
        <3>4. k = n BY <2>3, <3>3
        <3> QED BY <3>1, <3>2, <3>4
    <2> QED BY <2>1, <2>2, <2>3
<1>7. k \in Nat /\ k <= n /\ k \in 0..MaxReserveCount
    <2>1. tx[w].rows \in Nat /\ n \in Nat /\ tx[w].rows < n /\ n <= MaxReserveCount BY <1>3
    <2> HIDE DEF n
    <2> QED BY <2>1, Bounds
<1> HIDE DEF p
<1>8. /\ tx' \in [Writers -> Tx \cup {Idle}]
      /\ \A v \in Writers : v # w => tx'[v] = tx[v]
      /\ tx'[w].pc = p /\ tx'[w].mode = tx[w].mode /\ tx'[w].floor = tx[w].floor
      /\ tx'[w].msgs = tx[w].msgs /\ tx'[w].rows = k /\ tx'[w].vs = tx[w].vs
    BY <1>3, <1>4, <1>5, <1>6, <1>7 DEF Tx
<1> HIDE DEF k
<1>9. state' = state /\ intended' = intended /\ seq' = seq /\ minSeq' = minSeq /\ place' = place
    BY DEF LockRow, dbVars, ghostVars, procVars
<1>10. Mode' = Mode BY <1>9 DEF Mode
<1>11. HoldsState(w) BY <1>1 DEF HoldsState, At
<1>12. Sound(w)' BY <1>3, <1>6, <1>7, <1>8 DEF Sound
<1>13. ModeKept(w)' BY <1>2, <1>8, <1>9, <1>10, <1>11 DEF ModeKept, WriterSound
<1>14. Refused(w)' BY <1>2, <1>9, <1>11 DEF Refused, WriterSound
<1>15. Chan(w)' = Chan(w) BY <1>8 DEF Chan
<1>16. Alone(w)'
    <2> SUFFICES ASSUME NEW v \in Writers, NEW ch \in Channels,
                        HoldsSeq(w, ch)', HoldsSeq(v, ch)', v # w
                 PROVE  FALSE
        BY DEF Alone
    <2>1. HoldsSeq(w, ch) BY <1>1, <1>8, <1>15 DEF HoldsSeq
    <2>2. HoldsSeq(v, ch) BY <1>8 DEF HoldsSeq, Active, Chan
    <2> QED BY <1>2, <2>1, <2>2 DEF Alone, WriterSound
<1>17. Rising(w)' BY <1>1, <1>2, <1>8, <1>9, <1>15 DEF Rising, WriterSound
<1>18. (OneProcess => IssuedBelow(w))'
    BY <1>1, <1>2, <1>8, <1>9, <1>15 DEF IssuedBelow, WriterSound, OneProcess
<1>19. WriterSound(w)' BY <1>12, <1>13, <1>14, <1>16, <1>17, <1>18 DEF WriterSound
<1> QED BY <1>8, <1>19, OneMoves DEF LockRow

\* Steps that leave every transaction alone.
LEMMA NoneMoves ==
    ASSUME IInv, TypeOK', tx' = tx, place' = place,
           state' = state, seq' = seq, intended' = intended,
           OneProcess => \A ch \in Channels : minSeq[ch] <= minSeq'[ch]
    PROVE  \A v \in Writers : WriterSound(v)'
<1> TAKE v \in Writers
<1>1. WriterSound(v) /\ TypeOK BY DEF IInv
<1>2. Sound(v)' /\ ModeKept(v)' /\ Refused(v)' /\ Rising(v)' BY <1>1, StillSound
<1>3. Alone(v)' BY <1>1 DEF WriterSound, Alone, HoldsSeq, Active, Chan
<1>4. (OneProcess => IssuedBelow(v))' BY <1>1, StillIssued
<1> QED BY <1>2, <1>3, <1>4 DEF WriterSound

-----------------------------------------------------------------------------
(* The legacy allocator. *)

LEMMA ColdStartStep ==
    ASSUME IInv, NEW w \in Writers, ColdStart(w)
    PROVE  IInv'
<1> DEFINE ch == Chan(w)
           r == place[w]
           b == [at |-> minSeq[ch], top |-> minSeq[ch]]
<1>1. Active(w) BY AtFacts DEF ColdStart
<1>2. WriterSound(w) /\ Sound(w) /\ TypeOK BY DEF IInv, WriterSound
<1>3. ch \in Channels /\ r \in Replicas /\ minSeq[ch] \in Nat
    BY <1>1, <1>2, TxFacts, MsgExtraAssumption DEF TypeOK
<1>4. block' = [block EXCEPT ![r][ch] = b] BY DEF ColdStart
<1>5. b \in [at : Nat, top : Nat] /\ b.at = minSeq[ch] /\ b.top = minSeq[ch] BY <1>3
<1> HIDE DEF ch, r, b
<1>6. block \in [Replicas -> [Channels -> [at : Nat, top : Nat] \cup {Cold}]] BY <1>2 DEF TypeOK
<1>7. /\ block' \in [Replicas -> [Channels -> [at : Nat, top : Nat] \cup {Cold}]]
      /\ block'[r][ch] = b
      /\ \A q \in Replicas, x \in Channels : q # r \/ x # ch => block'[q][x] = block[q][x]
    BY <1>3, <1>4, <1>5, <1>6
<1>8. UNCHANGED <<dbVars, guard, place, tx, flip, syncVars, ghostVars>> BY DEF ColdStart
<1> USE DEF dbVars, syncVars, ghostVars
<1>9. TypeOK' BY <1>2, <1>7, <1>8 DEF TypeOK
<1>10. \A v \in Writers : WriterSound(v)'
    <2>1. \A x \in Channels : minSeq[x] <= minSeq'[x] BY <1>2, <1>8 DEF TypeOK
    <2> QED BY <1>8, <1>9, <2>1, NoneMoves
<1>11. OneBlock'
    <2> SUFFICES ASSUME OneProcess
                 PROVE  /\ \A v \in Writers, x \in Channels : BlockBelow(v, x)'
                        /\ \A x \in Channels : HighCovered(x)'
        BY <1>8 DEF OneBlock, OneProcess
    <2>1. ASSUME NEW v \in Writers, NEW x \in Channels PROVE BlockBelow(v, x)'
        <3>1. place[v] \in Replicas BY <1>2, Places DEF TypeOK
        <3>2. BlockBelow(v, x) BY DEF IInv, OneBlock
        <3>3. CASE place[v] = r /\ x = ch
            BY <3>3, <1>3, <1>5, <1>7, <1>8 DEF BlockBelow
        <3>4. CASE place[v] # r \/ x # ch
            BY <3>1, <3>2, <3>4, <1>7, <1>8 DEF BlockBelow
        <3> QED BY <3>3, <3>4
    <2>2. ASSUME NEW x \in Channels PROVE HighCovered(x)'
        BY <1>8 DEF IInv, OneBlock, HighCovered
    <2> QED BY <2>1, <2>2
<1>12. Fleet' /\ SinceCovered' /\ Seen' BY <1>8 DEF IInv, Fleet, SinceCovered, Seen
<1> QED BY <1>9, <1>10, <1>11, <1>12 DEF IInv

\* A version of the process's block, and a new block written back to min_seq.
LEMMA GenSeqStep ==
    ASSUME IInv, NEW w \in Writers, GenSeq(w)
    PROVE  IInv'
<1> DEFINE ch == Chan(w)
           r == place[w]
           b == block[r][ch]
           n == Len(tx[w].msgs)
           top == IF b.at = b.top THEN b.top + HiLoStep ELSE b.top
           c == [at |-> b.at + 1, top |-> top]
           vs == Append(tx[w].vs, b.at + 1)
           p == IF Len(tx[w].vs) + 1 = n THEN AfterVersions(w) ELSE "gen"
<1>1. Active(w) /\ At(w, "gen") BY AtFacts DEF GenSeq
<1>2. WriterSound(w) /\ Sound(w) /\ TypeOK BY DEF IInv, WriterSound
<1>3. /\ tx[w] \in Tx /\ tx[w].msgs \in Batches[w] /\ tx[w].rows \in {0, n} /\ tx[w].mode = "legacy"
      /\ Len(tx[w].vs) < n /\ tx[w].vs \in Seq(Nat) /\ n \in Nat /\ Len(tx[w].vs) \in Nat
      /\ 1 <= n
    BY <1>1, <1>2, TxFacts DEF At, Sound
<1>4. tx \in [Writers -> Tx \cup {Idle}] BY <1>2 DEF TypeOK
<1>5. ch \in Channels /\ r \in Replicas /\ minSeq[ch] \in Nat
    BY <1>1, <1>2, TxFacts, Places DEF TypeOK
<1>6. block \in [Replicas -> [Channels -> [at : Nat, top : Nat] \cup {Cold}]] BY <1>2 DEF TypeOK
<1>7. b # Cold /\ b \in [at : Nat, top : Nat] BY <1>5, <1>6 DEF GenSeq
<1>8. b.at \in Nat /\ b.top \in Nat BY <1>7
<1>9. top \in Nat /\ b.top <= top /\ (b.at = b.top => b.at + 1 <= top)
    <2> HIDE DEF b
    <2> QED BY <1>8, Bounds
<1>10. /\ block' = [block EXCEPT ![r][ch] = c]
       /\ minSeq' = IF b.at = b.top THEN [minSeq EXCEPT ![ch] = top] ELSE minSeq
       /\ tx' = [tx EXCEPT ![w].vs = vs, ![w].pc = p]
    BY DEF GenSeq
<1>11. c \in [at : Nat, top : Nat] /\ c.at = b.at + 1 /\ c.top = top BY <1>8, <1>9
<1>12. /\ vs \in Seq(Nat) /\ Len(vs) = Len(tx[w].vs) + 1
       /\ \A i \in DOMAIN vs : vs[i] = b.at + 1 \/ (i \in DOMAIN tx[w].vs /\ vs[i] = tx[w].vs[i])
    <2>1. b.at + 1 \in Nat BY <1>8
    <2> HIDE DEF b
    <2> QED BY <2>1, <1>3
<1>13. /\ p \in {"gen", "row", "commit"}
       /\ p = "gen" => Len(vs) < n
       /\ p = "row" => Len(vs) = n /\ tx[w].rows = 0
       /\ p = "commit" => Len(vs) = n
    <2>1. Len(vs) = Len(tx[w].vs) + 1 BY <1>12
    <2> HIDE DEF vs
    <2>2. CASE Len(tx[w].vs) + 1 = n
        BY <2>1, <2>2, <1>3 DEF AfterVersions
    <2>3. CASE Len(tx[w].vs) + 1 # n
        <3>1. p = "gen" BY <2>3
        <3>2. Len(vs) < n BY <2>1, <2>3, <1>3
        <3> QED BY <3>1, <3>2
    <2> QED BY <2>2, <2>3
<1>14. UNCHANGED <<state, seq, extra, guard, place, flip, syncVars, ghostVars>> BY DEF GenSeq
<1> USE DEF syncVars, ghostVars
<1> HIDE DEF ch, r, b, n, top, c, vs, p
<1>15. /\ block' \in [Replicas -> [Channels -> [at : Nat, top : Nat] \cup {Cold}]]
       /\ block'[r][ch] = c
       /\ \A q \in Replicas, x \in Channels : q # r \/ x # ch => block'[q][x] = block[q][x]
    BY <1>5, <1>6, <1>10, <1>11
<1>16. /\ minSeq' \in [Channels -> Nat]
       /\ minSeq'[ch] = IF b.at = b.top THEN top ELSE minSeq[ch]
       /\ \A x \in Channels : x # ch => minSeq'[x] = minSeq[x]
    <2>1. minSeq \in [Channels -> Nat] BY <1>2 DEF TypeOK
    <2> QED BY <2>1, <1>5, <1>9, <1>10
<1>17. /\ tx' \in [Writers -> Tx \cup {Idle}]
       /\ \A v \in Writers : v # w => tx'[v] = tx[v]
       /\ tx'[w].pc = p /\ tx'[w].mode = tx[w].mode /\ tx'[w].floor = tx[w].floor
       /\ tx'[w].msgs = tx[w].msgs /\ tx'[w].rows = tx[w].rows /\ tx'[w].vs = vs
    BY <1>3, <1>4, <1>10, <1>12, <1>13 DEF Tx
<1>18. TypeOK' BY <1>2, <1>14, <1>15, <1>16, <1>17 DEF TypeOK
<1>19. Chan(w)' = ch BY <1>17 DEF Chan, ch
\* With one process, the boundary rises to the block's top, over every version so far.
<1>20. ASSUME OneProcess
       PROVE  /\ minSeq'[ch] = top /\ minSeq[ch] <= minSeq'[ch] /\ b.at + 1 <= minSeq'[ch]
              /\ \A x \in Channels : minSeq[x] <= minSeq'[x]
    <2>1. b.at <= b.top /\ b.top = minSeq[ch]
        BY <1>5, <1>7, <1>20 DEF IInv, OneBlock, BlockBelow, b, r
    <2>2. minSeq'[ch] = top /\ minSeq[ch] <= minSeq'[ch] /\ b.at + 1 <= minSeq'[ch]
        <3>1. CASE b.at = b.top BY <3>1, <2>1, <1>9, <1>16
        <3>2. CASE b.at # b.top
            <4>1. top = b.top BY <3>2 DEF top
            <4> QED BY <3>2, <4>1, <2>1, <1>8, <1>16
        <3> QED BY <3>1, <3>2
    <2>3. \A x \in Channels : minSeq[x] \in Nat BY <1>2 DEF TypeOK
    <2>4. \A x \in Channels : minSeq[x] <= minSeq'[x] BY <2>2, <2>3, <1>16
    <2> QED BY <2>2, <2>4
<1>21. WriterSound(w)'
    <2>1. Mode' = Mode BY <1>14 DEF Mode
    <2>2. HoldsState(w) BY <1>1 DEF HoldsState, At
    <2>3. Sound(w)'
        <3>1. Len(vs) \in Nat /\ n \in Nat /\ tx[w].msgs \in Batches[w] /\ tx[w].rows <= n
            BY <1>3, <1>12
        <3>2. tx'[w].msgs = tx[w].msgs /\ Len(tx'[w].msgs) = n BY <1>17 DEF n
        <3>3. tx[w].rows \in {0, n} /\ tx'[w].mode = "legacy" BY <1>3, <1>17
        <3>4. p = "row" => tx'[w].rows < n BY <1>3, <1>13, <1>17, <3>1
        <3> QED BY <1>13, <1>17, <3>1, <3>2, <3>3, <3>4 DEF Sound
    <2>4. ModeKept(w)' BY <1>2, <1>14, <1>17, <2>1, <2>2 DEF ModeKept, WriterSound
    <2>5. Refused(w)' BY <1>2, <1>14, <2>2 DEF Refused, WriterSound
    <2>6. Alone(w)' BY <1>3, <1>17 DEF Alone, HoldsSeq
    <2>7. Rising(w)' BY <1>3, <1>17 DEF Rising
    <2>8. ASSUME OneProcess PROVE IssuedBelow(w)'
        <3> SUFFICES ASSUME NEW i \in DOMAIN vs PROVE vs[i] <= minSeq'[ch]
            BY <1>17, <1>19 DEF IssuedBelow
        <3>1. CASE vs[i] = b.at + 1 BY <3>1, <1>20, <2>8
        <3>2. CASE i \in DOMAIN tx[w].vs /\ vs[i] = tx[w].vs[i]
            <4>1. tx[w].vs[i] <= minSeq[ch]
                BY <1>1, <1>2, <1>3, <2>8, <3>2 DEF WriterSound, IssuedBelow, ch
            <4>2. minSeq[ch] <= minSeq'[ch] BY <1>20, <2>8
            <4>3. tx[w].vs[i] \in Nat /\ minSeq'[ch] \in Nat BY <1>3, <1>5, <1>16, <3>2
            <4> QED BY <4>1, <4>2, <4>3, <3>2, <1>5
        <3> QED BY <3>1, <3>2, <1>12
    <2>9. (OneProcess => IssuedBelow(w))' BY <1>14, <2>8 DEF OneProcess
    <2> QED BY <2>3, <2>4, <2>5, <2>6, <2>7, <2>9 DEF WriterSound
<1>22. ASSUME NEW v \in Writers PROVE WriterSound(v)'
    <2>1. CASE v = w BY <2>1, <1>21
    <2>2. CASE v # w
        <3>1. WriterSound(v) BY DEF IInv
        <3>2. tx'[v] = tx[v] BY <2>2, <1>17
        <3>3. Sound(v)' /\ ModeKept(v)' /\ Refused(v)' /\ Rising(v)'
            BY <3>1, <3>2, <1>14, StillSound
        <3>4. Alone(v)' BY <3>1, <2>2, <1>17, <1>21, StillAlone DEF WriterSound
        <3>5. (OneProcess => IssuedBelow(v))'
            BY <3>1, <3>2, <1>2, <1>14, <1>18, <1>20, StillIssued
        <3> QED BY <3>3, <3>4, <3>5 DEF WriterSound
    <2> QED BY <2>1, <2>2
<1>23. OneBlock'
    <2> SUFFICES ASSUME OneProcess
                 PROVE  /\ \A v \in Writers, x \in Channels : BlockBelow(v, x)'
                        /\ \A x \in Channels : HighCovered(x)'
        BY <1>14 DEF OneBlock, OneProcess
    <2>1. minSeq'[ch] = top /\ b.at + 1 <= minSeq'[ch] /\ \A x \in Channels : minSeq[x] <= minSeq'[x]
        BY <1>20
    <2>2. ASSUME NEW v \in Writers, NEW x \in Channels PROVE BlockBelow(v, x)'
        <3>1. place[v] = r BY DEF OneProcess, r
        <3>2. BlockBelow(v, x) BY DEF IInv, OneBlock
        <3>3. CASE x = ch
            <4>1. block'[place'[v]][x] = c BY <3>1, <3>3, <1>14, <1>15
            <4>2. c.at <= c.top /\ c.top = minSeq'[x] BY <3>3, <2>1, <1>11
            <4> QED BY <4>1, <4>2 DEF BlockBelow
        <3>4. CASE x # ch
            <4>1. block'[place'[v]][x] = block[place[v]][x] BY <3>1, <3>4, <1>5, <1>14, <1>15
            <4>2. minSeq'[x] = minSeq[x] BY <3>4, <1>16
            <4> QED BY <3>2, <4>1, <4>2 DEF BlockBelow
        <3> QED BY <3>3, <3>4
    <2>3. ASSUME NEW x \in Channels PROVE HighCovered(x)'
        <3>1. HighCovered(x) BY DEF IInv, OneBlock
        <3>2. high[x] \in Nat /\ minSeq[x] \in Nat /\ minSeq'[x] \in Nat BY <1>2, <1>16 DEF TypeOK
        <3>3. minSeq[x] <= minSeq'[x] BY <2>1
        <3> QED BY <3>1, <3>2, <3>3, <1>14 DEF HighCovered
    <2> QED BY <2>2, <2>3
<1>24. Fleet' /\ SinceCovered' /\ Seen' BY <1>14 DEF IInv, Fleet, SinceCovered, Seen
<1> QED BY <1>18, <1>22, <1>23, <1>24 DEF IInv

-----------------------------------------------------------------------------
(* Commits. *)

\* What a commit publishes: each changed message has one of the versions, and a
\* transactional commit moves the sequence row to the last and highest of them.
LEMMA CommitFacts ==
    ASSUME IInv, NEW w \in Writers, Commit(w)
    PROVE  /\ Active(w) /\ HoldsState(w) /\ tx[w].mode = Mode
           /\ tx' \in [Writers -> Tx \cup {Idle}] /\ tx'[w] = Idle
           /\ \A v \in Writers : v # w => tx'[v] = tx[v]
           /\ Chan(w) \in Channels /\ tx[w].vs \in Seq(Nat)
           /\ Len(tx[w].vs) \in DOMAIN tx[w].vs
           /\ extra' \in [Messages -> Nat]
           /\ \A m \in Messages : \/ extra'[m] = extra[m]
                                  \/ /\ ChannelOf[m] = Chan(w)
                                     /\ \E i \in DOMAIN tx[w].vs : extra'[m] = tx[w].vs[i]
           /\ seq' = IF tx[w].mode = "transactional"
                     THEN [seq EXCEPT ![Chan(w)] = tx[w].vs[Len(tx[w].vs)]] ELSE seq
           /\ UNCHANGED <<state, minSeq, procVars, flip, syncVars, intended>>
<1> DEFINE msgs == tx[w].msgs
           vs == tx[w].vs
<1>1. Active(w) /\ At(w, "commit") BY AtFacts DEF Commit
<1>2. WriterSound(w) /\ Sound(w) /\ TypeOK BY DEF IInv, WriterSound
<1>3. /\ msgs \in Batches[w] /\ msgs \in Seq(Messages) /\ vs \in Seq(Nat)
      /\ Len(vs) = Len(msgs) /\ Len(msgs) \in Nat /\ 1 <= Len(msgs) /\ Chan(w) \in Channels
    BY <1>1, <1>2, TxFacts DEF At, Sound
<1>4. HoldsState(w) BY <1>1 DEF HoldsState, At
<1>5. tx[w].mode = Mode BY <1>2, <1>4 DEF ModeKept, WriterSound
<1>6. tx \in [Writers -> Tx \cup {Idle}] BY <1>2 DEF TypeOK
<1>7. /\ tx' \in [Writers -> Tx \cup {Idle}] /\ tx'[w] = Idle
      /\ \A v \in Writers : v # w => tx'[v] = tx[v]
    BY <1>6 DEF Commit, End
<1>8. DOMAIN vs = DOMAIN msgs /\ Len(vs) \in DOMAIN vs BY <1>3
<1>9. extra' = [m \in Messages |-> IF \E i \in DOMAIN msgs : msgs[i] = m
                                   THEN vs[CHOOSE i \in DOMAIN msgs : msgs[i] = m]
                                   ELSE extra[m]]
    BY DEF Commit
<1> HIDE DEF msgs, vs
<1>10. ASSUME NEW m \in Messages
       PROVE  /\ extra'[m] \in Nat
              /\ \/ extra'[m] = extra[m]
                 \/ /\ ChannelOf[m] = Chan(w)
                    /\ \E i \in DOMAIN vs : extra'[m] = vs[i]
    <2>1. CASE \E i \in DOMAIN msgs : msgs[i] = m
        <3> DEFINE k == CHOOSE i \in DOMAIN msgs : msgs[i] = m
        <3>1. k \in DOMAIN msgs /\ msgs[k] = m BY <2>1
        <3>2. extra'[m] = vs[k] BY <2>1, <1>9
        <3> HIDE DEF k
        <3>3. vs[k] \in Nat BY <3>1, <1>3, <1>8
        <3>4. ChannelOf[m] = Chan(w) BY <3>1, <1>3, BatchFacts DEF Chan, msgs
        <3> QED BY <3>1, <3>2, <3>3, <3>4, <1>8
    <2>2. CASE ~(\E i \in DOMAIN msgs : msgs[i] = m)
        <3>1. extra'[m] = extra[m] BY <2>2, <1>9
        <3> QED BY <3>1, <1>2 DEF TypeOK
    <2> QED BY <2>1, <2>2
<1>11. extra' \in [Messages -> Nat] BY <1>9, <1>10
<1>12. /\ seq' = IF tx[w].mode = "transactional" THEN [seq EXCEPT ![Chan(w)] = vs[Len(vs)]] ELSE seq
       /\ UNCHANGED <<state, minSeq, procVars, flip, syncVars, intended>>
    BY DEF Commit, vs
<1> QED BY <1>1, <1>3, <1>4, <1>5, <1>7, <1>8, <1>10, <1>11, <1>12 DEF vs

\* ... and the highest version committed so far follows it, since the start and since
\* the activation.
LEMMA CommitHighs ==
    ASSUME IInv, NEW w \in Writers, Commit(w)
    PROVE  /\ high' \in [Channels -> Nat] /\ since' \in [Channels -> Nat]
           /\ \A x \in Channels : x # Chan(w) => high'[x] = high[x] /\ since'[x] = since[x]
           /\ high[Chan(w)] <= high'[Chan(w)]
           /\ \A i \in DOMAIN tx[w].vs : tx[w].vs[i] <= high'[Chan(w)]
           /\ \/ high'[Chan(w)] = high[Chan(w)]
              \/ \E i \in DOMAIN tx[w].vs : high'[Chan(w)] = tx[w].vs[i]
           /\ \/ since'[Chan(w)] = since[Chan(w)]
              \/ \E i \in DOMAIN tx[w].vs : since'[Chan(w)] = tx[w].vs[i]
<1> DEFINE ch == Chan(w)
           vs == tx[w].vs
           H == {high[ch]} \cup {vs[i] : i \in DOMAIN vs}
           S == {since[ch]} \cup {vs[i] : i \in DOMAIN vs}
<1>1. TypeOK BY DEF IInv
<1>2. ch \in Channels /\ vs \in Seq(Nat) BY CommitFacts
<1>3. PICK h \in H : IsMax(h, H) /\ high' = [high EXCEPT ![ch] = h] BY DEF Commit
<1>4. PICK g \in S : IsMax(g, S) /\ since' = [since EXCEPT ![ch] = g] BY DEF Commit
<1> HIDE DEF ch, vs
<1>5. high \in [Channels -> Nat] /\ since \in [Channels -> Nat] BY <1>1 DEF TypeOK
<1>6. \A i \in DOMAIN vs : vs[i] \in Nat BY <1>2
<1>7. H \subseteq Nat /\ S \subseteq Nat BY <1>2, <1>5, <1>6
<1>8. h \in Nat /\ high[ch] <= h /\ \A i \in DOMAIN vs : vs[i] <= h BY <1>3, <1>7 DEF IsMax
<1>9. h = high[ch] \/ \E i \in DOMAIN vs : h = vs[i] BY <1>3
<1>10. g \in Nat /\ (g = since[ch] \/ \E i \in DOMAIN vs : g = vs[i]) BY <1>4, <1>7
<1> HIDE DEF H, S
<1>11. /\ high' \in [Channels -> Nat] /\ high'[ch] = h
       /\ \A x \in Channels : x # ch => high'[x] = high[x]
    BY <1>2, <1>3, <1>5, <1>8
<1>12. /\ since' \in [Channels -> Nat] /\ since'[ch] = g
       /\ \A x \in Channels : x # ch => since'[x] = since[x]
    BY <1>2, <1>4, <1>5, <1>10
<1> QED BY <1>8, <1>9, <1>10, <1>11, <1>12 DEF ch, vs

\* The versions a transactional commit publishes are above everything that came before:
\* its sequence row, the floor, and what was committed since the activation.
LEMMA CommitRises ==
    ASSUME IInv, NEW w \in Writers, Commit(w), state.mode = "transactional"
    PROVE  /\ tx[w].mode = "transactional"
           /\ \A i \in DOMAIN tx[w].vs :
                /\ seq[Chan(w)] < tx[w].vs[i] /\ state.floor < tx[w].vs[i]
                /\ tx[w].vs[i] <= tx[w].vs[Len(tx[w].vs)] /\ tx[w].vs[i] <= MaxSafe
                /\ since[Chan(w)] < tx[w].vs[i]
                /\ OneProcess => high[Chan(w)] < tx[w].vs[i]
<1>1. TypeOK /\ WriterSound(w) BY DEF IInv
<1>2. /\ Active(w) /\ HoldsState(w) /\ tx[w].mode = Mode /\ Chan(w) \in Channels
      /\ tx[w].vs \in Seq(Nat)
    BY CommitFacts
<1>3. tx[w].mode = "transactional" /\ state.floor \in Nat BY <1>1, <1>2, ModeFacts
<1>4. tx[w].floor = state.floor BY <1>1, <1>2 DEF WriterSound, ModeKept
<1>5. ASSUME NEW i \in DOMAIN tx[w].vs
      PROVE  /\ seq[Chan(w)] < tx[w].vs[i] /\ state.floor < tx[w].vs[i]
             /\ tx[w].vs[i] <= tx[w].vs[Len(tx[w].vs)] /\ tx[w].vs[i] <= MaxSafe
    BY <1>1, <1>2, <1>3, <1>4 DEF WriterSound, Rising
<1>6. /\ seq[Chan(w)] \in Nat /\ since[Chan(w)] \in Nat /\ high[Chan(w)] \in Nat
      /\ \A i \in DOMAIN tx[w].vs : tx[w].vs[i] \in Nat
    BY <1>1, <1>2, MsgExtraAssumption DEF TypeOK
<1>7. since[Chan(w)] <= seq[Chan(w)] \/ since[Chan(w)] <= state.floor
    BY <1>2 DEF IInv, SinceCovered
<1>8. OneProcess => high[Chan(w)] <= state.floor \/ high[Chan(w)] <= seq[Chan(w)]
    BY <1>2 DEF IInv, OneBlock, HighCovered
<1>9. ASSUME NEW i \in DOMAIN tx[w].vs
      PROVE  since[Chan(w)] < tx[w].vs[i] /\ (OneProcess => high[Chan(w)] < tx[w].vs[i])
    BY <1>3, <1>5, <1>6, <1>7, <1>8
<1> QED BY <1>3, <1>5, <1>9

\* No row and no cursor gets ahead: the highest version takes the new ones in.
LEMMA CommitSeen ==
    ASSUME IInv, NEW w \in Writers, Commit(w)
    PROVE  Seen'
<1>1. TypeOK /\ Seen BY DEF IInv
<1>2. /\ \A m \in Messages : \/ extra'[m] = extra[m]
                             \/ /\ ChannelOf[m] = Chan(w)
                                /\ \E i \in DOMAIN tx[w].vs : extra'[m] = tx[w].vs[i]
      /\ cached' = cached /\ sync' = sync
    BY CommitFacts DEF syncVars
<1>3. /\ high' \in [Channels -> Nat]
      /\ \A x \in Channels : x # Chan(w) => high'[x] = high[x]
      /\ high[Chan(w)] <= high'[Chan(w)]
      /\ \A i \in DOMAIN tx[w].vs : tx[w].vs[i] <= high'[Chan(w)]
    BY CommitHighs
<1>4. high \in [Channels -> Nat] /\ cached \in [Channels -> Nat] /\ extra \in [Messages -> Nat]
      /\ sync \in [Syncs -> [ch : Channels, cursor : Nat] \cup {Idle}]
    BY <1>1 DEF TypeOK
<1>5. \A x \in Channels : high[x] \in Nat /\ high'[x] \in Nat /\ high[x] <= high'[x]
    BY <1>3, <1>4
<1>6. ASSUME NEW m \in Messages PROVE extra'[m] <= high'[ChannelOf[m]]
    <2>1. ChannelOf[m] \in Channels BY MsgExtraAssumption
    <2>2. CASE extra'[m] = extra[m]
        <3>1. extra[m] <= high[ChannelOf[m]] BY <1>1 DEF Seen
        <3>2. extra[m] \in Nat BY <1>4
        <3> QED BY <2>1, <2>2, <3>1, <3>2, <1>5
    <2>3. CASE ChannelOf[m] = Chan(w) /\ \E i \in DOMAIN tx[w].vs : extra'[m] = tx[w].vs[i]
        BY <2>3, <1>3
    <2> QED BY <2>2, <2>3, <1>2
<1>7. ASSUME NEW x \in Channels PROVE cached'[x] <= high'[x]
    BY <1>1, <1>2, <1>4, <1>5 DEF Seen
<1>8. ASSUME NEW s \in Syncs, sync[s] # Idle PROVE sync[s].cursor <= high'[sync[s].ch]
    <2>1. sync[s].ch \in Channels /\ sync[s].cursor \in Nat BY <1>4, <1>8
    <2>2. sync[s].cursor <= high[sync[s].ch] BY <1>1, <1>8 DEF Seen
    <2> QED BY <2>1, <2>2, <1>5
<1> QED BY <1>2, <1>6, <1>7, <1>8 DEF Seen

LEMMA CommitStep ==
    ASSUME IInv, NEW w \in Writers, Commit(w)
    PROVE  IInv'
<1> DEFINE ch == Chan(w)
           vs == tx[w].vs
           n == Len(vs)
<1>1. TypeOK /\ WriterSound(w) BY DEF IInv
<1>2. /\ Active(w) /\ HoldsState(w) /\ tx[w].mode = Mode
      /\ tx' \in [Writers -> Tx \cup {Idle}] /\ tx'[w] = Idle
      /\ \A v \in Writers : v # w => tx'[v] = tx[v]
      /\ ch \in Channels /\ vs \in Seq(Nat) /\ n \in DOMAIN vs
      /\ extra' \in [Messages -> Nat]
      /\ \A m \in Messages : \/ extra'[m] = extra[m]
                             \/ ChannelOf[m] = ch /\ \E i \in DOMAIN vs : extra'[m] = vs[i]
      /\ seq' = IF tx[w].mode = "transactional" THEN [seq EXCEPT ![ch] = vs[n]] ELSE seq
      /\ UNCHANGED <<state, minSeq, procVars, flip, syncVars, intended>>
    BY CommitFacts
<1>3. /\ high' \in [Channels -> Nat] /\ since' \in [Channels -> Nat]
      /\ \A x \in Channels : x # ch => high'[x] = high[x] /\ since'[x] = since[x]
      /\ high[ch] <= high'[ch] /\ \A i \in DOMAIN vs : vs[i] <= high'[ch]
      /\ high'[ch] = high[ch] \/ \E i \in DOMAIN vs : high'[ch] = vs[i]
      /\ since'[ch] = since[ch] \/ \E i \in DOMAIN vs : since'[ch] = vs[i]
    BY CommitHighs
<1>4. /\ Mode \in Modes /\ state.floor \in Nat
      /\ Mode = "transactional" <=> state.mode = "transactional"
    BY <1>1, ModeFacts
<1>5. state.mode = "transactional" =>
         /\ tx[w].mode = "transactional"
         /\ \A i \in DOMAIN vs :
              /\ seq[ch] < vs[i] /\ state.floor < vs[i] /\ vs[i] <= vs[n] /\ vs[i] <= MaxSafe
              /\ since[ch] < vs[i]
    BY CommitRises
<1> HIDE DEF ch, vs, n
<1>6. /\ seq \in [Channels -> 0..MaxSafe] /\ high \in [Channels -> Nat]
      /\ since \in [Channels -> Nat] /\ extra \in [Messages -> Nat] /\ minSeq \in [Channels -> Nat]
    BY <1>1 DEF TypeOK
<1>7. \A i \in DOMAIN vs : vs[i] \in Nat BY <1>2
\* The sequence rows, in both modes.
<1>8. CASE state.mode = "transactional"
    <2>1. seq' = [seq EXCEPT ![ch] = vs[n]] BY <1>2, <1>5, <1>8
    <2>2. vs[n] \in 0..MaxSafe BY <1>2, <1>5, <1>7, <1>8, Bounds
    <2>3. /\ seq' \in [Channels -> 0..MaxSafe] /\ seq'[ch] = vs[n]
          /\ \A x \in Channels : x # ch => seq'[x] = seq[x]
        BY <1>2, <1>6, <2>1, <2>2
    <2>4. TypeOK' BY <1>1, <1>2, <1>3, <2>3 DEF TypeOK, procVars, syncVars
    <2>5. ASSUME NEW v \in Writers PROVE WriterSound(v)'
        <3>1. CASE v = w BY <3>1, <1>2, OverSound
        <3>2. CASE v # w
            <4>1. WriterSound(v) /\ tx'[v] = tx[v] BY <1>2, <3>2 DEF IInv
            <4>2. Sound(v)' BY <4>1 DEF WriterSound, Sound, Active
            <4>3. HoldsState(v)' = HoldsState(v) BY <4>1 DEF HoldsState, Active, At
            <4>4. ModeKept(v)' /\ Refused(v)'
                BY <1>2, <4>1, <4>3 DEF WriterSound, ModeKept, Refused, Mode
            <4>5. Alone(v)'
                <5>1. Alone(w)' BY <1>2, OverSound DEF WriterSound
                <5> QED BY <5>1, <4>1, <3>2, <1>2, StillAlone DEF WriterSound
            <4>6. (OneProcess => IssuedBelow(v))'
                <5>1. \A x \in Channels : minSeq[x] <= minSeq'[x] BY <1>2, <1>6
                <5>2. place' = place BY <1>2 DEF procVars
                <5> QED BY <1>1, <2>4, <4>1, <5>1, <5>2, StillIssued
            <4>7. Rising(v)'
                <5> SUFFICES ASSUME Active(v), tx[v].mode = "transactional", NEW i \in DOMAIN tx[v].vs
                             PROVE  /\ seq'[Chan(v)] < tx[v].vs[i]
                                    /\ tx[v].floor < tx[v].vs[i]
                                    /\ tx[v].vs[i] <= tx[v].vs[Len(tx[v].vs)]
                                    /\ tx[v].vs[i] <= MaxSafe
                    BY <4>1 DEF Rising, Active, Chan
                <5>1. /\ seq[Chan(v)] < tx[v].vs[i] /\ tx[v].floor < tx[v].vs[i]
                      /\ tx[v].vs[i] <= tx[v].vs[Len(tx[v].vs)] /\ tx[v].vs[i] <= MaxSafe
                    BY <4>1 DEF WriterSound, Rising
                <5>2. Chan(v) \in Channels /\ tx[v].vs \in Seq(Nat)
                    BY <1>1, <4>1, TxFacts DEF WriterSound
                <5>3. Chan(v) # ch
                    <6>1. tx[v].vs # <<>> BY <5>2
                    <6>2. HoldsSeq(v, Chan(v)) BY <6>1 DEF HoldsSeq
                    <6>3. tx[w].vs # <<>> BY <1>2 DEF vs
                    <6>4. HoldsSeq(w, ch) BY <1>2, <1>5, <1>8, <6>3 DEF HoldsSeq, ch
                    <6> QED BY <1>2, <3>2, <4>1, <6>2, <6>4 DEF WriterSound, Alone
                <5> QED BY <5>1, <5>2, <5>3, <2>3
            <4> QED BY <4>2, <4>4, <4>5, <4>6, <4>7 DEF WriterSound
        <3> QED BY <3>1, <3>2
    <2>6. SinceCovered'
        <3> SUFFICES ASSUME NEW x \in Channels
                     PROVE  since'[x] <= seq'[x] \/ since'[x] <= state.floor
            BY <1>2 DEF SinceCovered
        <3>1. CASE x # ch BY <3>1, <1>3, <1>8, <2>3 DEF IInv, SinceCovered
        <3>2. CASE x = ch
            <4>1. since[ch] < vs[n] BY <1>2, <1>5, <1>8
            <4>2. since'[ch] <= vs[n]
                <5>1. since[ch] \in Nat /\ vs[n] \in Nat BY <1>2, <1>6, <1>7
                <5>2. \A i \in DOMAIN vs : vs[i] <= vs[n] BY <1>5, <1>8
                <5>3. since[ch] <= vs[n] BY <4>1, <5>1
                <5> QED BY <1>3, <5>2, <5>3, Zenon
            <4> QED BY <3>2, <4>2, <2>3
        <3> QED BY <3>1, <3>2
    <2>7. OneBlock'
        <3> SUFFICES ASSUME OneProcess
                     PROVE  /\ \A v \in Writers, x \in Channels : BlockBelow(v, x)'
                            /\ \A x \in Channels : HighCovered(x)'
            BY <1>2 DEF OneBlock, OneProcess, procVars
        <3>1. \A v \in Writers, x \in Channels : BlockBelow(v, x)'
            BY <1>2 DEF IInv, OneBlock, BlockBelow, procVars
        <3>2. ASSUME NEW x \in Channels PROVE HighCovered(x)'
            <4>1. intended = "transactional" BY <1>8 DEF IInv, Fleet
            <4>2. HighCovered(x) BY DEF IInv, OneBlock
            <4>3. CASE x # ch BY <4>2, <4>3, <1>2, <1>3, <2>3 DEF HighCovered
            <4>4. CASE x = ch
                <5>1. high[ch] < vs[n]
                    BY <1>2, <1>8, CommitRises DEF ch, vs, n
                <5>2. high'[ch] <= vs[n]
                    <6>1. high[ch] \in Nat /\ vs[n] \in Nat BY <1>2, <1>6, <1>7
                    <6>2. \A i \in DOMAIN vs : vs[i] <= vs[n] BY <1>5, <1>8
                    <6>3. high[ch] <= vs[n] BY <5>1, <6>1
                    <6> QED BY <1>3, <6>2, <6>3, Zenon
                <5>3. high'[x] <= seq'[x] BY <4>4, <5>2, <2>3
                <5> QED BY <4>1, <5>3, <1>2 DEF HighCovered
            <4> QED BY <4>3, <4>4
        <3> QED BY <3>1, <3>2
    <2>8. Fleet' BY <1>2 DEF IInv, Fleet, procVars
    <2>9. Seen' BY CommitSeen
    <2> QED BY <2>4, <2>5, <2>6, <2>7, <2>8, <2>9 DEF IInv
\* Legacy mode: what the block handed out is below min_seq.
<1>9. CASE state.mode # "transactional"
    <2>1. tx[w].mode = "legacy" BY <1>2, <1>4, <1>9 DEF Modes
    <2>2. seq' = seq BY <1>2, <2>1
    <2>3. TypeOK' BY <1>1, <1>2, <1>3, <2>2 DEF TypeOK, procVars, syncVars
    <2>4. ASSUME NEW v \in Writers PROVE WriterSound(v)'
        <3>1. CASE v = w BY <3>1, <1>2, OverSound
        <3>2. CASE v # w
            <4>1. WriterSound(v) /\ tx'[v] = tx[v] BY <1>2, <3>2 DEF IInv
            <4>2. Sound(v)' /\ ModeKept(v)' /\ Refused(v)' /\ Rising(v)'
                BY <1>2, <2>2, <4>1, StillSound
            <4>3. Alone(v)'
                <5>1. Alone(w)' BY <1>2, OverSound DEF WriterSound
                <5> QED BY <5>1, <4>1, <3>2, <1>2, StillAlone DEF WriterSound
            <4>4. (OneProcess => IssuedBelow(v))'
                <5>1. \A x \in Channels : minSeq[x] <= minSeq'[x] BY <1>2, <1>6
                <5>2. place' = place BY <1>2 DEF procVars
                <5> QED BY <1>1, <2>3, <4>1, <5>1, <5>2, StillIssued
            <4> QED BY <4>2, <4>3, <4>4 DEF WriterSound
        <3> QED BY <3>1, <3>2
    <2>5. SinceCovered' BY <1>2, <1>9 DEF SinceCovered
    <2>6. OneBlock'
        <3> SUFFICES ASSUME OneProcess
                     PROVE  /\ \A v \in Writers, x \in Channels : BlockBelow(v, x)'
                            /\ \A x \in Channels : HighCovered(x)'
            BY <1>2 DEF OneBlock, OneProcess, procVars
        <3>1. \A v \in Writers, x \in Channels : BlockBelow(v, x)'
            BY <1>2 DEF IInv, OneBlock, BlockBelow, procVars
        <3>2. ASSUME NEW x \in Channels PROVE HighCovered(x)'
            <4>1. intended # "transactional" BY <1>1, <1>2, <1>9 DEF WriterSound, Refused
            <4>2. HighCovered(x) BY DEF IInv, OneBlock
            <4>3. high[x] <= minSeq[x] BY <4>1, <4>2 DEF HighCovered
            <4>4. CASE x # ch BY <4>3, <4>4, <1>2, <1>3, <1>9 DEF HighCovered
            <4>5. CASE x = ch
                <5>1. \A i \in DOMAIN vs : vs[i] <= minSeq[ch]
                    BY <1>1, <1>2, <2>1 DEF WriterSound, IssuedBelow, ch, vs
                <5>2. high'[ch] <= minSeq[ch] BY <5>1, <4>3, <4>5, <1>3
                <5> QED BY <4>5, <5>2, <1>2, <1>9 DEF HighCovered
            <4> QED BY <4>4, <4>5
        <3> QED BY <3>1, <3>2
    <2>7. Fleet' BY <1>2 DEF IInv, Fleet, procVars
    <2>8. Seen' BY CommitSeen
    <2> QED BY <2>3, <2>4, <2>5, <2>6, <2>7, <2>8 DEF IInv
<1> QED BY <1>8, <1>9

-----------------------------------------------------------------------------
(* Restarts and the cutover. *)

LEMMA RestartStep ==
    ASSUME IInv, NEW r \in Replicas, NEW g \in Guards, Restart(r, g)
    PROVE  IInv'
<1>1. TypeOK BY DEF IInv
<1>2. UNCHANGED <<dbVars, place, flip, syncVars, ghostVars>> BY DEF Restart
<1> USE DEF dbVars, syncVars, ghostVars
<1>3. /\ guard' \in [Replicas -> Guards]
      /\ state.mode # intended => guard' = guard
      /\ block' \in [Replicas -> [Channels -> [at : Nat, top : Nat] \cup {Cold}]]
      /\ \A q \in Replicas, x \in Channels : block'[q][x] = Cold \/ block'[q][x] = block[q][x]
      /\ tx' \in [Writers -> Tx \cup {Idle}]
      /\ \A w \in Writers : tx'[w] = Idle \/ tx'[w] = tx[w]
    <2>1. guard \in [Replicas -> Guards] BY <1>1 DEF TypeOK
    <2>2. guard' \in [Replicas -> Guards] /\ (g = guard[r] => guard' = guard) BY <2>1 DEF Restart
    <2>3. block \in [Replicas -> [Channels -> [at : Nat, top : Nat] \cup {Cold}]] BY <1>1 DEF TypeOK
    <2>4. block' = [block EXCEPT ![r] = [ch \in Channels |-> Cold]] BY DEF Restart
    <2>5. /\ block' \in [Replicas -> [Channels -> [at : Nat, top : Nat] \cup {Cold}]]
          /\ \A q \in Replicas, x \in Channels : block'[q][x] = Cold \/ block'[q][x] = block[q][x]
        BY <2>3, <2>4
    <2>6. tx \in [Writers -> Tx \cup {Idle}] BY <1>1 DEF TypeOK
    <2>7. tx' = [w \in Writers |-> IF place[w] = r THEN Idle ELSE tx[w]] BY DEF Restart
    <2>8. /\ tx' \in [Writers -> Tx \cup {Idle}]
          /\ \A w \in Writers : tx'[w] = Idle \/ tx'[w] = tx[w]
        BY <2>6, <2>7
    <2> QED BY <2>2, <2>5, <2>8 DEF Restart
<1>4. TypeOK' BY <1>1, <1>2, <1>3 DEF TypeOK
<1>5. ASSUME NEW v \in Writers PROVE WriterSound(v)'
    <2>1. CASE tx'[v] = Idle BY <2>1, OverSound
    <2>2. CASE tx'[v] = tx[v]
        <3>1. WriterSound(v) BY DEF IInv
        <3>2. Sound(v)' /\ ModeKept(v)' /\ Refused(v)' /\ Rising(v)'
            BY <1>2, <2>2, <3>1, StillSound
        <3>3. Alone(v)'
            <4> SUFFICES ASSUME NEW u \in Writers, NEW ch \in Channels, HoldsSeq(v, ch)', HoldsSeq(u, ch)'
                         PROVE  u = v
                BY DEF Alone
            <4>1. tx'[u] = tx[u] BY <1>3 DEF HoldsSeq, Active
            <4>2. HoldsSeq(v, ch) /\ HoldsSeq(u, ch) BY <2>2, <4>1 DEF HoldsSeq, Active, Chan
            <4> QED BY <3>1, <4>2 DEF WriterSound, Alone
        <3>4. \A x \in Channels : minSeq[x] <= minSeq'[x] BY <1>1, <1>2 DEF TypeOK
        <3>5. (OneProcess => IssuedBelow(v))' BY <1>1, <1>2, <1>4, <2>2, <3>1, <3>4, StillIssued
        <3> QED BY <3>2, <3>3, <3>5 DEF WriterSound
    <2> QED BY <2>1, <2>2, <1>3
<1>6. OneBlock'
    <2> SUFFICES ASSUME OneProcess
                 PROVE  /\ \A v \in Writers, x \in Channels : BlockBelow(v, x)'
                        /\ \A x \in Channels : HighCovered(x)'
        BY <1>2 DEF OneBlock, OneProcess
    <2>1. ASSUME NEW v \in Writers, NEW x \in Channels PROVE BlockBelow(v, x)'
        <3>1. place[v] \in Replicas BY <1>1, Places DEF TypeOK
        <3>2. BlockBelow(v, x) BY DEF IInv, OneBlock
        <3>3. block'[place[v]][x] = Cold \/ block'[place[v]][x] = block[place[v]][x]
            BY <1>3, <3>1
        <3> QED BY <3>2, <3>3, <1>2 DEF BlockBelow
    <2>2. \A x \in Channels : HighCovered(x)' BY <1>2 DEF IInv, OneBlock, HighCovered
    <2> QED BY <2>1, <2>2
<1>7. Fleet' BY <1>2, <1>3 DEF IInv, Fleet
<1>8. SinceCovered' /\ Seen' BY <1>2 DEF IInv, SinceCovered, Seen
<1> QED BY <1>4, <1>5, <1>6, <1>7, <1>8 DEF IInv

\* Steps of the pending activation and of the sync handlers leave the rest as it is.
LEMMA FlipOrSync ==
    ASSUME IInv, flip' \in Nat, UNCHANGED <<dbVars, procVars, tx, syncVars, ghostVars>>
    PROVE  IInv'
<1> USE DEF dbVars, procVars, syncVars, ghostVars
<1>1. TypeOK' BY DEF IInv, TypeOK
<1>2. \A x \in Channels : minSeq[x] <= minSeq'[x] BY DEF IInv, TypeOK
<1>3. \A v \in Writers : WriterSound(v)' BY <1>1, <1>2, NoneMoves
<1>4. OneBlock' BY DEF IInv, OneBlock, OneProcess, BlockBelow, HighCovered
<1>5. Fleet' /\ SinceCovered' /\ Seen' BY DEF IInv, Fleet, SinceCovered, Seen
<1> QED BY <1>1, <1>3, <1>4, <1>5 DEF IInv

\* With every share lock gone the state row may change under the writers that queue.
LEMMA NoneHolds ==
    ASSUME IInv, tx' = tx, seq' = seq, place' = place, TypeOK',
           OneProcess => \A ch \in Channels : minSeq[ch] <= minSeq'[ch],
           \A w \in Writers : ~HoldsState(w)
    PROVE  \A v \in Writers : WriterSound(v)'
<1> TAKE v \in Writers
<1>1. WriterSound(v) /\ TypeOK BY DEF IInv
<1>2. Sound(v)' BY <1>1 DEF WriterSound, Sound, Active
<1>3. ~HoldsState(v)' BY DEF HoldsState, Active, At
<1>4. ModeKept(v)' /\ Refused(v)' BY <1>3 DEF ModeKept, Refused
<1>5. Alone(v)' BY <1>1 DEF WriterSound, Alone, HoldsSeq, Active, Chan
<1>6. Rising(v)' BY <1>1 DEF WriterSound, Rising, Active, Chan
<1>7. (OneProcess => IssuedBelow(v))' BY <1>1, StillIssued
<1> QED BY <1>2, <1>4, <1>5, <1>6, <1>7 DEF WriterSound

\* A floor that passes the check is at least every row and every boundary.
LEMMA FloorFacts ==
    ASSUME TypeOK, NEW f \in Nat, FloorOK(f)
    PROVE  /\ \A m \in Messages : extra[m] <= f
           /\ \A ch \in Channels : minSeq[ch] <= f
BY DEF FloorOK, Evidence, Maxima

LEMMA GrantFlipStep ==
    ASSUME IInv, GrantFlip
    PROVE  IInv'
<1>1. TypeOK BY DEF IInv
<1>2. /\ UNCHANGED <<seq, extra, minSeq, procVars, tx, syncVars, high>>
      /\ \A w \in Writers : ~HoldsState(w)
      /\ flip' = NoFlip
    BY DEF GrantFlip, Drained
<1> USE DEF procVars, syncVars
<1>3. flip \in Nat /\ flip' \in Nat BY <1>1, <1>2, MsgExtraAssumption DEF TypeOK, NoFlip
<1>4. \A x \in Channels : minSeq[x] <= minSeq'[x] BY <1>1, <1>2 DEF TypeOK
<1>5. CASE state.mode = "legacy" /\ FloorOK(flip)
    <2>1. /\ state' = [mode |-> "transactional", floor |-> flip]
          /\ intended' = "transactional"
          /\ since' \in [Channels -> {0} \cup {extra[m] : m \in Messages}]
          /\ \A ch \in Channels : IsMax(since'[ch], {0} \cup {extra[m] : m \in Rows(ch)})
        BY <1>5 DEF GrantFlip
    <2>2. state'.mode = "transactional" /\ state'.floor = flip BY <2>1
    <2>3. state' \in [mode : Modes, floor : Nat] BY <1>3, <2>1 DEF Modes
    <2>4. /\ \A m \in Messages : extra[m] <= flip
          /\ \A ch \in Channels : minSeq[ch] <= flip
        BY <1>1, <1>3, <1>5, FloorFacts
    <2>5. \A ch \in Channels : since'[ch] \in Nat /\ since'[ch] <= flip
        BY <1>1, <1>3, <2>1, <2>4 DEF TypeOK
    <2>6. since' \in [Channels -> Nat] BY <2>1, <2>5
    <2>7. TypeOK' BY <1>1, <1>2, <1>3, <2>1, <2>3, <2>6 DEF TypeOK, Modes
    <2>8. \A v \in Writers : WriterSound(v)' BY <1>2, <1>4, <2>7, NoneHolds
    <2>9. Fleet' BY <2>1, <2>2 DEF Fleet
    <2>10. SinceCovered' BY <2>2, <2>5 DEF SinceCovered
    <2>11. OneBlock'
        <3> SUFFICES ASSUME OneProcess
                     PROVE  /\ \A v \in Writers, x \in Channels : BlockBelow(v, x)'
                            /\ \A x \in Channels : HighCovered(x)'
            BY <1>2 DEF OneBlock, OneProcess
        <3>1. \A v \in Writers, x \in Channels : BlockBelow(v, x)'
            BY <1>2 DEF IInv, OneBlock, BlockBelow
        <3>2. ASSUME NEW x \in Channels PROVE HighCovered(x)'
            <4>1. HighCovered(x) BY DEF IInv, OneBlock
            <4>2. high[x] \in Nat /\ minSeq[x] \in Nat BY <1>1 DEF TypeOK
            <4>3. high[x] <= minSeq[x] \/ high[x] <= seq[x] BY <4>1 DEF HighCovered
            <4>4. high[x] <= flip \/ high[x] <= seq[x] BY <4>2, <4>3, <2>4, <1>3
            <4> QED BY <1>2, <2>1, <2>2, <4>3, <4>4 DEF HighCovered
        <3> QED BY <3>1, <3>2
    <2>12. Seen' BY <1>2 DEF IInv, Seen
    <2> QED BY <2>7, <2>8, <2>9, <2>10, <2>11, <2>12 DEF IInv
<1>6. CASE ~(state.mode = "legacy" /\ FloorOK(flip))
    <2>1. UNCHANGED <<state, intended, since>> BY <1>6 DEF GrantFlip
    <2> QED BY <1>2, <1>3, <2>1, FlipOrSync DEF dbVars, ghostVars
<1> QED BY <1>5, <1>6

LEMMA LoseStateRowStep ==
    ASSUME IInv, LoseStateRow
    PROVE  IInv'
<1>1. TypeOK BY DEF IInv
<1>2. /\ UNCHANGED <<seq, extra, minSeq, procVars, tx, flip, syncVars, ghostVars>>
      /\ \A w \in Writers : ~HoldsState(w)
      /\ state.mode = "transactional" /\ \A r \in Replicas : guard[r] = "transactional"
      /\ state' \in {NoRow, [mode |-> "legacy", floor |-> 0]}
    BY DEF LoseStateRow
<1> USE DEF procVars, syncVars, ghostVars
<1>3. state'.mode # "transactional" BY <1>2 DEF NoRow
<1>4. state' \in [mode : Modes, floor : Nat] \cup {NoRow} BY <1>2 DEF Modes
<1>5. TypeOK' BY <1>1, <1>2, <1>4 DEF TypeOK
<1>6. \A x \in Channels : minSeq[x] <= minSeq'[x] BY <1>1, <1>2 DEF TypeOK
<1>7. \A v \in Writers : WriterSound(v)' BY <1>2, <1>5, <1>6, NoneHolds
<1>8. Fleet' BY <1>2, <1>3 DEF Fleet
<1>9. SinceCovered' BY <1>3 DEF SinceCovered
<1>10. OneBlock'
    <2> SUFFICES ASSUME OneProcess
                 PROVE  /\ \A v \in Writers, x \in Channels : BlockBelow(v, x)'
                        /\ \A x \in Channels : HighCovered(x)'
        BY <1>2 DEF OneBlock, OneProcess
    <2>1. \A v \in Writers, x \in Channels : BlockBelow(v, x)'
        BY <1>2 DEF IInv, OneBlock, BlockBelow
    <2>2. \A x \in Channels : HighCovered(x)' BY <1>2, <1>3 DEF IInv, OneBlock, HighCovered
    <2> QED BY <2>1, <2>2
<1>11. Seen' BY <1>2 DEF IInv, Seen
<1> QED BY <1>5, <1>7, <1>8, <1>9, <1>10, <1>11 DEF IInv

\* The rollback's legacy boundaries take in every sequence row.
LEMMA RunbookRollbackStep ==
    ASSUME IInv, RunbookRollback
    PROVE  IInv'
<1>1. TypeOK BY DEF IInv
<1> DEFINE W == Evidence \cup {state.floor} \cup {seq[ch] : ch \in Channels}
<1>2. /\ UNCHANGED <<seq, extra, place, tx, flip, syncVars, high, since>>
      /\ \A w \in Writers : tx[w] = Idle
      /\ state' = [mode |-> "legacy", floor |-> state.floor]
      /\ block' = [r \in Replicas |-> [ch \in Channels |-> Cold]]
      /\ guard' \in [Replicas -> Guards \ {"transactional"}]
      /\ intended' = "legacy"
    BY DEF RunbookRollback
<1>3. PICK water \in W :
        /\ IsMax(water, W)
        /\ minSeq' = [ch \in Channels |-> IF minSeq[ch] > 0 \/ seq[ch] > 0 THEN water ELSE 0]
    BY DEF RunbookRollback
<1>4. seq \in [Channels -> Nat] /\ minSeq \in [Channels -> Nat] /\ extra \in [Messages -> Nat]
      /\ cached \in [Channels -> Nat] /\ state.floor \in Nat
    BY <1>1, ModeFacts, Bounds DEF TypeOK
<1>5. Evidence \subseteq Nat
    <2>1. Maxima \subseteq Nat BY <1>4 DEF Maxima
    <2>2. \A ch \in Channels : cached[ch] \in Nat BY <1>4
    <2> QED BY <2>1, <2>2 DEF Evidence
<1>6. water \in Nat BY <1>3, <1>4, <1>5
<1>7. \A ch \in Channels : minSeq[ch] <= water /\ seq[ch] <= water
    BY <1>3 DEF IsMax, Evidence, Maxima
<1> HIDE DEF W
<1>8. minSeq' \in [Channels -> Nat] BY <1>3, <1>6
<1>9. \A ch \in Channels : minSeq[ch] <= minSeq'[ch] /\ seq[ch] <= minSeq'[ch]
    BY <1>3, <1>4, <1>6, <1>7
<1> USE DEF syncVars
<1>10. TypeOK'
    <2>1. state' \in [mode : Modes, floor : Nat] BY <1>2, <1>4 DEF Modes
    <2>2. block' \in [Replicas -> [Channels -> [at : Nat, top : Nat] \cup {Cold}]] BY <1>2
    <2>3. guard' \in [Replicas -> Guards] BY <1>2
    <2> QED BY <1>1, <1>2, <1>8, <2>1, <2>2, <2>3 DEF TypeOK, Modes
<1>11. \A w \in Writers : ~HoldsState(w) BY <1>2 DEF HoldsState, Active
<1>12. \A v \in Writers : WriterSound(v)' BY <1>2, <1>9, <1>10, <1>11, NoneHolds
<1>13. state'.mode = "legacy" BY <1>2
<1>14. Fleet' /\ SinceCovered' BY <1>2, <1>13 DEF Fleet, SinceCovered
<1>15. OneBlock'
    <2> SUFFICES ASSUME OneProcess
                 PROVE  /\ \A v \in Writers, x \in Channels : BlockBelow(v, x)'
                        /\ \A x \in Channels : HighCovered(x)'
        BY <1>2 DEF OneBlock, OneProcess
    <2>1. ASSUME NEW v \in Writers, NEW x \in Channels PROVE BlockBelow(v, x)'
        <3>1. place[v] \in Replicas BY <1>1, Places DEF TypeOK
        <3>2. block'[place'[v]][x] = Cold BY <3>1, <1>2
        <3> QED BY <3>2 DEF BlockBelow
    <2>2. ASSUME NEW x \in Channels PROVE HighCovered(x)'
        <3>1. HighCovered(x) BY DEF IInv, OneBlock
        <3>2. high[x] <= minSeq[x] \/ high[x] <= seq[x] BY <3>1 DEF HighCovered
        <3>3. high[x] \in Nat /\ minSeq[x] \in Nat /\ seq[x] \in Nat /\ minSeq'[x] \in Nat
            BY <1>1, <1>4, <1>8 DEF TypeOK
        <3>4. high[x] <= minSeq'[x] BY <3>2, <3>3, <1>9
        <3> QED BY <3>4, <1>2, <1>13 DEF HighCovered
    <2> QED BY <2>1, <2>2
<1>16. Seen' BY <1>2 DEF IInv, Seen
<1> QED BY <1>10, <1>12, <1>14, <1>15, <1>16 DEF IInv

-----------------------------------------------------------------------------
(* Sync cursors. *)

\* Whatever moves no version keeps the invariant as long as the cursors stay behind.
LEMMA CursorsOnly ==
    ASSUME IInv, UNCHANGED <<dbVars, procVars, tx, flip, ghostVars>>,
           cached' \in [Channels -> Nat],
           sync' \in [Syncs -> [ch : Channels, cursor : Nat] \cup {Idle}],
           \A ch \in Channels : cached'[ch] <= high[ch],
           \A s \in Syncs : sync'[s] # Idle => sync'[s].cursor <= high[sync'[s].ch]
    PROVE  IInv'
<1> USE DEF dbVars, procVars, ghostVars
<1>1. TypeOK' BY DEF IInv, TypeOK
<1>2. \A x \in Channels : minSeq[x] <= minSeq'[x] BY DEF IInv, TypeOK
<1>3. \A v \in Writers : WriterSound(v)' BY <1>1, <1>2, NoneMoves
<1>4. OneBlock' BY DEF IInv, OneBlock, OneProcess, BlockBelow, HighCovered
<1>5. Fleet' /\ SinceCovered' /\ Seen' BY DEF IInv, Fleet, SinceCovered, Seen
<1> QED BY <1>1, <1>3, <1>4, <1>5 DEF IInv

\* A claimed cursor is clamped to what the channel's rows show.
LEMMA SyncReadStep ==
    ASSUME IInv, NEW s \in Syncs, NEW ch \in Channels, NEW c \in Claims, SyncRead(s, ch, c)
    PROVE  IInv'
<1> DEFINE M == {0} \cup {extra[m] : m \in Rows(ch)}
<1>1. TypeOK /\ Seen BY DEF IInv
<1>2. PICK max \in M :
        IsMax(max, M) /\ sync' = [sync EXCEPT ![s] = [ch |-> ch, cursor |-> Clamp(c, max)]]
    BY DEF SyncRead
<1>3. UNCHANGED <<dbVars, procVars, tx, flip, cached, ghostVars>> BY DEF SyncRead
<1>4. high[ch] \in Nat /\ \A m \in Rows(ch) : extra[m] \in Nat /\ extra[m] <= high[ch]
    BY <1>1 DEF TypeOK, Seen, Rows
<1>5. max \in Nat /\ max <= high[ch] BY <1>2, <1>4
<1>6. c \in Nat BY Bounds DEF Claims
<1>7. Clamp(c, max) \in Nat /\ Clamp(c, max) <= high[ch] BY <1>4, <1>5, <1>6 DEF Clamp
<1> DEFINE t == [ch |-> ch, cursor |-> Clamp(c, max)]
<1>8. t \in [ch : Channels, cursor : Nat] /\ t.ch = ch /\ t.cursor <= high[ch] BY <1>7
<1>9. sync \in [Syncs -> [ch : Channels, cursor : Nat] \cup {Idle}] BY <1>1 DEF TypeOK
<1>10. sync' = [sync EXCEPT ![s] = t] BY <1>2
<1> HIDE DEF t
<1>11. /\ sync' \in [Syncs -> [ch : Channels, cursor : Nat] \cup {Idle}]
       /\ sync'[s] = t /\ \A q \in Syncs : q # s => sync'[q] = sync[q]
    BY <1>8, <1>9, <1>10
<1>12. \A q \in Syncs : sync'[q] # Idle => sync'[q].cursor <= high[sync'[q].ch]
    BY <1>1, <1>8, <1>11 DEF Seen
<1>13. cached' \in [Channels -> Nat] /\ \A x \in Channels : cached'[x] <= high[x]
    BY <1>1, <1>3 DEF TypeOK, Seen
<1> QED BY <1>3, <1>11, <1>12, <1>13, CursorsOnly

LEMMA SyncEnds ==
    ASSUME IInv, NEW s \in Syncs, SyncStore(s) \/ SyncFails(s)
    PROVE  IInv'
<1>1. TypeOK /\ Seen BY DEF IInv
<1>2. sync[s] # Idle /\ sync' = [sync EXCEPT ![s] = Idle]
      /\ UNCHANGED <<dbVars, procVars, tx, flip, ghostVars>>
    BY DEF SyncStore, SyncFails
<1>3. sync \in [Syncs -> [ch : Channels, cursor : Nat] \cup {Idle}] BY <1>1 DEF TypeOK
<1>4. /\ sync' \in [Syncs -> [ch : Channels, cursor : Nat] \cup {Idle}]
      /\ \A q \in Syncs : sync'[q] = Idle \/ sync'[q] = sync[q]
    BY <1>2, <1>3
<1>5. \A q \in Syncs : sync'[q] # Idle => sync'[q].cursor <= high[sync'[q].ch]
    BY <1>1, <1>4 DEF Seen
<1>6. sync[s].ch \in Channels /\ sync[s].cursor \in Nat /\ sync[s].cursor <= high[sync[s].ch]
    BY <1>1, <1>2, <1>3 DEF Seen
<1>7. cached' = cached \/ cached' = [cached EXCEPT ![sync[s].ch] = sync[s].cursor]
    BY DEF SyncStore, SyncFails
<1>8. cached' \in [Channels -> Nat] /\ \A x \in Channels : cached'[x] <= high[x]
    <2>1. cached \in [Channels -> Nat] /\ \A x \in Channels : cached[x] <= high[x]
        BY <1>1 DEF TypeOK, Seen
    <2> QED BY <2>1, <1>6, <1>7
<1> QED BY <1>2, <1>4, <1>5, <1>8, CursorsOnly

-----------------------------------------------------------------------------
(* The invariant. *)

LEMMA InitIInv == Init => IInv
<1> SUFFICES ASSUME Init PROVE IInv OBVIOUS
<1>1. TypeOK
    <2>1. state \in [mode : Modes, floor : Nat] BY DEF Init, Modes
    <2>2. 0 \in 0..MaxSafe BY Bounds
    <2>3. seq \in [Channels -> 0..MaxSafe] BY <2>2 DEF Init
    <2>4. guard \in [Replicas -> Guards] BY DEF Init
    <2>5. flip \in Nat BY MsgExtraAssumption DEF Init, NoFlip
    <2> QED BY <2>1, <2>3, <2>4, <2>5 DEF Init, TypeOK, Modes
<1>2. state.mode = "legacy" /\ intended = "legacy" BY DEF Init
<1>3. ASSUME NEW w \in Writers PROVE WriterSound(w)
    <2>1. ~Active(w) BY DEF Init, Active
    <2> QED BY <2>1 DEF WriterSound, Sound, ModeKept, Refused, Alone, Rising, IssuedBelow,
                        HoldsState, HoldsSeq
<1>4. Fleet /\ SinceCovered BY <1>2 DEF Fleet, SinceCovered
<1>5. OneBlock
    <2>1. ASSUME NEW v \in Writers, NEW x \in Channels PROVE BlockBelow(v, x)
        <3>1. place[v] \in Replicas BY <1>1, Places DEF TypeOK
        <3> QED BY <3>1 DEF Init, BlockBelow
    <2>2. ASSUME NEW x \in Channels PROVE HighCovered(x) BY <1>2 DEF Init, HighCovered
    <2> QED BY <2>1, <2>2 DEF OneBlock
<1>6. Seen
    <2>1. \A m \in Messages : ChannelOf[m] \in Channels BY MsgExtraAssumption
    <2> QED BY <2>1 DEF Init, Seen
<1> QED BY <1>1, <1>3, <1>4, <1>5, <1>6 DEF IInv

LEMMA WriterSteps ==
    ASSUME IInv, NEW w \in Writers,
           (\E b \in Batches[w] : Begin(w, b)) \/ WriterStep(w) \/ Rollback(w)
    PROVE  IInv'
<1>1. CASE \E b \in Batches[w] : Begin(w, b) BY <1>1, BeginStep
<1>2. CASE ReadState(w) BY <1>2, ReadStateStep
<1>3. CASE Probe(w) BY <1>3, ProbeStep
<1>4. CASE Reserve(w) BY <1>4, ReserveStep
<1>5. CASE ColdStart(w) BY <1>5, ColdStartStep
<1>6. CASE GenSeq(w) BY <1>6, GenSeqStep
<1>7. CASE LockRow(w) BY <1>7, LockRowStep
<1>8. CASE Commit(w) BY <1>8, CommitStep
<1>9. CASE GenSeqFails(w) \/ CasRejects(w) \/ Rollback(w)
    BY <1>9, EndsQuietly DEF GenSeqFails, CasRejects, Rollback
<1> QED BY <1>1, <1>2, <1>3, <1>4, <1>5, <1>6, <1>7, <1>8, <1>9 DEF WriterStep

LEMMA NextIInv == IInv /\ [Next]_vars => IInv'
<1> SUFFICES ASSUME IInv, [Next]_vars PROVE IInv' OBVIOUS
<1>1. flip \in Nat BY DEF IInv, TypeOK
<1>2. NoFlip \in Nat BY MsgExtraAssumption DEF NoFlip
<1>3. ASSUME NEW w \in Writers,
             (\E b \in Batches[w] : Begin(w, b)) \/ WriterStep(w) \/ Rollback(w)
      PROVE  IInv'
    BY <1>3, WriterSteps
<1>4. ASSUME NEW r \in Replicas, NEW g \in Guards, Restart(r, g) PROVE IInv'
    BY <1>4, RestartStep
<1>5. ASSUME NEW f \in 0..MaxSafe, RequestFlip(f) PROVE IInv'
    <2>1. f \in Nat BY MsgExtraAssumption
    <2> QED BY <1>5, <2>1, FlipOrSync DEF RequestFlip
<1>6. CASE GrantFlip BY <1>6, GrantFlipStep
<1>7. CASE FlipAborted BY <1>2, <1>7, FlipOrSync DEF FlipAborted
<1>8. CASE LoseStateRow BY <1>8, LoseStateRowStep
<1>9. CASE RunbookRollback BY <1>9, RunbookRollbackStep
<1>10. ASSUME NEW s \in Syncs, NEW ch \in Channels, NEW c \in Claims, SyncRead(s, ch, c)
       PROVE  IInv'
    BY <1>10, SyncReadStep
<1>11. ASSUME NEW s \in Syncs, SyncStore(s) \/ SyncFails(s) PROVE IInv'
    BY <1>11, SyncEnds
<1>12. CASE UNCHANGED vars BY <1>1, <1>12, FlipOrSync DEF vars
<1> QED BY <1>3, <1>4, <1>5, <1>6, <1>7, <1>8, <1>9, <1>10, <1>11, <1>12 DEF Next

LEMMA AlwaysIInv == Spec => []IInv
BY InitIInv, NextIInv, PTL DEF Spec

-----------------------------------------------------------------------------
(* No transactional writer deadlocks. *)

\* A waiting transactional writer that wants a message row, or has one, is past its
\* reservation and has its channel's sequence row.
LEMMA RowHolders ==
    ASSUME IInv, NEW w \in Writers, Active(w), tx[w].mode = "transactional",
           At(w, "row") \/ (At(w, "seq") /\ \E m \in Messages : HoldsRow(w, m))
    PROVE  At(w, "row") /\ HoldsSeq(w, Chan(w))
<1>1. TypeOK /\ Sound(w) BY DEF IInv, WriterSound
<1>2. ~At(w, "seq") \/ ~(\E m \in Messages : HoldsRow(w, m))
    <2> SUFFICES ASSUME At(w, "seq"), NEW m \in Messages, HoldsRow(w, m) PROVE FALSE
        OBVIOUS
    <2>1. tx[w].rows = 0 BY <1>1 DEF Sound, At
    <2> QED BY <2>1 DEF HoldsRow
<1>3. At(w, "row") BY <1>2
<1>4. Len(tx[w].vs) = Len(tx[w].msgs) BY <1>1, <1>3 DEF Sound, At
<1>5. tx[w].vs # <<>> BY <1>1, <1>4, TxFacts
<1> QED BY <1>3, <1>5 DEF HoldsSeq

\* So it never waits for one that waits in turn: a message row's holder would have the
\* sequence row of the same channel, which only one transaction has.
LEMMA WaitsFree ==
    ASSUME IInv, NEW w \in Writers, NEW h \in Writers, NEW x \in Writers,
           tx[w].mode = "transactional", tx[h].mode = "transactional",
           At(w, "row"), WaitsFor(w, h), WaitsFor(h, x)
    PROVE  FALSE
<1>1. TypeOK /\ Sound(w) /\ Sound(h) /\ WriterSound(w) BY DEF IInv, WriterSound
<1>2. Active(w) /\ Active(h) /\ w # h BY DEF WaitsFor
<1>3. HoldsSeq(w, Chan(w)) BY <1>2, RowHolders
<1>4. HoldsRow(h, NextRow(w)) BY DEF WaitsFor, At
<1>5. tx[w].rows \in Nat /\ tx[w].rows < Len(tx[w].msgs) /\ tx[w].msgs \in Batches[w]
      /\ tx[w].msgs \in Seq(Messages) /\ Len(tx[w].msgs) \in Nat
    BY <1>1, <1>2, TxFacts DEF At, Sound
<1>6. tx[w].rows + 1 \in DOMAIN tx[w].msgs BY <1>5
<1>7. NextRow(w) \in Messages /\ ChannelOf[NextRow(w)] = Chan(w)
    BY <1>5, <1>6, BatchFacts DEF NextRow, Chan
<1>8. At(h, "row") \/ At(h, "seq") BY DEF WaitsFor
<1>9. HoldsSeq(h, Chan(h)) BY <1>2, <1>4, <1>7, <1>8, RowHolders
<1>10. PICK i \in 1..tx[h].rows : tx[h].msgs[i] = NextRow(w) BY <1>4 DEF HoldsRow
<1>11. tx[h].rows \in Nat /\ tx[h].rows <= Len(tx[h].msgs) /\ tx[h].msgs \in Batches[h]
       /\ tx[h].msgs \in Seq(Messages) /\ Len(tx[h].msgs) \in Nat
    BY <1>1, <1>2, TxFacts DEF Sound
<1>12. i \in DOMAIN tx[h].msgs BY <1>10, <1>11
<1>13. Chan(h) = Chan(w) BY <1>7, <1>10, <1>11, <1>12, BatchFacts DEF Chan
<1>14. Chan(w) \in Channels BY <1>1, <1>2, TxFacts
<1> QED BY <1>1, <1>2, <1>3, <1>9, <1>13, <1>14 DEF WriterSound, Alone

\* Everyone in a deadlocked set has passed the state row, and so is in one mode.
LEMMA InvNoDeadlock == IInv => NoTransactionalDeadlock
<1> SUFFICES ASSUME IInv, NEW S \in SUBSET Writers, DeadlockedSet(S), NEW w \in S
             PROVE  tx[w].mode = "legacy"
    BY DEF NoTransactionalDeadlock
<1>1. \A v \in S : v \in Writers /\ \E h \in S : WaitsFor(v, h) BY DEF DeadlockedSet
<1>2. ASSUME NEW v \in S PROVE tx[v].mode = Mode
    <2>1. PICK h \in S : WaitsFor(v, h) BY <1>1
    <2>2. HoldsState(v) BY <2>1 DEF WaitsFor, HoldsState, At
    <2> QED BY <1>1, <2>2 DEF IInv, WriterSound, ModeKept
<1>3. Mode \in Modes BY ModeFacts DEF IInv
<1>4. CASE Mode = "legacy" BY <1>2, <1>4
<1>5. CASE Mode = "transactional"
    <2>1. PICK h \in S : WaitsFor(w, h) BY <1>1
    <2>2. PICK x \in S : WaitsFor(h, x) BY <1>1
    <2>3. PICK y \in S : WaitsFor(x, y) BY <1>1
    <2>4. At(w, "row") \/ At(w, "seq") BY <2>1 DEF WaitsFor
    <2>5. CASE At(w, "row") BY <1>1, <1>2, <1>5, <2>1, <2>2, <2>5, WaitsFree
    <2>6. CASE At(w, "seq")
        <3>1. HoldsSeq(h, Chan(w)) BY <2>1, <2>6 DEF WaitsFor, At
        <3>2. At(h, "row") \/ At(h, "seq") BY <2>2 DEF WaitsFor
        <3>3. ~At(h, "seq") BY <1>1, <3>1 DEF HoldsSeq, IInv, WriterSound, Sound, At
        <3> QED BY <1>1, <1>2, <1>5, <2>2, <2>3, <3>2, <3>3, WaitsFree
    <2> QED BY <2>4, <2>5, <2>6
<1> QED BY <1>3, <1>4, <1>5 DEF Modes

\* The reservations keep their types and bounds, and the lock order of the transactional
\* mode leaves no cycle: a writer that waits for a message row holds the sequence row
\* that every holder of that message row holds too (msgextraseq/store.go).
THEOREM LocksAreSound == Spec => []LocksSound
<1>1. IInv => LocksSound BY InvNoDeadlock DEF IInv, LocksSound
<1> QED BY <1>1, AlwaysIInv, PTL

-----------------------------------------------------------------------------
(* The cutover loses no order, and no change is hidden. *)

\* Only a commit changes a message row, only the cutover and its rollback the mode.
LEMMA OnlyCommits ==
    ASSUME [Next]_vars, extra' # extra
    PROVE  \E w \in Writers : Commit(w)
BY DEF Next, WriterStep, vars, dbVars, Begin, ReadState, Probe, Reserve, ColdStart, GenSeq,
       GenSeqFails, LockRow, CasRejects, Rollback, Restart, RequestFlip, GrantFlip, FlipAborted,
       LoseStateRow, RunbookRollback, SyncRead, SyncStore, SyncFails

LEMMA OnlyGrants ==
    ASSUME [Next]_vars, intended = "legacy", intended' = "transactional"
    PROVE  GrantFlip
BY DEF Next, WriterStep, vars, ghostVars, Begin, ReadState, Probe, Reserve, ColdStart, GenSeq,
       GenSeqFails, LockRow, CasRejects, Commit, Rollback, Restart, RequestFlip, FlipAborted,
       LoseStateRow, RunbookRollback, SyncRead, SyncStore, SyncFails

\* What a change committed in the transactional regime is above.
LEMMA ChangesRise ==
    ASSUME IInv, [Next]_vars, NEW m \in Messages, extra'[m] # extra[m], intended = "transactional"
    PROVE  /\ extra'[m] > since[ChannelOf[m]]
           /\ OneProcess => extra'[m] > high[ChannelOf[m]]
           /\ extra'[m] \in Nat
<1>1. PICK w \in Writers : Commit(w) BY OnlyCommits
<1>2. /\ HoldsState(w) /\ Chan(w) \in Channels /\ tx[w].vs \in Seq(Nat) /\ extra' \in [Messages -> Nat]
      /\ ChannelOf[m] = Chan(w) /\ \E i \in DOMAIN tx[w].vs : extra'[m] = tx[w].vs[i]
    BY <1>1, CommitFacts
<1>3. PICK i \in DOMAIN tx[w].vs : extra'[m] = tx[w].vs[i] BY <1>2
<1>4. state.mode = "transactional" BY <1>2 DEF IInv, WriterSound, Refused
<1>5. since[Chan(w)] < tx[w].vs[i] /\ (OneProcess => high[Chan(w)] < tx[w].vs[i])
    BY <1>1, <1>4, CommitRises
<1>6. since[Chan(w)] \in Nat /\ high[Chan(w)] \in Nat /\ tx[w].vs[i] \in Nat
    BY <1>2 DEF IInv, TypeOK
<1> QED BY <1>2, <1>3, <1>5, <1>6

\* Commit order is version order in the transactional regime, and where one process did
\* the writing the activation's floor takes in every version committed before it
\* (msgextraseq/store.go, activation.go).
THEOREM VersionsAreFresh == Spec => VersionsFresh
<1>1. IInv /\ [Next]_vars =>
        [\A m \in Messages :
            extra'[m] # extra[m] /\ intended = "transactional" =>
               extra'[m] > since[ChannelOf[m]]]_vars
    BY ChangesRise
<1>2. IInv /\ [Next]_vars =>
        [OneProcess /\ intended = "legacy" /\ intended' = "transactional" =>
            \A ch \in Channels : high[ch] <= state'.floor]_vars
    <2> SUFFICES ASSUME IInv, [Next]_vars, OneProcess, intended = "legacy",
                        intended' = "transactional", NEW ch \in Channels
                 PROVE  high[ch] <= state'.floor
        OBVIOUS
    <2>1. GrantFlip BY OnlyGrants
    <2>2. state.mode = "legacy" /\ FloorOK(flip) /\ state'.floor = flip BY <2>1 DEF GrantFlip
    <2>3. TypeOK /\ flip \in Nat BY DEF IInv, TypeOK
    <2>4. minSeq[ch] <= flip BY <2>2, <2>3, FloorFacts
    <2>5. high[ch] <= minSeq[ch] BY DEF IInv, OneBlock, HighCovered
    <2>6. high[ch] \in Nat /\ minSeq[ch] \in Nat BY <2>3 DEF TypeOK
    <2> QED BY <2>2, <2>3, <2>4, <2>5, <2>6
<1>3. Spec => FreshCommits BY <1>1, AlwaysIInv, PTL DEF Spec, FreshCommits
<1>4. Spec => FloorCoversIssued BY <1>2, AlwaysIInv, PTL DEF Spec, FloorCoversIssued
<1> QED BY <1>3, <1>4 DEF VersionsFresh

\* Where one process did the writing, a change committed after the activation is above
\* every cursor of its channel, the stored one and those about to be stored
\* (message_extra_cursor.go).
THEOREM NoneIsSkipped == Spec => NothingSkipped
<1>1. IInv /\ [Next]_vars =>
        [\A m \in Messages :
            OneProcess /\ extra'[m] # extra[m] /\ intended = "transactional" =>
               /\ extra'[m] > cached[ChannelOf[m]]
               /\ \A s \in Syncs : sync[s] # Idle /\ sync[s].ch = ChannelOf[m] =>
                                      extra'[m] > sync[s].cursor]_vars
    <2> SUFFICES ASSUME IInv, [Next]_vars, OneProcess, NEW m \in Messages,
                        extra'[m] # extra[m], intended = "transactional"
                 PROVE  /\ extra'[m] > cached[ChannelOf[m]]
                        /\ \A s \in Syncs : sync[s] # Idle /\ sync[s].ch = ChannelOf[m] =>
                                               extra'[m] > sync[s].cursor
        OBVIOUS
    <2> DEFINE ch == ChannelOf[m]
    <2>1. ch \in Channels BY MsgExtraAssumption
    <2>2. extra'[m] > high[ch] /\ extra'[m] \in Nat BY ChangesRise
    <2>3. TypeOK /\ Seen BY DEF IInv
    <2>4. high[ch] \in Nat /\ cached[ch] \in Nat /\ cached[ch] <= high[ch]
        BY <2>1, <2>3 DEF TypeOK, Seen
    <2> HIDE DEF ch
    <2>5. extra'[m] > cached[ch] BY <2>2, <2>4
    <2>6. ASSUME NEW s \in Syncs, sync[s] # Idle, sync[s].ch = ch PROVE extra'[m] > sync[s].cursor
        <3>1. sync[s].cursor \in Nat /\ sync[s].cursor <= high[ch]
            BY <2>3, <2>6 DEF TypeOK, Seen
        <3> QED BY <2>2, <2>4, <3>1
    <2> QED BY <2>5, <2>6 DEF ch
<1> QED BY <1>1, AlwaysIInv, PTL DEF Spec, NothingSkipped
=============================================================================
