---------------------------- MODULE BotEventProofs ----------------------------
(***************************************************************************)
(* Proofs about BotEventPoll, for every set of bots, replicas, requests    *)
(* and producers and every bound: its types and the books of its holds,    *)
(* that a parked request is announced every event it has not seen, and,    *)
(* with producers that publish in the order of their ids, that no cursor   *)
(* passes an event that its client has not been given.                     *)
(*                                                                         *)
(* Then about BotEventSeq, for every set of replicas and workers: that the *)
(* counter exists only by the authority's word, that GenSeq and the        *)
(* counter never serve one bot at once, and that the ids of the counter    *)
(* are above every published one through the losses of Redis.              *)
(***************************************************************************)
EXTENDS BotEventPoll, BotEventSeq, FiniteSetTheorems, WellFoundedInduction, TLAPS

-----------------------------------------------------------------------------
(* Numbers. *)

\* A set of numbers has a least one ...
LEMMA Least ==
  ASSUME NEW T, T \subseteq Nat, T # {}
  PROVE  \E x \in T : \A y \in T : x <= y
<1>1. PICK x \in T : \A y \in T : <<y, x>> \notin OpToRel(<, Nat)
  BY NatLessThanWellFounded, WFMin
<1>2. \A y \in T : ~ (y < x)
  BY <1>1 DEF OpToRel
<1> QED
  BY <1>2

\* ... and, if it is bounded, a greatest, which Max finds.
LEMMA Greatest ==
  ASSUME NEW n \in Nat, NEW T, T \subseteq 0..n, T # {}
  PROVE  Max(T) \in T /\ \A y \in T : y <= Max(T)
<1> DEFINE U == {m \in 0..n : n - m \in T}
<1>1. U \subseteq Nat /\ U # {}
  <2>1. PICK t \in T : TRUE
    OBVIOUS
  <2>2. n - t \in 0..n /\ n - (n - t) = t
    BY <2>1
  <2> QED
    BY <2>1, <2>2
<1>2. PICK m \in U : \A k \in U : m <= k
  BY <1>1, Least
<1>3. \A y \in T : n - m >= y
  <2>1. TAKE y \in T
  <2>2. n - y \in 0..n /\ n - (n - y) = y /\ y \in 0..n
    BY <2>1
  <2>3. n - y \in U
    BY <2>1, <2>2
  <2>4. m <= n - y /\ m \in 0..n
    BY <1>2, <2>3
  <2> QED
    BY <2>2, <2>4
<1>4. n - m \in T
  BY <1>2
<1> QED
  BY <1>3, <1>4 DEF Max

\* What the proofs use of the constants.
LEMMA Constants ==
  /\ Worlds \subseteq World /\ Target \in [Producers -> Bots] /\ Home \in [Producers -> Replicas]
  /\ MaxId \in Nat /\ Limit \in Nat \ {0} /\ WaitChunks \in Nat \ {0} /\ MaxHolds \in Nat \ {0}
  /\ RingDepth \in Nat \ {0} /\ HoldOffs \in Nat /\ MaxFaults \in Nat /\ InOrder \in BOOLEAN
  /\ IsFiniteSet(Bots) /\ IsFiniteSet(Requests)
BY PollAssumption

LEMMA WorldFields ==
  ASSUME TypeOK
  PROVE  /\ BotOf \in [Requests -> Bots] /\ ReplicaOf \in [Requests -> Replicas]
         /\ Kind \in [Ids -> {"dm", "group", "broken"}] /\ Faulty \in BOOLEAN
BY PollAssumption DEF TypeOK, World, BotOf, ReplicaOf, Kind, Faulty, Ids

-----------------------------------------------------------------------------
(* Pages. *)

\* A page holds the first members above the cursor: with one member it holds those before
\* it, and a short page holds them all.
LEMMA PagePrefix ==
  ASSUME TypeOK, NEW b \in Bots, NEW cur \in 0..MaxId
  PROVE  /\ Members(b, cur) \subseteq queue[b] /\ Members(b, cur) \subseteq Ids
         /\ \A i \in Members(b, cur) : i > cur
         /\ \A m \in Members(b, cur), i \in queue[b] :
               cur < i /\ i <= m => i \in Members(b, cur)
<1> DEFINE above == {i \in queue[b] : i > cur}
           Before(m) == {j \in above : j < m}
<1>1. queue[b] \subseteq Ids /\ MaxId \in Nat /\ Limit \in Nat
  BY Constants DEF TypeOK
<1>2. Members(b, cur) = {i \in above : Cardinality(Before(i)) < Limit}
  BY DEF Members
<1>3. ASSUME NEW m \in Members(b, cur), NEW i \in queue[b], cur < i, i <= m
      PROVE  i \in Members(b, cur)
  <2>1. i \in above /\ m \in above /\ Cardinality(Before(m)) < Limit
    BY <1>2, <1>3
  <2>2. Before(i) \subseteq Before(m)
    <3>1. \A j \in above : j \in Nat
      BY <1>1 DEF Ids
    <3>2. \A j \in above : j < i => j < m
      BY <1>3, <2>1, <3>1
    <3> QED
      BY <3>2
  <2>3. IsFiniteSet(Before(m))
    <3>1. IsFiniteSet(Ids)
      BY <1>1, FS_Interval, 1 \in Int, MaxId \in Int DEF Ids
    <3> QED
      BY <1>1, <3>1, FS_Subset
  <2>4. Cardinality(Before(i)) <= Cardinality(Before(m)) /\ Cardinality(Before(i)) \in Nat
        /\ Cardinality(Before(m)) \in Nat
    BY <2>2, <2>3, FS_Subset, FS_CardinalityType
  <2> HIDE DEF Before
  <2>5. Cardinality(Before(i)) < Limit
    BY <1>1, <2>1, <2>4
  <2> QED
    BY <1>2, <2>1, <2>5
<1> QED
  BY <1>1, <1>2, <1>3

LEMMA ShortPage ==
  ASSUME TypeOK, NEW b \in Bots, NEW cur \in 0..MaxId, Cardinality(Members(b, cur)) < Limit
  PROVE  \A i \in queue[b] : i > cur => i \in Members(b, cur)
<1> DEFINE above == {i \in queue[b] : i > cur}
           Before(m) == {j \in above : j < m}
           rest == above \ Members(b, cur)
<1>1. queue[b] \subseteq Ids /\ MaxId \in Nat /\ Limit \in Nat
  BY Constants DEF TypeOK
<1>2. Members(b, cur) = {i \in above : Cardinality(Before(i)) < Limit}
  BY DEF Members
<1>3. SUFFICES ASSUME rest # {} PROVE FALSE
  OBVIOUS
<1>4. rest \subseteq Nat
  BY <1>1 DEF Ids
<1>5. PICK m \in rest : \A k \in rest : m <= k
  BY <1>3, <1>4, Least
<1>6. Before(m) \subseteq Members(b, cur)
  <2>1. SUFFICES ASSUME NEW j \in Before(m) PROVE j \in Members(b, cur)
    OBVIOUS
  <2>2. j \in above /\ j < m /\ j \in Nat /\ m \in Nat
    BY <1>1, <1>4, <1>5 DEF Ids
  <2>3. j \notin rest
    BY <1>5, <2>2
  <2> QED
    BY <2>2, <2>3
<1>7. IsFiniteSet(Members(b, cur))
  <2>1. IsFiniteSet(Ids) /\ Members(b, cur) \subseteq Ids
    BY <1>1, <1>2, FS_Interval, 1 \in Int, MaxId \in Int DEF Ids
  <2> QED
    BY <2>1, FS_Subset
<1>8. Cardinality(Before(m)) < Limit
  <2>1. Cardinality(Before(m)) <= Cardinality(Members(b, cur)) /\ IsFiniteSet(Before(m))
    BY <1>6, <1>7, FS_Subset
  <2>2. Cardinality(Before(m)) \in Nat /\ Cardinality(Members(b, cur)) \in Nat
    BY <1>7, <2>1, FS_CardinalityType
  <2> QED
    BY <1>1, <2>1, <2>2
<1> HIDE DEF Before
<1> QED
  BY <1>2, <1>5, <1>8

\* The cursor that a page leaves: at a member of it, or where it was.
LEMMA PageCursorPlace ==
  ASSUME TypeOK, NEW page, page \subseteq Ids, NEW cur \in 0..MaxId
  PROVE  /\ PageCursor(page, cur) \in 0..MaxId /\ PageCursor(page, cur) >= cur
         /\ PageCursor(page, cur) = cur \/ PageCursor(page, cur) \in page
         /\ \A i \in page : Kind[i] # "broken" => i <= PageCursor(page, cur)
<1> DEFINE T == {cur} \cup {i \in page : Kind[i] # "broken"}
<1>1. MaxId \in Nat /\ T \subseteq 0..MaxId /\ T # {}
  <2>1. MaxId \in Nat /\ Ids \subseteq 0..MaxId
    BY Constants DEF Ids
  <2>2. {i \in page : Kind[i] # "broken"} \subseteq 0..MaxId
    BY <2>1, Zenon
  <2> QED
    BY <2>1, <2>2, Zenon
<1>2. Max(T) \in T /\ \A y \in T : y <= Max(T)
  BY <1>1, Greatest
<1>3. PageCursor(page, cur) = Max(T)
  BY DEF PageCursor
<1> HIDE DEF T
<1>4. Max(T) \in 0..MaxId /\ cur <= Max(T)
  BY <1>1, <1>2 DEF T
<1> QED
  BY <1>1, <1>2, <1>3, <1>4 DEF T

\* The cursor that a response leaves its client.
LEMMA ClientCursor ==
  ASSUME NEW events, events \subseteq Ids, NEW cur \in 0..MaxId
  PROVE  /\ Max({cur} \cup events) \in 0..MaxId /\ Max({cur} \cup events) >= cur
         /\ Max({cur} \cup events) = cur \/ Max({cur} \cup events) \in events
<1> DEFINE T == {cur} \cup events
<1>1. MaxId \in Nat /\ T \subseteq 0..MaxId /\ T # {}
  BY Constants DEF Ids
<1>2. Max(T) \in T /\ \A y \in T : y <= Max(T)
  BY <1>1, Greatest
<1>3. Max(T) \in 0..MaxId /\ cur <= Max(T)
  BY <1>1, <1>2
<1> QED
  BY <1>1, <1>2, <1>3

-----------------------------------------------------------------------------
(* How a step moves a request. *)

NotMoved(q) == \A x \in Requests \ {q} : req'[x] = req[x]

\* Only q's record changes, and to this.
Moved(q, pc, cur, left, reread, gone) ==
    /\ req' \in [Requests -> Polling] /\ NotMoved(q)
    /\ req'[q].pc = pc /\ req'[q].cur = cur /\ req'[q].left = left
    /\ req'[q].reread = reread /\ req'[q].gone = gone

Stages == {"idle", "entry", "mark", "slot", "top", "block", "read", "off"}

LEMMA RequestFields ==
  ASSUME TypeOK, NEW q \in Requests
  PROVE  /\ req[q] \in Polling /\ req[q].pc \in Stages /\ req[q].cur \in 0..MaxId
         /\ req[q].left \in 0..WaitChunks /\ req[q].reread \in BOOLEAN /\ req[q].gone \in BOOLEAN
BY DEF TypeOK, Polling, Stages

LEMMA RequestSet ==
  ASSUME TypeOK, NEW q \in Requests, NEW r \in Polling, req' = [req EXCEPT ![q] = r]
  PROVE  req' \in [Requests -> Polling] /\ NotMoved(q) /\ req'[q] = r
BY DEF TypeOK, NotMoved

LEMMA StageEdit ==
  ASSUME NEW r \in Polling, NEW pc \in Stages
  PROVE  /\ [r EXCEPT !.pc = pc] \in Polling /\ [r EXCEPT !.pc = pc].pc = pc
         /\ [r EXCEPT !.pc = pc].cur = r.cur /\ [r EXCEPT !.pc = pc].left = r.left
         /\ [r EXCEPT !.pc = pc].reread = r.reread /\ [r EXCEPT !.pc = pc].gone = r.gone
BY DEF Polling, Stages

LEMMA LeftEdit ==
  ASSUME NEW r \in Polling, NEW left \in 0..WaitChunks
  PROVE  /\ [r EXCEPT !.left = left] \in Polling /\ [r EXCEPT !.left = left].pc = r.pc
         /\ [r EXCEPT !.left = left].cur = r.cur /\ [r EXCEPT !.left = left].left = left
         /\ [r EXCEPT !.left = left].reread = r.reread /\ [r EXCEPT !.left = left].gone = r.gone
BY DEF Polling

LEMMA RereadEdit ==
  ASSUME NEW r \in Polling, NEW reread \in BOOLEAN
  PROVE  /\ [r EXCEPT !.reread = reread] \in Polling /\ [r EXCEPT !.reread = reread].pc = r.pc
         /\ [r EXCEPT !.reread = reread].cur = r.cur /\ [r EXCEPT !.reread = reread].left = r.left
         /\ [r EXCEPT !.reread = reread].reread = reread
         /\ [r EXCEPT !.reread = reread].gone = r.gone
BY DEF Polling

LEMMA CursorEdit ==
  ASSUME NEW r \in Polling, NEW cur \in 0..MaxId
  PROVE  /\ [r EXCEPT !.cur = cur] \in Polling /\ [r EXCEPT !.cur = cur].pc = r.pc
         /\ [r EXCEPT !.cur = cur].cur = cur /\ [r EXCEPT !.cur = cur].left = r.left
         /\ [r EXCEPT !.cur = cur].reread = r.reread /\ [r EXCEPT !.cur = cur].gone = r.gone
BY DEF Polling

\* The forms in which the actions write it.
LEMMA MovesOn ==
  ASSUME TypeOK, NEW q \in Requests, NEW pc \in Stages, req' = [req EXCEPT ![q].pc = pc]
  PROVE  Moved(q, pc, req[q].cur, req[q].left, req[q].reread, req[q].gone)
<1>1. req[q] \in Polling
  BY RequestFields
<1>2. [req[q] EXCEPT !.pc = pc] \in Polling
  BY <1>1, StageEdit
<1>3. req' = [req EXCEPT ![q] = [req[q] EXCEPT !.pc = pc]]
  OBVIOUS
<1>4. req' \in [Requests -> Polling] /\ NotMoved(q) /\ req'[q] = [req[q] EXCEPT !.pc = pc]
  BY <1>2, <1>3, RequestSet
<1> QED
  BY <1>1, <1>4, StageEdit DEF Moved

LEMMA MovesWithTime ==
  ASSUME TypeOK, NEW q \in Requests, NEW pc \in Stages, NEW left \in 0..WaitChunks,
         req' = [req EXCEPT ![q].pc = pc, ![q].left = left]
  PROVE  Moved(q, pc, req[q].cur, left, req[q].reread, req[q].gone)
<1> DEFINE r == [req[q] EXCEPT !.pc = pc]
<1>1. req[q] \in Polling
  BY RequestFields
<1>2. /\ r \in Polling /\ r.pc = pc /\ r.cur = req[q].cur
      /\ r.reread = req[q].reread /\ r.gone = req[q].gone
  BY <1>1, StageEdit
<1>3. req' = [req EXCEPT ![q] = [r EXCEPT !.left = left]]
  OBVIOUS
<1> HIDE DEF r
<1>4. /\ [r EXCEPT !.left = left] \in Polling /\ [r EXCEPT !.left = left].pc = r.pc
      /\ [r EXCEPT !.left = left].cur = r.cur /\ [r EXCEPT !.left = left].left = left
      /\ [r EXCEPT !.left = left].reread = r.reread /\ [r EXCEPT !.left = left].gone = r.gone
  BY <1>2, LeftEdit
<1>5. req' \in [Requests -> Polling] /\ NotMoved(q) /\ req'[q] = [r EXCEPT !.left = left]
  BY <1>3, <1>4, RequestSet
<1> QED
  BY <1>2, <1>4, <1>5 DEF Moved

LEMMA MovesWithReread ==
  ASSUME TypeOK, NEW q \in Requests, NEW pc \in Stages, NEW reread \in BOOLEAN,
         req' = [req EXCEPT ![q].pc = pc, ![q].reread = reread]
  PROVE  Moved(q, pc, req[q].cur, req[q].left, reread, req[q].gone)
<1> DEFINE r == [req[q] EXCEPT !.pc = pc]
<1>1. req[q] \in Polling
  BY RequestFields
<1>2. /\ r \in Polling /\ r.pc = pc /\ r.cur = req[q].cur
      /\ r.left = req[q].left /\ r.gone = req[q].gone
  BY <1>1, StageEdit
<1>3. req' = [req EXCEPT ![q] = [r EXCEPT !.reread = reread]]
  OBVIOUS
<1> HIDE DEF r
<1>4. /\ [r EXCEPT !.reread = reread] \in Polling /\ [r EXCEPT !.reread = reread].pc = r.pc
      /\ [r EXCEPT !.reread = reread].cur = r.cur /\ [r EXCEPT !.reread = reread].left = r.left
      /\ [r EXCEPT !.reread = reread].reread = reread
      /\ [r EXCEPT !.reread = reread].gone = r.gone
  BY <1>2, RereadEdit
<1>5. req' \in [Requests -> Polling] /\ NotMoved(q) /\ req'[q] = [r EXCEPT !.reread = reread]
  BY <1>3, <1>4, RequestSet
<1> QED
  BY <1>2, <1>4, <1>5 DEF Moved

LEMMA MovesPastPage ==
  ASSUME TypeOK, NEW q \in Requests, NEW pc \in Stages, NEW cur \in 0..MaxId,
         NEW reread \in BOOLEAN,
         req' = [req EXCEPT ![q].pc = pc, ![q].cur = cur, ![q].reread = reread]
  PROVE  Moved(q, pc, cur, req[q].left, reread, req[q].gone)
<1> DEFINE r == [req[q] EXCEPT !.pc = pc]
           s == [r EXCEPT !.cur = cur]
<1>1. req[q] \in Polling
  BY RequestFields
<1>2. /\ r \in Polling /\ r.pc = pc /\ r.left = req[q].left
      /\ r.gone = req[q].gone
  BY <1>1, StageEdit
<1>3. req' = [req EXCEPT ![q] = [s EXCEPT !.reread = reread]]
  OBVIOUS
<1> HIDE DEF r
<1>4. s \in Polling /\ s.pc = r.pc /\ s.cur = cur /\ s.left = r.left /\ s.gone = r.gone
  BY <1>2, CursorEdit
<1> HIDE DEF s
<1>5. /\ [s EXCEPT !.reread = reread] \in Polling /\ [s EXCEPT !.reread = reread].pc = s.pc
      /\ [s EXCEPT !.reread = reread].cur = s.cur /\ [s EXCEPT !.reread = reread].left = s.left
      /\ [s EXCEPT !.reread = reread].reread = reread
      /\ [s EXCEPT !.reread = reread].gone = s.gone
  BY <1>4, RereadEdit
<1>6. req' \in [Requests -> Polling] /\ NotMoved(q) /\ req'[q] = [s EXCEPT !.reread = reread]
  BY <1>3, <1>5, RequestSet
<1> QED
  BY <1>2, <1>4, <1>5, <1>6 DEF Moved

LEMMA MovesToEnd ==
  ASSUME TypeOK, NEW q \in Requests, req' = [req EXCEPT ![q] = NoReq]
  PROVE  Moved(q, "idle", 0, 0, FALSE, FALSE)
<1>1. NoReq \in Polling
  BY Constants DEF NoReq, Polling
<1>2. req' \in [Requests -> Polling] /\ NotMoved(q) /\ req'[q] = NoReq
  BY <1>1, RequestSet
<1> QED
  BY <1>2 DEF Moved, NoReq

LEMMA MovesToEntry ==
  ASSUME TypeOK, NEW q \in Requests, NEW cur \in 0..MaxId,
         req' = [req EXCEPT ![q] = [NoReq EXCEPT !.pc = "entry", !.cur = cur]]
  PROVE  Moved(q, "entry", cur, 0, FALSE, FALSE)
<1> DEFINE r == [NoReq EXCEPT !.pc = "entry"]
<1>1. NoReq \in Polling /\ NoReq.left = 0 /\ NoReq.reread = FALSE /\ NoReq.gone = FALSE
  BY Constants DEF NoReq, Polling
<1>2. "entry" \in Stages
  BY DEF Stages
<1>3. /\ r \in Polling /\ r.pc = "entry" /\ r.left = 0 /\ r.reread = FALSE /\ r.gone = FALSE
  BY <1>1, <1>2, StageEdit
<1>4. req' = [req EXCEPT ![q] = [r EXCEPT !.cur = cur]]
  OBVIOUS
<1> HIDE DEF r
<1>5. /\ [r EXCEPT !.cur = cur] \in Polling /\ [r EXCEPT !.cur = cur].pc = r.pc
      /\ [r EXCEPT !.cur = cur].cur = cur /\ [r EXCEPT !.cur = cur].left = r.left
      /\ [r EXCEPT !.cur = cur].reread = r.reread /\ [r EXCEPT !.cur = cur].gone = r.gone
  BY <1>3, CursorEdit
<1>6. req' \in [Requests -> Polling] /\ NotMoved(q) /\ req'[q] = [r EXCEPT !.cur = cur]
  BY <1>4, <1>5, RequestSet
<1> QED
  BY <1>3, <1>5, <1>6 DEF Moved

LEMMA MovesAway ==
  ASSUME TypeOK, NEW q \in Requests, req' = [req EXCEPT ![q].gone = TRUE]
  PROVE  Moved(q, req[q].pc, req[q].cur, req[q].left, req[q].reread, TRUE)
<1> DEFINE r == [req[q] EXCEPT !.gone = TRUE]
<1>1. /\ r \in Polling /\ r.pc = req[q].pc /\ r.cur = req[q].cur /\ r.left = req[q].left
      /\ r.reread = req[q].reread /\ r.gone = TRUE
  BY RequestFields DEF Polling
<1>2. req' = [req EXCEPT ![q] = r]
  OBVIOUS
<1> HIDE DEF r
<1>3. req' \in [Requests -> Polling] /\ NotMoved(q) /\ req'[q] = r
  BY <1>1, <1>2, RequestSet
<1> QED
  BY <1>1, <1>3 DEF Moved

-----------------------------------------------------------------------------
(* The books of the holds. *)

HeldAt(r) == {q \in Requests : ReplicaOf[q] = r /\ Holding(q)}
OffAt(r)  == {q \in Requests : ReplicaOf[q] = r /\ req[q].pc = "off"}
Marked(q) == Holding(q) \/ req[q].pc = "slot"
BotsAt(r) == {b \in Bots : \E q \in Requests : ReplicaOf[q] = r /\ Marked(q) /\ BotOf[q] = b}

HoldBook == \A r \in Replicas : holdSem[r] = Cardinality(HeldAt(r))
OffBook  == \A r \in Replicas : offSem[r] = Cardinality(OffAt(r))
MarkBook == \A r \in Replicas : perBot[r] = BotsAt(r)

\* A bot has one hold on a replica: only then does the end of a hold take its mark away.
OneMark == \A x, y \in Requests :
    Marked(x) /\ Marked(y) /\ ReplicaOf[x] = ReplicaOf[y] /\ BotOf[x] = BotOf[y] => x = y

LEMMA BooksAreAccounts ==
  ASSUME TypeOK
  PROVE  HoldsAccounted <=> HoldBook /\ OffBook /\ MarkBook
<1>1. ASSUME NEW r \in Replicas
      PROVE  /\ {q \in {x \in Requests : ReplicaOf[x] = r} : Holding(q)} = HeldAt(r)
             /\ {q \in {x \in Requests : ReplicaOf[x] = r} : req[q].pc = "off"} = OffAt(r)
             /\ {BotOf[q] : q \in {x \in {y \in Requests : ReplicaOf[y] = r} :
                                      Holding(x) \/ req[x].pc = "slot"}} = BotsAt(r)
  BY WorldFields DEF HeldAt, OffAt, BotsAt, Marked
<1> QED
  BY <1>1, Zenon DEF HoldsAccounted, HoldBook, OffBook, MarkBook

LEMMA BooksFinite ==
  ASSUME NEW r
  PROVE  /\ IsFiniteSet(HeldAt(r)) /\ Cardinality(HeldAt(r)) \in Nat
         /\ IsFiniteSet(OffAt(r)) /\ Cardinality(OffAt(r)) \in Nat
<1>1. IsFiniteSet(Requests) /\ HeldAt(r) \subseteq Requests /\ OffAt(r) \subseteq Requests
  BY Constants DEF HeldAt, OffAt
<1> QED
  BY <1>1, FS_Subset, FS_CardinalityType

LEMMA StillHeld ==
  ASSUME TypeOK, HoldBook, world' = world, holdSem' = holdSem,
         \A x \in Requests : Holding(x)' <=> Holding(x)
  PROVE  HoldBook'
<1>1. \A r : HeldAt(r)' = HeldAt(r)
  BY DEF HeldAt, ReplicaOf
<1> QED
  BY <1>1 DEF HoldBook

LEMMA OneMoreHeld ==
  ASSUME TypeOK, HoldBook, world' = world, NEW q \in Requests, NotMoved(q),
         ~ Holding(q), Holding(q)', holdSem[ReplicaOf[q]] < MaxHolds,
         holdSem' = [holdSem EXCEPT ![ReplicaOf[q]] = @ + 1]
  PROVE  HoldBook' /\ holdSem' \in [Replicas -> 0..MaxHolds]
<1>0. PICK at \in Replicas : at = ReplicaOf[q]
  BY WorldFields
<1>1. ReplicaOf' = ReplicaOf
  BY DEF ReplicaOf
<1>2. \A x \in Requests \ {q} : Holding(x)' <=> Holding(x)
  BY DEF NotMoved, Holding
<1>3. HeldAt(at)' = HeldAt(at) \cup {q} /\ q \notin HeldAt(at)
  BY <1>0, <1>1, <1>2 DEF HeldAt
<1>4. \A r : r # at => HeldAt(r)' = HeldAt(r)
  BY <1>0, <1>1, <1>2 DEF HeldAt
<1>5. Cardinality(HeldAt(at) \cup {q}) = Cardinality(HeldAt(at)) + 1
  BY <1>3, BooksFinite, FS_AddElement
<1>6. holdSem \in [Replicas -> 0..MaxHolds] /\ MaxHolds \in Nat
  BY Constants DEF TypeOK
<1>7. /\ holdSem'[at] = holdSem[at] + 1
      /\ \A r \in Replicas \ {at} : holdSem'[r] = holdSem[r]
      /\ holdSem' \in [Replicas -> 0..MaxHolds]
  BY <1>0, <1>1, <1>6
<1>8. ASSUME NEW r \in Replicas
      PROVE  holdSem'[r] = Cardinality(HeldAt(r)')
  <2>1. holdSem[r] = Cardinality(HeldAt(r))
    BY DEF HoldBook
  <2>2. CASE r = at
    <3>1. Cardinality(HeldAt(r)') = Cardinality(HeldAt(r)) + 1
      BY <1>3, <1>5, <2>2, Zenon
    <3>2. holdSem'[r] = holdSem[r] + 1
      BY <1>7, <2>2, Zenon
    <3> QED
      BY <2>1, <3>1, <3>2, Zenon
  <2>3. CASE r # at
    BY <1>4, <1>7, <2>1, <2>3, Zenon
  <2> QED
    BY <2>2, <2>3
<1> QED
  BY <1>7, <1>8, Zenon DEF HoldBook

LEMMA OneLessHeld ==
  ASSUME TypeOK, HoldBook, world' = world, NEW q \in Requests, NotMoved(q),
         Holding(q), ~ Holding(q)',
         holdSem' = [holdSem EXCEPT ![ReplicaOf[q]] = @ - 1]
  PROVE  HoldBook' /\ holdSem' \in [Replicas -> 0..MaxHolds]
<1>0. PICK at \in Replicas : at = ReplicaOf[q]
  BY WorldFields
<1>1. ReplicaOf' = ReplicaOf
  BY DEF ReplicaOf
<1>2. \A x \in Requests \ {q} : Holding(x)' <=> Holding(x)
  BY DEF NotMoved, Holding
<1>3. HeldAt(at)' = HeldAt(at) \ {q} /\ q \in HeldAt(at)
  BY <1>0, <1>1, <1>2 DEF HeldAt
<1>4. \A r : r # at => HeldAt(r)' = HeldAt(r)
  BY <1>0, <1>1, <1>2 DEF HeldAt
<1>5. /\ Cardinality(HeldAt(at) \ {q}) = Cardinality(HeldAt(at)) - 1
      /\ Cardinality(HeldAt(at) \ {q}) \in Nat
  <2>1. IsFiniteSet(HeldAt(at)) /\ IsFiniteSet(HeldAt(at) \ {q})
    BY BooksFinite, FS_RemoveElement
  <2> QED
    BY <1>3, <2>1, FS_RemoveElement, FS_CardinalityType
<1>6. holdSem \in [Replicas -> 0..MaxHolds] /\ MaxHolds \in Nat
  BY Constants DEF TypeOK
<1>7. holdSem[at] - 1 \in 0..MaxHolds
  <2>1. holdSem[at] - 1 \in Nat
    BY <1>0, <1>1, <1>5 DEF HoldBook
  <2> QED
    BY <1>0, <1>1, <1>6, <2>1
<1>8. /\ holdSem'[at] = holdSem[at] - 1
      /\ \A r \in Replicas \ {at} : holdSem'[r] = holdSem[r]
      /\ holdSem' \in [Replicas -> 0..MaxHolds]
  BY <1>0, <1>1, <1>6, <1>7
<1>9. ASSUME NEW r \in Replicas
      PROVE  holdSem'[r] = Cardinality(HeldAt(r)')
  <2>1. holdSem[r] = Cardinality(HeldAt(r))
    BY DEF HoldBook
  <2>2. CASE r = at
    <3>1. Cardinality(HeldAt(r)') = Cardinality(HeldAt(r)) - 1
      BY <1>3, <1>5, <2>2, Zenon
    <3>2. holdSem'[r] = holdSem[r] - 1
      BY <1>8, <2>2, Zenon
    <3> QED
      BY <2>1, <3>1, <3>2, Zenon
  <2>3. CASE r # at
    BY <1>4, <1>8, <2>1, <2>3, Zenon
  <2> QED
    BY <2>2, <2>3
<1> QED
  BY <1>8, <1>9, Zenon DEF HoldBook

LEMMA StillOff ==
  ASSUME TypeOK, OffBook, world' = world, offSem' = offSem,
         \A x \in Requests : req'[x].pc = "off" <=> req[x].pc = "off"
  PROVE  OffBook'
<1>1. \A r : OffAt(r)' = OffAt(r)
  BY DEF OffAt, ReplicaOf
<1> QED
  BY <1>1 DEF OffBook

LEMMA OneMoreOff ==
  ASSUME TypeOK, OffBook, world' = world, NEW q \in Requests, NotMoved(q),
         req[q].pc # "off", req'[q].pc = "off", offSem[ReplicaOf[q]] < HoldOffs,
         offSem' = [offSem EXCEPT ![ReplicaOf[q]] = @ + 1]
  PROVE  OffBook' /\ offSem' \in [Replicas -> 0..HoldOffs]
<1>0. PICK at \in Replicas : at = ReplicaOf[q]
  BY WorldFields
<1>1. ReplicaOf' = ReplicaOf
  BY DEF ReplicaOf
<1>2. OffAt(at)' = OffAt(at) \cup {q} /\ q \notin OffAt(at)
  BY <1>0, <1>1 DEF OffAt, NotMoved
<1>3. \A r : r # at => OffAt(r)' = OffAt(r)
  BY <1>0, <1>1 DEF OffAt, NotMoved
<1>4. Cardinality(OffAt(at) \cup {q}) = Cardinality(OffAt(at)) + 1
  BY <1>2, BooksFinite, FS_AddElement
<1>5. offSem \in [Replicas -> 0..HoldOffs] /\ HoldOffs \in Nat
  BY Constants DEF TypeOK
<1>6. /\ offSem'[at] = offSem[at] + 1
      /\ \A r \in Replicas \ {at} : offSem'[r] = offSem[r]
      /\ offSem' \in [Replicas -> 0..HoldOffs]
  BY <1>0, <1>1, <1>5
<1>7. ASSUME NEW r \in Replicas
      PROVE  offSem'[r] = Cardinality(OffAt(r)')
  <2>1. offSem[r] = Cardinality(OffAt(r))
    BY DEF OffBook
  <2>2. CASE r = at
    <3>1. Cardinality(OffAt(r)') = Cardinality(OffAt(r)) + 1
      BY <1>2, <1>4, <2>2, Zenon
    <3>2. offSem'[r] = offSem[r] + 1
      BY <1>6, <2>2, Zenon
    <3> QED
      BY <2>1, <3>1, <3>2, Zenon
  <2>3. CASE r # at
    BY <1>3, <1>6, <2>1, <2>3, Zenon
  <2> QED
    BY <2>2, <2>3
<1> QED
  BY <1>6, <1>7, Zenon DEF OffBook

LEMMA OneLessOff ==
  ASSUME TypeOK, OffBook, world' = world, NEW q \in Requests, NotMoved(q),
         req[q].pc = "off", req'[q].pc # "off",
         offSem' = [offSem EXCEPT ![ReplicaOf[q]] = @ - 1]
  PROVE  OffBook' /\ offSem' \in [Replicas -> 0..HoldOffs]
<1>0. PICK at \in Replicas : at = ReplicaOf[q]
  BY WorldFields
<1>1. ReplicaOf' = ReplicaOf
  BY DEF ReplicaOf
<1>2. OffAt(at)' = OffAt(at) \ {q} /\ q \in OffAt(at)
  BY <1>0, <1>1 DEF OffAt, NotMoved
<1>3. \A r : r # at => OffAt(r)' = OffAt(r)
  BY <1>0, <1>1 DEF OffAt, NotMoved
<1>4. /\ Cardinality(OffAt(at) \ {q}) = Cardinality(OffAt(at)) - 1
      /\ Cardinality(OffAt(at) \ {q}) \in Nat
  <2>1. IsFiniteSet(OffAt(at)) /\ IsFiniteSet(OffAt(at) \ {q})
    BY BooksFinite, FS_RemoveElement
  <2> QED
    BY <1>2, <2>1, FS_RemoveElement, FS_CardinalityType
<1>5. offSem \in [Replicas -> 0..HoldOffs] /\ HoldOffs \in Nat
  BY Constants DEF TypeOK
<1>6. offSem[at] - 1 \in 0..HoldOffs
  <2>1. offSem[at] - 1 \in Nat
    BY <1>0, <1>1, <1>4 DEF OffBook
  <2> QED
    BY <1>0, <1>1, <1>5, <2>1
<1>7. /\ offSem'[at] = offSem[at] - 1
      /\ \A r \in Replicas \ {at} : offSem'[r] = offSem[r]
      /\ offSem' \in [Replicas -> 0..HoldOffs]
  BY <1>0, <1>1, <1>5, <1>6
<1>8. ASSUME NEW r \in Replicas
      PROVE  offSem'[r] = Cardinality(OffAt(r)')
  <2>1. offSem[r] = Cardinality(OffAt(r))
    BY DEF OffBook
  <2>2. CASE r = at
    <3>1. Cardinality(OffAt(r)') = Cardinality(OffAt(r)) - 1
      BY <1>2, <1>4, <2>2, Zenon
    <3>2. offSem'[r] = offSem[r] - 1
      BY <1>7, <2>2, Zenon
    <3> QED
      BY <2>1, <3>1, <3>2, Zenon
  <2>3. CASE r # at
    BY <1>3, <1>7, <2>1, <2>3, Zenon
  <2> QED
    BY <2>2, <2>3
<1> QED
  BY <1>7, <1>8, Zenon DEF OffBook

LEMMA StillMarked ==
  ASSUME TypeOK, MarkBook, OneMark, world' = world, perBot' = perBot,
         \A x \in Requests : Marked(x)' <=> Marked(x)
  PROVE  MarkBook' /\ OneMark'
<1>1. \A r : BotsAt(r)' = BotsAt(r)
  BY DEF BotsAt, ReplicaOf, BotOf
<1>2. MarkBook'
  BY <1>1 DEF MarkBook
<1>3. OneMark'
  BY DEF OneMark, ReplicaOf, BotOf
<1> QED
  BY <1>2, <1>3

LEMMA OneMoreMarked ==
  ASSUME TypeOK, MarkBook, OneMark, world' = world, NEW q \in Requests, NotMoved(q),
         Marked(q)', BotOf[q] \notin perBot[ReplicaOf[q]],
         perBot' = [perBot EXCEPT ![ReplicaOf[q]] = @ \cup {BotOf[q]}]
  PROVE  MarkBook' /\ OneMark' /\ perBot' \in [Replicas -> SUBSET Bots]
<1>1. /\ BotOf[q] \in Bots /\ ReplicaOf[q] \in Replicas
      /\ BotOf' = BotOf /\ ReplicaOf' = ReplicaOf
  BY WorldFields DEF BotOf, ReplicaOf
<1>2. \A x \in Requests \ {q} : Marked(x)' <=> Marked(x)
  BY DEF NotMoved, Marked, Holding
<1>3. \A x \in Requests : Marked(x) /\ ReplicaOf[x] = ReplicaOf[q] => BotOf[x] # BotOf[q]
  BY <1>1, WorldFields DEF MarkBook, BotsAt
<1>4. BotsAt(ReplicaOf[q])' = BotsAt(ReplicaOf[q]) \cup {BotOf[q]}
  <2>1. ~ Marked(q)
    BY <1>3
  <2> QED
    BY <1>1, <1>2, <2>1 DEF BotsAt
<1>5. \A r : r # ReplicaOf[q] => BotsAt(r)' = BotsAt(r)
  BY <1>1, <1>2 DEF BotsAt
<1>6. /\ perBot'[ReplicaOf[q]] = perBot[ReplicaOf[q]] \cup {BotOf[q]}
      /\ \A r \in Replicas \ {ReplicaOf[q]} : perBot'[r] = perBot[r]
      /\ perBot' \in [Replicas -> SUBSET Bots]
  BY <1>1 DEF TypeOK
<1>7. OneMark'
  BY <1>1, <1>2, <1>3 DEF OneMark
<1> QED
  BY <1>1, <1>4, <1>5, <1>6, <1>7 DEF MarkBook

LEMMA OneLessMarked ==
  ASSUME TypeOK, MarkBook, OneMark, world' = world, NEW q \in Requests, NotMoved(q),
         Marked(q), ~ Marked(q)',
         perBot' = [perBot EXCEPT ![ReplicaOf[q]] = perBot[ReplicaOf[q]] \ {BotOf[q]}]
  PROVE  MarkBook' /\ OneMark' /\ perBot' \in [Replicas -> SUBSET Bots]
<1>1. /\ BotOf[q] \in Bots /\ ReplicaOf[q] \in Replicas
      /\ BotOf' = BotOf /\ ReplicaOf' = ReplicaOf
  BY WorldFields DEF BotOf, ReplicaOf
<1>2. \A x \in Requests \ {q} : Marked(x)' <=> Marked(x)
  BY DEF NotMoved, Marked, Holding
<1>3. \A x \in Requests \ {q} : Marked(x) /\ ReplicaOf[x] = ReplicaOf[q] => BotOf[x] # BotOf[q]
  BY DEF OneMark
<1>4. BotsAt(ReplicaOf[q])' = BotsAt(ReplicaOf[q]) \ {BotOf[q]}
  BY <1>1, <1>2, <1>3 DEF BotsAt
<1>5. \A r : r # ReplicaOf[q] => BotsAt(r)' = BotsAt(r)
  BY <1>1, <1>2 DEF BotsAt
<1>6. /\ perBot'[ReplicaOf[q]] = perBot[ReplicaOf[q]] \ {BotOf[q]}
      /\ \A r \in Replicas \ {ReplicaOf[q]} : perBot'[r] = perBot[r]
      /\ perBot' \in [Replicas -> SUBSET Bots]
  BY <1>1 DEF TypeOK
<1>7. OneMark'
  BY <1>1, <1>2 DEF OneMark
<1> QED
  BY <1>1, <1>4, <1>5, <1>6, <1>7 DEF MarkBook

-----------------------------------------------------------------------------
(* Types and books of every step. *)

\* A request blocks only while its hold has time left, and not after a full page.
Blocked == \A q \in Requests : req[q].pc = "block" => req[q].left > 0 /\ ~ req[q].reread

BooksInv == TypeOK /\ HoldBook /\ OffBook /\ MarkBook /\ OneMark /\ Blocked

\* The types of what requests share, and of the rest.
HoldTypes ==
    /\ perBot \in [Replicas -> SUBSET Bots]
    /\ holdSem \in [Replicas -> 0..MaxHolds] /\ offSem \in [Replicas -> 0..HoldOffs]
ClientTypes == cursor \in [Bots -> 0..MaxId] /\ got \in [Bots -> SUBSET Ids]
FeedTypes ==
    /\ queue \in [Bots -> SUBSET Ids] /\ issued \in [Bots -> 0..MaxId]
    /\ prod \in [Producers -> Publishing]
BellTypes ==
    /\ bell \in [Bots -> BOOLEAN] /\ pending \in [Replicas -> SUBSET Bots]
    /\ ringQueue \in [Replicas -> SUBSET Bots] /\ worker \in [Replicas -> [RingWorkers -> Duties]]

LEMMA TypeParts ==
  TypeOK <=> /\ world \in Worlds /\ req \in [Requests -> Polling] /\ faults \in 0..MaxFaults
             /\ HoldTypes /\ ClientTypes /\ FeedTypes /\ BellTypes
BY DEF TypeOK, HoldTypes, ClientTypes, FeedTypes, BellTypes

LEMMA TypePartsNext ==
  ASSUME world' \in Worlds, req' \in [Requests -> Polling], faults' \in 0..MaxFaults,
         HoldTypes', ClientTypes', FeedTypes', BellTypes'
  PROVE  TypeOK'
BY DEF TypeOK, HoldTypes, ClientTypes, FeedTypes, BellTypes

LEMMA QuietBooks ==
  ASSUME BooksInv, world' = world, req' = req, UNCHANGED holdVars
  PROVE  HoldBook' /\ OffBook' /\ MarkBook' /\ OneMark' /\ HoldTypes' /\ Blocked'
<1>1. \A x \in Requests : (Holding(x)' <=> Holding(x)) /\ (Marked(x)' <=> Marked(x))
  BY DEF Holding, Marked
<1>2. HoldTypes' /\ Blocked'
  BY TypeParts DEF BooksInv, HoldTypes, holdVars, Blocked
<1>3. HoldBook'
  BY <1>1, StillHeld DEF BooksInv, holdVars
<1>4. OffBook'
  BY StillOff DEF BooksInv, holdVars
<1>5. MarkBook' /\ OneMark'
  BY <1>1, StillMarked DEF BooksInv, holdVars
<1> QED
  BY <1>2, <1>3, <1>4, <1>5

\* A request that moves between stages of one kind disturbs no book.
LEMMA SameKindBooks ==
  ASSUME BooksInv, world' = world, NEW q \in Requests, NotMoved(q), UNCHANGED holdVars,
         Holding(q)' <=> Holding(q), Marked(q)' <=> Marked(q),
         req'[q].pc = "off" <=> req[q].pc = "off"
  PROVE  HoldBook' /\ OffBook' /\ MarkBook' /\ OneMark' /\ HoldTypes'
<1>1. \A x \in Requests : (Holding(x)' <=> Holding(x)) /\ (Marked(x)' <=> Marked(x))
  BY DEF Holding, Marked, NotMoved
<1>2. \A x \in Requests : req'[x].pc = "off" <=> req[x].pc = "off"
  BY DEF NotMoved
<1>3. HoldTypes'
  BY TypeParts DEF BooksInv, HoldTypes, holdVars
<1>4. HoldBook'
  BY <1>1, StillHeld DEF BooksInv, holdVars
<1>5. OffBook'
  BY <1>2, StillOff DEF BooksInv, holdVars
<1>6. MarkBook' /\ OneMark'
  BY <1>1, StillMarked DEF BooksInv, holdVars
<1> QED
  BY <1>3, <1>4, <1>5, <1>6

\* A response closes the request's accounts.
LEMMA RespondBooks ==
  ASSUME BooksInv, world' = world, NEW q \in Requests, req[q].pc # "slot",
         NEW events, events \subseteq Ids, Respond(q, events)
  PROVE  /\ Moved(q, "idle", 0, 0, FALSE, FALSE)
         /\ HoldBook' /\ OffBook' /\ MarkBook' /\ OneMark' /\ HoldTypes' /\ ClientTypes'
<1>1. Moved(q, "idle", 0, 0, FALSE, FALSE)
  BY MovesToEnd DEF Respond, BooksInv
<1>2. NotMoved(q) /\ req'[q].pc = "idle" /\ ~ Holding(q)' /\ ~ Marked(q)' /\ req'[q].pc # "off"
  BY <1>1 DEF Moved, Holding, Marked
<1>3. \A x \in Requests \ {q} : req'[x] = req[x]
  BY <1>2 DEF NotMoved
<1>4. HoldTypes
  BY TypeParts DEF BooksInv
<1>5. HoldBook' /\ OffBook' /\ MarkBook' /\ OneMark' /\ HoldTypes'
  <2>1. CASE Holding(q)
    <3>1. /\ holdSem' = [holdSem EXCEPT ![ReplicaOf[q]] = @ - 1]
          /\ perBot' = [perBot EXCEPT ![ReplicaOf[q]] = perBot[ReplicaOf[q]] \ {BotOf[q]}]
          /\ offSem' = offSem
      BY <2>1 DEF Respond, Release
    <3>2. HoldBook' /\ holdSem' \in [Replicas -> 0..MaxHolds]
      BY <1>2, <2>1, <3>1, OneLessHeld DEF BooksInv
    <3>3. MarkBook' /\ OneMark' /\ perBot' \in [Replicas -> SUBSET Bots]
      BY <1>2, <2>1, <3>1, OneLessMarked DEF BooksInv, Marked
    <3>4. OffBook'
      <4>1. req[q].pc # "off"
        BY <2>1 DEF Holding
      <4> QED
        BY <1>2, <1>3, <3>1, <4>1, StillOff DEF BooksInv
    <3> QED
      BY <1>4, <3>1, <3>2, <3>3, <3>4 DEF HoldTypes
  <2>2. CASE ~ Holding(q) /\ req[q].pc = "off"
    <3>1. /\ offSem' = [offSem EXCEPT ![ReplicaOf[q]] = @ - 1]
          /\ perBot' = perBot /\ holdSem' = holdSem
      BY <2>2 DEF Respond, Release
    <3>2. \A x \in Requests : (Holding(x)' <=> Holding(x)) /\ (Marked(x)' <=> Marked(x))
      BY <1>2, <1>3, <2>2 DEF Holding, Marked
    <3>3. HoldBook' /\ MarkBook' /\ OneMark'
      BY <3>1, <3>2, StillHeld, StillMarked DEF BooksInv
    <3>4. OffBook' /\ offSem' \in [Replicas -> 0..HoldOffs]
      BY <1>2, <2>2, <3>1, OneLessOff DEF BooksInv
    <3> QED
      BY <1>4, <3>1, <3>3, <3>4 DEF HoldTypes
  <2>3. CASE ~ Holding(q) /\ req[q].pc # "off"
    <3>1. UNCHANGED holdVars
      BY <2>3 DEF Respond, Release
    <3>2. ~ Marked(q)
      BY <2>3 DEF Marked
    <3> QED
      BY <1>2, <2>3, <3>1, <3>2, SameKindBooks
  <2> QED
    BY <2>1, <2>2, <2>3
<1>6. ClientTypes'
  <2>1. ClientTypes /\ BotOf[q] \in Bots
    BY TypeParts, WorldFields DEF BooksInv
  <2>2. CASE req[q].gone
    BY <2>1, <2>2 DEF Respond, ClientTypes, client
  <2>3. CASE ~ req[q].gone
    <3>1. /\ cursor' = [cursor EXCEPT ![BotOf[q]] = Max({cursor[BotOf[q]]} \cup events)]
          /\ got' = [got EXCEPT ![BotOf[q]] = got[BotOf[q]] \cup events]
      BY <2>3 DEF Respond
    <3>2. Max({cursor[BotOf[q]]} \cup events) \in 0..MaxId
      BY <2>1, ClientCursor DEF ClientTypes
    <3> QED
      BY <2>1, <3>1, <3>2 DEF ClientTypes
  <2> QED
    BY <2>2, <2>3
<1> QED
  BY <1>1, <1>5, <1>6

\* A refused hold sleeps on the budget for that, or ends.
LEMMA RefuseBooks ==
  ASSUME BooksInv, world' = world, NEW q \in Requests, req[q].pc \in {"mark", "slot"}, Refuse(q)
  PROVE  /\ \/ Moved(q, "off", req[q].cur, req[q].left, req[q].reread, req[q].gone)
            \/ Moved(q, "idle", 0, 0, FALSE, FALSE)
         /\ HoldBook' /\ OffBook' /\ holdSem' = holdSem /\ UNCHANGED client
         /\ offSem' \in [Replicas -> 0..HoldOffs]
<1> DEFINE off  == Moved(q, "off", req[q].cur, req[q].left, req[q].reread, req[q].gone)
           idle == Moved(q, "idle", 0, 0, FALSE, FALSE)
<1>1. \/ off /\ offSem[ReplicaOf[q]] < HoldOffs /\ offSem' = [offSem EXCEPT ![ReplicaOf[q]] = @ + 1]
      \/ idle /\ offSem' = offSem
  <2>1. CASE offSem[ReplicaOf[q]] < HoldOffs
    BY <2>1, MovesOn DEF Refuse, BooksInv, Stages
  <2>2. CASE ~ (offSem[ReplicaOf[q]] < HoldOffs)
    BY <2>2, MovesToEnd DEF Refuse, BooksInv
  <2> QED
    BY <2>1, <2>2
<1>2. holdSem' = holdSem /\ UNCHANGED client
  BY DEF Refuse, client
<1>3. NotMoved(q) /\ req'[q].pc \in {"off", "idle"}
  BY <1>1 DEF Moved
<1>4. HoldBook'
  <2>1. \A x \in Requests : Holding(x)' <=> Holding(x)
    BY <1>3 DEF NotMoved, Holding
  <2> QED
    BY <1>2, <2>1, StillHeld DEF BooksInv
<1>5. OffBook' /\ offSem' \in [Replicas -> 0..HoldOffs]
  <2>1. CASE off /\ offSem[ReplicaOf[q]] < HoldOffs
             /\ offSem' = [offSem EXCEPT ![ReplicaOf[q]] = @ + 1]
    <3>1. req[q].pc # "off" /\ req'[q].pc = "off" /\ NotMoved(q)
      BY <2>1 DEF Moved
    <3> QED
      BY <2>1, <3>1, OneMoreOff DEF BooksInv
  <2>2. CASE idle /\ offSem' = offSem
    <3>1. \A x \in Requests : req'[x].pc = "off" <=> req[x].pc = "off"
      BY <2>2 DEF Moved, NotMoved
    <3>2. offSem' \in [Replicas -> 0..HoldOffs]
      BY <2>2, TypeParts DEF BooksInv, HoldTypes
    <3> QED
      BY <2>2, <3>1, <3>2, StillOff DEF BooksInv
  <2> QED
    BY <1>1, <2>1, <2>2
<1> QED
  BY <1>1, <1>2, <1>4, <1>5

\* Auto-acks and acks only remove.
LEMMA AckedQueue ==
  ASSUME TypeOK, NEW b \in Bots, NEW page, AutoAck(b, page)
  PROVE  /\ queue' \in [Bots -> SUBSET Ids]
         /\ \A c \in Bots : queue'[c] \subseteq queue[c]
<1>1. queue \in [Bots -> SUBSET Ids]
  BY DEF TypeOK
<1>2. PICK failed : queue' = [queue EXCEPT ![b] = queue[b] \ ({i \in page : Kind[i] = "group"} \ failed)]
  BY Zenon DEF AutoAck
<1> QED
  BY <1>1, <1>2

\* The producers and the doorbell, acks and the bell's end of life.
LEMMA FeedBooks ==
  ASSUME BooksInv, world' = world, NEW p \in Producers, NextEventID(p) \/ Produce(p) \/ ZAddFails(p)
  PROVE  BooksInv'
<1> DEFINE b == Target[p]
           r == Home[p]
<1>1. /\ FeedTypes /\ BellTypes /\ ClientTypes /\ b \in Bots /\ r \in Replicas /\ MaxId \in Nat
      /\ prod[p] \in Publishing /\ NoProd \in Publishing
  BY TypeParts, Constants DEF BooksInv, FeedTypes, Publishing, NoProd
<1>2. req' = req /\ UNCHANGED holdVars /\ ClientTypes' /\ faults' = faults
  BY <1>1 DEF NextEventID, Produce, ZAdd, ZAddFails, Notify, Enqueue, ClientTypes, client
<1>3. FeedTypes'
  <2>1. CASE NextEventID(p)
    <3>1. issued[b] + 1 \in 0..MaxId /\ [pc |-> "zadd", id |-> issued[b] + 1] \in Publishing
      BY <1>1, <2>1 DEF NextEventID, FeedTypes, Publishing
    <3> QED
      BY <1>1, <2>1, <3>1 DEF NextEventID, FeedTypes
  <2>2. CASE ZAdd(p)
    <3>1. prod[p].id \in Ids /\ [prod[p] EXCEPT !.pc = "notify"] \in Publishing
          /\ prod' = [prod EXCEPT ![p] = [prod[p] EXCEPT !.pc = "notify"]]
      BY <1>1, <2>2 DEF ZAdd, Publishing, NoProd, Ids
    <3> QED
      BY <1>1, <2>2, <3>1 DEF ZAdd, FeedTypes
  <2>3. CASE Notify(p)
    <3>1. [prod[p] EXCEPT !.pc = "enqueue"] \in Publishing
      BY <1>1, <2>3 DEF Notify, Publishing, NoProd
    <3> QED
      BY <1>1, <2>3, <3>1 DEF Notify, FeedTypes
  <2>4. CASE Enqueue(p) \/ ZAddFails(p)
    BY <1>1, <2>4 DEF Enqueue, ZAddFails, FeedTypes
  <2> QED
    BY <2>1, <2>2, <2>3, <2>4 DEF Produce
<1>4. BellTypes'
  <2>1. CASE NextEventID(p) \/ ZAdd(p) \/ ZAddFails(p)
    BY <1>1, <2>1 DEF NextEventID, ZAdd, ZAddFails, BellTypes, bellVars
  <2>2. CASE Notify(p)
    BY <1>1, <2>2 DEF Notify, BellTypes
  <2>3. CASE Enqueue(p)
    BY <1>1, <2>3 DEF Enqueue, BellTypes
  <2> QED
    BY <2>1, <2>2, <2>3 DEF Produce
<1>5. TypeOK' /\ HoldBook' /\ OffBook' /\ MarkBook' /\ OneMark' /\ Blocked'
  <2>1. HoldBook' /\ OffBook' /\ MarkBook' /\ OneMark' /\ HoldTypes' /\ Blocked'
    BY <1>2, QuietBooks
  <2>2. world' \in Worlds /\ req' \in [Requests -> Polling] /\ faults' \in 0..MaxFaults
    BY <1>2, TypeParts DEF BooksInv
  <2>3. TypeOK'
    BY <1>2, <1>3, <1>4, <2>1, <2>2, TypePartsNext
  <2> QED
    BY <2>1, <2>3
<1> QED
  BY <1>5 DEF BooksInv

LEMMA WorkerSet ==
  ASSUME TypeOK, NEW r \in Replicas, NEW w \in RingWorkers, NEW d \in Duties,
         worker' = [worker EXCEPT ![r][w] = d]
  PROVE  /\ worker' \in [Replicas -> [RingWorkers -> Duties]] /\ worker'[r][w] = d
         /\ \A s \in Replicas, v \in RingWorkers : (s # r \/ v # w) => worker'[s][v] = worker[s][v]
BY DEF TypeOK

LEMMA BellBooks ==
  ASSUME BooksInv, world' = world, NEW r \in Replicas, NEW w \in RingWorkers,
         (\E b \in Bots : TakeRing(r, w, b)) \/ ClearMark(r, w) \/ Ring(r, w) \/ RingFails(r, w)
  PROVE  BooksInv'
<1>1. FeedTypes /\ BellTypes /\ ClientTypes /\ worker[r][w] \in Duties /\ Free \in Duties
  BY TypeParts DEF BooksInv, BellTypes, Duties
<1>2. /\ req' = req /\ UNCHANGED holdVars /\ faults' = faults
      /\ ClientTypes' /\ FeedTypes'
  BY <1>1 DEF TakeRing, ClearMark, Ring, RingFails, ClientTypes, FeedTypes, client
<1>3. BellTypes'
  <2>1. ASSUME NEW b \in Bots, TakeRing(r, w, b)
        PROVE  BellTypes'
    <3>1. [pc |-> "taken", bot |-> b] \in Duties
      BY DEF Duties
    <3>2. worker' \in [Replicas -> [RingWorkers -> Duties]]
      BY <2>1, <3>1, WorkerSet DEF TakeRing, BooksInv
    <3> QED
      BY <1>1, <2>1, <3>2 DEF TakeRing, BellTypes
  <2>2. CASE ClearMark(r, w)
    <3>1. worker[r][w].bot \in Bots /\ [pc |-> "ringing", bot |-> worker[r][w].bot] \in Duties
      BY <1>1, <2>2 DEF ClearMark, Duties, Free
    <3>2. worker' \in [Replicas -> [RingWorkers -> Duties]]
      BY <2>2, <3>1, WorkerSet DEF ClearMark, BooksInv
    <3> QED
      BY <1>1, <2>2, <3>1, <3>2 DEF ClearMark, BellTypes, PendingTaken
  <2>3. CASE Ring(r, w) \/ RingFails(r, w)
    <3>1. worker' \in [Replicas -> [RingWorkers -> Duties]]
      BY <1>1, <2>3, WorkerSet DEF Ring, RingFails, BooksInv
    <3>2. bell' \in [Bots -> BOOLEAN] /\ pending' = pending /\ ringQueue' = ringQueue
      BY <1>1, <2>3 DEF Ring, RingFails, BellTypes
    <3> QED
      BY <1>1, <3>1, <3>2 DEF BellTypes
  <2> QED
    BY <2>1, <2>2, <2>3
<1>4. TypeOK' /\ HoldBook' /\ OffBook' /\ MarkBook' /\ OneMark' /\ Blocked'
  <2>1. HoldBook' /\ OffBook' /\ MarkBook' /\ OneMark' /\ HoldTypes' /\ Blocked'
    BY <1>2, QuietBooks
  <2>2. world' \in Worlds /\ req' \in [Requests -> Polling] /\ faults' \in 0..MaxFaults
    BY <1>2, TypeParts DEF BooksInv
  <2>3. TypeOK'
    BY <1>2, <1>3, <2>1, <2>2, TypePartsNext
  <2> QED
    BY <2>1, <2>3
<1> QED
  BY <1>4 DEF BooksInv

LEMMA RemovalBooks ==
  ASSUME BooksInv, world' = world,
         \/ \E b \in Bots, i \in Ids : EventAck(b, i)
         \/ \E b \in Bots : BellExpires(b)
  PROVE  BooksInv'
<1>1. FeedTypes /\ BellTypes /\ ClientTypes
  BY TypeParts DEF BooksInv
<1>2. /\ req' = req /\ UNCHANGED holdVars /\ faults' = faults
      /\ ClientTypes' /\ FeedTypes' /\ BellTypes'
  <2>1. ASSUME NEW b \in Bots, NEW i \in Ids, EventAck(b, i)
        PROVE  /\ req' = req /\ UNCHANGED holdVars /\ faults' = faults
               /\ ClientTypes' /\ FeedTypes' /\ BellTypes'
    BY <1>1, <2>1 DEF EventAck, ClientTypes, FeedTypes, BellTypes, client, bellVars
  <2>2. ASSUME NEW b \in Bots, BellExpires(b)
        PROVE  /\ req' = req /\ UNCHANGED holdVars /\ faults' = faults
               /\ ClientTypes' /\ FeedTypes' /\ BellTypes'
    BY <1>1, <2>2 DEF BellExpires, ClientTypes, FeedTypes, BellTypes, client
  <2> QED
    BY <2>1, <2>2
<1>3. TypeOK' /\ HoldBook' /\ OffBook' /\ MarkBook' /\ OneMark' /\ Blocked'
  <2>1. HoldBook' /\ OffBook' /\ MarkBook' /\ OneMark' /\ HoldTypes' /\ Blocked'
    BY <1>2, QuietBooks
  <2>2. world' \in Worlds /\ req' \in [Requests -> Polling] /\ faults' \in 0..MaxFaults
    BY <1>2, TypeParts DEF BooksInv
  <2>3. TypeOK'
    BY <1>2, <2>1, <2>2, TypePartsNext
  <2> QED
    BY <2>1, <2>3
<1> QED
  BY <1>3 DEF BooksInv

\* A page that a request reads.
LEMMA PageOfRequest ==
  ASSUME TypeOK, NEW q \in Requests
  PROVE  /\ BotOf[q] \in Bots /\ Visible(Members(BotOf[q], req[q].cur)) \subseteq Ids
         /\ PageCursor(Members(BotOf[q], req[q].cur), req[q].cur) \in 0..MaxId
         /\ Reread(Members(BotOf[q], req[q].cur), req[q].cur) \in BOOLEAN
<1>1. BotOf[q] \in Bots /\ req[q].cur \in 0..MaxId
  BY WorldFields, RequestFields
<1>2. Members(BotOf[q], req[q].cur) \subseteq Ids
  BY <1>1, PagePrefix
<1>3. PageCursor(Members(BotOf[q], req[q].cur), req[q].cur) \in 0..MaxId
  BY <1>1, <1>2, PageCursorPlace
<1> QED
  BY <1>1, <1>2, <1>3 DEF Visible, Reread

\* What a step of a request does to its record and to the books of the holds.
HoldStep(q) == /\ req' \in [Requests -> Polling] /\ HoldTypes' /\ ClientTypes' /\ NotMoved(q)
               /\ HoldBook' /\ OffBook' /\ MarkBook' /\ OneMark'
               /\ req'[q].pc = "block" => req'[q].left > 0 /\ ~ req'[q].reread

LEMMA SameKindStep ==
  ASSUME BooksInv, world' = world, NEW q \in Requests, NEW pc, NEW cur, NEW left, NEW reread, NEW gone,
         Moved(q, pc, cur, left, reread, gone), UNCHANGED <<holdVars, client>>,
         pc \in {"top", "block", "read"} <=> Holding(q),
         pc = "slot" <=> req[q].pc = "slot", pc = "off" <=> req[q].pc = "off",
         pc = "block" => left > 0 /\ ~ reread
  PROVE  HoldStep(q)
<1>1. NotMoved(q) /\ req'[q].pc = pc /\ req' \in [Requests -> Polling]
  BY DEF Moved
<1>2. Holding(q)' <=> Holding(q)
  BY <1>1 DEF Holding
<1>3. Marked(q)' <=> Marked(q)
  BY <1>1, <1>2 DEF Marked
<1>4. HoldBook' /\ OffBook' /\ MarkBook' /\ OneMark' /\ HoldTypes'
  BY <1>1, <1>2, <1>3, SameKindBooks
<1>5. ClientTypes'
  BY TypeParts DEF BooksInv, ClientTypes, client
<1>6. req'[q].pc = "block" => req'[q].left > 0 /\ ~ req'[q].reread
  BY DEF Moved
<1> QED
  BY <1>1, <1>4, <1>5, <1>6 DEF HoldStep

LEMMA RespondStep ==
  ASSUME BooksInv, world' = world, NEW q \in Requests, req[q].pc # "slot",
         NEW events, events \subseteq Ids, Respond(q, events)
  PROVE  HoldStep(q)
<1>1. /\ Moved(q, "idle", 0, 0, FALSE, FALSE)
      /\ HoldBook' /\ OffBook' /\ MarkBook' /\ OneMark' /\ HoldTypes' /\ ClientTypes'
  BY RespondBooks
<1> QED
  BY <1>1 DEF HoldStep, Moved

LEMMA PollStep ==
  ASSUME BooksInv, world' = world, NEW q \in Requests, Poll(q)
  PROVE  Moved(q, "entry", cursor[BotOf[q]], 0, FALSE, FALSE) /\ HoldStep(q)
<1>1. cursor[BotOf[q]] \in 0..MaxId
  BY WorldFields DEF BooksInv, TypeOK
<1>2. Moved(q, "entry", cursor[BotOf[q]], 0, FALSE, FALSE)
  BY <1>1, MovesToEntry DEF Poll, BooksInv
<1>3. req[q].pc = "idle" /\ UNCHANGED <<holdVars, client>>
  BY DEF Poll
<1> QED
  BY <1>2, <1>3, SameKindStep DEF Holding

\* A page without a visible event is passed; the request goes on.
LEMMA PassPage ==
  ASSUME BooksInv, NEW q \in Requests, NEW pc \in Stages,
         req' = [req EXCEPT ![q].pc = pc,
                            ![q].cur = PageCursor(Members(BotOf[q], req[q].cur), req[q].cur),
                            ![q].reread = Reread(Members(BotOf[q], req[q].cur), req[q].cur)]
  PROVE  Moved(q, pc, PageCursor(Members(BotOf[q], req[q].cur), req[q].cur), req[q].left,
               Reread(Members(BotOf[q], req[q].cur), req[q].cur), req[q].gone)
BY PageOfRequest, MovesPastPage DEF BooksInv

LEMMA EntryStep ==
  ASSUME BooksInv, world' = world, NEW q \in Requests, Entry(q)
  PROVE  HoldStep(q)
<1> DEFINE page == Members(BotOf[q], req[q].cur)
<1>1. req[q].pc = "entry" /\ Visible(page) \subseteq Ids
  BY PageOfRequest DEF Entry, BooksInv
<1>2. CASE Respond(q, Visible(page))
  BY <1>1, <1>2, RespondStep
<1>3. CASE /\ req' = [req EXCEPT ![q].pc = "mark", ![q].cur = PageCursor(page, req[q].cur),
                                 ![q].reread = Reread(page, req[q].cur)]
           /\ UNCHANGED <<holdVars, client>>
  <2>1. Moved(q, "mark", PageCursor(page, req[q].cur), req[q].left, Reread(page, req[q].cur),
              req[q].gone)
    BY <1>3, PassPage DEF Stages
  <2> QED
    BY <1>1, <1>3, <2>1, SameKindStep DEF Holding
<1> QED
  BY <1>2, <1>3 DEF Entry

LEMMA MarkBotStep ==
  ASSUME BooksInv, world' = world, NEW q \in Requests, MarkBot(q)
  PROVE  HoldStep(q) /\ UNCHANGED client
<1>1. req[q].pc = "mark" /\ TypeOK /\ HoldTypes
  BY TypeParts DEF MarkBot, BooksInv
<1>2. UNCHANGED client
  BY DEF MarkBot, Refuse, client
<1>3. ClientTypes'
  BY <1>2, TypeParts DEF BooksInv, ClientTypes, client
<1>4. CASE BotOf[q] \in perBot[ReplicaOf[q]]
  <2>1. Refuse(q) /\ perBot' = perBot
    BY <1>4 DEF MarkBot
  <2>2. /\ \/ Moved(q, "off", req[q].cur, req[q].left, req[q].reread, req[q].gone)
           \/ Moved(q, "idle", 0, 0, FALSE, FALSE)
        /\ HoldBook' /\ OffBook' /\ holdSem' = holdSem /\ offSem' \in [Replicas -> 0..HoldOffs]
    BY <1>1, <2>1, RefuseBooks
  <2>3. \A x \in Requests : Marked(x)' <=> Marked(x)
    BY <1>1, <2>2 DEF Moved, NotMoved, Marked, Holding
  <2>4. MarkBook' /\ OneMark'
    BY <2>1, <2>3, StillMarked DEF BooksInv
  <2>5. req' \in [Requests -> Polling] /\ NotMoved(q) /\ req'[q].pc # "block"
    BY <2>2 DEF Moved
  <2> QED
    BY <1>1, <1>2, <1>3, <2>1, <2>2, <2>4, <2>5 DEF HoldStep, HoldTypes
<1>5. CASE BotOf[q] \notin perBot[ReplicaOf[q]]
  <2>1. /\ perBot' = [perBot EXCEPT ![ReplicaOf[q]] = @ \cup {BotOf[q]}]
        /\ req' = [req EXCEPT ![q].pc = "slot"] /\ holdSem' = holdSem /\ offSem' = offSem
    BY <1>5 DEF MarkBot
  <2>2. Moved(q, "slot", req[q].cur, req[q].left, req[q].reread, req[q].gone)
    BY <1>1, <2>1, MovesOn DEF Stages
  <2>3. NotMoved(q) /\ req'[q].pc = "slot" /\ req' \in [Requests -> Polling]
    BY <2>2 DEF Moved
  <2>4. MarkBook' /\ OneMark' /\ perBot' \in [Replicas -> SUBSET Bots]
    <3>1. Marked(q)'
      BY <2>3 DEF Marked
    <3> QED
      BY <1>5, <2>1, <2>3, <3>1, OneMoreMarked DEF BooksInv
  <2>5. HoldBook'
    <3>1. \A x \in Requests : Holding(x)' <=> Holding(x)
      BY <1>1, <2>3 DEF NotMoved, Holding
    <3> QED
      BY <2>1, <3>1, StillHeld DEF BooksInv
  <2>6. OffBook'
    <3>1. \A x \in Requests : req'[x].pc = "off" <=> req[x].pc = "off"
      BY <1>1, <2>3 DEF NotMoved
    <3> QED
      BY <2>1, <3>1, StillOff DEF BooksInv
  <2> QED
    BY <1>1, <1>2, <1>3, <2>1, <2>3, <2>4, <2>5, <2>6 DEF HoldStep, HoldTypes
<1> QED
  BY <1>4, <1>5

LEMMA TakeSlotStep ==
  ASSUME BooksInv, world' = world, NEW q \in Requests, TakeSlot(q)
  PROVE  HoldStep(q) /\ UNCHANGED client
<1>1. req[q].pc = "slot" /\ TypeOK /\ HoldTypes /\ Marked(q) /\ ~ Holding(q)
  BY TypeParts DEF TakeSlot, BooksInv, Marked, Holding
<1>2. UNCHANGED client
  BY DEF TakeSlot, Refuse, client
<1>3. ClientTypes'
  BY <1>2, TypeParts DEF BooksInv, ClientTypes, client
<1>4. CASE holdSem[ReplicaOf[q]] < MaxHolds
  <2>1. /\ holdSem' = [holdSem EXCEPT ![ReplicaOf[q]] = @ + 1]
        /\ req' = [req EXCEPT ![q].pc = "top", ![q].left = WaitChunks]
        /\ perBot' = perBot /\ offSem' = offSem
    BY <1>4 DEF TakeSlot
  <2>2. Moved(q, "top", req[q].cur, WaitChunks, req[q].reread, req[q].gone)
    <3>1. WaitChunks \in 0..WaitChunks
      BY Constants
    <3> QED
      BY <1>1, <2>1, <3>1, MovesWithTime DEF Stages
  <2>3. NotMoved(q) /\ req'[q].pc = "top" /\ req' \in [Requests -> Polling]
    BY <2>2 DEF Moved
  <2>4. HoldBook' /\ holdSem' \in [Replicas -> 0..MaxHolds]
    <3>1. Holding(q)'
      BY <2>3 DEF Holding
    <3> QED
      BY <1>1, <1>4, <2>1, <2>3, <3>1, OneMoreHeld DEF BooksInv
  <2>5. MarkBook' /\ OneMark'
    <3>1. \A x \in Requests : Marked(x)' <=> Marked(x)
      BY <1>1, <2>3 DEF NotMoved, Marked, Holding
    <3> QED
      BY <2>1, <3>1, StillMarked DEF BooksInv
  <2>6. OffBook'
    <3>1. \A x \in Requests : req'[x].pc = "off" <=> req[x].pc = "off"
      BY <1>1, <2>3 DEF NotMoved
    <3> QED
      BY <2>1, <3>1, StillOff DEF BooksInv
  <2> QED
    BY <1>1, <1>2, <1>3, <2>1, <2>3, <2>4, <2>5, <2>6 DEF HoldStep, HoldTypes
<1>5. CASE ~ (holdSem[ReplicaOf[q]] < MaxHolds)
  <2>1. Refuse(q) /\ perBot' = [perBot EXCEPT ![ReplicaOf[q]] = perBot[ReplicaOf[q]] \ {BotOf[q]}]
    BY <1>5 DEF TakeSlot, MarkTakenBack
  <2>2. /\ \/ Moved(q, "off", req[q].cur, req[q].left, req[q].reread, req[q].gone)
           \/ Moved(q, "idle", 0, 0, FALSE, FALSE)
        /\ HoldBook' /\ OffBook' /\ holdSem' = holdSem /\ offSem' \in [Replicas -> 0..HoldOffs]
    BY <1>1, <2>1, RefuseBooks
  <2>3. /\ NotMoved(q) /\ ~ Marked(q)' /\ req' \in [Requests -> Polling]
        /\ req'[q].pc # "block"
    BY <2>2 DEF Moved, Marked, Holding
  <2>4. MarkBook' /\ OneMark' /\ perBot' \in [Replicas -> SUBSET Bots]
    BY <1>1, <2>1, <2>3, OneLessMarked DEF BooksInv
  <2> QED
    BY <1>1, <1>2, <1>3, <2>2, <2>3, <2>4 DEF HoldStep, HoldTypes
<1> QED
  BY <1>4, <1>5

LEMMA LoopTopStep ==
  ASSUME BooksInv, world' = world, NEW q \in Requests, LoopTop(q)
  PROVE  HoldStep(q)
<1>1. req[q].pc = "top" /\ TypeOK
  BY DEF LoopTop, BooksInv
<1>2. CASE HoldOver(q)
  BY <1>1, <1>2, RespondStep DEF LoopTop
<1>3. CASE ~ HoldOver(q)
  <2> DEFINE pc == IF req[q].reread THEN "read" ELSE "block"
  <2>1. /\ req' = [req EXCEPT ![q].pc = pc, ![q].reread = FALSE]
        /\ UNCHANGED <<holdVars, client>> /\ pc \in {"read", "block"}
    BY <1>3 DEF LoopTop
  <2> HIDE DEF pc
  <2>2. Moved(q, pc, req[q].cur, req[q].left, FALSE, req[q].gone)
    BY <1>1, <2>1, MovesWithReread DEF Stages
  <2>3. req[q].left > 0
    BY <1>1, <1>3, RequestFields, Constants DEF HoldOver
  <2> QED
    BY <1>1, <2>1, <2>2, <2>3, SameKindStep DEF Holding
<1> QED
  BY <1>2, <1>3

\* The block ends: a token, a chunk over, a failure.
LEMMA BlockStep ==
  ASSUME BooksInv, world' = world, NEW q \in Requests,
         Wake(q) \/ ChunkOver(q) \/ BlockFails(q)
  PROVE  HoldStep(q)
<1>1. /\ req[q].pc = "block" /\ TypeOK /\ req[q].left \in 0..WaitChunks /\ WaitChunks \in Nat
      /\ req[q].left > 0
  BY RequestFields, Constants DEF Wake, ChunkOver, BlockFails, BooksInv, Blocked
<1>2. CASE Wake(q)
  <2>1. Moved(q, "read", req[q].cur, req[q].left, req[q].reread, req[q].gone)
    BY <1>1, <1>2, MovesOn DEF Wake, Stages
  <2> QED
    BY <1>1, <1>2, <2>1, SameKindStep DEF Wake, Holding
<1>3. CASE /\ req' = [req EXCEPT ![q].pc = "read", ![q].left = @ - 1]
           /\ UNCHANGED <<holdVars, client>>
  <2>1. req[q].left - 1 \in 0..WaitChunks
    BY <1>1, <1>3
  <2>2. req' = [req EXCEPT ![q].pc = "read", ![q].left = req[q].left - 1]
    BY <1>3
  <2>3. Moved(q, "read", req[q].cur, req[q].left - 1, req[q].reread, req[q].gone)
    BY <1>1, <2>1, <2>2, MovesWithTime DEF Stages
  <2> QED
    BY <1>1, <1>3, <2>3, SameKindStep DEF Holding
<1>4. CASE Respond(q, {})
  BY <1>1, <1>4, RespondStep
<1> QED
  BY <1>2, <1>3, <1>4 DEF ChunkOver, BlockFails

LEMMA ReadAgainStep ==
  ASSUME BooksInv, world' = world, NEW q \in Requests, ReadAgain(q)
  PROVE  HoldStep(q)
<1> DEFINE page == Members(BotOf[q], req[q].cur)
<1>1. req[q].pc = "read" /\ Visible(page) \subseteq Ids
  BY PageOfRequest DEF ReadAgain, BooksInv
<1>2. CASE Respond(q, Visible(page)) \/ Respond(q, {})
  BY <1>1, <1>2, RespondStep
<1>3. CASE /\ req' = [req EXCEPT ![q].pc = "top", ![q].cur = PageCursor(page, req[q].cur),
                                 ![q].reread = Reread(page, req[q].cur)]
           /\ UNCHANGED <<holdVars, client>>
  <2>1. Moved(q, "top", PageCursor(page, req[q].cur), req[q].left, Reread(page, req[q].cur),
              req[q].gone)
    BY <1>3, PassPage DEF Stages
  <2> QED
    BY <1>1, <1>3, <2>1, SameKindStep DEF Holding
<1> QED
  BY <1>2, <1>3 DEF ReadAgain

LEMMA HangUpStep ==
  ASSUME BooksInv, world' = world, NEW q \in Requests, HangUp(q)
  PROVE  HoldStep(q)
<1>1. Moved(q, req[q].pc, req[q].cur, req[q].left, req[q].reread, TRUE)
  BY MovesAway DEF HangUp, BooksInv
<1>2. UNCHANGED <<holdVars, client>>
  BY DEF HangUp
<1>3. req[q].pc = "block" => req[q].left > 0 /\ ~ req[q].reread
  BY DEF BooksInv, Blocked
<1>4. req[q].pc \in {"top", "block", "read"} <=> Holding(q)
  BY DEF Holding
<1> QED
  BY <1>1, <1>2, <1>3, <1>4, SameKindStep, Zenon

LEMMA RequestBooks ==
  ASSUME BooksInv, world' = world, NEW q \in Requests,
         Poll(q) \/ Handle(q) \/ BlockFails(q) \/ ReadFails(q) \/ HangUp(q)
  PROVE  BooksInv'
<1>1. HoldStep(q)
  <2>1. CASE Poll(q)
    BY <2>1, PollStep
  <2>2. CASE Entry(q)
    BY <2>2, EntryStep
  <2>3. CASE MarkBot(q)
    BY <2>3, MarkBotStep
  <2>4. CASE TakeSlot(q)
    BY <2>4, TakeSlotStep
  <2>5. CASE HoldOffOver(q) \/ ReadFails(q)
    <3>1. Respond(q, {}) /\ req[q].pc # "slot"
      BY <2>5 DEF HoldOffOver, ReadFails
    <3> QED
      BY <3>1, RespondStep
  <2>6. CASE LoopTop(q)
    BY <2>6, LoopTopStep
  <2>7. CASE Wake(q) \/ ChunkOver(q) \/ BlockFails(q)
    BY <2>7, BlockStep
  <2>8. CASE ReadAgain(q)
    BY <2>8, ReadAgainStep
  <2>9. CASE HangUp(q)
    BY <2>9, HangUpStep
  <2> QED
    BY <2>1, <2>2, <2>3, <2>4, <2>5, <2>6, <2>7, <2>8, <2>9 DEF Handle
<1>2. FeedTypes /\ BellTypes /\ world \in Worlds /\ faults \in 0..MaxFaults /\ MaxFaults \in Nat
      /\ BotOf[q] \in Bots
  BY TypeParts, Constants, WorldFields DEF BooksInv
<1>3. issued' = issued /\ prod' = prod
  BY DEF Poll, Handle, Entry, MarkBot, TakeSlot, HoldOffOver, LoopTop, Wake, ChunkOver, ReadAgain,
         BlockFails, ReadFails, HangUp
<1>4. queue' \in [Bots -> SUBSET Ids]
  <2>1. CASE queue' = queue
    BY <1>2, <2>1 DEF FeedTypes
  <2>2. CASE AutoAck(BotOf[q], Members(BotOf[q], req[q].cur))
    BY <1>2, <2>2, AckedQueue DEF BooksInv
  <2> QED
    BY <2>1, <2>2 DEF Poll, Handle, Entry, MarkBot, TakeSlot, HoldOffOver, LoopTop, Wake, ChunkOver,
         ReadAgain, BlockFails, ReadFails, HangUp
<1>5. BellTypes'
  <2>1. CASE Wake(q)
    BY <1>2, <2>1 DEF Wake, BellTypes
  <2>2. CASE UNCHANGED bellVars
    BY <1>2, <2>2 DEF bellVars, BellTypes
  <2> QED
    BY <2>1, <2>2 DEF Poll, Handle, Entry, MarkBot, TakeSlot, HoldOffOver, LoopTop, ChunkOver,
         ReadAgain, BlockFails, ReadFails, HangUp
<1>6. faults' \in 0..MaxFaults
  <2>1. CASE faults' = faults
    BY <1>2, <2>1
  <2>2. CASE faults < MaxFaults /\ faults' = faults + 1
    BY <1>2, <2>2
  <2> QED
    BY <2>1, <2>2 DEF Poll, Handle, Entry, MarkBot, TakeSlot, HoldOffOver, LoopTop, Wake, ChunkOver,
         ReadAgain, BlockFails, ReadFails, HangUp
<1>7. TypeOK'
  BY <1>1, <1>2, <1>3, <1>4, <1>5, <1>6, TypePartsNext DEF HoldStep, FeedTypes
<1>8. Blocked'
  BY <1>1 DEF HoldStep, NotMoved, Blocked, BooksInv
<1> QED
  BY <1>1, <1>7, <1>8 DEF HoldStep, BooksInv

\* The books hold initially and along every step.
LEMMA BooksInit ==
  ASSUME Init
  PROVE  BooksInv
<1>1. TypeOK
  <2>1. NoReq \in Polling /\ NoProd \in Publishing /\ Free \in Duties
    BY Constants DEF NoReq, Polling, Publishing, Duties
  <2> QED
    BY <2>1, Constants DEF Init, TypeOK
<1>2. \A q \in Requests : ~ Holding(q) /\ ~ Marked(q) /\ req[q].pc = "idle"
  BY DEF Init, Holding, Marked, NoReq
<1>3. \A r : HeldAt(r) = {} /\ OffAt(r) = {} /\ BotsAt(r) = {}
  BY <1>2 DEF HeldAt, OffAt, BotsAt
<1>4. HoldBook /\ OffBook /\ MarkBook
  BY <1>3, FS_EmptySet DEF Init, HoldBook, OffBook, MarkBook
<1>5. OneMark /\ Blocked
  BY <1>2 DEF OneMark, Blocked
<1> QED
  BY <1>1, <1>4, <1>5 DEF BooksInv

LEMMA BooksNext ==
  ASSUME BooksInv, [Next]_<<vars, world>>
  PROVE  BooksInv'
<1>1. CASE Next
  <2>1. world' = world /\ Step
    BY <1>1 DEF Next
  <2> QED
    BY <2>1, FeedBooks, BellBooks, RequestBooks, RemovalBooks DEF Step
<1>2. CASE UNCHANGED <<vars, world>>
  <2>1. /\ world' = world /\ req' = req /\ faults' = faults /\ queue' = queue /\ issued' = issued
        /\ prod' = prod /\ UNCHANGED holdVars /\ UNCHANGED bellVars /\ UNCHANGED client
    BY <1>2 DEF vars
  <2>2. HoldBook' /\ OffBook' /\ MarkBook' /\ OneMark' /\ HoldTypes' /\ Blocked'
    BY <2>1, QuietBooks
  <2>3. FeedTypes' /\ BellTypes' /\ ClientTypes'
    BY <2>1, TypeParts DEF BooksInv, FeedTypes, BellTypes, ClientTypes, bellVars, client
  <2>4. TypeOK'
    BY <2>1, <2>2, <2>3, TypeParts, TypePartsNext DEF BooksInv
  <2> QED
    BY <2>2, <2>4 DEF BooksInv
<1> QED
  BY <1>1, <1>2

-----------------------------------------------------------------------------
(* No cursor passes an unseen event. *)

Writing(p) == prod[p].pc = "zadd"

\* Ids are given out once, and what a queue holds is behind the ids still to be published.
QueueInOrder ==
    /\ \A x, y \in Producers :
          Writing(x) /\ Writing(y) /\ Target[x] = Target[y] /\ prod[x].id = prod[y].id => x = y
    /\ \A p \in Producers : Writing(p) => prod[p].id <= issued[Target[p]]
    /\ \A b \in Bots : \A i \in queue[b] : i <= issued[b]
    /\ \A p \in Producers : Writing(p) => \A i \in queue[Target[p]] : i < prod[p].id

\* A cursor that b's client or a request may stand at: no event will be published behind
\* it, and the client has every visible event behind it.
Safe(b, c) ==
    /\ c <= issued[b]
    /\ \A p \in Producers : Writing(p) /\ Target[p] = b => c < prod[p].id
    /\ \A i \in queue[b] : Kind[i] = "dm" /\ i <= c => i \in got[b]

SeenInv == /\ QueueInOrder
           /\ \A b \in Bots : Safe(b, cursor[b])
           /\ \A q \in Requests : Safe(BotOf[q], req[q].cur)

\* A step that neither allocates nor publishes and takes nothing from a client.
NoWrites ==
    /\ world' = world /\ issued' = issued
    /\ \A p \in Producers : Writing(p)' => Writing(p) /\ prod'[p].id = prod[p].id
    /\ \A b \in Bots : queue'[b] \subseteq queue[b] /\ got[b] \subseteq got'[b]

LEMMA SeenRange ==
  ASSUME TypeOK
  PROVE  /\ \A b \in Bots : cursor[b] \in Nat /\ issued[b] \in Nat
         /\ \A b \in Bots : \A i \in queue[b] : i \in Nat \ {0} /\ i \in Ids
         /\ \A q \in Requests : req[q].cur \in Nat /\ req[q].cur \in 0..MaxId /\ BotOf[q] \in Bots
         /\ \A p \in Producers : Target[p] \in Bots /\ (Writing(p) => prod[p].id \in Nat \ {0})
<1>1. /\ queue \in [Bots -> SUBSET Ids] /\ issued \in [Bots -> 0..MaxId]
      /\ cursor \in [Bots -> 0..MaxId] /\ prod \in [Producers -> Publishing] /\ MaxId \in Nat
  BY Constants DEF TypeOK
<1>2. \A q \in Requests : req[q].cur \in Nat /\ req[q].cur \in 0..MaxId /\ BotOf[q] \in Bots
  BY <1>1, RequestFields, WorldFields
<1>3. \A p \in Producers : Target[p] \in Bots /\ (Writing(p) => prod[p].id \in Nat \ {0})
  BY <1>1, Constants DEF Publishing, NoProd, Writing
<1>4. \A b \in Bots : \A i \in queue[b] : i \in Nat \ {0} /\ i \in Ids
  BY <1>1 DEF Ids
<1>5. \A b \in Bots : cursor[b] \in Nat /\ issued[b] \in Nat
  BY <1>1
<1> QED
  BY <1>2, <1>3, <1>4, <1>5

\* The start of every queue is a safe place.
LEMMA StartIsSafe ==
  ASSUME TypeOK, NEW b \in Bots
  PROVE  Safe(b, 0)
<1>1. 0 <= issued[b] /\ \A i \in queue[b] : ~ (i <= 0)
  BY SeenRange
<1>2. \A p \in Producers : Writing(p) => 0 < prod[p].id
  BY SeenRange
<1> QED
  BY <1>1, <1>2 DEF Safe

\* A safe place stays safe.
LEMMA StaysSafe ==
  ASSUME NoWrites, NEW b \in Bots, NEW c, Safe(b, c)
  PROVE  Safe(b, c)'
<1>1. Kind' = Kind
  BY DEF NoWrites, Kind
<1> QED
  BY <1>1 DEF NoWrites, Safe

LEMMA StaysInOrder ==
  ASSUME NoWrites, QueueInOrder, Target \in [Producers -> Bots]
  PROVE  QueueInOrder'
<1>1. \A x, y \in Producers :
         Writing(x)' /\ Writing(y)' /\ Target[x] = Target[y] /\ prod'[x].id = prod'[y].id => x = y
  BY DEF NoWrites, QueueInOrder
<1>2. \A p \in Producers : Writing(p)' => prod'[p].id <= issued'[Target[p]]
  BY DEF NoWrites, QueueInOrder
<1>3. \A b \in Bots : \A i \in queue'[b] : i <= issued'[b]
  BY DEF NoWrites, QueueInOrder
<1>4. \A p \in Producers : Writing(p)' => \A i \in queue'[Target[p]] : i < prod'[p].id
  BY DEF NoWrites, QueueInOrder
<1> QED
  BY <1>1, <1>2, <1>3, <1>4 DEF QueueInOrder

\* A step that moves cursors to safe places only.
LEMMA SafeMoves ==
  ASSUME TypeOK, SeenInv, NoWrites,
         \A b \in Bots, c \in Nat : c = cursor'[b] => c = cursor[b] \/ Safe(b, c)',
         \A b \in Bots : cursor'[b] \in Nat,
         \A q \in Requests : Safe(BotOf[q], req'[q].cur)
  PROVE  SeenInv'
<1>1. QueueInOrder'
  BY StaysInOrder, Constants DEF SeenInv
<1>2. ASSUME NEW b \in Bots PROVE Safe(b, cursor[b])'
  <2>1. PICK c \in Nat : c = cursor'[b]
    OBVIOUS
  <2>2. Safe(b, c)'
    <3>1. c = cursor[b] => Safe(b, c)
      BY DEF SeenInv
    <3> QED
      BY <2>1, <3>1, StaysSafe
  <2> QED
    BY <2>1, <2>2 DEF Safe
<1>3. ASSUME NEW q \in Requests PROVE Safe(BotOf[q], req[q].cur)'
  <2>1. PICK b \in Bots : b = BotOf[q]
    BY SeenRange
  <2>2. PICK c : c = req'[q].cur
    OBVIOUS
  <2>3. Safe(b, c)'
    BY <2>1, <2>2, StaysSafe
  <2>4. BotOf' = BotOf
    BY DEF NoWrites, BotOf
  <2> QED
    BY <2>1, <2>2, <2>3, <2>4 DEF Safe
<1> QED
  BY <1>1, <1>2, <1>3 DEF SeenInv

\* A page without a visible event may be passed.
LEMMA PassedPageIsSafe ==
  ASSUME TypeOK, QueueInOrder, NEW b \in Bots, NEW cur \in 0..MaxId, Safe(b, cur),
         Visible(Members(b, cur)) = {}
  PROVE  Safe(b, PageCursor(Members(b, cur), cur))
<1> DEFINE page == Members(b, cur)
<1>1. PICK c : c = PageCursor(page, cur)
  OBVIOUS
<1>2. page \subseteq queue[b] /\ page \subseteq Ids
  BY PagePrefix
<1>3. c \in 0..MaxId /\ c >= cur /\ (c = cur \/ c \in page)
  BY <1>1, <1>2, PageCursorPlace
<1>4. CASE c = cur
  BY <1>1, <1>4
<1>5. CASE c \in page
  <2>1. c \in queue[b]
    BY <1>2, <1>5
  <2>2. c <= issued[b] /\ \A p \in Producers : Writing(p) /\ Target[p] = b => c < prod[p].id
    BY <2>1 DEF QueueInOrder
  <2>3. ASSUME NEW i \in queue[b], Kind[i] = "dm", i <= c
        PROVE  i \in got[b]
    <3>1. CASE i <= cur
      BY <2>3, <3>1 DEF Safe
    <3>2. CASE cur < i
      <4>1. i \in page
        BY <1>5, <2>3, <3>2, PagePrefix
      <4>2. i \in Visible(page)
        BY <2>3, <4>1 DEF Visible
      <4> QED
        BY <4>2
    <3> QED
      BY <3>1, <3>2, SeenRange
  <2>4. Safe(b, c)
    BY <2>2, <2>3 DEF Safe
  <2> QED
    BY <1>1, <2>4
<1> QED
  BY <1>3, <1>4, <1>5

\* The cursor of a client that is given the visible events of a page.
LEMMA GivenPageIsSafe ==
  ASSUME TypeOK, QueueInOrder, NoWrites, NEW b \in Bots, NEW cur \in 0..MaxId, Safe(b, cur),
         Safe(b, cursor[b]), Visible(Members(b, cur)) \subseteq got'[b],
         NEW c \in Nat, c = Max({cursor[b]} \cup Visible(Members(b, cur)))
  PROVE  Safe(b, c)'
<1> DEFINE page == Members(b, cur)
<1>1. page \subseteq queue[b] /\ page \subseteq Ids /\ Visible(page) \subseteq page
  BY PagePrefix DEF Visible
<1>2. c = cursor[b] \/ c \in Visible(page)
  <2>1. Visible(page) \subseteq Ids /\ cursor[b] \in 0..MaxId
    BY <1>1 DEF TypeOK
  <2> QED
    BY <2>1, ClientCursor
<1>3. CASE c = cursor[b]
  BY <1>3, StaysSafe
<1>4. CASE c \in Visible(page)
  <2>1. c \in queue[b] /\ c \in page
    BY <1>1, <1>4
  <2>2. c <= issued[b] /\ \A p \in Producers : Writing(p) /\ Target[p] = b => c < prod[p].id
    BY <2>1 DEF QueueInOrder
  <2>3. ASSUME NEW i \in queue[b], Kind[i] = "dm", i <= c
        PROVE  i \in got'[b]
    <3>1. CASE i <= cur
      BY <2>3, <3>1 DEF Safe, NoWrites
    <3>2. CASE cur < i
      <4>1. i \in page
        BY <2>1, <2>3, <3>2, PagePrefix
      <4>2. i \in Visible(page)
        BY <2>3, <4>1 DEF Visible
      <4> QED
        BY <4>2
    <3> QED
      BY <3>1, <3>2, SeenRange
  <2>4. Kind' = Kind
    BY DEF NoWrites, Kind
  <2> QED
    BY <2>2, <2>3, <2>4 DEF Safe, NoWrites
<1> QED
  BY <1>2, <1>3, <1>4

LEMMA AllocateSeen ==
  ASSUME TypeOK, SeenInv, world' = world, NEW p \in Producers, NextEventID(p)
  PROVE  SeenInv'
<1> DEFINE b == Target[p]
<1>1. /\ queue' = queue /\ req' = req /\ cursor' = cursor /\ got' = got
      /\ BotOf' = BotOf /\ Kind' = Kind
  BY DEF NextEventID, client, BotOf, Kind
<1>2. /\ b \in Bots /\ issued[b] \in Nat /\ issued'[b] = issued[b] + 1
      /\ \A c \in Bots \ {b} : issued'[c] = issued[c]
      /\ \A c \in Bots : issued[c] \in Nat /\ issued[c] <= issued'[c]
  <2>1. issued \in [Bots -> 0..MaxId] /\ b \in Bots /\ MaxId \in Nat
    BY Constants DEF TypeOK
  <2> QED
    BY <2>1 DEF NextEventID
<1>3. /\ ~ Writing(p) /\ Writing(p)' /\ prod'[p].id = issued[b] + 1
      /\ \A x \in Producers \ {p} : prod'[x] = prod[x]
  <2>1. prod \in [Producers -> Publishing]
    BY DEF TypeOK
  <2> QED
    BY <2>1 DEF NextEventID, Writing
<1>4. \A x \in Producers \ {p} : Writing(x)' <=> Writing(x)
  BY <1>3 DEF Writing
<1>5. QueueInOrder'
  <2>1. ASSUME NEW x \in Producers, NEW y \in Producers, Writing(x)', Writing(y)',
               Target[x] = Target[y], prod'[x].id = prod'[y].id, x # y
        PROVE  FALSE
    <3>1. \A z \in Producers : Writing(z) => prod[z].id <= issued[Target[z]] /\ prod[z].id \in Nat
      BY SeenRange DEF SeenInv, QueueInOrder
    <3>2. CASE x = p
      <4>1. Writing(y) /\ prod[y].id <= issued[b] /\ prod[y].id = issued[b] + 1 /\ prod[y].id \in Nat
        BY <1>3, <1>4, <2>1, <3>1, <3>2
      <4> QED
        BY <1>2, <4>1
    <3>3. CASE y = p
      <4>1. Writing(x) /\ prod[x].id <= issued[b] /\ prod[x].id = issued[b] + 1 /\ prod[x].id \in Nat
        BY <1>3, <1>4, <2>1, <3>1, <3>3
      <4> QED
        BY <1>2, <4>1
    <3>4. CASE x # p /\ y # p
      BY <1>3, <1>4, <2>1, <3>4 DEF SeenInv, QueueInOrder
    <3> QED
      BY <3>2, <3>3, <3>4
  <2>2. ASSUME NEW x \in Producers, Writing(x)'
        PROVE  prod'[x].id <= issued'[Target[x]]
    <3>1. CASE x = p
      BY <1>2, <1>3, <3>1
    <3>2. CASE x # p
      <4>1. /\ prod[x].id <= issued[Target[x]] /\ prod[x].id \in Nat /\ prod'[x] = prod[x]
            /\ Target[x] \in Bots
        BY <1>3, <1>4, <2>2, <3>2, SeenRange DEF SeenInv, QueueInOrder
      <4> QED
        BY <1>2, <4>1
    <3> QED
      BY <3>1, <3>2
  <2>3. ASSUME NEW c \in Bots, NEW i \in queue'[c]
        PROVE  i <= issued'[c]
    <3>1. i <= issued[c] /\ i \in Nat
      BY <1>1, <2>3, SeenRange DEF SeenInv, QueueInOrder
    <3> QED
      BY <1>2, <3>1
  <2>4. ASSUME NEW x \in Producers, Writing(x)', NEW i \in queue'[Target[x]]
        PROVE  i < prod'[x].id
    <3>1. CASE x = p
      <4>1. i <= issued[b] /\ i \in Nat
        BY <1>1, <1>2, <2>4, <3>1, SeenRange DEF SeenInv, QueueInOrder
      <4> QED
        BY <1>2, <1>3, <3>1, <4>1
    <3>2. CASE x # p
      BY <1>1, <1>3, <1>4, <2>4, <3>2 DEF SeenInv, QueueInOrder
    <3> QED
      BY <3>1, <3>2
  <2> QED
    BY <2>1, <2>2, <2>3, <2>4 DEF QueueInOrder
<1>6. ASSUME NEW c \in Bots, NEW n \in Nat, Safe(c, n)
      PROVE  Safe(c, n)'
  <2>1. n <= issued[c] /\ n <= issued'[c]
    <3>1. n <= issued[c]
      BY <1>6 DEF Safe
    <3> QED
      BY <1>2, <3>1
  <2>2. ASSUME NEW x \in Producers, Writing(x)', Target[x] = c
        PROVE  n < prod'[x].id
    <3>1. CASE x = p
      BY <1>2, <1>3, <2>1, <2>2, <3>1
    <3>2. CASE x # p
      BY <1>3, <1>4, <1>6, <2>2, <3>2 DEF Safe
    <3> QED
      BY <3>1, <3>2
  <2>3. \A i \in queue'[c] : Kind'[i] = "dm" /\ i <= n => i \in got'[c]
    BY <1>1, <1>6 DEF Safe
  <2> QED
    BY <2>1, <2>2, <2>3 DEF Safe
<1> QED
  BY <1>1, <1>5, <1>6, SeenRange DEF SeenInv

\* Where InOrder counts: an event is published ahead of everything that is in its queue and
\* of every cursor, and behind the ids that are still to come.
LEMMA PublishSeen ==
  ASSUME InOrder, TypeOK, SeenInv, world' = world, NEW p \in Producers, ZAdd(p)
  PROVE  SeenInv'
<1> DEFINE b == Target[p]
           n == prod[p].id
<1>1. /\ issued' = issued /\ req' = req /\ cursor' = cursor /\ got' = got
      /\ BotOf' = BotOf /\ Kind' = Kind
  BY DEF ZAdd, client, BotOf, Kind
<1>2. b \in Bots /\ Writing(p) /\ n \in Nat \ {0} /\ n <= issued[b]
  BY SeenRange DEF ZAdd, Writing, SeenInv, QueueInOrder
<1>3. queue'[b] = queue[b] \cup {n} /\ \A c \in Bots \ {b} : queue'[c] = queue[c]
  BY <1>2 DEF ZAdd, TypeOK
<1>4. /\ ~ Writing(p)' /\ \A x \in Producers \ {p} : prod'[x] = prod[x]
      /\ \A x \in Producers : Writing(x)' => x # p /\ Writing(x) /\ prod'[x] = prod[x]
  <2>1. prod \in [Producers -> Publishing] /\ prod[p] \in Publishing
    BY DEF TypeOK
  <2>2. prod'[p].pc = "notify" /\ \A x \in Producers \ {p} : prod'[x] = prod[x]
    BY <2>1, <1>2 DEF ZAdd, Publishing, NoProd, Writing
  <2> QED
    BY <2>2 DEF Writing
<1>5. ASSUME NEW x \in Producers, Writing(x)', Target[x] = b
      PROVE  n < prod[x].id
  <2>1. x # p /\ Writing(x) /\ n <= prod[x].id
    BY <1>4, <1>5 DEF ZAdd, Writing
  <2>2. n # prod[x].id
    BY <1>2, <1>5, <2>1 DEF SeenInv, QueueInOrder
  <2> QED
    BY <1>2, <2>1, <2>2, SeenRange
<1>6. QueueInOrder'
  <2>1. \A x, y \in Producers :
           Writing(x)' /\ Writing(y)' /\ Target[x] = Target[y] /\ prod'[x].id = prod'[y].id => x = y
    BY <1>4 DEF SeenInv, QueueInOrder
  <2>2. \A x \in Producers : Writing(x)' => prod'[x].id <= issued'[Target[x]]
    BY <1>1, <1>4 DEF SeenInv, QueueInOrder
  <2>3. \A c \in Bots : \A i \in queue'[c] : i <= issued'[c]
    BY <1>1, <1>2, <1>3 DEF SeenInv, QueueInOrder
  <2>4. ASSUME NEW x \in Producers, Writing(x)', NEW i \in queue'[Target[x]]
        PROVE  i < prod'[x].id
    <3>1. Target[x] \in Bots /\ Writing(x) /\ prod'[x] = prod[x]
      BY <1>4, <2>4, SeenRange
    <3>2. CASE Target[x] = b /\ i = n
      BY <1>5, <2>4, <3>1, <3>2
    <3>3. CASE i \in queue[Target[x]]
      BY <3>1, <3>3 DEF SeenInv, QueueInOrder
    <3> QED
      BY <1>3, <2>4, <3>1, <3>2, <3>3
  <2> QED
    BY <2>1, <2>2, <2>3, <2>4 DEF QueueInOrder
<1>7. ASSUME NEW c \in Bots, NEW m \in Nat, Safe(c, m)
      PROVE  Safe(c, m)'
  <2>1. m <= issued'[c] /\ \A x \in Producers : Writing(x)' /\ Target[x] = c => m < prod'[x].id
    BY <1>1, <1>4, <1>7 DEF Safe
  <2>2. ASSUME NEW i \in queue'[c], Kind[i] = "dm", i <= m
        PROVE  i \in got[c]
    <3>1. CASE c = b /\ i = n
      <4>1. m < n
        BY <1>2, <1>7, <3>1 DEF Safe
      <4> QED
        BY <1>2, <2>2, <3>1, <4>1
    <3>2. CASE i \in queue[c]
      BY <1>7, <2>2, <3>2 DEF Safe
    <3> QED
      BY <1>3, <2>2, <3>1, <3>2
  <2> QED
    BY <1>1, <2>1, <2>2 DEF Safe
<1> QED
  BY <1>1, <1>6, <1>7, SeenRange DEF SeenInv

\* Steps that leave cursors and queues alone.
LEMMA NothingReadSeen ==
  ASSUME TypeOK, SeenInv, NoWrites, UNCHANGED client,
         \A q \in Requests : req'[q].cur \in {req[q].cur, cursor[BotOf[q]], 0}
  PROVE  SeenInv'
<1>1. cursor' = cursor
  BY DEF client
<1>2. ASSUME NEW q \in Requests PROVE Safe(BotOf[q], req'[q].cur)
  <2>1. BotOf[q] \in Bots
    BY SeenRange
  <2>2. CASE req'[q].cur = req[q].cur
    BY <2>2 DEF SeenInv
  <2>3. CASE req'[q].cur = cursor[BotOf[q]]
    BY <2>1, <2>3 DEF SeenInv
  <2>4. CASE req'[q].cur = 0
    BY <2>1, <2>4, StartIsSafe
  <2> QED
    BY <2>2, <2>3, <2>4
<1> QED
  BY <1>1, <1>2, SafeMoves, SeenRange

LEMMA FeedSeen ==
  ASSUME InOrder, BooksInv, SeenInv, world' = world, NEW p \in Producers,
         NextEventID(p) \/ Produce(p) \/ ZAddFails(p)
  PROVE  SeenInv'
<1>1. TypeOK
  BY DEF BooksInv
<1>2. CASE NextEventID(p)
  BY <1>1, <1>2, AllocateSeen
<1>3. CASE ZAdd(p)
  BY <1>1, <1>3, PublishSeen
<1>4. CASE Notify(p) \/ Enqueue(p) \/ ZAddFails(p)
  <2>1. /\ issued' = issued /\ queue' = queue /\ UNCHANGED client /\ req' = req
    BY <1>4 DEF Notify, Enqueue, ZAddFails
  <2>2. \A x \in Producers : Writing(x)' => Writing(x) /\ prod'[x].id = prod[x].id
    <3>1. prod \in [Producers -> Publishing]
      BY <1>1 DEF TypeOK
    <3>2. ~ Writing(p)' /\ \A x \in Producers \ {p} : prod'[x] = prod[x]
      BY <1>4, <3>1 DEF Notify, Enqueue, ZAddFails, Writing, NoProd, Publishing
    <3> QED
      BY <3>2 DEF Writing
  <2>3. NoWrites
    BY <2>1, <2>2 DEF NoWrites, client
  <2> QED
    BY <1>1, <2>1, <2>3, NothingReadSeen
<1> QED
  BY <1>2, <1>3, <1>4 DEF Produce

LEMMA BellSeen ==
  ASSUME BooksInv, SeenInv, world' = world,
         \/ \E r \in Replicas, w \in RingWorkers :
               (\E b \in Bots : TakeRing(r, w, b)) \/ ClearMark(r, w) \/ Ring(r, w) \/ RingFails(r, w)
         \/ \E b \in Bots, i \in Ids : EventAck(b, i)
         \/ \E b \in Bots : BellExpires(b)
  PROVE  SeenInv'
<1>1. TypeOK
  BY DEF BooksInv
<1>2. issued' = issued /\ prod' = prod /\ UNCHANGED client /\ req' = req
  BY DEF TakeRing, ClearMark, Ring, RingFails, EventAck, BellExpires
<1>3. \A b \in Bots : queue'[b] \subseteq queue[b]
  <2>1. CASE queue' = queue
    BY <2>1
  <2>2. CASE \E b \in Bots, i \in Ids : EventAck(b, i)
    BY <1>1, <2>2 DEF EventAck, TypeOK
  <2> QED
    BY <2>1, <2>2 DEF TakeRing, ClearMark, Ring, RingFails, BellExpires
<1>4. NoWrites
  BY <1>2, <1>3 DEF NoWrites, Writing, client
<1> QED
  BY <1>1, <1>2, <1>4, NothingReadSeen

\* A response that gives the client nothing new, or the visible events of a page.
LEMMA RespondSeen ==
  ASSUME BooksInv, SeenInv, world' = world, NEW q \in Requests, req[q].pc # "slot",
         NEW events, events \in {{}, Visible(Members(BotOf[q], req[q].cur))}, Respond(q, events),
         issued' = issued, prod' = prod, \A b \in Bots : queue'[b] \subseteq queue[b]
  PROVE  SeenInv'
<1> DEFINE b == BotOf[q]
           page == Members(b, req[q].cur)
<1>1. TypeOK /\ b \in Bots /\ req[q].cur \in 0..MaxId /\ cursor[b] \in 0..MaxId
      /\ cursor \in [Bots -> 0..MaxId] /\ got \in [Bots -> SUBSET Ids]
  BY WorldFields, RequestFields DEF BooksInv, TypeOK
<1>2. events \subseteq Ids
  BY <1>1, PageOfRequest
<1>3. Moved(q, "idle", 0, 0, FALSE, FALSE) /\ ClientTypes'
  BY <1>2, RespondBooks
<1>4. \/ cursor' = cursor /\ got' = got
      \/ /\ cursor' = [cursor EXCEPT ![b] = Max({cursor[b]} \cup events)]
         /\ got' = [got EXCEPT ![b] = got[b] \cup events]
  BY DEF Respond, client
<1>5. NoWrites
  <2>1. \A c \in Bots : got[c] \subseteq got'[c]
    BY <1>1, <1>4
  <2> QED
    BY <2>1 DEF NoWrites, Writing
<1>6. ASSUME NEW x \in Requests PROVE Safe(BotOf[x], req'[x].cur)
  <2>1. CASE x = q
    BY <1>1, <1>3, <2>1, StartIsSafe DEF Moved
  <2>2. CASE x # q
    BY <1>3, <2>2 DEF Moved, NotMoved, SeenInv
  <2> QED
    BY <2>1, <2>2
<1>7. ASSUME NEW c \in Bots, NEW n \in Nat, n = cursor'[c]
      PROVE  n = cursor[c] \/ Safe(c, n)'
  <2>1. CASE c # b \/ cursor' = cursor
    BY <1>1, <1>4, <1>7, <2>1
  <2>2. CASE c = b /\ cursor' # cursor
    <3>1. n = Max({cursor[b]} \cup events) /\ got'[b] = got[b] \cup events
      BY <1>1, <1>4, <1>7, <2>2
    <3>2. CASE events = {}
      <4>1. \/ Max({cursor[b]} \cup events) = cursor[b]
            \/ Max({cursor[b]} \cup events) \in events
        BY <1>1, <1>2, ClientCursor, Zenon
      <4> QED
        BY <2>2, <3>1, <3>2, <4>1, Zenon
    <3>3. CASE events = Visible(page)
      <4>1. PICK cur \in 0..MaxId : cur = req[q].cur
        BY <1>1
      <4>2. QueueInOrder /\ Safe(c, cur) /\ Safe(c, cursor[c])
        BY <1>1, <2>2, <4>1 DEF SeenInv
      <4>3. events = Visible(Members(c, cur))
        BY <2>2, <3>3, <4>1
      <4>4. Visible(Members(c, cur)) \subseteq got'[c]
        BY <2>2, <3>1, <4>3
      <4>5. n = Max({cursor[c]} \cup Visible(Members(c, cur)))
        BY <2>2, <3>1, <4>3
      <4> HIDE DEF b, page
      <4> QED
        BY <1>1, <1>5, <4>2, <4>4, <4>5, GivenPageIsSafe
    <3> QED
      BY <3>2, <3>3
  <2> QED
    BY <2>1, <2>2
<1>8. \A c \in Bots : cursor'[c] \in Nat
  BY <1>3, Constants DEF ClientTypes
<1> QED
  BY <1>1, <1>5, <1>6, <1>7, <1>8, SafeMoves

LEMMA PassSeen ==
  ASSUME BooksInv, SeenInv, world' = world, NEW q \in Requests, NEW pc \in Stages,
         Visible(Members(BotOf[q], req[q].cur)) = {},
         req' = [req EXCEPT ![q].pc = pc,
                            ![q].cur = PageCursor(Members(BotOf[q], req[q].cur), req[q].cur),
                            ![q].reread = Reread(Members(BotOf[q], req[q].cur), req[q].cur)],
         UNCHANGED client, issued' = issued, prod' = prod,
         \A b \in Bots : queue'[b] \subseteq queue[b]
  PROVE  SeenInv'
<1> DEFINE b == BotOf[q]
           page == Members(b, req[q].cur)
<1>1. TypeOK /\ b \in Bots /\ req[q].cur \in 0..MaxId
  BY WorldFields, RequestFields DEF BooksInv
<1>2. Moved(q, pc, PageCursor(page, req[q].cur), req[q].left, Reread(page, req[q].cur), req[q].gone)
  BY PassPage
<1>3. NoWrites
  BY DEF NoWrites, Writing, client
<1>4. ASSUME NEW x \in Requests PROVE Safe(BotOf[x], req'[x].cur)
  <2>1. CASE x = q
    <3>1. Safe(b, PageCursor(page, req[q].cur))
      BY <1>1, PassedPageIsSafe DEF SeenInv
    <3> QED
      BY <1>2, <2>1, <3>1 DEF Moved
  <2>2. CASE x # q
    BY <1>2, <2>2 DEF Moved, NotMoved, SeenInv
  <2> QED
    BY <2>1, <2>2
<1>5. cursor' = cursor
  BY DEF client
<1> QED
  BY <1>1, <1>3, <1>4, <1>5, SafeMoves, SeenRange

LEMMA RequestSeen ==
  ASSUME BooksInv, SeenInv, world' = world, NEW q \in Requests,
         Poll(q) \/ Handle(q) \/ BlockFails(q) \/ ReadFails(q) \/ HangUp(q)
  PROVE  SeenInv'
<1> DEFINE b == BotOf[q]
           page == Members(b, req[q].cur)
<1>1. TypeOK /\ b \in Bots
  BY WorldFields DEF BooksInv
<1>2. issued' = issued /\ prod' = prod
  BY DEF Poll, Handle, Entry, MarkBot, TakeSlot, HoldOffOver, LoopTop, Wake, ChunkOver, ReadAgain,
         BlockFails, ReadFails, HangUp
<1>3. \A c \in Bots : queue'[c] \subseteq queue[c]
  <2>1. CASE queue' = queue
    BY <2>1
  <2>2. CASE AutoAck(b, page)
    BY <1>1, <2>2, AckedQueue
  <2> QED
    BY <2>1, <2>2 DEF Poll, Handle, Entry, MarkBot, TakeSlot, HoldOffOver, LoopTop, Wake, ChunkOver,
         ReadAgain, BlockFails, ReadFails, HangUp
\* Steps that leave the request's cursor, or reset it to its client's.
<1>4. ASSUME UNCHANGED client, NEW pc, NEW cur, NEW left, NEW reread, NEW gone,
             Moved(q, pc, cur, left, reread, gone), cur \in {req[q].cur, cursor[b], 0}
      PROVE  SeenInv'
  <2>1. NoWrites
    BY <1>2, <1>3, <1>4 DEF NoWrites, Writing, client
  <2>2. \A x \in Requests : req'[x].cur \in {req[x].cur, cursor[BotOf[x]], 0}
    BY <1>4 DEF Moved, NotMoved
  <2> QED
    BY <1>1, <1>4, <2>1, <2>2, NothingReadSeen
\* Responses.
<1>5. ASSUME req[q].pc # "slot", Respond(q, {}) \/ Respond(q, Visible(page))
      PROVE  SeenInv'
  BY <1>2, <1>3, <1>5, RespondSeen
<1>6. CASE Poll(q)
  <2>1. UNCHANGED client /\ Moved(q, "entry", cursor[b], 0, FALSE, FALSE)
    BY <1>6, PollStep DEF Poll
  <2> QED
    BY <1>4, <2>1
<1>7. CASE Entry(q)
  <2>1. CASE Respond(q, Visible(page))
    BY <1>5, <1>7, <2>1 DEF Entry
  <2>2. CASE /\ Visible(page) = {} /\ UNCHANGED client
             /\ req' = [req EXCEPT ![q].pc = "mark", ![q].cur = PageCursor(page, req[q].cur),
                                   ![q].reread = Reread(page, req[q].cur)]
    BY <1>2, <1>3, <2>2, PassSeen DEF Stages
  <2> QED
    BY <1>7, <2>1, <2>2 DEF Entry
<1>8. CASE MarkBot(q) \/ TakeSlot(q)
  <2>1. UNCHANGED client
    BY <1>8, MarkBotStep, TakeSlotStep
  <2>2. req[q].pc \in {"mark", "slot"}
    BY <1>8 DEF MarkBot, TakeSlot
  <2>3. CASE Refuse(q)
    <3>1. \/ Moved(q, "off", req[q].cur, req[q].left, req[q].reread, req[q].gone)
          \/ Moved(q, "idle", 0, 0, FALSE, FALSE)
      BY <2>2, <2>3, RefuseBooks
    <3> QED
      BY <1>4, <2>1, <3>1
  <2>4. CASE req' = [req EXCEPT ![q].pc = "slot"]
    <3>1. Moved(q, "slot", req[q].cur, req[q].left, req[q].reread, req[q].gone)
      BY <1>1, <2>4, MovesOn DEF Stages
    <3> QED
      BY <1>4, <2>1, <3>1
  <2>5. CASE req' = [req EXCEPT ![q].pc = "top", ![q].left = WaitChunks]
    <3>1. Moved(q, "top", req[q].cur, WaitChunks, req[q].reread, req[q].gone)
      <4>1. WaitChunks \in 0..WaitChunks
        BY Constants
      <4> QED
        BY <1>1, <2>5, <4>1, MovesWithTime DEF Stages
    <3> QED
      BY <1>4, <2>1, <3>1
  <2> QED
    BY <1>8, <2>3, <2>4, <2>5 DEF MarkBot, TakeSlot
<1>9. CASE HoldOffOver(q) \/ ReadFails(q)
  BY <1>5, <1>9 DEF HoldOffOver, ReadFails
<1>10. CASE LoopTop(q)
  <2>1. CASE HoldOver(q)
    BY <1>5, <1>10, <2>1 DEF LoopTop
  <2>2. CASE ~ HoldOver(q)
    <3> DEFINE pc == IF req[q].reread THEN "read" ELSE "block"
    <3>1. req' = [req EXCEPT ![q].pc = pc, ![q].reread = FALSE] /\ UNCHANGED client
          /\ pc \in Stages
      BY <1>10, <2>2 DEF LoopTop, Stages
    <3> HIDE DEF pc
    <3>2. Moved(q, pc, req[q].cur, req[q].left, FALSE, req[q].gone)
      BY <1>1, <3>1, MovesWithReread
    <3> QED
      BY <1>4, <3>1, <3>2
  <2> QED
    BY <2>1, <2>2
<1>11. CASE Wake(q)
  <2>1. Moved(q, "read", req[q].cur, req[q].left, req[q].reread, req[q].gone) /\ UNCHANGED client
    BY <1>1, <1>11, MovesOn DEF Wake, Stages
  <2> QED
    BY <1>4, <2>1
<1>12. CASE ChunkOver(q) \/ BlockFails(q)
  <2>1. CASE Respond(q, {})
    BY <1>5, <1>12, <2>1 DEF ChunkOver, BlockFails
  <2>2. CASE req' = [req EXCEPT ![q].pc = "read", ![q].left = @ - 1] /\ UNCHANGED client
    <3>1. req[q].left - 1 \in 0..WaitChunks
      <4>1. req[q].left > 0 /\ req[q].left \in 0..WaitChunks /\ WaitChunks \in Nat
        BY <1>1, <1>12, RequestFields, Constants DEF ChunkOver, BlockFails, BooksInv, Blocked
      <4> QED
        BY <4>1
    <3>2. req' = [req EXCEPT ![q].pc = "read", ![q].left = req[q].left - 1]
      BY <2>2
    <3>3. Moved(q, "read", req[q].cur, req[q].left - 1, req[q].reread, req[q].gone)
      BY <1>1, <3>1, <3>2, MovesWithTime DEF Stages
    <3> QED
      BY <1>4, <2>2, <3>3
  <2> QED
    BY <1>12, <2>1, <2>2 DEF ChunkOver, BlockFails
<1>13. CASE ReadAgain(q)
  <2>1. CASE Respond(q, Visible(page)) \/ Respond(q, {})
    BY <1>5, <1>13, <2>1 DEF ReadAgain
  <2>2. CASE /\ Visible(page) = {} /\ UNCHANGED client
             /\ req' = [req EXCEPT ![q].pc = "top", ![q].cur = PageCursor(page, req[q].cur),
                                   ![q].reread = Reread(page, req[q].cur)]
    BY <1>2, <1>3, <2>2, PassSeen DEF Stages
  <2> QED
    BY <1>13, <2>1, <2>2 DEF ReadAgain
<1>14. CASE HangUp(q)
  <2>1. Moved(q, req[q].pc, req[q].cur, req[q].left, req[q].reread, TRUE) /\ UNCHANGED client
    BY <1>1, <1>14, MovesAway DEF HangUp
  <2> QED
    BY <1>4, <2>1
<1> QED
  BY <1>6, <1>7, <1>8, <1>9, <1>10, <1>11, <1>12, <1>13, <1>14 DEF Handle

LEMMA SeenInit ==
  ASSUME Init
  PROVE  SeenInv
<1>1. TypeOK
  BY BooksInit DEF BooksInv
<1>2. QueueInOrder
  BY Constants DEF Init, QueueInOrder, Writing, NoProd
<1>3. \A b \in Bots : Safe(b, 0) /\ cursor[b] = 0
  BY <1>1, StartIsSafe DEF Init
<1>4. \A q \in Requests : req[q].cur = 0 /\ BotOf[q] \in Bots
  BY <1>1, WorldFields DEF Init, NoReq
<1> QED
  BY <1>2, <1>3, <1>4 DEF SeenInv

\* While producers publish in the order of their ids, no client's cursor passes an event
\* that it may see and has not been given (NothingSkipped): the pages, the cursors that
\* requests carry, filtered and undecodable events, acks, hang-ups and second requests of
\* a client notwithstanding.
THEOREM NothingPassed == InOrder => (Spec => []NothingSkipped)
<1> SUFFICES ASSUME InOrder PROVE Spec => []NothingSkipped
  OBVIOUS
<1>1. Init => BooksInv /\ SeenInv
  BY BooksInit, SeenInit
<1>2. BooksInv /\ SeenInv /\ [Next]_<<vars, world>> => BooksInv' /\ SeenInv'
  <2> SUFFICES ASSUME BooksInv, SeenInv, [Next]_<<vars, world>> PROVE BooksInv' /\ SeenInv'
    OBVIOUS
  <2>1. BooksInv'
    BY BooksNext
  <2>2. CASE Next
    <3>1. world' = world /\ Step
      BY <2>2 DEF Next
    <3> QED
      BY <2>1, <3>1, FeedSeen, BellSeen, RequestSeen DEF Step
  <2>3. CASE UNCHANGED <<vars, world>>
    <3>1. NoWrites /\ UNCHANGED client /\ req' = req
      BY <2>3 DEF vars, NoWrites, Writing, client
    <3> QED
      BY <2>1, <3>1, NothingReadSeen DEF BooksInv
  <2> QED
    BY <2>2, <2>3
<1>3. BooksInv /\ SeenInv => NothingSkipped
  <2> SUFFICES ASSUME BooksInv, SeenInv PROVE NothingSkipped
    OBVIOUS
  <2> QED
    BY DEF SeenInv, Safe, NothingSkipped
<1> QED
  BY <1>1, <1>2, <1>3, PTL DEF Spec

-----------------------------------------------------------------------------
(* A parked request is announced what it has not seen. *)

\* A hint of the bot is on its way to a worker of the replica, which will clear the mark.
Queued(r, b) ==
    \/ b \in ringQueue[r]
    \/ \E w \in RingWorkers : worker[r][w] = [pc |-> "taken", bot |-> b]
    \/ \E p \in Producers : Home[p] = r /\ Target[p] = b /\ prod[p].pc = "enqueue"

\* What coalesces a hint is a hint that is still to be rung.
MarkQueued == \A r \in Replicas : \A b \in pending[r] : Queued(r, b)

TargetsAt(r) == {Target[p] : p \in {x \in Producers : Home[x] = r}}
QueueFits == \A r \in Replicas : ringQueue[r] \subseteq TargetsAt(r)

\* From its first read to the end of its hold, but for its own reads.
Waiting == {"mark", "slot", "top", "block"}
UnseenAbove(b, cur) == \E i \in queue[b] : i > cur /\ Kind[i] = "dm"
Covered(q, b) ==
    /\ Undisturbed(q) /\ BotOf[q] = b
    /\ req[q].pc \in Waiting /\ ~ req[q].reread /\ UnseenAbove(b, req[q].cur)
    => Announced(b)

BellInv == /\ MarkQueued /\ QueueFits
           /\ \A q \in Requests, b \in Bots : Covered(q, b)

LEMMA QueuedIsAnnounced ==
  ASSUME NEW r \in Replicas, NEW b \in Bots, Queued(r, b)
  PROVE  Announced(b)
<1>1. ASSUME NEW w \in RingWorkers, worker[r][w] = [pc |-> "taken", bot |-> b]
      PROVE  worker[r][w] # Free /\ worker[r][w].bot = b
  BY <1>1 DEF Free
<1> QED
  BY <1>1 DEF Queued, Announced

\* Where HintsFit counts: a bot that is not in the queue finds room there.
LEMMA RoomForHint ==
  ASSUME HintsFit, QueueFits, NEW p \in Producers, Target[p] \notin ringQueue[Home[p]]
  PROVE  Cardinality(ringQueue[Home[p]]) < RingDepth
<1> DEFINE r == Home[p]
           targets == TargetsAt(r)
<1>1. r \in Replicas /\ Target[p] \in targets /\ ringQueue[r] \subseteq targets \ {Target[p]}
  BY Constants DEF TargetsAt, QueueFits
<1>2. IsFiniteSet(targets)
  <2>1. targets \subseteq Bots
    BY Constants DEF TargetsAt
  <2> QED
    BY <2>1, Constants, FS_Subset
<1>3. Cardinality(targets) <= RingDepth
  BY <1>1 DEF HintsFit, TargetsAt
<1> HIDE DEF targets
<1>4. Cardinality(targets \ {Target[p]}) = Cardinality(targets) - 1
      /\ IsFiniteSet(targets \ {Target[p]})
  BY <1>1, <1>2, FS_RemoveElement
<1>5. IsFiniteSet(ringQueue[r]) /\ Cardinality(ringQueue[r]) <= Cardinality(targets \ {Target[p]})
  BY <1>1, <1>4, FS_Subset
<1>6. Cardinality(ringQueue[r]) \in Nat /\ Cardinality(targets) \in Nat /\ RingDepth \in Nat
  BY <1>2, <1>5, FS_CardinalityType, Constants
<1> QED
  BY <1>3, <1>4, <1>5, <1>6

\* Producers that have a hint to give still have it.
HintsKept == \A p \in Producers : prod[p].pc \in {"notify", "enqueue"} => prod'[p].pc = prod[p].pc

LEMMA QuietMarks ==
  ASSUME MarkQueued, QueueFits, HintsKept, UNCHANGED <<pending, ringQueue, worker>>
  PROVE  MarkQueued' /\ QueueFits'
<1>1. ASSUME NEW r \in Replicas, NEW b, Queued(r, b)
      PROVE  Queued(r, b)'
  <2>1. CASE \E p \in Producers : Home[p] = r /\ Target[p] = b /\ prod[p].pc = "enqueue"
    BY <2>1 DEF HintsKept, Queued
  <2>2. CASE b \in ringQueue[r] \/ \E w \in RingWorkers : worker[r][w] = [pc |-> "taken", bot |-> b]
    BY <2>2 DEF Queued
  <2> QED
    BY <1>1, <2>1, <2>2 DEF Queued
<1> QED
  BY <1>1 DEF MarkQueued, QueueFits

LEMMA QuietHints ==
  ASSUME HintsKept, UNCHANGED <<ringQueue, worker>>, NEW b \in Bots, bell'[b] = bell[b], Announced(b)
  PROVE  Announced(b)'
<1>1. CASE \E p \in Producers : Target[p] = b /\ prod[p].pc \in {"notify", "enqueue"}
  BY <1>1 DEF HintsKept, Announced
<1>2. CASE \/ bell[b]
           \/ \E r \in Replicas : \/ b \in ringQueue[r]
                                 \/ \E w \in RingWorkers : worker[r][w] # Free /\ worker[r][w].bot = b
  BY <1>2 DEF Announced
<1> QED
  BY <1>1, <1>2 DEF Announced

\* An undisturbed request stays one.
LEMMA StaysUndisturbed ==
  ASSUME world' = world, NEW q
  PROVE  (Undisturbed(q)' <=> Undisturbed(q)) /\ BotOf' = BotOf /\ Kind' = Kind
BY DEF Undisturbed, BotOf, Kind, Faulty

\* A request that moves no cursor and whose announcements stay.
LEMMA StaysCovered ==
  ASSUME world' = world, NEW q \in Requests, NEW b \in Bots, Covered(q, b),
         queue'[b] \subseteq queue[b], req'[q].cur = req[q].cur,
         req'[q].pc \in Waiting /\ ~ req'[q].reread => req[q].pc \in Waiting /\ ~ req[q].reread,
         Undisturbed(q) /\ BotOf[q] = b /\ req[q].pc \in Waiting /\ Announced(b) => Announced(b)'
  PROVE  Covered(q, b)'
<1>1. SUFFICES ASSUME Undisturbed(q)', BotOf'[q] = b, req'[q].pc \in Waiting, ~ req'[q].reread,
                      UnseenAbove(b, req[q].cur)'
               PROVE  Announced(b)'
  BY DEF Covered
<1>2. Undisturbed(q) /\ BotOf[q] = b /\ Kind' = Kind
  BY <1>1, StaysUndisturbed
<1>3. UnseenAbove(b, req[q].cur)
  BY <1>1, <1>2 DEF UnseenAbove
<1>4. req[q].pc \in Waiting /\ ~ req[q].reread
  BY <1>1
<1> QED
  BY <1>2, <1>3, <1>4 DEF Covered

\* A page that is passed without a reread leaves nothing to see above it.
LEMMA PassedPageShowsAll ==
  ASSUME TypeOK, NEW b \in Bots, NEW cur \in 0..MaxId, Visible(Members(b, cur)) = {},
         ~ Reread(Members(b, cur), cur), \A i \in Ids : Kind[i] # "broken",
         NEW i \in queue[b], i > PageCursor(Members(b, cur), cur)
  PROVE  Kind[i] # "dm"
<1> DEFINE page == Members(b, cur)
<1>1. page \subseteq Ids /\ \A m \in page : m > cur
  BY PagePrefix
<1>2. /\ PageCursor(page, cur) \in 0..MaxId /\ PageCursor(page, cur) >= cur
      /\ \A m \in page : m <= PageCursor(page, cur)
  BY <1>1, PageCursorPlace
<1>3. i \in Ids
  BY DEF TypeOK
<1>4. IsFiniteSet(page) /\ Cardinality(page) \in Nat
  <2>1. IsFiniteSet(Ids)
    BY Constants, FS_Interval, 1 \in Int, MaxId \in Int DEF Ids
  <2> QED
    BY <1>1, <2>1, FS_Subset, FS_CardinalityType
<1>5. CASE Cardinality(page) < Limit
  <2>1. i > cur
    BY <1>2, <1>3, Constants DEF Ids
  <2>2. i \in page
    BY <1>5, <2>1, ShortPage
  <2> QED
    BY <2>2 DEF Visible
<1>6. CASE Cardinality(page) >= Limit
  <2>1. ~ (PageCursor(page, cur) > cur)
    BY <1>6 DEF Reread
  <2>2. PICK m \in page : TRUE
    <3>1. page # {}
      BY <1>6, FS_EmptySet, Constants
    <3> QED
      BY <3>1
  <2>3. m \in Nat /\ m > cur /\ m <= PageCursor(page, cur)
    BY <1>1, <1>2, <2>2 DEF Ids
  <2> QED
    BY <1>2, <2>1, <2>3
<1> QED
  BY <1>4, <1>5, <1>6, Constants

\* Producers.
LEMMA NotifyBell ==
  ASSUME TypeOK, BellInv, world' = world, NEW p \in Producers, Notify(p)
  PROVE  MarkQueued' /\ QueueFits' /\ \A c \in Bots : Announced(c) => Announced(c)'
<1> DEFINE b == Target[p]
           r == Home[p]
<1>1. /\ b \in Bots /\ r \in Replicas /\ prod[p].pc = "notify" /\ prod[p] \in Publishing
      /\ prod \in [Producers -> Publishing] /\ pending \in [Replicas -> SUBSET Bots]
      /\ UNCHANGED <<bell, ringQueue, worker>> /\ pending' = [pending EXCEPT ![r] = pending[r] \cup {b}]
  BY Constants DEF Notify, TypeOK
<1>2. \A x \in Producers \ {p} : prod'[x] = prod[x]
  BY <1>1 DEF Notify
<1>3. \A s \in Replicas, c \in Bots : Queued(s, c) => Queued(s, c)'
  BY <1>1, <1>2 DEF Queued
<1>4. Queued(r, b)'
  <2>1. CASE b \in pending[r]
    BY <1>1, <1>3, <2>1 DEF BellInv, MarkQueued
  <2>2. CASE b \notin pending[r]
    <3>1. prod' = [prod EXCEPT ![p] = [prod[p] EXCEPT !.pc = "enqueue"]]
      BY <2>2 DEF Notify
    <3>2. prod'[p].pc = "enqueue"
      BY <1>1, <3>1 DEF Publishing, NoProd
    <3> QED
      BY <3>2 DEF Queued
  <2> QED
    BY <2>1, <2>2
<1>5. MarkQueued' /\ QueueFits'
  <2>1. ASSUME NEW s \in Replicas, NEW c \in pending'[s]
        PROVE  Queued(s, c)'
    <3>1. CASE s = r /\ c = b
      BY <1>4, <3>1
    <3>2. CASE c \in pending[s]
      BY <1>1, <1>3, <3>2 DEF BellInv, MarkQueued
    <3> QED
      BY <1>1, <2>1, <3>1, <3>2
  <2> QED
    BY <1>1, <2>1 DEF MarkQueued, QueueFits, BellInv
<1>6. ASSUME NEW c \in Bots, Announced(c)
      PROVE  Announced(c)'
  <2>1. CASE c = b
    <3>1. Queued(r, b)' => Announced(b)'
      <4>1. ASSUME NEW w \in RingWorkers, worker'[r][w] = [pc |-> "taken", bot |-> b]
            PROVE  worker'[r][w] # Free /\ worker'[r][w].bot = b
        BY <4>1 DEF Free
      <4> QED
        BY <1>1, <4>1 DEF Queued, Announced
    <3> QED
      BY <1>4, <2>1, <3>1
  <2>2. CASE c # b
    BY <1>1, <1>2, <1>6, <2>2 DEF Announced
  <2> QED
    BY <2>1, <2>2
<1> QED
  BY <1>5, <1>6

LEMMA EnqueueBell ==
  ASSUME TypeOK, BellInv, world' = world, NEW p \in Producers, Enqueue(p)
  PROVE  MarkQueued' /\ QueueFits' /\ (HintsFit => \A c \in Bots : Announced(c) => Announced(c)')
<1> DEFINE b == Target[p]
           r == Home[p]
           room == Cardinality(ringQueue[r]) < RingDepth
<1>1. /\ b \in Bots /\ r \in Replicas /\ prod[p].pc = "enqueue" /\ b \in TargetsAt(r)
      /\ prod \in [Producers -> Publishing] /\ pending \in [Replicas -> SUBSET Bots]
      /\ ringQueue \in [Replicas -> SUBSET Bots] /\ UNCHANGED <<bell, worker>>
      /\ prod' = [prod EXCEPT ![p] = NoProd]
  BY Constants DEF Enqueue, TypeOK, TargetsAt
<1>2. \A x \in Producers \ {p} : prod'[x] = prod[x]
  BY <1>1
<1>3. ringQueue' = [ringQueue EXCEPT ![r] = IF room THEN ringQueue[r] \cup {b} ELSE ringQueue[r]]
      /\ pending' = [pending EXCEPT ![r] = IF room THEN pending[r] ELSE pending[r] \ {b}]
  BY DEF Enqueue
<1> HIDE DEF room
<1>4. /\ \A s \in Replicas : ringQueue[s] \subseteq ringQueue'[s] /\ pending'[s] \subseteq pending[s]
      /\ \A s \in Replicas : ringQueue'[s] \subseteq ringQueue[s] \cup TargetsAt(s)
      /\ room => b \in ringQueue'[r]
      /\ ~ room => b \notin pending'[r]
  BY <1>1, <1>3
<1>5. ASSUME NEW s \in Replicas, NEW c \in Bots, Queued(s, c), s # r \/ c # b
      PROVE  Queued(s, c)'
  BY <1>1, <1>2, <1>4, <1>5 DEF Queued
<1>6. MarkQueued' /\ QueueFits'
  <2>1. ASSUME NEW s \in Replicas, NEW c \in pending'[s]
        PROVE  Queued(s, c)'
    <3>1. CASE s = r /\ c = b
      BY <1>4, <2>1, <3>1 DEF Queued
    <3>2. CASE s # r \/ c # b
      <4>1. c \in Bots /\ Queued(s, c)
        BY <1>1, <1>4, <2>1 DEF BellInv, MarkQueued
      <4> QED
        BY <1>5, <3>2, <4>1
    <3> QED
      BY <3>1, <3>2
  <2>2. \A s \in Replicas : ringQueue'[s] \subseteq TargetsAt(s)
    BY <1>4 DEF BellInv, QueueFits
  <2> QED
    BY <2>1, <2>2 DEF MarkQueued, QueueFits
<1>7. ASSUME HintsFit, NEW c \in Bots, Announced(c)
      PROVE  Announced(c)'
  <2>1. CASE c = b
    <3>1. b \in ringQueue'[r]
      <4>1. CASE b \in ringQueue[r]
        BY <1>1, <1>4, <4>1
      <4>2. CASE b \notin ringQueue[r]
        <5>1. room
          BY <1>7, <4>2, RoomForHint DEF BellInv, room
        <5> QED
          BY <1>4, <5>1
      <4> QED
        BY <4>1, <4>2
    <3> QED
      BY <1>1, <2>1, <3>1 DEF Announced
  <2>2. CASE c # b
    <3>1. CASE \E x \in Producers : Target[x] = c /\ prod[x].pc \in {"notify", "enqueue"}
      <4>1. PICK x \in Producers : Target[x] = c /\ prod[x].pc \in {"notify", "enqueue"}
        BY <3>1
      <4>2. prod'[x] = prod[x]
        BY <1>2, <2>2, <4>1
      <4> QED
        BY <4>1, <4>2 DEF Announced
    <3>2. CASE \/ bell[c]
               \/ \E s \in Replicas : \/ c \in ringQueue[s]
                                     \/ \E w \in RingWorkers : worker[s][w] # Free /\ worker[s][w].bot = c
      BY <1>1, <1>4, <3>2 DEF Announced
    <3> QED
      BY <1>7, <3>1, <3>2 DEF Announced
  <2> QED
    BY <2>1, <2>2
<1> QED
  BY <1>6, <1>7

LEMMA FeedBell ==
  ASSUME TypeOK, BellInv, world' = world, NEW p \in Producers,
         NextEventID(p) \/ Produce(p) \/ ZAddFails(p)
  PROVE  BellInv'
<1>1. MarkQueued /\ QueueFits /\ req' = req /\ queue \in [Bots -> SUBSET Ids]
      /\ prod \in [Producers -> Publishing]
  BY DEF BellInv, NextEventID, Produce, ZAdd, Notify, Enqueue, ZAddFails, TypeOK
<1>2. CASE NextEventID(p) \/ ZAddFails(p) \/ ZAdd(p)
  <2>1. HintsKept /\ UNCHANGED <<bell, pending, ringQueue, worker>>
    BY <1>1, <1>2 DEF NextEventID, ZAddFails, ZAdd, HintsKept, bellVars
  <2>2. MarkQueued' /\ QueueFits'
    BY <1>1, <2>1, QuietMarks
  <2>3. ASSUME NEW q \in Requests, NEW b \in Bots PROVE Covered(q, b)'
    <3>1. CASE queue'[b] \subseteq queue[b]
      <4>1. Covered(q, b) /\ req'[q].cur = req[q].cur
        BY <1>1 DEF BellInv
      <4>2. Announced(b) => Announced(b)'
        BY <2>1, QuietHints
      <4> QED
        BY <1>1, <3>1, <4>1, <4>2, StaysCovered
    <3>2. CASE b = Target[p] /\ ZAdd(p)
      <4>1. prod'[p].pc = "notify"
        <5>1. prod[p] \in Publishing /\ prod' = [prod EXCEPT ![p] = [prod[p] EXCEPT !.pc = "notify"]]
          BY <1>1, <3>2 DEF ZAdd
        <5> QED
          BY <1>1, <5>1 DEF Publishing, NoProd
      <4>2. Announced(b)'
        BY <3>2, <4>1 DEF Announced
      <4> QED
        BY <4>2 DEF Covered
    <3>3. CASE queue' = queue \/ (ZAdd(p) /\ b # Target[p])
      BY <1>1, <3>1, <3>3 DEF ZAdd
    <3> QED
      BY <1>2, <3>2, <3>3 DEF NextEventID, ZAddFails
  <2> QED
    BY <2>2, <2>3 DEF BellInv
<1>3. CASE Notify(p) \/ Enqueue(p)
  <2>1. MarkQueued' /\ QueueFits' /\ (HintsFit => \A c \in Bots : Announced(c) => Announced(c)')
    BY <1>3, NotifyBell, EnqueueBell
  <2>2. queue' = queue
    BY <1>3 DEF Notify, Enqueue
  <2>3. ASSUME NEW q \in Requests, NEW b \in Bots PROVE Covered(q, b)'
    <3>1. Covered(q, b)
      BY DEF BellInv
    <3>2. Undisturbed(q) => HintsFit
      BY DEF Undisturbed
    <3> QED
      BY <1>1, <2>1, <2>2, <3>1, <3>2, StaysCovered
  <2> QED
    BY <2>1, <2>3 DEF BellInv
<1> QED
  BY <1>2, <1>3 DEF Produce

\* The doorbell's workers.
LEMMA WorkerBell ==
  ASSUME TypeOK, BellInv, world' = world, NEW r \in Replicas, NEW w \in RingWorkers,
         (\E b \in Bots : TakeRing(r, w, b)) \/ ClearMark(r, w) \/ Ring(r, w) \/ RingFails(r, w)
  PROVE  BellInv'
<1>1. /\ worker[r][w] \in Duties /\ Free \in Duties /\ pending \in [Replicas -> SUBSET Bots]
      /\ ringQueue \in [Replicas -> SUBSET Bots] /\ bell \in [Bots -> BOOLEAN]
  BY DEF TypeOK, Duties
<1>2. queue' = queue /\ req' = req /\ prod' = prod
  BY DEF TakeRing, ClearMark, Ring, RingFails
\* A hint of c passes from the ring queue to a worker, and from it to the bell.
<1>3. /\ \A s \in Replicas, c \in Bots : Queued(s, c) =>
             Queued(s, c)' \/ (s = r /\ ClearMark(r, w) /\ worker[r][w].bot = c)
      /\ \A c \in Bots : Announced(c) => Announced(c)' \/ RingFails(r, w)
  <2>1. ASSUME NEW b \in Bots, TakeRing(r, w, b)
        PROVE  \A c \in Bots : (\A s \in Replicas : Queued(s, c) => Queued(s, c)')
                               /\ (Announced(c) => Announced(c)')
    <3>1. [pc |-> "taken", bot |-> b] \in Duties /\ worker[r][w] = Free /\ bell' = bell
      BY <2>1 DEF Duties, TakeRing
    <3>2. /\ worker'[r][w] = [pc |-> "taken", bot |-> b]
          /\ \A s \in Replicas, v \in RingWorkers : (s # r \/ v # w) => worker'[s][v] = worker[s][v]
      <4>1. PICK d \in Duties : d = [pc |-> "taken", bot |-> b]
        BY <3>1
      <4>2. worker' = [worker EXCEPT ![r][w] = d]
        BY <2>1, <4>1 DEF TakeRing
      <4>3. worker'[r][w] = d
        BY <4>2, WorkerSet
      <4>4. \A s \in Replicas, v \in RingWorkers : (s # r \/ v # w) => worker'[s][v] = worker[s][v]
        BY <4>2, WorkerSet
      <4> QED
        BY <4>1, <4>3, <4>4
    <3>3. \A s \in Replicas : \A c \in ringQueue[s] : c \in ringQueue'[s] \/ (s = r /\ c = b)
      BY <1>1, <2>1 DEF TakeRing
    <3>4. [pc |-> "taken", bot |-> b] # Free
      BY DEF Free
    <3>5. ASSUME NEW s \in Replicas, NEW v \in RingWorkers, worker[s][v] # Free
          PROVE  worker'[s][v] = worker[s][v]
      BY <3>1, <3>2, <3>5
    <3>6. ASSUME NEW c \in Bots, NEW s \in Replicas, NEW v \in RingWorkers,
                 worker[s][v] = [pc |-> "taken", bot |-> c]
          PROVE  worker[s][v] # Free
      BY <3>6 DEF Free
    <3>7. ASSUME NEW c \in Bots, NEW s \in Replicas, Queued(s, c)
          PROVE  Queued(s, c)'
      <4>1. CASE c \in ringQueue[s]
        BY <3>2, <3>3, <4>1 DEF Queued
      <4>2. CASE \E v \in RingWorkers : worker[s][v] = [pc |-> "taken", bot |-> c]
        BY <3>5, <3>6, <4>2 DEF Queued
      <4>3. CASE \E p \in Producers : Home[p] = s /\ Target[p] = c /\ prod[p].pc = "enqueue"
        BY <1>2, <4>3 DEF Queued
      <4> QED
        BY <3>7, <4>1, <4>2, <4>3 DEF Queued
    <3>8. ASSUME NEW c \in Bots, Announced(c)
          PROVE  Announced(c)'
      <4>1. CASE \E s \in Replicas : c \in ringQueue[s]
        <5>1. PICK s \in Replicas : c \in ringQueue[s]
          BY <4>1
        <5>2. CASE c \in ringQueue'[s]
          BY <5>2 DEF Announced
        <5>3. CASE s = r /\ c = b
          <6>1. worker'[r][w] # Free /\ worker'[r][w].bot = c
            BY <3>2, <3>4, <5>3
          <6> QED
            BY <6>1 DEF Announced, Free
        <5> QED
          BY <3>3, <5>1, <5>2, <5>3
      <4>2. CASE \E s \in Replicas, v \in RingWorkers : worker[s][v] # Free /\ worker[s][v].bot = c
        BY <3>5, <4>2 DEF Announced, Free
      <4>3. CASE bell[c] \/ \E p \in Producers : Target[p] = c /\ prod[p].pc \in {"notify", "enqueue"}
        BY <1>2, <3>1, <4>3 DEF Announced
      <4> QED
        BY <3>8, <4>1, <4>2, <4>3 DEF Announced
    <3> QED
      BY <3>7, <3>8
  <2>2. CASE ClearMark(r, w)
    <3> DEFINE d == [pc |-> "ringing", bot |-> worker[r][w].bot]
    <3>1. /\ worker[r][w].pc = "taken" /\ worker[r][w].bot \in Bots /\ worker[r][w] # Free
          /\ worker' = [worker EXCEPT ![r][w] = d] /\ ringQueue' = ringQueue /\ bell' = bell
      BY <1>1, <2>2 DEF ClearMark, Duties, Free
    <3>2. d \in Duties /\ d # Free /\ d.bot = worker[r][w].bot
      BY <3>1 DEF Duties, Free
    <3> HIDE DEF d
    <3>3. /\ worker'[r][w] = d
          /\ \A s \in Replicas, v \in RingWorkers : (s # r \/ v # w) => worker'[s][v] = worker[s][v]
      <4>1. worker'[r][w] = d
        BY <3>1, <3>2, WorkerSet
      <4>2. \A s \in Replicas, v \in RingWorkers : (s # r \/ v # w) => worker'[s][v] = worker[s][v]
        BY <3>1, <3>2, WorkerSet
      <4> QED
        BY <4>1, <4>2
    <3>4. ASSUME NEW c \in Bots, NEW s \in Replicas, Queued(s, c)
          PROVE  Queued(s, c)' \/ (s = r /\ worker[r][w].bot = c)
      <4>1. CASE c \in ringQueue[s]
        BY <3>1, <4>1 DEF Queued
      <4>2. CASE \E v \in RingWorkers : worker[s][v] = [pc |-> "taken", bot |-> c]
        <5>1. PICK v \in RingWorkers : worker[s][v] = [pc |-> "taken", bot |-> c]
          BY <4>2
        <5>2. CASE s = r /\ v = w
          BY <5>1, <5>2
        <5>3. CASE s # r \/ v # w
          <6>1. worker'[s][v] = [pc |-> "taken", bot |-> c]
            BY <3>3, <5>1, <5>3
          <6> QED
            BY <6>1 DEF Queued
        <5> QED
          BY <5>2, <5>3
      <4>3. CASE \E p \in Producers : Home[p] = s /\ Target[p] = c /\ prod[p].pc = "enqueue"
        BY <1>2, <4>3 DEF Queued
      <4> QED
        BY <3>4, <4>1, <4>2, <4>3 DEF Queued
    <3>5. ASSUME NEW c \in Bots, Announced(c)
          PROVE  Announced(c)'
      <4>1. CASE \E s \in Replicas, v \in RingWorkers : worker[s][v] # Free /\ worker[s][v].bot = c
        <5>1. PICK s \in Replicas, v \in RingWorkers : worker[s][v] # Free /\ worker[s][v].bot = c
          BY <4>1
        <5>2. worker'[s][v] # Free /\ worker'[s][v].bot = c
          BY <3>2, <3>3, <5>1
        <5> QED
          BY <5>2 DEF Announced, Free
      <4>2. CASE \/ bell[c] \/ (\E s \in Replicas : c \in ringQueue[s])
                 \/ \E p \in Producers : Target[p] = c /\ prod[p].pc \in {"notify", "enqueue"}
        BY <1>2, <3>1, <4>2 DEF Announced
      <4> QED
        BY <3>5, <4>1, <4>2 DEF Announced
    <3> QED
      BY <2>2, <3>4, <3>5
  <2>3. CASE Ring(r, w) \/ RingFails(r, w)
    <3>1. /\ worker[r][w].pc = "ringing" /\ ringQueue' = ringQueue
          /\ worker' = [worker EXCEPT ![r][w] = Free]
          /\ \A c \in Bots : bell[c] => bell'[c]
          /\ Ring(r, w) => \A c \in Bots : worker[r][w].bot = c => bell'[c]
      BY <1>1, <2>3 DEF Ring, RingFails
    <3>2. \A s \in Replicas, v \in RingWorkers : (s # r \/ v # w) => worker'[s][v] = worker[s][v]
      BY <1>1, <3>1, WorkerSet
    <3>3. ASSUME NEW c \in Bots, NEW s \in Replicas, Queued(s, c)
          PROVE  Queued(s, c)'
      <4>1. CASE \E v \in RingWorkers : worker[s][v] = [pc |-> "taken", bot |-> c]
        <5>1. PICK v \in RingWorkers : worker[s][v] = [pc |-> "taken", bot |-> c]
          BY <4>1
        <5>2. worker'[s][v] = [pc |-> "taken", bot |-> c]
          <6>1. s # r \/ v # w
            BY <3>1, <5>1
          <6> QED
            BY <3>2, <5>1, <6>1
        <5> QED
          BY <5>2 DEF Queued
      <4>2. CASE c \in ringQueue[s] \/ \E p \in Producers : Home[p] = s /\ Target[p] = c /\ prod[p].pc = "enqueue"
        BY <1>2, <3>1, <4>2 DEF Queued
      <4> QED
        BY <3>3, <4>1, <4>2 DEF Queued
    <3>4. ASSUME NEW c \in Bots, Announced(c), Ring(r, w)
          PROVE  Announced(c)'
      <4>1. CASE \E s \in Replicas, v \in RingWorkers : worker[s][v] # Free /\ worker[s][v].bot = c
        <5>1. PICK s \in Replicas, v \in RingWorkers : worker[s][v] # Free /\ worker[s][v].bot = c
          BY <4>1
        <5>2. CASE s = r /\ v = w
          BY <3>1, <3>4, <5>1, <5>2 DEF Announced
        <5>3. CASE s # r \/ v # w
          <6>1. worker'[s][v] # Free /\ worker'[s][v].bot = c
            BY <3>2, <5>1, <5>3
          <6> QED
            BY <6>1 DEF Announced, Free
        <5> QED
          BY <5>2, <5>3
      <4>2. CASE \/ bell[c] \/ (\E s \in Replicas : c \in ringQueue[s])
                 \/ \E p \in Producers : Target[p] = c /\ prod[p].pc \in {"notify", "enqueue"}
        BY <1>2, <3>1, <4>2 DEF Announced
      <4> QED
        BY <3>4, <4>1, <4>2 DEF Announced
    <3> QED
      BY <2>3, <3>3, <3>4
  <2> QED
    BY <2>1, <2>2, <2>3
<1>4. MarkQueued'
  <2>1. ASSUME NEW s \in Replicas, NEW c \in pending'[s]
        PROVE  Queued(s, c)'
    <3>1. CASE ClearMark(r, w)
      <4>1. pending' = [pending EXCEPT ![r] = pending[r] \ {worker[r][w].bot}]
        BY <3>1 DEF ClearMark, PendingTaken
      <4>2. c \in pending[s] /\ ~ (s = r /\ c = worker[r][w].bot)
        BY <1>1, <2>1, <4>1
      <4>3. c \in Bots /\ Queued(s, c)
        BY <1>1, <4>2 DEF BellInv, MarkQueued
      <4> QED
        BY <1>3, <4>2, <4>3
    <3>2. CASE ~ ClearMark(r, w)
      <4>1. pending' = pending
        BY <3>2 DEF TakeRing, Ring, RingFails
      <4>2. c \in Bots /\ Queued(s, c)
        BY <1>1, <2>1, <4>1 DEF BellInv, MarkQueued
      <4> QED
        BY <1>3, <3>2, <4>2
    <3> QED
      BY <3>1, <3>2
  <2> QED
    BY <2>1 DEF MarkQueued
<1>5. QueueFits'
  <2>1. \A s \in Replicas : ringQueue'[s] \subseteq ringQueue[s]
    BY <1>1 DEF TakeRing, ClearMark, Ring, RingFails
  <2> QED
    BY <2>1 DEF BellInv, QueueFits
<1>6. ASSUME NEW q \in Requests, NEW b \in Bots PROVE Covered(q, b)'
  <2>1. RingFails(r, w) => ~ Undisturbed(q)
    BY DEF RingFails, Undisturbed
  <2>2. Covered(q, b)
    BY DEF BellInv
  <2> QED
    BY <1>2, <1>3, <2>1, <2>2, StaysCovered
<1> QED
  BY <1>4, <1>5, <1>6 DEF BellInv

\* Acks and the end of the bell's life: it ends only while the bot has no request.
LEMMA RemovalBell ==
  ASSUME TypeOK, BellInv, world' = world,
         \/ \E b \in Bots, i \in Ids : EventAck(b, i)
         \/ \E b \in Bots : BellExpires(b)
  PROVE  BellInv'
<1>1. /\ req' = req /\ prod' = prod /\ UNCHANGED <<pending, ringQueue, worker>>
      /\ \A c \in Bots : queue'[c] \subseteq queue[c]
      /\ \A c \in Bots : bell'[c] = bell[c]
                         \/ \A q \in Requests : BotOf[q] = c => req[q].pc = "idle"
  BY DEF EventAck, BellExpires, bellVars, TypeOK
<1>2. HintsKept
  BY <1>1 DEF HintsKept
<1>3. MarkQueued' /\ QueueFits'
  BY <1>1, <1>2, QuietMarks DEF BellInv
<1>4. ASSUME NEW q \in Requests, NEW b \in Bots PROVE Covered(q, b)'
  <2>1. Covered(q, b) /\ queue'[b] \subseteq queue[b]
    BY <1>1 DEF BellInv
  <2>2. CASE bell'[b] = bell[b]
    <3>1. Announced(b) => Announced(b)'
      BY <1>1, <1>2, <2>2, QuietHints
    <3> QED
      BY <1>1, <2>1, <3>1, StaysCovered
  <2>3. CASE BotOf[q] = b => req[q].pc = "idle"
    <3>1. BotOf[q] = b => req[q].pc \notin Waiting
      BY <2>3 DEF Waiting
    <3> QED
      BY <1>1, <2>1, <3>1, StaysCovered
  <2> QED
    BY <1>1, <2>2, <2>3
<1> QED
  BY <1>3, <1>4 DEF BellInv

\* A request's step: what it does to the other requests, and how it may itself be left.
LEMMA RequestMoveBell ==
  ASSUME BooksInv, BellInv, world' = world, prod' = prod, NEW q \in Requests,
         UNCHANGED bellVars, \A b \in Bots : queue'[b] \subseteq queue[b], NotMoved(q),
         \/ req'[q].pc \notin Waiting
         \/ /\ req[q].pc \in Waiting /\ req'[q].cur = req[q].cur
            /\ ~ req'[q].reread => ~ req[q].reread
         \/ /\ Visible(Members(BotOf[q], req[q].cur)) = {}
            /\ req'[q].cur = PageCursor(Members(BotOf[q], req[q].cur), req[q].cur)
            /\ req'[q].reread = Reread(Members(BotOf[q], req[q].cur), req[q].cur)
  PROVE  BellInv'
<1>1. HintsKept /\ UNCHANGED <<bell, pending, ringQueue, worker>> /\ TypeOK
  BY DEF HintsKept, bellVars, BooksInv
<1>2. MarkQueued' /\ QueueFits'
  BY <1>1, QuietMarks DEF BellInv
<1>3. ASSUME NEW x \in Requests, NEW b \in Bots PROVE Covered(x, b)'
  <2>1. Covered(x, b) /\ queue'[b] \subseteq queue[b]
    BY DEF BellInv
  <2>2. Announced(b) => Announced(b)'
    BY <1>1, QuietHints
  <2>3. CASE x # q
    <3>1. req'[x] = req[x]
      BY <2>3 DEF NotMoved
    <3> QED
      BY <2>1, <2>2, <3>1, StaysCovered
  <2>4. CASE x = q /\ req'[q].pc \notin Waiting
    BY <2>4 DEF Covered
  <2>5. CASE /\ x = q /\ req[q].pc \in Waiting /\ req'[q].cur = req[q].cur
             /\ ~ req'[q].reread => ~ req[q].reread
    BY <2>1, <2>2, <2>5, StaysCovered
  <2>6. CASE /\ x = q /\ Visible(Members(BotOf[q], req[q].cur)) = {}
             /\ req'[q].cur = PageCursor(Members(BotOf[q], req[q].cur), req[q].cur)
             /\ req'[q].reread = Reread(Members(BotOf[q], req[q].cur), req[q].cur)
    <3>1. PICK cur \in 0..MaxId : cur = req[q].cur
      BY <1>1, RequestFields
    <3>2. SUFFICES ASSUME Undisturbed(x)', BotOf'[q] = b, ~ req'[q].reread,
                          UnseenAbove(b, req[q].cur)'
                   PROVE  FALSE
      BY <2>6 DEF Covered
    <3>3. Undisturbed(x) /\ BotOf[q] = b /\ Kind' = Kind
      BY <3>2, StaysUndisturbed
    <3>4. /\ Visible(Members(b, cur)) = {} /\ ~ Reread(Members(b, cur), cur)
          /\ req'[q].cur = PageCursor(Members(b, cur), cur)
      BY <2>6, <3>1, <3>2, <3>3, Zenon
    <3>5. PICK i \in queue'[b] : i > req'[q].cur /\ Kind[i] = "dm"
      BY <3>2, <3>3 DEF UnseenAbove
    <3>6. i \in queue[b] /\ i > PageCursor(Members(b, cur), cur)
      BY <2>1, <3>4, <3>5
    <3>7. \A j \in Ids : Kind[j] # "broken"
      BY <3>3 DEF Undisturbed
    <3> QED
      BY <1>1, <3>4, <3>5, <3>6, <3>7, PassedPageShowsAll
  <2> QED
    BY <2>3, <2>4, <2>5, <2>6
<1> QED
  BY <1>2, <1>3 DEF BellInv

\* A token is taken by the request of its bot: another request that is undisturbed polls
\* for another bot.
LEMMA WakeBell ==
  ASSUME BooksInv, BellInv, world' = world, NEW q \in Requests, Wake(q)
  PROVE  BellInv'
<1>1. /\ TypeOK /\ req[q].pc = "block" /\ prod' = prod /\ queue' = queue
      /\ bell' = [bell EXCEPT ![BotOf[q]] = FALSE] /\ UNCHANGED <<pending, ringQueue, worker>>
  BY DEF Wake, BooksInv
<1>2. Moved(q, "read", req[q].cur, req[q].left, req[q].reread, req[q].gone)
  BY <1>1, MovesOn DEF Wake, Stages
<1>3. HintsKept
  BY <1>1 DEF HintsKept
<1>4. MarkQueued' /\ QueueFits'
  BY <1>1, <1>3, QuietMarks DEF BellInv
<1>5. ASSUME NEW x \in Requests, NEW b \in Bots PROVE Covered(x, b)'
  <2>1. CASE x = q
    BY <1>2, <2>1 DEF Moved, Waiting, Covered
  <2>2. CASE x # q
    <3>1. req'[x] = req[x] /\ Covered(x, b)
      BY <1>2, <2>2 DEF Moved, NotMoved, BellInv
    <3>2. ASSUME Undisturbed(x), BotOf[x] = b, Announced(b)
          PROVE  Announced(b)'
      <4>1. BotOf[q] # b
        BY <2>2, <3>2 DEF Undisturbed
      <4>2. bell'[b] = bell[b]
        BY <1>1, <4>1 DEF TypeOK
      <4> QED
        BY <1>1, <1>3, <3>2, <4>2, QuietHints
    <3> QED
      BY <1>1, <3>1, <3>2, StaysCovered
  <2> QED
    BY <2>1, <2>2
<1> QED
  BY <1>4, <1>5 DEF BellInv

LEMMA RequestBell ==
  ASSUME BooksInv, BellInv, world' = world, NEW q \in Requests,
         Poll(q) \/ Handle(q) \/ BlockFails(q) \/ ReadFails(q) \/ HangUp(q)
  PROVE  BellInv'
<1> DEFINE b == BotOf[q]
           page == Members(b, req[q].cur)
<1>1. TypeOK /\ b \in Bots /\ Visible(page) \subseteq Ids
  BY WorldFields, PageOfRequest DEF BooksInv
<1>2. prod' = prod
  BY DEF Poll, Handle, Entry, MarkBot, TakeSlot, HoldOffOver, LoopTop, Wake, ChunkOver, ReadAgain,
         BlockFails, ReadFails, HangUp
<1>3. UNCHANGED bellVars \/ Wake(q)
  BY DEF Poll, Handle, Entry, MarkBot, TakeSlot, HoldOffOver, LoopTop, ChunkOver, ReadAgain,
         BlockFails, ReadFails, HangUp
<1>4. \A c \in Bots : queue'[c] \subseteq queue[c]
  <2>1. CASE queue' = queue
    BY <2>1
  <2>2. CASE AutoAck(b, page)
    BY <1>1, <2>2, AckedQueue
  <2> QED
    BY <2>1, <2>2 DEF Poll, Handle, Entry, MarkBot, TakeSlot, HoldOffOver, LoopTop, Wake, ChunkOver,
         ReadAgain, BlockFails, ReadFails, HangUp
\* Steps after which the request no longer waits, or waits on as it was.
<1>5. ASSUME UNCHANGED bellVars, NEW pc, NEW cur, NEW left, NEW reread, NEW gone,
             Moved(q, pc, cur, left, reread, gone),
             \/ pc \notin Waiting
             \/ req[q].pc \in Waiting /\ cur = req[q].cur /\ (~ reread => ~ req[q].reread)
      PROVE  BellInv'
  <2>1. /\ NotMoved(q) /\ req'[q].pc = pc /\ req'[q].cur = cur /\ req'[q].reread = reread
    BY <1>5 DEF Moved
  <2> QED
    BY <1>2, <1>4, <1>5, <2>1, RequestMoveBell
\* Responses.
<1>6. ASSUME req[q].pc # "slot", Respond(q, {}) \/ Respond(q, Visible(page)), UNCHANGED bellVars
      PROVE  BellInv'
  <2>1. Moved(q, "idle", 0, 0, FALSE, FALSE)
    BY <1>1, <1>6, RespondBooks
  <2> QED
    BY <1>5, <1>6, <2>1 DEF Waiting
\* A page that is passed.
<1>7. ASSUME UNCHANGED bellVars, NEW pc \in Stages, Visible(page) = {},
             req' = [req EXCEPT ![q].pc = pc, ![q].cur = PageCursor(page, req[q].cur),
                                ![q].reread = Reread(page, req[q].cur)]
      PROVE  BellInv'
  <2>1. Moved(q, pc, PageCursor(page, req[q].cur), req[q].left, Reread(page, req[q].cur), req[q].gone)
    BY <1>7, PassPage
  <2>2. /\ NotMoved(q) /\ req'[q].cur = PageCursor(page, req[q].cur)
        /\ req'[q].reread = Reread(page, req[q].cur)
    BY <2>1 DEF Moved
  <2> QED
    BY <1>2, <1>4, <1>7, <2>2, RequestMoveBell
<1>8. CASE Poll(q)
  <2>1. UNCHANGED bellVars /\ Moved(q, "entry", cursor[b], 0, FALSE, FALSE)
    BY <1>8, PollStep DEF Poll
  <2> QED
    BY <1>5, <2>1 DEF Waiting
<1>9. CASE Entry(q)
  <2>1. UNCHANGED bellVars /\ req[q].pc # "slot"
    BY <1>9 DEF Entry
  <2>2. CASE Respond(q, Visible(page))
    BY <1>6, <2>1, <2>2
  <2>3. CASE /\ Visible(page) = {}
             /\ req' = [req EXCEPT ![q].pc = "mark", ![q].cur = PageCursor(page, req[q].cur),
                                   ![q].reread = Reread(page, req[q].cur)]
    BY <1>7, <2>1, <2>3 DEF Stages
  <2> QED
    BY <1>9, <2>2, <2>3 DEF Entry
<1>10. CASE MarkBot(q) \/ TakeSlot(q)
  <2>1. UNCHANGED bellVars /\ req[q].pc \in {"mark", "slot"}
    BY <1>10 DEF MarkBot, TakeSlot
  <2>2. CASE Refuse(q)
    <3>1. \/ Moved(q, "off", req[q].cur, req[q].left, req[q].reread, req[q].gone)
          \/ Moved(q, "idle", 0, 0, FALSE, FALSE)
      BY <2>1, <2>2, RefuseBooks
    <3> QED
      BY <1>5, <2>1, <3>1 DEF Waiting
  <2>3. CASE req' = [req EXCEPT ![q].pc = "slot"]
    <3>1. Moved(q, "slot", req[q].cur, req[q].left, req[q].reread, req[q].gone)
      BY <1>1, <2>3, MovesOn DEF Stages
    <3> QED
      BY <1>5, <2>1, <3>1 DEF Waiting
  <2>4. CASE req' = [req EXCEPT ![q].pc = "top", ![q].left = WaitChunks]
    <3>1. Moved(q, "top", req[q].cur, WaitChunks, req[q].reread, req[q].gone)
      <4>1. WaitChunks \in 0..WaitChunks
        BY Constants
      <4> QED
        BY <1>1, <2>4, <4>1, MovesWithTime DEF Stages
    <3> QED
      BY <1>5, <2>1, <3>1 DEF Waiting
  <2> QED
    BY <1>10, <2>2, <2>3, <2>4 DEF MarkBot, TakeSlot
<1>11. CASE HoldOffOver(q) \/ ReadFails(q)
  BY <1>6, <1>11 DEF HoldOffOver, ReadFails
<1>12. CASE LoopTop(q)
  <2>1. UNCHANGED bellVars /\ req[q].pc = "top"
    BY <1>12 DEF LoopTop
  <2>2. CASE HoldOver(q)
    BY <1>6, <1>12, <2>1, <2>2 DEF LoopTop
  <2>3. CASE ~ HoldOver(q) /\ req[q].reread
    <3>1. req' = [req EXCEPT ![q].pc = "read", ![q].reread = FALSE]
      BY <1>12, <2>3 DEF LoopTop
    <3>2. Moved(q, "read", req[q].cur, req[q].left, FALSE, req[q].gone)
      BY <1>1, <3>1, MovesWithReread DEF Stages
    <3> QED
      BY <1>5, <2>1, <3>2 DEF Waiting
  <2>4. CASE ~ HoldOver(q) /\ ~ req[q].reread
    <3>1. req' = [req EXCEPT ![q].pc = "block", ![q].reread = FALSE]
      BY <1>12, <2>4 DEF LoopTop
    <3>2. Moved(q, "block", req[q].cur, req[q].left, FALSE, req[q].gone)
      BY <1>1, <3>1, MovesWithReread DEF Stages
    <3> QED
      BY <1>5, <2>1, <2>4, <3>2 DEF Waiting
  <2> QED
    BY <2>2, <2>3, <2>4
<1>13. CASE ChunkOver(q) \/ BlockFails(q)
  <2>1. UNCHANGED bellVars /\ req[q].pc = "block"
    BY <1>13 DEF ChunkOver, BlockFails
  <2>2. CASE Respond(q, {})
    BY <1>6, <2>1, <2>2
  <2>3. CASE req' = [req EXCEPT ![q].pc = "read", ![q].left = @ - 1]
    <3>1. req[q].left - 1 \in 0..WaitChunks
      <4>1. req[q].left > 0 /\ req[q].left \in 0..WaitChunks /\ WaitChunks \in Nat
        BY <1>1, <2>1, RequestFields, Constants DEF BooksInv, Blocked
      <4> QED
        BY <4>1
    <3>2. req' = [req EXCEPT ![q].pc = "read", ![q].left = req[q].left - 1]
      BY <2>3
    <3>3. Moved(q, "read", req[q].cur, req[q].left - 1, req[q].reread, req[q].gone)
      BY <1>1, <3>1, <3>2, MovesWithTime DEF Stages
    <3> QED
      BY <1>5, <2>1, <3>3 DEF Waiting
  <2> QED
    BY <1>13, <2>2, <2>3 DEF ChunkOver, BlockFails
<1>14. CASE ReadAgain(q)
  <2>1. UNCHANGED bellVars /\ req[q].pc # "slot"
    BY <1>14 DEF ReadAgain
  <2>2. CASE Respond(q, Visible(page)) \/ Respond(q, {})
    BY <1>6, <2>1, <2>2
  <2>3. CASE /\ Visible(page) = {}
             /\ req' = [req EXCEPT ![q].pc = "top", ![q].cur = PageCursor(page, req[q].cur),
                                   ![q].reread = Reread(page, req[q].cur)]
    BY <1>7, <2>1, <2>3 DEF Stages
  <2> QED
    BY <1>14, <2>2, <2>3 DEF ReadAgain
<1>15. CASE HangUp(q)
  <2>1. /\ Moved(q, req[q].pc, req[q].cur, req[q].left, req[q].reread, TRUE)
        /\ UNCHANGED bellVars
    BY <1>1, <1>15, MovesAway DEF HangUp
  <2> QED
    BY <1>5, <2>1
<1> QED
  BY <1>8, <1>9, <1>10, <1>11, <1>12, <1>13, <1>14, <1>15, WakeBell DEF Handle

\* A parked request is announced what it has not seen (BellCovers), with the types and the
\* books of the holds (HoldsSound), whatever order the producers publish in.
THEOREM HoldsAreSound == Spec => []HoldsSound
<1>1. Init => BooksInv /\ BellInv
  <2> SUFFICES ASSUME Init PROVE BooksInv /\ BellInv
    OBVIOUS
  <2>1. MarkQueued /\ QueueFits
    BY DEF Init, MarkQueued, QueueFits
  <2>2. \A q \in Requests, b \in Bots : Covered(q, b)
    BY DEF Init, Covered, Waiting, NoReq
  <2> QED
    BY <2>1, <2>2, BooksInit DEF BellInv
<1>2. BooksInv /\ BellInv /\ [Next]_<<vars, world>> => BooksInv' /\ BellInv'
  <2> SUFFICES ASSUME BooksInv, BellInv, [Next]_<<vars, world>> PROVE BooksInv' /\ BellInv'
    OBVIOUS
  <2>1. BooksInv' /\ TypeOK
    BY BooksNext DEF BooksInv
  <2>2. CASE Next
    <3>1. world' = world /\ Step
      BY <2>2 DEF Next
    <3> QED
      BY <2>1, <3>1, FeedBell, WorkerBell, RemovalBell, RequestBell DEF Step
  <2>3. CASE UNCHANGED <<vars, world>>
    <3>1. /\ world' = world /\ req' = req /\ queue' = queue /\ prod' = prod /\ bell' = bell
          /\ UNCHANGED <<pending, ringQueue, worker>>
      BY <2>3 DEF vars, bellVars
    <3>2. HintsKept
      BY <3>1 DEF HintsKept
    <3>3. MarkQueued' /\ QueueFits'
      BY <3>1, <3>2, QuietMarks DEF BellInv
    <3>4. ASSUME NEW q \in Requests, NEW b \in Bots PROVE Covered(q, b)'
      <4>1. Covered(q, b) /\ (Announced(b) => Announced(b)')
        BY <3>1, <3>2, QuietHints DEF BellInv
      <4> QED
        BY <3>1, <4>1, StaysCovered
    <3> QED
      BY <2>1, <3>3, <3>4 DEF BellInv
  <2> QED
    BY <2>2, <2>3
<1>3. BooksInv /\ BellInv => HoldsSound
  <2> SUFFICES ASSUME BooksInv, BellInv PROVE HoldsSound
    OBVIOUS
  <2>1. TypeOK /\ HoldsAccounted
    BY BooksAreAccounts DEF BooksInv
  <2>2. ASSUME NEW q \in Requests, Undisturbed(q), req[q].pc = "block", Unseen(q)
        PROVE  Announced(BotOf[q])
    <3>1. PICK b \in Bots : b = BotOf[q]
      BY <2>1, WorldFields
    <3>2. ~ req[q].reread /\ req[q].pc \in Waiting
      BY <2>2 DEF BooksInv, Blocked, Waiting
    <3>3. UnseenAbove(b, req[q].cur)
      BY <2>2, <3>1 DEF Unseen, UnseenAbove
    <3>4. Covered(q, b)
      BY DEF BellInv
    <3> QED
      BY <2>2, <3>1, <3>2, <3>3, <3>4 DEF Covered
  <2> QED
    BY <2>1, <2>2 DEF HoldsSound, BellCovers
<1> QED
  BY <1>1, <1>2, <1>3, PTL DEF Spec

-----------------------------------------------------------------------------
(* Ids: the inductive invariant. *)

SeqPcs == {"idle", "probe", "resolve", "legacy", "floors", "seed", "mirror", "gate", "closed",
           "check", "persist", "publish"}
SeqWork == [pc : SeqPcs, stage : {"first", "missing", "regressed"}, att : Nat, epoch : Nat,
            floor : Nat, prev : Nat \cup {None}, mirror : Nat \cup {Bare},
            counterExists : BOOLEAN, rebuild : BOOLEAN, low : Nat, id : Nat]

SeqTypes == SeqTypeOK /\ wk \in [Workers -> SeqWork]

\* Workers that know of an activation, and those that have an epoch and a floor from it.
Based    == {"floors", "seed", "mirror", "gate"}
Counting == Based \cup {"check", "persist"}
\* Workers that have an id which is not in the queue yet.
HasId  == {"check", "persist", "publish"}

Begun    == authority.epoch > 0
Evidence == counter # None \/ Armed

\* Where the cutover is, and what there is to tell a replica that it has begun.
CutoverFits ==
    /\ authority.on => Begun
    /\ counter # None => Begun
    /\ era => Begun
    /\ op = "idle" => ~ Begun
    /\ (op = "paused" /\ Begun) => Evidence
    /\ op = "flipped" => authority.on /\ Quiet /\ \A p \in Procs : belief[p].epoch < authority.epoch
    /\ op = "done" =>
          /\ Begun
          /\ Evidence \/ (authority.on /\ Claims(mirror) /\ \A p \in Procs : belief[p].denied = Absent)

\* A belief in the activation is one that was made.
BeliefFits(b, s) ==
    IF b.kind = "pos" THEN 0 < b.epoch /\ b.epoch <= authority.epoch
    ELSE b.epoch = 0 /\ ~ s

\* What a worker with record r of a process with belief b acts on.
WorkFits(r, b) ==
    /\ r.pc \in Counting => b.kind = "pos"
    /\ r.pc \in Based => 0 < r.epoch /\ r.epoch <= authority.epoch
    /\ r.pc = "legacy" => ~ Begun
    /\ (r.pc = "resolve" /\ Begun /\ ~ r.counterExists) =>
          Armed \/ (Claims(r.mirror) /\ authority.on /\ b.denied = Absent)

ModeInv ==
    /\ SeqTypes /\ CutoverFits
    /\ \A p \in Procs : BeliefFits(belief[p], seeded[p])
    /\ \A w \in Workers : WorkFits(wk[w], belief[procOf[w]])

\* An id is less than a block above what the mark has, or was to have.
NearMark(x) == x < mark + GenSeqStep \/ x < lost + GenSeqStep
\* A floor, or the mark, is what the published ids are measured by.
Above(f)  == f > 0 /\ (top < f \/ NearMark(top))

MarkFits ==
    /\ Begun => Above(authority.floor)
    /\ \A p \in Procs : belief[p].kind = "pos" => Above(belief[p].floor)
    /\ \A w \in Workers : wk[w].pc \in Based => Above(wk[w].floor)
    /\ \A w \in Workers : (Begun /\ At(w, "publish")) => NearMark(wk[w].id)
    /\ \A p \in Procs : lastPersisted[p] <= mark \/ lastPersisted[p] <= lost

\* Number c is not below any id that was handed out.
Covers(c) == top <= c /\ \A w \in Workers : wk[w].pc \in HasId => wk[w].id <= c
\* The counter is below an id that was handed out.
Behind == counter # None /\ ~ Covers(counter)

\* A counter that is lost or behind is about to be raised above every id.
GapFits ==
    (counter = None \/ Behind) =>
        /\ lost <= mark
        /\ \A w \in Workers : wk[w].pc \notin {"check", "persist"}
        /\ \A w \in Workers : At(w, "seed") => Covers(wk[w].low)

\* Until then no gate opens on it.
GateFits ==
    Behind =>
        /\ \A w \in Workers :
              /\ ~ At(w, "mirror")
              /\ At(w, "gate") => wk[w].epoch # mirror
              /\ wk[w].pc \in {"probe", "resolve", "floors", "seed"} => ~ seeded[procOf[w]]
        /\ \A p \in Procs : seeded[p] => belief[p].epoch # mirror

SeqInv == ModeInv /\ MarkFits /\ GapFits /\ GateFits

-----------------------------------------------------------------------------
(* Numbers and records. *)

\* The greater of two numbers, and of four.
LEMMA MaxOfTwo ==
    ASSUME NEW a \in Int, NEW b \in Int
    PROVE  Max({a, b}) \in {a, b} /\ Max({a, b}) >= a /\ Max({a, b}) >= b
<1>1. \E x \in {a, b} : \A y \in {a, b} : x >= y
  OBVIOUS
<1> QED BY <1>1 DEF Max

LEMMA MaxOfFour ==
    ASSUME NEW a \in Int, NEW b \in Int, NEW c \in Int, NEW d \in Int
    PROVE  /\ Max({a, b, c, d}) \in {a, b, c, d}
           /\ \A y \in {a, b, c, d} : Max({a, b, c, d}) >= y
<1>1. \E x \in {a, b, c, d} : \A y \in {a, b, c, d} : x >= y
  <2>1. PICK m \in {a, b} : m >= a /\ m >= b
    OBVIOUS
  <2>2. PICK n \in {c, d} : n >= c /\ n >= d
    OBVIOUS
  <2>3. PICK x \in {m, n} : x >= m /\ x >= n
    BY <2>1, <2>2
  <2>4. x \in {a, b, c, d}
    BY <2>1, <2>2, <2>3
  <2>5. \A y \in {a, b, c, d} : x >= y
    BY <2>1, <2>2, <2>3
  <2> QED BY <2>4, <2>5
<1> QED BY <1>1 DEF Max

LEMMA SeqConstants ==
    /\ GenSeqStep \in Nat \ {0} /\ MaxMishaps \in Nat /\ MaxAllocs \in Nat
    /\ MaxEpoch \in Nat /\ MaxAttempts \in Nat /\ Margin = GenSeqStep + GenSeqStep
    /\ None = -1 /\ Bare = -1 /\ Absent = 0
    /\ Placements \subseteq [Workers -> Procs]
BY SeqAssumption DEF Margin, None, Bare, Absent

\* What a worker's record is made of.
LEMMA SeqWorkFields ==
    ASSUME NEW r \in SeqWork
    PROVE  /\ r.pc \in SeqPcs /\ r.stage \in {"first", "missing", "regressed"}
           /\ r.att \in Nat /\ r.epoch \in Nat /\ r.floor \in Nat /\ r.prev \in Nat \cup {None}
           /\ r.mirror \in Nat \cup {Bare} /\ r.counterExists \in BOOLEAN
           /\ r.rebuild \in BOOLEAN /\ r.low \in Nat /\ r.id \in Nat
BY DEF SeqWork

LEMMA IdleWork == Idle \in SeqWork /\ Idle.pc = "idle"
BY DEF Idle, SeqWork, SeqPcs, Bare, Absent

LEMMA ProbeWork ==
    ASSUME NEW a \in Nat
    PROVE  /\ [Idle EXCEPT !.pc = "probe", !.att = a] \in SeqWork
           /\ [Idle EXCEPT !.pc = "probe", !.att = a].pc = "probe"
BY DEF Idle, SeqWork, SeqPcs, Bare, Absent

LEMMA ClosedWork ==
    ASSUME NEW a \in Nat
    PROVE  /\ [Idle EXCEPT !.pc = "closed", !.att = a] \in SeqWork
           /\ [Idle EXCEPT !.pc = "closed", !.att = a].pc = "closed"
BY DEF Idle, SeqWork, SeqPcs, Bare, Absent

LEMMA LegacyWork ==
    /\ [Idle EXCEPT !.pc = "legacy"] \in SeqWork
    /\ [Idle EXCEPT !.pc = "legacy"].pc = "legacy"
BY DEF Idle, SeqWork, SeqPcs, Bare, Absent

LEMMA SeededWork ==
    ASSUME NEW r \in SeqWork
    PROVE  /\ AfterSeed(r) \in SeqWork /\ AfterSeed(r).pc \in {"mirror", "gate"}
           /\ AfterSeed(r).epoch = r.epoch /\ AfterSeed(r).floor = r.floor
BY DEF SeqWork, SeqPcs, AfterSeed

-----------------------------------------------------------------------------
(* Beliefs. *)

Beliefs == [kind : {"none", "neg", "pos"}, epoch : Nat, floor : Nat, fresh : BOOLEAN,
            denied : Nat \cup {Bare}]

LEMMA BeliefFields ==
    ASSUME NEW b \in Beliefs
    PROVE  /\ b.kind \in {"none", "neg", "pos"} /\ b.epoch \in Nat /\ b.floor \in Nat
           /\ b.denied \in Nat \cup {Bare}
BY DEF Beliefs

LEMMA NegativeBelief ==
    /\ Negative \in Beliefs /\ Negative.kind = "neg" /\ Negative.epoch = 0
    /\ Negative.denied = Absent
BY DEF Negative, NoBelief, Beliefs, Absent, Bare

LEMMA NoneBelief ==
    NoBelief \in Beliefs /\ NoBelief.kind = "none" /\ NoBelief.epoch = 0 /\ NoBelief.denied = Absent
BY DEF NoBelief, Beliefs, Absent, Bare

LEMMA PositiveBelief ==
    ASSUME NEW a, a.epoch \in Nat, a.floor \in Nat
    PROVE  /\ Positive(a) \in Beliefs /\ Positive(a).kind = "pos" /\ Positive(a).epoch = a.epoch
           /\ Positive(a).floor = a.floor /\ Positive(a).denied = Absent
BY DEF Positive, NoBelief, Beliefs, Absent, Bare

\* What a look at the authority's row makes of a belief b, where m is what the mirror says.
Taken(b, m, v) ==
    /\ v.belief \in Beliefs /\ v.ok \in BOOLEAN /\ v.unauthorized \in Nat \cup {Bare}
    /\ v.unauthorized # Absent => v.belief.kind # "pos" /\ ~ authority.on
    /\ \/ v.belief = b
       \/ /\ v.belief.denied = Absent /\ v.belief.kind = "neg" /\ v.belief.epoch = 0
          /\ b.kind # "pos" /\ (authority.on => ~ Claims(m))
       \/ /\ v.belief.denied = Absent /\ v.belief.kind = "pos" /\ authority.on
          /\ v.belief.epoch = authority.epoch /\ v.belief.floor = authority.floor

LEMMA Refreshed ==
    ASSUME SeqTypes, NEW b \in Beliefs, NEW m \in Nat \cup {Bare}, NEW k \in BOOLEAN,
           NEW v, v = RefreshAuthority(b, m, k)
    PROVE  /\ Taken(b, m, v)
           /\ ~ v.ok => v.belief = b
<1>1. authority.epoch \in Nat /\ authority.floor \in Nat
  BY DEF SeqTypes, SeqTypeOK
<1>2. Positive(authority) \in Beliefs /\ Negative \in Beliefs
  BY <1>1, PositiveBelief, NegativeBelief
<1> QED BY <1>1, <1>2, PositiveBelief, NegativeBelief
     DEF RefreshAuthority, Refused, Resolved, Taken, Claims, Absent, Bare

LEMMA ResolvedMode ==
    ASSUME SeqTypes, NEW b \in Beliefs, NEW m \in Nat \cup {Bare}, NEW k \in BOOLEAN,
           NEW v, v = ResolveMode(b, m, k)
    PROVE  /\ Taken(b, m, v)
           /\ (v.ok /\ Claims(m) /\ authority.on /\ b.denied = Absent) => v.belief.kind = "pos"
<1>1. CASE Cached(b, m)
  <2>1. v = Resolved(b, Absent)
    BY <1>1 DEF ResolveMode
  <2>2. v.belief = b /\ v.ok \in BOOLEAN /\ v.unauthorized = Absent
    BY <2>1 DEF Resolved
  <2>3. Taken(b, m, v)
    BY <2>2 DEF Taken, Absent
  <2>4. (Claims(m) /\ b.denied = Absent) => b.kind = "pos"
    BY <1>1 DEF Cached, Claims
  <2> QED BY <2>2, <2>3, <2>4
<1>2. CASE ~ Cached(b, m)
  <2> DEFINE u == RefreshAuthority(b, m, k)
  <2>1. Taken(b, m, u)
    BY Refreshed
  <2>2. (u.ok /\ Claims(m) /\ authority.on) => u.belief.kind = "pos"
    <3>1. authority.epoch \in Nat /\ authority.floor \in Nat
      BY DEF SeqTypes, SeqTypeOK
    <3> QED BY <3>1, PositiveBelief DEF RefreshAuthority, Refused, Resolved
  <2>3. CASE v = u
    BY <2>1, <2>2, <2>3
  <2>4. CASE v = Refused(u.belief)
    <3>1. v.belief = u.belief /\ v.ok \in BOOLEAN /\ ~ v.ok /\ v.unauthorized = Absent
      BY <2>4 DEF Refused
    <3> HIDE DEF u
    <3>2. Taken(b, m, v)
      BY <2>1, <3>1 DEF Taken, Absent
    <3> QED BY <3>1, <3>2
  <2> QED BY <1>2, <2>3, <2>4 DEF ResolveMode
<1> QED BY <1>1, <1>2

-----------------------------------------------------------------------------
(* Types. *)

\* The types but for the workers'.
SharedTypes ==
    /\ authority \in [on : BOOLEAN, epoch : Nat, floor : Nat]
    /\ minSeq \in Nat /\ mark \in Nat /\ queueMax \in Nat /\ top \in Nat
    /\ mirror \in Nat \cup {Bare} /\ counter \in Nat \cup {None}
    /\ op \in {"idle", "paused", "flipped", "done"}
    /\ belief \in [Procs -> Beliefs]
    /\ seeded \in [Procs -> BOOLEAN]
    /\ lastIssued \in [Procs -> Nat \cup {None}]
    /\ lastPersisted \in [Procs -> Nat \cup {None}]
    /\ block \in [Procs -> [at : Nat, top : Nat]]
    /\ expected \in [Procs -> {"unset", "incr"}]
    /\ allocs \in 0..MaxAllocs /\ mishaps \in 0..MaxMishaps /\ era \in BOOLEAN
    /\ lost \in Nat /\ procOf \in Placements

LEMMA TypesSplit == SeqTypes <=> SharedTypes /\ wk \in [Workers -> SeqWork]
<1>1. ASSUME wk \in [Workers -> SeqWork], NEW w \in Workers
      PROVE  wk[w].pc \in SeqPcs
  BY <1>1, SeqWorkFields
<1> QED BY <1>1 DEF SeqTypes, SeqTypeOK, SharedTypes, Beliefs, SeqPcs

LEMMA TypesSplitNext == SeqTypes' <=> SharedTypes' /\ wk' \in [Workers -> SeqWork]
<1>1. ASSUME wk' \in [Workers -> SeqWork], NEW w \in Workers
      PROVE  wk'[w].pc \in SeqPcs
  BY <1>1, SeqWorkFields
<1> QED BY <1>1 DEF SeqTypes, SeqTypeOK, SharedTypes, Beliefs, SeqPcs

LEMMA SeqKnown ==
    ASSUME SeqTypes, NEW w \in Workers
    PROVE  /\ procOf \in [Workers -> Procs] /\ procOf[w] \in Procs /\ wk[w] \in SeqWork
           /\ belief[procOf[w]] \in Beliefs
           /\ procOf[w] \in Running /\ SharedTypes /\ wk \in [Workers -> SeqWork]
<1>1. SharedTypes /\ wk \in [Workers -> SeqWork]
  BY TypesSplit
<1>2. procOf \in [Workers -> Procs]
  BY <1>1, SeqConstants DEF SharedTypes
<1> QED BY <1>1, <1>2 DEF SharedTypes, Running

\* A step of worker w leaves record s.
LEMMA WorkTypes ==
    ASSUME SeqTypes, SharedTypes', NEW w \in Workers, NEW s \in SeqWork, Set(w, s)
    PROVE  /\ SeqTypes' /\ wk'[w] = s
           /\ \A x \in Workers \ {w} : wk'[x] = wk[x]
<1>1. wk \in [Workers -> SeqWork]
  BY TypesSplit
<1>2. wk' \in [Workers -> SeqWork] /\ wk'[w] = s /\ \A x \in Workers \ {w} : wk'[x] = wk[x]
  BY <1>1 DEF Set
<1> QED BY <1>2, TypesSplitNext

\* What a step of worker w leaves alone, but for the parts in the records of the worker and
\* its process.
Alone(w) ==
    /\ \A x \in Workers \ {w} : wk'[x] = wk[x]
    /\ \A p \in Procs \ {procOf[w]} : belief'[p] = belief[p] /\ seeded'[p] = seeded[p]
    /\ UNCHANGED <<authority, op, expected, procOf>>

-----------------------------------------------------------------------------
(* What the steps of a worker do. *)

LEMMA AllocateEffect ==
    ASSUME SeqTypes, NEW w \in Workers, Allocate(w)
    PROVE  /\ SeqTypes' /\ Alone(w) /\ op # "flipped" /\ wk'[w].pc \in {"idle", "probe", "gate"}
           /\ wk'[w].pc = "gate" =>
                 /\ belief[procOf[w]].kind = "pos" /\ seeded[procOf[w]]
                 /\ wk'[w].epoch = belief[procOf[w]].epoch
                 /\ wk'[w].floor = belief[procOf[w]].floor
           /\ wk'[w].pc = "probe" => belief[procOf[w]].kind # "pos" \/ ~ seeded[procOf[w]]
           /\ UNCHANGED <<belief, seeded, mirror, counter, era, top, mark, lost, lastPersisted>>
<1> DEFINE p == procOf[w]
           s == Enter(p, seeded[p], belief[p], 0)
<1>1. belief[p] \in Beliefs /\ SharedTypes
  BY SeqKnown
<1>2. /\ s \in SeqWork /\ s.pc \in {"idle", "probe", "gate"}
      /\ s.pc = "gate" => /\ belief[p].kind = "pos" /\ seeded[p]
                          /\ s.epoch = belief[p].epoch /\ s.floor = belief[p].floor
      /\ s.pc = "probe" => belief[p].kind # "pos" \/ ~ seeded[p]
  <2>1. belief[p].epoch \in Nat /\ belief[p].floor \in Nat
    BY <1>1, BeliefFields
  <2>2. \/ s = Idle
        \/ /\ belief[p].kind = "pos" /\ seeded[p]
           /\ s = [Idle EXCEPT !.pc = "gate", !.att = 0, !.epoch = belief[p].epoch,
                               !.floor = belief[p].floor]
        \/ /\ ~ (belief[p].kind = "pos" /\ seeded[p])
           /\ s = [Idle EXCEPT !.pc = "probe", !.att = 0]
    BY DEF Enter
  <2> HIDE DEF s
  <2>3. CASE s = Idle
    BY <2>3, IdleWork
  <2>4. CASE /\ belief[p].kind = "pos" /\ seeded[p]
             /\ s = [Idle EXCEPT !.pc = "gate", !.att = 0, !.epoch = belief[p].epoch,
                                 !.floor = belief[p].floor]
    <3> HIDE DEF p
    <3>1. s \in SeqWork /\ s.pc = "gate" /\ s.epoch = belief[p].epoch /\ s.floor = belief[p].floor
      BY <2>1, <2>4 DEF Idle, SeqWork, SeqPcs, Bare, Absent
    <3> QED BY <2>4, <3>1
  <2>5. CASE /\ ~ (belief[p].kind = "pos" /\ seeded[p])
             /\ s = [Idle EXCEPT !.pc = "probe", !.att = 0]
    BY <2>5, ProbeWork
  <2> QED BY <2>2, <2>3, <2>4, <2>5
<1>3. Set(w, s)
  BY DEF Allocate
<1>4. UNCHANGED <<durable, redis, op, memory, mishaps, others>> /\ allocs' \in 0..MaxAllocs
  BY <1>1, SeqConstants DEF Allocate, SharedTypes
<1>5. SharedTypes'
  BY <1>1, <1>4 DEF SharedTypes, durable, redis, memory, others
<1>6. /\ SeqTypes' /\ wk'[w] = s /\ \A x \in Workers \ {w} : wk'[x] = wk[x]
  BY <1>2, <1>3, <1>5, WorkTypes
<1>7. op # "flipped"
  BY DEF Allocate
<1> QED BY <1>2, <1>4, <1>6, <1>7 DEF Alone, durable, redis, memory, others

\* A step that leaves everything but the worker's record alone.
Quietly == UNCHANGED <<durable, redis, op, memory, bounds, others>>

LEMMA QuietStep ==
    ASSUME SeqTypes, NEW w \in Workers, NEW s \in SeqWork, Set(w, s), Quietly
    PROVE  /\ SeqTypes' /\ Alone(w) /\ wk'[w] = s
           /\ UNCHANGED <<belief, seeded, mirror, counter, era, top, mark, lost, lastPersisted>>
<1>1. SharedTypes
  BY TypesSplit
<1>2. SharedTypes'
  BY <1>1 DEF SharedTypes, Quietly, durable, redis, memory, others, bounds
<1>3. /\ SeqTypes' /\ wk'[w] = s /\ \A x \in Workers \ {w} : wk'[x] = wk[x]
  BY <1>2, WorkTypes
<1> QED BY <1>3 DEF Alone, Quietly, durable, redis, memory, others, bounds

LEMMA ProbeEffect ==
    ASSUME SeqTypes, NEW w \in Workers, Probe(w)
    PROVE  /\ SeqTypes' /\ Alone(w) /\ At(w, "probe") /\ wk'[w].pc = "resolve"
           /\ wk'[w].mirror = mirror /\ (wk'[w].counterExists <=> counter # None)
           /\ UNCHANGED <<belief, seeded, mirror, counter, era, top, mark, lost, lastPersisted>>
<1>1. wk[w] \in SeqWork /\ mirror \in Nat \cup {Bare}
  BY SeqKnown DEF SharedTypes
<1> DEFINE s == [wk[w] EXCEPT !.pc = "resolve", !.mirror = mirror,
                              !.counterExists = (counter # None)]
<1>2. s \in SeqWork /\ s.pc = "resolve" /\ s.mirror = mirror /\ (s.counterExists <=> counter # None)
  <2>1. CASE counter # None
    <3>1. s = [wk[w] EXCEPT !.pc = "resolve", !.mirror = mirror, !.counterExists = TRUE]
      BY <2>1
    <3> HIDE DEF s
    <3> QED BY <1>1, <2>1, <3>1 DEF SeqWork, SeqPcs
  <2>2. CASE ~ (counter # None)
    <3>1. s = [wk[w] EXCEPT !.pc = "resolve", !.mirror = mirror, !.counterExists = FALSE]
      BY <2>2
    <3> HIDE DEF s
    <3> QED BY <1>1, <2>2, <3>1 DEF SeqWork, SeqPcs
  <2> QED BY <2>1, <2>2
<1>3. Set(w, s) /\ Quietly /\ At(w, "probe")
  BY DEF Probe, Quietly
<1> HIDE DEF s
<1> QED BY <1>2, <1>3, QuietStep

LEMMA ReadFloorsEffect ==
    ASSUME SeqTypes, NEW w \in Workers, ReadFloors(w)
    PROVE  /\ SeqTypes' /\ Alone(w) /\ At(w, "floors")
           /\ wk'[w].epoch = wk[w].epoch /\ wk'[w].floor = wk[w].floor
           /\ \/ seeded[procOf[w]] /\ wk'[w].pc \in {"mirror", "gate"}
              \/ /\ ~ seeded[procOf[w]] /\ wk'[w].pc = "seed"
                 /\ wk[w].floor > 0 => /\ wk'[w].low >= wk[w].floor + Margin
                                       /\ wk'[w].low >= mark + Margin
           /\ UNCHANGED <<belief, seeded, mirror, counter, era, top, mark, lost, lastPersisted>>
<1> DEFINE r == wk[w]
           f == Max({queueMax, minSeq, mark, r.floor})
           l == SeedFloor(r.floor)
           s == IF seeded[procOf[w]] THEN AfterSeed(r) ELSE [r EXCEPT !.pc = "seed", !.low = l]
<1>1. r \in SeqWork /\ r.floor \in Nat /\ mark \in Nat /\ queueMax \in Nat /\ minSeq \in Nat
  BY SeqKnown, SeqWorkFields DEF SharedTypes
<1>2. f \in Nat /\ f >= r.floor /\ f >= mark
  <2> DEFINE n == r.floor
  <2>1. n \in Nat
    BY <1>1
  <2> HIDE DEF n
  <2>2. /\ Max({queueMax, minSeq, mark, n}) \in {queueMax, minSeq, mark, n}
        /\ \A y \in {queueMax, minSeq, mark, n} : Max({queueMax, minSeq, mark, n}) >= y
    <3>1. queueMax \in Int /\ minSeq \in Int /\ mark \in Int /\ n \in Int
      BY <1>1, <2>1
    <3> QED BY <3>1, MaxOfFour
  <2> QED BY <1>1, <2>1, <2>2 DEF n
<1>3. l \in Nat /\ (r.floor > 0 => l >= r.floor + Margin /\ l >= mark + Margin)
  <2>1. Margin \in Nat
    BY SeqConstants
  <2>2. l = IF f > 0 THEN f + Margin ELSE 0
    BY DEF SeedFloor
  <2> HIDE DEF f, l
  <2> QED BY <1>1, <1>2, <2>1, <2>2
<1>4. /\ s \in SeqWork /\ s.epoch = r.epoch /\ s.floor = r.floor
      /\ \/ seeded[procOf[w]] /\ s.pc \in {"mirror", "gate"}
         \/ ~ seeded[procOf[w]] /\ s.pc = "seed" /\ s.low = l
  <2> HIDE DEF l
  <2>1. CASE seeded[procOf[w]]
    BY <1>1, <2>1, SeededWork
  <2>2. CASE ~ seeded[procOf[w]]
    <3>1. s = [r EXCEPT !.pc = "seed", !.low = l]
      BY <2>2
    <3>2. l \in Nat
      BY <1>3
    <3> HIDE DEF s, r
    <3>3. s \in SeqWork /\ s.pc = "seed" /\ s.low = l /\ s.epoch = r.epoch /\ s.floor = r.floor
      BY <1>1, <3>1, <3>2 DEF SeqWork, SeqPcs
    <3> QED BY <2>2, <3>3
  <2> QED BY <2>1, <2>2
<1>5. Set(w, s) /\ Quietly /\ At(w, "floors")
  BY DEF ReadFloors, Quietly
<1> HIDE DEF s, l, f
<1> QED BY <1>3, <1>4, <1>5, QuietStep

LEMMA GateShutEffect ==
    ASSUME SeqTypes, NEW w \in Workers, GateShut(w)
    PROVE  /\ SeqTypes' /\ Alone(w) /\ At(w, "gate") /\ wk'[w].pc \in {"idle", "closed"}
           /\ UNCHANGED <<belief, seeded, mirror, counter, era, top, mark, lost, lastPersisted>>
<1> DEFINE s == IF wk[w].att + 1 >= MaxAttempts THEN Idle
                ELSE [Idle EXCEPT !.pc = "closed", !.att = wk[w].att + 1]
<1>1. wk[w].att + 1 \in Nat
  BY SeqKnown, SeqWorkFields
<1>2. s \in SeqWork /\ s.pc \in {"idle", "closed"}
  BY <1>1, IdleWork, ClosedWork
<1>3. Set(w, s) /\ Quietly /\ At(w, "gate")
  BY DEF GateShut, Quietly
<1> HIDE DEF s
<1> QED BY <1>2, <1>3, QuietStep

LEMMA FailEffect ==
    ASSUME SeqTypes, NEW w \in Workers, CallFails(w)
    PROVE  /\ SeqTypes' /\ Alone(w) /\ wk[w].pc # "idle" /\ wk'[w].pc = "idle"
           /\ UNCHANGED <<belief, seeded, mirror, counter, era, top, mark, lost, lastPersisted>>
<1>1. Set(w, Idle) /\ Quietly /\ wk[w].pc # "idle"
  BY DEF CallFails, Quietly
<1> QED BY <1>1, IdleWork, QuietStep

\* Worker w's process takes answer v, and the worker acts on it.
ResolvedTo(w, v) ==
    /\ Taken(belief[procOf[w]], wk[w].mirror, v)
    /\ (v.ok /\ Claims(wk[w].mirror) /\ authority.on /\ belief[procOf[w]].denied = Absent) =>
          v.belief.kind = "pos"
    /\ belief'[procOf[w]].kind = v.belief.kind
    /\ belief'[procOf[w]].epoch = v.belief.epoch
    /\ belief'[procOf[w]].floor = v.belief.floor
    /\ belief'[procOf[w]].denied = v.belief.denied \/ ~ authority.on
    /\ \/ /\ wk'[w].pc = "floors" /\ v.ok /\ v.belief.kind = "pos"
          /\ wk'[w].epoch = v.belief.epoch /\ wk'[w].floor = v.belief.floor
       \/ /\ wk'[w].pc = "legacy" /\ v.ok /\ v.belief.kind # "pos"
          /\ ~ wk[w].counterExists /\ ~ Armed
          /\ seeded'[procOf[w]] = seeded[procOf[w]]
       \/ wk'[w].pc = "idle" /\ seeded'[procOf[w]] = seeded[procOf[w]]

LEMMA ResolveEffect ==
    ASSUME SeqTypes, NEW w \in Workers, NEW k \in BOOLEAN, Resolve(w, k),
           mishaps' \in 0..MaxMishaps
    PROVE  /\ SeqTypes' /\ Alone(w) /\ At(w, "resolve")
           /\ \E v : ResolvedTo(w, v)
           /\ seeded'[procOf[w]] => seeded[procOf[w]]
           /\ \A p \in Procs : lastPersisted'[p] = lastPersisted[p] \/ lastPersisted'[p] = None
           /\ UNCHANGED <<mirror, counter, era, top, mark, lost>>
<1> DEFINE p == procOf[w]
           m == wk[w].mirror
           v == ResolveMode(belief[p], m, k)
           active == v.belief.kind = "pos"
           go == v.ok /\ Permits(p, active)
           rebuild == m # v.belief.epoch
           b == IF go /\ v.unauthorized # Absent /\ ~ wk[w].counterExists
                THEN [v.belief EXCEPT !.denied = v.unauthorized] ELSE v.belief
<1>1. /\ wk[w] \in SeqWork /\ p \in Procs /\ belief[p] \in Beliefs /\ p \in Running
      /\ SharedTypes /\ m \in Nat \cup {Bare} /\ wk \in [Workers -> SeqWork]
  BY SeqKnown, SeqWorkFields
<1>2. /\ Taken(belief[p], m, v)
      /\ (v.ok /\ Claims(m) /\ authority.on /\ belief[p].denied = Absent) => active
  <2> HIDE DEF m, p
  <2> QED BY <1>1, ResolvedMode
<1>3. /\ belief' = [belief EXCEPT ![p] = b] /\ At(w, "resolve")
      /\ \/ /\ go /\ active
            /\ Set(w, [Idle EXCEPT !.pc = "floors", !.att = wk[w].att,
                                   !.epoch = v.belief.epoch, !.floor = v.belief.floor,
                                   !.rebuild = rebuild])
            /\ seeded' = [seeded EXCEPT ![p] = seeded[p] /\ ~ rebuild]
            /\ lastPersisted' = [lastPersisted EXCEPT ![p] = IF rebuild THEN None ELSE @]
         \/ /\ ~ (go /\ active)
            /\ Set(w, IF go /\ LegacyAllowed(p, wk[w].counterExists)
                      THEN [Idle EXCEPT !.pc = "legacy"] ELSE Idle)
            /\ UNCHANGED <<seeded, lastPersisted>>
      /\ UNCHANGED <<durable, redis, op, lastIssued, block, expected, allocs, others>>
  BY DEF Resolve
<1>4. /\ b \in Beliefs /\ b.kind = v.belief.kind /\ b.epoch = v.belief.epoch
      /\ b.floor = v.belief.floor /\ (b.denied = v.belief.denied \/ ~ authority.on)
  <2> HIDE DEF v, go
  <2>1. v.belief \in Beliefs /\ v.unauthorized \in Nat \cup {Bare}
        /\ (v.unauthorized # Absent => ~ authority.on)
    BY <1>2 DEF Taken
  <2> QED BY <2>1 DEF Beliefs
<1>5. v.belief.epoch \in Nat /\ v.belief.floor \in Nat
  BY <1>2, BeliefFields DEF Taken
<1>6. Permits(p, active) /\ ~ active => ~ Armed
  BY <1>1 DEF Permits, Armed
<1> DEFINE s == wk'[w]
<1> HIDE DEF v, b
<1>7. /\ belief'[p] = b /\ belief' \in [Procs -> Beliefs]
      /\ \A q \in Procs \ {p} : belief'[q] = belief[q]
  BY <1>1, <1>3, <1>4 DEF SharedTypes
<1>8. CASE /\ go /\ active
           /\ Set(w, [Idle EXCEPT !.pc = "floors", !.att = wk[w].att,
                                  !.epoch = v.belief.epoch, !.floor = v.belief.floor,
                                  !.rebuild = rebuild])
           /\ seeded' = [seeded EXCEPT ![p] = seeded[p] /\ ~ rebuild]
           /\ lastPersisted' = [lastPersisted EXCEPT ![p] = IF rebuild THEN None ELSE @]
  <2> DEFINE t == [Idle EXCEPT !.pc = "floors", !.att = wk[w].att,
                               !.epoch = v.belief.epoch, !.floor = v.belief.floor,
                               !.rebuild = rebuild]
  <2>1. wk[w].att \in Nat /\ rebuild \in BOOLEAN
    BY <1>1, SeqWorkFields
  <2>2. t \in SeqWork /\ t.pc = "floors" /\ t.epoch = v.belief.epoch /\ t.floor = v.belief.floor
    <3> HIDE DEF rebuild
    <3> QED BY <1>5, <2>1 DEF Idle, SeqWork, SeqPcs, Bare, Absent
  <2>3. Set(w, t)
    BY <1>8
  <2>4. /\ seeded' \in [Procs -> BOOLEAN] /\ (seeded'[p] => seeded[p])
        /\ \A q \in Procs \ {p} : seeded'[q] = seeded[q]
    <3> HIDE DEF rebuild
    <3> QED BY <1>1, <1>8, <2>1 DEF SharedTypes
  <2>5. /\ lastPersisted' \in [Procs -> Nat \cup {None}]
        /\ \A q \in Procs : lastPersisted'[q] = lastPersisted[q] \/ lastPersisted'[q] = None
    <3> HIDE DEF rebuild
    <3> QED BY <1>1, <1>8 DEF SharedTypes
  <2> HIDE DEF t
  <2>6. SharedTypes'
    BY <1>1, <1>3, <1>7, <2>4, <2>5 DEF SharedTypes, durable, redis, others
  <2>7. SeqTypes' /\ wk'[w] = t /\ \A x \in Workers \ {w} : wk'[x] = wk[x]
    BY <2>2, <2>3, <2>6, WorkTypes
  <2>8. Alone(w) /\ UNCHANGED <<mirror, counter, era, top, mark, lost>>
    BY <1>3, <1>7, <2>4, <2>7 DEF Alone, durable, redis, others
  <2>9. ResolvedTo(w, v)
    BY <1>2, <1>4, <1>7, <1>8, <2>2, <2>7 DEF ResolvedTo
  <2> QED BY <1>3, <2>4, <2>5, <2>7, <2>8, <2>9
<1>9. CASE /\ ~ (go /\ active)
           /\ Set(w, IF go /\ LegacyAllowed(p, wk[w].counterExists)
                     THEN [Idle EXCEPT !.pc = "legacy"] ELSE Idle)
           /\ UNCHANGED <<seeded, lastPersisted>>
  <2>1. SharedTypes'
    BY <1>1, <1>3, <1>7, <1>9 DEF SharedTypes, durable, redis, others
  <2>2. /\ SeqTypes' /\ \A x \in Workers \ {w} : wk'[x] = wk[x]
        /\ \/ wk'[w].pc = "legacy" /\ go /\ LegacyAllowed(p, wk[w].counterExists)
           \/ wk'[w].pc = "idle"
    <3>1. CASE go /\ LegacyAllowed(p, wk[w].counterExists)
      <4>1. Set(w, [Idle EXCEPT !.pc = "legacy"])
        BY <1>9, <3>1
      <4> QED BY <2>1, <3>1, <4>1, LegacyWork, WorkTypes
    <3>2. CASE ~ (go /\ LegacyAllowed(p, wk[w].counterExists))
      <4>1. Set(w, Idle)
        BY <1>9, <3>2
      <4> QED BY <2>1, <4>1, IdleWork, WorkTypes
    <3> QED BY <3>1, <3>2
  <2>3. Alone(w) /\ UNCHANGED <<mirror, counter, era, top, mark, lost>>
    BY <1>3, <1>7, <1>9, <2>2 DEF Alone, durable, redis, others
  <2>4. \/ /\ wk'[w].pc = "legacy" /\ v.ok /\ ~ active
           /\ ~ wk[w].counterExists /\ ~ Armed
        \/ wk'[w].pc = "idle"
    BY <1>6, <1>9, <2>2 DEF LegacyAllowed
  <2>5. ResolvedTo(w, v)
    BY <1>2, <1>4, <1>7, <1>9, <2>4 DEF ResolvedTo
  <2> QED BY <1>3, <1>9, <2>2, <2>3, <2>5
<1> QED BY <1>3, <1>8, <1>9

LEMMA ReresolveEffect ==
    ASSUME SeqTypes, NEW w \in Workers, NEW k \in BOOLEAN, Reresolve(w, k),
           mishaps' \in 0..MaxMishaps
    PROVE  /\ SeqTypes' /\ Alone(w) /\ At(w, "closed")
           /\ \E v : /\ Taken(belief[procOf[w]], Absent, v)
                     /\ belief'[procOf[w]] = v.belief
                     /\ v.belief = belief[procOf[w]] \/ v.belief.kind # "pos" \/ ~ seeded'[procOf[w]]
           /\ wk'[w].pc = "idle" \/ (wk'[w].pc = "probe" /\ ~ seeded'[procOf[w]])
           /\ seeded'[procOf[w]] => seeded[procOf[w]]
           /\ UNCHANGED <<mirror, counter, era, top, mark, lost, lastPersisted>>
<1> DEFINE p == procOf[w]
           v == RefreshAuthority(belief[p], Absent, k)
           go == v.ok /\ Permits(p, v.belief.kind = "pos")
<1>1. /\ wk[w] \in SeqWork /\ p \in Procs /\ belief[p] \in Beliefs
      /\ SharedTypes /\ wk \in [Workers -> SeqWork] /\ Absent \in Nat \cup {Bare}
  BY SeqKnown, SeqConstants
<1>2. Taken(belief[p], Absent, v) /\ (~ v.ok => v.belief = belief[p])
  <2> HIDE DEF p
  <2> QED BY <1>1, Refreshed
<1>3. /\ belief' = [belief EXCEPT ![p] = v.belief] /\ At(w, "closed")
      /\ seeded' = [seeded EXCEPT ![p] = seeded[p] /\ ~ go]
      /\ Set(w, IF go THEN Enter(p, FALSE, v.belief, wk[w].att) ELSE Idle)
      /\ UNCHANGED <<durable, redis, op, lastIssued, lastPersisted, block, expected, allocs,
                     others>>
  BY DEF Reresolve
<1>4. v.belief.kind = "pos" /\ v.ok => go
  BY <1>1 DEF Permits, SharedTypes
<1>5. v.belief \in Beliefs /\ v.ok \in BOOLEAN
  BY <1>2 DEF Taken
<1> HIDE DEF v
<1>6. go \in BOOLEAN
  BY <1>5
<1>7. v.belief = belief[p] \/ v.belief.kind # "pos" \/ go
  BY <1>2, <1>4
<1> HIDE DEF go
<1>8. /\ belief'[p] = v.belief /\ belief' \in [Procs -> Beliefs]
      /\ \A q \in Procs \ {p} : belief'[q] = belief[q]
  BY <1>1, <1>3, <1>5 DEF SharedTypes
<1>9. /\ seeded' \in [Procs -> BOOLEAN] /\ (seeded'[p] => seeded[p] /\ ~ go)
      /\ \A q \in Procs \ {p} : seeded'[q] = seeded[q]
  BY <1>1, <1>3, <1>6 DEF SharedTypes
<1>10. SharedTypes'
  BY <1>1, <1>3, <1>8, <1>9 DEF SharedTypes, durable, redis, others
<1>11. /\ SeqTypes' /\ \A x \in Workers \ {w} : wk'[x] = wk[x]
       /\ wk'[w].pc = "idle" \/ (wk'[w].pc = "probe" /\ go)
  <2>1. Enter(p, FALSE, v.belief, wk[w].att) \in
            {Idle, [Idle EXCEPT !.pc = "probe", !.att = wk[w].att]}
    BY DEF Enter
  <2>2. CASE Set(w, Idle)
    BY <1>10, <2>2, IdleWork, WorkTypes
  <2>3. CASE go /\ Set(w, [Idle EXCEPT !.pc = "probe", !.att = wk[w].att])
    <3>1. wk[w].att \in Nat
      BY <1>1, SeqWorkFields
    <3>2. /\ [Idle EXCEPT !.pc = "probe", !.att = wk[w].att] \in SeqWork
          /\ [Idle EXCEPT !.pc = "probe", !.att = wk[w].att].pc = "probe"
      BY <3>1, ProbeWork
    <3> QED BY <1>10, <2>3, <3>2, WorkTypes
  <2> QED BY <1>3, <2>1, <2>2, <2>3
<1>12. Alone(w) /\ UNCHANGED <<mirror, counter, era, top, mark, lost, lastPersisted>>
  BY <1>3, <1>8, <1>9, <1>11 DEF Alone, durable, redis, others
<1> QED BY <1>2, <1>3, <1>7, <1>8, <1>9, <1>11, <1>12

LEMMA LegacyEffect ==
    ASSUME SeqTypes, NEW w \in Workers, Legacy(w)
    PROVE  /\ SeqTypes' /\ Alone(w) /\ At(w, "legacy") /\ wk'[w].pc = "publish"
           /\ UNCHANGED <<belief, seeded, mirror, counter, era, top, mark, lost, lastPersisted>>
<1> DEFINE p == procOf[w]
           b == IF block[p] = ColdBlock THEN [at |-> minSeq, top |-> minSeq] ELSE block[p]
           hi == IF b.at = b.top THEN b.top + GenSeqStep ELSE b.top
<1>1. /\ At(w, "legacy") /\ block' = [block EXCEPT ![p] = [at |-> b.at + 1, top |-> hi]]
      /\ minSeq' = IF b.at = b.top THEN hi ELSE minSeq
      /\ Set(w, [Idle EXCEPT !.pc = "publish", !.id = b.at + 1])
      /\ UNCHANGED <<authority, mark, redis, op, belief, seeded, lastIssued, lastPersisted,
                     expected, bounds, others>>
  BY DEF Legacy
<1>2. SharedTypes /\ p \in Procs /\ GenSeqStep \in Nat
  BY SeqKnown, SeqConstants
<1>3. b \in [at : Nat, top : Nat]
  BY <1>2 DEF SharedTypes
<1> HIDE DEF b
<1>4. b.at \in Nat /\ b.top \in Nat /\ hi \in Nat /\ b.at + 1 \in Nat
  BY <1>2, <1>3
<1> HIDE DEF hi
<1>5. SharedTypes'
  BY <1>1, <1>2, <1>4 DEF SharedTypes, redis, bounds, others
<1>6. LET s == [Idle EXCEPT !.pc = "publish", !.id = b.at + 1] IN
      s \in SeqWork /\ s.pc = "publish"
  BY <1>4 DEF Idle, SeqWork, SeqPcs, Bare, Absent
<1>7. /\ SeqTypes' /\ wk'[w].pc = "publish" /\ \A x \in Workers \ {w} : wk'[x] = wk[x]
  BY <1>1, <1>5, <1>6, WorkTypes
<1> QED BY <1>1, <1>7 DEF Alone, redis, others

LEMMA SeedEffect ==
    ASSUME SeqTypes, NEW w \in Workers, Seed(w)
    PROVE  /\ SeqTypes' /\ Alone(w) /\ At(w, "seed") /\ wk'[w].pc \in {"mirror", "gate"}
           /\ wk'[w].epoch = wk[w].epoch /\ wk'[w].floor = wk[w].floor
           /\ counter' \in Nat /\ counter' >= counter /\ counter' >= wk[w].low
           /\ seeded'[procOf[w]]
           /\ UNCHANGED <<belief, mirror, era, top, mark, lost, lastPersisted>>
<1> DEFINE p == procOf[w]
<1>1. /\ At(w, "seed") /\ counter' = Max({counter, wk[w].low})
      /\ seeded' = [seeded EXCEPT ![p] = TRUE] /\ Set(w, AfterSeed(wk[w]))
      /\ UNCHANGED <<durable, mirror, queueMax, op, belief, lastIssued, lastPersisted, block,
                     expected, bounds, others>>
  BY DEF Seed
<1>2. SharedTypes /\ p \in Procs /\ wk[w] \in SeqWork /\ wk[w].low \in Nat /\ None = -1
  BY SeqKnown, SeqWorkFields, SeqConstants
<1>3. counter' \in Nat /\ counter' >= counter /\ counter' >= wk[w].low
  <2> DEFINE l == wk[w].low
  <2>1. counter \in Int /\ l \in Int /\ l >= 0
    BY <1>2 DEF SharedTypes
  <2> HIDE DEF l
  <2>2. /\ Max({counter, l}) \in {counter, l}
        /\ Max({counter, l}) >= counter /\ Max({counter, l}) >= l
    BY <2>1, MaxOfTwo
  <2> QED BY <1>1, <2>1, <2>2 DEF l
<1>4. seeded' \in [Procs -> BOOLEAN] /\ seeded'[p] /\ \A q \in Procs \ {p} : seeded'[q] = seeded[q]
  BY <1>1, <1>2 DEF SharedTypes
<1>5. SharedTypes'
  BY <1>1, <1>2, <1>3, <1>4 DEF SharedTypes, durable, bounds, others
<1>6. /\ AfterSeed(wk[w]) \in SeqWork /\ AfterSeed(wk[w]).pc \in {"mirror", "gate"}
      /\ AfterSeed(wk[w]).epoch = wk[w].epoch /\ AfterSeed(wk[w]).floor = wk[w].floor
  BY <1>2, SeededWork
<1>7. /\ SeqTypes' /\ wk'[w] = AfterSeed(wk[w]) /\ \A x \in Workers \ {w} : wk'[x] = wk[x]
  BY <1>1, <1>5, <1>6, WorkTypes
<1> QED BY <1>1, <1>3, <1>4, <1>6, <1>7 DEF Alone, durable, others

LEMMA RebuildEffect ==
    ASSUME SeqTypes, NEW w \in Workers, RebuildMirror(w)
    PROVE  /\ SeqTypes' /\ Alone(w) /\ At(w, "mirror") /\ wk'[w].pc = "gate"
           /\ wk'[w].epoch = wk[w].epoch /\ wk'[w].floor = wk[w].floor
           /\ mirror' = wk[w].epoch
           /\ UNCHANGED <<belief, seeded, counter, era, top, mark, lost, lastPersisted>>
<1> DEFINE s == [wk[w] EXCEPT !.pc = "gate"]
<1>1. /\ At(w, "mirror") /\ mirror' = wk[w].epoch /\ Set(w, s)
      /\ UNCHANGED <<durable, counter, queueMax, op, memory, bounds, others>>
  BY DEF RebuildMirror
<1>2. SharedTypes /\ wk[w] \in SeqWork /\ wk[w].epoch \in Nat
  BY SeqKnown, SeqWorkFields
<1>3. s \in SeqWork /\ s.pc = "gate" /\ s.epoch = wk[w].epoch /\ s.floor = wk[w].floor
  BY <1>2 DEF SeqWork, SeqPcs
<1>4. SharedTypes'
  BY <1>1, <1>2 DEF SharedTypes, durable, bounds, memory, others
<1> HIDE DEF s
<1>5. /\ SeqTypes' /\ wk'[w] = s /\ \A x \in Workers \ {w} : wk'[x] = wk[x]
  BY <1>1, <1>3, <1>4, WorkTypes
<1> QED BY <1>1, <1>3, <1>5 DEF Alone, durable, memory, others

LEMMA MissingEffect ==
    ASSUME SeqTypes, NEW w \in Workers, GateMissing(w)
    PROVE  /\ SeqTypes' /\ Alone(w) /\ At(w, "gate") /\ counter = None
           /\ \/ wk'[w].pc = "floors" /\ wk'[w].epoch = wk[w].epoch /\ wk'[w].floor = wk[w].floor
              \/ wk'[w].pc = "idle"
           /\ seeded'[procOf[w]] => seeded[procOf[w]]
           /\ \A p \in Procs : lastPersisted'[p] = lastPersisted[p] \/ lastPersisted'[p] = None
           /\ UNCHANGED <<belief, mirror, counter, era, top, mark, lost>>
<1> DEFINE p == procOf[w]
           s == [wk[w] EXCEPT !.pc = "floors", !.stage = "missing"]
<1>1. /\ At(w, "gate") /\ counter = None
      /\ \/ /\ seeded' = [seeded EXCEPT ![p] = FALSE]
            /\ lastPersisted' = [lastPersisted EXCEPT ![p] = None]
            /\ Set(w, s)
         \/ Set(w, Idle) /\ UNCHANGED <<seeded, lastPersisted>>
      /\ UNCHANGED <<durable, redis, op, belief, lastIssued, block, expected, bounds, others>>
  BY DEF GateMissing, GateReady
<1>2. SharedTypes /\ p \in Procs /\ wk[w] \in SeqWork
  BY SeqKnown
<1>3. s \in SeqWork /\ s.pc = "floors" /\ s.epoch = wk[w].epoch /\ s.floor = wk[w].floor
  BY <1>2 DEF SeqWork, SeqPcs
<1>4. /\ seeded' \in [Procs -> BOOLEAN] /\ (seeded'[p] => seeded[p])
      /\ \A q \in Procs \ {p} : seeded'[q] = seeded[q]
      /\ lastPersisted' \in [Procs -> Nat \cup {None}]
      /\ \A q \in Procs : lastPersisted'[q] = lastPersisted[q] \/ lastPersisted'[q] = None
  BY <1>1, <1>2 DEF SharedTypes
<1>5. SharedTypes'
  BY <1>1, <1>2, <1>4 DEF SharedTypes, durable, redis, bounds, others
<1> HIDE DEF s
<1>6. /\ SeqTypes' /\ wk'[w] \in {s, Idle} /\ \A x \in Workers \ {w} : wk'[x] = wk[x]
  BY <1>1, <1>3, <1>5, IdleWork, WorkTypes
<1> QED BY <1>1, <1>3, <1>4, <1>6, IdleWork DEF Alone, durable, redis, others

LEMMA IssueEffect ==
    ASSUME SeqTypes, NEW w \in Workers, GateIssue(w)
    PROVE  /\ SeqTypes' /\ Alone(w) /\ At(w, "gate") /\ wk[w].epoch = mirror /\ counter # None
           /\ counter \in Nat /\ counter' = counter + 1
           /\ wk'[w].pc = "idle" \/ (wk'[w].pc \in {"check", "persist"} /\ wk'[w].id = counter + 1)
           /\ UNCHANGED <<belief, seeded, mirror, top, mark, lost, lastPersisted>>
<1> DEFINE p == procOf[w]
           v == counter + 1
           r == wk[w]
           c == [Idle EXCEPT !.pc = "check", !.id = v,
                             !.att = IF r.stage = "missing" THEN r.att + 1 ELSE r.att]
           d == [Idle EXCEPT !.pc = "persist", !.id = v]
<1>1. /\ At(w, "gate") /\ mirror = r.epoch /\ counter # None /\ counter' = v /\ era' = TRUE
      /\ \/ /\ lastIssued' = [lastIssued EXCEPT ![p] = IF v > r.prev THEN Max({lastIssued[p], v})
                                                        ELSE lastIssued[p]]
            /\ Set(w, IF v > r.prev THEN d ELSE Idle)
         \/ Set(w, c) /\ UNCHANGED lastIssued
      /\ UNCHANGED <<durable, mirror, queueMax, op, belief, seeded, lastPersisted, block,
                     expected, bounds, top, lost, procOf>>
  BY DEF GateIssue, GateOpen, GateReady
<1>2. SharedTypes /\ p \in Procs /\ r \in SeqWork /\ r.att \in Nat /\ None = -1
  BY SeqKnown, SeqWorkFields, SeqConstants
<1>3. counter \in Nat /\ v \in Nat
  BY <1>1, <1>2 DEF SharedTypes
<1>4. c \in SeqWork /\ c.pc = "check" /\ c.id = v
  <2> DEFINE a == IF r.stage = "missing" THEN r.att + 1 ELSE r.att
  <2>1. a \in Nat
    BY <1>2
  <2> HIDE DEF v, a
  <2>2. LET e == [Idle EXCEPT !.pc = "check", !.id = v, !.att = a] IN
        e \in SeqWork /\ e.pc = "check" /\ e.id = v
    BY <1>3, <2>1 DEF Idle, SeqWork, SeqPcs, Bare, Absent
  <2> QED BY <2>2 DEF a
<1>5. d \in SeqWork /\ d.pc = "persist" /\ d.id = v
  <2> HIDE DEF v
  <2> QED BY <1>3 DEF Idle, SeqWork, SeqPcs, Bare, Absent
<1>6. lastIssued' \in [Procs -> Nat \cup {None}]
  <2>1. lastIssued[p] \in Int /\ lastIssued[p] \in Nat \cup {None} /\ v \in Int
    BY <1>2, <1>3 DEF SharedTypes
  <2>2. Max({lastIssued[p], v}) \in Nat \cup {None}
    <3> DEFINE i == lastIssued[p]
    <3> HIDE DEF v, i
    <3>1. i \in Int /\ v \in Int
      BY <2>1 DEF i
    <3>2. Max({i, v}) \in {i, v}
      BY <3>1, MaxOfTwo
    <3> QED BY <1>3, <2>1, <3>2 DEF i
  <2> HIDE DEF v
  <2> QED BY <1>1, <1>2, <2>1, <2>2 DEF SharedTypes
<1>7. SharedTypes'
  BY <1>1, <1>2, <1>3, <1>6 DEF SharedTypes, durable, bounds
<1> HIDE DEF c, d, v
<1>8. /\ SeqTypes' /\ wk'[w] \in {c, d, Idle} /\ \A x \in Workers \ {w} : wk'[x] = wk[x]
  <2>1. Set(w, c) \/ Set(w, d) \/ Set(w, Idle)
    BY <1>1
  <2> QED BY <1>4, <1>5, <1>7, <2>1, IdleWork, WorkTypes
<1>9. Alone(w) /\ UNCHANGED <<belief, seeded, mirror, top, mark, lost, lastPersisted>>
  BY <1>1, <1>8 DEF Alone, durable
<1> QED BY <1>1, <1>3, <1>4, <1>5, <1>8, <1>9, IdleWork DEF v

LEMMA AfterIssueEffect ==
    ASSUME SeqTypes, NEW w \in Workers, AfterIssue(w)
    PROVE  /\ SeqTypes' /\ Alone(w) /\ At(w, "check")
           /\ \/ wk'[w].pc = "idle"
              \/ wk'[w].pc = "persist" /\ wk'[w].id = wk[w].id
              \/ /\ wk'[w].pc = "floors"
                 /\ wk'[w].epoch = belief[procOf[w]].epoch
                 /\ wk'[w].floor = belief[procOf[w]].floor
           /\ seeded'[procOf[w]] => seeded[procOf[w]]
           /\ \A p \in Procs : lastPersisted'[p] = lastPersisted[p] \/ lastPersisted'[p] = None
           /\ UNCHANGED <<belief, mirror, counter, era, top, mark, lost>>
<1> DEFINE p == procOf[w]
           r == wk[w]
           f == [Idle EXCEPT !.pc = "floors", !.stage = "regressed", !.att = r.att,
                             !.epoch = belief[p].epoch, !.floor = belief[p].floor,
                             !.prev = lastIssued[p]]
           d == [Idle EXCEPT !.pc = "persist", !.id = r.id]
<1>1. /\ At(w, "check")
      /\ \/ Set(w, Idle) /\ UNCHANGED <<seeded, lastPersisted, lastIssued>>
         \/ /\ seeded' = [seeded EXCEPT ![p] = FALSE]
            /\ lastPersisted' = [lastPersisted EXCEPT ![p] = None]
            /\ Set(w, f) /\ UNCHANGED lastIssued
         \/ /\ lastIssued' = [lastIssued EXCEPT ![p] = Max({lastIssued[p], r.id})]
            /\ Set(w, d) /\ UNCHANGED <<seeded, lastPersisted>>
      /\ UNCHANGED <<durable, redis, op, belief, block, expected, bounds, others>>
  BY DEF AfterIssue
<1>2. /\ SharedTypes /\ p \in Procs /\ r \in SeqWork /\ r.att \in Nat /\ r.id \in Nat
      /\ belief[p] \in Beliefs /\ None = -1
  BY SeqKnown, SeqWorkFields, SeqConstants
<1>3. f \in SeqWork /\ f.pc = "floors" /\ f.epoch = belief[p].epoch /\ f.floor = belief[p].floor
  <2>1. belief[p].epoch \in Nat /\ belief[p].floor \in Nat /\ lastIssued[p] \in Nat \cup {None}
    BY <1>2, BeliefFields DEF SharedTypes
  <2> DEFINE a == r.att
             e == belief[p].epoch
             g == belief[p].floor
             i == lastIssued[p]
  <2>2. a \in Nat /\ e \in Nat /\ g \in Nat /\ i \in Nat \cup {None}
    BY <1>2, <2>1
  <2> HIDE DEF a, e, g, i
  <2>3. LET h == [Idle EXCEPT !.pc = "floors", !.stage = "regressed", !.att = a,
                              !.epoch = e, !.floor = g, !.prev = i]
        IN  h \in SeqWork /\ h.pc = "floors" /\ h.epoch = e /\ h.floor = g
    BY <2>2 DEF Idle, SeqWork, SeqPcs, Bare, Absent
  <2> QED BY <2>3 DEF a, e, g, i
<1>4. d \in SeqWork /\ d.pc = "persist" /\ d.id = r.id
  <2> HIDE DEF r
  <2> QED BY <1>2 DEF Idle, SeqWork, SeqPcs, Bare, Absent
<1>5. /\ seeded' \in [Procs -> BOOLEAN] /\ (seeded'[p] => seeded[p])
      /\ \A q \in Procs \ {p} : seeded'[q] = seeded[q]
      /\ lastPersisted' \in [Procs -> Nat \cup {None}]
      /\ \A q \in Procs : lastPersisted'[q] = lastPersisted[q] \/ lastPersisted'[q] = None
  <2> HIDE DEF f, d
  <2> QED BY <1>1, <1>2 DEF SharedTypes
<1>6. lastIssued' \in [Procs -> Nat \cup {None}]
  <2>1. lastIssued[p] \in Int /\ lastIssued[p] \in Nat \cup {None} /\ r.id \in Int
    BY <1>2 DEF SharedTypes
  <2>2. Max({lastIssued[p], r.id}) \in Nat \cup {None}
    <3> DEFINE i == lastIssued[p]
               v == r.id
    <3>1. i \in Int /\ v \in Int
      BY <2>1
    <3> HIDE DEF v, i
    <3>2. Max({i, v}) \in {i, v}
      BY <3>1, MaxOfTwo
    <3> QED BY <1>2, <2>1, <3>2 DEF i, v
  <2> HIDE DEF f, d
  <2> QED BY <1>1, <1>2, <2>1, <2>2 DEF SharedTypes
<1>7. SharedTypes'
  BY <1>1, <1>2, <1>5, <1>6 DEF SharedTypes, durable, redis, bounds, others
<1> HIDE DEF f, d
<1>8. /\ SeqTypes' /\ wk'[w] \in {f, d, Idle} /\ \A x \in Workers \ {w} : wk'[x] = wk[x]
  <2>1. Set(w, f) \/ Set(w, d) \/ Set(w, Idle)
    BY <1>1
  <2> QED BY <1>3, <1>4, <1>7, <2>1, IdleWork, WorkTypes
<1>9. Alone(w) /\ UNCHANGED <<belief, mirror, counter, era, top, mark, lost>>
  BY <1>1, <1>5, <1>8 DEF Alone, durable, redis, others
<1> QED BY <1>1, <1>3, <1>4, <1>5, <1>8, <1>9, IdleWork

LEMMA PersistEffect ==
    ASSUME SeqTypes, NEW w \in Workers, PersistHighWater(w)
    PROVE  /\ SeqTypes' /\ Alone(w) /\ At(w, "persist")
           /\ wk'[w].pc = "publish" /\ wk'[w].id = wk[w].id
           /\ mark \in Nat /\ lost \in Nat /\ mark' \in Nat /\ lost' \in Nat
           /\ mark' >= mark /\ lost' >= lost
           /\ \/ /\ UNCHANGED <<mark, lost, lastPersisted>>
                 /\ lastPersisted[procOf[w]] \in Nat
                 /\ wk[w].id < lastPersisted[procOf[w]] + GenSeqStep
              \/ /\ wk[w].id <= mark' \/ wk[w].id <= lost'
                 /\ lastPersisted'[procOf[w]] \in {lastPersisted[procOf[w]], wk[w].id}
                 /\ \A p \in Procs \ {procOf[w]} : lastPersisted'[p] = lastPersisted[p]
           /\ UNCHANGED <<belief, seeded, mirror, counter, era, top>>
<1> DEFINE p == procOf[w]
           v == wk[w].id
           i == lastPersisted[p]
           s == [Idle EXCEPT !.pc = "publish", !.id = v]
<1>1. /\ At(w, "persist") /\ Set(w, s)
      /\ \/ Throttled(p, v) /\ UNCHANGED <<mark, lastPersisted, lost, bounds>>
         \/ /\ \/ mark' = Max({mark, v}) /\ UNCHANGED <<lost, bounds>>
               \/ Spend /\ lost' = Max({lost, v}) /\ UNCHANGED mark
            /\ lastPersisted' = [lastPersisted EXCEPT ![p] = Max({i, v})]
      /\ UNCHANGED <<authority, minSeq, redis, op, belief, seeded, lastIssued, block, expected,
                     top, era, procOf>>
  BY DEF PersistHighWater
<1>2. /\ SharedTypes /\ p \in Procs /\ wk[w] \in SeqWork /\ v \in Nat /\ None = -1
      /\ MaxMishaps \in Nat /\ GenSeqStep \in Nat
  BY SeqKnown, SeqWorkFields, SeqConstants
<1>3. mark \in Nat /\ lost \in Nat /\ i \in Nat \cup {None}
  BY <1>2 DEF SharedTypes
<1>4. s \in SeqWork /\ s.pc = "publish" /\ s.id = v
  <2> HIDE DEF v
  <2> QED BY <1>2 DEF Idle, SeqWork, SeqPcs, Bare, Absent
<1> HIDE DEF s, v, i
<1>5. /\ Max({mark, v}) \in Nat /\ Max({mark, v}) >= mark /\ Max({mark, v}) >= v
      /\ Max({lost, v}) \in Nat /\ Max({lost, v}) >= lost /\ Max({lost, v}) >= v
      /\ Max({i, v}) \in {i, v}
  <2>1. mark \in Int /\ lost \in Int /\ v \in Int /\ i \in Int
    BY <1>2, <1>3
  <2>2. /\ Max({mark, v}) \in {mark, v} /\ Max({mark, v}) >= mark /\ Max({mark, v}) >= v
    BY <2>1, MaxOfTwo
  <2>3. /\ Max({lost, v}) \in {lost, v} /\ Max({lost, v}) >= lost /\ Max({lost, v}) >= v
    BY <2>1, MaxOfTwo
  <2>4. Max({i, v}) \in {i, v}
    BY <2>1, MaxOfTwo
  <2> QED BY <1>2, <1>3, <2>2, <2>3, <2>4
<1>6. /\ mark' \in Nat /\ lost' \in Nat /\ mark' >= mark /\ lost' >= lost
      /\ mishaps' \in 0..MaxMishaps /\ allocs' = allocs
  <2>1. CASE UNCHANGED <<mark, lost, bounds>>
    BY <1>2, <1>3, <2>1 DEF SharedTypes, bounds
  <2>2. CASE mark' = Max({mark, v}) /\ UNCHANGED <<lost, bounds>>
    BY <1>2, <1>3, <1>5, <2>2 DEF SharedTypes, bounds
  <2>3. CASE Spend /\ lost' = Max({lost, v}) /\ UNCHANGED mark
    BY <1>2, <1>3, <1>5, <2>3 DEF SharedTypes, Spend
  <2> QED BY <1>1, <2>1, <2>2, <2>3
<1>7. /\ \/ /\ UNCHANGED <<mark, lost, lastPersisted>> /\ i \in Nat /\ v < i + GenSeqStep
         \/ /\ v <= mark' \/ v <= lost'
            /\ lastPersisted'[p] \in {i, v}
            /\ \A q \in Procs \ {p} : lastPersisted'[q] = lastPersisted[q]
      /\ lastPersisted' \in [Procs -> Nat \cup {None}]
  <2>1. CASE Throttled(p, v) /\ UNCHANGED <<mark, lastPersisted, lost, bounds>>
    BY <1>2, <1>3, <2>1 DEF Throttled, SharedTypes, i
  <2>2. CASE /\ \/ mark' = Max({mark, v}) /\ UNCHANGED <<lost, bounds>>
                \/ Spend /\ lost' = Max({lost, v}) /\ UNCHANGED mark
             /\ lastPersisted' = [lastPersisted EXCEPT ![p] = Max({i, v})]
    <3>1. v <= mark' \/ v <= lost'
      BY <1>2, <1>3, <1>5, <2>2
    <3>2. /\ lastPersisted'[p] \in {i, v}
          /\ \A q \in Procs \ {p} : lastPersisted'[q] = lastPersisted[q]
          /\ lastPersisted' \in [Procs -> Nat \cup {None}]
      BY <1>2, <1>3, <1>5, <2>2 DEF SharedTypes
    <3> QED BY <3>1, <3>2
  <2> QED BY <1>1, <2>1, <2>2
<1>8. SharedTypes'
  BY <1>1, <1>2, <1>6, <1>7 DEF SharedTypes, redis
<1>9. /\ SeqTypes' /\ wk'[w] = s /\ \A x \in Workers \ {w} : wk'[x] = wk[x]
  BY <1>1, <1>4, <1>8, WorkTypes
<1>10. Alone(w) /\ UNCHANGED <<belief, seeded, mirror, counter, era, top>>
  BY <1>1, <1>9 DEF Alone, redis
<1> QED BY <1>1, <1>3, <1>4, <1>6, <1>7, <1>9, <1>10 DEF v, i

LEMMA PublishEffect ==
    ASSUME SeqTypes, NEW w \in Workers, Publish(w)
    PROVE  /\ SeqTypes' /\ Alone(w) /\ At(w, "publish") /\ wk'[w].pc = "idle"
           /\ top' \in {top, wk[w].id} /\ top' >= top
           /\ UNCHANGED <<belief, seeded, mirror, counter, era, mark, lost, lastPersisted>>
<1> DEFINE v == wk[w].id
<1>1. /\ At(w, "publish") /\ queueMax' = Max({queueMax, v}) /\ top' = Max({top, v})
      /\ Set(w, Idle)
      /\ UNCHANGED <<durable, mirror, counter, op, memory, bounds, era, lost, procOf>>
  BY DEF Publish
<1>2. SharedTypes /\ wk[w] \in SeqWork /\ v \in Nat
  BY SeqKnown, SeqWorkFields
<1> HIDE DEF v
<1>3. /\ Max({queueMax, v}) \in {queueMax, v}
      /\ Max({top, v}) \in {top, v} /\ Max({top, v}) >= top
  <2>1. queueMax \in Int /\ top \in Int /\ v \in Int
    BY <1>2 DEF SharedTypes
  <2> QED BY <2>1, MaxOfTwo
<1>4. SharedTypes'
  BY <1>1, <1>2, <1>3 DEF SharedTypes, durable, memory, bounds
<1>5. /\ SeqTypes' /\ wk'[w] = Idle /\ \A x \in Workers \ {w} : wk'[x] = wk[x]
  BY <1>1, <1>4, IdleWork, WorkTypes
<1> QED BY <1>1, <1>3, <1>5, IdleWork DEF Alone, durable, memory, v

-----------------------------------------------------------------------------
(* The cutover's part of the invariant. *)

\* What a step of worker w must leave for the cutover's part to hold.
ModeStep(w) ==
    /\ op # "flipped"
    /\ BeliefFits(belief'[procOf[w]], seeded'[procOf[w]])
    /\ belief[procOf[w]].kind = "pos" => belief'[procOf[w]].kind = "pos"
    /\ (authority.on /\ belief[procOf[w]].denied = Absent) => belief'[procOf[w]].denied = Absent
    /\ counter # None => counter' # None
    /\ (counter' # None \/ era') => Begun
    /\ Claims(mirror) => Claims(mirror')
    /\ WorkFits(wk'[w], belief'[procOf[w]])

LEMMA ModeWorker ==
    ASSUME ModeInv, SeqTypes', NEW w \in Workers, Alone(w), ModeStep(w)
    PROVE  ModeInv'
<1>1. procOf \in [Workers -> Procs] /\ procOf[w] \in Procs
  BY SeqKnown DEF ModeInv
<1>2. Armed' <=> Armed
  BY DEF Alone, Armed, Running
<1>3. CutoverFits'
  <2>1. \A p \in Procs : (authority.on /\ belief[p].denied = Absent) => belief'[p].denied = Absent
    BY DEF Alone, ModeStep
  <2>2. Evidence => Evidence'
    BY <1>2 DEF ModeStep, Evidence
  <2> QED BY <2>1, <2>2 DEF Alone, ModeStep, ModeInv, CutoverFits, Begun
<1>4. ASSUME NEW p \in Procs
      PROVE  BeliefFits(belief[p], seeded[p])'
  <2>1. CASE p = procOf[w]
    BY <2>1 DEF ModeStep, BeliefFits, Alone
  <2>2. CASE p # procOf[w]
    BY <2>2 DEF ModeInv, BeliefFits, Alone
  <2> QED BY <2>1, <2>2
<1>5. ASSUME NEW x \in Workers
      PROVE  WorkFits(wk[x], belief[procOf[x]])'
  <2>1. CASE x = w
    BY <1>2, <2>1 DEF ModeStep, WorkFits, Begun, Alone
  <2>2. CASE x # w
    <3>1. WorkFits(wk[x], belief[procOf[x]]) /\ wk'[x] = wk[x] /\ procOf[x] \in Procs
      BY <1>1, <2>2 DEF ModeInv, Alone
    <3>2. /\ belief[procOf[x]].kind = "pos" => belief'[procOf[x]].kind = "pos"
          /\ (authority.on /\ belief[procOf[x]].denied = Absent) =>
                belief'[procOf[x]].denied = Absent
      BY <3>1 DEF ModeStep, Alone
    <3> QED BY <1>2, <3>1, <3>2 DEF WorkFits, Begun, Alone
  <2> QED BY <2>1, <2>2
<1> QED BY <1>3, <1>4, <1>5 DEF ModeInv

-----------------------------------------------------------------------------
(* The marks' part of the invariant. *)

\* What a step of worker w must leave for the marks' part to hold.
MarkStep(w) ==
    /\ mark' >= mark /\ lost' >= lost
    /\ top' = top \/ (Begun => NearMark(top'))
    /\ belief'[procOf[w]].kind = "pos" => Begun /\ Above(belief'[procOf[w]].floor)
    /\ wk'[w].pc \in Based => Begun /\ Above(wk'[w].floor)
    /\ (Begun /\ wk'[w].pc = "publish") => wk'[w].id < mark' + GenSeqStep \/ wk'[w].id < lost' + GenSeqStep
    /\ \A p \in Procs : lastPersisted'[p] <= mark' \/ lastPersisted'[p] <= lost'

LEMMA BlockAbove ==
    ASSUME NEW x \in Int, NEW m \in Int, NEW n \in Int, n >= m, x < m + GenSeqStep
    PROVE  x < n + GenSeqStep
BY SeqConstants

LEMMA MarkWorker ==
    ASSUME ModeInv, MarkFits, SeqTypes', NEW w \in Workers, Alone(w), MarkStep(w)
    PROVE  MarkFits'
<1>1. /\ procOf \in [Workers -> Procs] /\ procOf[w] \in Procs /\ wk \in [Workers -> SeqWork]
      /\ SharedTypes /\ SharedTypes' /\ GenSeqStep \in Nat
      /\ (Begun' <=> Begun)
  <2>1. /\ procOf \in [Workers -> Procs] /\ procOf[w] \in Procs /\ wk \in [Workers -> SeqWork]
        /\ SharedTypes
    BY SeqKnown DEF ModeInv
  <2>2. SharedTypes' /\ GenSeqStep \in Nat
    BY TypesSplitNext, SeqConstants
  <2>3. Begun' <=> Begun
    BY DEF Alone, Begun
  <2> QED BY <2>1, <2>2, <2>3
<1>2. /\ mark \in Nat /\ lost \in Nat /\ mark' \in Nat /\ lost' \in Nat /\ top \in Nat
      /\ top' \in Nat /\ authority.floor \in Nat
  BY <1>1 DEF SharedTypes
<1>3. ASSUME NEW f \in Nat, Begun, Above(f)
      PROVE  Above(f)'
  <2>1. mark' >= mark /\ lost' >= lost /\ (top' = top \/ NearMark(top'))
    BY <1>3 DEF MarkStep
  <2>2. /\ mark \in Int /\ lost \in Int /\ mark' \in Int /\ lost' \in Int /\ top \in Int
        /\ top' \in Int /\ GenSeqStep \in Int /\ f \in Int
    BY <1>1, <1>2
  <2>3. f > 0 /\ (top < f \/ NearMark(top))
    BY <1>3 DEF Above
  <2>4. top' < f \/ top' < mark' + GenSeqStep \/ top' < lost' + GenSeqStep
    <3>1. top' < f \/ top' < mark + GenSeqStep \/ top' < lost + GenSeqStep
      BY <2>1, <2>3 DEF NearMark
    <3> QED BY <2>1, <2>2, <3>1, BlockAbove
  <2> QED BY <2>3, <2>4 DEF Above, NearMark
<1>4. Begun => Above(authority.floor)'
  BY <1>2, <1>3 DEF MarkFits, Alone, Above, NearMark
<1>5. ASSUME NEW p \in Procs, belief'[p].kind = "pos"
      PROVE  Above(belief[p].floor)'
  <2>1. belief'[p] \in Beliefs /\ belief[p] \in Beliefs
    BY <1>1 DEF SharedTypes
  <2>2. belief'[p].floor \in Nat
    BY <2>1, BeliefFields
  <2>3. Begun /\ Above(belief'[p].floor)
    <3>1. CASE p = procOf[w]
      BY <1>5, <3>1 DEF MarkStep
    <3>2. CASE p # procOf[w]
      <4>1. belief'[p] = belief[p]
        BY <3>2 DEF Alone
      <4>2. Begun
        BY <1>2, <1>5, <2>1, <4>1, BeliefFields, <1>1 DEF ModeInv, BeliefFits, Begun, SharedTypes
      <4> QED BY <1>5, <4>1, <4>2 DEF MarkFits
    <3> QED BY <3>1, <3>2
  <2> QED BY <1>1, <1>2, <2>2, <2>3 DEF Above, NearMark, MarkStep
<1>6. ASSUME NEW x \in Workers, wk'[x].pc \in Based
      PROVE  Above(wk[x].floor)'
  <2>1. wk'[x].floor \in Nat
    BY TypesSplitNext, SeqWorkFields
  <2>2. Begun /\ Above(wk'[x].floor)
    <3>1. CASE x = w
      BY <1>6, <3>1 DEF MarkStep
    <3>2. CASE x # w
      <4>1. wk'[x] = wk[x]
        BY <3>2 DEF Alone
      <4>2. wk[x].epoch \in Nat /\ authority.epoch \in Nat
        BY <1>1, SeqWorkFields DEF SharedTypes
      <4>3. Begun
        BY <1>6, <4>1, <4>2 DEF ModeInv, WorkFits, Begun
      <4> QED BY <1>6, <4>1, <4>3 DEF MarkFits
    <3> QED BY <3>1, <3>2
  <2> QED BY <1>1, <1>2, <2>1, <2>2 DEF Above, NearMark, MarkStep
<1>7. ASSUME NEW x \in Workers, Begun, wk'[x].pc = "publish"
      PROVE  NearMark(wk[x].id)'
  <2>1. CASE x = w
    BY <1>7, <2>1 DEF MarkStep, NearMark
  <2>2. CASE x # w
    <3>1. wk'[x] = wk[x] /\ wk[x].id \in Nat
      BY <1>1, <2>2, SeqWorkFields DEF Alone
    <3>2. NearMark(wk[x].id)
      BY <1>7, <3>1 DEF MarkFits, At
    <3> QED BY <1>1, <1>2, <3>1, <3>2 DEF NearMark, MarkStep
  <2> QED BY <2>1, <2>2
<1>8. \A p \in Procs : (lastPersisted[p] <= mark \/ lastPersisted[p] <= lost)'
  BY DEF MarkStep
<1> QED BY <1>1, <1>4, <1>5, <1>6, <1>7, <1>8 DEF MarkFits, At

-----------------------------------------------------------------------------
(* The counter's part of the invariant. *)

\* The worker's step hands out no new id.
NoNewIds(w) ==
    /\ top' = top \/ (wk[w].pc \in HasId /\ top' = wk[w].id)
    /\ wk'[w].pc \in HasId => wk[w].pc \in HasId /\ wk'[w].id = wk[w].id

LEMMA CoversKept ==
    ASSUME NEW w \in Workers, \A x \in Workers \ {w} : wk'[x] = wk[x], NoNewIds(w),
           NEW c \in Int, Covers(c)
    PROVE  Covers(c)'
BY DEF Covers, NoNewIds

\* What a step of worker w must leave for the counter's part to hold.
GapStep(w) ==
    /\ UNCHANGED counter
    /\ NoNewIds(w)
    /\ (counter = None \/ Behind) =>
          /\ lost' <= mark'
          /\ wk'[w].pc \notin {"check", "persist"}
          /\ wk'[w].pc = "seed" => Covers(wk'[w].low)
    /\ Behind =>
          /\ UNCHANGED mirror
          /\ wk'[w].pc # "mirror"
          /\ wk'[w].pc = "gate" => wk'[w].epoch # mirror
          /\ wk'[w].pc \in {"probe", "resolve", "floors", "seed"} => ~ seeded'[procOf[w]]
          /\ seeded'[procOf[w]] => seeded[procOf[w]] /\ belief'[procOf[w]].epoch # mirror

LEMMA GapWorker ==
    ASSUME ModeInv, GapFits, GateFits, SeqTypes', NEW w \in Workers, Alone(w), GapStep(w)
    PROVE  GapFits' /\ GateFits'
<1>1. /\ procOf \in [Workers -> Procs] /\ procOf[w] \in Procs /\ wk \in [Workers -> SeqWork]
      /\ wk' \in [Workers -> SeqWork] /\ SharedTypes
      /\ \A x \in Workers \ {w} : wk'[x] = wk[x]
      /\ counter' = counter /\ NoNewIds(w) /\ procOf' = procOf
  BY SeqKnown, TypesSplitNext DEF ModeInv, Alone, GapStep
<1>2. \A c \in Int : Covers(c) => Covers(c)'
  BY <1>1, CoversKept
<1>3. Behind' => Behind
  <2>1. counter \in Int
    BY <1>1 DEF SharedTypes, None
  <2>2. Covers(counter) => Covers(counter)'
    BY <1>1, <2>1 DEF Covers, NoNewIds
  <2> QED BY <1>1, <2>2 DEF Behind
<1>4. ASSUME counter = None \/ Behind
      PROVE  /\ (lost <= mark)'
             /\ \A x \in Workers : wk'[x].pc \notin {"check", "persist"}
             /\ \A x \in Workers : At(x, "seed")' => Covers(wk[x].low)'
  <2>1. lost' <= mark' /\ \A x \in Workers : wk'[x].pc \notin {"check", "persist"}
    BY <1>1, <1>4 DEF GapFits, GapStep
  <2>2. ASSUME NEW x \in Workers, wk'[x].pc = "seed"
        PROVE  Covers(wk[x].low)'
    <3>1. wk'[x].low \in Int
      BY <1>1, SeqWorkFields
    <3>2. Covers(wk'[x].low)
      BY <1>1, <1>4, <2>2 DEF GapFits, GapStep, At
    <3> QED BY <1>1, <3>1, <3>2 DEF Covers, NoNewIds
  <2> QED BY <2>1, <2>2 DEF At
<1>5. GapFits'
  BY <1>1, <1>3, <1>4 DEF GapFits
<1>6. ASSUME Behind
      PROVE  /\ \A x \in Workers :
                   /\ wk'[x].pc # "mirror"
                   /\ wk'[x].pc = "gate" => wk'[x].epoch # mirror'
                   /\ wk'[x].pc \in {"probe", "resolve", "floors", "seed"} =>
                         ~ seeded'[procOf'[x]]
             /\ \A p \in Procs : seeded'[p] => belief'[p].epoch # mirror'
  <2>1. /\ mirror' = mirror
        /\ \A p \in Procs : seeded'[p] => seeded[p] /\ belief'[p].epoch # mirror
    BY <1>6 DEF GapStep, GateFits, Alone
  <2>2. ASSUME NEW x \in Workers
        PROVE  /\ wk'[x].pc # "mirror"
               /\ wk'[x].pc = "gate" => wk'[x].epoch # mirror'
               /\ wk'[x].pc \in {"probe", "resolve", "floors", "seed"} => ~ seeded'[procOf'[x]]
    <3>1. CASE x = w
      BY <1>1, <1>6, <3>1 DEF GapStep
    <3>2. CASE x # w
      <4>1. wk'[x] = wk[x] /\ procOf[x] \in Procs
        BY <1>1, <3>2
      <4> QED BY <1>1, <1>6, <2>1, <4>1 DEF GateFits, At
    <3> QED BY <3>1, <3>2
  <2> QED BY <2>1, <2>2
<1>7. GateFits'
  BY <1>3, <1>6 DEF GateFits, At
<1> QED BY <1>5, <1>7

\* A counter that is above every id needs no more.
LEMMA GapClosed ==
    ASSUME counter' # None, Covers(counter)'
    PROVE  GapFits' /\ GateFits'
BY DEF GapFits, GateFits, Behind

-----------------------------------------------------------------------------
(* The steps of a worker keep the invariant. *)

\* What the invariant says of worker w.
LEMMA SeqAt ==
    ASSUME SeqInv, NEW w \in Workers
    PROVE  /\ SeqTypes /\ procOf[w] \in Procs
           /\ BeliefFits(belief[procOf[w]], seeded[procOf[w]])
           /\ WorkFits(wk[w], belief[procOf[w]])
           /\ wk[w].pc # "idle" => op # "flipped"
           /\ (counter # None \/ era) => Begun
           /\ belief[procOf[w]].kind = "pos" => /\ Begun /\ Above(belief[procOf[w]].floor)
                                                /\ belief[procOf[w]].epoch > 0
           /\ belief[procOf[w]].kind # "pos" => ~ seeded[procOf[w]]
           /\ wk[w].pc \in Based => Begun /\ Above(wk[w].floor) /\ wk[w].epoch > 0
           /\ wk[w].pc \in Counting => belief[procOf[w]].kind = "pos"
           /\ wk[w].pc = "legacy" => ~ Begun
<1>1. /\ SeqTypes /\ procOf[w] \in Procs /\ wk[w] \in SeqWork /\ SharedTypes
      /\ belief[procOf[w]] \in Beliefs
  BY SeqKnown DEF SeqInv, ModeInv
<1>2. /\ BeliefFits(belief[procOf[w]], seeded[procOf[w]])
      /\ WorkFits(wk[w], belief[procOf[w]])
      /\ wk[w].pc # "idle" => op # "flipped"
      /\ (counter # None \/ era) => Begun
  BY <1>1 DEF SeqInv, ModeInv, CutoverFits, Quiet, At
<1>3. wk[w].epoch \in Nat /\ authority.epoch \in Nat /\ belief[procOf[w]].epoch \in Nat
  BY <1>1, SeqWorkFields, BeliefFields DEF SharedTypes
<1>4. belief[procOf[w]].kind = "pos" => /\ Begun /\ Above(belief[procOf[w]].floor)
                                        /\ belief[procOf[w]].epoch > 0
  BY <1>1, <1>2, <1>3 DEF BeliefFits, Begun, SeqInv, MarkFits
<1>5. wk[w].pc \in Based => Begun /\ Above(wk[w].floor) /\ wk[w].epoch > 0
  BY <1>1, <1>2, <1>3 DEF WorkFits, Begun, SeqInv, MarkFits
<1> QED BY <1>1, <1>2, <1>4, <1>5 DEF BeliefFits, WorkFits

\* What it says of worker w when the counter is behind, or lost.
LEMMA BehindAt ==
    ASSUME SeqInv, NEW w \in Workers
    PROVE  /\ (counter = None \/ Behind) =>
                 /\ lost <= mark
                 /\ wk[w].pc \notin {"check", "persist"}
                 /\ wk[w].pc = "seed" => Covers(wk[w].low)
           /\ Behind =>
                 /\ counter # None
                 /\ wk[w].pc # "mirror"
                 /\ wk[w].pc = "gate" => wk[w].epoch # mirror
                 /\ wk[w].pc \in {"probe", "resolve", "floors", "seed"} => ~ seeded[procOf[w]]
                 /\ seeded[procOf[w]] => belief[procOf[w]].epoch # mirror
<1>1. procOf[w] \in Procs
  BY SeqAt
<1> QED BY <1>1 DEF SeqInv, GapFits, GateFits, At, Behind

LEMMA MarksAlone ==
    ASSUME SeqInv, UNCHANGED <<mark, lost>>,
           \A p \in Procs : lastPersisted'[p] = lastPersisted[p] \/ lastPersisted'[p] = None
    PROVE  /\ mark' >= mark /\ lost' >= lost
           /\ \A p \in Procs : lastPersisted'[p] <= mark' \/ lastPersisted'[p] <= lost'
<1>1. mark \in Nat /\ lost \in Nat /\ None = -1
  BY TypesSplit, SeqConstants DEF SeqInv, ModeInv, SharedTypes
<1>2. mark' >= mark /\ lost' >= lost
  BY <1>1
<1>3. ASSUME NEW p \in Procs
      PROVE  lastPersisted'[p] <= mark' \/ lastPersisted'[p] <= lost'
  <2>1. CASE lastPersisted'[p] = lastPersisted[p]
    BY <2>1 DEF SeqInv, MarkFits
  <2>2. CASE lastPersisted'[p] = None
    BY <1>1, <2>2
  <2> QED BY <2>1, <2>2
<1> QED BY <1>2, <1>3

LEMMA WorkerKeeps ==
    ASSUME SeqInv, SeqTypes', NEW w \in Workers, Alone(w), ModeStep(w), MarkStep(w), GapStep(w)
    PROVE  SeqInv'
<1>1. ModeInv /\ MarkFits /\ GapFits /\ GateFits
  BY DEF SeqInv
<1>2. ModeInv'
  BY <1>1, ModeWorker
<1>3. MarkFits'
  BY <1>1, MarkWorker
<1>4. GapFits' /\ GateFits'
  BY <1>1, GapWorker
<1> QED BY <1>2, <1>3, <1>4 DEF SeqInv

\* A step that leaves the process and Redis alone.
LEMMA AloneKeeps ==
    ASSUME SeqInv, SeqTypes', NEW w \in Workers, Alone(w), op # "flipped",
           UNCHANGED <<belief, seeded, mirror, counter, era, top, mark, lost, lastPersisted>>,
           WorkFits(wk'[w], belief[procOf[w]]),
           wk'[w].pc \in Based => Begun /\ Above(wk'[w].floor),
           wk'[w].pc \in HasId => FALSE,
           (counter = None \/ Behind) => (wk'[w].pc = "seed" => Covers(wk'[w].low)),
           Behind =>
              /\ wk'[w].pc # "mirror"
              /\ wk'[w].pc = "gate" => wk'[w].epoch # mirror
              /\ wk'[w].pc \in {"probe", "resolve", "floors", "seed"} => ~ seeded[procOf[w]]
    PROVE  SeqInv'
<1>1. /\ (counter # None \/ era) => Begun
      /\ BeliefFits(belief[procOf[w]], seeded[procOf[w]])
      /\ belief[procOf[w]].kind = "pos" => Begun /\ Above(belief[procOf[w]].floor)
  BY SeqAt
<1>2. ModeStep(w)
  BY <1>1 DEF ModeStep
<1>3. MarkStep(w)
  <2>1. /\ mark' >= mark /\ lost' >= lost
        /\ \A p \in Procs : lastPersisted'[p] <= mark' \/ lastPersisted'[p] <= lost'
    BY MarksAlone
  <2> QED BY <1>1, <2>1 DEF MarkStep, HasId
<1>4. GapStep(w)
  BY BehindAt DEF GapStep, NoNewIds, HasId
<1> QED BY <1>2, <1>3, <1>4, WorkerKeeps

LEMMA AllocateKeeps ==
    ASSUME SeqInv, NEW w \in Workers, Allocate(w)
    PROVE  SeqInv'
<1>1. SeqTypes
  BY SeqAt
<1>2. /\ SeqTypes' /\ Alone(w) /\ op # "flipped" /\ wk'[w].pc \in {"idle", "probe", "gate"}
      /\ wk'[w].pc = "gate" =>
            /\ belief[procOf[w]].kind = "pos" /\ seeded[procOf[w]]
            /\ wk'[w].epoch = belief[procOf[w]].epoch
            /\ wk'[w].floor = belief[procOf[w]].floor
      /\ wk'[w].pc = "probe" => belief[procOf[w]].kind # "pos" \/ ~ seeded[procOf[w]]
      /\ UNCHANGED <<belief, seeded, mirror, counter, era, top, mark, lost, lastPersisted>>
  BY <1>1, AllocateEffect
<1>3. /\ BeliefFits(belief[procOf[w]], seeded[procOf[w]])
      /\ belief[procOf[w]].kind = "pos" => Begun /\ Above(belief[procOf[w]].floor)
  BY SeqAt
<1>4. WorkFits(wk'[w], belief[procOf[w]])
  BY <1>2, <1>3 DEF BeliefFits, WorkFits, Counting, Based
<1>5. /\ wk'[w].pc \in Based => Begun /\ Above(wk'[w].floor)
      /\ wk'[w].pc \notin HasId
  BY <1>2, <1>3 DEF Based, HasId
<1>6. Behind =>
         /\ wk'[w].pc = "gate" => wk'[w].epoch # mirror
         /\ wk'[w].pc = "probe" => ~ seeded[procOf[w]]
  BY <1>2, <1>3, BehindAt DEF BeliefFits
<1> QED BY <1>2, <1>4, <1>5, <1>6, AloneKeeps

LEMMA ProbeKeeps ==
    ASSUME SeqInv, NEW w \in Workers, Probe(w)
    PROVE  SeqInv'
<1>1. SeqTypes
  BY SeqAt
<1>2. /\ SeqTypes' /\ Alone(w) /\ At(w, "probe") /\ wk'[w].pc = "resolve"
      /\ wk'[w].mirror = mirror /\ (wk'[w].counterExists <=> counter # None)
      /\ UNCHANGED <<belief, seeded, mirror, counter, era, top, mark, lost, lastPersisted>>
  BY <1>1, ProbeEffect
<1>3. op # "flipped" /\ procOf[w] \in Procs
  BY <1>2, SeqAt DEF At
<1>4. WorkFits(wk'[w], belief[procOf[w]])
  <2>1. ASSUME Begun, counter = None
        PROVE  Armed \/ (Claims(mirror) /\ authority.on /\ belief[procOf[w]].denied = Absent)
    <3>1. op \in {"paused", "done"}
      BY <1>1, <1>3, <2>1 DEF SeqInv, ModeInv, CutoverFits, SeqTypes, SeqTypeOK
    <3> QED BY <1>3, <2>1, <3>1 DEF SeqInv, ModeInv, CutoverFits, Evidence
  <2> QED BY <1>2, <2>1 DEF WorkFits, Counting, Based
<1>5. Behind => ~ seeded[procOf[w]]
  BY <1>2, BehindAt DEF At
<1> QED BY <1>2, <1>3, <1>4, <1>5, AloneKeeps DEF Based, HasId

LEMMA ReadFloorsKeeps ==
    ASSUME SeqInv, NEW w \in Workers, ReadFloors(w)
    PROVE  SeqInv'
<1>1. SeqTypes
  BY SeqAt
<1>2. /\ SeqTypes' /\ Alone(w) /\ At(w, "floors")
      /\ wk'[w].epoch = wk[w].epoch /\ wk'[w].floor = wk[w].floor
      /\ \/ seeded[procOf[w]] /\ wk'[w].pc \in {"mirror", "gate"}
         \/ /\ ~ seeded[procOf[w]] /\ wk'[w].pc = "seed"
            /\ wk[w].floor > 0 => /\ wk'[w].low >= wk[w].floor + Margin
                                  /\ wk'[w].low >= mark + Margin
      /\ UNCHANGED <<belief, seeded, mirror, counter, era, top, mark, lost, lastPersisted>>
  BY <1>1, ReadFloorsEffect
<1>3. /\ op # "flipped" /\ Begun /\ Above(wk[w].floor) /\ belief[procOf[w]].kind = "pos"
      /\ WorkFits(wk[w], belief[procOf[w]])
  BY <1>2, SeqAt DEF At, Based, Counting
<1>4. WorkFits(wk'[w], belief[procOf[w]])
  BY <1>2, <1>3 DEF WorkFits, Counting, Based, At
<1>5. ASSUME counter = None \/ Behind, wk'[w].pc = "seed"
      PROVE  Covers(wk'[w].low)
  <2>1. /\ wk[w].floor \in Nat /\ mark \in Nat /\ lost \in Nat /\ top \in Nat
        /\ Margin = GenSeqStep + GenSeqStep /\ GenSeqStep \in Nat \ {0}
    BY <1>1, SeqKnown, SeqWorkFields, SeqConstants DEF SharedTypes
  <2>2. wk'[w].low \in Nat
    BY <1>2, TypesSplitNext, SeqWorkFields
  <2>3. lost <= mark
    BY <1>5, BehindAt
  <2>4. wk'[w].low >= wk[w].floor + Margin /\ wk'[w].low >= mark + Margin
    BY <1>2, <1>3, <1>5 DEF Above
  <2>5. top <= wk'[w].low
    BY <1>3, <2>1, <2>2, <2>3, <2>4 DEF Above, NearMark
  <2>6. ASSUME NEW x \in Workers, wk[x].pc \in HasId
        PROVE  wk[x].id <= wk'[w].low
    <3>1. wk[x].id \in Nat
      BY <1>1, SeqKnown, SeqWorkFields
    <3>2. wk[x].pc = "publish"
      BY <1>5, <2>6, BehindAt DEF HasId
    <3>3. NearMark(wk[x].id)
      BY <1>3, <3>2 DEF SeqInv, MarkFits, At
    <3> QED BY <2>1, <2>2, <2>3, <2>4, <3>1, <3>3 DEF NearMark
  <2> QED BY <2>5, <2>6 DEF Covers
<1>6. Behind => wk'[w].pc = "seed" /\ ~ seeded[procOf[w]]
  BY <1>2, BehindAt DEF At
<1>7. wk'[w].pc \in Based /\ wk'[w].pc \notin HasId
  BY <1>2 DEF Based, HasId
<1> QED BY <1>2, <1>3, <1>4, <1>5, <1>6, <1>7, AloneKeeps

LEMMA GateShutKeeps ==
    ASSUME SeqInv, NEW w \in Workers, GateShut(w) \/ CallFails(w)
    PROVE  SeqInv'
<1>1. SeqTypes
  BY SeqAt
<1>2. /\ SeqTypes' /\ Alone(w) /\ wk[w].pc # "idle" /\ wk'[w].pc \in {"idle", "closed"}
      /\ UNCHANGED <<belief, seeded, mirror, counter, era, top, mark, lost, lastPersisted>>
  BY <1>1, GateShutEffect, FailEffect DEF At
<1>3. op # "flipped"
  BY <1>2, SeqAt
<1>4. WorkFits(wk'[w], belief[procOf[w]])
  BY <1>2 DEF WorkFits, Counting, Based
<1> QED BY <1>2, <1>3, <1>4, AloneKeeps DEF Based, HasId

\* A belief that a look at the row leaves is one in an activation that was made.
LEMMA TakenFits ==
    ASSUME SeqInv, NEW w \in Workers, NEW m, NEW v, Taken(belief[procOf[w]], m, v)
    PROVE  /\ v.belief.kind = "pos" =>
                 /\ 0 < v.belief.epoch /\ v.belief.epoch <= authority.epoch
                 /\ Begun /\ Above(v.belief.floor)
           /\ v.belief.kind # "pos" => v.belief.epoch = 0 /\ belief[procOf[w]].kind # "pos"
           /\ (authority.on /\ belief[procOf[w]].denied = Absent) => v.belief.denied = Absent
<1> DEFINE b == belief[procOf[w]]
<1>1. /\ BeliefFits(b, seeded[procOf[w]]) /\ (b.kind = "pos" => Begun /\ Above(b.floor))
      /\ b \in Beliefs /\ authority.epoch \in Nat
  <2>1. SeqTypes
    BY SeqAt
  <2> QED BY <2>1, SeqAt, SeqKnown DEF SharedTypes
<1>2. authority.on => Begun /\ Above(authority.floor)
  BY DEF SeqInv, ModeInv, CutoverFits, MarkFits
<1>3. authority.on => 0 < authority.epoch
  BY <1>1, <1>2 DEF Begun
<1>4. b.kind = "pos" => 0 < b.epoch /\ b.epoch <= authority.epoch
  BY <1>1 DEF BeliefFits
<1>5. b.kind # "pos" => b.epoch = 0
  BY <1>1 DEF BeliefFits
<1>6. CASE v.belief = b
  BY <1>1, <1>4, <1>5, <1>6
<1>7. CASE /\ v.belief.denied = Absent /\ v.belief.kind = "neg" /\ v.belief.epoch = 0
           /\ b.kind # "pos"
  BY <1>7
<1>8. CASE /\ v.belief.denied = Absent /\ v.belief.kind = "pos" /\ authority.on
           /\ v.belief.epoch = authority.epoch /\ v.belief.floor = authority.floor
  BY <1>1, <1>2, <1>3, <1>8
<1> QED BY <1>6, <1>7, <1>8 DEF Taken

LEMMA ResolveKeeps ==
    ASSUME SeqInv, NEW w \in Workers, NEW k \in BOOLEAN, Resolve(w, k),
           mishaps' \in 0..MaxMishaps
    PROVE  SeqInv'
<1> DEFINE p == procOf[w]
           b == belief[p]
<1>1. SeqTypes
  BY SeqAt
<1>2. /\ SeqTypes' /\ Alone(w) /\ At(w, "resolve")
      /\ \E v : ResolvedTo(w, v)
      /\ seeded'[p] => seeded[p]
      /\ \A q \in Procs : lastPersisted'[q] = lastPersisted[q] \/ lastPersisted'[q] = None
      /\ UNCHANGED <<mirror, counter, era, top, mark, lost>>
  BY <1>1, ResolveEffect
<1>3. PICK v : ResolvedTo(w, v)
  BY <1>2
<1>4. /\ op # "flipped" /\ p \in Procs /\ BeliefFits(b, seeded[p]) /\ WorkFits(wk[w], b)
      /\ (counter # None \/ era) => Begun
      /\ b.kind = "pos" => Begun /\ Above(b.floor)
  BY <1>1, <1>2, SeqAt DEF At
<1>5. /\ v.belief.kind = "pos" =>
            /\ 0 < v.belief.epoch /\ v.belief.epoch <= authority.epoch
            /\ Begun /\ Above(v.belief.floor)
      /\ v.belief.kind # "pos" => v.belief.epoch = 0 /\ b.kind # "pos"
      /\ (authority.on /\ b.denied = Absent) => v.belief.denied = Absent
  <2>1. Taken(b, wk[w].mirror, v)
    BY <1>3 DEF ResolvedTo
  <2> QED BY <2>1, TakenFits
<1> HIDE DEF b
<1>6. /\ belief'[p].kind = v.belief.kind /\ belief'[p].epoch = v.belief.epoch
      /\ belief'[p].floor = v.belief.floor
      /\ belief'[p].denied = v.belief.denied \/ ~ authority.on
      /\ \/ /\ wk'[w].pc = "floors" /\ v.ok /\ v.belief.kind = "pos"
            /\ wk'[w].epoch = v.belief.epoch /\ wk'[w].floor = v.belief.floor
         \/ /\ wk'[w].pc = "legacy" /\ v.ok /\ v.belief.kind # "pos"
            /\ ~ wk[w].counterExists /\ ~ Armed
         \/ wk'[w].pc = "idle"
      /\ (v.ok /\ Claims(wk[w].mirror) /\ authority.on /\ b.denied = Absent) =>
            v.belief.kind = "pos"
  BY <1>3 DEF ResolvedTo, b
<1>7. BeliefFits(belief'[p], seeded'[p])
  BY <1>2, <1>4, <1>5, <1>6 DEF BeliefFits
<1>8. WorkFits(wk'[w], belief'[p])
  <2>1. wk'[w].pc = "legacy" => ~ Begun
    BY <1>2, <1>4, <1>6 DEF WorkFits, At
  <2> QED BY <1>5, <1>6, <2>1 DEF WorkFits, Counting, Based
<1>9. ModeStep(w)
  BY <1>2, <1>4, <1>5, <1>6, <1>7, <1>8 DEF ModeStep, b
<1>10. MarkStep(w)
  <2>1. /\ mark' >= mark /\ lost' >= lost
        /\ \A q \in Procs : lastPersisted'[q] <= mark' \/ lastPersisted'[q] <= lost'
    BY <1>2, MarksAlone
  <2> QED BY <1>2, <1>5, <1>6, <2>1 DEF MarkStep, Based
<1>11. GapStep(w)
  <2>1. Behind => ~ seeded[p]
    BY <1>2, BehindAt DEF At
  <2>2. (counter = None \/ Behind) => lost <= mark
    BY BehindAt
  <2> QED BY <1>2, <1>6, <2>1, <2>2 DEF GapStep, NoNewIds, HasId
<1> QED BY <1>2, <1>9, <1>10, <1>11, WorkerKeeps

LEMMA ReresolveKeeps ==
    ASSUME SeqInv, NEW w \in Workers, NEW k \in BOOLEAN, Reresolve(w, k),
           mishaps' \in 0..MaxMishaps
    PROVE  SeqInv'
<1> DEFINE p == procOf[w]
           b == belief[p]
<1>1. SeqTypes
  BY SeqAt
<1>2. /\ SeqTypes' /\ Alone(w) /\ At(w, "closed")
      /\ \E v : /\ Taken(b, Absent, v) /\ belief'[p] = v.belief
                /\ v.belief = b \/ v.belief.kind # "pos" \/ ~ seeded'[p]
      /\ wk'[w].pc = "idle" \/ (wk'[w].pc = "probe" /\ ~ seeded'[p])
      /\ seeded'[p] => seeded[p]
      /\ UNCHANGED <<mirror, counter, era, top, mark, lost, lastPersisted>>
  BY <1>1, ReresolveEffect
<1>3. PICK v : /\ Taken(b, Absent, v) /\ belief'[p] = v.belief
               /\ v.belief = b \/ v.belief.kind # "pos" \/ ~ seeded'[p]
  BY <1>2
<1>4. /\ op # "flipped" /\ p \in Procs /\ BeliefFits(b, seeded[p])
      /\ (counter # None \/ era) => Begun
      /\ b.kind = "pos" => Begun /\ Above(b.floor)
  BY <1>1, <1>2, SeqAt DEF At
<1>5. /\ v.belief.kind = "pos" =>
            /\ 0 < v.belief.epoch /\ v.belief.epoch <= authority.epoch
            /\ Begun /\ Above(v.belief.floor)
      /\ v.belief.kind # "pos" => v.belief.epoch = 0 /\ b.kind # "pos"
      /\ (authority.on /\ b.denied = Absent) => v.belief.denied = Absent
  BY <1>3, TakenFits
<1>6. BeliefFits(belief'[p], seeded'[p])
  BY <1>2, <1>3, <1>4, <1>5 DEF BeliefFits
<1>7. WorkFits(wk'[w], belief'[p])
  BY <1>2 DEF WorkFits, Counting, Based
<1>8. ModeStep(w)
  BY <1>2, <1>3, <1>4, <1>5, <1>6, <1>7 DEF ModeStep
<1>9. MarkStep(w)
  <2>1. /\ mark' >= mark /\ lost' >= lost
        /\ \A q \in Procs : lastPersisted'[q] <= mark' \/ lastPersisted'[q] <= lost'
    BY <1>2, MarksAlone
  <2> QED BY <1>2, <1>3, <1>5, <2>1 DEF MarkStep, Based
<1>10. GapStep(w)
  <2>1. Behind /\ seeded'[p] => v.belief = b /\ b.epoch # mirror
    BY <1>2, <1>3, <1>4, <1>5, BehindAt DEF BeliefFits
  <2>2. (counter = None \/ Behind) => lost <= mark
    BY BehindAt
  <2> QED BY <1>2, <1>3, <2>1, <2>2 DEF GapStep, NoNewIds, HasId
<1> QED BY <1>2, <1>8, <1>9, <1>10, WorkerKeeps

LEMMA LegacyKeeps ==
    ASSUME SeqInv, NEW w \in Workers, Legacy(w)
    PROVE  SeqInv'
<1>1. SeqTypes
  BY SeqAt
<1>2. /\ SeqTypes' /\ Alone(w) /\ At(w, "legacy") /\ wk'[w].pc = "publish"
      /\ UNCHANGED <<belief, seeded, mirror, counter, era, top, mark, lost, lastPersisted>>
  BY <1>1, LegacyEffect
<1>3. /\ op # "flipped" /\ ~ Begun /\ BeliefFits(belief[procOf[w]], seeded[procOf[w]])
      /\ counter = None /\ ~ era /\ belief[procOf[w]].kind # "pos"
  BY <1>2, SeqAt DEF At, SeqTypes, SeqTypeOK
<1>4. ModeStep(w)
  BY <1>2, <1>3 DEF ModeStep, WorkFits, Counting, Based
<1>5. MarkStep(w)
  <2>1. /\ mark' >= mark /\ lost' >= lost
        /\ \A q \in Procs : lastPersisted'[q] <= mark' \/ lastPersisted'[q] <= lost'
    BY <1>2, MarksAlone
  <2> QED BY <1>2, <1>3, <2>1 DEF MarkStep, Based
<1>6. ModeInv' /\ MarkFits'
  BY <1>2, <1>4, <1>5, ModeWorker, MarkWorker DEF SeqInv
<1>7. GapFits'
  <2>1. lost <= mark /\ \A x \in Workers : wk[x].pc \notin {"check", "persist"}
    BY <1>3 DEF SeqInv, GapFits
  <2>2. \A x \in Workers : wk[x].pc # "seed"
    BY <1>3, SeqAt DEF Based
  <2>3. lost' <= mark'
    BY <1>2, <2>1
  <2>4. \A x \in Workers : wk'[x].pc \notin {"check", "persist", "seed"}
    BY <1>2, <2>1, <2>2 DEF Alone
  <2> QED BY <2>3, <2>4 DEF GapFits, At
<1>8. GateFits'
  BY <1>2, <1>3 DEF GateFits, Behind
<1> QED BY <1>6, <1>7, <1>8 DEF SeqInv

LEMMA SeedKeeps ==
    ASSUME SeqInv, NEW w \in Workers, Seed(w)
    PROVE  SeqInv'
<1>1. SeqTypes
  BY SeqAt
<1>2. /\ SeqTypes' /\ Alone(w) /\ At(w, "seed") /\ wk'[w].pc \in {"mirror", "gate"}
      /\ wk'[w].epoch = wk[w].epoch /\ wk'[w].floor = wk[w].floor
      /\ counter' \in Nat /\ counter' >= counter /\ counter' >= wk[w].low
      /\ seeded'[procOf[w]]
      /\ UNCHANGED <<belief, mirror, era, top, mark, lost, lastPersisted>>
  BY <1>1, SeedEffect
<1>3. /\ op # "flipped" /\ Begun /\ Above(wk[w].floor) /\ WorkFits(wk[w], belief[procOf[w]])
      /\ belief[procOf[w]].kind = "pos" /\ Above(belief[procOf[w]].floor)
      /\ BeliefFits(belief[procOf[w]], seeded[procOf[w]])
  BY <1>2, SeqAt DEF At, Based, Counting
<1>4. counter' # None
  BY <1>2, SeqConstants
<1>5. ModeStep(w)
  <2>1. WorkFits(wk'[w], belief'[procOf[w]])
    BY <1>2, <1>3 DEF WorkFits, Counting, Based, At
  <2>2. BeliefFits(belief'[procOf[w]], seeded'[procOf[w]])
    BY <1>2, <1>3 DEF BeliefFits
  <2> QED BY <1>2, <1>3, <1>4, <2>1, <2>2 DEF ModeStep
<1>6. MarkStep(w)
  <2>1. /\ mark' >= mark /\ lost' >= lost
        /\ \A q \in Procs : lastPersisted'[q] <= mark' \/ lastPersisted'[q] <= lost'
    BY <1>2, MarksAlone
  <2> QED BY <1>2, <1>3, <2>1 DEF MarkStep, Based
<1>7. ModeInv' /\ MarkFits'
  BY <1>2, <1>5, <1>6, ModeWorker, MarkWorker DEF SeqInv
<1>8. Covers(counter)'
  <2>1. PICK c \in Int : Covers(c) /\ counter' >= c
    <3>1. CASE counter = None \/ Behind
      <4>1. Covers(wk[w].low)
        BY <1>2, <3>1, BehindAt DEF At
      <4>2. wk[w].low \in Int
        BY <1>1, SeqKnown, SeqWorkFields
      <4> QED BY <1>2, <4>1, <4>2
    <3>2. CASE ~ (counter = None \/ Behind)
      <4>1. Covers(counter)
        BY <3>2 DEF Behind
      <4>2. counter \in Int
        BY <1>1, TypesSplit DEF SharedTypes, None
      <4> QED BY <1>2, <4>1, <4>2
    <3> QED BY <3>1, <3>2
  <2>2. top' <= counter'
    <3>1. top \in Int /\ top <= c /\ top' = top
      BY <1>1, <1>2, <2>1, TypesSplit DEF SharedTypes, Covers
    <3> QED BY <1>2, <2>1, <3>1
  <2>3. ASSUME NEW x \in Workers, wk'[x].pc \in HasId
        PROVE  wk'[x].id <= counter'
    <3>1. x # w
      BY <1>2, <2>3 DEF HasId
    <3>2. wk'[x] = wk[x] /\ wk[x].id \in Int /\ wk[x].id <= c
      BY <1>1, <1>2, <2>1, <2>3, <3>1, SeqKnown, SeqWorkFields DEF Alone, Covers
    <3> QED BY <1>2, <2>1, <3>2
  <2> QED BY <2>2, <2>3 DEF Covers
<1> QED BY <1>4, <1>7, <1>8, GapClosed DEF SeqInv

LEMMA RebuildKeeps ==
    ASSUME SeqInv, NEW w \in Workers, RebuildMirror(w)
    PROVE  SeqInv'
<1>1. SeqTypes
  BY SeqAt
<1>2. /\ SeqTypes' /\ Alone(w) /\ At(w, "mirror") /\ wk'[w].pc = "gate"
      /\ wk'[w].epoch = wk[w].epoch /\ wk'[w].floor = wk[w].floor
      /\ mirror' = wk[w].epoch
      /\ UNCHANGED <<belief, seeded, counter, era, top, mark, lost, lastPersisted>>
  BY <1>1, RebuildEffect
<1>3. /\ op # "flipped" /\ Begun /\ Above(wk[w].floor) /\ WorkFits(wk[w], belief[procOf[w]])
      /\ wk[w].epoch > 0
      /\ (counter # None \/ era) => Begun
      /\ belief[procOf[w]].kind = "pos" /\ Above(belief[procOf[w]].floor)
      /\ BeliefFits(belief[procOf[w]], seeded[procOf[w]])
  BY <1>2, SeqAt DEF At, Based, Counting
<1>4. Claims(mirror')
  BY <1>2, <1>3 DEF Claims, Absent
<1>5. ModeStep(w)
  <2>1. WorkFits(wk'[w], belief'[procOf[w]])
    BY <1>2, <1>3 DEF WorkFits, Counting, Based, At
  <2> QED BY <1>2, <1>3, <1>4, <2>1 DEF ModeStep
<1>6. MarkStep(w)
  <2>1. /\ mark' >= mark /\ lost' >= lost
        /\ \A q \in Procs : lastPersisted'[q] <= mark' \/ lastPersisted'[q] <= lost'
    BY <1>2, MarksAlone
  <2> QED BY <1>2, <1>3, <2>1 DEF MarkStep, Based
<1>7. GapStep(w)
  <2>1. (counter = None \/ Behind) => lost' <= mark'
    BY <1>2, BehindAt
  <2>2. ~ Behind
    BY <1>2, BehindAt DEF At
  <2> QED BY <1>2, <2>1, <2>2 DEF GapStep, NoNewIds, HasId
<1> QED BY <1>2, <1>5, <1>6, <1>7, WorkerKeeps

LEMMA MissingKeeps ==
    ASSUME SeqInv, NEW w \in Workers, GateMissing(w)
    PROVE  SeqInv'
<1>1. SeqTypes
  BY SeqAt
<1>2. /\ SeqTypes' /\ Alone(w) /\ At(w, "gate") /\ counter = None
      /\ \/ wk'[w].pc = "floors" /\ wk'[w].epoch = wk[w].epoch /\ wk'[w].floor = wk[w].floor
         \/ wk'[w].pc = "idle"
      /\ seeded'[procOf[w]] => seeded[procOf[w]]
      /\ \A p \in Procs : lastPersisted'[p] = lastPersisted[p] \/ lastPersisted'[p] = None
      /\ UNCHANGED <<belief, mirror, counter, era, top, mark, lost>>
  BY <1>1, MissingEffect
<1>3. /\ op # "flipped" /\ Begun /\ Above(wk[w].floor) /\ WorkFits(wk[w], belief[procOf[w]])
      /\ belief[procOf[w]].kind = "pos" /\ Above(belief[procOf[w]].floor)
      /\ BeliefFits(belief[procOf[w]], seeded[procOf[w]])
  BY <1>2, SeqAt DEF At, Based, Counting
<1>4. ModeStep(w)
  <2>1. WorkFits(wk'[w], belief'[procOf[w]])
    BY <1>2, <1>3 DEF WorkFits, Counting, Based, At
  <2>2. BeliefFits(belief'[procOf[w]], seeded'[procOf[w]])
    BY <1>2, <1>3 DEF BeliefFits
  <2> QED BY <1>2, <1>3, <2>1, <2>2 DEF ModeStep
<1>5. MarkStep(w)
  <2>1. /\ mark' >= mark /\ lost' >= lost
        /\ \A q \in Procs : lastPersisted'[q] <= mark' \/ lastPersisted'[q] <= lost'
    BY <1>2, MarksAlone
  <2> QED BY <1>2, <1>3, <2>1 DEF MarkStep, Based
<1>6. GapStep(w)
  <2>1. (counter = None \/ Behind) => lost' <= mark'
    BY <1>2, BehindAt
  <2>2. ~ Behind
    BY <1>2 DEF Behind
  <2> QED BY <1>2, <2>1, <2>2 DEF GapStep, NoNewIds, HasId
<1> QED BY <1>2, <1>4, <1>5, <1>6, WorkerKeeps

\* The gate opens on a counter that covers every id, so the id it issues is above them all.
LEMMA IssueKeeps ==
    ASSUME SeqInv, NEW w \in Workers, GateIssue(w)
    PROVE  /\ SeqInv' /\ At(w, "gate")
           /\ wk'[w].pc = "idle" \/ wk'[w].id > top
<1>1. SeqTypes
  BY SeqAt
<1>2. /\ SeqTypes' /\ Alone(w) /\ At(w, "gate") /\ wk[w].epoch = mirror /\ counter # None
      /\ counter \in Nat /\ counter' = counter + 1
      /\ wk'[w].pc = "idle" \/ (wk'[w].pc \in {"check", "persist"} /\ wk'[w].id = counter + 1)
      /\ UNCHANGED <<belief, seeded, mirror, top, mark, lost, lastPersisted>>
  BY <1>1, IssueEffect
<1>3. /\ op # "flipped" /\ Begun /\ BeliefFits(belief[procOf[w]], seeded[procOf[w]])
      /\ belief[procOf[w]].kind = "pos" /\ Above(belief[procOf[w]].floor)
  BY <1>2, SeqAt DEF At, Based, Counting
<1>4. Covers(counter)
  BY <1>2, BehindAt DEF At, Behind
<1>5. top \in Int /\ top <= counter
  BY <1>1, <1>4, TypesSplit DEF SharedTypes, Covers
<1>6. counter' # None
  BY <1>2, SeqConstants
<1>7. ModeStep(w)
  <2>1. WorkFits(wk'[w], belief'[procOf[w]])
    BY <1>2, <1>3 DEF WorkFits, Counting, Based
  <2> QED BY <1>2, <1>3, <1>6, <2>1 DEF ModeStep
<1>8. MarkStep(w)
  <2>1. /\ mark' >= mark /\ lost' >= lost
        /\ \A q \in Procs : lastPersisted'[q] <= mark' \/ lastPersisted'[q] <= lost'
    BY <1>2, MarksAlone
  <2> QED BY <1>2, <1>3, <2>1 DEF MarkStep, Based
<1>9. ModeInv' /\ MarkFits'
  BY <1>2, <1>7, <1>8, ModeWorker, MarkWorker DEF SeqInv
<1>10. Covers(counter)'
  <2> DEFINE d == counter'
  <2>1. d = counter + 1 /\ counter \in Int
    BY <1>2
  <2> HIDE DEF d
  <2>2. top' <= d
    BY <1>2, <1>5, <2>1
  <2>3. ASSUME NEW x \in Workers, wk'[x].pc \in HasId
        PROVE  wk'[x].id <= d
    <3>1. CASE x = w
      BY <1>2, <2>1, <2>3, <3>1 DEF HasId
    <3>2. CASE x # w
      <4>1. wk'[x] = wk[x] /\ wk[x].id \in Int /\ wk[x].id <= counter
        BY <1>1, <1>2, <1>4, <2>3, <3>2, SeqKnown, SeqWorkFields DEF Alone, Covers
      <4> QED BY <2>1, <4>1
    <3> QED BY <3>1, <3>2
  <2> QED BY <2>2, <2>3 DEF Covers, d
<1>11. SeqInv'
  BY <1>6, <1>9, <1>10, GapClosed DEF SeqInv
<1>12. wk'[w].pc = "idle" \/ wk'[w].id > top
  BY <1>2, <1>5
<1> QED BY <1>2, <1>11, <1>12

LEMMA AfterIssueKeeps ==
    ASSUME SeqInv, NEW w \in Workers, AfterIssue(w)
    PROVE  SeqInv'
<1>1. SeqTypes
  BY SeqAt
<1>2. /\ SeqTypes' /\ Alone(w) /\ At(w, "check")
      /\ \/ wk'[w].pc = "idle"
         \/ wk'[w].pc = "persist" /\ wk'[w].id = wk[w].id
         \/ /\ wk'[w].pc = "floors"
            /\ wk'[w].epoch = belief[procOf[w]].epoch
            /\ wk'[w].floor = belief[procOf[w]].floor
      /\ seeded'[procOf[w]] => seeded[procOf[w]]
      /\ \A p \in Procs : lastPersisted'[p] = lastPersisted[p] \/ lastPersisted'[p] = None
      /\ UNCHANGED <<belief, mirror, counter, era, top, mark, lost>>
  BY <1>1, AfterIssueEffect
<1>3. /\ op # "flipped" /\ Begun /\ belief[procOf[w]].kind = "pos"
      /\ Above(belief[procOf[w]].floor) /\ BeliefFits(belief[procOf[w]], seeded[procOf[w]])
  BY <1>2, SeqAt DEF At, Counting
<1>4. ModeStep(w)
  <2>1. WorkFits(wk'[w], belief'[procOf[w]])
    BY <1>2, <1>3 DEF WorkFits, BeliefFits, Counting, Based
  <2>2. BeliefFits(belief'[procOf[w]], seeded'[procOf[w]])
    BY <1>2, <1>3 DEF BeliefFits
  <2> QED BY <1>2, <1>3, <2>1, <2>2 DEF ModeStep
<1>5. MarkStep(w)
  <2>1. /\ mark' >= mark /\ lost' >= lost
        /\ \A q \in Procs : lastPersisted'[q] <= mark' \/ lastPersisted'[q] <= lost'
    BY <1>2, MarksAlone
  <2> QED BY <1>2, <1>3, <2>1 DEF MarkStep, Based
<1>6. GapStep(w)
  <2>1. ~ (counter = None \/ Behind)
    BY <1>2, BehindAt DEF At
  <2> QED BY <1>2, <2>1 DEF GapStep, NoNewIds, HasId, At
<1> QED BY <1>2, <1>4, <1>5, <1>6, WorkerKeeps

LEMMA PersistKeeps ==
    ASSUME SeqInv, NEW w \in Workers, PersistHighWater(w)
    PROVE  SeqInv'
<1> DEFINE p == procOf[w]
           v == wk[w].id
<1>1. SeqTypes
  BY SeqAt
<1>2. /\ SeqTypes' /\ Alone(w) /\ At(w, "persist")
      /\ wk'[w].pc = "publish" /\ wk'[w].id = v
      /\ mark \in Nat /\ lost \in Nat /\ mark' \in Nat /\ lost' \in Nat
      /\ mark' >= mark /\ lost' >= lost
      /\ \/ /\ UNCHANGED <<mark, lost, lastPersisted>>
            /\ lastPersisted[p] \in Nat
            /\ v < lastPersisted[p] + GenSeqStep
         \/ /\ v <= mark' \/ v <= lost'
            /\ lastPersisted'[p] \in {lastPersisted[p], v}
            /\ \A q \in Procs \ {p} : lastPersisted'[q] = lastPersisted[q]
      /\ UNCHANGED <<belief, seeded, mirror, counter, era, top>>
  BY <1>1, PersistEffect
<1>3. /\ op # "flipped" /\ Begun /\ belief[p].kind = "pos" /\ Above(belief[p].floor)
      /\ BeliefFits(belief[p], seeded[p]) /\ p \in Procs
  BY <1>2, SeqAt DEF At, Counting
<1>4. /\ v \in Int /\ GenSeqStep \in Nat \ {0}
      /\ \A q \in Procs : lastPersisted[q] \in Int
      /\ \A q \in Procs : lastPersisted[q] <= mark \/ lastPersisted[q] <= lost
  BY <1>1, SeqKnown, SeqWorkFields, SeqConstants DEF SharedTypes, SeqInv, MarkFits, None
<1>5. ModeStep(w)
  BY <1>2, <1>3 DEF ModeStep, WorkFits, Counting, Based
<1> DEFINE m == mark'
           n == lost'
<1>6. m \in Nat /\ n \in Nat /\ m >= mark /\ n >= lost
  BY <1>2
<1>7. v < m + GenSeqStep \/ v < n + GenSeqStep
  <2>1. CASE v <= m \/ v <= n
    <3> HIDE DEF m, n, v
    <3> QED BY <1>4, <1>6, <2>1
  <2>2. CASE lastPersisted[p] \in Nat /\ v < lastPersisted[p] + GenSeqStep
    <3> DEFINE i == lastPersisted[p]
    <3>1. i \in Nat /\ v < i + GenSeqStep /\ (i <= mark \/ i <= lost)
      BY <1>3, <1>4, <2>2
    <3> HIDE DEF m, n, v, i
    <3> QED BY <1>2, <1>4, <1>6, <3>1
  <2> QED BY <1>2, <2>1, <2>2
<1>8. ASSUME NEW q \in Procs
      PROVE  lastPersisted'[q] <= m \/ lastPersisted'[q] <= n
  <2>1. lastPersisted[q] <= m \/ lastPersisted[q] <= n
    <3> DEFINE i == lastPersisted[q]
    <3>1. i \in Int /\ (i <= mark \/ i <= lost)
      BY <1>4
    <3> HIDE DEF m, n, i
    <3>2. i <= m \/ i <= n
      BY <1>2, <1>6, <3>1
    <3> QED BY <3>2 DEF i
  <2>2. \/ lastPersisted'[q] = lastPersisted[q]
        \/ lastPersisted'[q] = v /\ (v <= m \/ v <= n)
    BY <1>2
  <2> QED BY <2>1, <2>2
<1>9. MarkStep(w)
  BY <1>2, <1>3, <1>7, <1>8 DEF MarkStep, Based
<1>10. GapStep(w)
  <2>1. ~ (counter = None \/ Behind)
    BY <1>2, BehindAt DEF At
  <2> QED BY <1>2, <2>1 DEF GapStep, NoNewIds, HasId, At
<1> QED BY <1>2, <1>5, <1>9, <1>10, WorkerKeeps

LEMMA PublishKeeps ==
    ASSUME SeqInv, NEW w \in Workers, Publish(w)
    PROVE  SeqInv'
<1>1. SeqTypes
  BY SeqAt
<1>2. /\ SeqTypes' /\ Alone(w) /\ At(w, "publish") /\ wk'[w].pc = "idle"
      /\ top' \in {top, wk[w].id} /\ top' >= top
      /\ UNCHANGED <<belief, seeded, mirror, counter, era, mark, lost, lastPersisted>>
  BY <1>1, PublishEffect
<1>3. /\ op # "flipped" /\ BeliefFits(belief[procOf[w]], seeded[procOf[w]])
      /\ (counter # None \/ era) => Begun
      /\ belief[procOf[w]].kind = "pos" => Begun /\ Above(belief[procOf[w]].floor)
  BY <1>2, SeqAt DEF At
<1>4. ModeStep(w)
  BY <1>2, <1>3 DEF ModeStep, WorkFits, Counting, Based
<1>5. MarkStep(w)
  <2>1. /\ mark' >= mark /\ lost' >= lost
        /\ \A q \in Procs : lastPersisted'[q] <= mark' \/ lastPersisted'[q] <= lost'
    BY <1>2, MarksAlone
  <2>2. Begun => NearMark(wk[w].id)
    BY <1>2 DEF SeqInv, MarkFits
  <2>3. top' = top \/ (Begun => NearMark(top'))
    BY <1>2, <2>2 DEF NearMark
  <2> QED BY <1>2, <1>3, <2>1, <2>3 DEF MarkStep, Based
<1>6. GapStep(w)
  <2>1. (counter = None \/ Behind) => lost' <= mark'
    BY <1>2, BehindAt
  <2>2. Behind /\ seeded[procOf[w]] => belief[procOf[w]].epoch # mirror
    BY BehindAt
  <2> QED BY <1>2, <2>1, <2>2 DEF GapStep, NoNewIds, HasId, At
<1> QED BY <1>2, <1>4, <1>5, <1>6, WorkerKeeps

-----------------------------------------------------------------------------
(* The steps of the operator and of the world keep it. *)

LEMMA UnmovedArmed ==
    ASSUME UNCHANGED <<memory, procOf>>
    PROVE  Armed' <=> Armed
BY DEF Armed, Running, memory

\* A worker at the gate, and a seeded process, names a generation.
LEMMA NamedEpochs ==
    ASSUME SeqInv
    PROVE  /\ \A w \in Workers : At(w, "gate") => wk[w].epoch # Absent
           /\ \A p \in Procs : seeded[p] => belief[p].epoch # Absent
<1>1. ASSUME NEW w \in Workers, At(w, "gate")
      PROVE  wk[w].epoch # Absent
  BY <1>1, SeqAt DEF At, Based, Absent
<1>2. ASSUME NEW p \in Procs, seeded[p]
      PROVE  belief[p].epoch # Absent
  <2>1. BeliefFits(belief[p], seeded[p])
    BY DEF SeqInv, ModeInv
  <2> QED BY <1>2, <2>1 DEF BeliefFits, Absent
<1> QED BY <1>1, <1>2

\* A step that moves no worker, no process and no number that an id is measured by.
LEMMA UnmovedKeeps ==
    ASSUME SeqInv, SeqTypes', UNCHANGED <<memory, wk, counter, mark, others>>, CutoverFits',
           \A w \in Workers : WorkFits(wk[w], belief[procOf[w]])',
           \A p \in Procs : BeliefFits(belief[p], seeded[p])',
           Begun' => Above(authority.floor)',
           Begun' => Begun \/ Quiet,
           Behind =>
              /\ \A w \in Workers : At(w, "gate") => wk[w].epoch # mirror'
              /\ \A p \in Procs : seeded[p] => belief[p].epoch # mirror'
    PROVE  SeqInv'
<1>1. ModeInv'
  BY DEF ModeInv
<1>2. MarkFits'
  BY DEF SeqInv, MarkFits, memory, others, Above, NearMark, At, Quiet
<1>3. GapFits'
  BY DEF SeqInv, GapFits, Behind, Covers, memory, others, At
<1>4. GateFits'
  BY DEF SeqInv, GateFits, Behind, Covers, memory, others, At
<1> QED BY <1>1, <1>2, <1>3, <1>4 DEF SeqInv

\* The row stays as well.
LEMMA SameRow ==
    ASSUME SeqInv, SharedTypes', UNCHANGED <<memory, wk, counter, mark, others, authority>>,
           CutoverFits',
           Behind =>
              /\ \A w \in Workers : At(w, "gate") => wk[w].epoch # mirror'
              /\ \A p \in Procs : seeded[p] => belief[p].epoch # mirror'
    PROVE  SeqInv'
<1>1. SeqTypes'
  <2>1. wk' = wk /\ wk \in [Workers -> SeqWork]
    BY TypesSplit DEF SeqInv, ModeInv
  <2> QED BY <2>1, TypesSplitNext
<1>2. Armed' <=> Armed
  BY UnmovedArmed DEF others
<1>3. /\ \A w \in Workers : WorkFits(wk[w], belief[procOf[w]])'
      /\ \A p \in Procs : BeliefFits(belief[p], seeded[p])'
      /\ (Begun' <=> Begun)
  BY <1>2 DEF SeqInv, ModeInv, WorkFits, BeliefFits, Begun, memory, others
<1>4. Begun' => Above(authority.floor)'
  BY <1>3 DEF SeqInv, MarkFits, Above, NearMark, others
<1> QED BY <1>1, <1>3, <1>4, UnmovedKeeps

LEMMA CutoverKeeps ==
    ASSUME SeqInv, Pause \/ ClearMirror \/ WriteMirror
    PROVE  SeqInv'
<1>1. SharedTypes /\ CutoverFits /\ GateFits /\ authority.epoch \in Nat
  BY TypesSplit DEF SeqInv, ModeInv, SharedTypes
<1>2. CASE Pause
  <2>1. /\ op \in {"idle", "done"} /\ ~ authority.on /\ op' = "paused"
        /\ UNCHANGED <<durable, redis, memory, wk, bounds, others>>
    BY <1>2 DEF Pause
  <2>2. SharedTypes'
    BY <1>1, <2>1 DEF SharedTypes, durable, redis, memory, bounds, others
  <2>3. Armed' <=> Armed
    BY <2>1, UnmovedArmed DEF others
  <2>4. CutoverFits'
    BY <1>1, <2>1, <2>3 DEF CutoverFits, Evidence, Begun, durable, redis, memory, others
  <2> QED BY <1>1, <2>1, <2>2, <2>4, SameRow DEF durable, redis, GateFits
<1>3. CASE ClearMirror
  <2>1. /\ op = "paused" /\ mirror' = Absent
        /\ UNCHANGED <<durable, counter, queueMax, op, memory, wk, bounds, others>>
    BY <1>3 DEF ClearMirror
  <2>2. SharedTypes'
    BY <1>1, <2>1, SeqConstants DEF SharedTypes, durable, memory, bounds, others
  <2>3. Armed' <=> Armed
    BY <2>1, UnmovedArmed DEF others
  <2>4. CutoverFits'
    BY <1>1, <2>1, <2>3 DEF CutoverFits, Evidence, Begun, durable, memory, others
  <2> QED BY <2>1, <2>2, <2>4, NamedEpochs, SameRow DEF durable
<1>4. CASE WriteMirror
  <2>1. /\ op = "flipped" /\ mirror' = authority.epoch /\ op' = "done"
        /\ \A p \in Procs : belief[p].denied = Absent
        /\ UNCHANGED <<durable, counter, queueMax, memory, wk, bounds, others>>
    BY <1>4 DEF WriteMirror
  <2>2. SharedTypes'
    BY <1>1, <2>1 DEF SharedTypes, durable, memory, bounds, others
  <2>3. /\ authority.on /\ Begun /\ authority.epoch # Absent /\ Quiet
        /\ \A p \in Procs : belief[p].epoch < authority.epoch
    BY <1>1, <2>1 DEF CutoverFits, Begun, Absent
  <2>4. CutoverFits'
    BY <1>1, <2>1, <2>3 DEF CutoverFits, Begun, Claims, durable, memory, others
  <2>5. \A p \in Procs : belief[p].epoch # mirror'
    <3>1. \A p \in Procs : belief[p].epoch \in Nat
      BY <1>1, BeliefFields DEF SharedTypes
    <3> QED BY <1>1, <2>1, <2>3, <3>1
  <2>6. \A w \in Workers : ~ At(w, "gate")
    BY <2>3 DEF Quiet, At
  <2> QED BY <2>1, <2>2, <2>4, <2>5, <2>6, SameRow DEF durable
<1> QED BY <1>2, <1>3, <1>4

LEMMA MirrorKeeps ==
    ASSUME SeqInv, Drain \/ ForgeMirror \/ LoseMirror
    PROVE  SeqInv'
<1>1. SharedTypes /\ CutoverFits /\ GateFits
  BY TypesSplit DEF SeqInv, ModeInv
<1>2. CASE Drain
  <2>1. queueMax' = 0 /\ UNCHANGED <<durable, mirror, counter, op, memory, wk, bounds, others>>
    BY <1>2 DEF Drain
  <2>2. SharedTypes'
    BY <1>1, <2>1 DEF SharedTypes, durable, memory, bounds, others
  <2>3. Armed' <=> Armed
    BY <2>1, UnmovedArmed DEF others
  <2>4. CutoverFits'
    BY <1>1, <2>1, <2>3 DEF CutoverFits, Evidence, Begun, Quiet, At, durable, memory, others
  <2> QED BY <1>1, <2>1, <2>2, <2>4, SameRow DEF durable, GateFits
<1>3. CASE ForgeMirror
  <2>1. /\ op = "idle" /\ mirror' \in {Bare, 1} /\ mishaps' \in 0..MaxMishaps
        /\ UNCHANGED <<durable, counter, queueMax, op, memory, wk, allocs, others>>
    BY <1>1, <1>3, SeqConstants DEF ForgeMirror, Spend, SharedTypes
  <2>2. SharedTypes'
    BY <1>1, <2>1 DEF SharedTypes, durable, memory, others
  <2>3. CutoverFits'
    BY <1>1, <2>1 DEF CutoverFits, Begun, durable, memory, others
  <2>4. ~ Behind
    BY <1>1, <2>1 DEF CutoverFits, Behind
  <2> QED BY <2>1, <2>2, <2>3, <2>4, SameRow DEF durable
<1>4. CASE LoseMirror
  <2>1. /\ op = "done" /\ Evidence /\ mirror' = Absent /\ mishaps' \in 0..MaxMishaps
        /\ UNCHANGED <<durable, counter, queueMax, op, memory, wk, allocs, others>>
    BY <1>1, <1>4, SeqConstants DEF LoseMirror, Settled, Evidence, Spend, SharedTypes, bounds
  <2>2. SharedTypes'
    BY <1>1, <2>1, SeqConstants DEF SharedTypes, durable, memory, others
  <2>3. Armed' <=> Armed
    BY <2>1, UnmovedArmed DEF others
  <2>4. CutoverFits'
    BY <1>1, <2>1, <2>3 DEF CutoverFits, Evidence, Begun, durable, memory, others
  <2> QED BY <2>1, <2>2, <2>4, NamedEpochs, SameRow DEF durable
<1> QED BY <1>2, <1>3, <1>4

\* A quiet bot has no record to fit.
LEMMA QuietFits ==
    ASSUME SeqInv, Quiet, UNCHANGED wk
    PROVE  \A w \in Workers : WorkFits(wk[w], belief[procOf[w]])'
BY DEF Quiet, At, WorkFits, Counting, Based

LEMMA SameWorkers ==
    ASSUME SeqInv, SharedTypes', UNCHANGED wk
    PROVE  SeqTypes'
<1>1. wk' = wk /\ wk \in [Workers -> SeqWork]
  BY TypesSplit DEF SeqInv, ModeInv
<1> QED BY <1>1, TypesSplitNext

LEMMA ActivateKeeps ==
    ASSUME SeqInv, Activate
    PROVE  SeqInv'
<1> DEFINE m == Max({queueMax, minSeq, mark, top})
<1>1. SharedTypes /\ CutoverFits /\ GateFits /\ Armed \in BOOLEAN
      /\ authority.epoch \in Nat
  BY TypesSplit DEF SeqInv, ModeInv, SharedTypes, Armed
<1>2. /\ Quiet /\ op' = "flipped"
      /\ authority' = [on |-> TRUE, epoch |-> authority.epoch + 1, floor |-> m + 1]
      /\ UNCHANGED <<minSeq, mark, redis, memory, wk, bounds, others>>
  BY DEF Activate
<1>3. m \in Nat /\ top \in Nat /\ top <= m
  <2>1. queueMax \in Nat /\ minSeq \in Nat /\ mark \in Nat /\ top \in Nat
    BY <1>1 DEF SharedTypes
  <2>2. /\ m \in {queueMax, minSeq, mark, top}
        /\ \A y \in {queueMax, minSeq, mark, top} : m >= y
    <3>1. queueMax \in Int /\ minSeq \in Int /\ mark \in Int /\ top \in Int
      BY <2>1
    <3> QED BY <3>1, MaxOfFour
  <2> HIDE DEF m
  <2> QED BY <2>1, <2>2
<1> HIDE DEF m
<1>4. /\ authority'.on /\ authority'.epoch = authority.epoch + 1 /\ authority'.floor = m + 1
      /\ authority' \in [on : BOOLEAN, epoch : Nat, floor : Nat]
  BY <1>1, <1>2, <1>3
<1>5. SharedTypes'
  BY <1>1, <1>2, <1>4 DEF SharedTypes, redis, memory, bounds, others
<1>6. \A p \in Procs : belief[p].epoch < authority.epoch + 1
  <2>1. ASSUME NEW p \in Procs
        PROVE  belief[p].epoch < authority.epoch + 1
    <3>1. BeliefFits(belief[p], seeded[p]) /\ belief[p].epoch \in Nat
      BY <1>1, BeliefFields DEF SeqInv, ModeInv, SharedTypes
    <3> QED BY <1>1, <3>1 DEF BeliefFits
  <2> QED BY <2>1
<1>7. Begun'
  BY <1>1, <1>4 DEF Begun
<1>8. CutoverFits'
  BY <1>2, <1>4, <1>6, <1>7 DEF CutoverFits, Quiet, At, memory
<1>9. \A p \in Procs : BeliefFits(belief[p], seeded[p])'
  <2>1. ASSUME NEW p \in Procs
        PROVE  BeliefFits(belief[p], seeded[p])'
    <3>1. BeliefFits(belief[p], seeded[p]) /\ belief[p].epoch < authority.epoch + 1
          /\ belief[p].epoch \in Nat /\ belief'[p] = belief[p] /\ seeded'[p] = seeded[p]
      BY <1>1, <1>2, <1>6, BeliefFields DEF SeqInv, ModeInv, SharedTypes, memory
    <3> QED BY <1>1, <1>4, <3>1 DEF BeliefFits
  <2> QED BY <2>1
<1>10. Above(authority.floor)'
  <2>1. m + 1 > 0 /\ top < m + 1
    BY <1>3
  <2>2. top' = top
    BY <1>2 DEF others
  <2> QED BY <1>4, <2>1, <2>2 DEF Above
<1>11. Behind => /\ \A w \in Workers : At(w, "gate") => wk[w].epoch # mirror'
                 /\ \A p \in Procs : seeded[p] => belief[p].epoch # mirror'
  BY <1>1, <1>2 DEF GateFits, redis
<1> QED BY <1>2, <1>5, <1>8, <1>9, <1>10, <1>11, QuietFits, SameWorkers, UnmovedKeeps
     DEF redis

LEMMA RowKeeps ==
    ASSUME SeqInv, AuthorityRegresses \/ RestoreAuthority
    PROVE  SeqInv'
<1>1. SharedTypes /\ CutoverFits /\ GateFits
  BY TypesSplit DEF SeqInv, ModeInv
<1>2. /\ op = "done" /\ mishaps' \in 0..MaxMishaps /\ allocs' = allocs
      /\ UNCHANGED <<minSeq, mark, redis, op, memory, wk, others>>
      /\ \/ /\ Evidence /\ Quiet /\ authority' = [authority EXCEPT !.on = FALSE]
         \/ /\ ~ authority.on /\ authority.epoch > 0
            /\ authority' = [authority EXCEPT !.on = TRUE]
  BY <1>1, SeqConstants
     DEF AuthorityRegresses, RestoreAuthority, Settled, Evidence, Spend, bounds, SharedTypes
<1>3. /\ authority'.epoch = authority.epoch /\ authority'.floor = authority.floor
      /\ authority' \in [on : BOOLEAN, epoch : Nat, floor : Nat]
      /\ \/ Evidence /\ Quiet
         \/ ~ authority.on /\ Begun
  BY <1>1, <1>2 DEF SharedTypes, Begun
<1>4. SharedTypes'
  BY <1>1, <1>2, <1>3 DEF SharedTypes, redis, memory, others
<1>5. (Armed' <=> Armed) /\ (Begun' <=> Begun)
  BY <1>2, <1>3, UnmovedArmed DEF Begun, others
<1>6. Evidence /\ Begun
  BY <1>1, <1>2, <1>3 DEF CutoverFits
<1>7. CutoverFits'
  BY <1>1, <1>2, <1>5, <1>6 DEF CutoverFits, Evidence, redis, others
<1>8. \A p \in Procs : BeliefFits(belief[p], seeded[p])'
  BY <1>2, <1>3 DEF SeqInv, ModeInv, BeliefFits, memory
<1>9. \A w \in Workers : WorkFits(wk[w], belief[procOf[w]])'
  <2>1. CASE Quiet
    BY <1>2, <2>1, QuietFits
  <2>2. CASE ~ authority.on /\ Begun
    BY <1>2, <1>3, <1>5, <2>2 DEF SeqInv, ModeInv, WorkFits, memory, others
  <2> QED BY <1>3, <2>1, <2>2
<1>10. Above(authority.floor)'
  BY <1>2, <1>3, <1>6 DEF SeqInv, MarkFits, Above, NearMark, others
<1>11. Behind => /\ \A w \in Workers : At(w, "gate") => wk[w].epoch # mirror'
                 /\ \A p \in Procs : seeded[p] => belief[p].epoch # mirror'
  BY <1>1, <1>2 DEF GateFits, redis
<1> QED BY <1>2, <1>4, <1>5, <1>6, <1>7, <1>8, <1>9, <1>10, <1>11, SameWorkers, UnmovedKeeps
     DEF redis

LEMMA CounterLossKeeps ==
    ASSUME SeqInv, LoseCounter \/ Rollback
    PROVE  SeqInv'
<1>1. SharedTypes /\ CutoverFits /\ counter \in Nat \cup {None}
  BY TypesSplit DEF SeqInv, ModeInv, SharedTypes
<1>2. /\ lost <= mark /\ mishaps' \in 0..MaxMishaps /\ counter # None
      /\ \A w \in Workers : wk[w].pc \notin {"seed", "check", "persist"}
      /\ UNCHANGED <<durable, op, memory, wk, allocs, others>>
      /\ mirror' \in {mirror, Absent} /\ queueMax' \in {queueMax, 0}
      /\ \/ Armed /\ counter' = None
         \/ /\ Quiet /\ mirror' = Absent /\ counter' \in Nat /\ op = "done"
  <2>1. CASE LoseCounter
    BY <1>1, <2>1, SeqConstants DEF LoseCounter, Shielded, Spend, SharedTypes
  <2>2. CASE Rollback
    <3>1. /\ Spend /\ Settled /\ Quiet /\ Shielded /\ counter > 1
          /\ counter' \in {counter - 1, counter - Margin} \cap Nat
          /\ mirror' = Absent /\ queueMax' = 0
          /\ UNCHANGED <<durable, op, memory, wk, others>>
      BY <2>2 DEF Rollback
    <3>2. counter # None /\ counter' \in Nat
      BY <1>1, <3>1, SeqConstants
    <3>3. mishaps' \in 0..MaxMishaps /\ allocs' = allocs
      BY <1>1, <3>1, SeqConstants DEF Spend, SharedTypes
    <3> QED BY <3>1, <3>2, <3>3 DEF Settled, Shielded, Quiet, At
  <2> QED BY <2>1, <2>2
<1>3. SharedTypes'
  BY <1>1, <1>2, SeqConstants DEF SharedTypes, durable, memory, others
<1>4. SeqTypes'
  BY <1>2, <1>3, SameWorkers
<1>5. (Armed' <=> Armed) /\ (Begun' <=> Begun) /\ Begun
  BY <1>1, <1>2, UnmovedArmed DEF Begun, CutoverFits, durable, others
<1>6. Evidence'
  BY <1>2, <1>5, SeqConstants DEF Evidence
<1>7. CutoverFits'
  BY <1>1, <1>2, <1>5, <1>6 DEF CutoverFits, Quiet, At, durable, memory, others
<1>8. ModeInv'
  BY <1>2, <1>4, <1>5, <1>7
     DEF SeqInv, ModeInv, WorkFits, BeliefFits, durable, memory, others
<1>9. MarkFits'
  BY <1>2, <1>5 DEF SeqInv, MarkFits, Above, NearMark, At, durable, memory, others
<1>10. GapFits'
  BY <1>2 DEF GapFits, At, durable, others
<1>11. GateFits'
  <2>1. CASE counter' = None
    BY <2>1 DEF GateFits, Behind
  <2>2. CASE Quiet /\ mirror' = Absent
    <3>1. \A p \in Procs : seeded'[p] => belief'[p].epoch # mirror'
      BY <1>2, <2>2, NamedEpochs DEF memory
    <3>2. \A w \in Workers : wk'[w].pc = "idle"
      BY <1>2, <2>2 DEF Quiet, At
    <3> QED BY <3>1, <3>2 DEF GateFits, At
  <2> QED BY <1>2, <2>1, <2>2
<1> QED BY <1>8, <1>9, <1>10, <1>11 DEF SeqInv

LEMMA BeliefAgesKeeps ==
    ASSUME SeqInv, NEW p \in Running, BeliefAges(p)
    PROVE  SeqInv'
<1>1. SharedTypes /\ procOf \in [Workers -> Procs] /\ wk \in [Workers -> SeqWork]
  BY TypesSplit, SeqConstants DEF SeqInv, ModeInv, SharedTypes
<1>2. p \in Procs /\ belief[p] \in Beliefs
  BY <1>1 DEF Running, SharedTypes
<1>3. /\ UNCHANGED <<durable, redis, op, seeded, lastIssued, lastPersisted, block, expected, wk,
                     bounds, others>>
      /\ belief' \in [Procs -> Beliefs]
      /\ \A q \in Procs : /\ belief'[q].kind = belief[q].kind /\ belief'[q].epoch = belief[q].epoch
                          /\ belief'[q].floor = belief[q].floor
                          /\ belief[q].denied = Absent => belief'[q].denied = Absent
  <2>1. PICK b \in {[belief[p] EXCEPT !.denied = Absent],
                    [belief[p] EXCEPT !.denied = Absent, !.fresh = FALSE]} :
            belief' = [belief EXCEPT ![p] = b]
    BY DEF BeliefAges
  <2>2. /\ b \in Beliefs /\ b.kind = belief[p].kind /\ b.epoch = belief[p].epoch
        /\ b.floor = belief[p].floor /\ b.denied = Absent
    <3> DEFINE c == belief[p]
    <3> HIDE DEF c
    <3>1. CASE b = [c EXCEPT !.denied = Absent]
      BY <1>2, <3>1 DEF Beliefs, Absent, Bare, c
    <3>2. CASE b = [c EXCEPT !.denied = Absent, !.fresh = FALSE]
      BY <1>2, <3>2 DEF Beliefs, Absent, Bare, c
    <3> QED BY <2>1, <3>1, <3>2 DEF c
  <2>3. UNCHANGED <<durable, redis, op, seeded, lastIssued, lastPersisted, block, expected, wk,
                    bounds, others>>
    BY DEF BeliefAges
  <2>4. /\ belief' \in [Procs -> Beliefs] /\ belief'[p] = b
        /\ \A q \in Procs \ {p} : belief'[q] = belief[q]
    BY <1>1, <1>2, <2>1, <2>2 DEF SharedTypes
  <2> QED BY <2>2, <2>3, <2>4
<1>4. SharedTypes'
  BY <1>1, <1>3 DEF SharedTypes, durable, redis, bounds, others
<1>5. SeqTypes'
  BY <1>3, <1>4, SameWorkers
<1>6. (Armed' <=> Armed) /\ (Begun' <=> Begun)
  BY <1>3 DEF Armed, Running, Begun, durable, others
<1>7. CutoverFits'
  BY <1>3, <1>6
     DEF SeqInv, ModeInv, CutoverFits, Evidence, Quiet, At, durable, redis, others
<1>8. ModeInv'
  <2>1. \A q \in Procs : BeliefFits(belief[q], seeded[q])'
    BY <1>3 DEF SeqInv, ModeInv, BeliefFits, durable
  <2>2. ASSUME NEW w \in Workers
        PROVE  WorkFits(wk[w], belief[procOf[w]])'
    <3>1. procOf[w] \in Procs /\ WorkFits(wk[w], belief[procOf[w]])
      BY <1>1 DEF SeqInv, ModeInv
    <3> QED BY <1>3, <1>6, <3>1 DEF WorkFits, durable, others
  <2> QED BY <1>5, <1>7, <2>1, <2>2 DEF ModeInv
<1>9. MarkFits'
  BY <1>3, <1>6 DEF SeqInv, MarkFits, Above, NearMark, At, durable, others
<1>10. GapFits'
  BY <1>3 DEF SeqInv, GapFits, Behind, Covers, At, durable, redis, others
<1>11. GateFits'
  BY <1>3 DEF SeqInv, GateFits, Behind, Covers, At, redis, others
<1> QED BY <1>8, <1>9, <1>10, <1>11 DEF SeqInv

LEMMA RestartKeeps ==
    ASSUME SeqInv, NEW p \in Running, Restart(p) \/ Arm(p)
    PROVE  /\ SeqInv' /\ \A w \in Workers : wk'[w] = wk[w] \/ wk'[w].pc = "idle"
<1>1. SharedTypes /\ procOf \in [Workers -> Procs] /\ wk \in [Workers -> SeqWork] /\ p \in Procs
  BY TypesSplit, SeqConstants DEF SeqInv, ModeInv, SharedTypes, Running
<1>2. Restarted(p) /\ allocs' = allocs /\ mishaps' \in 0..MaxMishaps
  BY <1>1, SeqConstants DEF Restart, Arm, Spend, bounds, SharedTypes
<1>3. /\ UNCHANGED <<durable, redis, op, others>>
      /\ belief' = [belief EXCEPT ![p] = NoBelief] /\ seeded' = [seeded EXCEPT ![p] = FALSE]
      /\ lastIssued' = [lastIssued EXCEPT ![p] = None]
      /\ lastPersisted' = [lastPersisted EXCEPT ![p] = None]
      /\ block' = [block EXCEPT ![p] = ColdBlock]
      /\ wk' = [w \in Workers |-> IF procOf[w] = p THEN Idle ELSE wk[w]]
  BY <1>2 DEF Restarted
<1>4. /\ expected' \in [Procs -> {"unset", "incr"}]
      /\ \A q \in Procs : expected[q] = "incr" => expected'[q] = "incr"
  BY <1>1 DEF Restart, Arm, SharedTypes
<1>5. /\ belief' \in [Procs -> Beliefs] /\ seeded' \in [Procs -> BOOLEAN]
      /\ lastIssued' \in [Procs -> Nat \cup {None}]
      /\ lastPersisted' \in [Procs -> Nat \cup {None}]
      /\ block' \in [Procs -> [at : Nat, top : Nat]]
  <2>1. ColdBlock \in [at : Nat, top : Nat]
    BY DEF ColdBlock
  <2> QED BY <1>1, <1>3, <2>1, NoneBelief DEF SharedTypes
<1>6. SharedTypes'
  BY <1>1, <1>2, <1>3, <1>4, <1>5 DEF SharedTypes, durable, redis, others
<1>7. /\ wk' \in [Workers -> SeqWork]
      /\ \A w \in Workers : IF procOf[w] = p THEN wk'[w].pc = "idle" ELSE wk'[w] = wk[w]
  BY <1>1, <1>3, IdleWork
<1>8. /\ \A q \in Procs \ {p} : belief'[q] = belief[q] /\ seeded'[q] = seeded[q]
      /\ belief'[p].kind = "none" /\ belief'[p].epoch = 0 /\ belief'[p].denied = Absent
      /\ ~ seeded'[p]
  BY <1>1, <1>3, NoneBelief DEF SharedTypes
<1>9. SeqTypes'
  BY <1>6, <1>7, TypesSplitNext
<1>10. (Armed => Armed') /\ (Begun' <=> Begun)
  BY <1>1, <1>3, <1>4 DEF Armed, Running, Begun, durable, others
<1>11. CutoverFits'
  <2>1. /\ Evidence => Evidence'
        /\ op = "flipped" => 0 < authority.epoch
        /\ Quiet => Quiet'
    BY <1>3, <1>7, <1>10
       DEF SeqInv, ModeInv, CutoverFits, Evidence, Begun, Quiet, At, redis
  <2>2. op = "flipped" => \A q \in Procs : belief'[q].epoch < authority.epoch
    BY <1>8, <2>1 DEF SeqInv, ModeInv, CutoverFits
  <2>3. (\A q \in Procs : belief[q].denied = Absent) => \A q \in Procs : belief'[q].denied = Absent
    BY <1>8
  <2>4. /\ authority' = authority /\ op' = op /\ counter' = counter /\ mirror' = mirror
        /\ era' = era
    BY <1>3 DEF durable, redis, others
  <2> QED BY <1>10, <2>1, <2>2, <2>3, <2>4 DEF SeqInv, ModeInv, CutoverFits
<1>12. ModeInv'
  <2>1. ASSUME NEW q \in Procs
        PROVE  BeliefFits(belief[q], seeded[q])'
    BY <1>3, <1>8 DEF SeqInv, ModeInv, BeliefFits, durable
  <2>2. ASSUME NEW w \in Workers
        PROVE  WorkFits(wk[w], belief[procOf[w]])'
    <3>1. CASE procOf[w] = p
      BY <1>7, <3>1 DEF WorkFits, Counting, Based
    <3>2. CASE procOf[w] # p
      <4>1. /\ wk'[w] = wk[w] /\ procOf' = procOf /\ belief'[procOf[w]] = belief[procOf[w]]
            /\ WorkFits(wk[w], belief[procOf[w]]) /\ authority' = authority
        BY <1>1, <1>3, <1>7, <1>8, <3>2 DEF SeqInv, ModeInv, durable, others
      <4> QED BY <1>10, <4>1 DEF WorkFits, Begun
    <3> QED BY <3>1, <3>2
  <2> QED BY <1>9, <1>11, <2>1, <2>2 DEF ModeInv
<1>13. MarkFits'
  <2>1. /\ mark' = mark /\ lost' = lost /\ top' = top /\ authority' = authority
    BY <1>3 DEF durable, others
  <2>2. \A q \in Procs : lastPersisted'[q] = lastPersisted[q] \/ lastPersisted'[q] = None
    BY <1>1, <1>3 DEF SharedTypes
  <2>3. \A q \in Procs : lastPersisted'[q] <= mark' \/ lastPersisted'[q] <= lost'
    BY <2>1, <2>2, MarksAlone
  <2>4. \A w \in Workers : wk'[w].pc # "idle" => wk'[w] = wk[w]
    BY <1>7
  <2>5. \A q \in Procs : belief'[q].kind = "pos" => belief'[q] = belief[q]
    BY <1>8
  <2> QED BY <1>10, <2>1, <2>3, <2>4, <2>5 DEF SeqInv, MarkFits, Above, NearMark, At, Based
<1>14. /\ \A w \in Workers : wk'[w].pc # "idle" => wk'[w] = wk[w] /\ procOf[w] # p
       /\ \A q \in Procs : seeded'[q] => seeded[q] /\ belief'[q] = belief[q]
       /\ top' = top /\ counter' = counter /\ mirror' = mirror /\ procOf' = procOf
       /\ lost' = lost /\ mark' = mark
  BY <1>3, <1>7, <1>8 DEF durable, redis, others
<1>15. Behind' => Behind
  BY <1>14 DEF Behind, Covers, HasId
<1>16. GapFits'
  <2>1. ASSUME counter = None \/ Behind
        PROVE  /\ (lost <= mark)'
               /\ \A w \in Workers : wk'[w].pc \notin {"check", "persist"}
               /\ \A w \in Workers : At(w, "seed")' => Covers(wk[w].low)'
    BY <1>14, <2>1 DEF SeqInv, GapFits, At, Covers, HasId
  <2> QED BY <1>14, <1>15, <2>1 DEF GapFits
<1>17. GateFits'
  <2>1. ASSUME Behind
        PROVE  /\ \A w \in Workers :
                     /\ wk'[w].pc # "mirror"
                     /\ wk'[w].pc = "gate" => wk'[w].epoch # mirror'
                     /\ wk'[w].pc \in {"probe", "resolve", "floors", "seed"} =>
                           ~ seeded'[procOf'[w]]
               /\ \A q \in Procs : seeded'[q] => belief'[q].epoch # mirror'
    BY <1>1, <1>14, <2>1 DEF SeqInv, GateFits, At
  <2> QED BY <1>15, <2>1 DEF GateFits, At
<1>18. \A w \in Workers : wk'[w] = wk[w] \/ wk'[w].pc = "idle"
  BY <1>7
<1> QED BY <1>12, <1>13, <1>16, <1>17, <1>18 DEF SeqInv

-----------------------------------------------------------------------------
(* Ids: the theorems. *)

LEMMA SeqInitial == SeqInit => SeqInv
<1> SUFFICES ASSUME SeqInit PROVE SeqInv
  OBVIOUS
<1>1. /\ authority = [on |-> FALSE, epoch |-> 0, floor |-> 0]
      /\ minSeq = 0 /\ mark = 0 /\ mirror = Absent /\ counter = None /\ queueMax = 0
      /\ op = "idle" /\ belief = [p \in Procs |-> NoBelief] /\ seeded = [p \in Procs |-> FALSE]
      /\ lastIssued = [p \in Procs |-> None] /\ lastPersisted = [p \in Procs |-> None]
      /\ block = [p \in Procs |-> ColdBlock] /\ expected = [p \in Procs |-> "unset"]
      /\ wk = [w \in Workers |-> Idle] /\ allocs = 0 /\ mishaps = 0
      /\ top = 0 /\ era = FALSE /\ lost = 0 /\ procOf \in Placements
  BY DEF SeqInit
<1>2. /\ \A w \in Workers : wk[w] = Idle /\ procOf[w] \in Procs
      /\ Idle \in SeqWork /\ Idle.pc = "idle"
      /\ NoBelief \in Beliefs /\ NoBelief.kind = "none" /\ NoBelief.epoch = 0
      /\ authority.epoch = 0 /\ ~ authority.on /\ None = -1 /\ Absent = 0
  BY <1>1, IdleWork, NoneBelief, SeqConstants
<1>3. SharedTypes
  <2>1. ColdBlock \in [at : Nat, top : Nat]
    BY DEF ColdBlock
  <2>2. 0 \in 0..MaxAllocs /\ 0 \in 0..MaxMishaps
    BY SeqConstants
  <2> QED BY <1>1, <1>2, <2>1, <2>2 DEF SharedTypes
<1>4. SeqTypes
  BY <1>1, <1>2, <1>3, TypesSplit
<1>5. ~ Begun /\ CutoverFits
  BY <1>1, <1>2 DEF CutoverFits, Begun
<1>6. ModeInv
  BY <1>1, <1>2, <1>4, <1>5 DEF ModeInv, BeliefFits, WorkFits, Counting, Based
<1>7. MarkFits
  BY <1>1, <1>2, <1>5 DEF MarkFits, Based
<1>8. GapFits /\ GateFits
  BY <1>1, <1>2 DEF GapFits, GateFits, Behind, At
<1> QED BY <1>6, <1>7, <1>8 DEF SeqInv

\* A worker at the gate moves on to an id above the published ones, or to none.
Rising == \A w \in Workers :
              (At(w, "gate") /\ wk'[w].pc \in {"check", "persist"}) => wk'[w].id > top

LEMMA WorkerStep ==
    ASSUME SeqInv, NEW w \in Workers,
           Allocate(w) \/ Advance(w) \/ CallFails(w) \/ ResolveUnreadable(w) \/ ReresolveUnreadable(w)
    PROVE  /\ SeqInv' /\ Alone(w)
           /\ (At(w, "gate") /\ wk'[w].pc \in {"check", "persist"}) => wk'[w].id > top
<1>1. SeqTypes /\ SharedTypes /\ MaxMishaps \in Nat
  BY TypesSplit, SeqConstants DEF SeqInv, ModeInv
<1>2. CASE Allocate(w)
  BY <1>1, <1>2, AllocateKeeps, AllocateEffect
<1>3. CASE CallFails(w)
  BY <1>1, <1>3, GateShutKeeps, FailEffect
<1>4. CASE Probe(w)
  BY <1>1, <1>4, ProbeKeeps, ProbeEffect
<1>5. CASE ResolveRead(w) \/ ResolveUnreadable(w)
  <2>1. Resolve(w, TRUE) \/ Resolve(w, FALSE)
    BY <1>5 DEF ResolveRead, ResolveUnreadable
  <2>2. mishaps' \in 0..MaxMishaps
    <3>1. mishaps \in 0..MaxMishaps
      BY <1>1 DEF SharedTypes
    <3>2. mishaps' = mishaps \/ (mishaps < MaxMishaps /\ mishaps' = mishaps + 1)
      BY <1>5 DEF ResolveRead, ResolveUnreadable
    <3> QED BY <1>1, <3>1, <3>2
  <2>3. SeqInv' /\ Alone(w) /\ At(w, "resolve")
    <3>1. ASSUME NEW k \in BOOLEAN, Resolve(w, k)
          PROVE  SeqInv' /\ Alone(w) /\ At(w, "resolve")
      BY <1>1, <2>2, <3>1, ResolveKeeps, ResolveEffect
    <3> QED BY <2>1, <3>1
  <2> QED BY <2>3 DEF At
<1>6. CASE Legacy(w)
  BY <1>1, <1>6, LegacyKeeps, LegacyEffect
<1>7. CASE ReadFloors(w)
  <2>1. SeqInv' /\ Alone(w) /\ At(w, "floors")
    BY <1>1, <1>7, ReadFloorsKeeps, ReadFloorsEffect
  <2> QED BY <2>1 DEF At
<1>8. CASE Seed(w)
  BY <1>1, <1>8, SeedKeeps, SeedEffect
<1>9. CASE RebuildMirror(w)
  BY <1>1, <1>9, RebuildKeeps, RebuildEffect
<1>10. CASE GateShut(w)
  BY <1>1, <1>10, GateShutKeeps, GateShutEffect
<1>11. CASE GateMissing(w)
  BY <1>1, <1>11, MissingKeeps, MissingEffect
<1>12. CASE GateIssue(w)
  <2>1. SeqInv' /\ Alone(w) /\ (wk'[w].pc = "idle" \/ wk'[w].id > top)
    BY <1>1, <1>12, IssueKeeps, IssueEffect
  <2> QED BY <2>1
<1>13. CASE ReresolveRead(w) \/ ReresolveUnreadable(w)
  <2>1. Reresolve(w, TRUE) \/ Reresolve(w, FALSE)
    BY <1>13 DEF ReresolveRead, ReresolveUnreadable
  <2>2. mishaps' \in 0..MaxMishaps
    <3>1. mishaps \in 0..MaxMishaps
      BY <1>1 DEF SharedTypes
    <3>2. mishaps' = mishaps \/ (mishaps < MaxMishaps /\ mishaps' = mishaps + 1)
      BY <1>13 DEF ReresolveRead, ReresolveUnreadable
    <3> QED BY <1>1, <3>1, <3>2
  <2>3. SeqInv' /\ Alone(w) /\ At(w, "closed")
    <3>1. ASSUME NEW k \in BOOLEAN, Reresolve(w, k)
          PROVE  SeqInv' /\ Alone(w) /\ At(w, "closed")
      BY <1>1, <2>2, <3>1, ReresolveKeeps, ReresolveEffect
    <3> QED BY <2>1, <3>1
  <2> QED BY <2>3 DEF At
<1>14. CASE AfterIssue(w)
  <2>1. SeqInv' /\ Alone(w) /\ At(w, "check")
    BY <1>1, <1>14, AfterIssueKeeps, AfterIssueEffect
  <2> QED BY <2>1 DEF At
<1>15. CASE PersistHighWater(w)
  <2>1. SeqInv' /\ Alone(w) /\ At(w, "persist")
    BY <1>1, <1>15, PersistKeeps, PersistEffect
  <2> QED BY <2>1 DEF At
<1>16. CASE Publish(w)
  BY <1>1, <1>16, PublishKeeps, PublishEffect
<1> QED BY <1>2, <1>3, <1>4, <1>5, <1>6, <1>7, <1>8, <1>9, <1>10, <1>11, <1>12, <1>13, <1>14,
          <1>15, <1>16 DEF Advance

\* A step of the specification keeps the invariant, and draws ids that rise.
LEMMA SeqStep ==
    ASSUME SeqInv, SeqNext
    PROVE  SeqInv' /\ Rising
<1>1. ASSUME NEW w \in Workers,
             Allocate(w) \/ Advance(w) \/ CallFails(w) \/ ResolveUnreadable(w)
                \/ ReresolveUnreadable(w)
      PROVE  SeqInv' /\ Rising
  <2>1. /\ SeqInv' /\ Alone(w)
        /\ (At(w, "gate") /\ wk'[w].pc \in {"check", "persist"}) => wk'[w].id > top
    BY <1>1, WorkerStep
  <2> QED BY <2>1 DEF Rising, Alone, At
<1>2. CASE Pause \/ ClearMirror \/ WriteMirror
  <2>1. wk' = wk
    BY <1>2 DEF Pause, ClearMirror, WriteMirror
  <2> QED BY <1>2, <2>1, CutoverKeeps DEF Rising, At
<1>3. CASE Activate
  <2>1. wk' = wk
    BY <1>3 DEF Activate
  <2> QED BY <1>3, <2>1, ActivateKeeps DEF Rising, At
<1>4. ASSUME NEW p \in Running, BeliefAges(p)
      PROVE  SeqInv' /\ Rising
  <2>1. wk' = wk
    BY <1>4 DEF BeliefAges
  <2> QED BY <1>4, <2>1, BeliefAgesKeeps DEF Rising, At
<1>5. ASSUME NEW p \in Running, Restart(p) \/ Arm(p)
      PROVE  SeqInv' /\ Rising
  <2>1. SeqInv' /\ \A w \in Workers : wk'[w] = wk[w] \/ wk'[w].pc = "idle"
    BY <1>5, RestartKeeps
  <2> QED BY <2>1 DEF Rising, At
<1>6. CASE Drain \/ ForgeMirror \/ LoseMirror
  <2>1. wk' = wk
    BY <1>6 DEF Drain, ForgeMirror, LoseMirror
  <2> QED BY <1>6, <2>1, MirrorKeeps DEF Rising, At
<1>7. CASE LoseCounter \/ Rollback
  <2>1. wk' = wk
    BY <1>7 DEF LoseCounter, Rollback
  <2> QED BY <1>7, <2>1, CounterLossKeeps DEF Rising, At
<1>8. CASE AuthorityRegresses \/ RestoreAuthority
  <2>1. wk' = wk
    BY <1>8 DEF AuthorityRegresses, RestoreAuthority
  <2> QED BY <1>8, <2>1, RowKeeps DEF Rising, At
<1> QED BY <1>1, <1>2, <1>3, <1>4, <1>5, <1>6, <1>7, <1>8 DEF SeqNext

LEMMA SeqStutter ==
    ASSUME SeqInv, UNCHANGED seqVars
    PROVE  SeqInv' /\ Rising
<1>1. UNCHANGED <<durable, redis, op, memory, wk, bounds, others>>
  BY DEF seqVars
<1>2. SharedTypes /\ CutoverFits /\ GateFits
  BY TypesSplit DEF SeqInv, ModeInv
<1>3. SharedTypes'
  BY <1>1, <1>2 DEF SharedTypes, durable, redis, memory, bounds, others
<1>4. CutoverFits'
  BY <1>1, <1>2
     DEF CutoverFits, Evidence, Armed, Running, Begun, Quiet, At, durable, redis, memory, others
<1>5. SeqInv'
  BY <1>1, <1>2, <1>3, <1>4, SameRow DEF durable, redis, GateFits
<1> QED BY <1>1, <1>5 DEF Rising, At

\* The allocator's inductive invariant.
THEOREM SeqInvariant == SeqSpec => []SeqInv
<1>1. SeqInv /\ [SeqNext]_seqVars => SeqInv'
  BY SeqStep, SeqStutter
<1> QED BY <1>1, SeqInitial, PTL DEF SeqSpec

\* The counter exists only by the authority's word, whatever the mode keys say (mode.go).
THEOREM CounterIsSound == SeqSpec => []CounterSound
<1>1. SeqInv => CounterSound
  BY DEF SeqInv, ModeInv, SeqTypes, CutoverFits, Begun, CounterSound, MirrorCannotActivate
<1> QED BY <1>1, SeqInvariant, PTL

\* No replica draws from GenSeq after a counter id was issued (legacyDelegate).
THEOREM SourceIsOne == SeqSpec => OneSource
<1>1. SeqInv => \A w \in Workers : (At(w, "legacy") /\ wk'[w].pc = "publish") => ~ era
  BY SeqAt DEF At
<1> QED BY <1>1, SeqInvariant, PTL DEF OneSource

\* Every id that an INCR hands out is above every id published so far, whatever Redis lost
\* in between (gateSource, seedCounter, persistHighWater).
THEOREM IdsRise == SeqSpec => IdsIncrease
<1>1. SeqInv /\ [SeqNext]_seqVars => Rising
  BY SeqStep, SeqStutter
<1> QED BY <1>1, SeqInvariant, PTL DEF SeqSpec, IdsIncrease, Rising
=============================================================================
