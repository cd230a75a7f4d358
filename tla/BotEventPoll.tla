---------------------------- MODULE BotEventPoll ----------------------------
(***************************************************************************)
(* The delivery of bot events: producers add an event to the bot's queue   *)
(* and ring its doorbell (pkg/botevent notify.go, bell.go), and the bot's  *)
(* client long-polls POST /v1/bot/events with an exclusive cursor          *)
(* (modules/bot_api events.go, events_wait.go).  The queue is the          *)
(* authority; the bell is a hint that may be coalesced, dropped, stolen or *)
(* lost.  Time is counted in chunks of a hold (eventWaitChunk).            *)
(***************************************************************************)
EXTENDS Integers, FiniteSets, FiniteSetsExt

CONSTANTS
    Bots, Replicas,
    Requests,           \* request slots
    Worlds,             \* the deployments and queues considered, see World
    Producers,
    Target, Home,       \* the bot a producer writes to, the replica it runs in
    MaxId,              \* bound: events per bot
    Limit,              \* page size
    WaitChunks,         \* the hold a request asks for, in chunks
    MaxHolds,           \* OCTO_BOT_EVENTS_MAX_HOLDS
    HoldOffs,           \* budget of refused holds that may sleep
    RingDepth,          \* ringQueueDepth
    RingWorkers,        \* the goroutines of each replica's doorbell
    InOrder,            \* whether producers publish in the order of their ids
    MaxFaults           \* bound: failed reads of the queue and clients that hang up

\* What does not change in a behaviour: the bot that a slot polls for and the replica that
\* serves it; what each event is ("group" is filtered for an App Bot, "broken" does not
\* decode); whether rings, blocking reads and auto-acks may fail, at any time.
World ==
    [botOf : [Requests -> Bots], replicaOf : [Requests -> Replicas],
     kind : [1..MaxId -> {"dm", "group", "broken"}], faulty : BOOLEAN]

ASSUME PollAssumption ==
    /\ Worlds \subseteq World
    /\ Target \in [Producers -> Bots] /\ Home \in [Producers -> Replicas]
    /\ MaxId \in Nat
    /\ {Limit, WaitChunks, MaxHolds, RingDepth} \subseteq Nat \ {0}
    /\ IsFiniteSet(Bots) /\ IsFiniteSet(Requests)
    /\ {HoldOffs, MaxFaults} \subseteq Nat /\ InOrder \in BOOLEAN

Ids == 1..MaxId

VARIABLES
    world,      \* a member of Worlds, chosen once
    queue,      \* robotEvent:{bot}, a sorted set of ids
    bell,       \* whether robotEventBell:{bot} holds its token
    issued,     \* highest id allocated per bot
    prod,       \* what each producer is doing
    pending,    \* doorbell.pending of each replica
    ringQueue,  \* doorbell.queue of each replica
    worker,     \* what each ring worker of each replica is doing
    req,        \* each request
    perBot,     \* eventHoldPerBot of each replica
    holdSem,    \* taken slots of eventHoldSem
    offSem,     \* taken slots of eventHoldOffSem
    cursor,     \* the cursor each bot's client holds
    got,        \* the events each bot's client has received
    faults

bellVars == <<bell, pending, ringQueue, worker>>
holdVars == <<perBot, holdSem, offSem>>
client   == <<cursor, got>>
vars     == <<queue, bellVars, issued, prod, req, holdVars, client, faults>>

BotOf     == world.botOf
ReplicaOf == world.replicaOf
Kind      == world.kind
Faulty    == world.faulty

\* A worker has taken a bot from the queue, which is still marked, or its ring is in flight.
Free == [pc |-> "free"]
Duties == {Free} \cup [pc : {"taken", "ringing"}, bot : Bots]
NoProd == [pc |-> "idle", id |-> 0]
Publishing == {NoProd} \cup [pc : {"zadd", "notify", "enqueue"}, id : 1..MaxId]
NoReq  == [pc |-> "idle", cur |-> 0, left |-> 0, reread |-> FALSE, gone |-> FALSE]
Polling == [pc : {"idle", "entry", "mark", "slot", "top", "block", "read", "off"},
            cur : 0..MaxId, left : 0..WaitChunks, reread : BOOLEAN, gone : BOOLEAN]

TypeOK ==
    /\ world \in Worlds
    /\ queue \in [Bots -> SUBSET Ids] /\ bell \in [Bots -> BOOLEAN]
    /\ issued \in [Bots -> 0..MaxId]
    /\ prod \in [Producers -> Publishing]
    /\ pending \in [Replicas -> SUBSET Bots] /\ ringQueue \in [Replicas -> SUBSET Bots]
    /\ worker \in [Replicas -> [RingWorkers -> Duties]]
    /\ req \in [Requests -> Polling]
    /\ perBot \in [Replicas -> SUBSET Bots]
    /\ holdSem \in [Replicas -> 0..MaxHolds] /\ offSem \in [Replicas -> 0..HoldOffs]
    /\ cursor \in [Bots -> 0..MaxId] /\ got \in [Bots -> SUBSET Ids]
    /\ faults \in 0..MaxFaults

Init ==
    /\ world \in Worlds
    /\ queue = [b \in Bots |-> {}] /\ bell = [b \in Bots |-> FALSE]
    /\ issued = [b \in Bots |-> 0]
    /\ prod = [p \in Producers |-> NoProd]
    /\ pending = [r \in Replicas |-> {}] /\ ringQueue = [r \in Replicas |-> {}]
    /\ worker = [r \in Replicas |-> [w \in RingWorkers |-> Free]]
    /\ req = [q \in Requests |-> NoReq]
    /\ perBot = [r \in Replicas |-> {}]
    /\ holdSem = [r \in Replicas |-> 0] /\ offSem = [r \in Replicas |-> 0]
    /\ cursor = [b \in Bots |-> 0] /\ got = [b \in Bots |-> {}]
    /\ faults = 0

-----------------------------------------------------------------------------
(* Producers: allocate an id, ZADD, Notify. *)

NextEventID(p) ==
    LET b == Target[p] IN
    /\ prod[p].pc = "idle" /\ issued[b] < MaxId
    /\ issued' = [issued EXCEPT ![b] = @ + 1]
    /\ prod' = [prod EXCEPT ![p] = [pc |-> "zadd", id |-> issued[b] + 1]]
    /\ UNCHANGED <<queue, bellVars, req, holdVars, client, faults>>

ZAdd(p) ==
    LET b == Target[p] IN
    /\ prod[p].pc = "zadd"
    /\ InOrder => \A x \in Producers :
           (Target[x] = b /\ prod[x].pc = "zadd") => prod[p].id <= prod[x].id
    /\ queue' = [queue EXCEPT ![b] = @ \cup {prod[p].id}]
    /\ prod' = [prod EXCEPT ![p].pc = "notify"]
    /\ UNCHANGED <<bellVars, issued, req, holdVars, client, faults>>

\* The event is lost to the producer's log; its id stays unused.
ZAddFails(p) ==
    /\ Faulty /\ prod[p].pc = "zadd"
    /\ prod' = [prod EXCEPT ![p] = NoProd]
    /\ UNCHANGED <<queue, bellVars, issued, req, holdVars, client, faults>>

\* doorbell.notify: coalesced while a ring of the bot is pending, else marked and queued;
\* when the queue is full the hint is dropped with its mark.
Notify(p) ==
    LET b == Target[p]
        r == Home[p]
        fresh == b \notin pending[r]
    IN  /\ prod[p].pc = "notify"
        /\ prod' = [prod EXCEPT ![p] = IF fresh THEN [@ EXCEPT !.pc = "enqueue"] ELSE NoProd]
        /\ pending' = [pending EXCEPT ![r] = @ \cup {b}]
        /\ UNCHANGED <<queue, bell, ringQueue, worker, issued, req, holdVars, client, faults>>

Enqueue(p) ==
    LET b == Target[p]
        r == Home[p]
        room == Cardinality(ringQueue[r]) < RingDepth
    IN  /\ prod[p].pc = "enqueue"
        /\ prod' = [prod EXCEPT ![p] = NoProd]
        /\ ringQueue' = [ringQueue EXCEPT ![r] = IF room THEN @ \cup {b} ELSE @]
        /\ pending' = [pending EXCEPT ![r] = IF room THEN @ ELSE @ \ {b}]
        /\ UNCHANGED <<queue, bell, worker, issued, req, holdVars, client, faults>>

\* A free worker takes a bot from the queue.
TakeRing(r, w, b) ==
    /\ b \in ringQueue[r] /\ worker[r][w] = Free
    /\ ringQueue' = [ringQueue EXCEPT ![r] = @ \ {b}]
    /\ worker' = [worker EXCEPT ![r][w] = [pc |-> "taken", bot |-> b]]
    /\ UNCHANGED <<queue, bell, pending, issued, prod, req, holdVars, client, faults>>

\* Mutant: the mark stays when the worker takes the ring.
PendingTakenKept(r, b) == pending[r]

\* doorbell.work: the pending mark is cleared before the ring is sent.
PendingTaken(r, b) == pending[r] \ {b}

ClearMark(r, w) ==
    LET d == worker[r][w] IN
    /\ d.pc = "taken"
    /\ worker' = [worker EXCEPT ![r][w] = [pc |-> "ringing", bot |-> d.bot]]
    /\ pending' = [pending EXCEPT ![r] = PendingTaken(r, d.bot)]
    /\ UNCHANGED <<queue, bell, ringQueue, issued, prod, req, holdVars, client, faults>>

\* Ring: LPUSH and LTRIM leave one token.
Ring(r, w) ==
    LET d == worker[r][w] IN
    /\ d.pc = "ringing"
    /\ bell' = [bell EXCEPT ![d.bot] = TRUE]
    /\ worker' = [worker EXCEPT ![r][w] = Free]
    /\ UNCHANGED <<queue, pending, ringQueue, issued, prod, req, holdVars, client, faults>>

RingFails(r, w) ==
    /\ Faulty /\ worker[r][w].pc = "ringing"
    /\ worker' = [worker EXCEPT ![r][w] = Free]
    /\ UNCHANGED <<queue, bell, pending, ringQueue, issued, prod, req, holdVars, client, faults>>

-----------------------------------------------------------------------------
(* Requests. *)

\* Mutant: the page is read from the newest end.
MembersNewest(b, cur) ==
    LET above == {i \in queue[b] : i > cur}
    IN  {i \in above : Cardinality({j \in above : j > i}) < Limit}

\* readEventPage: the first Limit members above the cursor; the cursor advances over every
\* member that decodes, filtered or not; `full' counts members.
Members(b, cur) ==
    LET above == {i \in queue[b] : i > cur}
    IN  {i \in above : Cardinality({j \in above : j < i}) < Limit}

\* Mutant: the cursor stays behind a page whose every event was filtered.
PageCursorVisible(page, cur) == Max({cur} \cup {i \in page : Kind[i] = "dm"})

PageCursor(page, cur) == Max({cur} \cup {i \in page : Kind[i] # "broken"})
Visible(page) == {i \in page : Kind[i] = "dm"}

Reread(page, cur) == Cardinality(page) >= Limit /\ PageCursor(page, cur) > cur

\* filterAppBotEvents removes what it drops; each removal may fail.
AutoAck(b, page) ==
    \E failed \in SUBSET {i \in page : Kind[i] = "group"} :
        /\ Faulty \/ failed = {}
        /\ queue' = [queue EXCEPT ![b] = @ \ ({i \in page : Kind[i] = "group"} \ failed)]

\* The hold's deferred release.
Holding(q) == req[q].pc \in {"top", "block", "read"}
Release(q) ==
    LET r == ReplicaOf[q] IN
    IF Holding(q)
    THEN /\ holdSem' = [holdSem EXCEPT ![r] = @ - 1]
         /\ perBot' = [perBot EXCEPT ![r] = @ \ {BotOf[q]}]
         /\ UNCHANGED offSem
    ELSE IF req[q].pc = "off"
    THEN offSem' = [offSem EXCEPT ![r] = @ - 1] /\ UNCHANGED <<perBot, holdSem>>
    ELSE UNCHANGED holdVars

\* The response reaches a client that is still there, whose cursor moves to the last event.
Respond(q, events) ==
    LET b == BotOf[q] IN
    /\ req' = [req EXCEPT ![q] = NoReq]
    /\ Release(q)
    /\ IF req[q].gone THEN UNCHANGED client
       ELSE /\ cursor' = [cursor EXCEPT ![b] = Max({@} \cup events)]
            /\ got' = [got EXCEPT ![b] = @ \cup events]

\* A bot's client has one request under way.
Poll(q) ==
    /\ req[q].pc = "idle"
    /\ \A x \in Requests : BotOf[x] = BotOf[q] => req[x].pc = "idle" \/ req[x].gone
    /\ req' = [req EXCEPT ![q] = [NoReq EXCEPT !.pc = "entry", !.cur = cursor[BotOf[q]]]]
    /\ UNCHANGED <<queue, bellVars, issued, prod, holdVars, client, faults>>

\* getEvents: read before waiting.  Every request here asks for a hold (wait > 0).
Entry(q) ==
    LET b == BotOf[q]
        page == Members(b, req[q].cur)
    IN  /\ req[q].pc = "entry"
        /\ AutoAck(b, page)
        /\ \/ Visible(page) # {} /\ Respond(q, Visible(page))
           \/ /\ Visible(page) = {}
              /\ req' = [req EXCEPT ![q].pc = "mark", ![q].cur = PageCursor(page, req[q].cur),
                                    ![q].reread = Reread(page, req[q].cur)]
              /\ UNCHANGED <<holdVars, client>>
        /\ UNCHANGED <<bellVars, issued, prod, faults>>

\* holdOffRefusedWait: sleep if the budget has a place, else answer at once.
Refuse(q) ==
    LET r == ReplicaOf[q] IN
    IF offSem[r] < HoldOffs
    THEN /\ offSem' = [offSem EXCEPT ![r] = @ + 1]
         /\ req' = [req EXCEPT ![q].pc = "off"]
         /\ UNCHANGED <<holdSem, client>>
    ELSE req' = [req EXCEPT ![q] = NoReq] /\ UNCHANGED <<holdSem, offSem, client>>

\* acquireEventHold, first the bot's mark, then a slot of the semaphore.
MarkBot(q) ==
    LET r == ReplicaOf[q] IN
    /\ req[q].pc = "mark"
    /\ IF BotOf[q] \in perBot[r] THEN Refuse(q) /\ UNCHANGED perBot
       ELSE /\ perBot' = [perBot EXCEPT ![r] = @ \cup {BotOf[q]}]
            /\ req' = [req EXCEPT ![q].pc = "slot"]
            /\ UNCHANGED <<holdSem, offSem, client>>
    /\ UNCHANGED <<queue, bellVars, issued, prod, faults>>

\* A bot whose slot was refused is unmarked again.
MarkTakenBack(r, b) == perBot[r] \ {b}

TakeSlot(q) ==
    LET r == ReplicaOf[q] IN
    /\ req[q].pc = "slot"
    /\ IF holdSem[r] < MaxHolds
       THEN /\ holdSem' = [holdSem EXCEPT ![r] = @ + 1]
            /\ req' = [req EXCEPT ![q].pc = "top", ![q].left = WaitChunks]
            /\ UNCHANGED <<perBot, offSem, client>>
       ELSE /\ perBot' = [perBot EXCEPT ![r] = MarkTakenBack(r, BotOf[q])]
            /\ Refuse(q)
    /\ UNCHANGED <<queue, bellVars, issued, prod, faults>>

HoldOffOver(q) ==
    /\ req[q].pc = "off"
    /\ Respond(q, {})
    /\ UNCHANGED <<queue, bellVars, issued, prod, faults>>

HoldOver(q) == req[q].gone \/ req[q].left = 0

\* The top of the loop: a client that went away or a deadline reached ends the hold; a
\* block is skipped only after a full page that advanced.
LoopTop(q) ==
    /\ req[q].pc = "top"
    /\ IF HoldOver(q) THEN Respond(q, {})
       ELSE /\ req' = [req EXCEPT ![q].pc = IF req[q].reread THEN "read" ELSE "block",
                                  ![q].reread = FALSE]
            /\ UNCHANGED <<holdVars, client>>
    /\ UNCHANGED <<queue, bellVars, issued, prod, faults>>

\* BLPOP takes the token at once; it times out only on an empty list.
Wake(q) ==
    /\ req[q].pc = "block" /\ bell[BotOf[q]]
    /\ bell' = [bell EXCEPT ![BotOf[q]] = FALSE]
    /\ req' = [req EXCEPT ![q].pc = "read"]
    /\ UNCHANGED <<queue, pending, ringQueue, worker, issued, prod, holdVars, client, faults>>

ChunkOver(q) ==
    /\ req[q].pc = "block" /\ ~ bell[BotOf[q]]
    /\ req' = [req EXCEPT ![q].pc = "read", ![q].left = @ - 1]
    /\ UNCHANGED <<queue, bellVars, issued, prod, holdVars, client, faults>>

\* A failed BLPOP pays out the rest of the chunk, or ends with the request.
BlockFails(q) ==
    /\ Faulty /\ req[q].pc = "block"
    /\ IF req[q].gone THEN Respond(q, {})
       ELSE /\ req' = [req EXCEPT ![q].pc = "read", ![q].left = @ - 1]
            /\ UNCHANGED <<holdVars, client>>
    /\ UNCHANGED <<queue, bellVars, issued, prod, faults>>

\* The authoritative read after a wake, a chunk or a full page.
ReadAgain(q) ==
    LET b == BotOf[q]
        page == Members(b, req[q].cur)
    IN  /\ req[q].pc = "read"
        /\ \/ req[q].gone /\ Respond(q, {}) /\ UNCHANGED queue
           \/ /\ ~ req[q].gone /\ AutoAck(b, page)
              /\ \/ Visible(page) # {} /\ Respond(q, Visible(page))
                 \/ /\ Visible(page) = {}
                    /\ req' = [req EXCEPT ![q].pc = "top",
                                          ![q].cur = PageCursor(page, req[q].cur),
                                          ![q].reread = Reread(page, req[q].cur)]
                    /\ UNCHANGED <<holdVars, client>>
        /\ UNCHANGED <<bellVars, issued, prod, faults>>

\* A read of the queue fails: the caller gets the error.
ReadFails(q) ==
    /\ req[q].pc \in {"entry", "read"}
    /\ Respond(q, {})
    /\ UNCHANGED <<queue, bellVars, issued, prod>>
    /\ faults < MaxFaults /\ faults' = faults + 1

\* The client goes away and may poll again, while the handler still runs.
HangUp(q) ==
    /\ req[q].pc # "idle" /\ ~ req[q].gone
    /\ req' = [req EXCEPT ![q].gone = TRUE]
    /\ UNCHANGED <<queue, bellVars, issued, prod, holdVars, client>>
    /\ faults < MaxFaults /\ faults' = faults + 1

\* eventAck, for an event that the client has received.
EventAck(b, i) ==
    /\ i \in got[b] \cap queue[b]
    /\ queue' = [queue EXCEPT ![b] = @ \ {i}]
    /\ UNCHANGED <<bellVars, issued, prod, req, holdVars, client, faults>>

\* BellTTL, ten times the longest hold, has passed.
BellExpires(b) ==
    /\ bell[b] /\ \A q \in Requests : BotOf[q] = b => req[q].pc = "idle"
    /\ bell' = [bell EXCEPT ![b] = FALSE]
    /\ UNCHANGED <<queue, pending, ringQueue, worker, issued, prod, req, holdVars, client, faults>>

-----------------------------------------------------------------------------
Produce(p) == ZAdd(p) \/ Notify(p) \/ Enqueue(p)
Handle(q) ==
    \/ Entry(q) \/ MarkBot(q) \/ TakeSlot(q) \/ HoldOffOver(q)
    \/ LoopTop(q) \/ Wake(q) \/ ChunkOver(q) \/ ReadAgain(q)

Step ==
    \/ \E p \in Producers : NextEventID(p) \/ Produce(p) \/ ZAddFails(p)
    \/ \E r \in Replicas, w \in RingWorkers :
           (\E b \in Bots : TakeRing(r, w, b)) \/ ClearMark(r, w) \/ Ring(r, w) \/ RingFails(r, w)
    \/ \E q \in Requests : Poll(q) \/ Handle(q) \/ BlockFails(q) \/ ReadFails(q) \/ HangUp(q)
    \/ \E b \in Bots, i \in Ids : EventAck(b, i)
    \/ \E b \in Bots : BellExpires(b)

Next == Step /\ UNCHANGED world

Spec == Init /\ [][Next]_<<vars, world>>

\* Handlers and producers run on, a chunk ends, and a client that has no request sends one.
FairSpec ==
    /\ Spec
    /\ \A p \in Producers : WF_vars(Produce(p))
    /\ \A q \in Requests : WF_vars(Handle(q))
    /\ \A b \in Bots : WF_vars(\E q \in Requests : BotOf[q] = b /\ Poll(q))

-----------------------------------------------------------------------------
(* Properties. *)

\* A replica's doorbell has room for every bot that its producers write to.
HintsFit == \A r \in Replicas :
    Cardinality({Target[p] : p \in {x \in Producers : Home[x] = r}}) <= RingDepth

\* While a request is parked on the bell, an event that it has not seen is announced or
\* about to be: the token lies there, a ring is queued or in flight, or the producer has
\* still to notify.  So a hold wakes for every event unless a hint is lost (doorbell.work,
\* waitForEvents' reread), the bot's token is taken by another of its requests, or an event
\* that does not decode stops the cursor.
Undisturbed(q) ==
    /\ HintsFit /\ ~ Faulty /\ \A i \in Ids : Kind[i] # "broken"
    /\ \A x \in Requests \ {q} : BotOf[x] # BotOf[q]

Announced(b) ==
    \/ bell[b]
    \/ \E r \in Replicas : \/ b \in ringQueue[r]
                          \/ \E w \in RingWorkers : worker[r][w] # Free /\ worker[r][w].bot = b
    \/ \E p \in Producers : Target[p] = b /\ prod[p].pc \in {"notify", "enqueue"}

Unseen(q) == \E i \in queue[BotOf[q]] : i > req[q].cur /\ Kind[i] = "dm"

BellCovers == \A q \in Requests :
    Undisturbed(q) /\ req[q].pc = "block" /\ Unseen(q) => Announced(BotOf[q])

\* The two hold budgets are what the requests in progress account for: a slot or a bot's
\* mark never outlives its request, which would refuse the bot's holds for ever.
HoldsAccounted ==
    \A r \in Replicas :
        LET here == {q \in Requests : ReplicaOf[q] = r} IN
        /\ holdSem[r] = Cardinality({q \in here : Holding(q)})
        /\ offSem[r] = Cardinality({q \in here : req[q].pc = "off"})
        /\ perBot[r] = {BotOf[q] : q \in {x \in here : Holding(x) \/ req[x].pc = "slot"}}

\* The client's cursor never passes an event that it may see and has not been given.
NothingSkipped ==
    \A b \in Bots : \A i \in queue[b] :
        (Kind[i] = "dm" /\ i <= cursor[b]) => i \in got[b]

\* A request ends, whatever happens to bells and reads: every turn of the hold's loop pays
\* a chunk, takes a token or moves the cursor.
PollsEnd == \A q \in Requests : []<>(req[q].pc = "idle")

\* Every event that the bot may see reaches its client, even if no bell is ever heard, as
\* long as every event decodes (a page full of events that do not stops the cursor).
Delivered ==
    \A b \in Bots : \A i \in Ids :
        []<>(i \in queue[b] /\ Kind[i] = "dm" /\ (\A j \in Ids : Kind[j] # "broken")
                => i \in got[b])

\* A parked request is either about to be woken or has nothing to be woken for, and what it
\* holds is on the books.
HoldsSound == TypeOK /\ BellCovers /\ HoldsAccounted

\* Polling serves: every request ends and every event arrives.
PollsServed == PollsEnd /\ Delivered
=============================================================================
