---------------------------- MODULE SessionStore ----------------------------
(***************************************************************************)
(* The sessions of one user (pkg/auth session_v3.go, session_store.go) and *)
(* their revocation (modules/user session_revocation.go), in the rollout   *)
(* modes that write v3 sessions and revoke.  A login is a sequence of      *)
(* separate Redis and MySQL calls; a password change commits a revocation  *)
(* intent, which the request or a worker then applies to Redis.            *)
(***************************************************************************)
EXTENDS Integers, FiniteSets

CONSTANTS
    Logins,         \* login requests; a login that issues a token issues its own
    Logouts,        \* logout requests
    Legacy,         \* the token of a session from before v3, on the web device
    Requests,       \* requests that change the password
    Workers,        \* background revocation workers
    MaxTries,       \* attempts of a compare-and-set loop
    MaxGens,        \* bound: generations made
    Worlds          \* the situations considered, see SessionAssumption

\* What does not change in a behaviour: who takes part, the device flag of each login,
\* max_per_uid, and two bounds: failed calls, crashes, lapsed leases and lost keys in all,
\* and snapshot updates.
ASSUME SessionAssumption ==
    /\ \A w \in Worlds :
           /\ DOMAIN w = {"active", "flagOf", "cap", "maxFaults", "maxSnapshots"}
           /\ w.active \subseteq Logins \cup Logouts \cup Requests \cup Workers
           /\ w.flagOf \in [Logins -> {"app", "web"}] /\ w.cap \in Nat \ {0}
           /\ w.maxFaults \in Nat /\ w.maxSnapshots \in Nat
    /\ Legacy \notin Logins /\ Requests \cap Workers = {} /\ Logins \cap Logouts = {}
    /\ "none" \notin Logins \cup {Legacy}
    /\ IsFiniteSet(Logins) /\ IsFiniteSet(Requests)
    /\ MaxTries \in Nat \ {0} /\ MaxGens \in Nat

None     == "none"
Flags    == {"app", "web"}
Tokens   == Logins \cup {Legacy}
Procs    == Logins \cup Logouts
Execs    == Requests \cup Workers
Versions == 1..Cardinality(Requests)

VARIABLES
    world,      \* a member of Worlds, chosen once
    pwd,        \* how often the password has been changed
    intent,     \* user_session_revocation_intent, by event version
    generation, \* the user's generation record
    gens,       \* generations made so far
    index,      \* the bounded index of each generation
    device,     \* uidtoken key of each device flag
    tokens,     \* token key of each token
    deny,       \* whether the legacy deny marker exists
    pr,         \* each login and logout
    ex,         \* each executor of revocations
    delivered,  \* tokens that a login has returned
    dead,       \* history: tokens that have been deleted
    unlisted,   \* history: index entries that a promotion's cleanup has removed, see Unreserve
    faults, snapshots

FlagOf       == world.flagOf
Cap          == world.cap
MaxFaults    == world.maxFaults
MaxSnapshots == world.maxSnapshots

redis == <<generation, gens, index, device, tokens, deny>>
vars  == <<pwd, intent, redis, pr, ex, delivered, dead, unlisted, faults, snapshots>>

Gens      == 0..MaxGens
NoPayload == [ver |-> None, gen |-> 0, by |-> None, snap |-> 0, cred |-> 0]
NoIntent  == [status |-> None, owner |-> None, live |-> FALSE]
NoGen     == [id |-> 0, last |-> 0, revoked |-> 0]
NoProc    == [pc |-> "idle", kind |-> "issue", fence |-> 0, cred |-> 0, tok |-> None,
              seen |-> NoPayload, tries |-> 0]
NoExec    == [pc |-> "idle", v |-> 0, prev |-> 0]

Payload == [ver: {None, "legacy", "v3"}, gen: Gens, by: Logins \cup {None}, snap: Nat,
            cred: 0..Cardinality(Requests)]

Proc ==
    [pc: {"idle", "fence", "auth", "old", "fence2", "read", "load", "forget", "delete", "unbind",
          "unlist", "write", "list", "unreserve", "zrem", "bind", "extend", "check", "im", "done"},
     kind: {"issue", "replace", "reuse", "promote", "quit", "takeback", "logout"},
     fence: Gens, cred: 0..Cardinality(Requests), tok: Tokens \cup {None}, seen: Payload,
     tries: 0..(MaxTries - 1)]

TypeOK ==
    /\ world \in Worlds
    /\ pwd \in 0..Cardinality(Requests)
    /\ intent \in [Versions -> [status: {None, "pending", "applied"}, owner: Execs \cup {None},
                               live: BOOLEAN]]
    /\ \A v \in Versions : intent[v].status = None <=> v > pwd
    /\ gens \in Gens
    /\ generation \in [id: 0..gens, last: 0..pwd, revoked: 0..gens]
    /\ index \in [Gens -> SUBSET Tokens]
    /\ device \in [Flags -> Tokens \cup {None}]
    /\ tokens \in [Tokens -> Payload] /\ \A t \in Tokens : tokens[t].gen <= gens
    /\ deny \in BOOLEAN /\ delivered \subseteq Tokens /\ dead \subseteq Tokens
    /\ unlisted \subseteq Gens \X Tokens
    /\ pr \in [Procs -> Proc]
    /\ \A p \in Procs : pr[p].fence <= gens /\ pr[p].seen.gen <= gens
    /\ ex \in [Execs -> [pc: {"idle", "claim", "wait", "rotate", "deny", "drop", "mark", "release",
                              "done"}, v: 0..pwd, prev: 0..gens]]
    /\ faults \in 0..MaxFaults /\ snapshots \in 0..MaxSnapshots

Init ==
    /\ world \in Worlds
    /\ pwd = 0 /\ intent = [v \in Versions |-> NoIntent]
    /\ generation = NoGen /\ gens = 0
    /\ index = [g \in Gens |-> {}]
    /\ device = [f \in Flags |-> IF f = "web" THEN Legacy ELSE None]
    /\ tokens = [t \in Tokens |-> IF t = Legacy THEN [NoPayload EXCEPT !.ver = "legacy"]
                                  ELSE NoPayload]
    /\ deny = FALSE
    /\ pr = [p \in Procs |-> NoProc] /\ ex = [x \in Execs |-> NoExec]
    /\ delivered = {Legacy} /\ dead = {} /\ unlisted = {}
    /\ faults = 0 /\ snapshots = 0

\* Validate: a v3 token needs the current generation, a legacy one no deny marker.
Valid(t) ==
    \/ tokens[t].ver = "v3" /\ generation.id # 0 /\ tokens[t].gen = generation.id
    \/ tokens[t].ver = "legacy" /\ ~ deny

At(p, where) == pr[p].pc = where
Set(p, rec)  == pr' = [pr EXCEPT ![p] = rec]
Goto(p, where) == Set(p, [pr[p] EXCEPT !.pc = where])
Done == [NoProc EXCEPT !.pc = "done"]
Fault == faults < MaxFaults /\ faults' = faults + 1
Fenced(p) == generation.id # 0 /\ generation.id = pr[p].fence

\* What a login or logout leaves alone.
OthersNow == UNCHANGED <<pwd, intent, deny, ex, snapshots>>
Others    == OthersNow /\ UNCHANGED unlisted

-----------------------------------------------------------------------------
(* Login: fence, credentials, the device's old token. *)

\* Mutant: the credentials are checked before the fence is taken.
AfterAuthFirst(step) == CASE step = "start" -> "auth" [] step = "auth" -> "fence"
                          [] step = "fence" -> "old"

\* BeginIssue precedes the authoritative read of the credentials (login).
After(step) == CASE step = "start" -> "fence" [] step = "fence" -> "auth"
                 [] step = "auth" -> "old"

StartLogin(p) ==
    /\ p \in Logins \cap world.active /\ At(p, "idle")
    /\ Goto(p, After("start"))
    /\ UNCHANGED <<redis, delivered, dead, faults>> /\ Others

\* BeginIssue: ensureGenerationScript.
BeginIssue(p) ==
    /\ At(p, "fence")
    /\ IF generation.id # 0 THEN UNCHANGED <<generation, gens>>
       ELSE gens < MaxGens /\ gens' = gens + 1 /\ generation' = [NoGen EXCEPT !.id = gens + 1]
    /\ Set(p, [pr[p] EXCEPT !.pc = After("fence"), !.fence = generation'.id])
    /\ UNCHANGED <<index, device, tokens, delivered, dead, faults>> /\ Others

\* The password given is the one that is valid now.
Authenticate(p) ==
    /\ At(p, "auth")
    /\ Set(p, [pr[p] EXCEPT !.pc = After("auth"), !.cred = pwd])
    /\ UNCHANGED <<redis, delivered, dead, faults>> /\ Others

\* execLogin: an app login revokes the device's old token, a web login reuses it.
DeviceToken(p) ==
    LET old == device[FlagOf[p]] IN
    /\ At(p, "old")
    /\ Set(p, IF old = None THEN [pr[p] EXCEPT !.pc = "fence2", !.tok = p]
              ELSE IF FlagOf[p] = "app"
              THEN [pr[p] EXCEPT !.pc = "load", !.kind = "replace", !.tok = old]
              ELSE [pr[p] EXCEPT !.pc = "fence2", !.kind = "reuse", !.tok = old])
    /\ UNCHANGED <<redis, delivered, dead, faults>> /\ Others

-----------------------------------------------------------------------------
(* Deleting a token: compare-delete of what was read, then the two indexes. *)

\* InvalidateCurrentToken reads the token first.
StartLogout(p, t) ==
    /\ p \in Logouts \cap world.active /\ At(p, "idle") /\ t \in delivered
    /\ Set(p, IF tokens[t].ver = None THEN Done
              ELSE [NoProc EXCEPT !.pc = IF tokens[t].ver = "v3" THEN "load" ELSE "forget",
                                  !.kind = "logout", !.tok = t])
    /\ UNCHANGED <<redis, delivered, dead, faults>> /\ Others

\* After a deletion: an app login goes on to issue, everybody else has ended.
AfterDelete(p) ==
    IF pr[p].kind = "replace" THEN [pr[p] EXCEPT !.pc = "fence2", !.kind = "issue", !.tok = p]
    ELSE Done

\* RevokeCurrent and RevokeIssued read the payload; the latter goes on only if it still
\* carries the issuer's mark.
LoadToken(p) ==
    LET cur == tokens[pr[p].tok] IN
    /\ At(p, "load")
    /\ Set(p, IF cur.ver = None THEN [pr[p] EXCEPT !.pc = "unbind", !.seen = NoPayload]
              ELSE IF pr[p].kind = "takeback" /\ cur.by = None THEN Done
              ELSE [pr[p] EXCEPT !.pc = "delete", !.seen = cur])
    /\ UNCHANGED <<redis, delivered, dead, faults>> /\ Others

\* Mutant: the token is deleted whatever it holds by now.
SameAnything(p) == tokens[pr[p].tok].ver # None

\* compareDeleteScript: nothing is deleted if the payload has been rewritten.
Same(p) == tokens[pr[p].tok] = pr[p].seen

\* RevokeCurrent tries again after a rewrite; compensations give up.  A logout of a token
\* from before v3 deletes the key whatever it holds.
DeleteToken(p) ==
    LET t == pr[p].tok
        again == pr[p].kind \in {"logout", "replace"} /\ pr[p].tries + 1 < MaxTries
    IN  /\ pr[p].pc \in {"delete", "forget"}
        /\ IF At(p, "forget") \/ Same(p)
           THEN /\ tokens' = [tokens EXCEPT ![t] = NoPayload]
                /\ dead' = dead \cup {t}
                /\ Goto(p, "unbind")
           ELSE /\ UNCHANGED <<tokens, dead>>
                /\ Set(p, IF again THEN [pr[p] EXCEPT !.pc = "load", !.tries = @ + 1] ELSE Done)
        /\ UNCHANGED <<generation, gens, index, device, delivered, faults>> /\ Others

FlagOfToken(t) == IF t = Legacy THEN "web" ELSE FlagOf[t]

\* compareDeleteDeviceIndex.
Unbind(p) ==
    LET f == FlagOfToken(pr[p].tok) IN
    /\ At(p, "unbind")
    /\ device' = [device EXCEPT ![f] = IF @ = pr[p].tok THEN None ELSE @]
    /\ Set(p, IF pr[p].seen.ver = "v3" THEN [pr[p] EXCEPT !.pc = "unlist"] ELSE AfterDelete(p))
    /\ UNCHANGED <<generation, gens, index, tokens, delivered, dead, faults>> /\ Others

Unlist(p) ==
    /\ At(p, "unlist")
    /\ index' = [index EXCEPT ![pr[p].seen.gen] = @ \ {pr[p].tok}]
    /\ Set(p, AfterDelete(p))
    /\ UNCHANGED <<generation, gens, device, tokens, delivered, dead, faults>> /\ Others

-----------------------------------------------------------------------------
(* IssueNewSession, and ReuseSession of a v3 or a legacy token. *)

\* The payload written by an issue or a promotion, with the issuer's mark.
Owned(p) == [NoPayload EXCEPT !.ver = "v3", !.gen = pr[p].fence, !.by = p, !.cred = pr[p].cred]

\* cleanupIssuedV3: only a payload that is still the one written here is deleted.
Cleanup(p) == [pr[p] EXCEPT !.pc = "delete", !.seen = Owned(p)]

\* What an error does from each step: a credential written here is taken back.
Failed(p) ==
    CASE pr[p].kind = "issue" /\ pr[p].pc \in {"list", "bind", "extend", "check"} -> Cleanup(p)
      [] pr[p].kind = "promote" /\ pr[p].pc \in {"bind", "extend", "check"} -> Cleanup(p)
      [] pr[p].kind = "promote" /\ At(p, "write") ->
             [pr[p] EXCEPT !.pc = "unreserve", !.kind = "quit"]
      [] pr[p].kind = "issue" /\ At(p, "im") -> [pr[p] EXCEPT !.pc = "load", !.kind = "takeback"]
      [] pr[p].kind = "takeback" /\ At(p, "unbind") /\ pr[p].seen.ver = "v3" ->
             [pr[p] EXCEPT !.pc = "unlist"]
      [] OTHER -> Done

\* requireFence at the start.
CheckFence(p) ==
    /\ At(p, "fence2")
    /\ Set(p, IF ~ Fenced(p) THEN Done
              ELSE [pr[p] EXCEPT !.pc = IF pr[p].kind = "reuse" THEN "read" ELSE "write"])
    /\ UNCHANGED <<redis, delivered, dead, faults>> /\ Others

\* The loop of ReuseSession goes on, or gives up after a last look at the reservation.
Retry(p) ==
    IF pr[p].tries + 1 < MaxTries
    THEN [pr[p] EXCEPT !.pc = "read", !.kind = "reuse", !.tries = @ + 1]
    ELSE [pr[p] EXCEPT !.pc = "unreserve", !.kind = "quit"]
IssueInstead(p) == [pr[p] EXCEPT !.pc = "fence2", !.kind = "issue", !.tok = p]

\* ReuseSession: a missing token, or one of another generation, is replaced by a new one.
ReadToken(p) ==
    LET t == pr[p].tok
        cur == tokens[t]
    IN  /\ At(p, "read")
        /\ Set(p, CASE cur.ver = None \/ (cur.ver = "v3" /\ cur.gen # pr[p].fence) ->
                         IssueInstead(p)
                    [] cur.ver = "v3" /\ cur.gen = pr[p].fence ->
                         [pr[p] EXCEPT !.pc = "write", !.seen = cur]
                    [] cur.ver = "legacy" ->
                         [pr[p] EXCEPT !.pc = "list", !.kind = "promote", !.seen = cur])
        /\ UNCHANGED <<redis, delivered, dead, faults>> /\ Others

\* casReplacePayloadKeepDeadlineScript.
Replaces(p) == tokens[pr[p].tok] = pr[p].seen

\* What a write stores: a reuse keeps the security claims and drops the issuer's mark.
Written(p) == IF pr[p].kind = "reuse" THEN [pr[p].seen EXCEPT !.by = None] ELSE Owned(p)

\* SETNX of a new token, or the compare-and-set of a reuse or a promotion.
WriteToken(p) ==
    LET t == pr[p].tok IN
    /\ At(p, "write")
    /\ IF pr[p].kind = "issue" \/ Replaces(p)
       THEN /\ tokens' = [tokens EXCEPT ![t] = Written(p)]
            /\ Goto(p, IF pr[p].kind = "promote" THEN "bind" ELSE "list")
       ELSE /\ UNCHANGED tokens
            /\ Set(p, CASE pr[p].kind = "promote" ->
                             [pr[p] EXCEPT !.pc = "unreserve",
                                  !.kind = IF tokens[t].ver = None THEN "issue" ELSE "reuse"]
                        [] pr[p].kind = "reuse" /\ tokens[t].ver # None -> Retry(p)
                        [] pr[p].kind = "reuse" /\ tokens[t].ver = None -> IssueInstead(p))
    /\ UNCHANGED <<generation, gens, index, device, delivered, dead, faults>> /\ Others

\* addSessionIndexScript.
HasRoom(p) == pr[p].tok \in index[pr[p].fence] \/ Cardinality(index[pr[p].fence]) < Cap

ListSession(p) ==
    /\ At(p, "list")
    /\ IF HasRoom(p)
       THEN /\ index' = [index EXCEPT ![pr[p].fence] = @ \cup {pr[p].tok}]
            /\ unlisted' = unlisted \ {<<pr[p].fence, pr[p].tok>>}
            /\ Goto(p, IF pr[p].kind = "promote" THEN "write" ELSE "bind")
       ELSE UNCHANGED <<index, unlisted>> /\ Set(p, Failed(p))
    /\ UNCHANGED <<generation, gens, device, tokens, delivered, dead, faults>> /\ OthersNow

\* cleanupIndexReservation: the token is read again, and the member removed unless a v3
\* payload has come to own it.  A promotion that wins in between loses its entry.
AfterReservation(p) ==
    CASE pr[p].kind = "reuse" -> Retry(p)
      [] pr[p].kind = "issue" -> IssueInstead(p)
      [] pr[p].kind = "quit"  -> Done
Unreserve(p) ==
    /\ At(p, "unreserve")
    /\ IF tokens[pr[p].tok].ver = "v3" THEN Set(p, AfterReservation(p)) ELSE Goto(p, "zrem")
    /\ UNCHANGED <<redis, delivered, dead, faults>> /\ Others

RemoveReservation(p) ==
    /\ At(p, "zrem")
    /\ index' = [index EXCEPT ![pr[p].fence] = @ \ {pr[p].tok}]
    /\ unlisted' = unlisted \cup {<<pr[p].fence, pr[p].tok>>}
    /\ Set(p, AfterReservation(p))
    /\ UNCHANGED <<generation, gens, device, tokens, delivered, dead, faults>> /\ OthersNow

BindDevice(p) ==
    /\ At(p, "bind")
    /\ device' = [device EXCEPT ![FlagOf[p]] = pr[p].tok]
    /\ Goto(p, "extend")
    /\ UNCHANGED <<generation, gens, index, tokens, delivered, dead, faults>> /\ Others

\* extendFenceDeadline and requireFence, both of which compare the generation.
CheckAgain(p) ==
    /\ pr[p].pc \in {"extend", "check"}
    /\ IF Fenced(p) THEN Goto(p, IF At(p, "extend") THEN "check" ELSE "im")
       ELSE Set(p, Failed(p))
    /\ UNCHANGED <<redis, delivered, dead, faults>> /\ Others

\* UpdateIMToken succeeds and the token is returned.
Deliver(p) ==
    /\ At(p, "im")
    /\ delivered' = delivered \cup {pr[p].tok}
    /\ Set(p, Done)
    /\ UNCHANGED <<redis, dead, faults>> /\ Others

\* A Redis, MySQL or IM call of a login or logout fails without effect.
CallFails(p) ==
    /\ pr[p].pc \notin {"idle", "done"} /\ Fault
    /\ Set(p, Failed(p))
    /\ UNCHANGED <<redis, delivered, dead>> /\ Others

\* The answer to a write is lost: the write took place and is treated as failed.
AnswerLost(p) ==
    /\ At(p, "write") /\ Fault
    /\ pr[p].kind = "issue" \/ Replaces(p)
    /\ tokens' = [tokens EXCEPT ![pr[p].tok] = Written(p)]
    /\ Set(p, Failed(p))
    /\ UNCHANGED <<generation, gens, index, device, delivered, dead>> /\ Others

\* The process dies.
Crash(p) ==
    /\ pr[p].pc \notin {"idle", "done"} /\ Fault
    /\ Set(p, Done)
    /\ UNCHANGED <<redis, delivered, dead>> /\ Others

\* UpdateSessionSnapshot: name, role and language change, the issuer's mark goes.
UpdateSessionSnapshot(t) ==
    /\ tokens[t].ver # None /\ snapshots < MaxSnapshots
    /\ tokens' = [tokens EXCEPT ![t].by = None, ![t].snap = snapshots + 1]
    /\ snapshots' = snapshots + 1
    /\ UNCHANGED <<pwd, intent, generation, gens, index, device, deny, pr, ex, delivered, dead,
                   unlisted, faults>>

-----------------------------------------------------------------------------
(* Revocation. *)

Exec(x, rec) == ex' = [ex EXCEPT ![x] = rec]
ExecGoto(x, where) == Exec(x, [ex[x] EXCEPT !.pc = where])
Calm == UNCHANGED <<device, tokens, pr, delivered, dead, unlisted, snapshots>>

\* mutateWithSessionRevocation: the mutation, the version and the intent in one transaction.
ChangePassword(x) ==
    /\ x \in Requests \cap world.active /\ ex[x].pc = "idle"
    /\ pwd' = pwd + 1
    /\ intent' = [intent EXCEPT ![pwd + 1] = [NoIntent EXCEPT !.status = "pending"]]
    /\ Exec(x, [NoExec EXCEPT !.pc = "claim", !.v = pwd + 1])
    /\ UNCHANGED <<generation, gens, index, deny, faults>> /\ Calm

\* Mutant: only an intent that nobody has claimed is claimed.
ClaimableFresh(v) == intent[v].status = "pending" /\ intent[v].owner = None

\* Pending, with no lease that is still running.
Claimable(v) == intent[v].status = "pending" /\ ~ intent[v].live
Claimed(v, x) == intent' = [intent EXCEPT ![v] = [@ EXCEPT !.owner = x, !.live = TRUE]]

\* claimSessionRevocationByID.
ClaimByID(x) ==
    LET v == ex[x].v IN
    /\ ex[x].pc = "claim"
    /\ IF Claimable(v) THEN Claimed(v, x) /\ ExecGoto(x, "rotate")
       ELSE UNCHANGED intent
            /\ ExecGoto(x, IF intent[v].status = "applied" THEN "done" ELSE "wait")
    /\ UNCHANGED <<pwd, generation, gens, index, deny, faults>> /\ Calm

\* waitForSessionRevocationApplied, or its timeout.
WaitApplied(x) ==
    /\ ex[x].pc = "wait"
    /\ ExecGoto(x, "done")
    /\ UNCHANGED <<pwd, intent, generation, gens, index, deny, faults>> /\ Calm

\* claimSessionRevocation: the oldest claimable intent.
ClaimNext(x) ==
    /\ x \in Workers \cap world.active /\ ex[x].pc = "idle"
    /\ \E v \in Versions :
        /\ Claimable(v) /\ \A u \in Versions : Claimable(u) => v <= u
        /\ Claimed(v, x)
        /\ Exec(x, [NoExec EXCEPT !.pc = "rotate", !.v = v])
    /\ UNCHANGED <<pwd, generation, gens, index, deny, faults>> /\ Calm

\* This event, or a newer one, has rotated the generation already.
Rotated(v) == generation.last >= v

\* rotateGenerationScript: an event is applied once; an event older than the last one is
\* reported as applied.
RotateEffect(x) ==
    IF Rotated(ex[x].v) THEN UNCHANGED <<generation, gens>>
    ELSE /\ gens < MaxGens
         /\ gens' = gens + 1
         /\ generation' = [id |-> gens + 1, last |-> ex[x].v, revoked |-> generation.id]

RotateGeneration(x) ==
    /\ ex[x].pc = "rotate"
    /\ RotateEffect(x)
    /\ Exec(x, [ex[x] EXCEPT !.pc = IF generation.last > ex[x].v THEN "mark" ELSE "deny",
                             !.prev = generation'.revoked])
    /\ UNCHANGED <<pwd, intent, index, deny, faults>> /\ Calm

WriteDeny(x) ==
    /\ ex[x].pc = "deny"
    /\ deny' = TRUE
    /\ ExecGoto(x, "drop")
    /\ UNCHANGED <<pwd, intent, generation, gens, index, faults>> /\ Calm

DropIndex(x) ==
    /\ ex[x].pc = "drop"
    /\ index' = IF ex[x].prev = 0 THEN index ELSE [index EXCEPT ![ex[x].prev] = {}]
    /\ ExecGoto(x, "mark")
    /\ UNCHANGED <<pwd, intent, generation, gens, deny, faults>> /\ Calm

Ended(x) == IF x \in Workers THEN NoExec ELSE [ex[x] EXCEPT !.pc = "done"]

Owns(x) == intent[ex[x].v].owner = x

\* markSessionRevocationApplied.
MarkApplied(x) ==
    LET v == ex[x].v IN
    /\ ex[x].pc = "mark"
    /\ intent' = IF intent[v].status = "pending" /\ Owns(x)
                 THEN [intent EXCEPT ![v] = [NoIntent EXCEPT !.status = "applied"]] ELSE intent
    /\ Exec(x, Ended(x))
    /\ UNCHANGED <<pwd, generation, gens, index, deny, faults>> /\ Calm

\* A call to Redis fails, with or without having had its effect.
ApplyFails(x) ==
    /\ ex[x].pc \in {"rotate", "deny", "drop"} /\ Fault
    /\ IF ex[x].pc = "rotate" THEN RotateEffect(x) \/ UNCHANGED <<generation, gens>>
       ELSE UNCHANGED <<generation, gens>>
    /\ ExecGoto(x, "release")
    /\ UNCHANGED <<pwd, intent, index, deny>> /\ Calm

\* releaseSessionRevocation.
Release(x) ==
    LET v == ex[x].v IN
    /\ ex[x].pc = "release"
    /\ intent' = IF intent[v].status = "pending" /\ Owns(x)
                 THEN [intent EXCEPT ![v] = [NoIntent EXCEPT !.status = "pending"]] ELSE intent
    /\ Exec(x, Ended(x))
    /\ UNCHANGED <<pwd, generation, gens, index, deny, faults>> /\ Calm

\* The process dies, or MySQL refuses a claim, a mark or a release.
ExecDies(x) ==
    /\ ex[x].pc \notin {"idle", "done"} /\ Fault
    /\ Exec(x, Ended(x))
    /\ UNCHANGED <<pwd, intent, generation, gens, index, deny>> /\ Calm

\* sessionRevocationLease passes: always for a dead owner, and for a slow one.
LeaseLapses(v) ==
    /\ intent[v].live
    /\ IF \E x \in Execs : intent[v].owner = x /\ ex[x].v = v /\ ex[x].pc \notin {"idle", "done"}
       THEN Fault ELSE UNCHANGED faults
    /\ intent' = [intent EXCEPT ![v] = [@ EXCEPT !.live = FALSE]]
    /\ UNCHANGED <<pwd, generation, gens, index, deny, ex>> /\ Calm

\* Redis loses the generation record.
GenerationLost ==
    /\ generation.id # 0 /\ Fault
    /\ generation' = NoGen
    /\ UNCHANGED <<pwd, intent, gens, index, deny, ex>> /\ Calm

-----------------------------------------------------------------------------
Apply(x) ==
    \/ ClaimByID(x) \/ WaitApplied(x) \/ ClaimNext(x) \/ RotateGeneration(x)
    \/ WriteDeny(x) \/ DropIndex(x) \/ MarkApplied(x) \/ Release(x)

Step ==
    \/ \E p \in Procs :
        \/ StartLogin(p) \/ BeginIssue(p) \/ Authenticate(p) \/ DeviceToken(p)
        \/ LoadToken(p) \/ DeleteToken(p) \/ Unbind(p) \/ Unlist(p)
        \/ CheckFence(p) \/ ReadToken(p) \/ WriteToken(p) \/ ListSession(p)
        \/ Unreserve(p) \/ RemoveReservation(p)
        \/ BindDevice(p) \/ CheckAgain(p) \/ Deliver(p)
        \/ CallFails(p) \/ AnswerLost(p) \/ Crash(p)
        \/ \E t \in Tokens : StartLogout(p, t)
    \/ \E t \in Tokens : UpdateSessionSnapshot(t)
    \/ \E x \in Execs : ChangePassword(x) \/ Apply(x) \/ ApplyFails(x) \/ ExecDies(x)
    \/ \E v \in Versions : LeaseLapses(v)
    \/ GenerationLost

Next == Step /\ UNCHANGED world

Spec == Init /\ [][Next]_<<vars, world>>

\* The worker runs every few seconds, leases lapse with time, and calls have deadlines.
FairSpec ==
    /\ Spec
    /\ \A x \in Execs : WF_vars(Apply(x))
    /\ \A v \in Versions : WF_vars(LeaseLapses(v))

-----------------------------------------------------------------------------
(* Properties. *)

\* Once a change of the password is recorded as applied, no v3 session that was opened with
\* an older password is valid: not one issued while the change was under way, not one whose
\* index entry or cleanup failed (BeginIssue before the credentials, rotateGenerationScript).
AppliedRevokes ==
    \A v \in Versions : intent[v].status = "applied" =>
        \A t \in Tokens : (Valid(t) /\ tokens[t].ver = "v3") => tokens[t].cred >= v

\* A token that a logout, an app login or a compensation has deleted never comes back: a
\* reuse that read it before does not write it again (casReplacePayloadKeepDeadlineScript).
DeadStaysDead == \A t \in dead : tokens[t].ver = None

\* A login that fails never takes its token back once another login has adopted and
\* returned it (RevokeIssued, cleanupIssuedV3).
AdoptedIsKept ==
    [][\A p \in Logins :
           (At(p, "delete") /\ pr[p].tok = p /\ pr'[p].pc = "unbind") => p \notin delivered]_vars

\* The sessions that logins have returned and that are valid stay within max_per_uid
\* (addSessionIndexScript), but for those whose entry the cleanup of another promotion has
\* removed since they were listed (cleanupIndexReservation reads, then removes).
SessionsCapped ==
    Cardinality({t \in delivered : /\ Valid(t) /\ tokens[t].ver = "v3"
                                   /\ <<generation.id, t>> \notin unlisted}) <= Cap

\* Once the newest change is recorded as applied, the sessions from before v3 are refused
\* too (RevokeAll writes the marker before it reports success, also when it is a retry of
\* an event whose rotation had already happened).
NewestDenies == (pwd > 0 /\ intent[pwd].status = "applied") => deny

\* Every password change is eventually recorded as applied, whoever dies on the way.
RevocationsApplied ==
    \A v \in Versions : []<>(intent[v].status # "pending")

\* What a change of the password, a logout and the cap have ended has ended.
SessionsSound == TypeOK /\ AppliedRevokes /\ NewestDenies /\ DeadStaysDead /\ SessionsCapped
=============================================================================
