--------------------------- MODULE SessionProofs ---------------------------
(***************************************************************************)
(* Proofs about SessionStore (SessionsSound and AdoptedIsKept hold for any *)
(* number of logins, logouts, password changes, workers, faults and worlds)*)
(* and about SessionRollout (CapKept holds of every rollout, RolloutSound  *)
(* of every one phase rollout, and of every longer one when no replica is  *)
(* stopped as a whole).                                                    *)
(***************************************************************************)
EXTENDS SessionStore, SessionRollout, FiniteSetTheorems, TLAPS

-----------------------------------------------------------------------------
(* The inductive invariant. *)

Working == {"bind", "extend", "check", "im"}

\* What a process is doing fits where it is: whose token it handles, and for whom.
Shape(p, r) ==
    \/ r.pc \in {"idle", "done"} /\ r.kind = "issue" /\ r.tok = None
    \/ r.pc \in {"fence", "auth", "old"} /\ p \in Logins /\ r.kind = "issue" /\ r.tok = None
    \/ /\ p \in Logouts /\ r.kind = "logout" /\ r.tok # None
       /\ r.pc \in {"load", "forget", "delete", "unbind", "unlist"}
    \/ /\ p \in Logins /\ r.kind = "issue" /\ r.tok = p
       /\ r.pc \in {"fence2", "write", "list", "delete", "unbind", "unlist"} \cup Working
    \/ /\ p \in Logins /\ r.kind = "replace" /\ r.tok \notin {None, p}
       /\ r.pc \in {"load", "delete", "unbind", "unlist"}
    \/ /\ p \in Logins /\ r.kind = "reuse" /\ r.tok \notin {None, p}
       /\ r.pc \in {"fence2", "read", "write", "list"} \cup Working
    \/ /\ p \in Logins /\ r.kind = "promote" /\ r.tok = Legacy
       /\ r.pc \in {"list", "write", "delete", "unbind", "unlist"} \cup Working
    \/ /\ p \in Logins /\ r.kind \in {"issue", "reuse", "quit"} /\ r.tok \notin {None, p}
       /\ r.pc \in {"unreserve", "zrem"}
    \/ /\ p \in Logins /\ r.kind = "takeback" /\ r.tok = p
       /\ r.pc \in {"load", "delete", "unbind", "unlist"}

\* The process has written the payload of its token; it has its place in the index.
Wrote(r)  == r.pc \in Working \/ (r.pc = "list" /\ r.kind \in {"issue", "reuse"})
Listed(r) == r.pc \in Working \/ (r.pc = "write" /\ r.kind = "promote")

\* Login p has not written its own token yet.
Fresh(p, r) == r.pc # "done" /\ (r.tok # p \/ r.pc \in {"fence2", "write"})

\* The change of the password with version v has cut the sessions before it.
Past(v) ==
    \/ intent[v].status = "applied"
    \/ generation.last >= v
    \/ \E x \in Execs : ex[x].v = v /\ ex[x].pc \in {"deny", "drop", "mark"}

Cutting == {v \in Versions : Past(v)}

\* What belongs to the current generation was opened with a password no older than the
\* changes that have cut.
CutFrom(g, cred) == (g = generation.id /\ g # 0) => \A v \in Cutting : cred >= v

\* Session t of generation g is in the index, unless the generation is over, the entry was
\* removed by another promotion's cleanup, or the session is gone.
Kept(g, t) ==
    \/ g = 0 \/ g # generation.id
    \/ t \in index[g] \/ <<g, t>> \in unlisted \/ t \in dead

TokenSound(t) ==
    /\ tokens[t].ver = None => tokens[t] = NoPayload
    /\ tokens[t].ver = "legacy" => t = Legacy
    /\ t \in Logins => tokens[t].by \in {None, t}
    /\ tokens[t].ver = "v3" => CutFrom(tokens[t].gen, tokens[t].cred)
    /\ t \in dead => tokens[t].ver = None
    /\ (t \in delivered /\ tokens[t].ver = "v3") => Kept(tokens[t].gen, t)

ProcSound(p) ==
    /\ Shape(p, pr[p])
    /\ pr[p].pc # "auth" => CutFrom(pr[p].fence, pr[p].cred)
    /\ pr[p].seen.ver = "v3" => CutFrom(pr[p].seen.gen, pr[p].seen.cred)
    /\ (pr[p].pc = "write" /\ pr[p].kind = "reuse") =>
           pr[p].seen.ver = "v3" /\ pr[p].seen.gen = pr[p].fence
    /\ (pr[p].pc \in {"list", "write"} /\ pr[p].kind = "promote") => pr[p].seen.ver = "legacy"
    /\ (pr[p].pc = "unbind" /\ pr[p].seen.ver = "v3") => pr[p].tok \in dead
    /\ pr[p].pc = "unlist" => pr[p].tok \in dead
    /\ (p \in Logins /\ pr[p].pc = "delete" /\ pr[p].tok = p) => pr[p].seen.by = p
    /\ Wrote(pr[p]) => \/ pr[p].tok \in dead
                       \/ tokens[pr[p].tok].ver = "v3" /\ tokens[pr[p].tok].gen = pr[p].fence
    /\ (Wrote(pr[p]) /\ pr[p].kind = "reuse" /\ pr[p].tok \in Logins) =>
           tokens[pr[p].tok].by = None
    /\ Listed(pr[p]) => Kept(pr[p].fence, pr[p].tok)

OwnSound(p) ==
    /\ (p \in delivered /\ pr[p].pc # "done") => tokens[p].by = None
    /\ Fresh(p, pr[p]) =>
           /\ tokens[p] = NoPayload /\ p \notin dead /\ p \notin delivered
           /\ \A f \in Flags : device[f] # p
           /\ \A q \in Procs : q # p => pr[q].tok # p

ExecSound(x) ==
    /\ ex[x].pc # "idle" => ex[x].v # 0
    /\ ex[x].prev = 0 \/ generation.id = 0 \/ ex[x].prev < generation.id
    /\ ex[x].pc = "drop" => deny
    /\ ex[x].pc = "mark" => deny \/ ex[x].v < pwd

\* The revocation side.
RevocationSound ==
    /\ \A x \in Execs : ExecSound(x)
    /\ generation.id = 0 \/ generation.revoked < generation.id
    /\ \A v \in Versions : intent[v].status = "applied" => deny \/ v < pwd
    /\ pwd = Cardinality({x \in Requests : ex[x].pc # "idle"})

WithinCap == \A g \in Gens : Cardinality(index[g]) <= Cap

IInv ==
    /\ TypeOK
    /\ \A t \in Tokens : TokenSound(t)
    /\ \A p \in Procs : ProcSound(p)
    /\ \A p \in Logins : OwnSound(p)
    /\ RevocationSound
    /\ WithinCap

-----------------------------------------------------------------------------
(* Records. *)

LEMMA Constants ==
    /\ NoPayload \in Payload /\ NoPayload.ver = None /\ NoPayload.gen = 0 /\ NoPayload.by = None
    /\ NoPayload.cred = 0
    /\ NoProc \in Proc /\ NoProc.pc = "idle" /\ NoProc.kind = "issue" /\ NoProc.fence = 0
    /\ NoProc.tok = None /\ NoProc.seen = NoPayload /\ NoProc.cred = 0 /\ NoProc.tries = 0
    /\ Done \in Proc /\ Done.pc = "done" /\ Done.kind = "issue" /\ Done.fence = 0
    /\ Done.tok = None /\ Done.seen = NoPayload /\ Done.cred = 0 /\ Done.tries = 0
    /\ MaxTries \in Nat \ {0} /\ MaxGens \in Nat /\ Cardinality(Requests) \in Nat
    /\ Legacy \notin Logins /\ None \notin Tokens /\ Logins \cap Logouts = {}
    /\ Legacy \in Tokens /\ Logins \subseteq Tokens
<1>1. Cardinality(Requests) \in Nat /\ MaxTries \in Nat \ {0} /\ MaxGens \in Nat
      /\ Legacy \notin Logins /\ None \notin Tokens /\ Logins \cap Logouts = {}
      /\ Legacy \in Tokens /\ Logins \subseteq Tokens
  BY SessionAssumption, FS_CardinalityType DEF Tokens, None
<1>2. /\ NoPayload \in Payload /\ NoPayload.ver = None /\ NoPayload.gen = 0 /\ NoPayload.by = None
      /\ NoPayload.cred = 0
  BY <1>1 DEF NoPayload, Payload, Gens
<1> HIDE DEF NoPayload, Payload
<1>3. /\ NoProc \in Proc /\ NoProc.pc = "idle" /\ NoProc.kind = "issue" /\ NoProc.fence = 0
      /\ NoProc.tok = None /\ NoProc.seen = NoPayload /\ NoProc.cred = 0 /\ NoProc.tries = 0
  BY <1>1, <1>2 DEF NoProc, Proc, Gens
<1>4. /\ Done \in Proc /\ Done.pc = "done" /\ Done.kind = "issue" /\ Done.fence = 0
      /\ Done.tok = None /\ Done.seen = NoPayload /\ Done.cred = 0 /\ Done.tries = 0
  BY <1>3 DEF Done, Proc
<1> QED BY <1>1, <1>2, <1>3, <1>4

\* The payload a login stores of its own.
LEMMA OwnedPayload ==
    ASSUME TypeOK, NEW p \in Logins
    PROVE  /\ Owned(p) \in Payload /\ Owned(p).ver = "v3" /\ Owned(p).gen = pr[p].fence
           /\ Owned(p).by = p /\ Owned(p).cred = pr[p].cred
<1>1. pr[p] \in Proc
  BY DEF TypeOK, Procs
<1> QED BY <1>1, Constants DEF Owned, Payload, Proc

\* What a reuse stores: the payload it has read, without the mark.
LEMMA WrittenPayload ==
    ASSUME TypeOK, NEW p \in Logins
    PROVE  /\ Written(p) \in Payload
           /\ pr[p].kind # "reuse" => Written(p) = Owned(p)
           /\ pr[p].kind = "reuse" =>
                  /\ Written(p).ver = pr[p].seen.ver /\ Written(p).gen = pr[p].seen.gen
                  /\ Written(p).cred = pr[p].seen.cred /\ Written(p).by = None
<1>1. pr[p] \in Proc /\ pr[p].seen \in Payload
  BY DEF TypeOK, Procs, Proc
<1>2. [pr[p].seen EXCEPT !.by = None] \in Payload
  BY <1>1 DEF Payload
<1> QED BY <1>1, <1>2, OwnedPayload DEF Written, Payload

-----------------------------------------------------------------------------
(* What a step of a login or logout does to what others see. *)

TokensMove(p) ==
    LET t == pr[p].tok IN
    \/ UNCHANGED <<tokens, dead>>
    \/ /\ pr[p].pc \in {"delete", "forget"}
       /\ tokens' = [tokens EXCEPT ![t] = NoPayload] /\ dead' = dead \cup {t}
    \/ /\ At(p, "write") /\ (pr[p].kind = "issue" \/ Replaces(p))
       /\ tokens' = [tokens EXCEPT ![t] = Written(p)] /\ dead' = dead
       /\ pr[p].kind = "issue" => ~ Fresh(p, pr'[p])

IndexMove(p) ==
    LET g == pr[p].fence
        t == pr[p].tok
    IN  \/ UNCHANGED <<index, unlisted>>
        \/ /\ At(p, "list") /\ HasRoom(p)
           /\ index' = [index EXCEPT ![g] = @ \cup {t}] /\ unlisted' = unlisted \ {<<g, t>>}
        \/ /\ At(p, "zrem")
           /\ index' = [index EXCEPT ![g] = @ \ {t}] /\ unlisted' = unlisted \cup {<<g, t>>}
        \/ /\ At(p, "unlist")
           /\ index' = [index EXCEPT ![pr[p].seen.gen] = @ \ {t}] /\ unlisted' = unlisted

DeviceMove(p) ==
    \/ UNCHANGED device
    \/ At(p, "bind") /\ device' = [device EXCEPT ![FlagOf[p]] = pr[p].tok]
    \/ /\ At(p, "unbind")
       /\ device' = [device EXCEPT ![FlagOfToken(pr[p].tok)] = IF @ = pr[p].tok THEN None ELSE @]

DeliveredMove(p) ==
    \/ UNCHANGED delivered
    \/ At(p, "im") /\ delivered' = delivered \cup {pr[p].tok} /\ pr'[p] = Done

GenerationMove(p) ==
    \/ UNCHANGED <<generation, gens>>
    \/ /\ At(p, "fence") /\ generation.id = 0 /\ gens < MaxGens /\ gens' = gens + 1
       /\ generation' = [NoGen EXCEPT !.id = gens + 1]

Moves(p) ==
    /\ TokensMove(p) /\ IndexMove(p) /\ DeviceMove(p) /\ DeliveredMove(p) /\ GenerationMove(p)
    /\ DOMAIN pr' = DOMAIN pr /\ pr' = [pr EXCEPT ![p] = pr'[p]]
    /\ UNCHANGED <<pwd, intent, deny, ex, snapshots>>
    /\ faults' \in 0..MaxFaults /\ pr[p].pc # "done"

ProcStep(p) ==
    \/ StartLogin(p) \/ BeginIssue(p) \/ Authenticate(p) \/ DeviceToken(p)
    \/ LoadToken(p) \/ DeleteToken(p) \/ Unbind(p) \/ Unlist(p)
    \/ CheckFence(p) \/ ReadToken(p) \/ WriteToken(p) \/ ListSession(p)
    \/ Unreserve(p) \/ RemoveReservation(p)
    \/ BindDevice(p) \/ CheckAgain(p) \/ Deliver(p)
    \/ CallFails(p) \/ AnswerLost(p) \/ Crash(p)
    \/ \E t \in Tokens : StartLogout(p, t)

LEMMA StepMoves ==
    ASSUME IInv, NEW p \in Procs, ProcStep(p)
    PROVE  Moves(p)
<1> DEFINE Rest == /\ UNCHANGED <<pwd, intent, deny, ex, snapshots>> /\ faults' \in 0..MaxFaults
                   /\ pr[p].pc # "done" /\ \E rec : pr' = [pr EXCEPT ![p] = rec]
<1> USE DEF Set, Goto, OthersNow, Others, redis, At
<1>1. pr \in [Procs -> Proc] /\ faults \in 0..MaxFaults /\ MaxFaults \in Nat
  BY SessionAssumption DEF IInv, TypeOK, MaxFaults
<1>2. ASSUME NEW rec, pr' = [pr EXCEPT ![p] = rec]
      PROVE  DOMAIN pr' = DOMAIN pr /\ pr' = [pr EXCEPT ![p] = pr'[p]]
  BY <1>1, <1>2
<1>3. ASSUME \/ StartLogin(p) \/ Authenticate(p) \/ DeviceToken(p) \/ LoadToken(p) \/ CheckFence(p)
             \/ ReadToken(p) \/ Unreserve(p) \/ CheckAgain(p)
             \/ \E t \in Tokens : StartLogout(p, t)
      PROVE  Moves(p)
  <2>1. UNCHANGED <<redis, delivered, dead, unlisted>> /\ Rest
    <3>1. CASE \E t \in Tokens : StartLogout(p, t)
      <4>1. PICK t \in Tokens : StartLogout(p, t)
        BY <3>1
      <4> QED BY <4>1, <1>1 DEF StartLogout
    <3>2. CASE StartLogin(p) \/ Authenticate(p)
      BY <3>2, <1>1 DEF StartLogin, Authenticate
    <3>3. CASE DeviceToken(p) \/ LoadToken(p)
      BY <3>3, <1>1 DEF DeviceToken, LoadToken
    <3>4. CASE CheckFence(p) \/ ReadToken(p)
      BY <3>4, <1>1 DEF CheckFence, ReadToken
    <3>5. CASE Unreserve(p)
      BY <3>5, <1>1 DEF Unreserve
    <3>6. CASE CheckAgain(p)
      BY <3>6, <1>1 DEF CheckAgain
    <3> QED BY <1>3, <3>1, <3>2, <3>3, <3>4, <3>5, <3>6
  <2> QED BY <2>1, <1>2 DEF Moves, TokensMove, IndexMove, DeviceMove, DeliveredMove, GenerationMove
<1>4. ASSUME CallFails(p) \/ Crash(p)
      PROVE  Moves(p)
  <2>1. UNCHANGED <<redis, delivered, dead, unlisted>> /\ Rest
    BY <1>4, <1>1 DEF CallFails, Crash, Fault
  <2> QED BY <2>1, <1>2 DEF Moves, TokensMove, IndexMove, DeviceMove, DeliveredMove, GenerationMove
<1>5. ASSUME BeginIssue(p)
      PROVE  Moves(p)
  <2>1. UNCHANGED <<index, device, tokens, deny, delivered, dead, unlisted>> /\ Rest
        /\ GenerationMove(p)
    BY <1>5, <1>1 DEF BeginIssue, GenerationMove
  <2> QED BY <2>1, <1>2 DEF Moves, TokensMove, IndexMove, DeviceMove, DeliveredMove
<1>6. ASSUME DeleteToken(p)
      PROVE  Moves(p)
  <2>1. UNCHANGED <<index, device, generation, gens, deny, delivered, unlisted>> /\ Rest
        /\ TokensMove(p)
    BY <1>6, <1>1 DEF DeleteToken, TokensMove
  <2> QED BY <2>1, <1>2 DEF Moves, IndexMove, DeviceMove, DeliveredMove, GenerationMove
<1>7. ASSUME Unbind(p)
      PROVE  Moves(p)
  <2>1. UNCHANGED <<index, tokens, generation, gens, deny, delivered, dead, unlisted>> /\ Rest
        /\ DeviceMove(p)
    BY <1>7, <1>1 DEF Unbind, DeviceMove
  <2> QED BY <2>1, <1>2 DEF Moves, IndexMove, TokensMove, DeliveredMove, GenerationMove
<1>8. ASSUME Unlist(p) \/ ListSession(p) \/ RemoveReservation(p)
      PROVE  Moves(p)
  <2>1. UNCHANGED <<device, tokens, generation, gens, deny, delivered, dead>> /\ Rest
        /\ IndexMove(p)
    <3>1. CASE Unlist(p)
      BY <3>1, <1>1 DEF Unlist, IndexMove
    <3>2. CASE ListSession(p)
      BY <3>2, <1>1 DEF ListSession, IndexMove
    <3>3. CASE RemoveReservation(p)
      BY <3>3, <1>1 DEF RemoveReservation, IndexMove
    <3> QED BY <1>8, <3>1, <3>2, <3>3
  <2> QED BY <2>1, <1>2 DEF Moves, DeviceMove, TokensMove, DeliveredMove, GenerationMove
<1>9. ASSUME WriteToken(p) \/ AnswerLost(p)
      PROVE  Moves(p)
  <2>1. UNCHANGED <<index, device, generation, gens, deny, delivered, unlisted>> /\ Rest
        /\ TokensMove(p)
    <3>1. CASE WriteToken(p)
      <4>1. /\ UNCHANGED <<index, device, generation, gens, deny, delivered, unlisted>> /\ Rest
            /\ UNCHANGED dead /\ At(p, "write")
        BY <3>1, <1>1 DEF WriteToken
      <4>2. CASE pr[p].kind = "issue" \/ Replaces(p)
        <5>1. /\ tokens' = [tokens EXCEPT ![pr[p].tok] = Written(p)]
              /\ pr' = [pr EXCEPT ![p] = [pr[p] EXCEPT
                            !.pc = IF pr[p].kind = "promote" THEN "bind" ELSE "list"]]
          BY <3>1, <4>2 DEF WriteToken
        <5>2. pr'[p].pc = IF pr[p].kind = "promote" THEN "bind" ELSE "list"
          BY <1>1, <5>1 DEF Proc
        <5>3. pr[p].kind = "issue" => ~ Fresh(p, pr'[p])
          <6>1. pr[p].kind = "issue" => pr[p].tok = p /\ pr'[p].tok = pr[p].tok
            BY <1>1, <4>1, <5>1 DEF IInv, ProcSound, Shape, At, Proc, Working
          <6> QED BY <5>2, <6>1 DEF Fresh
        <5> QED BY <4>1, <4>2, <5>1, <5>3 DEF TokensMove
      <4>3. CASE ~ (pr[p].kind = "issue" \/ Replaces(p))
        <5>1. UNCHANGED tokens
          BY <3>1, <4>3 DEF WriteToken
        <5> QED BY <4>1, <5>1 DEF TokensMove
      <4> QED BY <4>2, <4>3
    <3>2. CASE AnswerLost(p)
      <4>1. faults' \in 0..MaxFaults
        BY <3>2, <1>1 DEF AnswerLost, Fault
      <4>2. /\ pr' = [pr EXCEPT ![p] = Failed(p)]
            /\ UNCHANGED <<index, device, generation, gens, deny, delivered, unlisted>>
            /\ UNCHANGED <<pwd, intent, ex, snapshots>> /\ pr[p].pc # "done"
        BY <3>2 DEF AnswerLost, At
      <4>3. TokensMove(p)
        <5>1. pr[p].kind = "issue" => pr'[p] = Done
          BY <1>1, <3>2, <4>2 DEF AnswerLost, Failed, At
        <5> QED BY <3>2, <5>1, Constants DEF AnswerLost, TokensMove, Fresh
      <4> QED BY <4>1, <4>2, <4>3
    <3> QED BY <1>9, <3>1, <3>2
  <2> QED BY <2>1, <1>2 DEF Moves, IndexMove, DeviceMove, DeliveredMove, GenerationMove
<1>10. ASSUME BindDevice(p)
       PROVE  Moves(p)
  <2>1. UNCHANGED <<index, tokens, generation, gens, deny, delivered, dead, unlisted>> /\ Rest
        /\ DeviceMove(p)
    BY <1>10, <1>1 DEF BindDevice, DeviceMove
  <2> QED BY <2>1, <1>2 DEF Moves, IndexMove, TokensMove, DeliveredMove, GenerationMove
<1>11. ASSUME Deliver(p)
       PROVE  Moves(p)
  <2>1. UNCHANGED <<redis, dead, unlisted>> /\ Rest /\ DeliveredMove(p)
    BY <1>11, <1>1 DEF Deliver, DeliveredMove
  <2> QED BY <2>1, <1>2 DEF Moves, IndexMove, TokensMove, DeviceMove, GenerationMove
<1> QED
  BY <1>3, <1>4, <1>5, <1>6, <1>7, <1>8, <1>9, <1>10, <1>11 DEF ProcStep

-----------------------------------------------------------------------------
(* What a step does to the process itself. *)

\* Its record keeps its type and its shape, and where its fence, credentials and token
\* come from.
Typed(p) ==
    /\ pr'[p] \in Proc /\ Shape(p, pr'[p])
    /\ pr'[p].fence \in {pr[p].fence, 0, generation'.id}

Kin(p) ==
    /\ \/ pr'[p].pc = "auth" \/ pr'[p].fence = 0
       \/ pr'[p].fence = pr[p].fence /\ pr[p].pc # "auth" /\ pr'[p].cred = pr[p].cred
       \/ pr'[p].fence = pr[p].fence /\ pr'[p].cred = pwd
    /\ \/ pr'[p].tok \in {pr[p].tok, None, p} \cup delivered
       \/ \E f \in Flags : pr'[p].tok = device[f]
    /\ (p \in Logins /\ Fresh(p, pr'[p])) => Fresh(p, pr[p])

\* What it has read.
Read(p) ==
    /\ \/ pr'[p].seen \in {pr[p].seen, NoPayload}
       \/ pr[p].tok \in Tokens /\ pr'[p].seen = tokens[pr[p].tok]
       \/ p \in Logins /\ pr[p].pc # "auth" /\ pr'[p].seen = Owned(p)
    /\ (pr'[p].pc = "write" /\ pr'[p].kind = "reuse") =>
           pr'[p].seen.ver = "v3" /\ pr'[p].seen.gen = pr'[p].fence
    /\ (pr'[p].pc \in {"list", "write"} /\ pr'[p].kind = "promote") =>
           pr'[p].seen.ver = "legacy"
    /\ (p \in Logins /\ pr'[p].pc = "delete" /\ pr'[p].tok = p) => pr'[p].seen.by = p

\* How it has come to hold its token's payload, its place in the index, or nothing more.
Holding(p) ==
    /\ Wrote(pr'[p]) =>
           /\ pr'[p].tok = pr[p].tok /\ pr'[p].fence = pr[p].fence /\ pr'[p].kind = pr[p].kind
           /\ \/ Wrote(pr[p]) /\ UNCHANGED <<tokens, dead>>
              \/ /\ At(p, "write") /\ (pr[p].kind = "issue" \/ Replaces(p))
                 /\ tokens' = [tokens EXCEPT ![pr[p].tok] = Written(p)] /\ dead' = dead
    /\ Listed(pr'[p]) =>
           /\ pr'[p].tok = pr[p].tok /\ pr'[p].fence = pr[p].fence
           /\ \/ Listed(pr[p])
              \/ pr[p].tok \in index'[pr[p].fence]
    /\ (pr'[p].pc = "unbind" /\ pr'[p].seen.ver = "v3") => pr'[p].tok \in dead'
    /\ pr'[p].pc = "unlist" => pr'[p].tok \in dead'

Turn(p) == Typed(p) /\ Kin(p) /\ Read(p) /\ Holding(p)

\* A process that ends, whatever it was doing.
LEMMA Ending ==
    ASSUME NEW p \in Procs, pr'[p] = Done
    PROVE  Turn(p)
BY Constants DEF Turn, Typed, Kin, Read, Holding, Shape, Fresh, Wrote, Listed, Working

LEMMA FailedTurn ==
    ASSUME IInv, NEW p \in Procs, pr'[p] = Failed(p), pr[p].pc \notin {"idle", "done"},
           UNCHANGED dead
    PROVE  Turn(p)
<1>1. pr[p] \in Proc /\ ProcSound(p) /\ Shape(p, pr[p])
  BY DEF IInv, TypeOK, ProcSound
<1>2. CASE pr'[p] = Cleanup(p) /\ p \in Logins /\ pr[p].kind \in {"issue", "promote"}
           /\ pr[p].pc # "auth" /\ (pr[p].kind = "issue" => pr[p].tok = p)
           /\ (pr[p].kind = "promote" => pr[p].tok = Legacy)
  <2>0. Owned(p) \in Payload /\ Owned(p).by = p
    BY <1>2, OwnedPayload DEF IInv
  <2>1. /\ pr'[p] \in Proc /\ pr'[p].pc = "delete" /\ pr'[p].kind = pr[p].kind
        /\ pr'[p].fence = pr[p].fence /\ pr'[p].cred = pr[p].cred /\ pr'[p].tok = pr[p].tok
        /\ pr'[p].seen = Owned(p) /\ Owned(p).by = p
    BY <1>1, <1>2, <2>0 DEF Cleanup, Proc
  <2>2. Typed(p)
    BY <1>2, <2>1 DEF Typed, Shape
  <2>3. Kin(p)
    BY <1>1, <1>2, <2>1, Constants DEF Kin, Shape, Fresh, Working
  <2>4. Read(p) /\ Holding(p)
    BY <1>2, <2>1 DEF Read, Holding, Wrote, Listed, Working
  <2> QED BY <2>2, <2>3, <2>4 DEF Turn
<1>3. CASE pr'[p] = [pr[p] EXCEPT !.pc = "unreserve", !.kind = "quit"]
           /\ pr[p].kind = "promote" /\ pr[p].pc = "write"
  <2>1. /\ pr'[p] \in Proc /\ pr'[p].pc = "unreserve" /\ pr'[p].kind = "quit"
        /\ pr'[p].fence = pr[p].fence /\ pr'[p].cred = pr[p].cred /\ pr'[p].tok = pr[p].tok
        /\ pr'[p].seen = pr[p].seen
    BY <1>1, <1>3 DEF Proc
  <2> QED
    BY <1>1, <1>3, <2>1, Constants
       DEF Turn, Typed, Kin, Read, Holding, Shape, Fresh, Wrote, Listed, Working
<1>4. CASE pr'[p] = [pr[p] EXCEPT !.pc = "load", !.kind = "takeback"]
           /\ pr[p].kind = "issue" /\ pr[p].pc = "im"
  <2>1. /\ pr'[p] \in Proc /\ pr'[p].pc = "load" /\ pr'[p].kind = "takeback"
        /\ pr'[p].fence = pr[p].fence /\ pr'[p].cred = pr[p].cred /\ pr'[p].tok = pr[p].tok
        /\ pr'[p].seen = pr[p].seen
    BY <1>1, <1>4 DEF Proc
  <2> QED
    BY <1>1, <1>4, <2>1, Constants
       DEF Turn, Typed, Kin, Read, Holding, Shape, Fresh, Wrote, Listed, Working
<1>5. CASE pr'[p] = [pr[p] EXCEPT !.pc = "unlist"]
           /\ pr[p].kind = "takeback" /\ pr[p].pc = "unbind" /\ pr[p].seen.ver = "v3"
  <2>1. /\ pr'[p] \in Proc /\ pr'[p].pc = "unlist" /\ pr'[p].kind = "takeback"
        /\ pr'[p].fence = pr[p].fence /\ pr'[p].cred = pr[p].cred /\ pr'[p].tok = pr[p].tok
        /\ pr'[p].seen = pr[p].seen
    BY <1>1, <1>5 DEF Proc
  <2>2. pr'[p].tok \in dead'
    BY <1>1, <1>5, <2>1 DEF ProcSound
  <2> QED
    BY <1>1, <1>5, <2>1, <2>2, Constants
       DEF Turn, Typed, Kin, Read, Holding, Shape, Fresh, Wrote, Listed, Working
<1>6. CASE pr'[p] = Done
  BY <1>6, Ending
<1> QED
  BY <1>1, <1>2, <1>3, <1>4, <1>5, <1>6, Constants DEF Failed, Shape, At, Working

LEMMA StartingTurn ==
    ASSUME IInv, NEW p \in Procs,
           \/ StartLogin(p) \/ BeginIssue(p) \/ Authenticate(p) \/ DeviceToken(p)
           \/ \E t \in Tokens : StartLogout(p, t)
    PROVE  Turn(p)
<1>1. pr \in [Procs -> Proc] /\ pr[p] \in Proc /\ ProcSound(p) /\ Shape(p, pr[p])
      /\ (p \in Logins => OwnSound(p))
  BY DEF IInv, TypeOK, ProcSound
<1>2. CASE StartLogin(p)
  <2>1. /\ pr'[p] \in Proc /\ pr'[p].pc = "fence" /\ pr'[p].kind = pr[p].kind
        /\ pr'[p].fence = pr[p].fence /\ pr'[p].cred = pr[p].cred /\ pr'[p].tok = pr[p].tok
        /\ pr'[p].seen = pr[p].seen /\ pr[p].pc = "idle" /\ p \in Logins
    BY <1>1, <1>2 DEF StartLogin, Goto, Set, After, At, Proc
  <2> QED
    BY <1>1, <2>1, Constants
       DEF Turn, Typed, Kin, Read, Holding, Shape, Fresh, Wrote, Listed, Working
<1>3. CASE BeginIssue(p)
  <2>0. generation'.id \in Gens
    BY <1>3, Constants DEF BeginIssue, IInv, TypeOK, Gens, NoGen
  <2>1. /\ pr'[p] \in Proc /\ pr'[p].pc = "auth" /\ pr'[p].kind = pr[p].kind
        /\ pr'[p].fence = generation'.id /\ pr'[p].cred = pr[p].cred /\ pr'[p].tok = pr[p].tok
        /\ pr'[p].seen = pr[p].seen /\ pr[p].pc = "fence"
    BY <1>1, <1>3, <2>0 DEF BeginIssue, Set, After, At, Proc
  <2> QED
    BY <1>1, <2>1, Constants
       DEF Turn, Typed, Kin, Read, Holding, Shape, Fresh, Wrote, Listed, Working
<1>4. CASE Authenticate(p)
  <2>0. pwd \in 0..Cardinality(Requests)
    BY DEF IInv, TypeOK
  <2>1. /\ pr'[p] \in Proc /\ pr'[p].pc = "old" /\ pr'[p].kind = pr[p].kind
        /\ pr'[p].fence = pr[p].fence /\ pr'[p].cred = pwd /\ pr'[p].tok = pr[p].tok
        /\ pr'[p].seen = pr[p].seen /\ pr[p].pc = "auth"
    BY <1>1, <1>4, <2>0 DEF Authenticate, Set, After, At, Proc
  <2> QED
    BY <1>1, <2>1, Constants
       DEF Turn, Typed, Kin, Read, Holding, Shape, Fresh, Wrote, Listed, Working
<1>5. CASE DeviceToken(p)
  <2>0. /\ At(p, "old") /\ p \in Logins /\ FlagOf[p] \in Flags
        /\ device[FlagOf[p]] \in Tokens \cup {None} /\ device[FlagOf[p]] # p
    <3>1. At(p, "old") /\ p \in Logins
      BY <1>1, <1>5, Constants DEF DeviceToken, At, Shape, Working
    <3>2. world \in Worlds /\ device \in [Flags -> Tokens \cup {None}]
      BY DEF IInv, TypeOK
    <3>3. FlagOf[p] \in Flags
      BY <3>1, <3>2, SessionAssumption DEF FlagOf, Flags
    <3>4. Fresh(p, pr[p])
      BY <1>1, <3>1, Constants DEF Fresh, At, Shape, Working
    <3> QED BY <1>1, <3>1, <3>2, <3>3, <3>4 DEF OwnSound
  <2>1. CASE device[FlagOf[p]] = None
    <3>1. /\ pr'[p] \in Proc /\ pr'[p].pc = "fence2" /\ pr'[p].kind = pr[p].kind
          /\ pr'[p].fence = pr[p].fence /\ pr'[p].cred = pr[p].cred /\ pr'[p].tok = p
          /\ pr'[p].seen = pr[p].seen
      BY <1>1, <1>5, <2>0, <2>1, Constants DEF DeviceToken, Set, Proc
    <3> QED
      BY <1>1, <2>0, <3>1, Constants
         DEF At, Turn, Typed, Kin, Read, Holding, Shape, Fresh, Wrote, Listed, Working
  <2>2. CASE device[FlagOf[p]] # None /\ FlagOf[p] = "app"
    <3>1. /\ pr'[p] \in Proc /\ pr'[p].pc = "load" /\ pr'[p].kind = "replace"
          /\ pr'[p].fence = pr[p].fence /\ pr'[p].cred = pr[p].cred
          /\ pr'[p].tok = device[FlagOf[p]] /\ pr'[p].seen = pr[p].seen
      BY <1>1, <1>5, <2>0, <2>2, Constants DEF DeviceToken, Set, Proc
    <3> QED
      BY <1>1, <2>0, <2>2, <3>1, Constants
         DEF At, Turn, Typed, Kin, Read, Holding, Shape, Fresh, Wrote, Listed, Working
  <2>3. CASE device[FlagOf[p]] # None /\ FlagOf[p] # "app"
    <3>1. /\ pr'[p] \in Proc /\ pr'[p].pc = "fence2" /\ pr'[p].kind = "reuse"
          /\ pr'[p].fence = pr[p].fence /\ pr'[p].cred = pr[p].cred
          /\ pr'[p].tok = device[FlagOf[p]] /\ pr'[p].seen = pr[p].seen
      BY <1>1, <1>5, <2>0, <2>3, Constants DEF DeviceToken, Set, Proc
    <3> QED
      BY <1>1, <2>0, <2>3, <3>1, Constants
         DEF At, Turn, Typed, Kin, Read, Holding, Shape, Fresh, Wrote, Listed, Working
  <2> QED BY <2>1, <2>2, <2>3
<1>6. ASSUME NEW t \in Tokens, StartLogout(p, t)
      PROVE  Turn(p)
  <2>1. CASE tokens[t].ver = None
    <3>1. pr'[p] = Done
      BY <1>1, <1>6, <2>1 DEF StartLogout, Set
    <3> QED BY <3>1, Ending
  <2>2. CASE tokens[t].ver # None
    <3>1. /\ pr'[p] \in Proc /\ pr'[p].pc \in {"load", "forget"} /\ pr'[p].kind = "logout"
          /\ pr'[p].fence = 0 /\ pr'[p].cred = 0 /\ pr'[p].tok = t
          /\ pr'[p].seen = NoPayload /\ p \in Logouts /\ t \in delivered
      BY <1>1, <1>6, <2>2, Constants DEF StartLogout, Set, Proc
    <3>2. p \notin Logins
      BY <3>1, Constants
    <3> QED
      BY <1>1, <3>1, <3>2, Constants
         DEF Turn, Typed, Kin, Read, Holding, Shape, Fresh, Wrote, Listed, Working
  <2> QED BY <2>1, <2>2
<1> QED BY <1>2, <1>3, <1>4, <1>5, <1>6

\* After a deletion, or instead of a reuse, a login goes on with a token of its own.
LEMMA FreshTurn ==
    ASSUME IInv, NEW p \in Logins, Fresh(p, pr[p]), pr[p].pc # "auth",
           pr'[p] = [pr[p] EXCEPT !.pc = "fence2", !.kind = "issue", !.tok = p]
    PROVE  Turn(p)
<1>1. pr[p] \in Proc
  BY DEF IInv, TypeOK, Procs
<1>2. /\ pr'[p] \in Proc /\ pr'[p].pc = "fence2" /\ pr'[p].kind = "issue"
      /\ pr'[p].fence = pr[p].fence /\ pr'[p].cred = pr[p].cred /\ pr'[p].tok = p
      /\ pr'[p].seen = pr[p].seen
  BY <1>1, Constants DEF Proc
<1> QED
  BY <1>1, <1>2, Constants DEF Turn, Typed, Kin, Read, Holding, Shape, Fresh, Wrote, Listed, Working

LEMMA DeletingTurn ==
    ASSUME IInv, NEW p \in Procs,
           LoadToken(p) \/ DeleteToken(p) \/ Unbind(p) \/ Unlist(p)
    PROVE  Turn(p)
<1>1. pr \in [Procs -> Proc] /\ pr[p] \in Proc /\ ProcSound(p) /\ Shape(p, pr[p])
      /\ tokens \in [Tokens -> Payload]
  BY DEF IInv, TypeOK, ProcSound
<1>2. ASSUME pr'[p] = AfterDelete(p), pr[p].pc \in {"unbind", "unlist"}
      PROVE  Turn(p)
  <2>1. CASE pr[p].kind = "replace"
    <3>1. p \in Logins /\ Fresh(p, pr[p]) /\ pr[p].pc # "auth"
      BY <1>1, <1>2, <2>1, Constants DEF Shape, Fresh
    <3> QED BY <3>1, <2>1, <1>2, FreshTurn DEF AfterDelete
  <2>2. CASE pr[p].kind # "replace"
    BY <1>2, <2>2, Ending DEF AfterDelete
  <2> QED BY <2>1, <2>2
<1>3. CASE LoadToken(p)
  <2>0. At(p, "load") /\ pr[p].tok \in Tokens /\ tokens[pr[p].tok] \in Payload
    BY <1>1, <1>3, Constants DEF LoadToken, At, Shape, Working, Proc
  <2>1. CASE tokens[pr[p].tok].ver = None
    <3>1. /\ pr'[p] \in Proc /\ pr'[p].pc = "unbind" /\ pr'[p].kind = pr[p].kind
          /\ pr'[p].fence = pr[p].fence /\ pr'[p].cred = pr[p].cred /\ pr'[p].tok = pr[p].tok
          /\ pr'[p].seen = NoPayload
      BY <1>1, <1>3, <2>0, <2>1, Constants DEF LoadToken, Set, Proc
    <3> QED
      BY <1>1, <2>0, <3>1, Constants
         DEF At, Turn, Typed, Kin, Read, Holding, Shape, Fresh, Wrote, Listed, Working, None
  <2>2. CASE tokens[pr[p].tok].ver # None /\ pr[p].kind = "takeback" /\ tokens[pr[p].tok].by = None
    <3>1. pr'[p] = Done
      BY <1>1, <1>3, <2>0, <2>2 DEF LoadToken, Set
    <3> QED BY <3>1, Ending
  <2>3. CASE tokens[pr[p].tok].ver # None /\ ~ (pr[p].kind = "takeback" /\ tokens[pr[p].tok].by = None)
    <3>1. /\ pr'[p] \in Proc /\ pr'[p].pc = "delete" /\ pr'[p].kind = pr[p].kind
          /\ pr'[p].fence = pr[p].fence /\ pr'[p].cred = pr[p].cred /\ pr'[p].tok = pr[p].tok
          /\ pr'[p].seen = tokens[pr[p].tok]
      BY <1>1, <1>3, <2>0, <2>3 DEF LoadToken, Set, Proc
    <3>2. (p \in Logins /\ pr[p].tok = p) => tokens[pr[p].tok].by = p
      <4>1. (p \in Logins /\ pr[p].tok = p) => pr[p].kind = "takeback"
        BY <1>1, <2>0, Constants DEF Shape, At, Working
      <4>2. p \in Logins => tokens[p].by \in {None, p}
        BY Constants DEF IInv, TokenSound
      <4> QED BY <4>1, <4>2, <2>3
    <3> QED
      BY <1>1, <2>0, <3>1, <3>2, Constants
         DEF At, Turn, Typed, Kin, Read, Holding, Shape, Fresh, Wrote, Listed, Working
  <2> QED BY <2>1, <2>2, <2>3
<1>4. CASE DeleteToken(p)
  <2>1. CASE pr'[p] = [pr[p] EXCEPT !.pc = "unbind"] /\ dead' = dead \cup {pr[p].tok}
    <3>1. /\ pr'[p] \in Proc /\ pr'[p].pc = "unbind" /\ pr'[p].kind = pr[p].kind
          /\ pr'[p].fence = pr[p].fence /\ pr'[p].cred = pr[p].cred /\ pr'[p].tok = pr[p].tok
          /\ pr'[p].seen = pr[p].seen
          /\ pr[p].pc \in {"delete", "forget"}
      BY <1>1, <1>4, <2>1 DEF DeleteToken, Proc
    <3> QED
      BY <1>1, <2>1, <3>1, Constants
         DEF Turn, Typed, Kin, Read, Holding, Shape, Fresh, Wrote, Listed, Working
  <2>2. CASE /\ pr[p].kind \in {"logout", "replace"} /\ pr[p].tries + 1 < MaxTries
             /\ pr'[p] = [pr[p] EXCEPT !.pc = "load", !.tries = @ + 1]
    <3>1. /\ pr'[p] \in Proc /\ pr'[p].pc = "load" /\ pr'[p].kind = pr[p].kind
          /\ pr'[p].fence = pr[p].fence /\ pr'[p].cred = pr[p].cred /\ pr'[p].tok = pr[p].tok
          /\ pr'[p].seen = pr[p].seen
          /\ pr[p].pc \in {"delete", "forget"}
      <4>1. pr[p].pc \in {"delete", "forget"}
        BY <1>4 DEF DeleteToken
      <4>2. pr[p].tries + 1 \in 0..(MaxTries - 1)
        BY <1>1, <2>2, Constants DEF Proc
      <4> QED BY <1>1, <2>2, <4>1, <4>2 DEF Proc
    <3> QED
      BY <1>1, <2>2, <3>1, Constants
         DEF Turn, Typed, Kin, Read, Holding, Shape, Fresh, Wrote, Listed, Working
  <2>3. CASE pr'[p] = Done
    BY <2>3, Ending
  <2> QED
    BY <1>1, <1>4, <2>1, <2>2, <2>3 DEF DeleteToken, Set, Goto
<1>5. CASE Unbind(p)
  <2>1. CASE pr[p].seen.ver = "v3"
    <3>1. /\ pr'[p] \in Proc /\ pr'[p].pc = "unlist" /\ pr'[p].kind = pr[p].kind
          /\ pr'[p].fence = pr[p].fence /\ pr'[p].cred = pr[p].cred /\ pr'[p].tok = pr[p].tok
          /\ pr'[p].seen = pr[p].seen
          /\ pr[p].pc = "unbind" /\ dead' = dead
      BY <1>1, <1>5, <2>1 DEF Unbind, Set, At, Proc
    <3>2. pr'[p].tok \in dead'
      BY <1>1, <2>1, <3>1 DEF ProcSound
    <3> QED
      BY <1>1, <3>1, <3>2, Constants
         DEF Turn, Typed, Kin, Read, Holding, Shape, Fresh, Wrote, Listed, Working
  <2>2. CASE pr[p].seen.ver # "v3"
    <3>1. pr'[p] = AfterDelete(p) /\ pr[p].pc = "unbind"
      BY <1>1, <1>5, <2>2 DEF Unbind, Set, At
    <3> QED BY <3>1, <1>2
  <2> QED BY <2>1, <2>2
<1>6. CASE Unlist(p)
  <2>1. pr'[p] = AfterDelete(p) /\ pr[p].pc = "unlist"
    BY <1>1, <1>6 DEF Unlist, Set, At
  <2> QED BY <2>1, <1>2
<1> QED BY <1>3, <1>4, <1>5, <1>6

\* The fields a lost race over a token leaves: another attempt, or none left.
RetriedBy(r, o) ==
    /\ o \in Proc /\ o.tries + 1 \in 0..(MaxTries - 1)
    /\ r = [o EXCEPT !.pc = "read", !.kind = "reuse", !.tries = o.tries + 1]

LEMMA RetriedFields ==
    ASSUME NEW r, NEW o, RetriedBy(r, o)
    PROVE  /\ r \in Proc /\ r.pc = "read" /\ r.kind = "reuse" /\ r.seen = o.seen
           /\ r.fence = o.fence /\ r.cred = o.cred /\ r.tok = o.tok
<1>1. PICK n \in 0..(MaxTries - 1) : n = o.tries + 1
  BY DEF RetriedBy
<1>2. o \in Proc /\ r = [o EXCEPT !.pc = "read", !.kind = "reuse", !.tries = n]
  BY <1>1 DEF RetriedBy
<1> QED BY <1>2, Zenon DEF Proc

GivenUpBy(r, o) == o \in Proc /\ r = [o EXCEPT !.pc = "unreserve", !.kind = "quit"]

LEMMA GivenUpFields ==
    ASSUME NEW r, NEW o, GivenUpBy(r, o)
    PROVE  /\ r \in Proc /\ r.pc = "unreserve" /\ r.kind = "quit" /\ r.seen = o.seen
           /\ r.fence = o.fence /\ r.cred = o.cred /\ r.tok = o.tok
  BY Zenon DEF Proc, GivenUpBy

LEMMA RetryTurn ==
    ASSUME IInv, NEW p \in Logins, pr[p].tok \notin {None, p}, pr[p].pc \notin {"auth", "done"},
           pr'[p] = Retry(p)
    PROVE  Turn(p)
<1>1. pr[p] \in Proc
  BY DEF IInv, TypeOK, Procs
<1>2. CASE pr[p].tries + 1 < MaxTries
  <2>1. /\ pr'[p] \in Proc /\ pr'[p].pc = "read" /\ pr'[p].kind = "reuse"
        /\ pr'[p].fence = pr[p].fence /\ pr'[p].cred = pr[p].cred /\ pr'[p].tok = pr[p].tok
        /\ pr'[p].seen = pr[p].seen
    <3>1. pr[p].tries + 1 \in 0..(MaxTries - 1)
      BY <1>1, <1>2, Constants DEF Proc
    <3>2. RetriedBy(pr'[p], pr[p])
      BY <1>1, <1>2, <3>1 DEF Retry, RetriedBy
    <3> QED BY <3>2, RetriedFields
  <2> QED
    BY <1>1, <2>1, Constants
       DEF Turn, Typed, Kin, Read, Holding, Shape, Fresh, Wrote, Listed, Working
<1>3. CASE ~ (pr[p].tries + 1 < MaxTries)
  <2>1. /\ pr'[p] \in Proc /\ pr'[p].pc = "unreserve" /\ pr'[p].kind = "quit"
        /\ pr'[p].fence = pr[p].fence /\ pr'[p].cred = pr[p].cred /\ pr'[p].tok = pr[p].tok
        /\ pr'[p].seen = pr[p].seen
    <3>1. GivenUpBy(pr'[p], pr[p])
      BY <1>1, <1>3 DEF Retry, GivenUpBy
    <3> QED BY <3>1, GivenUpFields
  <2> QED
    BY <1>1, <2>1, Constants
       DEF Turn, Typed, Kin, Read, Holding, Shape, Fresh, Wrote, Listed, Working
<1> QED BY <1>2, <1>3

LEMMA ReservationTurn ==
    ASSUME IInv, NEW p \in Procs, Unreserve(p) \/ RemoveReservation(p)
    PROVE  Turn(p)
<1>1. pr \in [Procs -> Proc] /\ pr[p] \in Proc /\ Shape(p, pr[p])
  BY DEF IInv, TypeOK, ProcSound
<1>2. /\ pr[p].pc \in {"unreserve", "zrem"} /\ p \in Logins /\ pr[p].tok \notin {None, p}
      /\ pr[p].kind \in {"issue", "reuse", "quit"} /\ dead' = dead
  BY <1>1, Constants DEF Unreserve, RemoveReservation, At, Shape, Working
<1>3. CASE pr'[p] = AfterReservation(p)
  <2>1. CASE pr[p].kind = "reuse"
    BY <1>2, <1>3, <2>1, RetryTurn DEF AfterReservation
  <2>2. CASE pr[p].kind = "issue"
    <3>1. Fresh(p, pr[p])
      BY <1>2 DEF Fresh
    <3> QED BY <1>2, <1>3, <2>2, <3>1, FreshTurn DEF AfterReservation, IssueInstead
  <2>3. CASE pr[p].kind = "quit"
    BY <1>3, <2>3, Ending DEF AfterReservation
  <2> QED BY <1>2, <2>1, <2>2, <2>3
<1>4. CASE pr'[p] = [pr[p] EXCEPT !.pc = "zrem"]
  <2>1. /\ pr'[p] \in Proc /\ pr'[p].pc = "zrem" /\ pr'[p].kind = pr[p].kind
        /\ pr'[p].fence = pr[p].fence /\ pr'[p].cred = pr[p].cred /\ pr'[p].tok = pr[p].tok
        /\ pr'[p].seen = pr[p].seen
    BY <1>1, <1>4 DEF Proc
  <2> QED
    BY <1>1, <1>2, <2>1, Constants
       DEF Turn, Typed, Kin, Read, Holding, Shape, Fresh, Wrote, Listed, Working
<1> QED
  BY <1>1, <1>3, <1>4 DEF Unreserve, RemoveReservation, Set, Goto

LEMMA ReadingTurn ==
    ASSUME IInv, NEW p \in Procs, CheckFence(p) \/ ReadToken(p)
    PROVE  Turn(p)
<1>1. pr \in [Procs -> Proc] /\ pr[p] \in Proc /\ Shape(p, pr[p]) /\ tokens \in [Tokens -> Payload]
  BY DEF IInv, TypeOK, ProcSound
<1>2. CASE CheckFence(p)
  <2>0. pr[p].pc = "fence2" /\ p \in Logins /\ dead' = dead
    BY <1>1, <1>2, Constants DEF CheckFence, At, Shape, Working
  <2>1. CASE pr'[p] = Done
    BY <2>1, Ending
  <2>2. CASE pr'[p] = [pr[p] EXCEPT !.pc = "read"] /\ pr[p].kind = "reuse"
    <3>1. /\ pr'[p] \in Proc /\ pr'[p].pc = "read" /\ pr'[p].kind = pr[p].kind
          /\ pr'[p].fence = pr[p].fence /\ pr'[p].cred = pr[p].cred /\ pr'[p].tok = pr[p].tok
          /\ pr'[p].seen = pr[p].seen
      BY <1>1, <2>2 DEF Proc
    <3> QED
      BY <1>1, <2>0, <2>2, <3>1, Constants
         DEF Turn, Typed, Kin, Read, Holding, Shape, Fresh, Wrote, Listed, Working
  <2>3. CASE pr'[p] = [pr[p] EXCEPT !.pc = "write"] /\ pr[p].kind # "reuse"
    <3>1. /\ pr'[p] \in Proc /\ pr'[p].pc = "write" /\ pr'[p].kind = pr[p].kind
          /\ pr'[p].fence = pr[p].fence /\ pr'[p].cred = pr[p].cred /\ pr'[p].tok = pr[p].tok
          /\ pr'[p].seen = pr[p].seen
      BY <1>1, <2>3 DEF Proc
    <3> QED
      BY <1>1, <2>0, <2>3, <3>1, Constants
         DEF Turn, Typed, Kin, Read, Holding, Shape, Fresh, Wrote, Listed, Working
  <2> QED BY <1>1, <1>2, <2>1, <2>2, <2>3 DEF CheckFence, Set
<1>3. CASE ReadToken(p)
  <2>0. /\ pr[p].pc = "read" /\ p \in Logins /\ dead' = dead /\ pr[p].kind = "reuse"
        /\ pr[p].tok \in Tokens /\ pr[p].tok # p /\ tokens[pr[p].tok] \in Payload
    BY <1>1, <1>3, Constants DEF ReadToken, At, Shape, Working, Proc
  <2>1. CASE pr'[p] = IssueInstead(p)
    <3>1. Fresh(p, pr[p])
      BY <2>0 DEF Fresh
    <3> QED BY <2>0, <2>1, <3>1, FreshTurn DEF IssueInstead
  <2>2. CASE /\ tokens[pr[p].tok].ver = "v3" /\ tokens[pr[p].tok].gen = pr[p].fence
             /\ pr'[p] = [pr[p] EXCEPT !.pc = "write", !.seen = tokens[pr[p].tok]]
    <3>1. /\ pr'[p] \in Proc /\ pr'[p].pc = "write" /\ pr'[p].kind = pr[p].kind
          /\ pr'[p].fence = pr[p].fence /\ pr'[p].cred = pr[p].cred /\ pr'[p].tok = pr[p].tok
          /\ pr'[p].seen = tokens[pr[p].tok]
      BY <1>1, <2>0, <2>2 DEF Proc
    <3> QED
      BY <1>1, <2>0, <2>2, <3>1, Constants
         DEF Turn, Typed, Kin, Read, Holding, Shape, Fresh, Wrote, Listed, Working
  <2>3. CASE /\ tokens[pr[p].tok].ver = "legacy"
             /\ pr'[p] = [pr[p] EXCEPT !.pc = "list", !.kind = "promote", !.seen = tokens[pr[p].tok]]
    <3>1. /\ pr'[p] \in Proc /\ pr'[p].pc = "list" /\ pr'[p].kind = "promote"
          /\ pr'[p].fence = pr[p].fence /\ pr'[p].cred = pr[p].cred /\ pr'[p].tok = pr[p].tok
          /\ pr'[p].seen = tokens[pr[p].tok]
      BY <1>1, <2>0, <2>3 DEF Proc
    <3>2. pr[p].tok = Legacy
      BY <2>0, <2>3 DEF IInv, TokenSound
    <3> QED
      BY <1>1, <2>0, <2>3, <3>1, <3>2, Constants
         DEF Turn, Typed, Kin, Read, Holding, Shape, Fresh, Wrote, Listed, Working
  <2>4. tokens[pr[p].tok].ver \in {None, "legacy", "v3"}
    BY <2>0 DEF Payload
  <2> QED
    BY <1>1, <1>3, <2>1, <2>2, <2>3, <2>4 DEF ReadToken, Set, None
<1> QED BY <1>2, <1>3

LEMMA WritingTurn ==
    ASSUME IInv, NEW p \in Procs, WriteToken(p) \/ AnswerLost(p)
    PROVE  Turn(p)
<1>1. pr \in [Procs -> Proc] /\ pr[p] \in Proc /\ Shape(p, pr[p]) /\ ProcSound(p)
  BY DEF IInv, TypeOK, ProcSound
<1>2. /\ pr[p].pc = "write" /\ p \in Logins /\ dead' = dead
      /\ pr[p].kind \in {"issue", "reuse", "promote"}
  BY <1>1, Constants DEF WriteToken, AnswerLost, At, Shape, Working
<1>3. CASE pr'[p] = Failed(p)
  BY <1>2, <1>3, FailedTurn
<1>4. CASE /\ pr'[p] = [pr[p] EXCEPT !.pc = IF pr[p].kind = "promote" THEN "bind" ELSE "list"]
           /\ pr[p].kind = "issue" \/ Replaces(p)
           /\ tokens' = [tokens EXCEPT ![pr[p].tok] = Written(p)]
  <2>1. CASE pr[p].kind = "promote"
    <3>1. /\ pr'[p] \in Proc /\ pr'[p].pc = "bind" /\ pr'[p].kind = pr[p].kind
          /\ pr'[p].fence = pr[p].fence /\ pr'[p].cred = pr[p].cred /\ pr'[p].tok = pr[p].tok
          /\ pr'[p].seen = pr[p].seen
      BY <1>1, <1>4, <2>1 DEF Proc
    <3>2. Holding(p)
      BY <1>1, <1>2, <1>4, <2>1, <3>1 DEF Holding, Wrote, Listed, Working, At
    <3>3. Typed(p) /\ Kin(p) /\ Read(p)
      BY <1>1, <1>2, <2>1, <3>1, Constants DEF Typed, Kin, Read, Shape, Fresh, Working
    <3> QED BY <3>2, <3>3 DEF Turn
  <2>2. CASE pr[p].kind # "promote"
    <3>1. /\ pr'[p] \in Proc /\ pr'[p].pc = "list" /\ pr'[p].kind = pr[p].kind
          /\ pr'[p].fence = pr[p].fence /\ pr'[p].cred = pr[p].cred /\ pr'[p].tok = pr[p].tok
          /\ pr'[p].seen = pr[p].seen
      BY <1>1, <1>4, <2>2 DEF Proc
    <3>2. Holding(p)
      BY <1>1, <1>2, <1>4, <2>2, <3>1 DEF Holding, Wrote, Listed, Working, At
    <3>3. Typed(p) /\ Kin(p) /\ Read(p)
      BY <1>1, <1>2, <2>2, <3>1, Constants DEF Typed, Kin, Read, Shape, Fresh, Working
    <3> QED BY <3>2, <3>3 DEF Turn
  <2> QED BY <2>1, <2>2
<1>5. CASE /\ pr[p].kind = "promote"
           /\ \/ pr'[p] = [pr[p] EXCEPT !.pc = "unreserve", !.kind = "issue"]
              \/ pr'[p] = [pr[p] EXCEPT !.pc = "unreserve", !.kind = "reuse"]
  <2>1. /\ pr'[p] \in Proc /\ pr'[p].pc = "unreserve" /\ pr'[p].kind \in {"issue", "reuse"}
        /\ pr'[p].fence = pr[p].fence /\ pr'[p].cred = pr[p].cred /\ pr'[p].tok = pr[p].tok
        /\ pr'[p].seen = pr[p].seen
    BY <1>1, <1>5 DEF Proc
  <2> QED
    BY <1>1, <1>2, <1>5, <2>1, Constants
       DEF Turn, Typed, Kin, Read, Holding, Shape, Fresh, Wrote, Listed, Working
<1>6. CASE pr[p].kind = "reuse" /\ pr'[p] = Retry(p)
  <2>1. pr[p].tok \notin {None, p}
    BY <1>1, <1>2, <1>6, Constants DEF Shape, Working
  <2> QED BY <1>2, <1>6, <2>1, RetryTurn
<1>7. CASE pr[p].kind = "reuse" /\ pr'[p] = IssueInstead(p)
  <2>1. Fresh(p, pr[p])
    BY <1>2 DEF Fresh
  <2> QED BY <1>2, <1>7, <2>1, FreshTurn DEF IssueInstead
<1>8. CASE AnswerLost(p)
  BY <1>1, <1>8, <1>3 DEF AnswerLost, Set
<1>9. CASE WriteToken(p)
  <2>1. CASE pr[p].kind = "issue" \/ Replaces(p)
    BY <1>1, <1>9, <2>1, <1>4 DEF WriteToken, Set, Goto
  <2>2. CASE ~ (pr[p].kind = "issue" \/ Replaces(p))
    BY <1>1, <1>2, <1>9, <2>2, <1>5, <1>6, <1>7 DEF WriteToken, Set
  <2> QED BY <2>1, <2>2
<1> QED BY <1>8, <1>9

LEMMA WorkingTurn ==
    ASSUME IInv, NEW p \in Procs,
           \/ ListSession(p) \/ BindDevice(p) \/ CheckAgain(p) \/ Deliver(p)
           \/ CallFails(p) \/ Crash(p)
    PROVE  Turn(p)
<1>1. pr \in [Procs -> Proc] /\ pr[p] \in Proc /\ Shape(p, pr[p]) /\ ProcSound(p)
  BY DEF IInv, TypeOK, ProcSound
<1>2. CASE pr'[p] = Failed(p) /\ pr[p].pc \notin {"idle", "done"} /\ dead' = dead
  BY <1>2, FailedTurn
<1>3. CASE pr'[p] = Done
  BY <1>3, Ending
<1>4. CASE ListSession(p) /\ HasRoom(p)
  <2>0. /\ pr[p].pc = "list" /\ p \in Logins /\ dead' = dead /\ tokens' = tokens
        /\ pr[p].kind \in {"issue", "reuse", "promote"}
        /\ pr[p].tok \in index'[pr[p].fence]
    <3>1. index \in [Gens -> SUBSET Tokens] /\ pr[p].fence \in Gens
      BY <1>1 DEF IInv, TypeOK, Proc
    <3> QED
      BY <1>1, <1>4, <3>1, Constants DEF ListSession, At, Shape, Working
  <2>1. CASE pr[p].kind = "promote"
    <3>1. /\ pr'[p] \in Proc /\ pr'[p].pc = "write" /\ pr'[p].kind = pr[p].kind
          /\ pr'[p].fence = pr[p].fence /\ pr'[p].cred = pr[p].cred /\ pr'[p].tok = pr[p].tok
          /\ pr'[p].seen = pr[p].seen
      BY <1>1, <1>4, <2>1 DEF ListSession, Goto, Set, Proc
    <3>2. Holding(p)
      BY <1>1, <2>0, <2>1, <3>1 DEF Holding, Wrote, Listed, Working, At
    <3>3. Typed(p) /\ Kin(p)
      BY <1>1, <2>0, <2>1, <3>1, Constants DEF Typed, Kin, Shape, Fresh, Working
    <3>4. Read(p)
      BY <1>1, <2>0, <2>1, <3>1 DEF Read, ProcSound
    <3> QED BY <3>2, <3>3, <3>4 DEF Turn
  <2>2. CASE pr[p].kind # "promote"
    <3>1. /\ pr'[p] \in Proc /\ pr'[p].pc = "bind" /\ pr'[p].kind = pr[p].kind
          /\ pr'[p].fence = pr[p].fence /\ pr'[p].cred = pr[p].cred /\ pr'[p].tok = pr[p].tok
          /\ pr'[p].seen = pr[p].seen
      BY <1>1, <1>4, <2>2 DEF ListSession, Goto, Set, Proc
    <3>2. Holding(p)
      BY <1>1, <2>0, <2>2, <3>1 DEF Holding, Wrote, Listed, Working, At
    <3>3. Typed(p) /\ Kin(p)
      BY <1>1, <2>0, <2>2, <3>1, Constants DEF Typed, Kin, Shape, Fresh, Working
    <3>4. Read(p)
      BY <1>1, <2>0, <2>2, <3>1 DEF Read, ProcSound
    <3> QED BY <3>2, <3>3, <3>4 DEF Turn
  <2> QED BY <2>1, <2>2
<1>5. CASE /\ \/ pr[p].pc = "bind" /\ pr'[p] = [pr[p] EXCEPT !.pc = "extend"]
              \/ pr[p].pc = "extend" /\ pr'[p] = [pr[p] EXCEPT !.pc = "check"]
              \/ pr[p].pc = "check" /\ pr'[p] = [pr[p] EXCEPT !.pc = "im"]
           /\ UNCHANGED <<tokens, dead>>
  <2>1. /\ pr'[p] \in Proc /\ pr'[p].pc \in {"extend", "check", "im"} /\ pr'[p].kind = pr[p].kind
        /\ pr'[p].fence = pr[p].fence /\ pr'[p].cred = pr[p].cred /\ pr'[p].tok = pr[p].tok
        /\ pr'[p].seen = pr[p].seen
    BY <1>1, <1>5 DEF Proc
  <2>2. Holding(p)
    BY <1>1, <1>5, <2>1 DEF Holding, Wrote, Listed, Working, At
  <2>3. Typed(p) /\ Kin(p)
    BY <1>1, <1>5, <2>1, Constants DEF Typed, Kin, Shape, Fresh, Working
  <2>4. Read(p)
    BY <1>1, <1>5, <2>1 DEF Read, ProcSound
  <2> QED BY <2>2, <2>3, <2>4 DEF Turn
<1>6. CASE ListSession(p) /\ ~ HasRoom(p)
  BY <1>1, <1>6, <1>2 DEF ListSession, Set, At
<1>7. CASE BindDevice(p)
  BY <1>1, <1>7, <1>5 DEF BindDevice, Goto, Set, At
<1>8. CASE CheckAgain(p)
  BY <1>1, <1>8, <1>5, <1>2 DEF CheckAgain, Goto, Set, At, redis
<1>9. CASE Deliver(p) \/ Crash(p)
  BY <1>1, <1>9, <1>3 DEF Deliver, Crash, Set
<1>10. CASE CallFails(p)
  BY <1>1, <1>10, <1>2 DEF CallFails, Set
<1> QED BY <1>4, <1>6, <1>7, <1>8, <1>9, <1>10

LEMMA StepTurn ==
    ASSUME IInv, NEW p \in Procs, ProcStep(p)
    PROVE  Turn(p)
BY StartingTurn, DeletingTurn, ReservationTurn, ReadingTurn, WritingTurn, WorkingTurn DEF ProcStep

-----------------------------------------------------------------------------
(* What a step leaves true of everybody. *)

CutStays ==
    \A g \in 0..gens, c \in 0..Cardinality(Requests) :
        CutFrom(g, c) => ((g = generation'.id /\ g # 0) => \A v \in Cutting' : c >= v)

KeptStays ==
    \A g \in 0..gens, t \in Tokens :
        Kept(g, t) => \/ g = 0 \/ g # generation'.id
                      \/ t \in index'[g] \/ <<g, t>> \in unlisted' \/ t \in dead'

\* What may happen to the token of a process in the steps of others.
TokenStays(t) ==
    \/ tokens'[t] = tokens[t] /\ (t \in dead' => t \in dead)
    \/ tokens'[t] = NoPayload /\ t \in dead'
    \/ /\ tokens[t].ver # None /\ (t \in dead' => t \in dead)
       /\ tokens'[t].ver = tokens[t].ver /\ tokens'[t].gen = tokens[t].gen
       /\ tokens'[t].cred = tokens[t].cred /\ tokens'[t].by = None
    \/ tokens[t].ver = "legacy" /\ (t \in dead' => t \in dead)

LEMMA Types ==
    ASSUME IInv
    PROVE  /\ gens \in 0..MaxGens /\ generation.id \in 0..gens /\ Gens = 0..MaxGens
           /\ pwd \in 0..Cardinality(Requests) /\ Cutting \subseteq 1..pwd
           /\ pr \in [Procs -> Proc]
           /\ \A p \in Procs : /\ pr[p] \in Proc /\ pr[p].fence \in 0..gens
                               /\ pr[p].seen \in Payload /\ pr[p].seen.gen \in 0..gens
                               /\ pr[p].cred \in 0..Cardinality(Requests)
                               /\ pr[p].tok \in Tokens \cup {None}
           /\ tokens \in [Tokens -> Payload]
           /\ \A t \in Tokens : /\ tokens[t] \in Payload /\ tokens[t].gen \in 0..gens
                                /\ tokens[t].cred \in 0..Cardinality(Requests)
           /\ index \in [Gens -> SUBSET Tokens] /\ device \in [Flags -> Tokens \cup {None}]
           /\ dead \subseteq Tokens /\ delivered \subseteq Tokens
<1>1. TypeOK
  BY DEF IInv
<1>2. gens \in 0..MaxGens /\ generation.id \in 0..gens /\ Gens = 0..MaxGens
      /\ pwd \in 0..Cardinality(Requests)
  BY <1>1 DEF TypeOK, Gens
<1>3. Cutting \subseteq 1..pwd
  <2> SUFFICES ASSUME NEW v \in Versions, Past(v)
               PROVE  v \in 1..pwd
    BY DEF Cutting
  <2>1. v \in 1..Cardinality(Requests)
    BY DEF Versions
  <2>2. CASE intent[v].status = "applied"
    BY <1>1, <1>2, <2>1, <2>2, Constants DEF TypeOK, None
  <2>3. CASE generation.last >= v
    <3>1. generation.last \in 0..pwd
      BY <1>1 DEF TypeOK
    <3> QED BY <3>1, <1>2, <2>1, <2>3, Constants
  <2>4. CASE \E x \in Execs : ex[x].v = v /\ ex[x].pc \in {"deny", "drop", "mark"}
    <3>1. \A x \in Execs : ex[x].v \in 0..pwd
      BY <1>1 DEF TypeOK
    <3> QED BY <3>1, <1>2, <2>1, <2>4, Constants
  <2> QED BY <2>2, <2>3, <2>4 DEF Past
<1>4. /\ pr \in [Procs -> Proc]
      /\ \A p \in Procs : /\ pr[p] \in Proc /\ pr[p].fence \in 0..gens
                          /\ pr[p].seen \in Payload /\ pr[p].seen.gen \in 0..gens
                          /\ pr[p].cred \in 0..Cardinality(Requests)
                          /\ pr[p].tok \in Tokens \cup {None}
  <2>1. \A p \in Procs : pr[p] \in Proc /\ pr[p].fence <= gens /\ pr[p].seen.gen <= gens
    BY <1>1 DEF TypeOK
  <2>2. \A p \in Procs : pr[p].seen \in Payload /\ pr[p].fence \in Gens
                         /\ pr[p].cred \in 0..Cardinality(Requests)
                         /\ pr[p].tok \in Tokens \cup {None}
    BY <2>1 DEF Proc
  <2>3. \A p \in Procs : pr[p].seen.gen \in Gens
    BY <2>2 DEF Payload
  <2> QED BY <1>1, <1>2, <2>1, <2>2, <2>3, Constants DEF TypeOK
<1>5. /\ tokens \in [Tokens -> Payload]
      /\ \A t \in Tokens : /\ tokens[t] \in Payload /\ tokens[t].gen \in 0..gens
                           /\ tokens[t].cred \in 0..Cardinality(Requests)
  <2>1. \A t \in Tokens : tokens[t] \in Payload /\ tokens[t].gen <= gens
    BY <1>1 DEF TypeOK
  <2>2. \A t \in Tokens : tokens[t].gen \in Gens /\ tokens[t].cred \in 0..Cardinality(Requests)
    BY <2>1 DEF Payload
  <2> QED BY <1>1, <1>2, <2>1, <2>2, Constants DEF TypeOK
<1>6. /\ index \in [Gens -> SUBSET Tokens] /\ device \in [Flags -> Tokens \cup {None}]
      /\ dead \subseteq Tokens /\ delivered \subseteq Tokens
  BY <1>1 DEF TypeOK
<1> QED BY <1>2, <1>3, <1>4, <1>5, <1>6

LEMMA MovesCut ==
    ASSUME IInv, NEW p \in Procs, Moves(p)
    PROVE  CutStays
<1>1. CASE UNCHANGED generation
  <2>1. Cutting' = Cutting
    BY <1>1 DEF Cutting, Past, Moves
  <2> QED BY <1>1, <2>1 DEF CutStays, CutFrom
<1>2. CASE generation' = [NoGen EXCEPT !.id = gens + 1]
  <2>1. generation'.id = gens + 1
    BY <1>2 DEF NoGen
  <2> QED BY <2>1, Types, Constants DEF CutStays
<1> QED BY <1>1, <1>2 DEF Moves, GenerationMove

LEMMA MovesKept ==
    ASSUME IInv, NEW p \in Procs, Moves(p)
    PROVE  KeptStays
<1>1. dead \subseteq dead'
  BY DEF Moves, TokensMove
<1>2. ASSUME NEW g \in 0..gens, NEW t \in Tokens, Kept(g, t), g # 0, g = generation'.id
      PROVE  t \in index'[g] \/ <<g, t>> \in unlisted' \/ t \in dead'
  <2>0. g \in Gens
    BY Types, Constants
  <2>1. generation' = generation
    <3>1. SUFFICES ASSUME generation' = [NoGen EXCEPT !.id = gens + 1]
                   PROVE  FALSE
      BY DEF Moves, GenerationMove
    <3>2. generation'.id = gens + 1
      BY <3>1 DEF NoGen
    <3> QED BY <1>2, <3>2, Types, Constants
  <2>2. t \in index[g] \/ <<g, t>> \in unlisted \/ t \in dead
    BY <1>2, <2>1 DEF Kept
  <2>3. CASE UNCHANGED <<index, unlisted>>
    BY <1>1, <2>2, <2>3
  <2>4. index \in [Gens -> SUBSET Tokens] /\ pr[p].fence \in Gens /\ pr[p].seen.gen \in Gens
    BY Types, Constants
  <2>5. CASE At(p, "list") /\ index' = [index EXCEPT ![pr[p].fence] = @ \cup {pr[p].tok}]
             /\ unlisted' = unlisted \ {<<pr[p].fence, pr[p].tok>>}
    <3>1. CASE <<g, t>> = <<pr[p].fence, pr[p].tok>>
      BY <2>0, <2>4, <2>5, <3>1
    <3>2. CASE <<g, t>> # <<pr[p].fence, pr[p].tok>>
      BY <1>1, <2>0, <2>2, <2>4, <2>5, <3>2
    <3> QED BY <3>1, <3>2
  <2>6. CASE At(p, "zrem") /\ index' = [index EXCEPT ![pr[p].fence] = @ \ {pr[p].tok}]
             /\ unlisted' = unlisted \cup {<<pr[p].fence, pr[p].tok>>}
    BY <1>1, <2>0, <2>2, <2>4, <2>6
  <2>7. CASE At(p, "unlist") /\ index' = [index EXCEPT ![pr[p].seen.gen] = @ \ {pr[p].tok}]
             /\ unlisted' = unlisted
    <3>1. pr[p].tok \in dead
      BY <2>7 DEF IInv, ProcSound, At
    <3> QED BY <1>1, <2>0, <2>2, <2>4, <2>7, <3>1
  <2> QED BY <2>3, <2>5, <2>6, <2>7 DEF Moves, IndexMove
<1> QED BY <1>2 DEF KeptStays

\* Only the token of the process itself changes; an issue writes a token of its own.
LEMMA MovesTokens ==
    ASSUME IInv, NEW p \in Procs, Moves(p)
    PROVE  /\ \A t \in Tokens : t # pr[p].tok => tokens'[t] = tokens[t] /\ (t \in dead' => t \in dead)
           /\ dead \subseteq dead'
           /\ \A t \in Tokens : TokenStays(t) \/ (t = p /\ p \in Logins /\ Fresh(p, pr[p]))
<1>1. dead \subseteq dead'
  BY DEF Moves, TokensMove
<1>2. tokens \in [Tokens -> Payload]
  BY Types
<1>3. ASSUME NEW t \in Tokens, t # pr[p].tok
      PROVE  tokens'[t] = tokens[t] /\ (t \in dead' => t \in dead)
  BY <1>2, <1>3 DEF Moves, TokensMove
<1>4. ASSUME NEW t \in Tokens, t = pr[p].tok
      PROVE  TokenStays(t) \/ (t = p /\ p \in Logins /\ Fresh(p, pr[p]))
  <2>1. CASE UNCHANGED <<tokens, dead>>
    BY <2>1 DEF TokenStays
  <2>2. CASE tokens' = [tokens EXCEPT ![t] = NoPayload] /\ dead' = dead \cup {t}
    BY <1>2, <2>2 DEF TokenStays
  <2>3. CASE /\ At(p, "write") /\ (pr[p].kind = "issue" \/ Replaces(p))
             /\ tokens' = [tokens EXCEPT ![t] = Written(p)] /\ dead' = dead
    <3>1. Shape(p, pr[p]) /\ ProcSound(p)
      BY DEF IInv, ProcSound
    <3>2. p \in Logins /\ pr[p].kind \in {"issue", "reuse", "promote"}
      BY <2>3, <3>1, Constants DEF At, Shape, Working
    <3>3. CASE pr[p].kind = "issue"
      BY <1>4, <2>3, <3>1, <3>2, <3>3, Constants DEF At, Shape, Working, Fresh
    <3>4. CASE pr[p].kind = "reuse"
      <4>1. tokens[t] = pr[p].seen /\ pr[p].seen.ver = "v3"
        BY <1>4, <2>3, <3>1, <3>4 DEF Replaces, ProcSound, At
      <4>2. tokens'[t] = Written(p)
        BY <1>2, <2>3
      <4> QED BY <2>3, <3>2, <3>4, <4>1, <4>2, WrittenPayload DEF TokenStays, None, IInv
    <3>5. CASE pr[p].kind = "promote"
      <4>1. tokens[t] = pr[p].seen /\ pr[p].seen.ver = "legacy"
        BY <1>4, <2>3, <3>1, <3>5 DEF Replaces, ProcSound, At
      <4> QED BY <2>3, <4>1 DEF TokenStays
    <3> QED BY <3>2, <3>3, <3>4, <3>5
  <2> QED BY <1>4, <2>1, <2>2, <2>3 DEF Moves, TokensMove
<1>5. ASSUME NEW t \in Tokens, t # pr[p].tok
      PROVE  TokenStays(t)
  BY <1>3, <1>5 DEF TokenStays
<1> QED BY <1>1, <1>3, <1>4, <1>5

\* A process that does nothing keeps what it knows.
LEMMA StillSound ==
    ASSUME IInv, NEW q \in Procs, pr'[q] = pr[q], CutStays, KeptStays, dead \subseteq dead',
           pr[q].tok \in Tokens => TokenStays(pr[q].tok)
    PROVE  ProcSound(q)'
<1> DEFINE r == pr[q]
<1>1. ProcSound(q) /\ Shape(q, r)
  BY DEF IInv, ProcSound
<1>2. /\ r.fence \in 0..gens /\ r.seen.gen \in 0..gens /\ r.cred \in 0..Cardinality(Requests)
      /\ r.seen.cred \in 0..Cardinality(Requests) /\ r.tok \in Tokens \cup {None}
  BY Types DEF Payload
<1>3. r.pc # "auth" => ((r.fence = generation'.id /\ r.fence # 0) => \A v \in Cutting' : r.cred >= v)
  BY <1>1, <1>2 DEF ProcSound, CutStays
<1>4. r.seen.ver = "v3" =>
          ((r.seen.gen = generation'.id /\ r.seen.gen # 0) => \A v \in Cutting' : r.seen.cred >= v)
  BY <1>1, <1>2 DEF ProcSound, CutStays
<1>5. (Wrote(r) \/ Listed(r)) => r.tok \in Tokens
  BY <1>1, <1>2, Constants DEF Wrote, Listed, Shape, Working
<1>6. Wrote(r) => \/ r.tok \in dead'
                  \/ tokens'[r.tok].ver = "v3" /\ tokens'[r.tok].gen = r.fence
  <2>1. SUFFICES ASSUME Wrote(r), r.tok \notin dead
                 PROVE  \/ r.tok \in dead'
                        \/ tokens'[r.tok].ver = "v3" /\ tokens'[r.tok].gen = r.fence
    OBVIOUS
  <2>2. tokens[r.tok].ver = "v3" /\ tokens[r.tok].gen = r.fence
    BY <1>1, <2>1 DEF ProcSound
  <2>3. TokenStays(r.tok)
    BY <1>5, <2>1
  <2> QED BY <2>2, <2>3 DEF TokenStays
<1>7. (Wrote(r) /\ r.kind = "reuse" /\ r.tok \in Logins) => tokens'[r.tok].by = None
  <2>1. SUFFICES ASSUME Wrote(r), r.kind = "reuse", r.tok \in Logins
                 PROVE  tokens'[r.tok].by = None
    OBVIOUS
  <2>2. tokens[r.tok].by = None
    BY <1>1, <2>1 DEF ProcSound
  <2>3. TokenStays(r.tok)
    BY <1>5, <2>1
  <2>4. tokens[r.tok].ver # "legacy"
    BY <2>1, Constants DEF IInv, TokenSound
  <2> QED BY <2>2, <2>3, <2>4, Constants DEF TokenStays
<1>8. Listed(r) =>
          \/ r.fence = 0 \/ r.fence # generation'.id
          \/ r.tok \in index'[r.fence] \/ <<r.fence, r.tok>> \in unlisted' \/ r.tok \in dead'
  BY <1>1, <1>2, <1>5 DEF ProcSound, KeptStays
<1>9. (r.pc = "unbind" /\ r.seen.ver = "v3" => r.tok \in dead') /\ (r.pc = "unlist" => r.tok \in dead')
  BY <1>1 DEF ProcSound
<1> QED
  BY <1>1, <1>3, <1>4, <1>6, <1>7, <1>8, <1>9 DEF ProcSound, CutFrom, Kept

LEMMA MovesOther ==
    ASSUME IInv, NEW p \in Procs, Moves(p), NEW q \in Procs, q # p
    PROVE  ProcSound(q)'
<1>1. pr'[q] = pr[q]
  BY Types DEF Moves
<1>2. pr[q].tok \in Tokens => TokenStays(pr[q].tok)
  <2>1. SUFFICES ASSUME pr[q].tok \in Tokens, pr[q].tok = p, p \in Logins, Fresh(p, pr[p])
                 PROVE  FALSE
    BY MovesTokens
  <2>2. OwnSound(p)
    BY <2>1 DEF IInv
  <2> QED BY <2>1, <2>2 DEF OwnSound
<1> QED BY <1>1, <1>2, MovesCut, MovesKept, MovesTokens, StillSound

\* The process itself.
LEMMA MovesSelf ==
    ASSUME IInv, NEW p \in Procs, Moves(p), Turn(p)
    PROVE  ProcSound(p)'
<1> DEFINE r == pr[p]
           s == pr'[p]
<1>1. ProcSound(p) /\ Shape(p, r) /\ Shape(p, s)
  BY DEF IInv, ProcSound, Turn, Typed
<1>2. /\ r.fence \in 0..gens /\ r.seen.gen \in 0..gens /\ r.cred \in 0..Cardinality(Requests)
      /\ r.seen.cred \in 0..Cardinality(Requests) /\ r.tok \in Tokens \cup {None}
      /\ tokens \in [Tokens -> Payload]
  BY Types DEF Payload
<1>3. (s.pc # "auth") => ((s.fence = generation'.id /\ s.fence # 0) => \A v \in Cutting' : s.cred >= v)
  <2>1. CASE s.fence = 0
    BY <2>1
  <2>2. CASE s.fence = r.fence /\ r.pc # "auth" /\ s.cred = r.cred
    BY <1>1, <1>2, <2>2, MovesCut DEF ProcSound, CutStays
  <2>3. CASE s.fence = r.fence /\ s.cred = pwd
    <3>1. CutFrom(r.fence, pwd) /\ pwd \in 0..Cardinality(Requests)
      BY Types DEF CutFrom
    <3> QED BY <1>2, <2>3, <3>1, MovesCut DEF CutStays
  <2> QED BY <2>1, <2>2, <2>3 DEF Turn, Kin
<1>4. s.seen.ver = "v3" =>
          ((s.seen.gen = generation'.id /\ s.seen.gen # 0) => \A v \in Cutting' : s.seen.cred >= v)
  <2>1. CASE s.seen = r.seen
    BY <1>1, <1>2, <2>1, MovesCut DEF ProcSound, CutStays
  <2>2. CASE s.seen = NoPayload
    BY <2>2, Constants DEF None
  <2>3. CASE r.tok \in Tokens /\ s.seen = tokens[r.tok]
    <3>1. /\ tokens[r.tok].gen \in 0..gens /\ tokens[r.tok].cred \in 0..Cardinality(Requests)
          /\ TokenSound(r.tok)
      BY <2>3, Types DEF IInv
    <3> QED BY <2>3, <3>1, MovesCut DEF TokenSound, CutStays
  <2>4. CASE p \in Logins /\ r.pc # "auth" /\ s.seen = Owned(p)
    <3>1. s.seen.gen = r.fence /\ s.seen.cred = r.cred
      BY <2>4, OwnedPayload DEF IInv
    <3>2. CutFrom(r.fence, r.cred)
      BY <1>1, <2>4 DEF ProcSound
    <3> QED BY <1>2, <3>1, <3>2, MovesCut DEF CutStays
  <2> QED BY <2>1, <2>2, <2>3, <2>4 DEF Turn, Read
<1>5. Wrote(s) => \/ s.tok \in dead'
                  \/ tokens'[s.tok].ver = "v3" /\ tokens'[s.tok].gen = s.fence
  <2>1. SUFFICES ASSUME Wrote(s), s.tok \notin dead'
                 PROVE  tokens'[s.tok].ver = "v3" /\ tokens'[s.tok].gen = s.fence
    OBVIOUS
  <2>2. s.tok = r.tok /\ s.fence = r.fence /\ s.kind = r.kind
    BY <2>1 DEF Turn, Holding
  <2>3. CASE Wrote(r) /\ UNCHANGED <<tokens, dead>>
    BY <1>1, <2>1, <2>2, <2>3 DEF ProcSound
  <2>4. CASE /\ At(p, "write") /\ (r.kind = "issue" \/ Replaces(p))
             /\ tokens' = [tokens EXCEPT ![r.tok] = Written(p)] /\ dead' = dead
    <3>1. p \in Logins /\ r.tok \in Tokens /\ r.kind \in {"issue", "reuse", "promote"}
      BY <1>1, <1>2, <2>4, Constants DEF At, Shape, Working
    <3>2. tokens'[s.tok] = Written(p)
      BY <1>2, <2>2, <2>4, <3>1
    <3>3. CASE r.kind = "reuse"
      <4>1. r.seen.ver = "v3" /\ r.seen.gen = r.fence
        BY <1>1, <2>4, <3>3 DEF ProcSound, At
      <4> QED BY <2>2, <3>1, <3>2, <3>3, <4>1, WrittenPayload DEF IInv
    <3>4. CASE r.kind # "reuse"
      BY <2>2, <3>1, <3>2, <3>4, WrittenPayload, OwnedPayload DEF IInv
    <3> QED BY <3>3, <3>4
  <2> QED BY <2>1, <2>3, <2>4 DEF Turn, Holding
<1>6. (Wrote(s) /\ s.kind = "reuse" /\ s.tok \in Logins) => tokens'[s.tok].by = None
  <2>1. SUFFICES ASSUME Wrote(s), s.kind = "reuse", s.tok \in Logins
                 PROVE  tokens'[s.tok].by = None
    OBVIOUS
  <2>2. s.tok = r.tok /\ s.kind = r.kind
    BY <2>1 DEF Turn, Holding
  <2>3. CASE Wrote(r) /\ UNCHANGED <<tokens, dead>>
    BY <1>1, <2>1, <2>2, <2>3 DEF ProcSound
  <2>4. CASE tokens' = [tokens EXCEPT ![r.tok] = Written(p)] /\ At(p, "write")
    <3>1. p \in Logins /\ r.tok \in Tokens
      BY <1>1, <1>2, <2>1, <2>2, <2>4, Constants DEF Shape, Working, At
    <3>2. tokens'[s.tok] = Written(p)
      BY <1>2, <2>2, <2>4, <3>1
    <3> QED BY <2>1, <2>2, <3>1, <3>2, WrittenPayload DEF IInv
  <2> QED BY <2>1, <2>3, <2>4 DEF Turn, Holding
<1>7. Listed(s) =>
          \/ s.fence = 0 \/ s.fence # generation'.id
          \/ s.tok \in index'[s.fence] \/ <<s.fence, s.tok>> \in unlisted' \/ s.tok \in dead'
  <2>1. SUFFICES ASSUME Listed(s), s.tok \notin index'[s.fence]
                 PROVE  \/ s.fence = 0 \/ s.fence # generation'.id
                        \/ <<s.fence, s.tok>> \in unlisted' \/ s.tok \in dead'
    OBVIOUS
  <2>2. s.tok = r.tok /\ s.fence = r.fence /\ Listed(r)
    BY <2>1 DEF Turn, Holding
  <2>3. r.tok \in Tokens /\ Kept(r.fence, r.tok)
    BY <1>1, <1>2, <2>2, Constants DEF ProcSound, Listed, Shape, Working
  <2> QED BY <1>2, <2>1, <2>2, <2>3, MovesKept DEF KeptStays
<1>8. /\ (s.pc = "write" /\ s.kind = "reuse") => s.seen.ver = "v3" /\ s.seen.gen = s.fence
      /\ (s.pc \in {"list", "write"} /\ s.kind = "promote") => s.seen.ver = "legacy"
      /\ (p \in Logins /\ s.pc = "delete" /\ s.tok = p) => s.seen.by = p
  BY DEF Turn, Read
<1>9. (s.pc = "unbind" /\ s.seen.ver = "v3" => s.tok \in dead') /\ (s.pc = "unlist" => s.tok \in dead')
  BY DEF Turn, Holding
<1> QED
  BY <1>1, <1>3, <1>4, <1>5, <1>6, <1>7, <1>8, <1>9 DEF ProcSound, CutFrom, Kept

LEMMA MovesTokenSound ==
    ASSUME IInv, NEW p \in Procs, Moves(p), NEW t \in Tokens
    PROVE  TokenSound(t)'
<1> DEFINE r == pr[p]
<1>1. ProcSound(p) /\ Shape(p, r) /\ TokenSound(t)
  BY DEF IInv, ProcSound
<1>2. /\ tokens \in [Tokens -> Payload] /\ tokens[t].gen \in 0..gens
      /\ tokens[t].cred \in 0..Cardinality(Requests)
      /\ r.fence \in 0..gens /\ r.cred \in 0..Cardinality(Requests)
      /\ CutStays /\ KeptStays /\ dead \subseteq dead'
  BY Types, MovesCut, MovesKept, MovesTokens
<1> DEFINE KeptNow(g) == \/ g = 0 \/ g # generation'.id
                         \/ t \in index'[g] \/ <<g, t>> \in unlisted' \/ t \in dead'
           CutNow(g, c) == (g = generation'.id /\ g # 0) => \A v \in Cutting' : c >= v
<1>3. tokens[t].ver = "v3" => CutNow(tokens[t].gen, tokens[t].cred)
  BY <1>1, <1>2 DEF TokenSound, CutStays
<1>4. (t \in delivered /\ tokens[t].ver = "v3") => KeptNow(tokens[t].gen)
  BY <1>1, <1>2 DEF TokenSound, KeptStays
<1>5. (t \in delivered' /\ tokens[t].ver = "v3") => KeptNow(tokens[t].gen)
  <2>1. SUFFICES ASSUME t \notin delivered, At(p, "im"), t = r.tok, tokens[t].ver = "v3"
                 PROVE  KeptNow(tokens[t].gen)
    BY <1>4 DEF Moves, DeliveredMove
  <2>2. Wrote(r) /\ Listed(r)
    BY <2>1 DEF Wrote, Listed, Working, At
  <2>3. CASE t \in dead
    BY <1>2, <2>3
  <2>4. CASE tokens[t].gen = r.fence
    <3>1. Kept(r.fence, t)
      BY <1>1, <2>1, <2>2 DEF ProcSound
    <3> QED BY <1>2, <2>4, <3>1 DEF KeptStays
  <2> QED BY <1>1, <2>1, <2>2, <2>3, <2>4 DEF ProcSound
<1>6. CASE tokens'[t] = tokens[t] /\ (t \in dead' => t \in dead)
  BY <1>1, <1>3, <1>5, <1>6 DEF TokenSound, CutFrom, Kept
<1>7. CASE tokens'[t] = NoPayload
  BY <1>7, Constants DEF TokenSound, None
<1>8. CASE /\ At(p, "write") /\ (r.kind = "issue" \/ Replaces(p)) /\ t = r.tok
           /\ tokens' = [tokens EXCEPT ![t] = Written(p)] /\ dead' = dead
  <2>1. p \in Logins /\ r.kind \in {"issue", "reuse", "promote"}
    BY <1>1, <1>8, Constants DEF At, Shape, Working
  <2>2. tokens'[t] = Written(p) /\ delivered' = delivered
    BY <1>2, <1>8 DEF Moves, DeliveredMove, At
  <2>3. CASE r.kind = "reuse"
    <3>1. tokens[t] = r.seen /\ r.seen.ver = "v3"
      BY <1>1, <1>8, <2>3 DEF ProcSound, At, Replaces
    <3>2. /\ tokens'[t].ver = "v3" /\ tokens'[t].gen = tokens[t].gen
          /\ tokens'[t].cred = tokens[t].cred /\ tokens'[t].by = None
      BY <2>1, <2>2, <2>3, <3>1, WrittenPayload DEF IInv
    <3>3. t \notin dead'
      BY <1>1, <1>8, <3>1 DEF TokenSound, None
    <3> QED
      BY <1>1, <1>3, <1>5, <3>1, <3>2, <3>3 DEF TokenSound, CutFrom, Kept, None
  <2>4. CASE r.kind # "reuse"
    <3>1. /\ tokens'[t].ver = "v3" /\ tokens'[t].gen = r.fence
          /\ tokens'[t].cred = r.cred /\ tokens'[t].by = p
      BY <2>1, <2>2, <2>4, WrittenPayload, OwnedPayload DEF IInv
    <3>2. CutNow(r.fence, r.cred)
      BY <1>1, <1>2, <1>8 DEF ProcSound, CutStays, At
    <3>3. t \notin dead' /\ (t \in Logins => t = p) /\ (t \in delivered => KeptNow(r.fence))
      <4>1. CASE r.kind = "issue"
        <5>1. t = p /\ Fresh(p, r)
          BY <1>1, <1>8, <2>1, <4>1, Constants DEF Shape, Fresh, Working, At
        <5>2. p \notin dead /\ p \notin delivered
          BY <2>1, <5>1 DEF IInv, OwnSound
        <5> QED BY <1>8, <5>1, <5>2
      <4>2. CASE r.kind = "promote"
        <5>1. t = Legacy /\ tokens[t].ver = "legacy" /\ Listed(r)
          BY <1>1, <1>8, <4>2, Constants DEF Shape, Listed, Working, At, ProcSound, Replaces
        <5>2. t \notin dead /\ Kept(r.fence, t)
          BY <1>1, <1>8, <5>1 DEF TokenSound, None, ProcSound
        <5> QED BY <1>2, <1>8, <5>1, <5>2, Constants DEF KeptStays
      <4> QED BY <2>1, <2>4, <4>1, <4>2
    <3> QED
      BY <2>2, <3>1, <3>2, <3>3 DEF TokenSound, CutFrom, Kept, None
  <2> QED BY <2>3, <2>4
<1>9. CASE t = r.tok /\ tokens' = [tokens EXCEPT ![t] = NoPayload]
  BY <1>2, <1>7, <1>9
<1>10. CASE t # r.tok
  BY <1>6, <1>10, MovesTokens
<1> QED BY <1>6, <1>8, <1>9, <1>10 DEF Moves, TokensMove

\* No one else comes to hold, find or write a token that is still unwritten.
LEMMA MovesOwn ==
    ASSUME IInv, NEW p \in Procs, Moves(p), Turn(p), NEW q \in Logins
    PROVE  OwnSound(q)'
<1> DEFINE r == pr[p]
           s == pr'[p]
<1>1. ProcSound(p) /\ Shape(p, r) /\ Shape(p, s) /\ OwnSound(q) /\ q \in Tokens /\ q \in Procs
  BY Constants DEF IInv, ProcSound, Turn, Typed, Procs
<1>2. /\ pr \in [Procs -> Proc] /\ tokens \in [Tokens -> Payload] /\ dead \subseteq dead'
      /\ \A x \in Procs : x # p => pr'[x] = pr[x]
      /\ device \in [Flags -> Tokens \cup {None}]
  BY Types, MovesTokens DEF Moves
<1>3. (q \in delivered' /\ pr'[q].pc # "done") => tokens'[q].by = None
  <2>1. SUFFICES ASSUME q \in delivered', pr'[q].pc # "done"
                 PROVE  tokens'[q].by = None
    OBVIOUS
  <2>2. pr[q].pc # "done"
    BY <1>1, <1>2, <2>1 DEF Moves
  <2>3. tokens[q].by = None
    <3>1. CASE q \in delivered
      BY <1>1, <2>2, <3>1 DEF OwnSound
    <3>2. CASE At(p, "im") /\ r.tok = q /\ s = Done
      <4>1. p # q
        BY <2>1, <3>2, Constants
      <4>2. r.kind = "reuse" /\ Wrote(r)
        BY <1>1, <3>2, <4>1, Constants DEF Shape, At, Wrote, Working
      <4> QED BY <1>1, <3>2, <4>2 DEF ProcSound
    <3> QED BY <2>1, <3>1, <3>2 DEF Moves, DeliveredMove
  <2>4. CASE TokenStays(q)
    <3>1. tokens[q].ver # "legacy"
      BY <1>1, Constants DEF IInv, TokenSound
    <3> QED BY <2>3, <2>4, <3>1, Constants DEF TokenStays
  <2>5. CASE q = p /\ Fresh(p, r)
    <3>1. q \notin delivered
      BY <1>1, <2>5 DEF OwnSound
    <3>2. s = Done
      BY <2>1, <3>1 DEF Moves, DeliveredMove
    <3> QED BY <2>1, <2>5, <3>2, Constants
  <2> QED BY <1>1, <2>4, <2>5, MovesTokens
<1>4. ASSUME Fresh(q, pr'[q])
      PROVE  /\ tokens'[q] = NoPayload /\ q \notin dead' /\ q \notin delivered'
             /\ \A f \in Flags : device'[f] # q
             /\ \A x \in Procs : x # q => pr'[x].tok # q
  <2>1. Fresh(q, pr[q])
    BY <1>1, <1>2, <1>4 DEF Turn, Kin
  <2>2. /\ tokens[q] = NoPayload /\ q \notin dead /\ q \notin delivered
        /\ \A f \in Flags : device[f] # q
        /\ \A x \in Procs : x # q => pr[x].tok # q
    BY <1>1, <2>1 DEF OwnSound
  <2>3. CASE q = p
    <3>1. tokens'[q] = tokens[q] /\ q \notin dead'
      <4>1. CASE r.tok # p
        BY <1>1, <2>2, <2>3, <4>1, MovesTokens
      <4>2. CASE r.tok = p
        <5>1. r.pc \in {"fence2", "write"} /\ r.kind = "issue"
          BY <1>1, <2>1, <2>3, <4>2, Constants DEF Fresh, Shape, Working
        <5> QED BY <1>4, <2>2, <2>3, <5>1 DEF Moves, TokensMove
      <4> QED BY <4>1, <4>2
    <3>2. q \notin delivered'
      <4>1. SUFFICES ASSUME s = Done
                     PROVE  FALSE
        <5>1. At(p, "im") => r.tok # p
          BY <2>1, <2>3 DEF Fresh, At
        <5> QED BY <2>2, <2>3, <5>1 DEF Moves, DeliveredMove
      <4> QED BY <1>4, <2>3, <4>1, Constants DEF Fresh
    <3>3. \A f \in Flags : device'[f] # q
      <4>1. At(p, "bind") => r.tok # p
        BY <2>1, <2>3 DEF Fresh, At
      <4> QED BY <1>2, <2>2, <2>3, <4>1, <1>1, Constants DEF Moves, DeviceMove
    <3> QED BY <1>2, <2>2, <2>3, <3>1, <3>2, <3>3
  <2>4. CASE q # p
    <3>1. r.tok # q
      BY <2>2, <2>4
    <3>2. tokens'[q] = tokens[q] /\ q \notin dead'
      BY <1>1, <2>2, <3>1, MovesTokens
    <3>3. q \notin delivered'
      BY <2>2, <3>1 DEF Moves, DeliveredMove
    <3>4. \A f \in Flags : device'[f] # q
      BY <1>1, <1>2, <2>2, <3>1, Constants DEF Moves, DeviceMove
    <3>5. s.tok # q
      BY <1>1, <2>2, <2>4, <3>1, Constants DEF Turn, Kin
    <3> QED BY <1>2, <2>2, <3>2, <3>3, <3>4, <3>5
  <2> QED BY <2>3, <2>4
<1> QED BY <1>3, <1>4 DEF OwnSound

LEMMA MovesWithinCap ==
    ASSUME IInv, NEW p \in Procs, Moves(p), world' = world
    PROVE  WithinCap'
<1>1. /\ index \in [Gens -> SUBSET Tokens] /\ IsFiniteSet(Tokens)
      /\ pr[p].fence \in Gens /\ pr[p].seen.gen \in Gens /\ Cap \in Nat
      /\ \A g \in Gens : Cardinality(index[g]) <= Cap
  <2>1. IsFiniteSet(Tokens)
    <3>1. Tokens = Logins \cup {Legacy} /\ IsFiniteSet(Logins)
      BY SessionAssumption DEF Tokens
    <3> QED BY <3>1, FS_AddElement
  <2>2. world \in Worlds
    BY DEF IInv, TypeOK
  <2>3. Cap \in Nat
    BY <2>2, SessionAssumption DEF Cap
  <2> QED BY <2>1, <2>3, Types, Constants DEF IInv, WithinCap
<1>2. \A g \in Gens : IsFiniteSet(index[g]) /\ Cardinality(index[g]) \in Nat
  BY <1>1, FS_Subset, FS_CardinalityType
<1>3. ASSUME NEW g \in Gens
      PROVE  Cardinality(index'[g]) <= Cap
  <2>1. CASE index'[g] \subseteq index[g]
    <3>1. Cardinality(index'[g]) <= Cardinality(index[g]) /\ Cardinality(index'[g]) \in Nat
      BY <1>2, <2>1, FS_Subset, FS_CardinalityType
    <3> QED BY <1>1, <1>2, <3>1
  <2>2. CASE HasRoom(p) /\ index' = [index EXCEPT ![pr[p].fence] = @ \cup {pr[p].tok}]
    <3>1. CASE g = pr[p].fence /\ pr[p].tok \notin index[g]
      <4>1. Cardinality(index[g]) < Cap
        BY <2>2, <3>1 DEF HasRoom
      <4>2. index'[g] = index[g] \cup {pr[p].tok}
        BY <1>1, <2>2, <3>1
      <4>3. IsFiniteSet(index[g]) /\ pr[p].tok \notin index[g]
        BY <1>2, <3>1
      <4>4. Cardinality(index'[g]) = Cardinality(index[g]) + 1
        BY <4>2, <4>3, FS_AddElement
      <4> QED BY <1>1, <1>2, <4>1, <4>4
    <3>2. CASE ~ (g = pr[p].fence /\ pr[p].tok \notin index[g])
      <4>1. index'[g] \subseteq index[g]
        BY <1>1, <2>2, <3>2
      <4> QED BY <4>1, <2>1
    <3> QED BY <3>1, <3>2
  <2>3. CASE UNCHANGED index
    BY <2>1, <2>3
  <2>4. CASE \/ index' = [index EXCEPT ![pr[p].fence] = @ \ {pr[p].tok}]
             \/ index' = [index EXCEPT ![pr[p].seen.gen] = @ \ {pr[p].tok}]
    <3>1. index'[g] \subseteq index[g]
      BY <1>1, <2>4
    <3> QED BY <3>1, <2>1
  <2> QED BY <2>2, <2>3, <2>4 DEF Moves, IndexMove
<1>4. Cap' = Cap
  BY DEF Cap
<1> QED BY <1>3, <1>4 DEF WithinCap

LEMMA MovesRevocation ==
    ASSUME IInv, NEW p \in Procs, Moves(p)
    PROVE  RevocationSound'
<1>1. RevocationSound /\ UNCHANGED <<pwd, intent, deny, ex>>
  BY DEF IInv, Moves
<1>2. CASE UNCHANGED generation
  BY <1>1, <1>2 DEF RevocationSound, ExecSound
<1>3. CASE generation' = [NoGen EXCEPT !.id = gens + 1]
  <2>1. generation'.id = gens + 1 /\ generation'.revoked = 0
    BY <1>3 DEF NoGen
  <2>2. gens \in Nat /\ \A x \in Execs : ex[x].prev \in 0..gens
    BY Types, Constants DEF IInv, TypeOK
  <2>3. ASSUME NEW x \in Execs
        PROVE  ExecSound(x)'
    <3>1. ex'[x].prev < generation'.id
      BY <1>1, <2>1, <2>2
    <3> QED BY <1>1, <3>1 DEF RevocationSound, ExecSound
  <2>4. generation'.revoked < generation'.id
    BY <2>1, <2>2
  <2> QED BY <1>1, <2>3, <2>4 DEF RevocationSound
<1> QED BY <1>2, <1>3 DEF Moves, GenerationMove

LEMMA MovesType ==
    ASSUME IInv, NEW p \in Procs, Moves(p), Turn(p), world' = world
    PROVE  TypeOK'
<1>1. TypeOK /\ ProcSound(p) /\ Shape(p, pr[p])
  BY DEF IInv, ProcSound
<1>2. pwd' \in 0..Cardinality(Requests) /\ world' \in Worlds /\ snapshots' \in 0..MaxSnapshots'
      /\ faults' \in 0..MaxFaults' /\ deny' \in BOOLEAN
      /\ intent' \in [Versions -> [status: {None, "pending", "applied"}, owner: Execs \cup {None},
                                   live: BOOLEAN]]
      /\ \A v \in Versions : intent'[v].status = None <=> v > pwd'
  BY <1>1 DEF TypeOK, Moves, MaxSnapshots, MaxFaults
<1>3. /\ gens' \in Gens /\ gens <= gens'
      /\ generation' \in [id: 0..gens', last: 0..pwd', revoked: 0..gens']
  <2>1. CASE UNCHANGED <<generation, gens>>
    BY <1>1, <2>1, Types, Constants DEF TypeOK, Moves
  <2>2. CASE gens < MaxGens /\ gens' = gens + 1 /\ generation' = [NoGen EXCEPT !.id = gens + 1]
    <3>1. generation' = [id |-> gens + 1, last |-> 0, revoked |-> 0]
      BY <2>2 DEF NoGen
    <3>2. gens \in Nat /\ pwd \in Nat /\ pwd' = pwd /\ gens' \in 0..MaxGens
      BY <2>2, Types, Constants DEF Moves
    <3>3. gens + 1 \in 0..gens' /\ 0 \in 0..pwd' /\ 0 \in 0..gens'
      BY <2>2, <3>2
    <3>4. generation' \in [id: 0..gens', last: 0..pwd', revoked: 0..gens']
      BY <3>1, <3>3
    <3>5. gens' \in Gens /\ gens <= gens'
      BY <2>2, <3>2 DEF Gens
    <3> QED BY <3>4, <3>5
  <2> QED BY <2>1, <2>2 DEF Moves, GenerationMove
<1>4. index' \in [Gens -> SUBSET Tokens] /\ unlisted' \subseteq Gens \X Tokens
  <2>1. /\ pr[p].fence \in Gens /\ pr[p].seen.gen \in Gens
        /\ index \in [Gens -> SUBSET Tokens] /\ unlisted \subseteq Gens \X Tokens
    <3>1. unlisted \subseteq Gens \X Tokens
      BY <1>1 DEF TypeOK
    <3>2. gens \in 0..MaxGens /\ Gens = 0..MaxGens /\ MaxGens \in Nat
          /\ pr[p].fence \in 0..gens /\ pr[p].seen.gen \in 0..gens
      BY Types, Constants
    <3> QED BY <3>1, <3>2, Types
  <2>2. pr[p].pc \in {"list", "zrem", "unlist"} => pr[p].tok \in Tokens
    BY <1>1, Types, Constants DEF Shape, Working
  <2> QED BY <2>1, <2>2 DEF Moves, IndexMove, At
<1>5. /\ device' \in [Flags -> Tokens \cup {None}] /\ delivered' \subseteq Tokens
      /\ dead' \subseteq Tokens
  <2>1. pr[p].pc \in {"bind", "im", "delete", "forget"} => pr[p].tok \in Tokens
    BY <1>1, Types, Constants DEF Shape, Working
  <2> QED BY <2>1, Types DEF Moves, DeviceMove, DeliveredMove, TokensMove, At
<1>6. tokens' \in [Tokens -> Payload]
  <2>1. CASE At(p, "write") /\ tokens' = [tokens EXCEPT ![pr[p].tok] = Written(p)]
    <3>1. p \in Logins
      BY <1>1, <2>1, Constants DEF At, Shape, Working
    <3> QED BY <1>1, <2>1, <3>1, WrittenPayload, Types
  <2>2. CASE tokens' = [tokens EXCEPT ![pr[p].tok] = NoPayload]
    BY <2>2, Types, Constants
  <2>3. CASE tokens' = tokens
    BY <2>3, Types
  <2> QED BY <2>1, <2>2, <2>3 DEF Moves, TokensMove
<1>7. ASSUME NEW t \in Tokens
      PROVE  tokens'[t].gen <= gens'
  <2>0. /\ tokens \in [Tokens -> Payload] /\ tokens[t].gen \in 0..gens /\ gens \in Nat /\ gens' \in Nat
        /\ pr[p].fence \in 0..gens /\ pr[p].seen.gen \in 0..gens
    BY <1>3, Types, Constants
  <2>1. CASE At(p, "write") /\ tokens' = [tokens EXCEPT ![pr[p].tok] = Written(p)]
    <3>1. p \in Logins
      BY <1>1, <2>1, Constants DEF At, Shape, Working
    <3>2. Written(p).gen \in 0..gens
      BY <1>1, <2>0, <3>1, WrittenPayload, OwnedPayload
    <3>3. tokens'[t].gen \in 0..gens
      BY <2>0, <2>1, <3>2
    <3> QED BY <1>3, <2>0, <3>3
  <2>2. CASE tokens' = [tokens EXCEPT ![pr[p].tok] = NoPayload]
    <3>1. tokens'[t].gen \in 0..gens
      BY <2>0, <2>2, Constants
    <3> QED BY <1>3, <2>0, <3>1
  <2>3. CASE tokens' = tokens
    BY <1>3, <2>0, <2>3
  <2> QED BY <2>1, <2>2, <2>3 DEF Moves, TokensMove
<1>8. pr' \in [Procs -> Proc]
  <2>1. pr' = [pr EXCEPT ![p] = pr'[p]] /\ pr'[p] \in Proc /\ pr \in [Procs -> Proc]
    BY Types DEF Moves, Turn, Typed
  <2> QED BY <2>1
<1>9. ASSUME NEW q \in Procs
      PROVE  pr'[q].fence <= gens' /\ pr'[q].seen.gen <= gens'
  <2>0. /\ pr[q].fence \in 0..gens /\ pr[q].seen.gen \in 0..gens /\ gens \in Nat /\ gens' \in Nat
        /\ generation'.id \in 0..gens'
    BY <1>3, Types, Constants
  <2>1. CASE q # p
    <3>1. pr'[q] = pr[q]
      BY <2>1, Types DEF Moves
    <3> QED BY <1>3, <2>0, <3>1
  <2>2. CASE q = p
    <3>1. pr'[p].fence <= gens'
      BY <1>3, <2>0, <2>2 DEF Turn, Typed
    <3>2. pr'[p].seen.gen \in 0..gens
      <4>1. CASE pr[p].tok \in Tokens /\ pr'[p].seen = tokens[pr[p].tok]
        BY <4>1, Types
      <4>2. CASE p \in Logins /\ pr'[p].seen = Owned(p)
        BY <1>1, <2>0, <2>2, <4>2, OwnedPayload
      <4>3. CASE pr'[p].seen \in {pr[p].seen, NoPayload}
        BY <2>0, <2>2, <4>3, Constants
      <4> QED BY <4>1, <4>2, <4>3 DEF Turn, Read
    <3> QED BY <1>3, <2>0, <2>2, <3>1, <3>2
  <2> QED BY <2>1, <2>2
<1>10. ex' \in [Execs -> [pc: {"idle", "claim", "wait", "rotate", "deny", "drop", "mark", "release",
                              "done"}, v: 0..pwd', prev: 0..gens']]
  <2>1. gens \in Nat /\ gens' \in Nat /\ 0..gens \subseteq 0..gens'
    BY <1>3, Types, Constants
  <2>2. ex' = ex /\ pwd' = pwd
    BY DEF Moves
  <2>3. ex \in [Execs -> [pc: {"idle", "claim", "wait", "rotate", "deny", "drop", "mark", "release",
                              "done"}, v: 0..pwd, prev: 0..gens]]
    BY <1>1 DEF TypeOK
  <2> QED BY <2>1, <2>2, <2>3
<1> QED
  BY <1>2, <1>3, <1>4, <1>5, <1>6, <1>7, <1>8, <1>9, <1>10 DEF TypeOK

LEMMA ProcStepKeeps ==
    ASSUME IInv, NEW p \in Procs, ProcStep(p), world' = world
    PROVE  IInv'
<1>1. Moves(p) /\ Turn(p)
  BY StepMoves, StepTurn
<1>2. \A q \in Procs : ProcSound(q)'
  BY <1>1, MovesOther, MovesSelf
<1>3. (\A t \in Tokens : TokenSound(t)') /\ (\A q \in Logins : OwnSound(q)')
  BY <1>1, MovesTokenSound, MovesOwn
<1> QED
  BY <1>1, <1>2, <1>3, MovesType, MovesRevocation, MovesWithinCap DEF IInv

-----------------------------------------------------------------------------
(* Snapshot updates. *)

LEMMA SnapshotKeeps ==
    ASSUME IInv, NEW t \in Tokens, UpdateSessionSnapshot(t), world' = world
    PROVE  IInv'
<1> DEFINE new == [tokens[t] EXCEPT !.by = None, !.snap = snapshots + 1]
<1>1. /\ tokens[t].ver # None /\ snapshots < MaxSnapshots
      /\ tokens' = [tokens EXCEPT ![t] = new] /\ snapshots' = snapshots + 1
      /\ UNCHANGED <<pwd, intent, generation, gens, index, device, deny, pr, ex, delivered, dead,
                     unlisted, faults>>
  BY Types DEF UpdateSessionSnapshot
<1>2. /\ tokens \in [Tokens -> Payload] /\ tokens[t] \in Payload /\ snapshots \in Nat
      /\ MaxSnapshots \in Nat
  <2>1. world \in Worlds /\ snapshots \in 0..MaxSnapshots
    BY DEF IInv, TypeOK
  <2>2. MaxSnapshots \in Nat
    BY <2>1, SessionAssumption DEF MaxSnapshots
  <2> QED BY <2>1, <2>2, Types
<1>3. /\ new \in Payload /\ new.ver = tokens[t].ver /\ new.gen = tokens[t].gen
      /\ new.cred = tokens[t].cred /\ new.by = None
  <2>1. snapshots + 1 \in Nat
    BY <1>2
  <2> HIDE DEF Gens, None
  <2>2. new \in Payload
    BY <1>2, <2>1 DEF Payload
  <2>3. /\ new.ver = tokens[t].ver /\ new.gen = tokens[t].gen
        /\ new.cred = tokens[t].cred /\ new.by = None
    BY <1>2 DEF Payload
  <2> QED BY <2>2, <2>3
<1> HIDE DEF new
<1>4. tokens'[t] = new /\ \A u \in Tokens : u # t => tokens'[u] = tokens[u]
  BY <1>1, <1>2
<1>5. Cutting' = Cutting
  BY <1>1 DEF Cutting, Past
<1>6. CutStays /\ KeptStays
  BY <1>1, <1>5 DEF CutStays, KeptStays, CutFrom, Kept
<1>7. \A u \in Tokens : TokenStays(u)
  BY <1>1, <1>3, <1>4 DEF TokenStays
<1>8. \A q \in Procs : ProcSound(q)'
  BY <1>1, <1>6, <1>7, StillSound
<1>9. ASSUME NEW u \in Tokens
      PROVE  TokenSound(u)'
  <2>1. TokenSound(u)
    BY DEF IInv
  <2>2. CASE u # t
    BY <1>1, <1>4, <1>5, <2>1, <2>2 DEF TokenSound, CutFrom, Kept
  <2>3. CASE u = t
    BY <1>1, <1>3, <1>4, <1>5, <2>1, <2>3 DEF TokenSound, CutFrom, Kept
  <2> QED BY <2>2, <2>3
<1>10. ASSUME NEW q \in Logins
       PROVE  OwnSound(q)'
  <2>1. OwnSound(q) /\ q \in Tokens
    BY Constants DEF IInv
  <2>2. tokens[q] = NoPayload => q # t
    BY <1>1, Constants
  <2> QED BY <1>1, <1>3, <1>4, <2>1, <2>2 DEF OwnSound
<1>11. RevocationSound'
  BY <1>1 DEF IInv, RevocationSound, ExecSound
<1>12. WithinCap'
  BY <1>1 DEF IInv, WithinCap, Cap
<1>13. TypeOK'
  <2>1. tokens' \in [Tokens -> Payload] /\ \A u \in Tokens : tokens'[u].gen <= gens'
    BY <1>1, <1>2, <1>3, <1>4 DEF IInv, TypeOK
  <2>2. snapshots' \in 0..MaxSnapshots'
    BY <1>1, <1>2 DEF MaxSnapshots
  <2> QED BY <1>1, <2>1, <2>2 DEF IInv, TypeOK, MaxFaults
<1> QED BY <1>8, <1>9, <1>10, <1>11, <1>12, <1>13 DEF IInv

-----------------------------------------------------------------------------
(* Revocations. *)

\* A step of the revocation side leaves the logins alone.
LEMMA CalmKeeps ==
    ASSUME IInv, Calm, CutStays, KeptStays
    PROVE  /\ \A q \in Procs : ProcSound(q)'
           /\ \A t \in Tokens : TokenSound(t)'
           /\ \A q \in Logins : OwnSound(q)'
<1>1. UNCHANGED <<device, tokens, pr, delivered, dead, unlisted>>
  BY DEF Calm
<1>0. \A t \in Tokens : TokenStays(t)
  BY <1>1 DEF TokenStays
<1>2. \A q \in Procs : ProcSound(q)'
  BY <1>0, <1>1, StillSound
<1>3. ASSUME NEW t \in Tokens
      PROVE  TokenSound(t)'
  <2>1. TokenSound(t) /\ tokens[t].gen \in 0..gens /\ tokens[t].cred \in 0..Cardinality(Requests)
    BY Types DEF IInv
  <2>2. tokens[t].ver = "v3" =>
            ((tokens[t].gen = generation'.id /\ tokens[t].gen # 0)
                => \A v \in Cutting' : tokens[t].cred >= v)
    BY <2>1 DEF TokenSound, CutStays
  <2>3. (t \in delivered /\ tokens[t].ver = "v3") =>
            \/ tokens[t].gen = 0 \/ tokens[t].gen # generation'.id
            \/ t \in index'[tokens[t].gen] \/ <<tokens[t].gen, t>> \in unlisted' \/ t \in dead'
    BY <2>1 DEF TokenSound, KeptStays
  <2> QED BY <1>1, <2>1, <2>2, <2>3 DEF TokenSound, CutFrom, Kept
<1>4. \A q \in Logins : OwnSound(q)'
  BY <1>1 DEF IInv, OwnSound
<1> QED BY <1>2, <1>3, <1>4

\* What a step of an executor with a revocation does.
Rotates(x) ==
    /\ gens < MaxGens /\ gens' = gens + 1
    /\ generation' = [id |-> gens + 1, last |-> ex[x].v, revoked |-> generation.id]
    /\ ex[x].pc = "rotate"

\* A pending intent is claimed, released, or recorded as applied by who is at that point.
IntentMove(x) ==
    \E v \in Versions :
        /\ intent[v].status = "pending"
        /\ \E i \in [status: {"pending", "applied"}, owner: Execs \cup {None}, live: BOOLEAN] :
               /\ intent' = [intent EXCEPT ![v] = i]
               /\ i.status = "applied" => ex[x].pc = "mark" /\ v = ex[x].v

Runs(x) ==
    /\ UNCHANGED <<generation, gens>> \/ Rotates(x)
    /\ \/ UNCHANGED index
       \/ ex[x].pc = "drop" /\ ex[x].prev # 0 /\ index' = [index EXCEPT ![ex[x].prev] = {}]
    /\ deny' \in BOOLEAN /\ (deny => deny')
    /\ ex' = [ex EXCEPT ![x] = ex'[x]]
    /\ ex'[x] \in [pc: {"idle", "claim", "wait", "rotate", "deny", "drop", "mark", "release",
                        "done"}, v: 0..pwd, prev: 0..gens']
    /\ x \in Requests => ex[x].pc # "idle" /\ ex'[x].pc # "idle"
    /\ ex'[x].pc # "idle" => ex'[x].v # 0
    /\ ex'[x].prev \in {0, ex[x].prev, generation'.revoked}
    /\ ex'[x].pc = "drop" => deny'
    /\ ex'[x].pc = "mark" => deny' \/ ex'[x].v < pwd
    /\ ex'[x].pc \in {"deny", "drop", "mark"} =>
           \/ ex[x].pc \in {"deny", "drop", "mark"} /\ ex'[x].v = ex[x].v
           \/ generation'.last >= ex'[x].v
    /\ UNCHANGED intent \/ IntentMove(x)
    /\ pwd' = pwd /\ faults' \in 0..MaxFaults

LEMMA ExecRuns ==
    ASSUME IInv, NEW x \in Execs, Apply(x) \/ ApplyFails(x) \/ ExecDies(x)
    PROVE  Runs(x) /\ Calm
<1>0. Calm
  BY
     DEF Apply, ApplyFails, ExecDies, ClaimByID, WaitApplied, ClaimNext, RotateGeneration,
         WriteDeny,
         DropIndex, MarkApplied, Release
<1> SUFFICES Runs(x)
  BY <1>0
<1>1. /\ ex \in [Execs -> [pc: {"idle", "claim", "wait", "rotate", "deny", "drop", "mark", "release",
                                "done"}, v: 0..pwd, prev: 0..gens]]
      /\ ExecSound(x) /\ deny \in BOOLEAN /\ pwd \in Nat /\ gens \in Nat
      /\ faults \in 0..MaxFaults /\ MaxFaults \in Nat
      /\ generation \in [id: 0..gens, last: 0..pwd, revoked: 0..gens]
  BY SessionAssumption, Types, Constants DEF IInv, TypeOK, RevocationSound, MaxFaults
<1>2. ex[x].pc # "idle" => ex[x].v \in Versions
  <2>1. ex[x].pc # "idle" => ex[x].v # 0 /\ ex[x].v \in 0..pwd
    BY <1>1 DEF ExecSound
  <2>2. pwd \in 0..Cardinality(Requests)
    BY Types
  <2> QED BY <2>1, <2>2, Constants DEF Versions
<1>3. ASSUME NEW rec, ex' = [ex EXCEPT ![x] = rec]
      PROVE  ex' = [ex EXCEPT ![x] = ex'[x]] /\ ex'[x] = rec
  BY <1>1, <1>3
<1>4. intent \in [Versions -> [status: {None, "pending", "applied"}, owner: Execs \cup {None},
                               live: BOOLEAN]]
  BY DEF IInv, TypeOK
<1>5. ASSUME NEW v \in Versions, intent[v].status = "pending",
             intent' = [intent EXCEPT ![v] = [@ EXCEPT !.owner = x, !.live = TRUE]]
      PROVE  IntentMove(x)
  <2> DEFINE i == [intent[v] EXCEPT !.owner = x, !.live = TRUE]
  <2>1. /\ i \in [status: {"pending", "applied"}, owner: Execs \cup {None}, live: BOOLEAN]
        /\ i.status = "pending"
    BY <1>4, <1>5
  <2>2. intent' = [intent EXCEPT ![v] = i]
    BY <1>5
  <2> HIDE DEF i
  <2> QED BY <1>5, <2>1, <2>2 DEF IntentMove
<1>6. CASE ClaimByID(x) /\ Claimable(ex[x].v)
  <2>1. /\ ex[x].pc = "claim" /\ ex' = [ex EXCEPT ![x] = [ex[x] EXCEPT !.pc = "rotate"]]
        /\ UNCHANGED <<pwd, generation, gens, index, deny, faults>>
        /\ Claimed(ex[x].v, x) /\ intent[ex[x].v].status = "pending"
    BY <1>6 DEF ClaimByID, ExecGoto, Exec, Claimable
  <2>2. IntentMove(x)
    BY <1>2, <1>5, <2>1 DEF Claimed
  <2>3. ex'[x] = [ex[x] EXCEPT !.pc = "rotate"] /\ ex' = [ex EXCEPT ![x] = ex'[x]]
    BY <2>1, <1>3
  <2>4. /\ ex'[x].pc = "rotate" /\ ex'[x].v = ex[x].v /\ ex'[x].prev = ex[x].prev
        /\ ex'[x] \in [pc: {"idle", "claim", "wait", "rotate", "deny", "drop", "mark", "release",
                            "done"}, v: 0..pwd, prev: 0..gens]
    BY <1>1, <2>3
  <2> QED BY <1>1, <2>1, <2>2, <2>3, <2>4 DEF Runs, ExecSound
<1> DEFINE Typed2(rec) ==
               rec \in [pc: {"idle", "claim", "wait", "rotate", "deny", "drop", "mark", "release",
                             "done"}, v: 0..pwd, prev: 0..gens]
<1>7. ASSUME NEW c \in {"wait", "done", "drop", "mark", "release"}, ex[x].pc # "idle",
             ex' = [ex EXCEPT ![x] = [ex[x] EXCEPT !.pc = c]],
             UNCHANGED <<pwd, intent, generation, gens>>, faults' \in 0..MaxFaults,
             deny' \in BOOLEAN, deny => deny', c = "drop" => ex[x].pc = "deny" /\ deny',
             c = "mark" => ex[x].pc = "drop",
             \/ UNCHANGED index
             \/ ex[x].pc = "drop" /\ ex[x].prev # 0 /\ index' = [index EXCEPT ![ex[x].prev] = {}]
      PROVE  Runs(x)
  <2>1. ex'[x] = [ex[x] EXCEPT !.pc = c] /\ ex' = [ex EXCEPT ![x] = ex'[x]]
    BY <1>3, <1>7
  <2>2. /\ ex'[x].pc = c /\ ex'[x].v = ex[x].v /\ ex'[x].prev = ex[x].prev /\ Typed2(ex'[x])
    BY <1>1, <2>1
  <2> QED BY <1>1, <1>7, <2>1, <2>2 DEF Runs, ExecSound
\* A worker is idle again, a request is done.
<1>8. ASSUME ex[x].pc # "idle", ex' = [ex EXCEPT ![x] = Ended(x)],
             UNCHANGED intent \/ IntentMove(x),
             UNCHANGED <<pwd, generation, gens, index, deny>>, faults' \in 0..MaxFaults
      PROVE  Runs(x)
  <2>1. ex'[x] = Ended(x) /\ ex' = [ex EXCEPT ![x] = ex'[x]]
    BY <1>3, <1>8
  <2>2. CASE x \in Workers
    <3>1. ex'[x].pc = "idle" /\ ex'[x].v = 0 /\ ex'[x].prev = 0 /\ Typed2(ex'[x])
      BY <1>1, <2>1, <2>2 DEF Ended, NoExec
    <3>2. x \notin Requests
      BY <2>2, SessionAssumption
    <3> QED BY <1>1, <1>8, <2>1, <3>1, <3>2 DEF Runs
  <2>3. CASE x \notin Workers
    <3>1. ex'[x].pc = "done" /\ ex'[x].v = ex[x].v /\ ex'[x].prev = ex[x].prev /\ Typed2(ex'[x])
      BY <1>1, <2>1, <2>3 DEF Ended
    <3> QED BY <1>1, <1>8, <2>1, <3>1 DEF Runs, ExecSound
  <2> QED BY <2>2, <2>3
<1>9. CASE ClaimByID(x) /\ ~ Claimable(ex[x].v)
  BY <1>1, <1>9, <1>7 DEF ClaimByID, ExecGoto, Exec
<1>10. CASE WaitApplied(x)
  BY <1>1, <1>10, <1>7 DEF WaitApplied, ExecGoto, Exec
<1>11. CASE ClaimNext(x)
  <2>1. PICK v \in Versions :
            /\ Claimable(v) /\ Claimed(v, x)
            /\ ex' = [ex EXCEPT ![x] = [NoExec EXCEPT !.pc = "rotate", !.v = v]]
    BY <1>11 DEF ClaimNext, Exec
  <2>2. /\ x \in Workers /\ ex[x].pc = "idle"
        /\ UNCHANGED <<pwd, generation, gens, index, deny, faults>>
    BY <1>11 DEF ClaimNext
  <2>3. IntentMove(x) /\ v \in 1..pwd
    <3>1. intent[v].status = "pending"
      BY <2>1 DEF Claimable
    <3>2. v \in 1..Cardinality(Requests) /\ (intent[v].status = None <=> v > pwd)
      BY DEF Versions, IInv, TypeOK
    <3>3. IntentMove(x)
      BY <1>5, <2>1, <3>1 DEF Claimed
    <3>4. intent[v].status # None
      BY <3>1 DEF None
    <3>5. v \in 1..pwd
      BY <1>1, <3>2, <3>4, Constants
    <3> QED BY <3>3, <3>5
  <2>4. ex'[x] = [NoExec EXCEPT !.pc = "rotate", !.v = v] /\ ex' = [ex EXCEPT ![x] = ex'[x]]
    BY <2>1, <1>3
  <2>5. ex'[x].pc = "rotate" /\ ex'[x].v = v /\ ex'[x].prev = 0 /\ Typed2(ex'[x])
    <3>1. NoExec \in [pc: {"idle"}, v: {0}, prev: {0}]
      BY DEF NoExec
    <3>2. v \in 0..pwd /\ 0 \in 0..gens
      BY <1>1, <2>3
    <3> QED BY <2>4, <3>1, <3>2
  <2>6. x \notin Requests
    BY <2>2, SessionAssumption
  <2> QED BY <1>1, <2>2, <2>3, <2>4, <2>5, <2>6 DEF Runs
<1>12. CASE WriteDeny(x)
  BY <1>1, <1>12, <1>7 DEF WriteDeny, ExecGoto, Exec
<1>13. CASE DropIndex(x)
  BY <1>1, <1>13, <1>7 DEF DropIndex, ExecGoto, Exec
<1>14. ASSUME NEW c \in {"pending", "applied"}, ex[x].pc # "idle",
              intent[ex[x].v].status = "pending",
              c = "applied" => ex[x].pc = "mark",
              intent' = [intent EXCEPT ![ex[x].v] = [NoIntent EXCEPT !.status = c]]
       PROVE  IntentMove(x)
  <2> DEFINE i == [NoIntent EXCEPT !.status = c]
  <2>1. /\ i \in [status: {"pending", "applied"}, owner: Execs \cup {None}, live: BOOLEAN]
        /\ i.status = c
    BY DEF NoIntent
  <2>2. intent' = [intent EXCEPT ![ex[x].v] = i]
    BY <1>14
  <2> HIDE DEF i
  <2>3. i.status = "applied" => ex[x].pc = "mark"
    BY <1>14, <2>1
  <2>4. ex[x].v \in Versions /\ intent[ex[x].v].status = "pending"
    BY <1>2, <1>14
  <2> QED BY <2>1, <2>2, <2>3, <2>4 DEF IntentMove
<1>15. CASE MarkApplied(x)
  <2>1. /\ ex[x].pc = "mark" /\ ex' = [ex EXCEPT ![x] = Ended(x)]
        /\ UNCHANGED <<pwd, generation, gens, index, deny, faults>>
    BY <1>15 DEF MarkApplied, Exec
  <2>2. UNCHANGED intent \/ IntentMove(x)
    BY <1>14, <1>15, <2>1 DEF MarkApplied
  <2> QED BY <1>1, <1>8, <2>1, <2>2
<1>16. CASE Release(x)
  <2>1. /\ ex[x].pc = "release" /\ ex' = [ex EXCEPT ![x] = Ended(x)]
        /\ UNCHANGED <<pwd, generation, gens, index, deny, faults>>
    BY <1>16 DEF Release, Exec
  <2>2. UNCHANGED intent \/ IntentMove(x)
    BY <1>14, <1>16, <2>1 DEF Release
  <2> QED BY <1>1, <1>8, <2>1, <2>2
<1>17. CASE ExecDies(x)
  <2>1. faults' \in 0..MaxFaults
    BY <1>1, <1>17 DEF ExecDies, Fault
  <2> QED BY <1>8, <1>17, <2>1 DEF ExecDies, Exec
<1>18. CASE ApplyFails(x) /\ UNCHANGED <<generation, gens>>
  <2>1. faults' \in 0..MaxFaults
    BY <1>1, <1>18 DEF ApplyFails, Fault
  <2> QED BY <1>1, <1>7, <1>18, <2>1 DEF ApplyFails, ExecGoto, Exec
\* The rotation.
<1>19. ASSUME RotateEffect(x), ex[x].pc = "rotate"
       PROVE  /\ \/ UNCHANGED <<generation, gens>> /\ generation.last >= ex[x].v
                 \/ Rotates(x)
              /\ gens' \in Nat /\ gens <= gens'
              /\ generation'.revoked \in 0..gens' /\ generation'.last >= ex[x].v
              /\ generation'.last \in 0..pwd
  <2>0. generation.id \in 0..gens /\ generation.revoked \in 0..gens /\ ex[x].v \in 0..pwd
        /\ generation.last \in 0..pwd
    BY <1>1
  <2>1. CASE generation.last >= ex[x].v
    BY <1>1, <1>19, <2>0, <2>1 DEF RotateEffect, Rotated
  <2>2. CASE ~ (generation.last >= ex[x].v)
    <3>1. /\ gens < MaxGens /\ gens' = gens + 1
          /\ generation' = [id |-> gens + 1, last |-> ex[x].v, revoked |-> generation.id]
      BY <1>19, <2>2 DEF RotateEffect, Rotated
    <3>2. generation'.revoked = generation.id /\ generation'.last = ex[x].v
      BY <3>1
    <3> QED BY <1>1, <1>19, <2>0, <3>1, <3>2 DEF Rotates
  <2> QED BY <2>1, <2>2
<1>20. CASE ApplyFails(x) /\ ex[x].pc = "rotate" /\ RotateEffect(x)
  <2>1. faults' \in 0..MaxFaults
    BY <1>1, <1>20 DEF ApplyFails, Fault
  <2>2. /\ ex' = [ex EXCEPT ![x] = [ex[x] EXCEPT !.pc = "release"]]
        /\ UNCHANGED <<pwd, intent, index, deny>>
    BY <1>20 DEF ApplyFails, ExecGoto, Exec
  <2>3. ex'[x] = [ex[x] EXCEPT !.pc = "release"] /\ ex' = [ex EXCEPT ![x] = ex'[x]]
    BY <2>2, <1>3
  <2>4. ex'[x].pc = "release" /\ ex'[x].v = ex[x].v /\ ex'[x].prev = ex[x].prev /\ Typed2(ex'[x])
    BY <1>1, <2>3
  <2>5. 0..gens \subseteq 0..gens'
    BY <1>1, <1>19, <1>20
  <2>6. ex'[x] \in [pc: {"idle", "claim", "wait", "rotate", "deny", "drop", "mark", "release",
                         "done"}, v: 0..pwd, prev: 0..gens']
    BY <2>4, <2>5
  <2>7. UNCHANGED <<generation, gens>> \/ Rotates(x)
    BY <1>19, <1>20
  <2> QED BY <1>1, <1>20, <2>1, <2>2, <2>3, <2>4, <2>6, <2>7 DEF Runs, ExecSound
<1>21. CASE RotateGeneration(x)
  <2> DEFINE c == IF generation.last > ex[x].v THEN "mark" ELSE "deny"
  <2>1. /\ ex[x].pc = "rotate" /\ RotateEffect(x)
        /\ ex' = [ex EXCEPT ![x] = [ex[x] EXCEPT !.pc = c, !.prev = generation'.revoked]]
        /\ UNCHANGED <<pwd, intent, index, deny, faults>>
    BY <1>21 DEF RotateGeneration, Exec
  <2>2. c \in {"mark", "deny"} /\ (c = "mark" => generation.last > ex[x].v)
    OBVIOUS
  <2> HIDE DEF c
  <2>3. /\ ex'[x] = [ex[x] EXCEPT !.pc = c, !.prev = generation'.revoked]
        /\ ex' = [ex EXCEPT ![x] = ex'[x]]
    BY <2>1, <1>3
  <2>4. ex'[x].pc = c /\ ex'[x].v = ex[x].v /\ ex'[x].prev = generation'.revoked
    BY <1>1, <2>3
  <2>5. ex'[x] \in [pc: {"idle", "claim", "wait", "rotate", "deny", "drop", "mark", "release",
                         "done"}, v: 0..pwd, prev: 0..gens']
    <3>1. PICK q \in 0..gens' : q = generation'.revoked
      BY <1>19, <2>1
    <3>2. ex'[x] = [ex[x] EXCEPT !.pc = c, !.prev = q]
      BY <2>3, <3>1
    <3>3. /\ ex[x].v \in 0..pwd
          /\ ex[x] \in [pc: {"idle", "claim", "wait", "rotate", "deny", "drop", "mark", "release",
                             "done"}, v: 0..pwd, prev: 0..gens]
      BY <1>1
    <3> QED BY <2>2, <3>2, <3>3, Zenon
  <2>6. UNCHANGED <<generation, gens>> \/ Rotates(x)
    BY <1>19, <2>1
  <2>7. c = "mark" => ex[x].v < pwd
    <3>1. generation.last \in 0..pwd /\ ex[x].v \in 0..pwd
      BY <1>1
    <3> QED BY <1>1, <2>2, <3>1
  <2>8. generation'.last >= ex'[x].v
    BY <1>19, <2>1, <2>4
  <2> QED BY <1>1, <2>1, <2>2, <2>3, <2>4, <2>5, <2>6, <2>7, <2>8 DEF Runs, ExecSound
<1> QED
  BY <1>6, <1>9, <1>10, <1>11, <1>12, <1>13, <1>15, <1>16, <1>17, <1>18, <1>20, <1>21
     DEF Apply, ApplyFails

\* The types of what the executors read and write.
LEMMA ExecTypes ==
    ASSUME IInv
    PROVE  /\ gens \in Nat /\ MaxGens \in Nat /\ gens \in Gens /\ 0..gens \subseteq Gens
           /\ pwd \in Nat /\ pwd \in 0..Cardinality(Requests)
           /\ ex \in [Execs -> [pc: {"idle", "claim", "wait", "rotate", "deny", "drop", "mark",
                                    "release", "done"}, v: 0..pwd, prev: 0..gens]]
           /\ generation \in [id: 0..gens, last: 0..pwd, revoked: 0..gens]
           /\ index \in [Gens -> SUBSET Tokens] /\ deny \in BOOLEAN
           /\ DOMAIN ex = Execs /\ DOMAIN intent = Versions
<1>1. TypeOK
  BY DEF IInv
<1>2. gens \in 0..MaxGens /\ Gens = 0..MaxGens /\ MaxGens \in Nat
      /\ pwd \in 0..Cardinality(Requests) /\ Cardinality(Requests) \in Nat
  BY Types, Constants
<1>3. ex \in [Execs -> [pc: {"idle", "claim", "wait", "rotate", "deny", "drop", "mark",
                            "release", "done"}, v: 0..pwd, prev: 0..gens]]
      /\ generation \in [id: 0..gens, last: 0..pwd, revoked: 0..gens]
      /\ index \in [Gens -> SUBSET Tokens] /\ deny \in BOOLEAN
  BY <1>1 DEF TypeOK
<1>4. DOMAIN ex = Execs /\ DOMAIN intent = Versions
  BY <1>1 DEF TypeOK
<1> QED BY <1>2, <1>3, <1>4

\* A step of an executor cuts nothing more in the generation that stays.
LEMMA RunsCut ==
    ASSUME IInv, NEW x \in Execs, Runs(x)
    PROVE  CutStays
<1>1. /\ gens \in Nat /\ DOMAIN ex = Execs /\ DOMAIN intent = Versions
  BY ExecTypes
<1> SUFFICES ASSUME NEW g \in 0..gens, NEW c \in 0..Cardinality(Requests), CutFrom(g, c),
                    g = generation'.id, g # 0, NEW v \in Cutting'
             PROVE  c >= v
  BY DEF CutStays
<1>2. UNCHANGED generation
  <2>1. CASE Rotates(x)
    <3>1. generation'.id = gens + 1
      BY <2>1 DEF Rotates
    <3> QED BY <1>1, <3>1
  <2> QED BY <2>1 DEF Runs
<1>3. v \in Versions /\ Past(v)'
  BY DEF Cutting
<1>7. Past(v) => c >= v
  <2>1. \A u \in Cutting : c >= u
    BY <1>2 DEF CutFrom
  <2>2. Past(v) => v \in Cutting
    BY <1>3 DEF Cutting
  <2> QED BY <2>1, <2>2
<1>4. CASE intent'[v].status = "applied"
  <2>1. CASE UNCHANGED intent
    BY <1>4, <1>7, <2>1 DEF Past
  <2>2. CASE IntentMove(x)
    <3>1. PICK u \in Versions,
               i \in [status: {"pending", "applied"}, owner: Execs \cup {None}, live: BOOLEAN] :
              /\ intent' = [intent EXCEPT ![u] = i]
              /\ i.status = "applied" => ex[x].pc = "mark" /\ u = ex[x].v
      BY <2>2 DEF IntentMove
    <3>2. CASE u = v
      <4>1. intent'[v] = i
        BY <1>1, <3>1, <3>2
      <4>2. ex[x].pc = "mark" /\ v = ex[x].v
        BY <1>4, <3>1, <3>2, <4>1
      <4> QED BY <1>7, <4>2 DEF Past
    <3>3. CASE u # v
      <4>1. intent'[v] = intent[v]
        BY <1>1, <1>3, <3>1, <3>3
      <4> QED BY <1>4, <1>7, <4>1 DEF Past
    <3> QED BY <3>2, <3>3
  <2>3. UNCHANGED intent \/ IntentMove(x)
    BY DEF Runs
  <2> QED BY <2>1, <2>2, <2>3
<1>5. CASE generation'.last >= v
  <2>1. Past(v)
    BY <1>2, <1>5 DEF Past
  <2> QED BY <2>1, <1>7
<1>6. CASE \E y \in Execs : ex'[y].v = v /\ ex'[y].pc \in {"deny", "drop", "mark"}
  <2>1. PICK y \in Execs : ex'[y].v = v /\ ex'[y].pc \in {"deny", "drop", "mark"}
    BY <1>6
  <2>2. CASE y # x
    <3>1. ex'[y] = ex[y]
      BY <1>1, <2>2 DEF Runs
    <3>2. Past(v)
      BY <2>1, <3>1 DEF Past
    <3> QED BY <3>2, <1>7
  <2>3. CASE y = x
    <3>1. \/ ex[x].pc \in {"deny", "drop", "mark"} /\ ex'[x].v = ex[x].v
          \/ generation'.last >= ex'[x].v
      BY <2>1, <2>3 DEF Runs
    <3>2. Past(v)
      BY <1>2, <2>1, <2>3, <3>1 DEF Past
    <3> QED BY <3>2, <1>7
  <2> QED BY <2>2, <2>3
<1> QED BY <1>3, <1>4, <1>5, <1>6 DEF Past

\* The index of the current generation is left alone.
LEMMA RunsKept ==
    ASSUME IInv, NEW x \in Execs, Runs(x), Calm
    PROVE  KeptStays
<1>1. /\ gens \in Nat /\ index \in [Gens -> SUBSET Tokens] /\ 0..gens \subseteq Gens
      /\ ex[x].prev \in 0..gens /\ generation.id \in 0..gens
  BY ExecTypes
<1> SUFFICES ASSUME NEW g \in 0..gens, NEW t \in Tokens, Kept(g, t), g = generation'.id, g # 0
             PROVE  t \in index'[g] \/ <<g, t>> \in unlisted' \/ t \in dead'
  BY DEF KeptStays
<1>2. UNCHANGED generation
  <2>1. CASE Rotates(x)
    <3>1. generation'.id = gens + 1
      BY <2>1 DEF Rotates
    <3> QED BY <1>1, <3>1
  <2> QED BY <2>1 DEF Runs
<1>3. t \in index[g] \/ <<g, t>> \in unlisted \/ t \in dead
  BY <1>2 DEF Kept
<1>4. index'[g] = index[g]
  <2>1. CASE UNCHANGED index
    BY <2>1
  <2>2. CASE ex[x].prev # 0 /\ index' = [index EXCEPT ![ex[x].prev] = {}]
    <3>1. ex[x].prev # g
      BY <1>1, <1>2, <2>2 DEF IInv, RevocationSound, ExecSound
    <3> QED BY <1>1, <2>2, <3>1
  <2> QED BY <2>1, <2>2 DEF Runs
<1> QED BY <1>3, <1>4 DEF Calm

LEMMA RunsWithinCap ==
    ASSUME IInv, NEW x \in Execs, Runs(x), world' = world
    PROVE  WithinCap'
<1>1. /\ index \in [Gens -> SUBSET Tokens] /\ ex[x].prev \in Gens /\ Cap \in Nat /\ Cap' = Cap
  <2>1. Cap \in Nat
    BY SessionAssumption DEF IInv, TypeOK, Cap
  <2>2. Cap' = Cap
    BY DEF Cap
  <2> QED BY <2>1, <2>2, ExecTypes
<1>2. CASE UNCHANGED index
  BY <1>1, <1>2 DEF IInv, WithinCap
<1>3. CASE index' = [index EXCEPT ![ex[x].prev] = {}]
  <2>1. \A g \in Gens : index'[g] = index[g] \/ index'[g] = {}
    BY <1>1, <1>3
  <2>2. Cardinality({}) <= Cap
    BY <1>1, FS_EmptySet
  <2> QED BY <1>1, <2>1, <2>2 DEF IInv, WithinCap
<1> QED BY <1>2, <1>3 DEF Runs

LEMMA RunsType ==
    ASSUME IInv, NEW x \in Execs, Runs(x), Calm, world' = world
    PROVE  TypeOK'
<1> DEFINE Points == {"idle", "claim", "wait", "rotate", "deny", "drop", "mark", "release", "done"}
           Intents == [status: {None, "pending", "applied"}, owner: Execs \cup {None},
                       live: BOOLEAN]
<1>1. /\ gens \in Nat /\ MaxGens \in Nat /\ gens \in Gens /\ pwd \in 0..Cardinality(Requests)
      /\ ex \in [Execs -> [pc: Points, v: 0..pwd, prev: 0..gens]] /\ intent \in [Versions -> Intents]
      /\ generation \in [id: 0..gens, last: 0..pwd, revoked: 0..gens]
      /\ \A v \in Versions : intent[v].status = None <=> v > pwd
      /\ index \in [Gens -> SUBSET Tokens]
  <2>1. intent \in [Versions -> Intents] /\ \A v \in Versions : intent[v].status = None <=> v > pwd
    BY DEF IInv, TypeOK
  <2> QED BY <2>1, ExecTypes
<1>2. /\ gens' \in Gens /\ gens <= gens' /\ gens' \in Nat
      /\ generation' \in [id: 0..gens', last: 0..pwd', revoked: 0..gens']
  <2>0. pwd' = pwd
    BY DEF Runs
  <2>1. CASE UNCHANGED <<generation, gens>>
    BY <1>1, <2>0, <2>1
  <2>2. CASE Rotates(x)
    <3>1. gens' = gens + 1 /\ gens < MaxGens
          /\ generation' = [id |-> gens + 1, last |-> ex[x].v, revoked |-> generation.id]
      BY <2>2 DEF Rotates
    <3>2. gens' \in Gens /\ gens <= gens' /\ gens' \in Nat
      BY <1>1, <3>1 DEF Gens
    <3>3. generation.id \in 0..gens' /\ ex[x].v \in 0..pwd /\ gens + 1 \in 0..gens'
      BY <1>1, <3>1
    <3> QED BY <2>0, <3>1, <3>2, <3>3
  <2> QED BY <2>1, <2>2 DEF Runs
<1>3. index' \in [Gens -> SUBSET Tokens]
  BY <1>1 DEF Runs
<1>4. intent' \in [Versions -> Intents] /\ \A v \in Versions : intent'[v].status = None <=> v > pwd'
  <2>1. CASE UNCHANGED intent
    BY <1>1, <2>1 DEF Runs
  <2>2. CASE IntentMove(x)
    <3>1. PICK u \in Versions,
               i \in [status: {"pending", "applied"}, owner: Execs \cup {None}, live: BOOLEAN] :
              intent[u].status = "pending" /\ intent' = [intent EXCEPT ![u] = i]
      BY <2>2 DEF IntentMove
    <3>2. i \in Intents /\ i.status # None /\ intent[u].status # None
      BY <3>1 DEF None
    <3>3. intent' \in [Versions -> Intents]
      BY <1>1, <3>1, <3>2
    <3>4. \A v \in Versions : intent'[v].status = None <=> intent[v].status = None
      BY <1>1, <3>1, <3>2
    <3>5. pwd' = pwd
      BY DEF Runs
    <3> QED BY <1>1, <3>3, <3>4, <3>5
  <2> QED BY <2>1, <2>2 DEF Runs
<1>5. ex' \in [Execs -> [pc: Points, v: 0..pwd', prev: 0..gens']]
  <2>1. 0..gens \subseteq 0..gens' /\ pwd' = pwd
    BY <1>1, <1>2 DEF Runs
  <2>2. ex \in [Execs -> [pc: Points, v: 0..pwd', prev: 0..gens']]
    BY <1>1, <2>1
  <2>3. ex'[x] \in [pc: Points, v: 0..pwd', prev: 0..gens'] /\ ex' = [ex EXCEPT ![x] = ex'[x]]
    BY <2>1 DEF Runs
  <2> QED BY <2>2, <2>3
<1>6. /\ tokens' \in [Tokens -> Payload] /\ \A t \in Tokens : tokens'[t].gen <= gens'
      /\ pr' \in [Procs -> Proc]
      /\ \A p \in Procs : pr'[p].fence <= gens' /\ pr'[p].seen.gen <= gens'
  <2>1. UNCHANGED <<tokens, pr>> /\ tokens \in [Tokens -> Payload] /\ pr \in [Procs -> Proc]
    BY Types DEF Calm
  <2>2. /\ \A t \in Tokens : tokens[t].gen \in 0..gens
        /\ \A p \in Procs : pr[p].fence \in 0..gens /\ pr[p].seen.gen \in 0..gens
    BY Types
  <2>3. 0..gens \subseteq 0..gens' /\ \A k \in 0..gens' : k <= gens'
    BY <1>1, <1>2
  <2> QED BY <2>1, <2>2, <2>3
<1>7. /\ world' \in Worlds /\ pwd' \in 0..Cardinality(Requests) /\ faults' \in 0..MaxFaults'
      /\ snapshots' \in 0..MaxSnapshots' /\ deny' \in BOOLEAN
      /\ device' \in [Flags -> Tokens \cup {None}] /\ delivered' \subseteq Tokens
      /\ dead' \subseteq Tokens /\ unlisted' \subseteq Gens \X Tokens
  BY DEF IInv, TypeOK, Runs, Calm, MaxFaults, MaxSnapshots
<1> HIDE DEF Intents
<1> QED BY <1>2, <1>3, <1>4, <1>5, <1>6, <1>7 DEF TypeOK, Intents

LEMMA RunsRevocation ==
    ASSUME IInv, NEW x \in Execs, Runs(x)
    PROVE  RevocationSound'
<1>1. /\ gens \in Nat /\ pwd \in Nat /\ RevocationSound /\ DOMAIN ex = Execs
      /\ \A y \in Execs : ex[y].prev \in 0..gens /\ ex[y].v \in 0..pwd
      /\ generation.id \in 0..gens /\ generation.revoked \in 0..gens /\ DOMAIN intent = Versions
      /\ deny \in BOOLEAN /\ pwd' = pwd /\ (deny => deny')
  <2>1. RevocationSound /\ pwd' = pwd /\ (deny => deny')
    BY DEF IInv, Runs
  <2> QED BY <2>1, ExecTypes
<1>2. generation'.id = 0 \/ generation'.revoked < generation'.id
  <2>1. CASE UNCHANGED generation
    BY <1>1, <2>1 DEF RevocationSound
  <2>2. CASE Rotates(x)
    <3>1. generation'.id = gens + 1 /\ generation'.revoked = generation.id
      BY <2>2 DEF Rotates
    <3> QED BY <1>1, <3>1
  <2> QED BY <2>1, <2>2 DEF Runs
<1>3. \A k \in 0..gens : (k = 0 \/ generation.id = 0 \/ k < generation.id) =>
                             (k = 0 \/ generation'.id = 0 \/ k < generation'.id)
  <2>1. CASE UNCHANGED generation
    BY <2>1
  <2>2. CASE Rotates(x)
    <3>1. generation'.id = gens + 1
      BY <2>2 DEF Rotates
    <3> QED BY <1>1, <3>1
  <2> QED BY <2>1, <2>2 DEF Runs
<1>4. ASSUME NEW y \in Execs
      PROVE  ExecSound(y)'
  <2>1. CASE y # x
    <3>1. ex'[y] = ex[y] /\ ExecSound(y)
      BY <1>1, <2>1 DEF Runs, RevocationSound
    <3>2. ex'[y].prev = 0 \/ generation'.id = 0 \/ ex'[y].prev < generation'.id
      BY <1>1, <1>3, <3>1 DEF ExecSound
    <3> QED BY <1>1, <3>1, <3>2 DEF ExecSound
  <2>2. CASE y = x
    <3>1. /\ ex'[x].pc # "idle" => ex'[x].v # 0
          /\ ex'[x].prev \in {0, ex[x].prev, generation'.revoked}
          /\ (ex'[x].pc = "drop" => deny') /\ (ex'[x].pc = "mark" => deny' \/ ex'[x].v < pwd)
      BY DEF Runs
    <3>2. ex'[x].prev = 0 \/ generation'.id = 0 \/ ex'[x].prev < generation'.id
      BY <1>1, <1>2, <1>3, <3>1 DEF RevocationSound, ExecSound
    <3>3. /\ ex'[x].pc = "drop" => deny'
          /\ ex'[x].pc = "mark" => deny' \/ ex'[x].v < pwd'
      BY <1>1 DEF Runs
    <3> QED BY <2>2, <3>1, <3>2, <3>3 DEF ExecSound
  <2> QED BY <2>1, <2>2
<1>5. ASSUME NEW v \in Versions, intent'[v].status = "applied"
      PROVE  deny' \/ v < pwd'
  <2>1. CASE intent[v].status = "applied"
    BY <1>1, <2>1 DEF RevocationSound
  <2>2. CASE intent[v].status # "applied"
    <3>1. IntentMove(x)
      BY <1>5, <2>2 DEF Runs
    <3>2. PICK u \in Versions,
               i \in [status: {"pending", "applied"}, owner: Execs \cup {None}, live: BOOLEAN] :
              /\ intent' = [intent EXCEPT ![u] = i]
              /\ i.status = "applied" => ex[x].pc = "mark" /\ u = ex[x].v
      BY <3>1 DEF IntentMove
    <3>3. u = v
      BY <1>1, <1>5, <2>2, <3>2
    <3>4. ex[x].pc = "mark" /\ v = ex[x].v
      BY <1>1, <1>5, <3>2, <3>3
    <3> QED BY <1>1, <3>4 DEF RevocationSound, ExecSound
  <2> QED BY <2>1, <2>2
<1>6. {y \in Requests : ex'[y].pc # "idle"} = {y \in Requests : ex[y].pc # "idle"}
  <2>1. ASSUME NEW y \in Requests
        PROVE  ex'[y].pc # "idle" <=> ex[y].pc # "idle"
    <3>1. y \in Execs
      BY DEF Execs
    <3>2. CASE y # x
      BY <1>1, <3>1, <3>2 DEF Runs
    <3>3. CASE y = x
      BY <3>3 DEF Runs
    <3> QED BY <3>2, <3>3
  <2> QED BY <2>1
<1>7. pwd' = Cardinality({y \in Requests : ex'[y].pc # "idle"})
  BY <1>1, <1>6 DEF RevocationSound
<1> QED BY <1>2, <1>4, <1>5, <1>7 DEF RevocationSound

LEMMA ExecKeeps ==
    ASSUME IInv, NEW x \in Execs, Apply(x) \/ ApplyFails(x) \/ ExecDies(x), world' = world
    PROVE  IInv'
<1>1. Runs(x) /\ Calm
  BY ExecRuns
<1>2. CutStays /\ KeptStays
  BY <1>1, RunsCut, RunsKept
<1> QED BY <1>1, <1>2, CalmKeeps, RunsType, RunsRevocation, RunsWithinCap DEF IInv

LEMMA ChangeKeeps ==
    ASSUME IInv, NEW x \in Requests, ChangePassword(x), world' = world
    PROVE  IInv'
<1> DEFINE S == {y \in Requests : ex[y].pc # "idle"}
           Points == {"idle", "claim", "wait", "rotate", "deny", "drop", "mark", "release", "done"}
           Intents == [status: {None, "pending", "applied"}, owner: Execs \cup {None},
                       live: BOOLEAN]
<1>1. /\ gens \in Nat /\ pwd \in Nat /\ pwd \in 0..Cardinality(Requests) /\ x \in Execs
      /\ ex \in [Execs -> [pc: Points, v: 0..pwd, prev: 0..gens]]
      /\ intent \in [Versions -> Intents] /\ Cardinality(Requests) \in Nat
      /\ generation \in [id: 0..gens, last: 0..pwd, revoked: 0..gens]
      /\ \A v \in Versions : intent[v].status = None <=> v > pwd
      /\ RevocationSound
  BY Types, Constants DEF IInv, TypeOK, Execs
<1>2. /\ ex[x].pc = "idle" /\ pwd' = pwd + 1 /\ Calm
      /\ intent' = [intent EXCEPT ![pwd + 1] = [NoIntent EXCEPT !.status = "pending"]]
      /\ ex' = [ex EXCEPT ![x] = [NoExec EXCEPT !.pc = "claim", !.v = pwd + 1]]
      /\ UNCHANGED <<generation, gens, index, deny, faults>>
  BY DEF ChangePassword, Exec
<1>3. /\ [NoIntent EXCEPT !.status = "pending"] \in Intents
      /\ [NoIntent EXCEPT !.status = "pending"].status = "pending"
  <2>1. NoIntent \in [status: {None}, owner: Execs \cup {None}, live: BOOLEAN]
    BY DEF NoIntent
  <2> QED BY <2>1
<1>4. /\ ex'[x].pc = "claim" /\ ex'[x].v = pwd + 1 /\ ex'[x].prev = 0
      /\ ex'[x] \in [pc: Points, v: {pwd + 1}, prev: {0}] /\ ex' = [ex EXCEPT ![x] = ex'[x]]
      /\ \A y \in Execs : y # x => ex'[y] = ex[y]
  <2>1. NoExec \in [pc: Points, v: {0}, prev: {0}]
    BY DEF NoExec
  <2> QED BY <1>1, <1>2, <2>1
\* The requests that have changed the password, of which there is one more.
<1>5. /\ pwd' = Cardinality({y \in Requests : ex'[y].pc # "idle"})
      /\ pwd' \in 1..Cardinality(Requests)
  <2>1. x \notin S /\ S \cup {x} \subseteq Requests /\ IsFiniteSet(Requests)
    BY <1>2, SessionAssumption
  <2>2. IsFiniteSet(S) /\ IsFiniteSet(S \cup {x})
        /\ Cardinality(S \cup {x}) <= Cardinality(Requests)
    BY <2>1, FS_Subset
  <2>3. Cardinality(S \cup {x}) = Cardinality(S) + 1
    BY <2>1, <2>2, FS_AddElement
  <2>4. pwd = Cardinality(S)
    BY <1>1 DEF RevocationSound
  <2>5. \A y \in Requests : y \in Execs
    BY DEF Execs
  <2>6. {y \in Requests : ex'[y].pc # "idle"} = S \cup {x}
    BY <1>4, <2>5
  <2>7. pwd' = Cardinality({y \in Requests : ex'[y].pc # "idle"})
    BY <1>2, <2>3, <2>4, <2>6
  <2>8. pwd + 1 <= Cardinality(Requests)
    BY <2>2, <2>3, <2>4
  <2> HIDE DEF S
  <2> QED BY <1>1, <1>2, <2>7, <2>8
<1>6. pwd + 1 \in Versions
  BY <1>2, <1>5 DEF Versions
<1>7. \A v \in Versions : \/ v = pwd + 1 /\ intent'[v] \in Intents /\ intent'[v].status = "pending"
                          \/ v # pwd + 1 /\ intent'[v] = intent[v]
  BY <1>1, <1>2, <1>3
<1> HIDE DEF S
<1>8. Cutting' \subseteq Cutting
  <2>1. ASSUME NEW v \in Cutting'
        PROVE  v \in Cutting
    <3>1. v \in Versions /\ Past(v)'
      BY DEF Cutting
    <3>2. intent'[v].status = "applied" => intent[v].status = "applied"
      BY <1>7, <3>1
    <3>3. \A y \in Execs : ex'[y].pc \in {"deny", "drop", "mark"} => ex'[y] = ex[y]
      BY <1>4
    <3> QED BY <1>2, <3>1, <3>2, <3>3 DEF Past, Cutting
  <2> QED BY <2>1
<1>9. CutStays /\ KeptStays
  BY <1>2, <1>8 DEF CutStays, KeptStays, CutFrom, Kept, Calm
<1>10. TypeOK'
  <2>1. 0..pwd \subseteq 0..pwd' /\ pwd + 1 \in 0..pwd'
    BY <1>1, <1>2
  <2>2. ex' \in [Execs -> [pc: Points, v: 0..pwd', prev: 0..gens']]
    <3>1. ex \in [Execs -> [pc: Points, v: 0..pwd', prev: 0..gens']]
      BY <1>1, <1>2, <2>1
    <3>2. ex'[x] \in [pc: Points, v: 0..pwd', prev: 0..gens']
      BY <1>1, <1>2, <1>4, <2>1
    <3> QED BY <1>4, <3>1, <3>2
  <2>3. generation' \in [id: 0..gens', last: 0..pwd', revoked: 0..gens']
    BY <1>1, <1>2, <2>1
  <2>4. intent' \in [Versions -> Intents]
    BY <1>1, <1>2, <1>3
  <2>5. ASSUME NEW v \in Versions
        PROVE  intent'[v].status = None <=> v > pwd'
    <3>1. v \in Nat /\ (v = pwd + 1 \/ (v > pwd' <=> v > pwd))
      BY <1>1, <1>2 DEF Versions
    <3>2. CASE v = pwd + 1
      <4>1. intent'[v].status # None /\ ~ (v > pwd')
        BY <1>1, <1>2, <1>7, <3>2 DEF None
      <4> QED BY <4>1
    <3>3. CASE v # pwd + 1
      BY <1>1, <1>7, <3>1, <3>3
    <3> QED BY <3>2, <3>3
  <2>6. /\ world' \in Worlds /\ pwd' \in 0..Cardinality(Requests) /\ faults' \in 0..MaxFaults'
        /\ snapshots' \in 0..MaxSnapshots' /\ deny' \in BOOLEAN /\ gens' \in Gens
        /\ index' \in [Gens -> SUBSET Tokens]
        /\ device' \in [Flags -> Tokens \cup {None}] /\ delivered' \subseteq Tokens
        /\ dead' \subseteq Tokens /\ unlisted' \subseteq Gens \X Tokens
    BY <1>1, <1>2, <1>5 DEF IInv, TypeOK, Calm, MaxFaults, MaxSnapshots
  <2>7. /\ tokens' \in [Tokens -> Payload] /\ \A t \in Tokens : tokens'[t].gen <= gens'
        /\ pr' \in [Procs -> Proc]
        /\ \A p \in Procs : pr'[p].fence <= gens' /\ pr'[p].seen.gen <= gens'
    BY <1>2 DEF IInv, TypeOK, Calm
  <2> HIDE DEF Intents
  <2> QED BY <2>2, <2>3, <2>4, <2>5, <2>6, <2>7 DEF TypeOK, Intents
<1>11. RevocationSound'
  <2>1. \A y \in Execs : ex[y].v \in 0..pwd
    BY <1>1
  <2>2. ASSUME NEW y \in Execs
        PROVE  ExecSound(y)'
    <3>1. CASE y = x
      BY <1>1, <1>2, <1>4, <3>1 DEF ExecSound
    <3>2. CASE y # x
      <4>1. ex'[y] = ex[y] /\ ExecSound(y)
        BY <1>1, <1>4, <3>2 DEF RevocationSound
      <4>2. ex[y].v < pwd => ex[y].v < pwd'
        BY <1>1, <1>2, <2>1
      <4> QED BY <1>2, <4>1, <4>2 DEF ExecSound
    <3> QED BY <3>1, <3>2
  <2>3. \A v \in Versions : intent'[v].status = "applied" => deny' \/ v < pwd'
    <3>1. ASSUME NEW v \in Versions, intent'[v].status = "applied"
          PROVE  deny' \/ v < pwd'
      <4>1. intent[v].status = "applied" /\ v \in Nat
        BY <1>7, <3>1 DEF Versions
      <4>2. v < pwd => v < pwd'
        BY <1>1, <1>2, <4>1
      <4> QED BY <1>1, <1>2, <4>1, <4>2 DEF RevocationSound
    <3> QED BY <3>1
  <2>4. generation'.id = 0 \/ generation'.revoked < generation'.id
    BY <1>1, <1>2 DEF RevocationSound
  <2> QED BY <1>5, <2>2, <2>3, <2>4 DEF RevocationSound
<1>12. WithinCap'
  BY <1>2 DEF IInv, WithinCap, Cap
<1> QED BY <1>2, <1>9, <1>10, <1>11, <1>12, CalmKeeps DEF IInv

LEMMA LapseKeeps ==
    ASSUME IInv, NEW v \in Versions, LeaseLapses(v), world' = world
    PROVE  IInv'
<1> DEFINE Intents == [status: {None, "pending", "applied"}, owner: Execs \cup {None},
                       live: BOOLEAN]
<1>1. /\ UNCHANGED <<pwd, generation, gens, index, deny, ex>> /\ Calm
      /\ intent' = [intent EXCEPT ![v] = [intent[v] EXCEPT !.live = FALSE]]
      /\ intent \in [Versions -> Intents] /\ TypeOK /\ RevocationSound
  BY DEF LeaseLapses, IInv, TypeOK
<1>2. /\ [intent[v] EXCEPT !.live = FALSE] \in Intents
      /\ [intent[v] EXCEPT !.live = FALSE].status = intent[v].status
  BY <1>1
<1>3. intent' \in [Versions -> Intents] /\ \A u \in Versions : intent'[u].status = intent[u].status
  BY <1>1, <1>2
<1>4. Cutting' \subseteq Cutting
  BY <1>1, <1>3 DEF Cutting, Past
<1>5. CutStays /\ KeptStays
  BY <1>1, <1>4 DEF CutStays, KeptStays, CutFrom, Kept, Calm
<1>6. faults' \in 0..MaxFaults
  <2>1. MaxFaults \in Nat /\ faults \in 0..MaxFaults
    BY <1>1, SessionAssumption DEF TypeOK, MaxFaults
  <2> QED BY <2>1 DEF LeaseLapses, Fault
<1> HIDE DEF Intents
<1>7. TypeOK'
  <2>1. \A u \in Versions : intent'[u].status = None <=> u > pwd'
    BY <1>1, <1>3 DEF TypeOK
  <2> QED BY <1>1, <1>3, <1>6, <2>1 DEF TypeOK, Calm, MaxFaults, MaxSnapshots, Intents
<1>8. RevocationSound'
  <2>1. \A u \in Versions : intent'[u].status = "applied" => deny' \/ u < pwd'
    BY <1>1, <1>3 DEF RevocationSound
  <2> QED BY <1>1, <2>1 DEF RevocationSound, ExecSound
<1>9. WithinCap'
  BY <1>1 DEF IInv, WithinCap, Cap
<1> QED BY <1>1, <1>5, <1>7, <1>8, <1>9, CalmKeeps DEF IInv

LEMMA LossKeeps ==
    ASSUME IInv, GenerationLost, world' = world
    PROVE  IInv'
<1>1. /\ UNCHANGED <<pwd, intent, gens, index, deny, ex>> /\ Calm /\ TypeOK /\ RevocationSound
      /\ generation' = [id |-> 0, last |-> 0, revoked |-> 0] /\ pwd \in Nat /\ gens \in Nat
  BY Types, Constants DEF GenerationLost, NoGen, IInv
<1>2. generation'.id = 0 /\ generation' \in [id: 0..gens', last: 0..pwd', revoked: 0..gens']
  BY <1>1
<1>3. CutStays /\ KeptStays
  BY <1>2 DEF CutStays, KeptStays
<1>4. faults' \in 0..MaxFaults
  <2>1. MaxFaults \in Nat /\ faults \in 0..MaxFaults
    BY <1>1, SessionAssumption DEF TypeOK, MaxFaults
  <2> QED BY <2>1 DEF GenerationLost, Fault
<1>5. TypeOK'
  BY <1>1, <1>2, <1>4 DEF TypeOK, Calm, MaxFaults, MaxSnapshots
<1>6. RevocationSound'
  BY <1>1, <1>2 DEF RevocationSound, ExecSound
<1>7. WithinCap'
  BY <1>1 DEF IInv, WithinCap, Cap
<1> QED BY <1>1, <1>3, <1>5, <1>6, <1>7, CalmKeeps DEF IInv

-----------------------------------------------------------------------------
(* The invariant holds in every state. *)

LEMMA InitSound == Init => IInv
<1> SUFFICES ASSUME Init PROVE IInv
  OBVIOUS
<1> USE DEF Init
<1>1. /\ 0 \in Gens /\ MaxGens \in Nat /\ Cardinality(Requests) \in Nat
      /\ \A v \in Versions : v \in Nat /\ v # 0
  BY Constants DEF Gens, Versions
<1>2. /\ tokens[Legacy].ver = "legacy" /\ tokens[Legacy].by = None /\ tokens[Legacy].gen = 0
      /\ \A t \in Tokens : t # Legacy => tokens[t] = NoPayload
      /\ tokens \in [Tokens -> Payload] /\ \A t \in Tokens : tokens[t].gen = 0
  <2>1. /\ [NoPayload EXCEPT !.ver = "legacy"] \in Payload
        /\ [NoPayload EXCEPT !.ver = "legacy"].ver = "legacy"
        /\ [NoPayload EXCEPT !.ver = "legacy"].by = None
        /\ [NoPayload EXCEPT !.ver = "legacy"].gen = 0
    BY Constants DEF Payload
  <2> HIDE DEF Payload, NoPayload
  <2> QED BY <2>1, Constants
<1>3. /\ \A x \in Execs : ex[x].pc = "idle" /\ ex[x].v = 0 /\ ex[x].prev = 0
      /\ ex \in [Execs -> [pc: {"idle", "claim", "wait", "rotate", "deny", "drop", "mark",
                                "release", "done"}, v: 0..pwd, prev: 0..gens]]
  BY <1>1 DEF NoExec
<1>4. /\ generation.id = 0 /\ generation.last = 0 /\ generation.revoked = 0
      /\ generation \in [id: 0..gens, last: 0..pwd, revoked: 0..gens]
  BY DEF NoGen
<1>5. /\ \A v \in Versions : intent[v].status = None
      /\ intent \in [Versions -> [status: {None, "pending", "applied"}, owner: Execs \cup {None},
                                  live: BOOLEAN]]
  BY DEF NoIntent
<1>6. TypeOK
  <2>1. MaxFaults \in Nat /\ MaxSnapshots \in Nat /\ world \in Worlds
    BY SessionAssumption DEF MaxFaults, MaxSnapshots
  <2>2. \A v \in Versions : intent[v].status = None <=> v > pwd
    BY <1>1, <1>5
  <2>3. /\ pr \in [Procs -> Proc]
        /\ \A p \in Procs : pr[p].fence <= gens /\ pr[p].seen.gen <= gens
    BY Constants
  <2>4. index \in [Gens -> SUBSET Tokens] /\ device \in [Flags -> Tokens \cup {None}]
        /\ delivered \subseteq Tokens /\ dead \subseteq Tokens /\ unlisted \subseteq Gens \X Tokens
        /\ deny \in BOOLEAN
    BY Constants
  <2>5. pwd \in 0..Cardinality(Requests) /\ gens \in Gens /\ faults \in 0..MaxFaults
        /\ snapshots \in 0..MaxSnapshots /\ \A t \in Tokens : tokens[t].gen <= gens
    BY <1>1, <1>2, <2>1
  <2> HIDE DEF Init
  <2> QED BY <1>2, <1>3, <1>4, <1>5, <2>1, <2>2, <2>3, <2>4, <2>5 DEF TypeOK
<1>7. \A t \in Tokens : TokenSound(t)
  BY <1>2, Constants DEF TokenSound, CutFrom, Kept, None
<1>8. \A p \in Procs : ProcSound(p)
  BY Constants DEF ProcSound, Shape, CutFrom, Wrote, Listed, Working, None
<1>9. \A p \in Logins : OwnSound(p)
  <2>1. ASSUME NEW p \in Logins
        PROVE  tokens[p] = NoPayload /\ p # Legacy /\ p # None /\ p \in Tokens /\ p \in Procs
    BY <1>2, Constants DEF Procs
  <2>2. \A f \in Flags : device[f] \in {Legacy, None}
    OBVIOUS
  <2>3. \A q \in Procs : pr[q].tok = None
    BY Constants
  <2>4. delivered = {Legacy} /\ dead = {}
    OBVIOUS
  <2> HIDE DEF Init
  <2> QED BY <2>1, <2>2, <2>3, <2>4, Constants DEF OwnSound
<1>10. RevocationSound
  <2>1. {x \in Requests : ex[x].pc # "idle"} = {}
    BY <1>3 DEF Execs
  <2>2. pwd = Cardinality({x \in Requests : ex[x].pc # "idle"})
    BY <2>1, FS_EmptySet
  <2>3. \A v \in Versions : intent[v].status # "applied"
    BY <1>5 DEF None
  <2> QED BY <1>3, <1>4, <2>2, <2>3 DEF RevocationSound, ExecSound
<1>11. WithinCap
  <2>1. Cap \in Nat
    BY SessionAssumption DEF Cap
  <2> QED BY <2>1, FS_EmptySet DEF WithinCap
<1> HIDE DEF Init
<1> QED BY <1>6, <1>7, <1>8, <1>9, <1>10, <1>11 DEF IInv

LEMMA StutterKeeps ==
    ASSUME IInv, UNCHANGED <<vars, world>>
    PROVE  IInv'
<1>1. /\ UNCHANGED <<pwd, intent, generation, gens, index, deny, ex, faults, world>> /\ Calm
      /\ Cutting' = Cutting
  BY DEF vars, redis, Calm, Cutting, Past
<1>2. CutStays /\ KeptStays
  BY <1>1 DEF CutStays, KeptStays, CutFrom, Kept, Calm
<1>3. TypeOK'
  BY <1>1 DEF IInv, TypeOK, Calm, MaxFaults, MaxSnapshots
<1>4. RevocationSound'
  BY <1>1 DEF IInv, RevocationSound, ExecSound
<1>5. WithinCap'
  BY <1>1 DEF IInv, WithinCap, Cap
<1> QED BY <1>1, <1>2, <1>3, <1>4, <1>5, CalmKeeps DEF IInv

LEMMA NextKeeps == IInv /\ [Next]_<<vars, world>> => IInv'
<1> SUFFICES ASSUME IInv, [Next]_<<vars, world>> PROVE IInv'
  OBVIOUS
<1>1. CASE UNCHANGED <<vars, world>>
  BY <1>1, StutterKeeps
<1>2. CASE Next
  <2>0. world' = world
    BY <1>2 DEF Next
  <2>1. CASE \E p \in Procs : ProcStep(p)
    BY <2>0, <2>1, ProcStepKeeps
  <2>2. CASE \E t \in Tokens : UpdateSessionSnapshot(t)
    BY <2>0, <2>2, SnapshotKeeps
  <2>3. CASE \E x \in Execs : ChangePassword(x) \/ Apply(x) \/ ApplyFails(x) \/ ExecDies(x)
    <3>1. PICK x \in Execs : ChangePassword(x) \/ Apply(x) \/ ApplyFails(x) \/ ExecDies(x)
      BY <2>3
    <3>2. CASE ChangePassword(x)
      <4>1. x \in Requests
        BY <3>2 DEF ChangePassword
      <4> QED BY <2>0, <3>2, <4>1, ChangeKeeps
    <3> QED BY <2>0, <3>1, <3>2, ExecKeeps
  <2>4. CASE \E v \in Versions : LeaseLapses(v)
    BY <2>0, <2>4, LapseKeeps
  <2>5. CASE GenerationLost
    BY <2>0, <2>5, LossKeeps
  <2> QED BY <1>2, <2>1, <2>2, <2>3, <2>4, <2>5 DEF Next, Step, ProcStep
<1> QED BY <1>1, <1>2

\* The inductive invariant holds in every reachable state.
THEOREM SessionInvariant == Spec => []IInv
<1> QED BY InitSound, NextKeeps, PTL DEF Spec

-----------------------------------------------------------------------------
(* What users and logins rely on. *)

LEMMA WithinMaxPerUid == IInv => SessionsCapped
<1> SUFFICES ASSUME IInv PROVE SessionsCapped
  OBVIOUS
<1> DEFINE R == {t \in delivered : /\ Valid(t) /\ tokens[t].ver = "v3"
                                   /\ <<generation.id, t>> \notin unlisted}
<1>1. /\ index \in [Gens -> SUBSET Tokens] /\ IsFiniteSet(Tokens) /\ Cap \in Nat
      /\ generation.id \in Gens /\ delivered \subseteq Tokens
  <2>1. IsFiniteSet(Tokens)
    <3>1. Tokens = Logins \cup {Legacy} /\ IsFiniteSet(Logins)
      BY SessionAssumption DEF Tokens
    <3> QED BY <3>1, FS_AddElement
  <2>2. Cap \in Nat
    BY SessionAssumption DEF IInv, TypeOK, Cap
  <2>3. generation.id \in Gens
    BY ExecTypes
  <2> QED BY <2>1, <2>2, <2>3, Types
<1>2. CASE generation.id = 0
  <2>1. R = {}
    BY <1>2 DEF Valid
  <2>2. Cardinality(R) = 0
    BY <2>1, FS_EmptySet
  <2>3. Cardinality(R) <= Cap
    BY <1>1, <2>2
  <2> QED BY <2>3 DEF SessionsCapped
<1>3. CASE generation.id # 0
  <2>1. ASSUME NEW t \in R
        PROVE  t \in index[generation.id]
    <3>1. /\ t \in Tokens /\ t \in delivered /\ tokens[t].ver = "v3"
          /\ tokens[t].gen = generation.id /\ <<generation.id, t>> \notin unlisted
      BY <1>1 DEF Valid
    <3>2. t \notin dead
      BY <3>1 DEF IInv, TokenSound, None
    <3>3. Kept(tokens[t].gen, t)
      BY <3>1 DEF IInv, TokenSound
    <3> QED BY <1>3, <3>1, <3>2, <3>3 DEF Kept
  <2>2. R \subseteq index[generation.id] /\ IsFiniteSet(index[generation.id])
    BY <1>1, <2>1, FS_Subset
  <2>3. /\ Cardinality(R) <= Cardinality(index[generation.id])
        /\ Cardinality(R) \in Nat /\ Cardinality(index[generation.id]) \in Nat
    BY <2>2, FS_Subset, FS_CardinalityType
  <2>4. Cardinality(index[generation.id]) <= Cap
    BY <1>1 DEF IInv, WithinCap
  <2>5. Cardinality(R) <= Cap
    BY <1>1, <2>3, <2>4
  <2> QED BY <2>5 DEF SessionsCapped
<1> QED BY <1>2, <1>3

\* What a change of the password, a logout and the cap have ended has ended: no v3 session
\* opened with an older password is valid once the change is recorded as applied, nor any
\* session from before v3 once that is the newest one; a deleted token never comes back; and
\* the valid sessions that logins have returned stay within max_per_uid.
THEOREM SessionsAreSound == Spec => []SessionsSound
<1>1. IInv => SessionsSound
  <2> SUFFICES ASSUME IInv PROVE SessionsSound
    OBVIOUS
  <2>1. AppliedRevokes
    <3>1. ASSUME NEW v \in Versions, intent[v].status = "applied", NEW t \in Tokens,
                 Valid(t), tokens[t].ver = "v3"
          PROVE  tokens[t].cred >= v
      <4>1. v \in Cutting
        BY <3>1 DEF Cutting, Past
      <4>2. CutFrom(tokens[t].gen, tokens[t].cred)
        BY <3>1 DEF IInv, TokenSound
      <4>3. tokens[t].gen = generation.id /\ tokens[t].gen # 0
        BY <3>1 DEF Valid
      <4> QED BY <4>1, <4>2, <4>3 DEF CutFrom
    <3> QED BY <3>1 DEF AppliedRevokes
  <2>2. NewestDenies
    <3>1. ASSUME pwd > 0, intent[pwd].status = "applied"
          PROVE  deny
      <4>1. pwd \in Versions /\ ~ (pwd < pwd)
        BY <3>1, Types, Constants DEF Versions
      <4> QED BY <3>1, <4>1 DEF IInv, RevocationSound
    <3> QED BY <3>1 DEF NewestDenies
  <2>3. DeadStaysDead
    BY DEF IInv, TypeOK, TokenSound, DeadStaysDead
  <2> QED BY <2>1, <2>2, <2>3, WithinMaxPerUid DEF IInv, SessionsSound
<1> QED BY <1>1, SessionInvariant, PTL

LEMMA DeletesItsOwn ==
    ASSUME IInv, [Next]_<<vars, world>>, NEW p \in Logins, At(p, "delete"), pr[p].tok = p,
           pr'[p].pc = "unbind"
    PROVE  p \notin delivered
<1>1. p \in Procs /\ pr \in [Procs -> Proc] /\ pr[p].pc = "delete"
  BY Types DEF Procs, At
<1>2. \E q \in Procs : ProcStep(q)
  <2>1. ~ UNCHANGED pr
    BY <1>1
  <2>2. ~ UNCHANGED <<vars, world>> /\ ~ \E t \in Tokens : UpdateSessionSnapshot(t)
    BY <2>1 DEF vars, UpdateSessionSnapshot
  <2>3. ~ Calm
    BY <2>1 DEF Calm
  <2>4. ~ \E x \in Execs : ChangePassword(x) \/ Apply(x) \/ ApplyFails(x) \/ ExecDies(x)
    BY <2>3, ExecRuns DEF ChangePassword
  <2>5. ~ (\E v \in Versions : LeaseLapses(v)) /\ ~ GenerationLost
    BY <2>3 DEF LeaseLapses, GenerationLost
  <2> QED BY <2>2, <2>4, <2>5 DEF Next, Step, ProcStep
<1>3. ProcStep(p)
  <2>1. PICK q \in Procs : ProcStep(q)
    BY <1>2
  <2>2. pr' = [pr EXCEPT ![q] = pr'[q]]
    BY <2>1, StepMoves DEF Moves
  <2> QED BY <1>1, <2>1, <2>2
<1>4. DeleteToken(p)
  <2>1. CASE CallFails(p) \/ Crash(p)
    <3>1. pr' = [pr EXCEPT ![p] = Done]
      BY <1>1, <2>1 DEF CallFails, Crash, Failed, At, Set
    <3> QED BY <1>1, <3>1, Constants
  <2> QED BY <1>1, <1>3, <2>1
       DEF ProcStep, At, StartLogin, BeginIssue, Authenticate, DeviceToken, LoadToken, Unbind,
           Unlist, CheckFence, ReadToken, WriteToken, ListSession, Unreserve, RemoveReservation,
           BindDevice, CheckAgain, Deliver, AnswerLost, StartLogout
<1>5. Same(p)
  <2>1. CASE ~ Same(p)
    <3>1. \/ pr' = [pr EXCEPT ![p] = Done]
          \/ pr' = [pr EXCEPT ![p] = [pr[p] EXCEPT !.pc = "load", !.tries = pr[p].tries + 1]]
      BY <1>1, <1>4, <2>1 DEF DeleteToken, Set, At
    <3>2. pr'[p] = Done \/ pr'[p] = [pr[p] EXCEPT !.pc = "load", !.tries = pr[p].tries + 1]
      BY <1>1, <3>1
    <3>3. Done.pc = "done" /\ "pc" \in DOMAIN pr[p]
      BY <1>1, Constants DEF Proc
    <3>4. pr'[p].pc \in {"done", "load"}
      BY <3>2, <3>3
    <3> QED BY <3>4
  <2> QED BY <2>1
<1>6. tokens[p].by = p /\ p # None
  <2>1. pr[p].seen.by = p
    BY <1>1 DEF IInv, ProcSound
  <2> QED BY <1>5, <2>1, Constants DEF Same
<1> QED BY <1>1, <1>6 DEF IInv, OwnSound

\* A login that takes its token back deletes it only while no login has returned it: another
\* login that adopted the token has removed the issuer's mark before.
THEOREM AdoptionsAreKept == Spec => AdoptedIsKept
<1>1. IInv /\ [Next]_<<vars, world>> =>
          [\A p \in Logins : (At(p, "delete") /\ pr[p].tok = p /\ pr'[p].pc = "unbind")
               => p \notin delivered]_vars
  BY DeletesItsOwn
<1> QED BY <1>1, SessionInvariant, PTL DEF Spec, AdoptedIsKept

-----------------------------------------------------------------------------
(* The rollout: the inductive invariant. *)

Rep == [st : {"off", "boot", "up", "gone"}, mode : 0..4, cap : 1..2, seen : 0..4,
        fenced : BOOLEAN, self : 0..4, held : BOOLEAN, publishing : BOOLEAN, cut : BOOLEAN,
        frozen : BOOLEAN, writing : BOOLEAN]
Advert == -1..4
Registry == [Replicas -> Advert]
Control == [floor : 0..4, version : Nat, cap : 1..2, paused : BOOLEAN]
Decision == [pc : {"idle", "live", "scan", "final", "advance"}, floor : 0..4, version : Nat,
             cap : 1..2, live : Registry, cand : BOOLEAN \X BOOLEAN, ok : BOOLEAN]
Window == [set : Registry, known : BOOLEAN, aged : BOOLEAN]

RolloutTypes ==
    /\ deployment \in Deployments
    /\ control \in Control
    /\ proc \in [Replicas -> Rep] /\ entry \in Registry
    /\ dec \in [Deciders -> Decision] /\ conv \in [Deciders -> Window]
    /\ old \in BOOLEAN /\ legacy \in BOOLEAN /\ persistent \in BOOLEAN
    /\ mishaps \in 0..MaxMishaps /\ ops \in 0..MaxOps

\* The version counts the advances and the operator's changes.
VersionFits ==
    /\ First <= control.floor /\ control.floor <= Last
    /\ control.paused => ops >= 1
    /\ control.version = 1 + (control.floor - First) + ops - (IF control.paused THEN 1 ELSE 0)

IsRunning(r) == r.st \in {"boot", "up"}

\* A replica with record r advertises, with entry e, no more than the mode it runs at, and
\* that follows the floor it has seen.
Sane(r, e) ==
    /\ First <= r.seen /\ r.seen <= control.floor
    /\ r.seen <= r.mode /\ r.mode <= r.seen + 1
    /\ First <= r.self /\ r.self <= r.mode
    /\ e # Absent => First <= e /\ e <= r.mode
    /\ r.st = "off" => e = Absent
    /\ r.frozen => Freezes
    /\ r.writing => IsRunning(r) /\ First = Expand

\* What a decision D has loaded is what the row said at that version.
UpToDate(D) == D.pc # "idle" /\ D.version = control.version
Loaded(D) ==
    /\ D.version <= control.version
    /\ D.pc # "idle" => First <= D.floor /\ D.floor <= control.floor /\ D.floor < Last
    /\ UpToDate(D) => D.floor = control.floor /\ D.cap = control.cap

BasicInv ==
    /\ RolloutTypes /\ VersionFits
    /\ \A p \in Replicas : Sane(proc[p], entry[p])
    /\ \A d \in Deciders : Loaded(dec[d])
    /\ persistent => legacy

\* No replica that runs is two phases behind, and tokens from before v3 are not being written
\* where they are to be rejected.
Near(r) ==
    /\ IsRunning(r) => r.mode + 1 >= control.floor
    /\ r.writing => control.floor < Bounded

\* Where the advance of decision D would count, the replicas that advertise nothing run at
\* the floor; from the confirmation on, all do.  No token is being written past v3-write.
Clears(D, r, e) ==
    /\ (UpToDate(D) /\ ~ Freezes /\ IsRunning(r) /\ (e = Absent \/ D.pc = "advance")) =>
           r.mode >= D.floor
    /\ (D.pc # "idle" /\ r.writing) => D.floor < 2

\* The set that was read runs at the floor.
LiveFits(D) ==
    /\ (D.pc \in {"scan", "final", "advance"} /\ D.ok) =>
           \A p \in Replicas : D.live[p] # Absent => D.live[p] >= D.floor
    /\ D.pc = "advance" => D.ok

\* What the next phase rejects was absent when the scan began, or is absent.
ScanFits(D) ==
    /\ (D.pc = "scan" /\ D.floor + 1 = Bounded /\ ~ D.cand[2]) => ~ persistent
    /\ (D.pc = "scan" /\ D.floor + 1 = Enforce /\ ~ D.cand[1]) => ~ legacy
    /\ (D.pc \in {"final", "advance"} /\ D.ok) =>
          /\ D.floor + 1 = V3Write => ~ old
          /\ D.floor + 1 = Bounded => ~ persistent
          /\ D.floor + 1 = Enforce => ~ legacy

\* A window w in which the deployment could not have gone on saw too few writers.
WindowFits(w) ==
    (w.known /\ w.aged /\ old) => Cardinality({p \in Replicas : w.set[p] # Absent}) < Expect

\* Whole processes stall and resume at most over one advance.
OnePhaseRun == Freezes => Last <= First + 1

StoredFits == RejectsNothing /\ FirstFloorExcludesOld

RolloutInv ==
    /\ BasicInv /\ OnePhaseRun /\ StoredFits
    /\ \A p \in Replicas : Near(proc[p])
    /\ \A d \in Deciders : \A p \in Replicas : Clears(dec[d], proc[p], entry[p])
    /\ \A d \in Deciders : LiveFits(dec[d]) /\ ScanFits(dec[d]) /\ WindowFits(conv[d])

-----------------------------------------------------------------------------
(* Replicas. *)

LEMMA Deployed ==
    ASSUME deployment \in Deployments
    PROVE  /\ First \in 0..4 /\ Last \in 0..4 /\ First <= Last /\ Expect \in Nat
           /\ Freezes \in BOOLEAN /\ MaxMishaps \in Nat /\ MaxOps \in Nat
           /\ deployment.procs \subseteq Replicas /\ deployment.deciders \subseteq Deciders
<1>1. /\ deployment.procs \subseteq Replicas /\ deployment.deciders \subseteq Deciders
      /\ deployment.expect \in Nat \ {0} /\ deployment.freezes \in BOOLEAN
      /\ deployment.first \in 0..4 /\ deployment.last \in deployment.first..4
      /\ deployment.maxMishaps \in Nat /\ deployment.maxOps \in Nat
  BY RolloutAssumption
<1> QED BY <1>1 DEF First, Last, Expect, Freezes, MaxMishaps, MaxOps

\* What a step of a replica does to its record and entry, as far as deciders can tell.
Follows(r, e, s, x) ==
    /\ IsRunning(s) => s.mode >= control.floor \/ (IsRunning(r) /\ s.mode >= r.mode)
    /\ (IsRunning(s) /\ x = Absent) =>
           Freezes \/ s.mode >= control.floor \/ (IsRunning(r) /\ e = Absent /\ s.mode >= r.mode)
    /\ s.writing => r.writing \/ (IsRunning(r) /\ r.mode = Expand)

Fits(r, e, s, x) == s \in Rep /\ x \in Advert /\ Sane(s, x) /\ Follows(r, e, s, x)

RolloutTurn(p) ==
    /\ proc' = [proc EXCEPT ![p] = proc'[p]] /\ entry' = [entry EXCEPT ![p] = entry'[p]]
    /\ Fits(proc[p], entry[p], proc'[p], entry'[p])
    /\ UNCHANGED <<deployment, control, dec, conv, ops>>
    /\ mishaps' \in 0..MaxMishaps

\* The step leaves record s and entry x.
LEMMA TurnOf ==
    ASSUME BasicInv, NEW p \in Replicas, NEW s, NEW x,
           proc' = [proc EXCEPT ![p] = s], entry' = [entry EXCEPT ![p] = x],
           Fits(proc[p], entry[p], s, x), UNCHANGED <<deployment, control, dec, conv, ops>>,
           UNCHANGED mishaps \/ Mishap
    PROVE  RolloutTurn(p)
<1>1. /\ proc \in [Replicas -> Rep] /\ entry \in [Replicas -> Advert]
      /\ mishaps \in 0..MaxMishaps
  BY DEF BasicInv, RolloutTypes, Registry
<1>2. proc'[p] = s /\ entry'[p] = x
  BY <1>1
<1>3. mishaps' \in 0..MaxMishaps
  <2>1. MaxMishaps \in Nat
    BY Deployed DEF BasicInv, RolloutTypes
  <2> QED BY <1>1, <2>1 DEF Mishap
<1> QED BY <1>2, <1>3 DEF RolloutTurn

LEMMA Known ==
    ASSUME BasicInv, NEW p \in Replicas
    PROVE  /\ proc[p] \in Rep /\ entry[p] \in Advert /\ Sane(proc[p], entry[p])
           /\ control.floor \in First..Last /\ control.cap \in 1..2
           /\ First \in 0..4 /\ Last \in 0..4
           /\ proc = [q \in Replicas |-> proc[q]] /\ entry = [entry EXCEPT ![p] = entry[p]]
<1>1. control \in Control /\ deployment \in Deployments
  BY DEF BasicInv, RolloutTypes
<1>2. control.floor \in 0..4 /\ control.cap \in 1..2
  BY <1>1 DEF Control
<1>3. First <= control.floor /\ control.floor <= Last
  BY DEF BasicInv, VersionFits
<1>4. proc \in [Replicas -> Rep] /\ entry \in [Replicas -> Advert]
  BY DEF BasicInv, RolloutTypes, Registry
<1>5. First \in 0..4 /\ Last \in 0..4
  BY <1>1, Deployed
<1> QED BY <1>2, <1>3, <1>4, <1>5 DEF BasicInv

\* The record of a process that boots with the mode m at floor f.
Booted(m, c, f) == [NoReplica EXCEPT !.st = "boot", !.mode = m, !.self = m, !.cap = c, !.seen = f]

LEMMA BootedFields ==
    ASSUME NEW m \in 0..4, NEW c \in 1..2, NEW f \in 0..4, First \in 0..4
    PROVE  /\ Booted(m, c, f) \in Rep /\ Booted(m, c, f).seen = f /\ Booted(m, c, f).mode = m
           /\ Booted(m, c, f).self = m /\ ~ Booted(m, c, f).frozen
           /\ ~ Booted(m, c, f).writing /\ Booted(m, c, f).st = "boot"
BY DEF Booted, NoReplica, Rep

LEMMA AheadRange ==
    ASSUME NEW p, NEW f \in 0..4
    PROVE  Ahead(p, f) \in 0..4 /\ Ahead(p, f) \in f..(f + 1)
BY DEF Ahead, Enforce

LEMMA BootTurn ==
    ASSUME BasicInv, NEW p \in Replicas, Boot(p), UNCHANGED deployment
    PROVE  RolloutTurn(p)
<1> PICK m : m = Ahead(p, control.floor)
  OBVIOUS
<1>0. control.floor \in 0..4 /\ First \in 0..4 /\ m \in 0..4 /\ m \in control.floor..(control.floor + 1)
  BY Known, AheadRange
<1>3. entry[p] = Absent
  BY Known DEF Boot, Sane
<1> PICK s : s = Booted(m, control.cap, control.floor)
  OBVIOUS
<1>1. proc' = [proc EXCEPT ![p] = s] /\ entry' = [entry EXCEPT ![p] = entry[p]]
  BY Known DEF Boot, Booted
<1>2. Fits(proc[p], entry[p], s, entry[p])
  BY <1>0, <1>3, BootedFields, Known DEF Fits, Sane, Follows, IsRunning
<1> QED BY <1>1, <1>2, TurnOf DEF Boot

\* What the invariant reads of a record.
Has(s, st, mode, seen, self, frozen, writing) ==
    /\ s \in Rep
    /\ s.st = st /\ s.mode = mode /\ s.seen = seen /\ s.self = self
    /\ s.frozen = frozen /\ s.writing = writing

Alike(r, s) == Has(s, r.st, r.mode, r.seen, r.self, r.frozen, r.writing)

LEMMA SmallEdits ==
    ASSUME NEW r \in Rep, NEW b \in BOOLEAN
    PROVE  /\ Alike(r, [r EXCEPT !.cut = b]) /\ Alike(r, [r EXCEPT !.held = b])
           /\ Alike(r, [r EXCEPT !.publishing = b])
BY DEF Rep, Alike, Has

LEMMA Ranges ==
    ASSUME NEW r \in Rep
    PROVE  /\ r.st \in {"off", "boot", "up", "gone"} /\ r.mode \in 0..4 /\ r.seen \in 0..4
           /\ r.self \in 0..4 /\ r.frozen \in BOOLEAN /\ r.writing \in BOOLEAN
           /\ r.mode \in Advert /\ r.self \in Advert /\ r.mode # Absent /\ r.self # Absent
<1>1. /\ r.st \in {"off", "boot", "up", "gone"} /\ r.mode \in 0..4 /\ r.seen \in 0..4
      /\ r.self \in 0..4 /\ r.frozen \in BOOLEAN /\ r.writing \in BOOLEAN
  BY DEF Rep
<1> QED BY <1>1 DEF Advert, Absent

\* The record a process leaves.
Stopped(m, f) == [NoReplica EXCEPT !.st = "gone", !.seen = f, !.mode = m]

LEMMA StoppedFields ==
    ASSUME NEW m \in 0..4, NEW f \in 0..4, First \in 0..4
    PROVE  /\ Stopped(m, f) \in Rep /\ Stopped(m, f).st = "gone" /\ Stopped(m, f).mode = m
           /\ Stopped(m, f).seen = f /\ Stopped(m, f).self = First
           /\ ~ Stopped(m, f).frozen /\ ~ Stopped(m, f).writing
<1> PICK n : n = First
  OBVIOUS
<1>1. Stopped(m, f).st = "gone"
  BY DEF Stopped, NoReplica
<1>2. Stopped(m, f).mode = m /\ Stopped(m, f).seen = f
  BY DEF Stopped, NoReplica
<1>3. Stopped(m, f).self = n
  BY DEF Stopped, NoReplica
<1>4. ~ Stopped(m, f).frozen /\ ~ Stopped(m, f).writing
  BY DEF Stopped, NoReplica
<1>5. NoReplica \in Rep
  BY DEF Rep, NoReplica
<1>6. Stopped(m, f) \in Rep
  BY <1>5 DEF Rep, Stopped
<1> QED BY <1>1, <1>2, <1>3, <1>4, <1>6

LEMMA LargeEdits ==
    ASSUME NEW r \in Rep, NEW b \in BOOLEAN, NEW f \in 0..4, NEW m \in 0..4, NEW c \in 1..2,
           First \in 0..4
    PROVE  /\ Has([r EXCEPT !.st = "up", !.held = b],
                  "up", r.mode, r.seen, r.self, r.frozen, r.writing)
           /\ Has([r EXCEPT !.frozen = b], r.st, r.mode, r.seen, r.self, b, r.writing)
           /\ Has([r EXCEPT !.writing = b], r.st, r.mode, r.seen, r.self, r.frozen, b)
           /\ Has([r EXCEPT !.seen = f], r.st, r.mode, f, r.self, r.frozen, r.writing)
           /\ Has([r EXCEPT !.seen = f, !.cap = c, !.publishing = TRUE, !.mode = m, !.fenced = TRUE],
                  r.st, m, f, r.self, r.frozen, r.writing)
           /\ Has([r EXCEPT !.publishing = FALSE, !.self = r.mode, !.held = TRUE, !.fenced = FALSE],
                  r.st, r.mode, r.seen, r.mode, r.frozen, r.writing)
           /\ Has([NoReplica EXCEPT !.st = "gone", !.seen = r.seen, !.mode = r.mode],
                  "gone", r.mode, r.seen, First, FALSE, FALSE)
<1>1. Has([r EXCEPT !.st = "up", !.held = b], "up", r.mode, r.seen, r.self, r.frozen, r.writing)
  BY DEF Rep, Has
<1>2. Has([r EXCEPT !.frozen = b], r.st, r.mode, r.seen, r.self, b, r.writing)
  BY DEF Rep, Has
<1>3. Has([r EXCEPT !.writing = b], r.st, r.mode, r.seen, r.self, r.frozen, b)
  BY DEF Rep, Has
<1>4. Has([r EXCEPT !.seen = f], r.st, r.mode, f, r.self, r.frozen, r.writing)
  BY DEF Rep, Has
<1>5. Has([r EXCEPT !.seen = f, !.cap = c, !.publishing = TRUE, !.mode = m, !.fenced = TRUE],
          r.st, m, f, r.self, r.frozen, r.writing)
  BY DEF Rep, Has
<1>6. Has([r EXCEPT !.publishing = FALSE, !.self = r.mode, !.held = TRUE, !.fenced = FALSE],
          r.st, r.mode, r.seen, r.mode, r.frozen, r.writing)
  BY DEF Rep, Has
<1>7. Has([NoReplica EXCEPT !.st = "gone", !.seen = r.seen, !.mode = r.mode],
          "gone", r.mode, r.seen, First, FALSE, FALSE)
  <2> PICK s : s = Stopped(r.mode, r.seen)
    OBVIOUS
  <2>1. /\ s \in Rep /\ s.st = "gone" /\ s.mode = r.mode /\ s.seen = r.seen /\ s.self = First
        /\ ~ s.frozen /\ ~ s.writing
    BY Ranges, StoppedFields
  <2>2. s.frozen = FALSE /\ s.writing = FALSE
    BY <2>1, Ranges
  <2> QED BY <2>1, <2>2 DEF Has, Stopped
<1> QED BY <1>1, <1>2, <1>3, <1>4, <1>5, <1>6, <1>7

LEMMA Standing ==
    ASSUME BasicInv, NEW p \in Replicas
    PROVE  /\ Sane(proc[p], entry[p]) /\ entry[p] \in Advert
           /\ control.floor \in 0..4 /\ First \in 0..4 /\ First <= control.floor
BY Known

\* The entry of an unchanged replica says what it published or runs at, or goes where the
\* replica is stalled or has seen the floor.
LEMMA AlikeFits ==
    ASSUME BasicInv, NEW p \in Replicas, NEW s, Alike(proc[p], s), NEW x \in Advert,
           x \in {entry[p], proc[p].self, proc[p].mode, Absent},
           proc[p].st = "off" => x = Absent,
           (x = Absent /\ entry[p] # Absent /\ IsRunning(proc[p])) =>
               proc[p].frozen \/ proc[p].seen = control.floor
    PROVE  Fits(proc[p], entry[p], s, x)
<1> PICK r \in Rep : r = proc[p]
  BY Known
<1>1. Sane(r, entry[p]) /\ Alike(r, s) /\ First \in 0..4
  BY Known
<1>2. Sane(s, x)
  BY <1>1, Standing, Ranges DEF Sane, Alike, Has, IsRunning, Absent, Advert
<1>3. Follows(r, entry[p], s, x)
  BY <1>1, Standing, Ranges DEF Sane, Alike, Has, IsRunning, Follows, Absent, Advert
<1> QED BY <1>1, <1>2, <1>3 DEF Fits, Alike, Has

LEMMA SameEntryFits ==
    ASSUME BasicInv, NEW p \in Replicas, NEW s, Alike(proc[p], s)
    PROVE  Fits(proc[p], entry[p], s, entry[p])
BY AlikeFits, Known DEF Sane

LEMMA CutTurn ==
    ASSUME BasicInv, NEW p \in Replicas, Cut(p) \/ Heal(p), UNCHANGED deployment
    PROVE  RolloutTurn(p)
<1> PICK b \in BOOLEAN : proc' = [proc EXCEPT ![p].cut = b]
  BY DEF Cut, Heal
<1> PICK r \in Rep : r = proc[p]
  BY Known
<1> PICK s : s = [r EXCEPT !.cut = b]
  OBVIOUS
<1>1. proc' = [proc EXCEPT ![p] = s] /\ entry' = [entry EXCEPT ![p] = entry[p]]
  BY Known DEF Cut, Heal
<1>2. Fits(r, entry[p], s, entry[p])
  BY SmallEdits, SameEntryFits
<1> QED BY <1>1, <1>2, TurnOf DEF Cut, Heal

LEMMA LapseTurn ==
    ASSUME BasicInv, NEW p \in Replicas, WriterLeaseLapses(p), UNCHANGED deployment
    PROVE  RolloutTurn(p)
<1> PICK r \in Rep : r = proc[p]
  BY Known
<1> PICK s : s = [r EXCEPT !.held = FALSE]
  OBVIOUS
<1>1. proc' = [proc EXCEPT ![p] = s] /\ entry' = [entry EXCEPT ![p] = entry[p]]
  BY Known DEF WriterLeaseLapses
<1>2. Fits(r, entry[p], s, entry[p])
  BY SmallEdits, SameEntryFits
<1> QED BY <1>1, <1>2, TurnOf DEF WriterLeaseLapses

LEMMA HeartbeatTurn ==
    ASSUME BasicInv, NEW p \in Replicas, Heartbeat(p), UNCHANGED deployment
    PROVE  RolloutTurn(p)
<1> PICK r \in Rep : r = proc[p]
  BY Known
<1> PICK s : s = [r EXCEPT !.held = TRUE]
  OBVIOUS
<1>1. proc' = [proc EXCEPT ![p] = s] /\ entry' = [entry EXCEPT ![p] = r.self]
  BY Known DEF Heartbeat
<1>2. Fits(r, entry[p], s, r.self)
  <2>1. r.self \in Advert /\ r.self # Absent /\ Alike(r, s)
    BY SmallEdits, Ranges
  <2>2. r.st = "up"
    BY DEF Heartbeat, Acts
  <2> QED BY <2>1, <2>2, AlikeFits
<1> QED BY <1>1, <1>2, TurnOf DEF Heartbeat

LEMMA PublishLostTurn ==
    ASSUME BasicInv, NEW p \in Replicas, PublishLost(p), UNCHANGED deployment
    PROVE  RolloutTurn(p)
<1> PICK r \in Rep : r = proc[p]
  BY Known
<1> PICK s : s = [r EXCEPT !.publishing = FALSE]
  OBVIOUS
<1>1. proc' = [proc EXCEPT ![p] = s] /\ entry' = [entry EXCEPT ![p] = r.mode]
  BY Known DEF PublishLost
<1>2. Fits(r, entry[p], s, r.mode)
  <2>1. r.mode \in Advert /\ r.mode # Absent /\ Alike(r, s)
    BY SmallEdits, Ranges
  <2>2. r.st = "up"
    BY DEF PublishLost, Acts
  <2> QED BY <2>1, <2>2, AlikeFits
<1> QED BY <1>1, <1>2, TurnOf DEF PublishLost

LEMMA ExpiryTurn ==
    ASSUME BasicInv, NEW p \in Replicas, EntryExpires(p), UNCHANGED deployment
    PROVE  RolloutTurn(p)
<1> PICK r \in Rep : r = proc[p]
  BY Known
<1>1. proc' = [proc EXCEPT ![p] = r] /\ entry' = [entry EXCEPT ![p] = Absent]
  BY Known DEF EntryExpires
<1>2. Fits(r, entry[p], r, Absent)
  <2>1. Absent \in Advert /\ Alike(r, r)
    BY DEF Advert, Absent, Alike, Has
  <2>2. IsRunning(r) => r.frozen \/ r.seen = control.floor
    BY DEF EntryExpires, IsRunning
  <2> QED BY <2>1, <2>2, AlikeFits
<1> QED BY <1>1, <1>2, TurnOf DEF EntryExpires

LEMMA StallTurn ==
    ASSUME BasicInv, NEW p \in Replicas, Freeze(p) \/ Thaw(p), UNCHANGED deployment
    PROVE  RolloutTurn(p)
<1> PICK b \in BOOLEAN : proc' = [proc EXCEPT ![p].frozen = b] /\ (b => Freezes)
  BY DEF Freeze, Thaw
<1> PICK r \in Rep : r = proc[p]
  BY Known
<1> PICK s : s = [r EXCEPT !.frozen = b]
  OBVIOUS
<1>1. proc' = [proc EXCEPT ![p] = s] /\ entry' = [entry EXCEPT ![p] = entry[p]]
  BY Known DEF Freeze, Thaw
<1>2. Fits(r, entry[p], s, entry[p])
  <2>1. Has(s, r.st, r.mode, r.seen, r.self, b, r.writing)
    BY LargeEdits, Known
  <2> QED BY <2>1, Standing, Ranges DEF Fits, Sane, Has, IsRunning, Follows
<1> QED BY <1>1, <1>2, TurnOf DEF Freeze, Thaw

LEMMA JoinTurn ==
    ASSUME BasicInv, NEW p \in Replicas, Join(p), UNCHANGED deployment
    PROVE  RolloutTurn(p)
<1> PICK r \in Rep : r = proc[p]
  BY Known
<1> PICK b \in BOOLEAN : b = ~ r.cut
  OBVIOUS
<1> PICK s : s = [r EXCEPT !.st = "up", !.held = b]
  OBVIOUS
<1> PICK x : x = IF r.cut THEN entry[p] ELSE r.self
  OBVIOUS
<1>1. proc' = [proc EXCEPT ![p] = s]
  BY Known DEF Join
<1>2. entry' = [entry EXCEPT ![p] = x]
  BY Known DEF Join
<1>3. Fits(r, entry[p], s, x)
  <2>1. Has(s, "up", r.mode, r.seen, r.self, r.frozen, r.writing) /\ r.st = "boot"
    BY LargeEdits, Known DEF Join
  <2>2. x = entry[p] \/ (x = r.self /\ r.self # Absent /\ r.self \in Advert)
    BY DEF Rep, Absent, Advert
  <2> QED BY <2>1, <2>2, Standing, Ranges DEF Fits, Sane, Has, IsRunning, Follows
<1> QED BY <1>1, <1>2, <1>3, TurnOf DEF Join

LEMMA PublishTurn ==
    ASSUME BasicInv, NEW p \in Replicas, Publish(p), UNCHANGED deployment
    PROVE  RolloutTurn(p)
<1> PICK r \in Rep : r = proc[p]
  BY Known
<1>0. r.st = "up" /\ UNCHANGED <<control, dec, conv, stored, mishaps, ops>>
  BY DEF Publish, Acts
<1>1. CASE r.cut
  <2> PICK s : s = [r EXCEPT !.publishing = FALSE]
    OBVIOUS
  <2>1. proc' = [proc EXCEPT ![p] = s] /\ entry' = [entry EXCEPT ![p] = entry[p]]
    BY <1>1, Known DEF Publish
  <2>2. Fits(r, entry[p], s, entry[p])
    BY SmallEdits, SameEntryFits
  <2> QED BY <1>0, <2>1, <2>2, TurnOf
<1>2. CASE ~ r.cut
  <2> PICK s : s = [r EXCEPT !.publishing = FALSE, !.self = r.mode, !.held = TRUE, !.fenced = FALSE]
    OBVIOUS
  <2>1. proc' = [proc EXCEPT ![p] = s] /\ entry' = [entry EXCEPT ![p] = r.mode]
    BY <1>2, Known DEF Publish
  <2>2. Fits(r, entry[p], s, r.mode)
    <3>1. Has(s, r.st, r.mode, r.seen, r.mode, r.frozen, r.writing)
      BY LargeEdits, Known
    <3>2. r.mode \in Advert /\ r.mode # Absent
      BY Ranges
    <3> QED BY <1>0, <3>1, <3>2, Standing, Ranges DEF Fits, Sane, Has, IsRunning, Follows
  <2> QED BY <1>0, <2>1, <2>2, TurnOf
<1> QED BY <1>1, <1>2

LEMMA PollTurn ==
    ASSUME BasicInv, NEW p \in Replicas, PollFloor(p), UNCHANGED deployment
    PROVE  RolloutTurn(p)
<1> PICK r \in Rep : r = proc[p]
  BY Known
<1> PICK m : m = Ahead(p, control.floor)
  OBVIOUS
<1> PICK f : f = control.floor
  OBVIOUS
<1>0. /\ r.st = "up" /\ UNCHANGED <<control, dec, conv, stored, mishaps, ops>>
      /\ f \in 0..4 /\ m \in 0..4 /\ m \in f..(f + 1) /\ control.cap \in 1..2 /\ First \in 0..4
      /\ First <= f
  BY Known, AheadRange DEF PollFloor, Acts
<1>1. entry' = [entry EXCEPT ![p] = entry[p]]
  BY Known DEF PollFloor
<1>2. CASE Applied(p, m)
  <2> PICK s : s = [r EXCEPT !.seen = f]
    OBVIOUS
  <2>1. proc' = [proc EXCEPT ![p] = s]
    BY <1>2 DEF PollFloor
  <2>2. Fits(r, entry[p], s, entry[p])
    <3>1. Has(s, r.st, r.mode, f, r.self, r.frozen, r.writing) /\ r.mode = m
      BY <1>0, <1>2, LargeEdits DEF Applied
    <3> QED BY <1>0, <3>1, Standing, Ranges DEF Fits, Sane, Has, IsRunning, Follows
  <2> QED BY <1>0, <1>1, <2>1, <2>2, TurnOf
<1>3. CASE ~ Applied(p, m)
  <2> PICK n : n = IF m > r.mode THEN m ELSE r.mode
    OBVIOUS
  <2> PICK s : s = [r EXCEPT !.seen = f, !.cap = control.cap, !.publishing = TRUE, !.mode = n,
                             !.fenced = TRUE]
    OBVIOUS
  <2>1. proc' = [proc EXCEPT ![p] = s]
    BY <1>3 DEF PollFloor
  <2>2. Fits(r, entry[p], s, entry[p])
    <3>1. n \in 0..4 /\ n >= r.mode /\ n \in {m, r.mode} /\ n >= f
      BY <1>0, Ranges
    <3>2. Has(s, r.st, n, f, r.self, r.frozen, r.writing)
      BY <1>0, <3>1, LargeEdits
    <3>3. n <= f + 1
      BY <1>0, <3>1, Standing, Ranges DEF Sane
    <3> QED BY <1>0, <3>1, <3>2, <3>3, Standing, Ranges DEF Fits, Sane, Has, IsRunning, Follows, Advert
  <2> QED BY <1>0, <1>1, <2>1, <2>2, TurnOf
<1> QED BY <1>2, <1>3

LEMMA StopTurn ==
    ASSUME BasicInv, NEW p \in Replicas, Stop(p), UNCHANGED deployment
    PROVE  RolloutTurn(p)
<1> PICK r \in Rep : r = proc[p]
  BY Known
<1> PICK s : s = [NoReplica EXCEPT !.st = "gone", !.seen = r.seen, !.mode = r.mode]
  OBVIOUS
<1>1. proc' = [proc EXCEPT ![p] = s]
  BY DEF Stop
<1>2. PICK x \in {entry[p], Absent} : entry' = [entry EXCEPT ![p] = x]
  BY Known DEF Stop
<1>3. Fits(r, entry[p], s, x)
  <2>1. Has(s, "gone", r.mode, r.seen, First, FALSE, FALSE)
    BY LargeEdits, Known
  <2> QED BY <2>1, Standing, Ranges DEF Fits, Sane, Has, IsRunning, Follows, Absent, Advert
<1> QED BY <1>1, <1>2, <1>3, TurnOf DEF Stop

LEMMA StartWriteTurn ==
    ASSUME BasicInv, NEW p \in Replicas, StartWrite(p), UNCHANGED deployment
    PROVE  RolloutTurn(p)
<1> PICK r \in Rep : r = proc[p]
  BY Known
<1> PICK s : s = [r EXCEPT !.writing = TRUE]
  OBVIOUS
<1>1. proc' = [proc EXCEPT ![p] = s] /\ entry' = [entry EXCEPT ![p] = entry[p]]
  BY Known DEF StartWrite
<1>2. Fits(r, entry[p], s, entry[p])
  <2>1. Has(s, r.st, r.mode, r.seen, r.self, r.frozen, TRUE) /\ r.st = "up" /\ r.mode = Expand
    BY LargeEdits, Known DEF StartWrite, MayWrite, Acts
  <2> QED BY <2>1, Standing, Ranges DEF Fits, Sane, Has, IsRunning, Follows, Expand
<1> QED BY <1>1, <1>2, TurnOf DEF StartWrite

LEMMA FinishWriteTurn ==
    ASSUME BasicInv, NEW p \in Replicas, FinishWrite(p), UNCHANGED deployment
    PROVE  RolloutTurn(p)
<1> PICK r \in Rep : r = proc[p]
  BY Known
<1> PICK s : s = [r EXCEPT !.writing = FALSE]
  OBVIOUS
<1>1. proc' = [proc EXCEPT ![p] = s] /\ entry' = [entry EXCEPT ![p] = entry[p]]
  BY Known DEF FinishWrite
<1>2. Fits(r, entry[p], s, entry[p])
  <2>1. Has(s, r.st, r.mode, r.seen, r.self, r.frozen, FALSE)
    BY LargeEdits, Known
  <2> QED BY <2>1, Standing, Ranges DEF Fits, Sane, Has, IsRunning, Follows
<1> QED BY <1>1, <1>2, TurnOf DEF FinishWrite

-----------------------------------------------------------------------------
(* The types, the version and the records of replicas hold in every deployment. *)

LEMMA Stays ==
    ASSUME UNCHANGED deployment
    PROVE  /\ First' = First /\ Last' = Last /\ Freezes' = Freezes /\ Expect' = Expect
           /\ MaxMishaps' = MaxMishaps /\ MaxOps' = MaxOps
BY DEF First, Last, Freezes, Expect, MaxMishaps, MaxOps

\* A record that fits still does when the floor has moved on.
LEMMA SaneGrows ==
    ASSUME UNCHANGED deployment, control.floor \in 0..4, control'.floor \in 0..4,
           control'.floor >= control.floor, NEW s \in Rep, NEW x, Sane(s, x)
    PROVE  Sane(s, x)'
<1>1. s.seen \in 0..4
  BY Ranges
<1> QED BY <1>1, Stays DEF Sane

LEMMA TurnTypes ==
    ASSUME BasicInv, NEW p \in Replicas, RolloutTurn(p),
           old' \in BOOLEAN, legacy' \in BOOLEAN, persistent' \in BOOLEAN
    PROVE  RolloutTypes'
<1>1. /\ deployment' \in Deployments /\ control' \in Control
      /\ dec' \in [Deciders -> Decision] /\ conv' \in [Deciders -> Window]
  BY DEF BasicInv, RolloutTypes, RolloutTurn
<1>2. proc' \in [Replicas -> Rep] /\ entry' \in Registry
  <2>1. proc'[p] \in Rep /\ entry'[p] \in Advert
    BY DEF RolloutTurn, Fits
  <2>2. proc \in [Replicas -> Rep] /\ entry \in [Replicas -> Advert]
    BY DEF BasicInv, RolloutTypes, Registry
  <2> QED BY <2>1, <2>2 DEF RolloutTurn, Registry
<1>3. mishaps' \in 0..MaxMishaps' /\ ops' \in 0..MaxOps'
  BY Stays DEF BasicInv, RolloutTypes, RolloutTurn
<1> QED BY <1>1, <1>2, <1>3 DEF RolloutTypes

LEMMA Elsewhere ==
    ASSUME BasicInv, NEW p \in Replicas, RolloutTurn(p), NEW q \in Replicas, q # p
    PROVE  proc'[q] = proc[q] /\ entry'[q] = entry[q]
<1>1. proc \in [Replicas -> Rep] /\ entry \in [Replicas -> Advert]
  BY DEF BasicInv, RolloutTypes, Registry
<1> QED BY <1>1 DEF RolloutTurn

LEMMA TurnBasic ==
    ASSUME BasicInv, NEW p \in Replicas, RolloutTurn(p),
           old' \in BOOLEAN, legacy' \in BOOLEAN, persistent' \in BOOLEAN, persistent' => legacy'
    PROVE  BasicInv'
<1>0. UNCHANGED <<deployment, control, dec, ops>>
  BY DEF RolloutTurn
<1>1. RolloutTypes'
  BY TurnTypes
<1>2. VersionFits'
  BY <1>0, Stays DEF BasicInv, VersionFits
<1>3. ASSUME NEW q \in Replicas PROVE Sane(proc[q], entry[q])'
  <2> PICK s, x : s = proc'[q] /\ x = entry'[q]
    OBVIOUS
  <2>1. Sane(s, x) /\ s \in Rep
    BY Elsewhere, Known DEF RolloutTurn, Fits
  <2>2. Sane(s, x)'
    BY <1>0, <2>1, Standing, SaneGrows
  <2> QED BY <2>2
<1>4. ASSUME NEW d \in Deciders PROVE Loaded(dec[d])'
  BY <1>0, Stays DEF BasicInv, Loaded, UpToDate
<1> QED BY <1>1, <1>2, <1>3, <1>4 DEF BasicInv

\* The fields of a decision.
Reads(D, pc, floor, version, cap, live, cand, ok) ==
    /\ D \in Decision
    /\ D.pc = pc /\ D.floor = floor /\ D.version = version /\ D.cap = cap
    /\ D.live = live /\ D.cand = cand /\ D.ok = ok

\* A decider's step: its decision becomes D.
Decides(d, D) ==
    /\ dec' = [dec EXCEPT ![d] = D] /\ D \in Decision
    /\ conv' = [conv EXCEPT ![d] = conv'[d]] /\ conv'[d] \in Window
    /\ UNCHANGED <<deployment, control, proc, entry, stored, ops>>
    /\ mishaps' \in 0..MaxMishaps

LEMMA DecisionFields ==
    ASSUME NEW D \in Decision
    PROVE  /\ D.pc \in {"idle", "live", "scan", "final", "advance"} /\ D.floor \in 0..4
           /\ D.version \in Nat /\ D.cap \in 1..2 /\ D.live \in Registry
           /\ D.cand \in BOOLEAN \X BOOLEAN /\ D.ok \in BOOLEAN
           /\ Reads(D, D.pc, D.floor, D.version, D.cap, D.live, D.cand, D.ok)
BY DEF Decision, Reads

WithRead(E, live, cand, ok, q) == [E EXCEPT !.live = live, !.cand = cand, !.ok = ok, !.pc = q]

LEMMA ReadEdit ==
    ASSUME NEW E \in Decision, NEW q \in {"idle", "live", "scan", "final", "advance"},
           NEW live \in Registry, NEW cand \in BOOLEAN \X BOOLEAN, NEW ok \in BOOLEAN
    PROVE  Reads(WithRead(E, live, cand, ok, q),
                 q, E.floor, E.version, E.cap, live, cand, ok)
BY DEF Decision, Reads, WithRead

LEMMA PhaseEdit ==
    ASSUME NEW E \in Decision, NEW q \in {"idle", "live", "scan", "final", "advance"},
           NEW ok \in BOOLEAN,
           NEW D, D = [E EXCEPT !.pc = q, !.ok = ok] \/ (D = [E EXCEPT !.pc = q] /\ ok = E.ok)
    PROVE  Reads(D, q, E.floor, E.version, E.cap, E.live, E.cand, ok)
<1>1. CASE D = [E EXCEPT !.pc = q, !.ok = ok]
  BY <1>1 DEF Decision, Reads
<1>2. CASE D = [E EXCEPT !.pc = q] /\ ok = E.ok
  BY <1>2 DEF Decision, Reads
<1> QED BY <1>1, <1>2

LEMMA NoDecFields ==
    ASSUME First \in 0..4
    PROVE  NoDec \in Decision /\ NoDec.pc = "idle" /\ NoDec.version = 0
<1> PICK live : live = [p \in Replicas |-> Absent]
  OBVIOUS
<1> PICK cand : cand = <<FALSE, FALSE>>
  OBVIOUS
<1>1. live \in Registry
  BY DEF Registry, Advert, Absent
<1>3. cand \in BOOLEAN \X BOOLEAN
  OBVIOUS
<1>2. NoDec = [pc |-> "idle", floor |-> First, version |-> 0, cap |-> 1, live |-> live,
               cand |-> cand, ok |-> FALSE]
  BY DEF NoDec
<1>4. NoDec \in Decision
  BY <1>1, <1>2, <1>3 DEF Decision
<1> QED BY <1>2, <1>4

\* The decision that begins with the row read.
Began(f, v, c) == [NoDec EXCEPT !.pc = "live", !.floor = f, !.version = v, !.cap = c]

LEMMA BeganFields ==
    ASSUME First \in 0..4, NEW f \in 0..4, NEW v \in Nat, NEW c \in 1..2
    PROVE  /\ Began(f, v, c) \in Decision /\ Began(f, v, c).pc = "live"
           /\ Began(f, v, c).floor = f /\ Began(f, v, c).version = v /\ Began(f, v, c).cap = c
<1> PICK D \in Decision : D = NoDec
  BY NoDecFields
<1> PICK E : E = [D EXCEPT !.pc = "live", !.floor = f, !.version = v, !.cap = c]
  OBVIOUS
<1>1. E \in Decision /\ E.pc = "live" /\ E.floor = f /\ E.version = v /\ E.cap = c
  BY DEF Decision
<1> QED BY <1>1 DEF Began

LEMMA NoConvFields == NoConv \in Window /\ ~ NoConv.known
<1>1. [p \in Replicas |-> Absent] \in Registry
  BY DEF Registry, Advert, Absent
<1> QED BY <1>1 DEF NoConv, Window

LEMMA DeciderKnown ==
    ASSUME BasicInv, NEW d \in Deciders
    PROVE  /\ dec[d] \in Decision /\ conv[d] \in Window /\ Loaded(dec[d])
           /\ dec \in [Deciders -> Decision] /\ conv \in [Deciders -> Window]
           /\ conv = [conv EXCEPT ![d] = conv[d]]
           /\ control.floor \in 0..4 /\ control.version \in Nat /\ control.cap \in 1..2
           /\ control.paused \in BOOLEAN
           /\ First \in 0..4 /\ Last \in 0..4 /\ First <= control.floor /\ control.floor <= Last
           /\ entry \in Registry /\ MaxMishaps \in Nat /\ mishaps \in 0..MaxMishaps
<1>1. /\ dec \in [Deciders -> Decision] /\ conv \in [Deciders -> Window]
      /\ control \in Control /\ deployment \in Deployments
      /\ entry \in Registry /\ mishaps \in 0..MaxMishaps
  BY DEF BasicInv, RolloutTypes
<1>2. /\ control.floor \in 0..4 /\ control.version \in Nat /\ control.cap \in 1..2
      /\ control.paused \in BOOLEAN
  BY <1>1 DEF Control
<1>3. First \in 0..4 /\ Last \in 0..4 /\ MaxMishaps \in Nat
  BY <1>1, Deployed
<1>4. First <= control.floor /\ control.floor <= Last
  BY DEF BasicInv, VersionFits
<1>5. dec[d] \in Decision /\ conv[d] \in Window /\ conv = [conv EXCEPT ![d] = conv[d]]
  BY <1>1
<1> QED BY <1>1, <1>2, <1>3, <1>4, <1>5 DEF BasicInv

\* What each step of a decider makes of its decision.
LEMMA LoadStep ==
    ASSUME BasicInv, NEW d \in Deciders, Load(d), UNCHANGED deployment
    PROVE  /\ Decides(d, Began(control.floor, control.version, control.cap))
           /\ conv' = conv /\ InTime /\ control.floor < Last
<1>1. dec' = [dec EXCEPT ![d] = Began(control.floor, control.version, control.cap)]
  BY DEF Load, Began
<1>2. Began(control.floor, control.version, control.cap) \in Decision
  BY DeciderKnown, BeganFields
<1>3. UNCHANGED <<control, proc, entry, conv, stored, mishaps, ops>>
  BY DEF Load
<1> QED BY <1>1, <1>2, <1>3, DeciderKnown DEF Decides, Load

LEMMA ReadStep ==
    ASSUME BasicInv, NEW d \in Deciders, ReadLive(d), UNCHANGED deployment
    PROVE  \E D, q, cand :
               /\ Decides(d, D) /\ conv' = conv
               /\ dec[d].pc = "live" /\ q = (IF Scans(d) THEN "scan" ELSE "final")
               /\ cand = <<legacy, persistent>>
               /\ Reads(D, q, dec[d].floor, dec[d].version, dec[d].cap, entry, cand,
                        Converged(d, entry))
<1> PICK E \in Decision : E = dec[d]
  BY DeciderKnown
<1> PICK q : q = IF Scans(d) THEN "scan" ELSE "final"
  OBVIOUS
<1> PICK cand : cand = <<legacy, persistent>>
  OBVIOUS
<1> PICK ok \in BOOLEAN : ok = Converged(d, entry)
  BY DEF Converged
<1> PICK D : D = WithRead(E, entry, cand, ok, q)
  OBVIOUS
<1>0. D = [dec[d] EXCEPT !.live = entry, !.cand = <<legacy, persistent>>,
                         !.ok = Converged(d, entry), !.pc = IF Scans(d) THEN "scan" ELSE "final"]
  BY DEF WithRead
<1>1. cand \in BOOLEAN \X BOOLEAN
  BY DEF BasicInv, RolloutTypes
<1>2. q \in {"idle", "live", "scan", "final", "advance"}
  OBVIOUS
<1>3. Reads(D, q, E.floor, E.version, E.cap, entry, cand, ok)
  <2>1. entry \in Registry
    BY DeciderKnown
  <2> QED BY <1>1, <1>2, <2>1, ReadEdit
<1>4. dec' = [dec EXCEPT ![d] = D]
  BY <1>0 DEF ReadLive
<1>5. UNCHANGED <<control, proc, entry, conv, stored, mishaps, ops>> /\ dec[d].pc = "live"
  BY DEF ReadLive
<1>6. Decides(d, D)
  BY <1>3, <1>4, <1>5, DeciderKnown DEF Decides, Reads
<1> QED BY <1>3, <1>5, <1>6

\* The scan found l or n, which it may only where there was some of it.
Found(d, l, n) == ((dec[d].cand[1] /\ legacy) => l) /\ ((dec[d].cand[2] /\ persistent) => n)

\* Before the first v3 floor, the set was that of a window that has aged.
Fleet(d) == Stable(d) /\ Cardinality({p \in Replicas : dec[d].live[p] # Absent}) = Expect

LEMMA ScanStep ==
    ASSUME BasicInv, NEW d \in Deciders, EndScan(d), UNCHANGED deployment
    PROVE  \E D, ok, l, n :
               /\ Decides(d, D) /\ dec[d].pc = "scan"
               /\ conv'[d] = conv[d] \/ ~ conv'[d].aged
               /\ l \in BOOLEAN /\ n \in BOOLEAN /\ Found(d, l, n)
               /\ ok \in BOOLEAN /\ (ok => dec[d].ok /\ Clean(d, l, n) /\ (Target(d) = V3Write => Fleet(d)))
               /\ Reads(D, "final", dec[d].floor, dec[d].version, dec[d].cap, dec[d].live,
                        dec[d].cand, ok)
<1> PICK E \in Decision : E = dec[d]
  BY DeciderKnown
<1>1. PICK l, n \in BOOLEAN :
         /\ Found(d, l, n)
         /\ dec' = [dec EXCEPT ![d] = [dec[d] EXCEPT !.pc = "final",
                       !.ok = dec[d].ok /\ Clean(d, l, n) /\ (Target(d) = V3Write => Fleet(d))]]
  BY DEF EndScan, Found, Fleet
<1> PICK ok \in BOOLEAN : ok = (dec[d].ok /\ Clean(d, l, n) /\ (Target(d) = V3Write => Fleet(d)))
  BY DecisionFields
<1> PICK D : D = [E EXCEPT !.pc = "final", !.ok = ok]
  OBVIOUS
<1>6. dec' = [dec EXCEPT ![d] = D]
  BY <1>1
<1>2. Reads(D, "final", E.floor, E.version, E.cap, E.live, E.cand, ok)
  BY PhaseEdit, DecisionFields
<1>3. UNCHANGED <<control, proc, entry, stored, mishaps, ops>> /\ dec[d].pc = "scan"
  BY DEF EndScan
<1>4. /\ conv' = [conv EXCEPT ![d] = conv'[d]] /\ conv'[d] \in Window
      /\ conv'[d] = conv[d] \/ ~ conv'[d].aged
  <2> PICK w : w = [set |-> dec[d].live, known |-> TRUE, aged |-> FALSE]
    OBVIOUS
  <2>1. w \in Window /\ ~ w.aged
    BY DecisionFields DEF Window
  <2>2. conv' = conv \/ conv' = [conv EXCEPT ![d] = w]
    BY DEF EndScan
  <2> QED BY <2>1, <2>2, DeciderKnown
<1>5. Decides(d, D)
  BY <1>2, <1>3, <1>4, <1>6, DeciderKnown DEF Decides, Reads
<1> QED BY <1>1, <1>2, <1>3, <1>4, <1>5

LEMMA ConfirmStep ==
    ASSUME BasicInv, NEW d \in Deciders, Confirm(d), UNCHANGED deployment
    PROVE  \E D, q :
               /\ Decides(d, D) /\ conv' = conv /\ dec[d].pc = "final"
               /\ q = "idle" \/ (q = "advance" /\ dec[d].ok /\ entry = dec[d].live)
               /\ Reads(D, q, dec[d].floor, dec[d].version, dec[d].cap, dec[d].live,
                        dec[d].cand, dec[d].ok)
<1> PICK E \in Decision : E = dec[d]
  BY DeciderKnown
<1> PICK q : q = IF E.ok /\ entry = E.live THEN "advance" ELSE "idle"
  OBVIOUS
<1> PICK D : D = [E EXCEPT !.pc = q]
  OBVIOUS
<1>1. Reads(D, q, E.floor, E.version, E.cap, E.live, E.cand, E.ok)
  BY PhaseEdit, DecisionFields
<1>2. dec' = [dec EXCEPT ![d] = D] /\ dec[d].pc = "final"
  BY DeciderKnown DEF Confirm
<1>3. UNCHANGED <<control, proc, entry, conv, stored, mishaps, ops>>
  BY DEF Confirm
<1>4. Decides(d, D)
  BY <1>1, <1>2, <1>3, DeciderKnown DEF Decides, Reads
<1> QED BY <1>1, <1>2, <1>3, <1>4

LEMMA AbortStep ==
    ASSUME BasicInv, NEW d \in Deciders, Abort(d), UNCHANGED deployment
    PROVE  Decides(d, NoDec) /\ (conv'[d] = conv[d] \/ ~ conv'[d].known)
<1>1. dec' = [dec EXCEPT ![d] = NoDec] /\ NoDec \in Decision
  BY DeciderKnown, NoDecFields DEF Abort
<1>2. UNCHANGED <<control, proc, entry, stored, ops>> /\ Mishap
  BY DEF Abort
<1>3. conv' = conv \/ conv' = [conv EXCEPT ![d] = NoConv]
  BY DEF Abort
<1>4. conv'[d] \in Window /\ conv' = [conv EXCEPT ![d] = conv'[d]]
  BY <1>3, DeciderKnown, NoConvFields
<1>5. conv'[d] = conv[d] \/ ~ conv'[d].known
  BY <1>3, DeciderKnown, NoConvFields
<1>6. mishaps' \in 0..MaxMishaps
  BY <1>2, DeciderKnown DEF Mishap
<1> QED BY <1>1, <1>2, <1>4, <1>5, <1>6 DEF Decides

LEMMA AgeStep ==
    ASSUME BasicInv, NEW d \in Deciders, WindowAges(d), UNCHANGED deployment
    PROVE  Decides(d, dec[d]) /\ WindowFits(conv'[d])
<1> PICK w \in Window : w = conv[d]
  BY DeciderKnown
<1> PICK v : v = [w EXCEPT !.aged = TRUE]
  OBVIOUS
<1>1. v \in Window /\ v.set = w.set
  BY DEF Window
<1>2. conv' = [conv EXCEPT ![d] = v] /\ conv'[d] = v
  BY DeciderKnown DEF WindowAges
<1>3. UNCHANGED <<control, proc, entry, dec, stored, mishaps, ops>>
  BY DEF WindowAges
<1>4. Decides(d, dec[d])
  BY <1>1, <1>2, <1>3, DeciderKnown DEF Decides
<1>5. WindowFits(v)
  BY <1>1 DEF WindowAges, WindowFits
<1> QED BY <1>2, <1>4, <1>5

\* An advance that counts, or one that finds another version.
LEMMA AdvanceStep ==
    ASSUME BasicInv, NEW d \in Deciders, Advance(d), UNCHANGED deployment
    PROVE  /\ dec[d].pc = "advance" /\ dec' = [dec EXCEPT ![d] = NoDec] /\ NoDec \in Decision
           /\ UNCHANGED <<deployment, proc, entry, conv, stored, mishaps, ops>>
           /\ \/ control' = control /\ Decides(d, NoDec)
              \/ /\ UpToDate(dec[d]) /\ dec[d].floor = control.floor /\ control.floor < Last
                 /\ control'.cap = control.cap
                 /\ control' \in Control /\ control'.floor = control.floor + 1
                 /\ control'.version = control.version + 1
                 /\ control'.paused = control.paused
<1>1. /\ dec[d].pc = "advance" /\ dec' = [dec EXCEPT ![d] = NoDec] /\ NoDec \in Decision
      /\ UNCHANGED <<deployment, proc, entry, conv, stored, mishaps, ops>>
  BY DeciderKnown, NoDecFields DEF Advance
<1>2. CASE Current(d)
  <2> PICK c \in Control : c = control
    BY DEF BasicInv, RolloutTypes
  <2>1. control' = [c EXCEPT !.floor = c.floor + 1, !.version = c.version + 1, !.cap = dec[d].cap]
    BY <1>2 DEF Advance
  <2>2. UpToDate(dec[d]) /\ dec[d].floor = c.floor /\ dec[d].cap = c.cap /\ c.floor < Last
    BY <1>1, <1>2, DeciderKnown DEF Current, UpToDate, Loaded
  <2>3. /\ c.floor \in 0..4 /\ c.floor + 1 \in 0..4 /\ c.version + 1 \in Nat
        /\ dec[d].cap \in 1..2
    BY <2>2, DeciderKnown
  <2>4. /\ control' \in Control /\ control'.floor = c.floor + 1
        /\ control'.version = c.version + 1 /\ control'.cap = dec[d].cap
        /\ control'.paused = c.paused
    BY <2>1, <2>3 DEF Control
  <2> QED BY <1>1, <2>2, <2>4
<1>3. CASE ~ Current(d)
  <2>1. control' = control
    BY <1>3 DEF Advance
  <2> QED BY <1>1, <2>1, DeciderKnown DEF Decides
<1> QED BY <1>2, <1>3

\* Where control stays, a decision that is loaded soundly keeps the rest.
LEMMA DecidesBasic ==
    ASSUME BasicInv, NEW d \in Deciders, NEW D, Decides(d, D), Loaded(D)
    PROVE  BasicInv'
<1>0. /\ UNCHANGED <<deployment, control, proc, entry, old, legacy, persistent, ops>>
      /\ mishaps' \in 0..MaxMishaps
  BY DEF Decides, stored
<1>1. RolloutTypes'
  <2>1. dec' \in [Deciders -> Decision] /\ conv' \in [Deciders -> Window]
    BY DeciderKnown DEF Decides
  <2> QED BY <1>0, <2>1, Stays DEF BasicInv, RolloutTypes
<1>2. VersionFits'
  BY <1>0, Stays DEF BasicInv, VersionFits
<1>3. ASSUME NEW p \in Replicas PROVE Sane(proc[p], entry[p])'
  BY <1>0, Stays DEF BasicInv, Sane
<1>4. ASSUME NEW q \in Deciders PROVE Loaded(dec[q])'
  <2> PICK E : E = dec'[q]
    OBVIOUS
  <2>1. Loaded(E)
    BY DeciderKnown DEF Decides, BasicInv
  <2>2. Loaded(E)'
    BY <1>0, <2>1, Stays DEF Loaded, UpToDate
  <2> QED BY <2>2
<1>5. (persistent => legacy)'
  BY <1>0 DEF BasicInv
<1> QED BY <1>1, <1>2, <1>3, <1>4, <1>5 DEF BasicInv

LEMMA LoadedStays ==
    ASSUME NEW D, NEW E, NEW q, NEW live, NEW cand, NEW ok, Loaded(E), E.pc # "idle",
           Reads(D, q, E.floor, E.version, E.cap, live, cand, ok)
    PROVE  Loaded(D)
BY DEF Loaded, UpToDate, Reads

LEMMA LoadedNone ==
    ASSUME BasicInv, NEW d \in Deciders
    PROVE  Loaded(NoDec)
BY DeciderKnown, NoDecFields DEF Loaded, UpToDate

\* The version moves on with the row: what was loaded before no longer counts.
LEMMA VersionMoves ==
    ASSUME BasicInv, control' \in Control, control'.version > control.version,
           control'.floor >= control.floor, UNCHANGED deployment, NEW D \in Decision, Loaded(D)
    PROVE  Loaded(D)' /\ ~ UpToDate(D)'
<1>1. /\ D.version \in Nat /\ control.version \in Nat /\ control'.version \in Nat
      /\ D.floor \in 0..4 /\ control.floor \in 0..4 /\ control'.floor \in 0..4
  BY DecisionFields DEF BasicInv, RolloutTypes, Control
<1> QED BY <1>1, Stays DEF Loaded, UpToDate

LEMMA ControlBasic ==
    ASSUME BasicInv, control' \in Control, control'.version > control.version,
           control'.floor >= control.floor, VersionFits', ops' \in 0..MaxOps,
           UNCHANGED <<deployment, proc, entry, conv, stored, mishaps>>,
           dec' \in [Deciders -> Decision], \A q \in Deciders : dec'[q] \in {dec[q], NoDec}
    PROVE  BasicInv'
<1>0. /\ UNCHANGED <<deployment, proc, entry, old, legacy, persistent, mishaps, conv>>
      /\ control.floor \in 0..4 /\ control'.floor \in 0..4
  BY DEF stored, BasicInv, RolloutTypes, Control
<1>1. RolloutTypes'
  BY <1>0, Stays DEF BasicInv, RolloutTypes
<1>3. ASSUME NEW p \in Replicas PROVE Sane(proc[p], entry[p])'
  <2> PICK s, x : s = proc[p] /\ x = entry[p]
    OBVIOUS
  <2>1. Sane(s, x)'
    BY <1>0, Known, SaneGrows
  <2> QED BY <1>0, <2>1
<1>4. ASSUME NEW q \in Deciders PROVE Loaded(dec[q])'
  <2> PICK E : E = dec'[q]
    OBVIOUS
  <2>1. Loaded(E) /\ E \in Decision
    BY LoadedNone DEF BasicInv
  <2>2. Loaded(E)'
    BY <2>1, <1>0, VersionMoves
  <2> QED BY <2>2
<1>5. (persistent => legacy)'
  BY <1>0 DEF BasicInv
<1> QED BY <1>1, <1>3, <1>4, <1>5 DEF BasicInv

WithCap(c)   == [c EXCEPT !.cap = 2, !.version = c.version + 1]
WithPause(c) == [c EXCEPT !.paused = ~ c.paused, !.version = c.version + 1]

LEMMA CapEdit ==
    ASSUME NEW c \in Control
    PROVE  /\ WithCap(c) \in Control /\ WithCap(c).version = c.version + 1
           /\ WithCap(c).floor = c.floor /\ (WithCap(c).paused <=> c.paused)
<1> PICK v \in Nat, k \in 1..2 : v = c.version + 1 /\ k = 2
  BY DEF Control
<1> PICK x : x = [c EXCEPT !.cap = k, !.version = v]
  OBVIOUS
<1>1. x \in Control /\ x.version = v /\ x.floor = c.floor
  BY DEF Control
<1>2. x.paused = c.paused
  BY DEF Control
<1>3. x = WithCap(c)
  BY DEF WithCap
<1> QED BY <1>1, <1>2, <1>3

LEMMA PauseEdit ==
    ASSUME NEW c \in Control
    PROVE  /\ WithPause(c) \in Control /\ WithPause(c).version = c.version + 1
           /\ WithPause(c).floor = c.floor /\ (WithPause(c).paused <=> ~ c.paused)
<1> PICK v \in Nat : v = c.version + 1
  BY DEF Control
<1> PICK b \in BOOLEAN : b = ~ c.paused
  OBVIOUS
<1> PICK x : x = [c EXCEPT !.paused = b, !.version = v]
  OBVIOUS
<1>1. x \in Control /\ x.version = v /\ x.floor = c.floor
  BY DEF Control
<1>2. x.paused <=> b
  BY DEF Control
<1>3. x = WithPause(c)
  BY DEF WithPause
<1>4. b <=> ~ c.paused
  OBVIOUS
<1> QED BY <1>1, <1>2, <1>3, <1>4

\* The operator's changes, which move no floor.
LEMMA OperatorMoves ==
    ASSUME BasicInv, SetCap \/ SetPaused, UNCHANGED deployment
    PROVE  /\ control' \in Control /\ control'.version = control.version + 1
           /\ control'.floor = control.floor /\ VersionFits' /\ ops' \in 0..MaxOps
           /\ UNCHANGED <<proc, entry, dec, conv, stored, mishaps>>
<1> PICK c \in Control : c = control
  BY DEF BasicInv, RolloutTypes
<1> PICK m \in Nat, n \in Nat : m = MaxOps /\ n = ops
  BY Deployed DEF BasicInv, RolloutTypes
<1>0. /\ c.floor \in 0..4 /\ c.version \in Nat /\ c.cap \in 1..2 /\ c.paused \in BOOLEAN
      /\ n <= m /\ First \in 0..4
  BY Deployed DEF BasicInv, RolloutTypes, Control
<1>1. CASE SetCap
  <2>1. control' = WithCap(c)
    BY <1>1 DEF SetCap, WithCap
  <2>2. /\ control' \in Control /\ control'.version = c.version + 1 /\ control'.floor = c.floor
        /\ (control'.paused <=> c.paused)
    BY <2>1, CapEdit
  <2>3. ops' = n + 1 /\ n < m
    BY <1>1 DEF SetCap
  <2>4. VersionFits'
    BY <1>0, <2>2, <2>3, Stays DEF BasicInv, VersionFits
  <2> QED BY <1>0, <1>1, <2>2, <2>3, <2>4 DEF SetCap
<1>2. CASE SetPaused
  <2>1. control' = WithPause(c)
    BY <1>2 DEF SetPaused, WithPause
  <2>2. /\ control' \in Control /\ control'.version = c.version + 1 /\ control'.floor = c.floor
        /\ (control'.paused <=> ~ c.paused)
    BY <2>1, PauseEdit
  <2>3. (c.paused => ops' = n) /\ (~ c.paused => n + 2 <= m /\ ops' = n + 2)
    BY <1>2 DEF SetPaused
  <2>4. VersionFits' /\ ops' \in 0..m
    <3>1. CASE c.paused
      <4>1. c.version = 1 + (c.floor - First) + n - 1 /\ First <= c.floor /\ c.floor <= Last
        BY <3>1 DEF BasicInv, VersionFits
      <4>2. ops' = n /\ ~ control'.paused
        BY <2>2, <2>3, <3>1
      <4> PICK f, k : f = control'.floor /\ k = control'.version
        OBVIOUS
      <4>3. k = 1 + (f - First) + n - 0 /\ First <= f /\ f <= Last /\ n \in 0..m
        BY <1>0, <2>2, <4>1
      <4> QED BY <4>2, <4>3, Stays DEF VersionFits
    <3>2. CASE ~ c.paused
      <4>1. c.version = 1 + (c.floor - First) + n - 0 /\ First <= c.floor /\ c.floor <= Last
        BY <3>2 DEF BasicInv, VersionFits
      <4>2. ops' = n + 2 /\ n + 2 <= m /\ control'.paused
        BY <2>2, <2>3, <3>2
      <4> PICK f, k : f = control'.floor /\ k = control'.version
        OBVIOUS
      <4>3. /\ k = 1 + (f - First) + (n + 2) - 1 /\ First <= f /\ f <= Last
            /\ n + 2 \in 0..m /\ n + 2 >= 1
        BY <1>0, <2>2, <4>1, <4>2
      <4> QED BY <4>2, <4>3, Stays DEF VersionFits
    <3> QED BY <3>1, <3>2
  <2> QED BY <1>2, <2>2, <2>4 DEF SetPaused
<1> QED BY <1>1, <1>2

LEMMA OperatorBasic ==
    ASSUME BasicInv, SetCap \/ SetPaused, UNCHANGED deployment
    PROVE  BasicInv'
<1>1. control.version \in Nat /\ control.floor \in 0..4
  BY DEF BasicInv, RolloutTypes, Control
<1>2. dec' \in [Deciders -> Decision] /\ \A q \in Deciders : dec'[q] \in {dec[q], NoDec}
  BY OperatorMoves DEF BasicInv, RolloutTypes
<1> QED BY <1>1, <1>2, OperatorMoves, ControlBasic

LEMMA AdvanceBasic ==
    ASSUME BasicInv, NEW d \in Deciders, Advance(d), UNCHANGED deployment
    PROVE  BasicInv'
<1>1. CASE Decides(d, NoDec)
  BY <1>1, LoadedNone, DecidesBasic
<1>2. CASE ~ Decides(d, NoDec)
  <2>1. /\ control' \in Control /\ control'.floor = control.floor + 1
        /\ control'.version = control.version + 1 /\ control'.paused = control.paused
        /\ control.floor < Last
        /\ UNCHANGED <<deployment, proc, entry, conv, stored, mishaps, ops>>
        /\ dec' = [dec EXCEPT ![d] = NoDec] /\ NoDec \in Decision
    BY <1>2, AdvanceStep
  <2>2. control.version \in Nat /\ control.floor \in 0..4 /\ First \in 0..4 /\ Last \in 0..4
    BY DeciderKnown
  <2>3. VersionFits' /\ ops' \in 0..MaxOps
    <3>1. ops \in 0..MaxOps /\ MaxOps \in Nat
      BY Deployed DEF BasicInv, RolloutTypes
    <3> QED BY <2>1, <2>2, <3>1, Stays DEF BasicInv, VersionFits
  <2>4. dec' \in [Deciders -> Decision] /\ \A q \in Deciders : dec'[q] \in {dec[q], NoDec}
    BY <2>1, DeciderKnown
  <2>5. control'.version > control.version /\ control'.floor >= control.floor
    BY <2>1, <2>2
  <2> QED BY <2>1, <2>3, <2>4, <2>5, ControlBasic
<1> QED BY <1>1, <1>2

LEMMA DeciderBasic ==
    ASSUME BasicInv, NEW d \in Deciders, Decide(d) \/ WindowAges(d) \/ Abort(d),
           UNCHANGED deployment
    PROVE  BasicInv'
<1>0. Loaded(dec[d])
  BY DeciderKnown
<1>1. CASE Load(d)
  <2>1. Loaded(Began(control.floor, control.version, control.cap))
    BY <1>1, LoadStep, DeciderKnown, BeganFields DEF Loaded, UpToDate
  <2> QED BY <1>1, <2>1, LoadStep, DecidesBasic
<1>2. CASE ReadLive(d)
  <2>1. PICK D, q, cand :
           /\ Decides(d, D) /\ dec[d].pc = "live"
           /\ Reads(D, q, dec[d].floor, dec[d].version, dec[d].cap, entry, cand,
                    Converged(d, entry))
    BY <1>2, ReadStep
  <2>2. Loaded(D)
    BY <1>0, <2>1, LoadedStays
  <2> QED BY <2>1, <2>2, DecidesBasic
<1>3. CASE EndScan(d)
  <2>1. PICK D, ok :
           /\ Decides(d, D) /\ dec[d].pc = "scan"
           /\ Reads(D, "final", dec[d].floor, dec[d].version, dec[d].cap, dec[d].live,
                    dec[d].cand, ok)
    BY <1>3, ScanStep
  <2>2. Loaded(D)
    BY <1>0, <2>1, LoadedStays
  <2> QED BY <2>1, <2>2, DecidesBasic
<1>4. CASE Confirm(d)
  <2>1. PICK D, q :
           /\ Decides(d, D) /\ dec[d].pc = "final"
           /\ Reads(D, q, dec[d].floor, dec[d].version, dec[d].cap, dec[d].live,
                    dec[d].cand, dec[d].ok)
    BY <1>4, ConfirmStep
  <2>2. Loaded(D)
    BY <1>0, <2>1, LoadedStays
  <2> QED BY <2>1, <2>2, DecidesBasic
<1>5. CASE Advance(d)
  BY <1>5, AdvanceBasic
<1>6. CASE WindowAges(d)
  BY <1>0, <1>6, AgeStep, DecidesBasic
<1>7. CASE Abort(d)
  BY <1>7, AbortStep, LoadedNone, DecidesBasic
<1> QED BY <1>1, <1>2, <1>3, <1>4, <1>5, <1>6, <1>7 DEF Decide

\* A step that changes the tokens and the old process alone.
KeysMove == OldWrites \/ OldExits \/ Migrate \/ LegacyExpires

LEMMA TokensBasic ==
    ASSUME BasicInv, KeysMove \/ UNCHANGED rolloutVars, UNCHANGED deployment
    PROVE  BasicInv'
<1>0. UNCHANGED <<deployment, control, proc, entry, dec, conv, mishaps, ops>>
  BY DEF KeysMove, OldWrites, OldExits, Migrate, LegacyExpires, rolloutVars
<1>1. /\ old' \in BOOLEAN /\ legacy' \in BOOLEAN /\ persistent' \in BOOLEAN
      /\ persistent' => legacy'
  <2>1. /\ old \in BOOLEAN /\ legacy \in BOOLEAN /\ persistent \in BOOLEAN
        /\ persistent => legacy
    BY DEF BasicInv, RolloutTypes
  <2>2. old' \in {old, FALSE}
    BY DEF KeysMove, OldWrites, OldExits, Migrate, LegacyExpires, rolloutVars
  <2>3. \/ UNCHANGED <<legacy, persistent>>
        \/ legacy' = TRUE /\ persistent' = TRUE
        \/ UNCHANGED legacy /\ persistent' = FALSE
        \/ UNCHANGED persistent /\ ~ persistent /\ legacy' = FALSE
    BY DEF KeysMove, OldWrites, OldExits, Migrate, LegacyExpires, rolloutVars
  <2>4. old' \in BOOLEAN
    BY <2>1, <2>2
  <2>5. CASE UNCHANGED <<legacy, persistent>>
    BY <2>1, <2>4, <2>5
  <2>6. CASE legacy' = TRUE /\ persistent' = TRUE
    BY <2>4, <2>6
  <2>7. CASE UNCHANGED legacy /\ persistent' = FALSE
    BY <2>1, <2>4, <2>7
  <2>8. CASE UNCHANGED persistent /\ ~ persistent /\ legacy' = FALSE
    BY <2>1, <2>4, <2>8
  <2> QED BY <2>3, <2>5, <2>6, <2>7, <2>8
<1>2. RolloutTypes'
  BY <1>0, <1>1, Stays DEF BasicInv, RolloutTypes
<1>3. VersionFits'
  BY <1>0, Stays DEF BasicInv, VersionFits
<1>4. ASSUME NEW p \in Replicas PROVE Sane(proc[p], entry[p])'
  BY <1>0, Stays DEF BasicInv, Sane
<1>5. ASSUME NEW d \in Deciders PROVE Loaded(dec[d])'
  BY <1>0, Stays DEF BasicInv, Loaded, UpToDate
<1> QED BY <1>1, <1>2, <1>3, <1>4, <1>5 DEF BasicInv

\* A step of a replica.
Acting(p) == Replica(p) \/ PublishLost(p) \/ Cut(p) \/ Freeze(p) \/ Stop(p) \/ StartWrite(p)

LEMMA ReplicaTurn ==
    ASSUME BasicInv, NEW p \in Replicas, Acting(p), UNCHANGED deployment
    PROVE  /\ RolloutTurn(p) /\ UNCHANGED <<old, persistent>>
           /\ legacy' = legacy \/ (legacy' /\ proc[p].writing)
<1>1. RolloutTurn(p)
  BY BootTurn, JoinTurn, PollTurn, PublishTurn, HeartbeatTurn, LapseTurn, ExpiryTurn, CutTurn,
     StallTurn, FinishWriteTurn, PublishLostTurn, StopTurn, StartWriteTurn
     DEF Acting, Replica
<1>2. CASE FinishWrite(p)
  BY <1>1, <1>2 DEF FinishWrite, BasicInv, RolloutTypes
<1>3. CASE ~ FinishWrite(p)
  <2>1. UNCHANGED stored
    BY <1>3 DEF Acting, Replica, Boot, Join, PollFloor, Publish, Heartbeat, WriterLeaseLapses,
                EntryExpires, Heal, Thaw, PublishLost, Cut, Freeze, Stop, StartWrite
  <2> QED BY <1>1, <2>1 DEF stored
<1> QED BY <1>2, <1>3

LEMMA ReplicaBasic ==
    ASSUME BasicInv, NEW p \in Replicas, Acting(p), UNCHANGED deployment
    PROVE  BasicInv'
<1>1. /\ old' \in BOOLEAN /\ legacy' \in BOOLEAN /\ persistent' \in BOOLEAN
      /\ persistent' => legacy'
  BY ReplicaTurn DEF BasicInv, RolloutTypes
<1> QED BY <1>1, ReplicaTurn, TurnBasic

\* The steps of the specification.
LEMMA RolloutSteps ==
    ASSUME [RolloutNext]_<<rolloutVars, deployment>>
    PROVE  /\ UNCHANGED deployment
           /\ \/ \E p \in Replicas : Acting(p)
              \/ \E d \in Deciders : Decide(d) \/ WindowAges(d) \/ Abort(d)
              \/ KeysMove \/ UNCHANGED rolloutVars
              \/ SetCap \/ SetPaused
BY DEF RolloutNext, RolloutStep, Acting, KeysMove

LEMMA BasicKept == BasicInv /\ [RolloutNext]_<<rolloutVars, deployment>> => BasicInv'
BY RolloutSteps, ReplicaBasic, DeciderBasic, TokensBasic, OperatorBasic

LEMMA BasicInit == RolloutInit => BasicInv
<1> SUFFICES ASSUME RolloutInit PROVE BasicInv
  OBVIOUS
<1>0. /\ deployment \in Deployments /\ First \in 0..4 /\ Last \in 0..4 /\ First <= Last
      /\ MaxMishaps \in Nat /\ MaxOps \in Nat
  BY Deployed DEF RolloutInit
<1>1. control \in Control /\ control.floor = First /\ control.version = 1 /\ ~ control.paused
  BY <1>0 DEF RolloutInit, Control
<1>2. /\ NoReplica \in Rep /\ NoReplica.mode = First /\ NoReplica.seen = First
      /\ NoReplica.self = First /\ ~ NoReplica.frozen /\ ~ NoReplica.writing
  BY <1>0 DEF NoReplica, Rep
<1>3. /\ \A p \in Replicas : proc[p] = NoReplica /\ entry[p] = Absent
      /\ proc \in [Replicas -> Rep] /\ entry \in Registry
  BY <1>2 DEF RolloutInit, Registry, Advert, Absent
<1>4. /\ dec \in [Deciders -> Decision] /\ conv \in [Deciders -> Window]
      /\ \A d \in Deciders : dec[d] = NoDec
  BY <1>0, NoDecFields, NoConvFields DEF RolloutInit
<1>5. RolloutTypes
  BY <1>0, <1>1, <1>3, <1>4 DEF RolloutInit, RolloutTypes
<1>6. VersionFits
  BY <1>0, <1>1 DEF RolloutInit, VersionFits
<1>7. ASSUME NEW p \in Replicas PROVE Sane(proc[p], entry[p])
  BY <1>0, <1>1, <1>2, <1>3 DEF Sane
<1>8. ASSUME NEW d \in Deciders PROVE Loaded(dec[d])
  BY <1>0, <1>1, <1>4, NoDecFields DEF Loaded, UpToDate
<1>9. persistent => legacy
  <2>1. persistent => First < Bounded
    BY DEF RolloutInit
  <2>2. First < Bounded => First < Enforce
    BY <1>0 DEF Bounded, Enforce
  <2>3. First < Enforce => legacy
    BY DEF RolloutInit
  <2> QED BY <2>1, <2>2, <2>3
<1> QED BY <1>5, <1>6, <1>7, <1>8, <1>9 DEF BasicInv

LEMMA BasicSound == RolloutSpec => []BasicInv
BY BasicInit, BasicKept, PTL DEF RolloutSpec

\* An advance moves the floor and writes the cap only at the version it loaded them with.
THEOREM CapIsKept == RolloutSpec => CapKept
<1>1. ASSUME BasicInv, [RolloutNext]_<<rolloutVars, deployment>>, control'.floor # control.floor
      PROVE  control'.cap = control.cap
  <2>1. ~ \E p \in Replicas : Acting(p)
    BY <1>1, ReplicaTurn, RolloutSteps DEF RolloutTurn
  <2>2. ~ (KeysMove \/ UNCHANGED rolloutVars)
    BY <1>1 DEF KeysMove, OldWrites, OldExits, Migrate, LegacyExpires, rolloutVars
  <2>3. ~ (SetCap \/ SetPaused)
    BY <1>1, OperatorMoves, RolloutSteps
  <2>4. PICK d \in Deciders : Decide(d) \/ WindowAges(d) \/ Abort(d)
    BY <1>1, <2>1, <2>2, <2>3, RolloutSteps
  <2>5. Advance(d)
    BY <1>1, <2>4 DEF Decide, WindowAges, Abort, Load, ReadLive, EndScan, Confirm
  <2> QED BY <1>1, <2>5, AdvanceStep, RolloutSteps
<1>2. BasicInv /\ [RolloutNext]_<<rolloutVars, deployment>>
          => [control'.floor # control.floor => control'.cap = control.cap]_rolloutVars
  BY <1>1
<1> QED BY <1>2, BasicSound, PTL DEF RolloutSpec, CapKept

-----------------------------------------------------------------------------
(* The convergence, where whole processes stall over one advance at most. *)

LEMMA RolloutKnown ==
    ASSUME RolloutInv
    PROVE  /\ BasicInv /\ OnePhaseRun /\ RejectsNothing /\ FirstFloorExcludesOld
           /\ \A p \in Replicas : Near(proc[p])
           /\ \A d \in Deciders, p \in Replicas : Clears(dec[d], proc[p], entry[p])
           /\ \A d \in Deciders : LiveFits(dec[d]) /\ ScanFits(dec[d]) /\ WindowFits(conv[d])
           /\ control.floor \in 0..4 /\ First \in 0..4
BY Deployed DEF RolloutInv, StoredFits, BasicInv, RolloutTypes, Control

\* One replica's step, with rigid names for its record and entry.
LEMMA NearFollows ==
    ASSUME NEW r \in Rep, NEW e, NEW s \in Rep, NEW x, Follows(r, e, s, x), Near(r),
           control.floor \in 0..4
    PROVE  Near(s)
<1>1. r.mode \in 0..4 /\ s.mode \in 0..4
  BY Ranges
<1> QED BY <1>1 DEF Follows, Near, Expand, Bounded

LEMMA ClearsFollows ==
    ASSUME NEW r \in Rep, NEW e, NEW s \in Rep, NEW x, Follows(r, e, s, x), Near(r),
           NEW D \in Decision, Loaded(D), Clears(D, r, e), control.floor \in 0..4,
           Freezes \in BOOLEAN
    PROVE  Clears(D, s, x)
<1>1. r.mode \in 0..4 /\ s.mode \in 0..4 /\ D.floor \in 0..4
  BY Ranges, DecisionFields
<1>2. D.pc # "idle" => D.floor <= control.floor
  BY DEF Loaded
<1>3. UpToDate(D) => D.floor = control.floor
  BY DEF Loaded
<1>4. ASSUME UpToDate(D), ~ Freezes, IsRunning(s), x = Absent \/ D.pc = "advance"
      PROVE  s.mode >= D.floor
  <2>1. CASE s.mode >= control.floor
    BY <1>3, <1>4, <2>1
  <2>2. CASE ~ s.mode >= control.floor
    <3>1. IsRunning(r) /\ s.mode >= r.mode /\ (x = Absent => e = Absent)
      BY <1>4, <2>2 DEF Follows
    <3>2. r.mode >= D.floor
      BY <1>4, <3>1 DEF Clears
    <3> QED BY <1>1, <3>1, <3>2
  <2> QED BY <2>1, <2>2
<1>5. ASSUME D.pc # "idle", s.writing
      PROVE  D.floor < 2
  <2>1. CASE r.writing
    BY <1>5, <2>1 DEF Clears
  <2>2. CASE ~ r.writing
    BY <1>1, <1>2, <1>5, <2>2 DEF Follows, Near, Expand
  <2> QED BY <2>1, <2>2
<1> QED BY <1>4, <1>5 DEF Clears

\* What a record and a decision say holds after a step that leaves the row alone.
LEMMA SameRow ==
    ASSUME UNCHANGED <<deployment, control>>, NEW r, NEW e, NEW D
    PROVE  Near(r) => Near(r)' /\ (Clears(D, r, e) => Clears(D, r, e)')
BY Stays DEF Near, Clears, UpToDate

LEMMA TurnKeeps ==
    ASSUME RolloutInv, NEW p \in Replicas, RolloutTurn(p), BasicInv', UNCHANGED <<old, persistent>>,
           legacy' = legacy \/ (legacy' /\ proc[p].writing)
    PROVE  RolloutInv'
<1>0. /\ UNCHANGED <<deployment, control, dec, conv>> /\ control.floor \in 0..4
      /\ BasicInv /\ Freezes \in BOOLEAN
  BY RolloutKnown, Deployed DEF RolloutTurn, BasicInv, RolloutTypes
<1>1. OnePhaseRun'
  BY <1>0, Stays, RolloutKnown DEF OnePhaseRun
<1>2. proc[p].writing => control.floor < Bounded
  BY RolloutKnown DEF Near
<1>3. StoredFits'
  BY <1>0, <1>2, RolloutKnown
     DEF StoredFits, RejectsNothing, FirstFloorExcludesOld, Bounded, Enforce
<1>4. ASSUME NEW q \in Replicas
      PROVE  Near(proc[q])' /\ \A d \in Deciders : Clears(dec[d], proc[q], entry[q])'
  <2> PICK s, x, r, e : s = proc'[q] /\ x = entry'[q] /\ r = proc[q] /\ e = entry[q]
    OBVIOUS
  <2>1. r \in Rep /\ Near(r) /\ \A d \in Deciders : Clears(dec[d], r, e)
    BY <1>0, Known, RolloutKnown
  <2>2. s \in Rep /\ (Follows(r, e, s, x) \/ (s = r /\ x = e))
    BY <1>0, <2>1, Elsewhere DEF RolloutTurn, Fits
  <2>3. Near(s)
    BY <1>0, <2>1, <2>2, NearFollows
  <2>4. ASSUME NEW d \in Deciders PROVE Clears(dec[d], s, x)
    <3>1. dec[d] \in Decision /\ Loaded(dec[d]) /\ Clears(dec[d], r, e)
      BY <1>0, <2>1, DeciderKnown
    <3> QED BY <1>0, <2>1, <2>2, <3>1, ClearsFollows
  <2>5. Near(s)'
    BY <1>0, <2>3, SameRow
  <2>6. ASSUME NEW d \in Deciders PROVE Clears(dec[d], proc[q], entry[q])'
    <3> PICK D : D = dec[d]
      OBVIOUS
    <3>1. Clears(D, s, x)'
      BY <1>0, <2>3, <2>4, SameRow
    <3> QED BY <1>0, <3>1
  <2> QED BY <2>5, <2>6
<1>5. ASSUME NEW d \in Deciders
      PROVE  (LiveFits(dec[d]) /\ ScanFits(dec[d]) /\ WindowFits(conv[d]))'
  <2> PICK D, w : D = dec[d] /\ w = conv[d]
    OBVIOUS
  <2>1. LiveFits(D) /\ ScanFits(D) /\ WindowFits(w) /\ Clears(D, proc[p], entry[p])
        /\ D.floor \in 0..4
    BY <1>0, RolloutKnown, DeciderKnown, DecisionFields
  <2>2. LiveFits(D)'
    BY <2>1 DEF LiveFits
  <2>3. WindowFits(w)'
    BY <1>0, <2>1, Stays DEF WindowFits
  <2>4. ScanFits(D)'
    <3>1. CASE UNCHANGED legacy
      BY <2>1, <3>1 DEF ScanFits
    <3>2. CASE proc[p].writing
      <4>1. D.pc # "idle" => D.floor + 1 # Bounded /\ D.floor + 1 # Enforce
        BY <2>1, <3>2 DEF Clears, Bounded, Enforce
      <4> QED BY <2>1, <4>1 DEF ScanFits
    <3> QED BY <3>1, <3>2
  <2> QED BY <1>0, <2>2, <2>3, <2>4
<1> QED BY <1>1, <1>3, <1>4, <1>5 DEF RolloutInv

\* A step of decider d that leaves the row alone and its decision and window in order.
LEMMA DecidesKeeps ==
    ASSUME RolloutInv, NEW d \in Deciders, NEW D, Decides(d, D), BasicInv',
           \A p \in Replicas : Clears(D, proc[p], entry[p]),
           LiveFits(D), ScanFits(D), WindowFits(conv'[d])
    PROVE  RolloutInv'
<1>0. /\ UNCHANGED <<deployment, control, proc, entry, old, legacy, persistent>> /\ BasicInv
  BY RolloutKnown DEF Decides, stored
<1>1. OnePhaseRun' /\ StoredFits'
  BY <1>0, Stays, RolloutKnown
     DEF OnePhaseRun, StoredFits, RejectsNothing, FirstFloorExcludesOld
<1>2. ASSUME NEW q \in Replicas PROVE Near(proc[q])'
  BY <1>0, RolloutKnown DEF Near
<1>3. ASSUME NEW x \in Deciders, NEW q \in Replicas PROVE Clears(dec[x], proc[q], entry[q])'
  <2> PICK E : E = dec'[x]
    OBVIOUS
  <2>1. Clears(E, proc[q], entry[q])
    BY <1>0, RolloutKnown, DeciderKnown DEF Decides
  <2> QED BY <1>0, <2>1, Stays DEF Clears, UpToDate
<1>4. ASSUME NEW x \in Deciders
      PROVE  (LiveFits(dec[x]) /\ ScanFits(dec[x]) /\ WindowFits(conv[x]))'
  <2> PICK E, w : E = dec'[x] /\ w = conv'[x]
    OBVIOUS
  <2>1. LiveFits(E) /\ ScanFits(E) /\ WindowFits(w)
    BY <1>0, RolloutKnown, DeciderKnown DEF Decides
  <2>2. LiveFits(E)'
    BY <2>1 DEF LiveFits
  <2>3. ScanFits(E)'
    BY <1>0, <2>1 DEF ScanFits
  <2>4. WindowFits(w)'
    BY <1>0, <2>1, Stays DEF WindowFits
  <2> QED BY <2>2, <2>3, <2>4
<1> QED BY <1>1, <1>2, <1>3, <1>4 DEF RolloutInv

LEMMA NoneClears ==
    ASSUME BasicInv
    PROVE  /\ \A p \in Replicas : Clears(NoDec, proc[p], entry[p])
           /\ LiveFits(NoDec) /\ ScanFits(NoDec)
BY NoDecFields, Deployed DEF Clears, LiveFits, ScanFits, UpToDate, BasicInv, RolloutTypes

\* The decision goes on with the same floor and version.
LEMMA ClearsStays ==
    ASSUME NEW D, NEW E, NEW q, NEW live, NEW cand, NEW ok, NEW r, NEW e, Clears(E, r, e),
           E.pc # "idle", q # "advance",
           Reads(D, q, E.floor, E.version, E.cap, live, cand, ok)
    PROVE  Clears(D, r, e)
BY DEF Clears, UpToDate, Reads

LEMMA LoadKeeps ==
    ASSUME RolloutInv, NEW d \in Deciders, Load(d), UNCHANGED deployment, BasicInv'
    PROVE  RolloutInv'
<1> PICK D : D = Began(control.floor, control.version, control.cap)
  OBVIOUS
<1>0. BasicInv /\ OnePhaseRun
  BY RolloutKnown
<1>1. /\ Decides(d, D) /\ conv' = conv /\ InTime /\ control.floor < Last
      /\ D.pc = "live" /\ D.floor = control.floor
  BY <1>0, LoadStep, BeganFields, DeciderKnown
<1>2. ASSUME NEW p \in Replicas PROVE Clears(D, proc[p], entry[p])
  <2> PICK r, e : r = proc[p] /\ e = entry[p]
    OBVIOUS
  <2>1. /\ r \in Rep /\ Sane(r, e) /\ Near(r) /\ control.floor \in 0..4 /\ First \in 0..4
        /\ Last \in 0..4
    BY <1>0, Known, RolloutKnown
  <2>2. (IsRunning(r) /\ ~ r.frozen) =>
            /\ e = Absent => r.seen = control.floor
            /\ r.writing => r.mode = Expand
    BY <1>1 DEF InTime, Running, IsRunning
  <2>3. r.mode \in 0..4 /\ r.seen \in 0..4 /\ r.seen <= r.mode /\ (r.frozen => Freezes)
    BY <2>1, Ranges DEF Sane
  <2>4. (UpToDate(D) /\ ~ Freezes /\ IsRunning(r) /\ (e = Absent \/ D.pc = "advance")) =>
            r.mode >= D.floor
    BY <1>1, <2>1, <2>2, <2>3
  <2>5. r.writing => D.floor < 2
    <3>1. r.writing => IsRunning(r) /\ First = 0 /\ r.mode + 1 >= control.floor
      BY <2>1 DEF Sane, Near, Expand
    <3>2. CASE r.frozen
      BY <1>0, <1>1, <2>1, <2>3, <3>1, <3>2 DEF OnePhaseRun
    <3>3. CASE ~ r.frozen
      BY <1>1, <2>1, <2>2, <2>3, <3>1, <3>3 DEF Expand
    <3> QED BY <3>2, <3>3
  <2> QED BY <2>4, <2>5 DEF Clears
<1>3. LiveFits(D) /\ ScanFits(D) /\ WindowFits(conv'[d])
  BY <1>1, RolloutKnown DEF LiveFits, ScanFits
<1> QED BY <1>1, <1>2, <1>3, DecidesKeeps

LEMMA ReadKeeps ==
    ASSUME RolloutInv, NEW d \in Deciders, ReadLive(d), UNCHANGED deployment, BasicInv'
    PROVE  RolloutInv'
<1> PICK E : E = dec[d]
  OBVIOUS
<1>0. /\ BasicInv /\ E \in Decision /\ E.floor \in 0..4 /\ entry \in Registry
      /\ legacy \in BOOLEAN /\ persistent \in BOOLEAN
  BY RolloutKnown, DeciderKnown, DecisionFields DEF BasicInv, RolloutTypes
<1>1. PICK D, q, cand :
         /\ Decides(d, D) /\ conv' = conv
         /\ E.pc = "live" /\ q = (IF Scans(d) THEN "scan" ELSE "final")
         /\ cand = <<legacy, persistent>>
         /\ Reads(D, q, E.floor, E.version, E.cap, entry, cand, Converged(d, entry))
  BY <1>0, ReadStep
<1>2. ASSUME NEW p \in Replicas PROVE Clears(D, proc[p], entry[p])
  <2>1. Clears(E, proc[p], entry[p])
    BY RolloutKnown
  <2>2. q # "advance"
    BY <1>1
  <2> QED BY <1>1, <2>1, <2>2, ClearsStays
<1>3. D.pc = q /\ D.floor = E.floor /\ D.live = entry /\ D.cand = cand
      /\ (D.ok <=> Converged(d, entry))
  BY <1>1 DEF Reads
<1>4. LiveFits(D)
  <2>1. D.pc # "advance"
    BY <1>1, <1>3
  <2>2. Converged(d, entry) => \A p \in Replicas : entry[p] # Absent => entry[p] >= E.floor
    BY DEF Converged
  <2> QED BY <1>3, <2>1, <2>2 DEF LiveFits
<1>5. ScanFits(D)
  <2>1. CASE Scans(d)
    <3>1. D.pc = "scan" /\ D.cand[1] = legacy /\ D.cand[2] = persistent
      BY <1>1, <1>3, <2>1
    <3> QED BY <1>0, <3>1 DEF ScanFits
  <2>2. CASE ~ Scans(d)
    <3>1. D.pc = "final"
      BY <1>1, <1>3, <2>2
    <3>2. D.floor + 1 \notin {V3Write, Bounded, Enforce}
      BY <1>3, <2>2 DEF Scans, Target
    <3> QED BY <3>1, <3>2 DEF ScanFits
  <2> QED BY <2>1, <2>2
<1>6. WindowFits(conv'[d])
  BY <1>1, RolloutKnown
<1> QED BY <1>1, <1>2, <1>4, <1>5, <1>6, DecidesKeeps

LEMMA ScanKeeps ==
    ASSUME RolloutInv, NEW d \in Deciders, EndScan(d), UNCHANGED deployment, BasicInv'
    PROVE  RolloutInv'
<1> PICK E : E = dec[d]
  OBVIOUS
<1>0. /\ BasicInv /\ E \in Decision /\ E.floor \in 0..4
      /\ E.cand[1] \in BOOLEAN /\ E.cand[2] \in BOOLEAN
  BY RolloutKnown, DeciderKnown, DecisionFields
<1>1. PICK D, ok, l, n :
         /\ Decides(d, D) /\ E.pc = "scan"
         /\ conv'[d] = conv[d] \/ ~ conv'[d].aged
         /\ l \in BOOLEAN /\ n \in BOOLEAN /\ Found(d, l, n)
         /\ ok \in BOOLEAN /\ (ok => E.ok /\ Clean(d, l, n) /\ (Target(d) = V3Write => Fleet(d)))
         /\ Reads(D, "final", E.floor, E.version, E.cap, E.live, E.cand, ok)
  BY <1>0, ScanStep
<1>2. ASSUME NEW p \in Replicas PROVE Clears(D, proc[p], entry[p])
  BY <1>1, RolloutKnown, ClearsStays
<1>3. D.pc = "final" /\ D.floor = E.floor /\ D.live = E.live /\ (D.ok <=> ok)
  BY <1>1 DEF Reads
<1>4. LiveFits(E) /\ ScanFits(E) /\ WindowFits(conv[d])
  BY RolloutKnown
<1>5. LiveFits(D)
  BY <1>1, <1>3, <1>4 DEF LiveFits
<1>6. ScanFits(D)
  <2>1. ASSUME ok, D.floor + 1 = V3Write PROVE ~ old
    <3>1. /\ conv[d].known /\ conv[d].set = E.live /\ conv[d].aged
          /\ Cardinality({p \in Replicas : E.live[p] # Absent}) = Expect
      BY <1>1, <1>3, <2>1 DEF Target, Fleet, Stable
    <3>2. old => Cardinality({p \in Replicas : E.live[p] # Absent}) < Expect
      BY <1>4, <3>1 DEF WindowFits
    <3>3. Expect \in Nat
      BY <1>0, Deployed DEF BasicInv, RolloutTypes
    <3> QED BY <3>1, <3>2, <3>3
  <2>2. ASSUME ok, D.floor + 1 = Bounded PROVE ~ persistent
    BY <1>0, <1>1, <1>3, <1>4, <2>2 DEF Target, Clean, Found, ScanFits
  <2>3. ASSUME ok, D.floor + 1 = Enforce PROVE ~ legacy
    BY <1>0, <1>1, <1>3, <1>4, <2>3 DEF Target, Clean, Found, ScanFits
  <2> QED BY <1>3, <2>1, <2>2, <2>3 DEF ScanFits
<1>7. WindowFits(conv'[d])
  BY <1>1, <1>4 DEF WindowFits
<1> QED BY <1>1, <1>2, <1>5, <1>6, <1>7, DecidesKeeps

LEMMA ConfirmKeeps ==
    ASSUME RolloutInv, NEW d \in Deciders, Confirm(d), UNCHANGED deployment, BasicInv'
    PROVE  RolloutInv'
<1> PICK E : E = dec[d]
  OBVIOUS
<1>0. BasicInv /\ E \in Decision /\ E.floor \in 0..4 /\ E.ok \in BOOLEAN
  BY RolloutKnown, DeciderKnown, DecisionFields
<1>1. PICK D, q :
         /\ Decides(d, D) /\ conv' = conv /\ E.pc = "final"
         /\ q = "idle" \/ (q = "advance" /\ E.ok /\ entry = E.live)
         /\ Reads(D, q, E.floor, E.version, E.cap, E.live, E.cand, E.ok)
  BY <1>0, ConfirmStep
<1>2. /\ D.pc = q /\ D.floor = E.floor /\ D.live = E.live /\ (D.ok <=> E.ok)
      /\ D.version = E.version
  BY <1>1 DEF Reads
<1>3. LiveFits(E) /\ ScanFits(E) /\ WindowFits(conv'[d])
  BY <1>1, RolloutKnown
<1>4. ASSUME NEW p \in Replicas PROVE Clears(D, proc[p], entry[p])
  <2> PICK r, e : r = proc[p] /\ e = entry[p]
    OBVIOUS
  <2>1. r \in Rep /\ r.mode \in 0..4 /\ e \in Advert /\ Sane(r, e) /\ Clears(E, r, e)
    BY <1>0, Known, Ranges, RolloutKnown
  <2>2. CASE q = "idle"
    BY <1>2, <2>2 DEF Clears, UpToDate
  <2>3. CASE q = "advance"
    <3>1. UpToDate(D) => UpToDate(E)
      BY <1>1, <1>2 DEF UpToDate
    <3>2. e # Absent => e >= D.floor
      BY <1>1, <1>2, <1>3, <2>3 DEF LiveFits
    <3>3. e # Absent => r.mode >= D.floor
      BY <1>0, <1>2, <2>1, <3>2 DEF Sane, Advert
    <3> QED BY <1>1, <1>2, <2>1, <3>1, <3>3 DEF Clears
  <2> QED BY <1>1, <2>2, <2>3
<1>5. LiveFits(D) /\ ScanFits(D)
  BY <1>1, <1>2, <1>3 DEF LiveFits, ScanFits
<1> QED BY <1>1, <1>3, <1>4, <1>5, DecidesKeeps

\* The row moves on: no decision loaded before counts any more.
LEMMA RowKeeps ==
    ASSUME RolloutInv, BasicInv', control' \in Control, control'.version > control.version,
           control'.floor >= control.floor, StoredFits',
           \A p \in Replicas : Near(proc[p])',
           UNCHANGED <<deployment, proc, entry, conv, stored>>,
           \A q \in Deciders : dec'[q] \in {dec[q], NoDec}
    PROVE  RolloutInv'
<1>0. BasicInv /\ UNCHANGED <<deployment, proc, entry, conv, old, legacy, persistent>>
  BY RolloutKnown DEF stored
<1>1. OnePhaseRun'
  BY <1>0, Stays, RolloutKnown DEF OnePhaseRun
<1>2. ASSUME NEW d \in Deciders
      PROVE  /\ \A p \in Replicas : Clears(dec[d], proc[p], entry[p])'
             /\ (LiveFits(dec[d]) /\ ScanFits(dec[d]) /\ WindowFits(conv[d]))'
  <2> PICK E, w : E = dec'[d] /\ w = conv[d]
    OBVIOUS
  <2>1. /\ \A p \in Replicas : Clears(E, proc[p], entry[p])
        /\ LiveFits(E) /\ ScanFits(E) /\ WindowFits(w) /\ E \in Decision /\ Loaded(E)
    BY <1>0, RolloutKnown, NoneClears, LoadedNone, DeciderKnown, NoDecFields
  <2>2. ~ UpToDate(E)'
    BY <1>0, <2>1, VersionMoves
  <2>3. ASSUME NEW p \in Replicas PROVE Clears(dec[d], proc[p], entry[p])'
    <3> PICK r, e : r = proc[p] /\ e = entry[p]
      OBVIOUS
    <3>1. Clears(E, r, e)'
      BY <2>1, <2>2 DEF Clears
    <3> QED BY <1>0, <3>1
  <2>4. LiveFits(E)'
    BY <2>1 DEF LiveFits
  <2>5. ScanFits(E)'
    BY <1>0, <2>1 DEF ScanFits
  <2>6. WindowFits(w)'
    BY <1>0, <2>1, Stays DEF WindowFits
  <2> QED BY <1>0, <2>3, <2>4, <2>5, <2>6
<1> QED BY <1>1, <1>2 DEF RolloutInv

LEMMA OperatorKeeps ==
    ASSUME RolloutInv, SetCap \/ SetPaused, UNCHANGED deployment, BasicInv'
    PROVE  RolloutInv'
<1>0. BasicInv /\ control.version \in Nat /\ control.floor \in 0..4
  BY RolloutKnown DEF BasicInv, RolloutTypes, Control
<1>1. /\ control' \in Control /\ control'.version = control.version + 1
      /\ control'.floor = control.floor
      /\ UNCHANGED <<proc, entry, dec, conv, stored>>
  BY <1>0, OperatorMoves
<1>2. StoredFits' /\ \A p \in Replicas : Near(proc[p])'
  BY <1>1, RolloutKnown DEF StoredFits, RejectsNothing, FirstFloorExcludesOld, Near, stored
<1>3. control'.version > control.version /\ control'.floor >= control.floor
  BY <1>0, <1>1
<1> QED BY <1>1, <1>2, <1>3, RowKeeps

LEMMA AdvanceKeeps ==
    ASSUME RolloutInv, NEW d \in Deciders, Advance(d), UNCHANGED deployment, BasicInv'
    PROVE  RolloutInv'
<1>0. /\ BasicInv /\ OnePhaseRun /\ control.version \in Nat /\ control.floor \in 0..4
      /\ First \in 0..4 /\ Last \in 0..4 /\ WindowFits(conv[d]) /\ First <= control.floor
  BY RolloutKnown, DeciderKnown
<1>1. CASE Decides(d, NoDec)
  <2>1. conv'[d] = conv[d] /\ WindowFits(conv'[d])
    BY <1>0, AdvanceStep
  <2> QED BY <1>0, <1>1, <2>1, NoneClears, DecidesKeeps
<1>2. CASE ~ Decides(d, NoDec)
  <2> PICK E : E = dec[d]
    OBVIOUS
  <2>1. /\ E.pc = "advance" /\ UpToDate(E) /\ E.floor = control.floor /\ control.floor < Last
        /\ control' \in Control /\ control'.floor = control.floor + 1
        /\ control'.version = control.version + 1
        /\ UNCHANGED <<deployment, proc, entry, conv, stored>>
        /\ dec' = [dec EXCEPT ![d] = NoDec]
    BY <1>0, <1>2, AdvanceStep
  <2>2. E \in Decision /\ LiveFits(E) /\ ScanFits(E) /\ E.ok
    BY <1>0, <2>1, RolloutKnown, DeciderKnown DEF LiveFits
  <2>3. StoredFits'
    <3>1. /\ control.floor + 1 = V3Write => ~ old
          /\ control.floor + 1 = Bounded => ~ persistent
          /\ control.floor + 1 = Enforce => ~ legacy
      BY <2>1, <2>2 DEF ScanFits
    <3>2. UNCHANGED <<old, legacy, persistent>>
      BY <2>1 DEF stored
    <3> QED BY <1>0, <2>1, <3>1, <3>2, RolloutKnown
         DEF StoredFits, RejectsNothing, FirstFloorExcludesOld, V3Write, Bounded, Enforce
  <2>4. ASSUME NEW p \in Replicas PROVE Near(proc[p])'
    <3> PICK r, e : r = proc[p] /\ e = entry[p]
      OBVIOUS
    <3>1. r \in Rep /\ r.mode \in 0..4 /\ r.seen \in 0..4 /\ Sane(r, e) /\ Clears(E, r, e)
      BY <1>0, Known, Ranges, RolloutKnown
    <3>2. IsRunning(r) => r.mode >= control.floor
      <4>1. CASE Freezes
        BY <1>0, <2>1, <3>1, <4>1 DEF OnePhaseRun, Sane
      <4>2. CASE ~ Freezes
        BY <2>1, <3>1, <4>2 DEF Clears
      <4> QED BY <4>1, <4>2
    <3>3. r.writing => control.floor < 2
      BY <2>1, <3>1 DEF Clears
    <3>4. Near(r)'
      BY <1>0, <2>1, <3>1, <3>2, <3>3 DEF Near, Bounded
    <3> QED BY <2>1, <3>4
  <2>5. control'.version > control.version /\ control'.floor >= control.floor
    BY <1>0, <2>1
  <2>6. \A q \in Deciders : dec'[q] \in {dec[q], NoDec}
    BY <1>0, <2>1, DeciderKnown
  <2> QED BY <2>1, <2>3, <2>4, <2>5, <2>6, RowKeeps
<1> QED BY <1>1, <1>2

LEMMA DeciderKeeps ==
    ASSUME RolloutInv, NEW d \in Deciders, Decide(d) \/ WindowAges(d) \/ Abort(d),
           UNCHANGED deployment, BasicInv'
    PROVE  RolloutInv'
<1>0. BasicInv /\ WindowFits(conv[d]) /\ LiveFits(dec[d]) /\ ScanFits(dec[d])
      /\ \A p \in Replicas : Clears(dec[d], proc[p], entry[p])
  BY RolloutKnown
<1>1. CASE WindowAges(d)
  BY <1>0, <1>1, AgeStep, DecidesKeeps
<1>2. CASE Abort(d)
  <2>1. Decides(d, NoDec) /\ WindowFits(conv'[d])
    BY <1>0, <1>2, AbortStep DEF WindowFits
  <2> QED BY <1>0, <2>1, NoneClears, DecidesKeeps
<1> QED BY <1>1, <1>2, LoadKeeps, ReadKeeps, ScanKeeps, ConfirmKeeps, AdvanceKeeps DEF Decide

LEMMA TokensKeeps ==
    ASSUME RolloutInv, KeysMove \/ UNCHANGED rolloutVars, UNCHANGED deployment, BasicInv'
    PROVE  RolloutInv'
<1>0. BasicInv /\ UNCHANGED <<deployment, control, proc, entry, dec, conv>>
  BY RolloutKnown DEF KeysMove, OldWrites, OldExits, Migrate, LegacyExpires, rolloutVars
<1>1. OnePhaseRun'
  BY <1>0, Stays, RolloutKnown DEF OnePhaseRun
<1>2. /\ old' => old
      /\ persistent' => persistent \/ old
      /\ legacy' => legacy \/ old
  BY DEF KeysMove, OldWrites, OldExits, Migrate, LegacyExpires, rolloutVars
<1>3. control.floor \in 0..4 /\ (control.floor >= V3Write => ~ old)
  BY RolloutKnown DEF FirstFloorExcludesOld
<1>4. StoredFits'
  BY <1>0, <1>2, <1>3, RolloutKnown
     DEF StoredFits, RejectsNothing, FirstFloorExcludesOld, V3Write, Bounded, Enforce
<1>5. ASSUME NEW p \in Replicas PROVE Near(proc[p])'
  BY <1>0, RolloutKnown DEF Near
<1>6. ASSUME NEW d \in Deciders, NEW p \in Replicas PROVE Clears(dec[d], proc[p], entry[p])'
  BY <1>0, Stays, RolloutKnown DEF Clears, UpToDate
<1>7. ASSUME NEW d \in Deciders
      PROVE  (LiveFits(dec[d]) /\ ScanFits(dec[d]) /\ WindowFits(conv[d]))'
  <2> PICK E, w : E = dec[d] /\ w = conv[d]
    OBVIOUS
  <2>1. /\ LiveFits(E) /\ ScanFits(E) /\ WindowFits(w)
        /\ E.floor \in 0..4 /\ (E.pc # "idle" => E.floor <= control.floor)
    BY <1>0, RolloutKnown, DeciderKnown, DecisionFields DEF Loaded
  <2>2. LiveFits(E)'
    BY <2>1 DEF LiveFits
  <2>3. ScanFits(E)'
    <3>1. (E.pc # "idle" /\ E.floor + 1 \in {Bounded, Enforce}) => ~ old
      BY <1>3, <2>1 DEF V3Write, Bounded, Enforce
    <3> QED BY <1>2, <2>1, <3>1 DEF ScanFits
  <2>4. WindowFits(w)'
    BY <1>0, <1>2, <2>1, Stays DEF WindowFits
  <2> QED BY <1>0, <2>2, <2>3, <2>4
<1> QED BY <1>1, <1>4, <1>5, <1>6, <1>7 DEF RolloutInv

LEMMA RolloutKept == RolloutInv /\ [RolloutNext]_<<rolloutVars, deployment>> => RolloutInv'
<1> SUFFICES ASSUME RolloutInv, [RolloutNext]_<<rolloutVars, deployment>> PROVE RolloutInv'
  OBVIOUS
<1>1. BasicInv /\ BasicInv' /\ UNCHANGED deployment
  BY RolloutKnown, BasicKept, RolloutSteps
<1>2. ASSUME NEW p \in Replicas, Acting(p) PROVE RolloutInv'
  BY <1>1, <1>2, ReplicaTurn, TurnKeeps
<1> QED BY <1>1, <1>2, RolloutSteps, DeciderKeeps, TokensKeeps, OperatorKeeps

LEMMA RolloutBegins == RolloutInit /\ OnePhaseRun => RolloutInv
<1> SUFFICES ASSUME RolloutInit, OnePhaseRun PROVE RolloutInv
  OBVIOUS
<1>0. BasicInv /\ First \in 0..4 /\ control.floor = First
  BY BasicInit, Deployed DEF RolloutInit
<1>1. StoredFits
  <2>1. (persistent => First < Bounded) /\ (legacy => First < Enforce) /\ (old => First = Expand)
    BY DEF RolloutInit
  <2> QED BY <1>0, <2>1
       DEF StoredFits, RejectsNothing, FirstFloorExcludesOld, V3Write, Bounded, Enforce, Expand
<1>2. ASSUME NEW p \in Replicas PROVE proc[p].st = "off" /\ ~ proc[p].writing
  BY DEF RolloutInit, NoReplica
<1>3. ASSUME NEW d \in Deciders PROVE dec[d] = NoDec /\ ~ conv[d].known
  BY DEF RolloutInit, NoConv
<1>4. \A p \in Replicas : Near(proc[p])
  BY <1>2 DEF Near, IsRunning
<1>5. ASSUME NEW d \in Deciders
      PROVE  /\ \A p \in Replicas : Clears(dec[d], proc[p], entry[p])
             /\ LiveFits(dec[d]) /\ ScanFits(dec[d]) /\ WindowFits(conv[d])
  BY <1>0, <1>3, NoneClears DEF WindowFits
<1> QED BY <1>0, <1>1, <1>4, <1>5 DEF RolloutInv

\* The invariant the rollout rests on.
THEOREM RolloutInvariant == RolloutSpec /\ OnePhaseRun => []RolloutInv
BY RolloutBegins, RolloutKept, PTL DEF RolloutSpec

\* What the rows, records and decisions are made of.
LEMMA RolloutTyped == BasicInv => RolloutTypeOK
<1> SUFFICES ASSUME BasicInv PROVE RolloutTypeOK
  OBVIOUS
<1>1. /\ deployment \in Deployments /\ control \in Control
      /\ mishaps \in 0..MaxMishaps /\ ops \in 0..MaxOps /\ (persistent => legacy)
  BY DEF BasicInv, RolloutTypes
<1>2. /\ First \in 0..4 /\ Last \in 0..4 /\ MaxOps \in Nat /\ ops \in Nat /\ ops <= MaxOps
      /\ control.floor \in 0..4 /\ control.version \in Nat /\ control.cap \in 1..2
      /\ control.paused \in BOOLEAN
  BY <1>1, Deployed DEF Control
<1>3. control.floor \in First..Last
  BY <1>2 DEF BasicInv, VersionFits
<1>4. control.version \in 1..(1 + Last - First + MaxOps)
  <2> PICK h \in 0..1 : h = (IF control.paused THEN 1 ELSE 0) /\ h <= ops
    BY <1>2 DEF BasicInv, VersionFits
  <2>1. control.version = 1 + (control.floor - First) + ops - h
    BY DEF BasicInv, VersionFits
  <2> QED BY <1>2, <1>3, <2>1
<1>5. ASSUME NEW p \in Replicas
      PROVE  /\ proc[p].st \in {"off", "boot", "up", "gone"}
             /\ proc[p].seen \in First..control.floor
             /\ proc[p].mode \in proc[p].seen..(proc[p].seen + 1) /\ proc[p].mode <= Enforce
             /\ entry[p] \in {Absent} \cup First..proc[p].mode
             /\ proc[p].writing => First = Expand
  <2> PICK r, e : r = proc[p] /\ e = entry[p]
    OBVIOUS
  <2>1. r \in Rep /\ Sane(r, e) /\ e \in Advert
    BY Known
  <2>2. r.st \in {"off", "boot", "up", "gone"} /\ r.seen \in 0..4 /\ r.mode \in 0..4
    BY <2>1, Ranges
  <2> QED BY <1>2, <2>1, <2>2 DEF Sane, Advert, Absent, Enforce
<1>6. ASSUME NEW d \in Deciders PROVE dec[d].version \in 0..control.version
  BY <1>2, DeciderKnown, DecisionFields DEF Loaded
<1> QED BY <1>1, <1>2, <1>3, <1>4, <1>5, <1>6 DEF RolloutTypeOK

\* Where whole processes stall over one advance at most, no replica that may issue sessions
\* is two phases behind the floor, what a phase rejects is gone when it begins and stays so,
\* and no process from before the registry runs once v3 tokens are written.
THEOREM RolloutIsSound == RolloutSpec /\ OnePhaseRun => []RolloutSound
<1>1. RolloutInv => RolloutSound
  <2> SUFFICES ASSUME RolloutInv PROVE RolloutSound
    OBVIOUS
  <2>1. RolloutTypeOK
    BY RolloutKnown, RolloutTyped
  <2>2. OnePhaseBehind
    BY RolloutKnown DEF OnePhaseBehind, MayWrite, Acts, Near, IsRunning
  <2> QED BY <2>1, <2>2, RolloutKnown DEF RolloutSound
<1> QED BY <1>1, RolloutInvariant, PTL
=============================================================================
