--------------------------- MODULE CardActionQueue ---------------------------
(***************************************************************************)
(* The Redis queue of internal/cardactiondispatch: nine keys changed only  *)
(* by Lua scripts, each of which Redis runs atomically.  One operator per  *)
(* script; CardActionDispatch says who runs them and when.                 *)
(*                                                                         *)
(* Times are kept as what the scripts tell apart: a ready entry is waiting *)
(* or due, a lease is live or expired, a route-missing marker is inside or *)
(* past its window, a dead letter is inside or past its retention.  The    *)
(* passage of time is the four ...Elapses/...Arrives actions.              *)
(***************************************************************************)
EXTENDS Naturals, FiniteSets

CONSTANTS
    Events,         \* event ids (GenSeq never repeats one)
    Tokens,         \* lease tokens
    NoToken,        \* no field in the tokens hash
    ReclaimLimit    \* most leases one ReclaimExpired call returns to ready

ASSUME NoTokenAssumption == NoToken \notin Tokens
ASSUME ReclaimLimitAssumption == ReclaimLimit \in Nat \ {0}

VARIABLES
    ready,      \* ZSET scored by due time
    leased,     \* ZSET scored by lease expiry
    payload,    \* HASH of live events
    attempts,   \* HASH of claim counters; a missing field reads as 0
    tokens,     \* HASH of current lease tokens
    dlq,        \* ZSET and two HASHes of dead letters, always changed together
    marker      \* HASH route_missing_since

liveVars == <<ready, leased, payload, attempts, tokens>>
queueVars == <<ready, leased, payload, attempts, tokens, dlq, marker>>

QueueTypeOK ==
    /\ ready \in [Events -> {"no", "waiting", "due"}]
    /\ leased \in [Events -> {"no", "live", "expired"}]
    /\ payload \in SUBSET Events
    /\ attempts \in [Events -> Nat]
    /\ tokens \in [Events -> Tokens \cup {NoToken}]
    /\ dlq \in [Events -> {"no", "kept", "expired"}]
    /\ marker \in [Events -> {"none", "inside", "past"}]

QueueInit ==
    /\ ready = [e \in Events |-> "no"]
    /\ leased = [e \in Events |-> "no"]
    /\ payload = {}
    /\ attempts = [e \in Events |-> 0]
    /\ tokens = [e \in Events |-> NoToken]
    /\ dlq = [e \in Events |-> "no"]
    /\ marker = [e \in Events |-> "none"]

-----------------------------------------------------------------------------
(* Helpers shared by the scripts. *)

Refund(n) == IF n > 0 THEN n - 1 ELSE 0

\* pruneDLQScript, and the first half of nackScript's dead-letter branch.
WithoutExpired(d) == [e \in Events |-> IF d[e] = "expired" THEN "no" ELSE d[e]]

Expired == {e \in Events : leased[e] = "expired"}

-----------------------------------------------------------------------------
(* enqueueScript: refused when the id is already live or dead-lettered. *)
EnqueueScript(e) ==
    /\ e \notin payload /\ dlq[e] = "no"
    /\ payload' = payload \cup {e}
    /\ attempts' = [attempts EXCEPT ![e] = 0]
    /\ ready' = [ready EXCEPT ![e] = "due"]
    /\ UNCHANGED <<leased, tokens, dlq, marker>>

(* claimScript on the due id it picked.  An id without a payload is dropped *)
(* from ready and nothing is leased.                                        *)
ClaimScript(e, t) ==
    /\ ready[e] = "due"
    /\ ready' = [ready EXCEPT ![e] = "no"]
    /\ IF e \in payload
       THEN /\ attempts' = [attempts EXCEPT ![e] = @ + 1]
            /\ leased' = [leased EXCEPT ![e] = "live"]
            /\ tokens' = [tokens EXCEPT ![e] = t]
       ELSE /\ attempts' = [attempts EXCEPT ![e] = 0]
            /\ UNCHANGED <<leased, tokens>>
    /\ UNCHANGED <<payload, dlq, marker>>

\* Mutant: the fence asks for any lease, not for this one.
OwnsAnyLease(e, t) == tokens[e] # NoToken

\* The fence every owner-side script starts with.
Owns(e, t) == tokens[e] = t

(* ackScript, for the owner of the lease. *)
AckScript(e) ==
    /\ leased' = [leased EXCEPT ![e] = "no"]
    /\ payload' = payload \ {e}
    /\ attempts' = [attempts EXCEPT ![e] = 0]
    /\ tokens' = [tokens EXCEPT ![e] = NoToken]
    /\ marker' = [marker EXCEPT ![e] = "none"]
    /\ UNCHANGED <<ready, dlq>>

(* renewScript, for the owner of a lease that is still in the leased set. *)
RenewScript(e) ==
    /\ leased' = [leased EXCEPT ![e] = "live"]
    /\ UNCHANGED <<ready, payload, attempts, tokens, dlq, marker>>

\* Mutant: the claim's attempt is kept.
DeferKeepsAttempt(e) ==
    /\ leased' = [leased EXCEPT ![e] = "no"]
    /\ tokens' = [tokens EXCEPT ![e] = NoToken]
    /\ ready' = [ready EXCEPT ![e] = "waiting"]
    /\ UNCHANGED <<attempts, payload, dlq, marker>>

(* deferScript, for the owner: back to ready with the claim's attempt refunded. *)
DeferScript(e) ==
    /\ leased' = [leased EXCEPT ![e] = "no"]
    /\ tokens' = [tokens EXCEPT ![e] = NoToken]
    /\ attempts' = [attempts EXCEPT ![e] = Refund(@)]
    /\ ready' = [ready EXCEPT ![e] = "waiting"]
    /\ UNCHANGED <<payload, dlq, marker>>

(* nackScript, for the owner: dead-letter once `max' attempts are used, else *)
(* requeue after the backoff.  Both branches drop the route-missing marker.  *)
NackScript(e, max) ==
    /\ leased' = [leased EXCEPT ![e] = "no"]
    /\ tokens' = [tokens EXCEPT ![e] = NoToken]
    /\ marker' = [marker EXCEPT ![e] = "none"]
    /\ IF attempts[e] >= max
       THEN /\ dlq' = [WithoutExpired(dlq) EXCEPT ![e] = "kept"]
            /\ payload' = payload \ {e}
            /\ attempts' = [attempts EXCEPT ![e] = 0]
            /\ UNCHANGED ready
       ELSE /\ ready' = [ready EXCEPT ![e] = "waiting"]
            /\ UNCHANGED <<dlq, payload, attempts>>

(* reclaimScript: a batch of expired leases goes back to ready.  An event that *)
(* carries a route-missing marker gets the attempt of its claim back.          *)
ReclaimScript ==
    \E S \in SUBSET Expired :
        /\ S # {}
        /\ S = Expired \/ Cardinality(S) = ReclaimLimit
        /\ leased' = [e \in Events |-> IF e \in S THEN "no" ELSE leased[e]]
        /\ tokens' = [e \in Events |-> IF e \in S THEN NoToken ELSE tokens[e]]
        /\ ready' = [e \in Events |-> IF e \in S \cap payload THEN "due" ELSE ready[e]]
        /\ attempts' = [e \in Events |->
                          IF e \in S \cap payload /\ marker[e] # "none"
                          THEN Refund(attempts[e]) ELSE attempts[e]]
        /\ UNCHANGED <<payload, dlq, marker>>

(* replayDLQScript, when the operator's retention window still admits the entry. *)
ReplayScript(e) ==
    /\ dlq[e] # "no"
    /\ dlq' = [dlq EXCEPT ![e] = "no"]
    /\ marker' = [marker EXCEPT ![e] = "none"]
    /\ payload' = payload \cup {e}
    /\ attempts' = [attempts EXCEPT ![e] = 0]
    /\ ready' = [ready EXCEPT ![e] = "due"]
    /\ UNCHANGED <<leased, tokens>>

(* pruneDLQScript, which Depths runs before it reads the queue sizes. *)
PruneScript ==
    /\ dlq' = WithoutExpired(dlq)
    /\ UNCHANGED <<ready, leased, payload, attempts, tokens, marker>>

\* Mutant: every miss is stamped, so the window never passes.
MarkerRestamped(e) ==
    /\ marker' = [marker EXCEPT ![e] = "inside"]
    /\ UNCHANGED <<ready, leased, payload, attempts, tokens, dlq>>

(* routeMissingSinceScript: stamps the first miss only, and is not fenced by a token. *)
MarkerScript(e) ==
    /\ marker' = [marker EXCEPT ![e] = IF @ = "none" THEN "inside" ELSE @]
    /\ UNCHANGED <<ready, leased, payload, attempts, tokens, dlq>>

(* clearRouteMissingScript, for the owner. *)
ClearMarkerScript(e) ==
    /\ marker' = [marker EXCEPT ![e] = "none"]
    /\ UNCHANGED <<ready, leased, payload, attempts, tokens, dlq>>

-----------------------------------------------------------------------------
(* Time, and the expiry Redis itself applies. *)

DueArrives(e) ==
    /\ ready[e] = "waiting"
    /\ ready' = [ready EXCEPT ![e] = "due"]
    /\ UNCHANGED <<leased, payload, attempts, tokens, dlq, marker>>

LeaseElapses(e) ==
    /\ leased[e] = "live"
    /\ leased' = [leased EXCEPT ![e] = "expired"]
    /\ UNCHANGED <<ready, payload, attempts, tokens, dlq, marker>>

\* routeMissingExpired: now - firstSeen >= routeMissingMaxWindow.
WindowElapses(e) ==
    /\ marker[e] = "inside"
    /\ marker' = [marker EXCEPT ![e] = "past"]
    /\ UNCHANGED <<ready, leased, payload, attempts, tokens, dlq>>

RetentionElapses(e) ==
    /\ dlq[e] = "kept"
    /\ dlq' = [dlq EXCEPT ![e] = "expired"]
    /\ UNCHANGED <<ready, leased, payload, attempts, tokens, marker>>

(* The five live keys always carry the same expiry: every script that writes *)
(* one of them ends by PEXPIREing all five to LiveTTL.                       *)
LiveKeysExpire ==
    /\ payload # {}
    /\ ready' = [e \in Events |-> "no"]
    /\ leased' = [e \in Events |-> "no"]
    /\ payload' = {}
    /\ attempts' = [e \in Events |-> 0]
    /\ tokens' = [e \in Events |-> NoToken]
    /\ UNCHANGED <<dlq, marker>>

(* The marker hash has an expiry of its own, pushed out only by MarkerScript. *)
MarkerKeyExpires ==
    /\ \E e \in Events : marker[e] # "none"
    /\ marker' = [e \in Events |-> "none"]
    /\ UNCHANGED <<ready, leased, payload, attempts, tokens, dlq>>
=============================================================================
