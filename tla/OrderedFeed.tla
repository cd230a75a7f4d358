----------------------------- MODULE OrderedFeed -----------------------------
(***************************************************************************)
(* What the project lifecycle outbox (modules/project/lifecycle_event*.go) *)
(* promises the peer that consumes it.  An event recorded with its         *)
(* business transaction stays owed until the peer has it or until it is    *)
(* openly given up, and while it is owed no younger event of its project   *)
(* reaches the peer.  The peer may also receive an event that was given up *)
(* already: a request on the wire cannot be taken back.                    *)
(***************************************************************************)
EXTENDS Naturals

CONSTANTS Ids, Projects

VARIABLES
    projectOf,  \* the project each event is about
    status,     \* of each outbox row; the ids are the order of the commits
    got         \* the events the peer has received at least once

feedVars == <<projectOf, status, got>>

FeedInit ==
    /\ projectOf \in [Ids -> Projects]
    /\ status = [e \in Ids |-> "none"]
    /\ got = {}

Older(e) == {i \in Ids : i < e /\ projectOf[i] = projectOf[e]}

Record(e) ==
    /\ status[e] = "none" /\ \A i \in Ids : i > e => status[i] = "none"
    /\ status' = [status EXCEPT ![e] = "pending"]
    /\ UNCHANGED <<projectOf, got>>

Receive(e) ==
    /\ status[e] # "none"
    /\ \A i \in Older(e) : status[i] # "pending"
    /\ got' = got \cup {e}
    /\ UNCHANGED <<projectOf, status>>

Settle(e) ==
    /\ status[e] = "pending"
    /\ \A i \in Older(e) : status[i] # "pending"
    /\ \E s \in {"delivered", "abandoned"} :
        /\ s = "delivered" => e \in got
        /\ status' = [status EXCEPT ![e] = s]
    /\ UNCHANGED <<projectOf, got>>

Forget(e) ==
    /\ status[e] \in {"delivered", "abandoned"}
    /\ status' = [status EXCEPT ![e] = "gone"]
    /\ UNCHANGED <<projectOf, got>>

FeedNext == \E e \in Ids : Record(e) \/ Receive(e) \/ Settle(e) \/ Forget(e)
FeedSpec == FeedInit /\ [][FeedNext]_feedVars
=============================================================================
