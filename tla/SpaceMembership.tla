-------------------------- MODULE SpaceMembership --------------------------
(***************************************************************************)
(* The doors of one live Space: joining by invite code, directly or by     *)
(* application and approval, being added by an admin or the management     *)
(* side, leaving, being removed, changing roles, handing the Space over.   *)
(*                                                                         *)
(* Requests read first and write later, each write in a transaction of its *)
(* own; what a transaction re-reads under its locks is one step.  An       *)
(* invite code expires or is disabled, which is the same to every reader.  *)
(***************************************************************************)
EXTENDS Accounts, Naturals, FiniteSets, FiniteSetsExt

CONSTANTS
    Founder, Codes, Reqs,
    DoorSets,       \* the combinations of doors that may be in use
    MaxUsers,       \* space.max_users
    MaxUses         \* space_invitation.max_uses

None == "none"

\* The ways to change who is in a Space: joinSpace in its two modes, the initial Space,
\* addMembers, UpsertMember, the removals and the role changes.
Doors == {"direct", "apply", "initial", "add", "upsert", "remove", "roles"}

ASSUME MembershipAssumption ==
    /\ Founder \in Users
    /\ DoorSets \subseteq SUBSET Doors
    /\ IsFiniteSet(Users) /\ IsFiniteSet(Reqs)
    /\ {MaxUsers, MaxUses} \subseteq Nat \ {0}
    /\ None \notin Users \cup Codes

VARIABLES
    doors,      \* the doors in use, the same from beginning to end
    member,     \* space_member: no row, status 1, status 0
    role,       \* space_member.role: 0 member, 1 admin, 2 owner
    used,       \* space_invitation.used_count
    enabled,    \* the code is active and has not expired
    apply,      \* space_join_apply.status
    applyCode,  \* space_join_apply.invite_code
    req,        \* the requests in flight
    admitted,   \* seats opened and paid for by each code
    lost        \* uses whose request died, or whose refund failed, before it was settled

rowVars == <<member, role>>
inviteVars == <<used, enabled, admitted, lost>>
applyVars == <<apply, applyCode>>
vars == <<doors, rowVars, inviteVars, applyVars, req>>

Idle == [pc |-> "idle", uid |-> None, code |-> None, role |-> 0]

Request == [pc : {"idle", "consume", "join", "reopen", "insert", "refund",
                  "pending", "refresh", "latest", "upsert", "saved", "active", "reset",
                  "add", "addopen", "addinsert", "remove", "role"},
            uid : Users \cup {None},
            code : Codes \cup {None},
            role : 0..2]

TypeOK ==
    /\ doors \in DoorSets
    /\ member \in [Users -> {None, "in", "out"}]
    /\ role \in [Users -> 0..2]
    /\ used \in [Codes -> 0..MaxUses]
    /\ enabled \in [Codes -> BOOLEAN]
    /\ apply \in [Users -> {None, "pending", "approved", "rejected"}]
    /\ applyCode \in [Users -> Codes \cup {None}]
    /\ req \in [Reqs -> Request]
    /\ admitted \in [Codes -> Nat]
    /\ lost \in [Codes -> Nat]

Init ==
    /\ doors \in DoorSets
    /\ member = [u \in Users |-> IF u = Founder THEN "in" ELSE None]
    /\ role = [u \in Users |-> IF u = Founder THEN 2 ELSE 0]
    /\ used = [c \in Codes |-> 0] /\ enabled = [c \in Codes |-> TRUE]
    /\ apply = [u \in Users |-> None] /\ applyCode = [u \in Users |-> None]
    /\ req = [r \in Reqs |-> Idle]
    /\ admitted = [c \in Codes |-> 0] /\ lost = [c \in Codes |-> 0]

Members == {u \in Users : member[u] = "in"}
At(r, pc) == req[r].pc = pc
Begin(r, rec) == req[r] = Idle /\ req' = [req EXCEPT ![r] = rec]
Goto(r, pc) == req' = [req EXCEPT ![r].pc = pc]
Done(r) == req' = [req EXCEPT ![r] = Idle]

-----------------------------------------------------------------------------
(* Seats and codes. *)

\* The count of atomicAddMemberIfNotFull and its kin, FOR UPDATE: with max_users set, one
\* such transaction at a time.
Full == Cardinality(Members) >= MaxUsers

\* The predicate of consumeInviteSQL.
Usable(c) == enabled[c] /\ used[c] < MaxUses

\* openSeatTx or an INSERT, with the role the door gives.
Seat(u, newRole) ==
    /\ member' = [member EXCEPT ![u] = "in"]
    /\ role' = [role EXCEPT ![u] = newRole]

\* The owner or an admin disables the code, or it expires.
Disable(c) ==
    /\ enabled[c]
    /\ enabled' = [enabled EXCEPT ![c] = FALSE]
    /\ UNCHANGED <<rowVars, used, admitted, lost, applyVars, req>>

-----------------------------------------------------------------------------
(* joinSpace, when the Space lets people in directly: the code is consumed *)
(* first, and given back when the join fails.                              *)

JoinDirect(r, u, c) ==
    /\ "direct" \in doors
    /\ enabled[c]
    /\ Begin(r, [pc |-> "consume", uid |-> u, code |-> c, role |-> 0])
    /\ UNCHANGED <<rowVars, inviteVars, applyVars>>

\* incrementInviteUsedCountAtomic
Consume(r) ==
    LET c == req[r].code IN
    /\ At(r, "consume")
    /\ IF Usable(c)
       THEN used' = [used EXCEPT ![c] = @ + 1] /\ Goto(r, "join")
       ELSE UNCHANGED used /\ Done(r)
    /\ UNCHANGED <<rowVars, enabled, admitted, lost, applyVars>>

\* executeJoinSpace: queryMemberIncludeRemoved decides which transaction runs.
ExecuteJoin(r) ==
    /\ At(r, "join")
    /\ Goto(r, CASE member[req[r].uid] = "in" -> "refund"
                 [] member[req[r].uid] = "out" -> "reopen"
                 [] OTHER -> "insert")
    /\ UNCHANGED <<rowVars, inviteVars, applyVars>>

\* atomicReactivateMemberIfNotFull: that the seat was open by then is not an error.
Reopen(r) ==
    LET u == req[r].uid
        c == req[r].code
    IN
    /\ At(r, "reopen")
    /\ IF Full THEN Goto(r, "refund") /\ UNCHANGED <<rowVars, admitted>>
       ELSE /\ Done(r)
            /\ IF member[u] = "out"
               THEN Seat(u, 0) /\ admitted' = [admitted EXCEPT ![c] = @ + 1]
               ELSE UNCHANGED <<rowVars, admitted>>
    /\ UNCHANGED <<used, enabled, lost, applyVars>>

\* atomicAddMemberIfNotFull: a row that exists by then is an error.
Insert(r) ==
    LET u == req[r].uid
        c == req[r].code
    IN
    /\ At(r, "insert")
    /\ IF Full \/ member[u] # None THEN Goto(r, "refund") /\ UNCHANGED <<rowVars, admitted>>
       ELSE /\ Done(r)
            /\ Seat(u, 0)
            /\ admitted' = [admitted EXCEPT ![c] = @ + 1]
    /\ UNCHANGED <<used, enabled, lost, applyVars>>

\* refundInvite, decrementInviteUsedCountAtomic
Refund(r) ==
    LET c == req[r].code IN
    /\ At(r, "refund")
    /\ used' = [used EXCEPT ![c] = IF @ > 0 THEN @ - 1 ELSE @]
    /\ Done(r)
    /\ UNCHANGED <<rowVars, enabled, admitted, lost, applyVars>>

Paying == {"join", "reopen", "insert", "refund"}

\* The process dies between consuming and joining, or the refund fails and is only logged.
LoseUse(r) ==
    /\ req[r].pc \in Paying
    /\ lost' = [lost EXCEPT ![req[r].code] = @ + 1]
    /\ Done(r)
    /\ UNCHANGED <<rowVars, used, enabled, admitted, applyVars>>

\* atomicJoinInitialSpace: a first login joins, but a removed row is never revived.
JoinInitial(u) ==
    /\ "initial" \in doors
    /\ member[u] = None /\ ~Full
    /\ Seat(u, 0)
    /\ UNCHANGED <<inviteVars, applyVars, req>>
-----------------------------------------------------------------------------
(* joinSpace, when the Space asks for approval. *)

\* The code still has uses, and the applicant is not a member.
Apply(r, u, c) ==
    /\ "apply" \in doors
    /\ Usable(c) /\ member[u] # "in"
    /\ Begin(r, [pc |-> "pending", uid |-> u, code |-> c, role |-> 0])
    /\ UNCHANGED <<rowVars, inviteVars, applyVars>>

\* queryPendingApplyBySpaceAndUID: the same code again changes nothing.
FindPending(r) ==
    LET u == req[r].uid IN
    /\ At(r, "pending")
    /\ IF apply[u] # "pending" THEN Goto(r, "upsert")
       ELSE IF applyCode[u] = req[r].code THEN Done(r)
       ELSE Goto(r, "refresh")
    /\ UNCHANGED <<rowVars, inviteVars, applyVars>>

\* refreshPendingApplyInvite
RefreshInvite(r) ==
    LET u == req[r].uid IN
    /\ At(r, "refresh")
    /\ IF apply[u] = "pending"
       THEN applyCode' = [applyCode EXCEPT ![u] = req[r].code] /\ Done(r)
       ELSE UNCHANGED applyCode /\ Goto(r, "latest")
    /\ UNCHANGED <<rowVars, inviteVars, apply>>

\* Approved meanwhile: nothing to do.  Rejected meanwhile: a new application.
Latest(r) ==
    /\ At(r, "latest")
    /\ IF apply[req[r].uid] = "approved" THEN Done(r) ELSE Goto(r, "upsert")
    /\ UNCHANGED <<rowVars, inviteVars, applyVars>>

\* upsertJoinApply
UpsertApply(r) ==
    LET u == req[r].uid IN
    /\ At(r, "upsert")
    /\ IF apply[u] = "approved" THEN UNCHANGED applyVars
       ELSE /\ apply' = [apply EXCEPT ![u] = "pending"]
            /\ applyCode' = [applyCode EXCEPT ![u] = req[r].code]
    /\ Goto(r, "saved")
    /\ UNCHANGED <<rowVars, inviteVars>>

\* queryJoinApplyByID reads the row back.
ReadBack(r) ==
    /\ At(r, "saved")
    /\ IF apply[req[r].uid] = "approved" THEN Goto(r, "active") ELSE Done(r)
    /\ UNCHANGED <<rowVars, inviteVars, applyVars>>

ReadMember(r) ==
    /\ At(r, "active")
    /\ IF member[req[r].uid] = "in" THEN Done(r) ELSE Goto(r, "reset")
    /\ UNCHANGED <<rowVars, inviteVars, applyVars>>

\* Mutant: "no active member" is what the request read, not what the UPDATE asks for.
StaleApprovalTrusted(u) == apply[u] = "approved"

\* The WHERE clause of resetApprovedApplyForRejoin.
StaleApproval(u) == apply[u] = "approved" /\ member[u] # "in"

\* resetApprovedApplyForRejoin
ResetApproved(r) ==
    LET u == req[r].uid IN
    /\ At(r, "reset")
    /\ IF StaleApproval(u)
       THEN /\ apply' = [apply EXCEPT ![u] = "pending"]
            /\ applyCode' = [applyCode EXCEPT ![u] = req[r].code]
       ELSE UNCHANGED applyVars
    /\ Done(r)
    /\ UNCHANGED <<rowVars, inviteVars>>

\* The locked read of the member row in approveJoinApplyAtomic.
MemberUnderLock(u) == member[u] = "in"

\* approveJoinApplyAtomic, from the three places that approve.  An unusable code or a full
\* Space rolls everything back.
Approve(u) ==
    LET c == applyCode[u] IN
    /\ apply[u] = "pending"
    /\ apply' = [apply EXCEPT ![u] = "approved"]
    /\ \/ /\ MemberUnderLock(u)
          /\ UNCHANGED <<rowVars, used, admitted>>
       \/ /\ ~MemberUnderLock(u) /\ Usable(c) /\ ~Full
          /\ used' = [used EXCEPT ![c] = @ + 1]
          /\ admitted' = [admitted EXCEPT ![c] = @ + 1]
          /\ Seat(u, 0)
    /\ UNCHANGED <<enabled, lost, applyCode, req>>

\* rejectJoinApply, updateJoinApplyStatus
Reject(u) ==
    /\ apply[u] = "pending"
    /\ apply' = [apply EXCEPT ![u] = "rejected"]
    /\ UNCHANGED <<rowVars, inviteVars, applyCode, req>>

-----------------------------------------------------------------------------
(* The doors of admins and of the management side. *)

\* addMembers: the count is taken once, outside any transaction.
AddMember(r, u) ==
    /\ "add" \in doors
    /\ Cardinality(Members) + 1 <= MaxUsers
    /\ Begin(r, [pc |-> "add", uid |-> u, code |-> None, role |-> 0])
    /\ UNCHANGED <<rowVars, inviteVars, applyVars>>

AddLook(r) ==
    LET u == req[r].uid IN
    /\ At(r, "add")
    /\ IF member[u] = "in" THEN Done(r)
       ELSE Goto(r, IF member[u] = "out" THEN "addopen" ELSE "addinsert")
    /\ UNCHANGED <<rowVars, inviteVars, applyVars>>

\* reactivateMember, or an INSERT that a row in the meantime makes fail.
AddWrite(r) ==
    LET u == req[r].uid IN
    /\ \/ At(r, "addopen") /\ IF member[u] = "out" THEN Seat(u, 0) ELSE UNCHANGED rowVars
       \/ At(r, "addinsert") /\ IF member[u] = None THEN Seat(u, 0) ELSE UNCHANGED rowVars
    /\ Done(r)
    /\ UNCHANGED <<inviteVars, applyVars>>

\* upsertMembers, of the management side: no capacity, and a reopened seat keeps its role.
UpsertMember(u) ==
    /\ "upsert" \in doors
    /\ member[u] # "in"
    /\ Seat(u, IF member[u] = None THEN 0 ELSE role[u])
    /\ UNCHANGED <<inviteVars, applyVars, req>>

\* removeMembers by an admin or the owner, whose role is read first, and leaveSpace.
RemoveMember(r, u) ==
    /\ "remove" \in doors
    /\ \/ \E op \in Members : role[op] >= 1 /\ Begin(r, [pc |-> "remove", uid |-> u, code |-> None,
                                                         role |-> role[op]])
       \/ /\ u \in Members /\ role[u] # 2
          /\ Begin(r, [pc |-> "remove", uid |-> u, code |-> None, role |-> 2])
    /\ UNCHANGED <<rowVars, inviteVars, applyVars>>

\* Mutant: the role that was read before the transaction decides.
RemovableTrusted(u, limit) == member[u] = "in"

\* removeMemberLocked reads the role again under the lock.
Removable(u, limit) == member[u] = "in" /\ role[u] # 2 /\ role[u] < limit

RemoveLocked(r) ==
    LET u == req[r].uid IN
    /\ At(r, "remove")
    /\ member' = IF Removable(u, req[r].role) THEN [member EXCEPT ![u] = "out"] ELSE member
    /\ Done(r)
    /\ UNCHANGED <<role, inviteVars, applyVars>>

\* removeMembersForce: one owner among them rolls all of them back.
RemoveForce(S) ==
    /\ "remove" \in doors
    /\ S # {} /\ S \subseteq Members /\ \A u \in S : role[u] # 2
    /\ member' = [u \in Users |-> IF u \in S THEN "out" ELSE member[u]]
    /\ UNCHANGED <<role, inviteVars, applyVars, req>>

\* updateMemberRole of both sides: the target is read, an owner is not demoted this way.
ChangeRole(r, u, new) ==
    /\ "roles" \in doors
    /\ u \in Members /\ role[u] # new /\ (role[u] = 2 => new = 2)
    /\ Begin(r, [pc |-> "role", uid |-> u, code |-> None, role |-> new])
    /\ UNCHANGED <<rowVars, inviteVars, applyVars>>

\* transferOwnerAdminLocked: the target is locked and must still be a member.
Transfer(u) ==
    role' = IF member[u] = "in"
            THEN [m \in Users |-> IF m = u THEN 2
                                  ELSE IF member[m] = "in" /\ role[m] = 2 THEN 1 ELSE role[m]]
            ELSE role

\* updateMemberRole in SQL: role <> 2.
SetRole(u, new) ==
    role' = IF member[u] = "in" /\ role[u] # 2 THEN [role EXCEPT ![u] = new] ELSE role

WriteRole(r) ==
    LET u == req[r].uid IN
    /\ At(r, "role")
    /\ IF req[r].role = 2 THEN Transfer(u) ELSE SetRole(u, req[r].role)
    /\ Done(r)
    /\ UNCHANGED <<member, inviteVars, applyVars>>

-----------------------------------------------------------------------------
JoinStep(r) == Consume(r) \/ ExecuteJoin(r) \/ Reopen(r) \/ Insert(r) \/ Refund(r)

ApplyStep(r) ==
    \/ FindPending(r) \/ RefreshInvite(r) \/ Latest(r) \/ UpsertApply(r)
    \/ ReadBack(r) \/ ReadMember(r) \/ ResetApproved(r)

AdminStep(r) == AddLook(r) \/ AddWrite(r) \/ RemoveLocked(r) \/ WriteRole(r)

Step ==
    \/ \E c \in Codes : Disable(c)
    \/ \E r \in Reqs, u \in Users, c \in Codes : JoinDirect(r, u, c) \/ Apply(r, u, c)
    \/ \E r \in Reqs : JoinStep(r) \/ LoseUse(r) \/ ApplyStep(r) \/ AdminStep(r)
    \/ \E u \in Users : JoinInitial(u) \/ Approve(u) \/ Reject(u) \/ UpsertMember(u)
    \/ \E r \in Reqs, u \in Users : AddMember(r, u) \/ RemoveMember(r, u)
    \/ \E r \in Reqs, u \in Users, new \in 0..2 : ChangeRole(r, u, new)
    \/ \E S \in SUBSET Users : RemoveForce(S)

Next == Step /\ UNCHANGED doors

Spec == Init /\ [][Next]_vars

-----------------------------------------------------------------------------
\* However transfers, role changes, removals and re-admissions interleave, the Space has
\* exactly one owner among its members: no request leaves it without one or with two.
OneOwner == Cardinality({u \in Members : role[u] = 2}) = 1

InFlight(c) == Cardinality({r \in Reqs : req[r].pc \in Paying /\ req[r].code = c})

\* Every seat a code opened is paid for by a use of that code, and the code is never used
\* more than max_uses times, through refunds, crashes and concurrent approvals.
SeatsPaidFor == \A c \in Codes : admitted[c] + InFlight(c) + lost[c] <= used[c] /\ used[c] <= MaxUses

\* The doors that count under a lock never let the Space grow past max_users; addMembers
\* counts outside a transaction and UpsertMember does not count.
WithinCapacity ==
    doors \cap {"add", "upsert"} = {} => Cardinality(Members) <= MaxUsers

\* approveJoinApplyAtomic: an application becomes approved only together with a seat, so
\* "approved and not a member" is never seen while an approval is under way.
ApprovedWithSeat ==
    [][\A u \in Users : apply[u] # "approved" /\ apply'[u] = "approved" => member'[u] = "in"]_vars

\* No resubmission, however it interleaves with an approval, takes the approval of someone
\* who is a member back to pending, where it could be rejected.
ApprovalStands ==
    [][\A u \in Users : apply[u] = "approved" /\ member[u] = "in" => apply'[u] = "approved"]_vars

\* Through every interleaving of the doors: one owner, no unpaid seat, no seat too many.
SeatsSound == TypeOK /\ OneOwner /\ SeatsPaidFor /\ WithinCapacity

\* An approval means a seat, when it is given and as long as the seat is held.
ApprovalsHold == ApprovedWithSeat /\ ApprovalStands
=============================================================================
