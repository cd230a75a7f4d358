----------------------------- MODULE SeatProofs -----------------------------
(***************************************************************************)
(* Proofs about the seats of a Space and of a project, for every set of    *)
(* users and every limit.  SpaceMembership, with any codes, requests in    *)
(* flight and doors: a Space has one owner, every seat a code opened is    *)
(* paid for by a use of it, the doors that count never overfill the Space, *)
(* and an approval means a seat.  ProjectRemoval, with any workers and     *)
(* removals: a closing seat has its own removal's job, one Owner stays,    *)
(* the quota holds, a job closes no later removal's seat, the epoch tells. *)
(***************************************************************************)
EXTENDS SpaceMembership, ProjectRemoval, FiniteSetTheorems, TLAPS

\* The places of a request that carry no invite code, and those of addMembers.
CodeFree == {"idle", "add", "addopen", "addinsert", "remove", "role"}
Adding == {"add", "addopen", "addinsert"}

\* What a request at work carries.
RequestSound(q) ==
    /\ q.pc # "idle" => q.uid \in Users
    /\ q.pc \notin CodeFree => q.code \in Codes

\* The types, with what an open request and an open application refer to.
TypeInv ==
    /\ TypeOK
    /\ \A r \in Reqs : RequestSound(req[r])
    /\ \A r \in Reqs : req[r].pc \in Adding => "add" \in doors
    /\ \A u \in Users : apply[u] = "pending" => applyCode[u] \in Codes

LEMMA Constants ==
  /\ Founder \in Users /\ IsFiniteSet(Users) /\ IsFiniteSet(Reqs)
  /\ MaxUsers \in Nat \ {0} /\ MaxUses \in Nat \ {0}
  /\ None \notin Users /\ None \notin Codes
  BY MembershipAssumption

-----------------------------------------------------------------------------
(* One request goes on to the record q. *)

Becomes(r, q) ==
    /\ q \in Request /\ RequestSound(q) /\ (q.pc \in Adding => "add" \in doors)
    /\ req' = [req EXCEPT ![r] = q]

LEMMA Fields ==
  ASSUME TypeInv, NEW r \in Reqs
  PROVE  /\ req[r] \in Request /\ RequestSound(req[r])
         /\ req[r].pc # "idle" => req[r].uid \in Users
         /\ req[r].pc \notin CodeFree => req[r].code \in Codes
         /\ req[r].pc \in Adding => "add" \in doors
  BY DEF TypeInv, TypeOK, RequestSound

LEMMA BecomesTypes ==
  ASSUME TypeInv, NEW r \in Reqs, NEW q \in Request, Becomes(r, q), UNCHANGED doors
  PROVE  /\ req' \in [Reqs -> Request] /\ \A x \in Reqs : RequestSound(req'[x])
         /\ \A x \in Reqs : req'[x].pc \in Adding => "add" \in doors'
         /\ req'[r] = q /\ \A x \in Reqs : x # r => req'[x] = req[x]
  BY DEF TypeInv, TypeOK, Becomes

LEMMA IdleSound == Idle \in Request /\ RequestSound(Idle) /\ Idle.pc = "idle" /\ Idle.pc \in CodeFree
  BY DEF Idle, Request, RequestSound, CodeFree

LEMMA DoneBecomes ==
  ASSUME TypeInv, NEW r \in Reqs, Done(r)
  PROVE  Becomes(r, Idle)
  BY IdleSound DEF Done, Becomes, Adding

Places == {"idle", "consume", "join", "reopen", "insert", "refund", "pending", "refresh", "latest",
           "upsert", "saved", "active", "reset", "add", "addopen", "addinsert", "remove", "role"}

LEMMA GotoBecomes ==
  ASSUME TypeInv, NEW r \in Reqs, NEW pc \in Places, Goto(r, pc), req[r].pc # "idle",
         pc \notin CodeFree => req[r].pc \notin CodeFree, pc \in Adding => req[r].pc \in Adding
  PROVE  \E q \in Request : Becomes(r, q) /\ q.pc = pc /\ q.code = req[r].code
<1> DEFINE q == [req[r] EXCEPT !.pc = pc]
<1>1. req[r] \in Request
  BY Fields
<1>2. q \in Request /\ q.pc = pc /\ q.uid = req[r].uid /\ q.code = req[r].code
  BY <1>1 DEF Request, Places
<1>3. req' = [req EXCEPT ![r] = q]
  BY <1>1 DEF Goto, TypeInv, TypeOK
<1> HIDE DEF q
<1>4. RequestSound(q) /\ (q.pc \in Adding => "add" \in doors)
  BY <1>2, Fields DEF RequestSound
<1> QED BY <1>2, <1>3, <1>4 DEF Becomes

-----------------------------------------------------------------------------
(* What a step does to the uses of the codes, to the seats and to the applications. *)

\* A request that holds no use gets none by the way ...
SameUses(r, q) ==
    /\ UNCHANGED <<used, admitted, lost>>
    /\ q.pc \in Paying => req[r].pc \in Paying /\ q.code = req[r].code

\* ... it takes one only where the code has one left ...
TakesUse(r, q) ==
    \E c \in Codes : /\ req[r].pc \notin Paying /\ q.pc \in Paying /\ q.code = c /\ used[c] < MaxUses
                     /\ used' = [used EXCEPT ![c] = @ + 1] /\ UNCHANGED <<admitted, lost>>

\* ... and ends as a seat, as a refund or lost, or with the use left where it is.
SpendsUse(r, q) ==
    \E c \in Codes : /\ req[r].pc \in Paying /\ req[r].code = c /\ q.pc = "idle"
                     /\ \/ UNCHANGED <<used, lost>> /\ admitted' = [admitted EXCEPT ![c] = @ + 1]
                        \/ UNCHANGED <<used, admitted>> /\ lost' = [lost EXCEPT ![c] = @ + 1]
                        \/ /\ UNCHANGED <<admitted, lost>>
                           /\ used' = [used EXCEPT ![c] = IF @ > 0 THEN @ - 1 ELSE @]

\* An approval takes a use and opens a seat with it at once.
ApprovesUse ==
    \E c \in Codes : /\ used[c] < MaxUses /\ used' = [used EXCEPT ![c] = @ + 1]
                     /\ admitted' = [admitted EXCEPT ![c] = @ + 1] /\ UNCHANGED lost

UsesMove ==
    \/ \E r \in Reqs : \E q \in Request :
         Becomes(r, q) /\ (SameUses(r, q) \/ TakesUse(r, q) \/ SpendsUse(r, q))
    \/ UNCHANGED req /\ (UNCHANGED <<used, admitted, lost>> \/ ApprovesUse)

Opens ==
    \E u \in Users, k \in 0..1 :
        member[u] # "in" /\ Seat(u, k) /\ (~Full \/ doors \cap {"add", "upsert"} # {})
Removes ==
    \E S \in SUBSET Users :
        /\ \A u \in S : member[u] = "in" /\ role[u] # 2
        /\ member' = [u \in Users |-> IF u \in S THEN "out" ELSE member[u]] /\ UNCHANGED role
Promotes ==
    \E u \in Users : UNCHANGED member /\ (Transfer(u) \/ \E k \in 0..1 : SetRole(u, k))
RowsMove == UNCHANGED rowVars \/ Opens \/ Removes \/ Promotes

AppliesMove ==
    /\ enabled' \in [Codes -> BOOLEAN]
    /\ apply' \in [Users -> {None, "pending", "approved", "rejected"}]
    /\ applyCode' \in [Users -> Codes \cup {None}]
    /\ \A u \in Users : apply'[u] = "pending" => applyCode'[u] \in Codes
    /\ \A u \in Users : apply[u] # "approved" /\ apply'[u] = "approved" => member'[u] = "in"
    /\ \A u \in Users : apply[u] = "approved" /\ member[u] = "in" => apply'[u] = "approved"

Moves == UsesMove /\ RowsMove /\ AppliesMove

\* Someone who is no member is no owner.
Retired == \A u \in Users : member[u] # "in" => role[u] # 2

LEMMA SameApplies ==
  ASSUME TypeInv, UNCHANGED <<enabled, applyVars>>
  PROVE  AppliesMove
  BY DEF TypeInv, TypeOK, applyVars, AppliesMove

LEMMA JoinMoves ==
  ASSUME TypeInv, NEW r \in Reqs, JoinStep(r)
  PROVE  Moves
<1>0. AppliesMove
  BY SameApplies DEF JoinStep, Consume, ExecuteJoin, Reopen, Insert, Refund, inviteVars
<1>1. /\ req[r] \in Request /\ req[r].pc \in {"consume", "join", "reopen", "insert", "refund"}
      /\ req[r].uid \in Users /\ req[r].code \in Codes
  BY Fields DEF JoinStep, Consume, ExecuteJoin, Reopen, Insert, Refund, At, CodeFree
<1>2. ASSUME NEW pc \in {"join", "reopen", "insert", "refund"}, Goto(r, pc)
      PROVE  \E q \in Request : Becomes(r, q) /\ q.pc \in Paying /\ q.code = req[r].code
  <2>1. pc \in Places /\ pc \notin Adding /\ req[r].pc # "idle" /\ req[r].pc \notin CodeFree
    BY <1>1, <1>2 DEF Places, Adding, CodeFree
  <2> QED BY <1>2, <2>1, GotoBecomes DEF Paying
<1>3. Done(r) => Becomes(r, Idle) /\ Idle \in Request /\ Idle.pc = "idle" /\ Idle.pc \notin Paying
  BY DoneBecomes, IdleSound DEF Paying
<1>4. ASSUME Consume(r) PROVE Moves
  <2>1. req[r].pc = "consume" /\ req[r].pc \notin Paying /\ UNCHANGED rowVars
    BY <1>4 DEF Consume, At, Paying
  <2>2. CASE Usable(req[r].code)
    <3>1. PICK q \in Request : Becomes(r, q) /\ q.pc \in Paying /\ q.code = req[r].code
      BY <1>2, <1>4, <2>2 DEF Consume
    <3>2. TakesUse(r, q)
      BY <1>1, <1>4, <2>1, <2>2, <3>1 DEF Consume, Usable, TakesUse
    <3> QED BY <1>0, <2>1, <3>1, <3>2 DEF Moves, UsesMove, RowsMove
  <2>3. CASE ~Usable(req[r].code)
    BY <1>0, <1>3, <1>4, <2>1, <2>3 DEF Consume, SameUses, Moves, UsesMove, RowsMove
  <2> QED BY <2>2, <2>3
<1>5. ASSUME ExecuteJoin(r) PROVE Moves
  <2>1. PICK pc \in {"join", "reopen", "insert", "refund"} : Goto(r, pc)
    BY <1>5 DEF ExecuteJoin
  <2>2. PICK q \in Request : Becomes(r, q) /\ q.pc \in Paying /\ q.code = req[r].code
    BY <1>2, <2>1
  <2>3. SameUses(r, q) /\ UNCHANGED rowVars
    BY <1>5, <2>2 DEF ExecuteJoin, SameUses, inviteVars, At, Paying
  <2> QED BY <1>0, <2>2, <2>3 DEF Moves, UsesMove, RowsMove
<1>6. ASSUME Reopen(r) \/ Insert(r), Goto(r, "refund"), UNCHANGED <<rowVars, admitted>>
      PROVE  Moves
  <2>1. PICK q \in Request : Becomes(r, q) /\ q.pc \in Paying /\ q.code = req[r].code
    BY <1>2, <1>6
  <2>2. SameUses(r, q)
    BY <1>6, <2>1 DEF Reopen, Insert, SameUses, At, Paying
  <2> QED BY <1>0, <1>6, <2>1, <2>2 DEF Moves, UsesMove, RowsMove
<1>7. ASSUME Reopen(r) \/ Insert(r), Done(r), ~Full, member[req[r].uid] # "in", Seat(req[r].uid, 0),
             admitted' = [admitted EXCEPT ![req[r].code] = @ + 1]
      PROVE  Moves
  <2>1. SpendsUse(r, Idle)
    BY <1>1, <1>3, <1>7 DEF Reopen, Insert, SpendsUse, At, Paying
  <2>2. Opens
    BY <1>1, <1>7 DEF Opens
  <2> QED BY <1>0, <1>3, <1>7, <2>1, <2>2 DEF Moves, UsesMove, RowsMove
<1>8. ASSUME Reopen(r), Done(r), UNCHANGED <<rowVars, admitted>>
      PROVE  Moves
  <2>1. SameUses(r, Idle)
    BY <1>3, <1>8 DEF Reopen, SameUses
  <2> QED BY <1>0, <1>3, <1>8, <2>1 DEF Moves, UsesMove, RowsMove
<1>9. ASSUME Refund(r) PROVE Moves
  <2>1. SpendsUse(r, Idle)
    BY <1>1, <1>3, <1>9 DEF Refund, SpendsUse, At, Paying
  <2> QED BY <1>0, <1>3, <1>9, <2>1 DEF Refund, Moves, UsesMove, RowsMove
<1>10. Reopen(r) => Moves
  BY <1>6, <1>7, <1>8 DEF Reopen
<1>11. Insert(r) => Moves
  BY <1>6, <1>7 DEF Insert, None
<1> QED BY <1>4, <1>5, <1>9, <1>10, <1>11 DEF JoinStep

LEMMA LoseMoves ==
  ASSUME TypeInv, NEW r \in Reqs, LoseUse(r)
  PROVE  Moves
<1>1. AppliesMove
  BY SameApplies DEF LoseUse
<1>2. req[r].pc \in Paying /\ req[r].code \in Codes
  BY Fields DEF LoseUse, Paying, CodeFree
<1>3. Becomes(r, Idle) /\ Idle \in Request /\ SpendsUse(r, Idle)
  BY <1>2, DoneBecomes, IdleSound DEF LoseUse, SpendsUse
<1> QED BY <1>1, <1>3 DEF LoseUse, Moves, UsesMove, RowsMove

LEMMA BeginMoves ==
  ASSUME TypeInv, NEW r \in Reqs, NEW u \in Users,
         \/ \E c \in Codes : JoinDirect(r, u, c) \/ Apply(r, u, c)
         \/ AddMember(r, u) \/ RemoveMember(r, u) \/ \E new \in 0..2 : ChangeRole(r, u, new)
  PROVE  Moves
<1>1. UNCHANGED rowVars /\ UNCHANGED <<used, admitted, lost>> /\ AppliesMove
  BY SameApplies DEF JoinDirect, Apply, AddMember, RemoveMember, ChangeRole, inviteVars
<1>2. PICK pc \in {"consume", "pending", "add", "remove", "role"}, c \in Codes \cup {None}, k \in 0..2 :
          /\ Begin(r, [pc |-> pc, uid |-> u, code |-> c, role |-> k])
          /\ pc \in {"consume", "pending"} => c \in Codes
          /\ pc = "add" => "add" \in doors
  <2>1. None \in Codes \cup {None} /\ 0 \in 0..2 /\ 2 \in 0..2 /\ \A op \in Users : role[op] \in 0..2
    BY DEF TypeInv, TypeOK
  <2>2. \A op \in Members : op \in Users
    BY DEF Members
  <2>3. CASE \E c \in Codes : JoinDirect(r, u, c) \/ Apply(r, u, c)
    BY <2>1, <2>3 DEF JoinDirect, Apply
  <2>4. CASE AddMember(r, u)
    BY <2>1, <2>4 DEF AddMember
  <2>5. CASE RemoveMember(r, u)
    BY <2>1, <2>2, <2>5 DEF RemoveMember
  <2>6. CASE \E new \in 0..2 : ChangeRole(r, u, new)
    BY <2>1, <2>6 DEF ChangeRole
  <2> QED BY <2>3, <2>4, <2>5, <2>6
<1>3. pc \in Places \ {"idle"} /\ pc \notin Paying
      /\ (pc \notin CodeFree => c \in Codes) /\ (pc \in Adding => "add" \in doors)
  BY <1>2 DEF Places, Paying, CodeFree, Adding
<1>4. PICK q \in Request : Becomes(r, q) /\ q.pc = pc
  <2> DEFINE q == [pc |-> pc, uid |-> u, code |-> c, role |-> k]
  <2>1. q \in Request /\ q.pc = pc /\ q.uid = u /\ q.code = c
    BY <1>3 DEF Request, Places
  <2>2. req' = [req EXCEPT ![r] = q]
    BY <1>2 DEF Begin
  <2> HIDE DEF q
  <2> QED BY <1>3, <2>1, <2>2 DEF Becomes, RequestSound
<1>5. SameUses(r, q)
  BY <1>1, <1>3, <1>4 DEF SameUses
<1> QED BY <1>1, <1>4, <1>5 DEF Moves, UsesMove, RowsMove

\* Applying: no use is taken before the approval.
LEMMA ApplyMoves ==
  ASSUME TypeInv, NEW r \in Reqs, ApplyStep(r)
  PROVE  Moves
<1>1. /\ req[r] \in Request /\ req[r].uid \in Users /\ req[r].code \in Codes
      /\ req[r].pc \notin CodeFree /\ req[r].pc # "idle"
      /\ UNCHANGED rowVars /\ UNCHANGED inviteVars
  <2>1. /\ req[r].pc \in {"pending", "refresh", "latest", "upsert", "saved", "active", "reset"}
        /\ UNCHANGED rowVars /\ UNCHANGED inviteVars
    BY DEF ApplyStep, FindPending, RefreshInvite, Latest, UpsertApply, ReadBack, ReadMember,
       ResetApproved, At
  <2> QED BY <2>1, Fields DEF CodeFree
<1>2. PICK pc \in {"idle", "upsert", "refresh", "latest", "saved", "active", "reset"} :
          IF pc = "idle" THEN Done(r) ELSE Goto(r, pc)
  BY DEF ApplyStep, FindPending, RefreshInvite, Latest, UpsertApply, ReadBack, ReadMember,
     ResetApproved
<1>3. PICK q \in Request : Becomes(r, q) /\ q.pc \notin Paying
  <2>1. CASE pc = "idle"
    BY <1>2, <2>1, DoneBecomes, IdleSound DEF Paying
  <2>2. CASE pc # "idle"
    <3>1. pc \in Places /\ pc \notin Adding /\ pc \notin Paying
      BY <1>2 DEF Places, Adding, Paying
    <3> QED BY <1>1, <1>2, <2>2, <3>1, GotoBecomes
  <2> QED BY <2>1, <2>2
<1>4. SameUses(r, q)
  BY <1>1, <1>3 DEF SameUses, inviteVars
<1>5. AppliesMove
  <2>1. CASE UNCHANGED applyVars
    BY <1>1, <2>1, SameApplies DEF inviteVars
  <2>2. enabled' \in [Codes -> BOOLEAN]
    BY <1>1 DEF inviteVars, TypeInv, TypeOK
  <2>3. CASE RefreshInvite(r) /\ applyCode' = [applyCode EXCEPT ![req[r].uid] = req[r].code]
    <3>1. apply' = apply
      BY <2>3 DEF RefreshInvite
    <3> QED BY <1>1, <2>2, <2>3, <3>1 DEF AppliesMove, TypeInv, TypeOK
  <2>4. CASE /\ apply' = [apply EXCEPT ![req[r].uid] = "pending"]
             /\ applyCode' = [applyCode EXCEPT ![req[r].uid] = req[r].code]
             /\ ~(apply[req[r].uid] = "approved" /\ member[req[r].uid] = "in")
    BY <1>1, <2>2, <2>4 DEF AppliesMove, TypeInv, TypeOK
  <2>5. CASE FindPending(r) \/ Latest(r) \/ ReadBack(r) \/ ReadMember(r)
    BY <2>1, <2>5 DEF FindPending, Latest, ReadBack, ReadMember
  <2>6. CASE RefreshInvite(r)
    BY <2>1, <2>3, <2>6 DEF RefreshInvite, applyVars
  <2>7. CASE UpsertApply(r)
    BY <2>1, <2>4, <2>7 DEF UpsertApply
  <2>8. CASE ResetApproved(r)
    BY <2>1, <2>4, <2>8 DEF ResetApproved, StaleApproval
  <2> QED BY <2>5, <2>6, <2>7, <2>8 DEF ApplyStep
<1> QED BY <1>1, <1>3, <1>4, <1>5 DEF Moves, UsesMove, RowsMove

LEMMA VerdictMoves ==
  ASSUME TypeInv, NEW u \in Users, Approve(u) \/ Reject(u)
  PROVE  Moves
<1> USE DEF TypeInv, TypeOK
<1>1. CASE Reject(u)
  <2>1. AppliesMove
    BY <1>1 DEF Reject, AppliesMove, inviteVars
  <2>2. UNCHANGED req /\ UNCHANGED <<used, admitted, lost>> /\ UNCHANGED rowVars
    BY <1>1 DEF Reject, inviteVars
  <2> QED BY <2>1, <2>2 DEF Moves, UsesMove, RowsMove
<1>2. CASE Approve(u)
  <2>1. applyCode[u] \in Codes
    BY <1>2 DEF Approve
  <2>2. member'[u] = "in"
    BY <1>2 DEF Approve, MemberUnderLock, Seat, rowVars
  <2>3. AppliesMove
    BY <1>2, <2>2 DEF Approve, AppliesMove
  <2>4. CASE MemberUnderLock(u) /\ UNCHANGED <<rowVars, used, admitted>>
    BY <1>2, <2>3, <2>4 DEF Approve, Moves, UsesMove, RowsMove
  <2>5. CASE /\ ~MemberUnderLock(u) /\ Usable(applyCode[u]) /\ ~Full /\ Seat(u, 0)
             /\ used' = [used EXCEPT ![applyCode[u]] = @ + 1]
             /\ admitted' = [admitted EXCEPT ![applyCode[u]] = @ + 1]
    <3>1. ApprovesUse
      BY <1>2, <2>1, <2>5 DEF Approve, ApprovesUse, Usable
    <3>2. Opens
      BY <2>5 DEF Opens, MemberUnderLock
    <3> QED BY <1>2, <2>3, <3>1, <3>2 DEF Approve, Moves, UsesMove, RowsMove
  <2> QED BY <1>2, <2>4, <2>5 DEF Approve
<1> QED BY <1>1, <1>2

LEMMA AdminMoves ==
  ASSUME TypeInv, NEW r \in Reqs, AdminStep(r)
  PROVE  Moves
<1>0. AppliesMove /\ UNCHANGED <<used, admitted, lost>>
  BY SameApplies DEF AdminStep, AddLook, AddWrite, RemoveLocked, WriteRole, inviteVars
<1>1. /\ req[r] \in Request /\ req[r].pc \in {"add", "addopen", "addinsert", "remove", "role"}
      /\ req[r].uid \in Users
  BY Fields DEF AdminStep, AddLook, AddWrite, RemoveLocked, WriteRole, At
<1>2. ASSUME Done(r) PROVE UsesMove
  <2>1. Becomes(r, Idle) /\ Idle \in Request /\ SameUses(r, Idle)
    BY <1>0, <1>2, DoneBecomes, IdleSound DEF SameUses, Paying
  <2> QED BY <2>1 DEF UsesMove
<1>3. ASSUME AddLook(r) PROVE Moves
  <2>1. UNCHANGED rowVars
    BY <1>3 DEF AddLook
  <2>2. PICK pc \in {"idle", "addopen", "addinsert"} : IF pc = "idle" THEN Done(r) ELSE Goto(r, pc)
    BY <1>3 DEF AddLook
  <2>3. CASE pc = "idle"
    BY <1>0, <1>2, <2>1, <2>2, <2>3 DEF Moves, RowsMove
  <2>4. CASE pc # "idle"
    <3>1. pc \in Places /\ pc \in CodeFree /\ pc \notin Paying /\ req[r].pc \in Adding
      BY <1>3, <2>4 DEF Places, CodeFree, Adding, Paying, AddLook, At
    <3>2. PICK q \in Request : Becomes(r, q) /\ q.pc = pc
      BY <1>1, <2>2, <2>4, <3>1, GotoBecomes
    <3>3. SameUses(r, q)
      BY <1>0, <3>1, <3>2 DEF SameUses
    <3> QED BY <1>0, <2>1, <3>2, <3>3 DEF Moves, UsesMove, RowsMove
  <2> QED BY <2>3, <2>4
<1>4. ASSUME AddWrite(r) PROVE Moves
  <2>1. "add" \in doors
    BY <1>4, Fields DEF AddWrite, At, Adding
  <2>2. UNCHANGED rowVars \/ (Seat(req[r].uid, 0) /\ member[req[r].uid] # "in")
    BY <1>4 DEF AddWrite, None
  <2>3. RowsMove
    BY <1>1, <2>1, <2>2 DEF RowsMove, Opens
  <2> QED BY <1>0, <1>2, <1>4, <2>3 DEF AddWrite, Moves
<1>5. ASSUME RemoveLocked(r) PROVE Moves
  <2>1. CASE Removable(req[r].uid, req[r].role)
    <3>1. member' = [u \in Users |-> IF u \in {req[r].uid} THEN "out" ELSE member[u]]
      BY <1>5, <2>1 DEF RemoveLocked, TypeInv, TypeOK
    <3>2. Removes
      BY <1>1, <1>5, <2>1, <3>1 DEF RemoveLocked, Removes, Removable
    <3> QED BY <1>0, <1>2, <1>5, <3>2 DEF RemoveLocked, Moves, RowsMove
  <2>2. CASE ~Removable(req[r].uid, req[r].role)
    BY <1>0, <1>2, <1>5, <2>2 DEF RemoveLocked, Moves, RowsMove, rowVars
  <2> QED BY <2>1, <2>2
<1>6. ASSUME WriteRole(r) PROVE Moves
  <2>1. req[r].role \in 0..2 /\ (req[r].role = 2 \/ req[r].role \in 0..1)
    BY <1>1 DEF Request
  <2>2. Promotes
    BY <1>1, <1>6, <2>1 DEF WriteRole, Promotes
  <2> QED BY <1>0, <1>2, <1>6, <2>2 DEF WriteRole, Moves, RowsMove
<1> QED BY <1>3, <1>4, <1>5, <1>6 DEF AdminStep

LEMMA OtherMoves ==
  ASSUME TypeInv, Retired,
         \/ \E c \in Codes : Disable(c)
         \/ \E u \in Users : JoinInitial(u) \/ UpsertMember(u)
         \/ \E S \in SUBSET Users : RemoveForce(S)
  PROVE  Moves
<1>1. CASE \E c \in Codes : Disable(c)
  <2>1. AppliesMove
    BY <1>1 DEF Disable, AppliesMove, applyVars, TypeInv, TypeOK
  <2> QED BY <1>1, <2>1 DEF Disable, Moves, UsesMove, RowsMove
<1>2. ASSUME NEW u \in Users, JoinInitial(u) PROVE Moves
  <2>1. Opens
    BY <1>2 DEF JoinInitial, Opens, None
  <2> QED BY <1>2, <2>1, SameApplies DEF JoinInitial, inviteVars, Moves, UsesMove, RowsMove
<1>3. ASSUME NEW u \in Users, UpsertMember(u) PROVE Moves
  <2>1. Opens
    <3>1. PICK k \in 0..1 : k = IF member[u] = None THEN 0 ELSE role[u]
      <4>1. role[u] \in 0..2 /\ role[u] # 2
        BY <1>3 DEF UpsertMember, Retired, TypeInv, TypeOK
      <4> QED BY <4>1
    <3> QED BY <1>3, <3>1 DEF UpsertMember, Opens
  <2> QED BY <1>3, <2>1, SameApplies DEF UpsertMember, inviteVars, Moves, UsesMove, RowsMove
<1>4. ASSUME NEW S \in SUBSET Users, RemoveForce(S) PROVE Moves
  <2>1. Removes
    BY <1>4 DEF RemoveForce, Removes, Members
  <2> QED BY <1>4, <2>1, SameApplies DEF RemoveForce, inviteVars, Moves, UsesMove, RowsMove
<1> QED BY <1>1, <1>2, <1>3, <1>4

LEMMA StepMoves ==
  ASSUME TypeInv, Retired, [Next]_vars
  PROVE  Moves /\ UNCHANGED doors
<1>1. CASE UNCHANGED vars
  BY <1>1, SameApplies DEF vars, inviteVars, Moves, UsesMove, RowsMove
<1>2. CASE Next
  BY <1>2, JoinMoves, LoseMoves, BeginMoves, ApplyMoves, VerdictMoves, AdminMoves, OtherMoves
     DEF Next, Step
<1> QED BY <1>1, <1>2

-----------------------------------------------------------------------------
(* Types. *)

LEMMA RowsTypes ==
  ASSUME TypeInv, RowsMove
  PROVE  member' \in [Users -> {None, "in", "out"}] /\ role' \in [Users -> 0..2]
<1> USE DEF TypeInv, TypeOK
<1>1. CASE UNCHANGED rowVars
  BY <1>1 DEF rowVars
<1>2. CASE Opens
  BY <1>2 DEF Opens, Seat
<1>3. CASE Removes
  BY <1>3 DEF Removes
<1>4. CASE Promotes
  BY <1>4 DEF Promotes, Transfer, SetRole
<1> QED BY <1>1, <1>2, <1>3, <1>4 DEF RowsMove

LEMMA UsesTypes ==
  ASSUME TypeInv, UsesMove
  PROVE  used' \in [Codes -> 0..MaxUses] /\ admitted' \in [Codes -> Nat] /\ lost' \in [Codes -> Nat]
<1>0. /\ used \in [Codes -> 0..MaxUses] /\ admitted \in [Codes -> Nat] /\ lost \in [Codes -> Nat]
      /\ MaxUses \in Nat
  BY Constants DEF TypeInv, TypeOK
<1>1. CASE UNCHANGED <<used, admitted, lost>>
  BY <1>0, <1>1
<1>2. ASSUME NEW r \in Reqs, NEW q \in Request, TakesUse(r, q)
      PROVE  /\ used' \in [Codes -> 0..MaxUses] /\ admitted' \in [Codes -> Nat]
             /\ lost' \in [Codes -> Nat]
  <2>1. PICK c \in Codes : used[c] < MaxUses /\ used' = [used EXCEPT ![c] = @ + 1]
                           /\ UNCHANGED <<admitted, lost>>
    BY <1>2 DEF TakesUse
  <2>2. used[c] + 1 \in 0..MaxUses
    BY <1>0, <2>1
  <2> QED BY <1>0, <2>1, <2>2
<1>3. ASSUME NEW r \in Reqs, NEW q \in Request, SpendsUse(r, q)
      PROVE  /\ used' \in [Codes -> 0..MaxUses] /\ admitted' \in [Codes -> Nat]
             /\ lost' \in [Codes -> Nat]
  BY <1>0, <1>3 DEF SpendsUse
<1>4. CASE ApprovesUse
  <2>1. PICK c \in Codes : /\ used[c] < MaxUses /\ used' = [used EXCEPT ![c] = @ + 1]
                           /\ admitted' = [admitted EXCEPT ![c] = @ + 1] /\ UNCHANGED lost
    BY <1>4 DEF ApprovesUse
  <2>2. used[c] + 1 \in 0..MaxUses
    BY <1>0, <2>1
  <2> QED BY <1>0, <2>1, <2>2
<1> QED BY <1>1, <1>2, <1>3, <1>4 DEF UsesMove, SameUses

LEMMA NextTypes ==
  ASSUME TypeInv, Moves, UNCHANGED doors
  PROVE  TypeInv'
<1>1. /\ req' \in [Reqs -> Request] /\ \A r \in Reqs : RequestSound(req'[r])
      /\ \A r \in Reqs : req'[r].pc \in Adding => "add" \in doors'
  <2>1. CASE UNCHANGED req
    BY <2>1 DEF TypeInv, TypeOK
  <2>2. ASSUME NEW r \in Reqs, NEW q \in Request, Becomes(r, q)
        PROVE  /\ req' \in [Reqs -> Request] /\ \A x \in Reqs : RequestSound(req'[x])
               /\ \A x \in Reqs : req'[x].pc \in Adding => "add" \in doors'
    BY <2>2, BecomesTypes
  <2> QED BY <2>1, <2>2 DEF Moves, UsesMove
<1>2. doors' \in DoorSets
  BY DEF TypeInv, TypeOK
<1> QED BY <1>1, <1>2, RowsTypes, UsesTypes DEF Moves, AppliesMove, TypeInv, TypeOK

-----------------------------------------------------------------------------
(* One owner. *)

Sole == \E o \in Users : \A u \in Users : (member[u] = "in" /\ role[u] = 2) <=> u = o

LEMMA NextSole ==
  ASSUME TypeInv, Sole, Retired, RowsMove
  PROVE  Sole' /\ Retired'
<1> USE DEF TypeInv, TypeOK
<1>0. PICK o \in Users : \A u \in Users : (member[u] = "in" /\ role[u] = 2) <=> u = o
  BY DEF Sole
<1>1. CASE UNCHANGED rowVars
  BY <1>0, <1>1 DEF rowVars, Sole, Retired
<1>2. CASE Opens
  <2>1. PICK u \in Users, k \in 0..1 : member[u] # "in" /\ Seat(u, k)
    BY <1>2 DEF Opens
  <2>2. k # 2
    OBVIOUS
  <2>3. \A v \in Users : (member'[v] = "in" /\ role'[v] = 2) <=> v = o
    BY <1>0, <2>1, <2>2 DEF Seat
  <2> QED BY <2>1, <2>2, <2>3 DEF Seat, Sole, Retired
<1>3. CASE Removes
  <2>1. \A v \in Users : (member'[v] = "in" /\ role'[v] = 2) <=> v = o
    BY <1>0, <1>3 DEF Removes
  <2>2. Retired'
    BY <1>3 DEF Removes, Retired
  <2> QED BY <2>1, <2>2 DEF Sole
<1>4. ASSUME NEW u \in Users, Transfer(u), UNCHANGED member PROVE Sole' /\ Retired'
  BY <1>0, <1>4 DEF Transfer, Sole, Retired
<1>5. ASSUME NEW u \in Users, NEW k \in 0..1, SetRole(u, k), UNCHANGED member PROVE Sole' /\ Retired'
  <2>1. k # 2
    OBVIOUS
  <2> QED BY <1>0, <1>5, <2>1 DEF SetRole, Sole, Retired
<1> QED BY <1>1, <1>2, <1>3, <1>4, <1>5 DEF RowsMove, Promotes

LEMMA SoleIsOne ==
  ASSUME Sole
  PROVE  OneOwner
<1>1. PICK o \in Users : \A u \in Users : (member[u] = "in" /\ role[u] = 2) <=> u = o
  BY DEF Sole
<1>2. {u \in Members : role[u] = 2} = {o}
  BY <1>1 DEF Members
<1> QED BY <1>2, FS_Singleton DEF OneOwner

-----------------------------------------------------------------------------
(* Capacity. *)

LEMMA MembersFinite ==
  ASSUME TypeInv
  PROVE  /\ IsFiniteSet(Members) /\ IsFiniteSet(Members') /\ Cardinality(Members) \in Nat
         /\ Cardinality(Members') \in Nat
<1>1. Members \subseteq Users /\ Members' \subseteq Users
  BY DEF Members
<1> QED BY <1>1, Constants, FS_Subset, FS_CardinalityType

LEMMA NextCapacity ==
  ASSUME TypeInv, WithinCapacity, RowsMove, UNCHANGED doors
  PROVE  WithinCapacity'
<1> SUFFICES ASSUME doors \cap {"add", "upsert"} = {}
             PROVE  Cardinality(Members') <= MaxUsers
  BY DEF WithinCapacity
<1>0. Cardinality(Members) <= MaxUsers
  BY DEF WithinCapacity
<1>1. CASE Members' \subseteq Members
  <2>1. Cardinality(Members') <= Cardinality(Members)
    BY <1>1, MembersFinite, FS_Subset
  <2> QED BY <1>0, <2>1, MembersFinite, Constants
<1>2. CASE Opens
  <2>1. PICK u \in Users, k \in 0..1 : member[u] # "in" /\ Seat(u, k) /\ ~Full
    BY <1>2 DEF Opens
  <2>2. Members' = Members \cup {u} /\ u \notin Members
    BY <2>1 DEF Seat, Members, TypeInv, TypeOK
  <2>3. Cardinality(Members') = Cardinality(Members) + 1
    BY <2>2, MembersFinite, FS_AddElement
  <2> QED BY <2>1, <2>3, MembersFinite, Constants DEF Full
<1>3. CASE UNCHANGED member
  BY <1>1, <1>3 DEF Members
<1>4. CASE Removes
  BY <1>1, <1>4 DEF Removes, Members
<1> QED BY <1>2, <1>3, <1>4 DEF RowsMove, rowVars, Promotes

-----------------------------------------------------------------------------
(* Every seat a code opened is paid for. *)

Payers(c) == {r \in Reqs : req[r].pc \in Paying /\ req[r].code = c}

LEMMA PayersFinite ==
  ASSUME NEW c
  PROVE  /\ InFlight(c) = Cardinality(Payers(c)) /\ InFlight(c)' = Cardinality(Payers(c)')
         /\ IsFiniteSet(Payers(c)) /\ IsFiniteSet(Payers(c)')
         /\ InFlight(c) \in Nat /\ InFlight(c)' \in Nat
<1>1. Payers(c) \subseteq Reqs /\ Payers(c)' \subseteq Reqs
  BY DEF Payers
<1>2. InFlight(c) = Cardinality(Payers(c)) /\ InFlight(c)' = Cardinality(Payers(c)')
  BY DEF Payers, InFlight
<1> QED BY <1>1, <1>2, Constants, FS_Subset, FS_CardinalityType

\* One request changes: the others pay as before.
LEMMA PayersMove ==
  ASSUME TypeInv, NEW r \in Reqs, NEW q \in Request, Becomes(r, q), UNCHANGED doors, NEW c
  PROVE  /\ q.pc \in Paying /\ q.code = c => InFlight(c)' <= InFlight(c) + 1
         /\ ~(q.pc \in Paying /\ q.code = c) => InFlight(c)' <= InFlight(c)
         /\ r \in Payers(c) /\ ~(q.pc \in Paying /\ q.code = c) => InFlight(c)' = InFlight(c) - 1
         /\ r \in Payers(c) /\ q.pc \in Paying /\ q.code = c => InFlight(c)' = InFlight(c)
<1>1. Payers(c)' = IF q.pc \in Paying /\ q.code = c THEN Payers(c) \cup {r} ELSE Payers(c) \ {r}
  BY BecomesTypes DEF Payers
<1>2. /\ Cardinality(Payers(c) \cup {r}) = IF r \in Payers(c) THEN Cardinality(Payers(c))
                                           ELSE Cardinality(Payers(c)) + 1
      /\ Cardinality(Payers(c) \ {r}) = IF r \in Payers(c) THEN Cardinality(Payers(c)) - 1
                                        ELSE Cardinality(Payers(c))
  BY PayersFinite, FS_AddElement, FS_RemoveElement
<1>3. CASE q.pc \in Paying /\ q.code = c
  <2>1. InFlight(c)' = Cardinality(Payers(c) \cup {r})
    BY <1>1, <1>3, PayersFinite
  <2> QED BY <1>2, <1>3, <2>1, PayersFinite
<1>4. CASE ~(q.pc \in Paying /\ q.code = c)
  <2>1. InFlight(c)' = Cardinality(Payers(c) \ {r})
    BY <1>1, <1>4, PayersFinite
  <2> QED BY <1>2, <1>4, <2>1, PayersFinite
<1> QED BY <1>3, <1>4

LEMMA NextPaid ==
  ASSUME TypeInv, SeatsPaidFor, UsesMove, UNCHANGED doors
  PROVE  SeatsPaidFor'
<1> SUFFICES ASSUME NEW c \in Codes
             PROVE  admitted'[c] + InFlight(c)' + lost'[c] <= used'[c] /\ used'[c] <= MaxUses
  BY DEF SeatsPaidFor
<1>0. /\ admitted[c] + InFlight(c) + lost[c] <= used[c]
      /\ admitted[c] \in Nat /\ lost[c] \in Nat /\ used[c] \in Nat /\ MaxUses \in Nat
      /\ InFlight(c) \in Nat /\ InFlight(c)' \in Nat
      /\ used'[c] \in 0..MaxUses
  BY PayersFinite, UsesTypes, Constants DEF SeatsPaidFor, TypeInv, TypeOK
<1>t. /\ used \in [Codes -> 0..MaxUses] /\ admitted \in [Codes -> Nat] /\ lost \in [Codes -> Nat]
  BY DEF TypeInv, TypeOK
<1>1. CASE UNCHANGED req /\ UNCHANGED <<used, admitted, lost>>
  <2>1. InFlight(c)' = InFlight(c)
    <3>1. Payers(c)' = Payers(c)
      BY <1>1 DEF Payers
    <3> QED BY <3>1, PayersFinite
  <2> QED BY <1>0, <1>1, <2>1
<1>2. CASE UNCHANGED req /\ ApprovesUse
  <2>1. InFlight(c)' = InFlight(c)
    <3>1. Payers(c)' = Payers(c)
      BY <1>2 DEF Payers
    <3> QED BY <3>1, PayersFinite
  <2>2. PICK d \in Codes : /\ used' = [used EXCEPT ![d] = @ + 1]
                           /\ admitted' = [admitted EXCEPT ![d] = @ + 1] /\ UNCHANGED lost
    BY <1>2 DEF ApprovesUse
  <2>3. CASE d = c
    <3>1. used'[c] = used[c] + 1 /\ admitted'[c] = admitted[c] + 1 /\ lost'[c] = lost[c]
      BY <1>t, <2>2, <2>3
    <3> QED BY <1>0, <2>1, <3>1
  <2>4. CASE d # c
    <3>1. used'[c] = used[c] /\ admitted'[c] = admitted[c] /\ lost'[c] = lost[c]
      BY <1>t, <2>2, <2>4
    <3> QED BY <1>0, <2>1, <3>1
  <2> QED BY <2>3, <2>4
<1>3. ASSUME NEW r \in Reqs, NEW q \in Request, Becomes(r, q), SameUses(r, q)
      PROVE  admitted'[c] + InFlight(c)' + lost'[c] <= used'[c]
  <2>1. q.pc \in Paying /\ q.code = c => r \in Payers(c)
    BY <1>3 DEF SameUses, Payers
  <2>2. InFlight(c)' <= InFlight(c)
    BY <1>0, <1>3, <2>1, PayersMove
  <2>3. used'[c] = used[c] /\ admitted'[c] = admitted[c] /\ lost'[c] = lost[c]
    BY <1>3 DEF SameUses
  <2> QED BY <1>0, <2>2, <2>3
<1>4. ASSUME NEW r \in Reqs, NEW q \in Request, Becomes(r, q), TakesUse(r, q)
      PROVE  admitted'[c] + InFlight(c)' + lost'[c] <= used'[c]
  <2>1. PICK d \in Codes : /\ q.pc \in Paying /\ q.code = d
                           /\ used' = [used EXCEPT ![d] = @ + 1] /\ UNCHANGED <<admitted, lost>>
    BY <1>4 DEF TakesUse
  <2>2. CASE d = c
    <3>1. used'[c] = used[c] + 1 /\ admitted'[c] = admitted[c] /\ lost'[c] = lost[c]
      BY <1>t, <2>1, <2>2
    <3>2. InFlight(c)' <= InFlight(c) + 1
      BY <1>4, <2>1, <2>2, PayersMove
    <3> QED BY <1>0, <3>1, <3>2
  <2>3. CASE d # c
    <3>1. used'[c] = used[c] /\ admitted'[c] = admitted[c] /\ lost'[c] = lost[c]
      BY <1>t, <2>1, <2>3
    <3>2. InFlight(c)' <= InFlight(c)
      BY <1>4, <2>1, <2>3, PayersMove
    <3> QED BY <1>0, <3>1, <3>2
  <2> QED BY <2>2, <2>3
<1>5. ASSUME NEW r \in Reqs, NEW q \in Request, Becomes(r, q), SpendsUse(r, q)
      PROVE  admitted'[c] + InFlight(c)' + lost'[c] <= used'[c]
  <2>1. PICK d \in Codes :
           /\ req[r].pc \in Paying /\ req[r].code = d /\ q.pc = "idle"
           /\ \/ UNCHANGED <<used, lost>> /\ admitted' = [admitted EXCEPT ![d] = @ + 1]
              \/ UNCHANGED <<used, admitted>> /\ lost' = [lost EXCEPT ![d] = @ + 1]
              \/ /\ UNCHANGED <<admitted, lost>>
                 /\ used' = [used EXCEPT ![d] = IF @ > 0 THEN @ - 1 ELSE @]
    BY <1>5 DEF SpendsUse
  <2>2. q.pc \notin Paying /\ r \in Payers(d)
    BY <2>1 DEF Paying, Payers
  <2>3. CASE d = c
    <3>1. InFlight(c)' = InFlight(c) - 1
      BY <1>5, <2>2, <2>3, PayersMove
    <3>2. used[c] > 0
      BY <1>0, <3>1
    <3>3. \/ used'[c] = used[c] /\ admitted'[c] = admitted[c] + 1 /\ lost'[c] = lost[c]
          \/ used'[c] = used[c] /\ admitted'[c] = admitted[c] /\ lost'[c] = lost[c] + 1
          \/ used'[c] = used[c] - 1 /\ admitted'[c] = admitted[c] /\ lost'[c] = lost[c]
      BY <1>t, <2>1, <2>3, <3>2
    <3> QED BY <1>0, <3>1, <3>3
  <2>4. CASE d # c
    <3>1. used'[c] = used[c] /\ admitted'[c] = admitted[c] /\ lost'[c] = lost[c]
      BY <1>t, <2>1, <2>4
    <3>2. InFlight(c)' <= InFlight(c)
      BY <1>5, <2>2, PayersMove
    <3> QED BY <1>0, <3>1, <3>2
  <2> QED BY <2>3, <2>4
<1>6. used'[c] <= MaxUses
  BY <1>0
<1> QED BY <1>1, <1>2, <1>3, <1>4, <1>5, <1>6 DEF UsesMove

-----------------------------------------------------------------------------
IInv == TypeInv /\ Sole /\ Retired /\ SeatsPaidFor /\ WithinCapacity

LEMMA InitSound ==
  ASSUME Init
  PROVE  IInv
<1>0. 0 \in 0..2 /\ 2 \in 0..2 /\ 0 # 2 /\ 0 \in 0..MaxUses
  BY Constants
<1>1. TypeInv
  BY <1>0, IdleSound DEF Init, TypeInv, TypeOK, Adding, None
<1>2. Sole /\ Retired
  BY <1>0, Constants DEF Init, Sole, Retired, None
<1>3. SeatsPaidFor
  <2>1. ASSUME NEW c \in Codes PROVE admitted[c] + InFlight(c) + lost[c] <= used[c] /\ used[c] <= MaxUses
    <3>1. Payers(c) = {}
      BY IdleSound DEF Init, Payers, Paying
    <3>2. InFlight(c) = 0
      BY <3>1, PayersFinite, FS_EmptySet
    <3> QED BY <3>2, Constants DEF Init
  <2> QED BY <2>1 DEF SeatsPaidFor
<1>4. WithinCapacity
  <2>1. Members = {Founder}
    BY Constants DEF Init, Members, None
  <2>2. Cardinality(Members) = 1
    BY <2>1, FS_Singleton
  <2> QED BY <2>2, Constants DEF WithinCapacity
<1> QED BY <1>1, <1>2, <1>3, <1>4 DEF IInv

LEMMA NextSound ==
  ASSUME IInv, [Next]_vars
  PROVE  IInv'
<1>1. Moves /\ UNCHANGED doors
  BY StepMoves DEF IInv
<1> QED BY <1>1, NextTypes, NextSole, NextCapacity, NextPaid DEF IInv, Moves

\* Through every interleaving of the doors: one owner, no unpaid seat, no seat too many.
THEOREM SeatsAreSound == Spec => []SeatsSound
<1>1. Init => IInv
  BY InitSound
<1>2. IInv /\ [Next]_vars => IInv'
  BY NextSound
<1>3. IInv => SeatsSound
  BY SoleIsOne DEF IInv, SeatsSound, TypeInv
<1> QED BY <1>1, <1>2, <1>3, PTL DEF Spec

\* An application is approved only together with a seat, and no resubmission takes the
\* approval of someone who is a member back.
THEOREM ApprovalsAreHeld == Spec => ApprovalsHold
<1>1. Init => IInv
  BY InitSound
<1>2. IInv /\ [Next]_vars => IInv'
  BY NextSound
<1>3. IInv /\ [Next]_vars =>
        /\ \A u \in Users : apply[u] # "approved" /\ apply'[u] = "approved" => member'[u] = "in"
        /\ \A u \in Users : apply[u] = "approved" /\ member[u] = "in" => apply'[u] = "approved"
  BY StepMoves DEF IInv, Moves, AppliesMove
<1> QED BY <1>1, <1>2, <1>3, PTL DEF Spec, ApprovalsHold, ApprovedWithSeat, ApprovalStands

-----------------------------------------------------------------------------
(* The seats of a project: what the rows and the workers keep to. *)

\* A user's removals are numbered without a gap; only the last can be pending, and only while
\* the seat is not in effect; a seat that is closing has that one for it.
UserFits(u) ==
    \E n \in 0..MaxRemovals :
        /\ Removals(u) = 1..n
        /\ \A i \in 1..MaxRemovals : job[<<u, i>>].status = "pending" => i = n /\ ~ Effective(u)
        /\ seat[u].removing =>
              seat[u].active /\ n # 0 /\ job[<<u, n>>].status \in {"pending", "abandoned"}

\* A worker that is about to report a job as settled, and still may, leaves no seat closing.
WorkFits(w) ==
    /\ worker[w].pc \in {"finish", "retire"} => worker[w].job \in Jobs
    /\ worker[w].pc = "retire" => worker[w].verdict # "none"
    /\ worker[w].pc = "retire" /\ worker[w].verdict # "failed" /\ Held(w, worker[w].job) =>
          ~ seat[worker[w].job[1]].removing

Owners == {u \in Users : Effective(u) /\ seat[u].role = "owner"}
Seated == {u \in Users : Effective(u)}
OwnerSits == project # "disbanded" => \E o \in Users : Owners = {o}

RemovalInv ==
    /\ RemTypeOK
    /\ \A u \in Users : UserFits(u)
    /\ \A w \in Workers : WorkFits(w)
    /\ OwnerSits
    /\ Cardinality(Seated) <= MaxMembers

LEMMA ProjectConstants ==
  /\ FirstOwner \in Users /\ IsFiniteSet(Users)
  /\ Nobody \notin Users /\ Nobody \notin Workers /\ Nobody \notin Roles
  /\ MaxMembers \in Nat \ {0} /\ MaxAttempts \in Nat \ {0} /\ MaxRemovals \in Nat \ {0}
  /\ MaxFaults \in Nat
  BY ProjectRemovalAssumption

LEMMA JobPairs ==
  /\ \A u \in Users, n \in 1..MaxRemovals : <<u, n>> \in Jobs
  /\ \A j \in Jobs : j[1] \in Users /\ j[2] \in 1..MaxRemovals /\ j = <<j[1], j[2]>>
  BY DEF Jobs

\* Edits of a seat.
LEMMA SeatEdits ==
  ASSUME NEW r \in Member
  PROVE  /\ r.active \in BOOLEAN /\ r.removing \in BOOLEAN /\ r.role \in Roles
         /\ [r EXCEPT !.removing = TRUE] \in Member
         /\ [r EXCEPT !.removing = TRUE].active = r.active
         /\ [r EXCEPT !.removing = TRUE].removing = TRUE
         /\ [r EXCEPT !.removing = TRUE].role = r.role
  BY DEF Member

LEMMA RoleEdit ==
  ASSUME NEW r \in Member, NEW k \in Roles
  PROVE  /\ [r EXCEPT !.role = k] \in Member
         /\ [r EXCEPT !.role = k].active = r.active
         /\ [r EXCEPT !.role = k].removing = r.removing
         /\ [r EXCEPT !.role = k].role = k
  BY DEF Member

OpenSeat(k) == [active |-> TRUE, removing |-> FALSE, role |-> k]

LEMMA SeatRecords ==
  /\ NoSeat \in Member /\ NoSeat.active = FALSE /\ NoSeat.removing = FALSE /\ NoSeat.role = "common"
  /\ \A k \in Roles : OpenSeat(k) \in Member /\ OpenSeat(k).active /\ ~ OpenSeat(k).removing
                        /\ OpenSeat(k).role = k
  BY DEF NoSeat, OpenSeat, Member, Roles

NewJob == [NoJob EXCEPT !.status = "pending", !.due = TRUE]

LEMMA JobRecords ==
  /\ NoJob \in Job /\ NoJob.status = "none" /\ NoJob.owner = Nobody
  /\ NewJob \in Job /\ NewJob.status = "pending" /\ NewJob.owner = Nobody
  /\ \A s \in {"done", "cancelled", "abandoned"} : Terminal(s) \in Job /\ Terminal(s).status = s
<1>1. NoJob \in Job /\ NoJob.status = "none" /\ NoJob.owner = Nobody
  BY ProjectConstants DEF NoJob, Job
<1>2. /\ [NoJob EXCEPT !.status = "pending", !.due = TRUE] \in Job
      /\ [NoJob EXCEPT !.status = "pending", !.due = TRUE].status = "pending"
      /\ [NoJob EXCEPT !.status = "pending", !.due = TRUE].owner = NoJob.owner
  BY <1>1 DEF Job
<1>3. ASSUME NEW s \in {"done", "cancelled", "abandoned"}
      PROVE  [NoJob EXCEPT !.status = s] \in Job /\ [NoJob EXCEPT !.status = s].status = s
  BY <1>1 DEF Job
<1> QED BY <1>1, <1>2, <1>3 DEF NewJob, Terminal

\* Edits of a job.
ClaimedBy(w, r, n) == [r EXCEPT !.attempts = n, !.lease = "live", !.owner = w]

LEMMA ClaimEdit ==
  ASSUME NEW r \in Job, NEW n \in 0..MaxAttempts, NEW w \in Workers
  PROVE  /\ ClaimedBy(w, r, n) \in Job
         /\ ClaimedBy(w, r, n).status = r.status /\ ClaimedBy(w, r, n).owner = w
  BY DEF Job, ClaimedBy

LEMMA LeaseEdit ==
  ASSUME NEW r \in Job, NEW l \in {"none", "live", "expired"}
  PROVE  /\ [r EXCEPT !.lease = l] \in Job
         /\ [r EXCEPT !.lease = l].status = r.status /\ [r EXCEPT !.lease = l].owner = r.owner
  BY DEF Job

LEMMA DueEdit ==
  ASSUME NEW r \in Job
  PROVE  /\ [r EXCEPT !.due = TRUE] \in Job
         /\ [r EXCEPT !.due = TRUE].status = r.status /\ [r EXCEPT !.due = TRUE].owner = r.owner
  BY DEF Job

LEMMA ResetEdit ==
  ASSUME NEW r \in Job
  PROVE  /\ [r EXCEPT !.lease = "none", !.owner = Nobody, !.due = FALSE] \in Job
         /\ [r EXCEPT !.lease = "none", !.owner = Nobody, !.due = FALSE].status = r.status
         /\ [r EXCEPT !.lease = "none", !.owner = Nobody, !.due = FALSE].owner = Nobody
  BY DEF Job

\* Edits of a worker.
LEMMA WorkerFields ==
  ASSUME NEW r \in Worker
  PROVE  /\ r.pc \in {"idle", "next", "finish", "retire"} /\ r.ids \subseteq Jobs /\ r.todo \subseteq Jobs
         /\ r.verdict \in {"none", "done", "cancelled", "failed"}
  BY DEF Worker

LEMMA WorkerRests == IdleWorker \in Worker /\ IdleWorker.pc = "idle"
  BY DEF Worker, IdleWorker

LEMMA WorkerClaims ==
  ASSUME NEW S \in SUBSET Jobs
  PROVE  /\ [IdleWorker EXCEPT !.pc = "next", !.ids = S, !.todo = S] \in Worker
         /\ [IdleWorker EXCEPT !.pc = "next", !.ids = S, !.todo = S].pc = "next"
  BY WorkerRests DEF Worker

TookUp(r, p, S, j, v) == [r EXCEPT !.pc = p, !.todo = S, !.job = j, !.verdict = v]

LEMMA WorkerTakes ==
  ASSUME NEW r \in Worker, NEW p \in {"finish", "retire"}, NEW S \in SUBSET Jobs, NEW j \in Jobs,
         NEW v \in {"none", "done", "cancelled", "failed"}
  PROVE  /\ TookUp(r, p, S, j, v) \in Worker /\ TookUp(r, p, S, j, v).pc = p
         /\ TookUp(r, p, S, j, v).job = j /\ TookUp(r, p, S, j, v).verdict = v
  BY DEF Worker, TookUp

Reported(r, v) == [r EXCEPT !.pc = "retire", !.verdict = v]

LEMMA WorkerReports ==
  ASSUME NEW r \in Worker, NEW v \in {"done", "failed"}
  PROVE  /\ Reported(r, v) \in Worker /\ Reported(r, v).pc = "retire"
         /\ Reported(r, v).job = r.job /\ Reported(r, v).verdict = v
  BY DEF Worker, Reported

WentOn(r, p, S) == [r EXCEPT !.pc = p, !.ids = S, !.job = <<>>, !.verdict = "none"]

LEMMA WorkerGoesOn ==
  ASSUME NEW r \in Worker, NEW p \in {"idle", "next"}, NEW S \in SUBSET Jobs
  PROVE  WentOn(r, p, S) \in Worker /\ WentOn(r, p, S).pc = p
  BY DEF Worker, WentOn

\* What the types say of one row.
LEMMA ProjectTypes ==
  ASSUME RemTypeOK
  PROVE  /\ \A u \in Users : seat[u] \in Member
         /\ \A j \in Jobs : job[j] \in Job
         /\ \A w \in Workers : worker[w] \in Worker
         /\ seat = [u \in Users |-> seat[u]] /\ job = [j \in Jobs |-> job[j]]
  BY DEF RemTypeOK

-----------------------------------------------------------------------------
(* One user: the seat and the jobs. *)

LEMMA Counted ==
  ASSUME NEW u \in Users, NEW n \in Nat, Removals(u) = 1..n
  PROVE  Cardinality(Removals(u)) = n /\ LatestJob(u) = <<u, n>>
<1>1. Cardinality(1..n) = n
  BY FS_Interval
<1> QED BY <1>1 DEF LatestJob

\* What WriteJobs does to a job.
Written(S, C) ==
    \A u \in Users, i \in 1..MaxRemovals :
        \/ u \in S /\ i = Cardinality(Removals(u)) + 1 /\ job'[<<u, i>>] = NewJob
        \/ /\ ~ (u \in S /\ i = Cardinality(Removals(u)) + 1)
           /\ u \in C /\ job[<<u, i>>].status = "pending"
           /\ job'[<<u, i>>] = Terminal("cancelled")
        \/ /\ ~ (u \in S /\ i = Cardinality(Removals(u)) + 1)
           /\ ~ (u \in C /\ job[<<u, i>>].status = "pending")
           /\ job'[<<u, i>>] = job[<<u, i>>]

LEMMA Writes ==
  ASSUME RemTypeOK, NEW S \in SUBSET Users, NEW C \in SUBSET Users, WriteJobs(S, C)
  PROVE  job' \in [Jobs -> Job] /\ Written(S, C)
<1>1. \A j \in Jobs :
         job'[j] = IF j[1] \in S /\ j[2] = Cardinality(Removals(j[1])) + 1 THEN NewJob
                   ELSE IF j[1] \in C /\ job[j].status = "pending" THEN Terminal("cancelled")
                   ELSE job[j]
  BY DEF WriteJobs, NewJob
<1>2. job' = [j \in Jobs |-> job'[j]]
  BY DEF WriteJobs
<1>3. \A j \in Jobs : job'[j] \in Job
  BY <1>1, JobRecords, ProjectTypes
<1>4. ASSUME NEW u \in Users, NEW i \in 1..MaxRemovals
      PROVE  /\ <<u, i>> \in Jobs
             /\ job'[<<u, i>>] = IF u \in S /\ i = Cardinality(Removals(u)) + 1 THEN NewJob
                                ELSE IF u \in C /\ job[<<u, i>>].status = "pending"
                                     THEN Terminal("cancelled") ELSE job[<<u, i>>]
  BY <1>1, JobPairs
<1> QED BY <1>2, <1>3, <1>4 DEF Written

\* A step that begins no removal of u, and leaves the seat closing only with its job.
Kept(u) ==
    /\ \A i \in 1..MaxRemovals :
          /\ job'[<<u, i>>].status = "none" <=> job[<<u, i>>].status = "none"
          /\ job'[<<u, i>>].status = "pending" => job[<<u, i>>].status = "pending" /\ ~ Effective(u)'
          /\ seat'[u].removing /\ job[<<u, i>>].status \in {"pending", "abandoned"} =>
                job'[<<u, i>>].status \in {"pending", "abandoned"}
    /\ seat'[u].removing => seat[u].removing /\ seat'[u].active

LEMMA UserKept ==
  ASSUME NEW u \in Users, UserFits(u), Kept(u)
  PROVE  UserFits(u)'
<1>1. PICK n \in 0..MaxRemovals :
         /\ Removals(u) = 1..n
         /\ \A i \in 1..MaxRemovals : job[<<u, i>>].status = "pending" => i = n /\ ~ Effective(u)
         /\ seat[u].removing =>
               seat[u].active /\ n # 0 /\ job[<<u, n>>].status \in {"pending", "abandoned"}
  BY DEF UserFits
<1>2. Removals(u)' = 1..n
  BY <1>1 DEF Removals, Kept
<1>3. \A i \in 1..MaxRemovals : job'[<<u, i>>].status = "pending" => i = n /\ ~ Effective(u)'
  BY <1>1 DEF Kept
<1>4. ASSUME seat'[u].removing
      PROVE  seat'[u].active /\ n # 0 /\ job'[<<u, n>>].status \in {"pending", "abandoned"}
  <2>1. n \in 1..MaxRemovals
    BY <1>1, <1>4, ProjectConstants DEF Kept
  <2> QED BY <1>1, <1>4, <2>1 DEF Kept
<1> QED BY <1>2, <1>3, <1>4 DEF UserFits

\* The seat of a user in effect begins to close.
LEMMA UserBegins ==
  ASSUME RemTypeOK, NEW S \in SUBSET Users, NEW C \in SUBSET Users, WriteJobs(S, C), CanRemove(S),
         NEW u \in S, u \notin C, UserFits(u), Effective(u),
         seat'[u] = [seat[u] EXCEPT !.removing = TRUE]
  PROVE  UserFits(u)'
<1>1. PICK n \in 0..MaxRemovals :
         /\ Removals(u) = 1..n
         /\ \A i \in 1..MaxRemovals : job[<<u, i>>].status = "pending" => i = n /\ ~ Effective(u)
  BY DEF UserFits
<1>2. n < MaxRemovals /\ Cardinality(Removals(u)) = n
  BY <1>1, Counted, ProjectConstants DEF CanRemove
<1>3. /\ job'[<<u, n + 1>>] = NewJob
      /\ \A i \in 1..MaxRemovals : i # n + 1 => job'[<<u, i>>] = job[<<u, i>>]
  <2>1. n + 1 \in 1..MaxRemovals
    BY <1>2, ProjectConstants
  <2>2. \A i \in 1..MaxRemovals :
           \/ i = n + 1 /\ job'[<<u, i>>] = NewJob
           \/ i # n + 1 /\ job'[<<u, i>>] = job[<<u, i>>]
    BY <1>2, Writes DEF Written
  <2> QED BY <2>1, <2>2
<1>4. Removals(u)' = 1..(n + 1)
  <2>1. \A i \in 1..MaxRemovals : job[<<u, i>>].status # "none" <=> i \in 1..n
    BY <1>1 DEF Removals
  <2>2. \A i \in 1..MaxRemovals : job'[<<u, i>>].status # "none" <=> i \in 1..(n + 1)
    BY <1>2, <1>3, <2>1, JobRecords
  <2>3. n + 1 <= MaxRemovals /\ n \in Nat /\ MaxRemovals \in Nat
    BY <1>1, <1>2, ProjectConstants
  <2>4. 1..(n + 1) \subseteq 1..MaxRemovals
    BY <2>3
  <2> QED BY <2>2, <2>4 DEF Removals
<1>5. seat'[u].active /\ seat'[u].removing /\ ~ Effective(u)'
  BY SeatEdits, ProjectTypes DEF Effective
<1>6. \A i \in 1..MaxRemovals : job'[<<u, i>>].status = "pending" => i = n + 1
  BY <1>1, <1>3
<1>7. n + 1 \in 0..MaxRemovals /\ n + 1 # 0 /\ job'[<<u, n + 1>>].status = "pending"
  BY <1>2, <1>3, JobRecords, ProjectConstants
<1> QED BY <1>4, <1>5, <1>6, <1>7 DEF UserFits

-----------------------------------------------------------------------------
(* What most steps leave alone. *)

HeldKept == \A w \in Workers, j \in Jobs : Held(w, j)' => Held(w, j)
ClosingKept == \A u \in Users : seat'[u].removing => seat[u].removing \/ Effective(u)
OwnersKept ==
    \A u \in Users : Effective(u)' /\ seat'[u].role = "owner" <=> Effective(u) /\ seat[u].role = "owner"
SeatedKept == \A u \in Users : Effective(u)' => Effective(u)

LEMMA WorkKept ==
  ASSUME NEW w \in Workers, WorkFits(w), worker'[w] = worker[w], \A u \in Users : UserFits(u),
         \A j \in Jobs : Held(w, j)' => Held(w, j), ClosingKept
  PROVE  WorkFits(w)'
<1> DEFINE j == worker[w].job
<1> SUFFICES ASSUME worker[w].pc = "retire", worker[w].verdict # "failed", Held(w, j)',
                    j \in Jobs
             PROVE  ~ seat'[j[1]].removing
  BY DEF WorkFits
<1>1. Held(w, j) /\ ~ seat[j[1]].removing /\ j[1] \in Users
  BY JobPairs DEF WorkFits
<1>2. ~ Effective(j[1])
  <2>1. PICK i \in 1..MaxRemovals : j = <<j[1], i>>
    BY JobPairs
  <2> QED BY <1>1, <2>1 DEF UserFits, Held
<1> QED BY <1>1, <1>2 DEF ClosingKept

LEMMA WritesHeld ==
  ASSUME RemTypeOK, NEW S \in SUBSET Users, NEW C \in SUBSET Users, WriteJobs(S, C)
  PROVE  HeldKept
<1> SUFFICES ASSUME NEW w \in Workers, NEW j \in Jobs, Held(w, j)' PROVE Held(w, j)
  BY DEF HeldKept
<1>1. PICK u \in Users, i \in 1..MaxRemovals : j = <<u, i>>
  BY JobPairs
<1>2. job'[j] # NewJob /\ job'[j] # Terminal("cancelled")
  BY JobRecords, ProjectConstants DEF Held
<1>3. job'[j] = job[j]
  BY <1>1, <1>2, Writes DEF Written
<1> QED BY <1>3 DEF Held

LEMMA SeatsKept ==
  ASSUME OwnerSits, Cardinality(Seated) <= MaxMembers
  PROVE  /\ OwnersKept /\ (project' # "disbanded" => project # "disbanded") => OwnerSits'
         /\ SeatedKept => Cardinality(Seated') <= MaxMembers
<1>1. OwnersKept => Owners' = Owners
  BY DEF OwnersKept, Owners
<1>2. ASSUME SeatedKept PROVE Cardinality(Seated') <= MaxMembers
  <2>1. Seated' \subseteq Seated /\ IsFiniteSet(Seated)
    BY <1>2, ProjectConstants, FS_Subset DEF SeatedKept, Seated
  <2>2. IsFiniteSet(Seated') /\ Cardinality(Seated') <= Cardinality(Seated)
    BY <2>1, FS_Subset
  <2>3. Cardinality(Seated) \in Nat /\ Cardinality(Seated') \in Nat
    BY <2>1, <2>2, FS_CardinalityType
  <2> QED BY <2>2, <2>3, ProjectConstants
<1> QED BY <1>1, <1>2 DEF OwnerSits

\* A step that leaves the seats as they are.
LEMMA SeatsStay ==
  ASSUME RemovalInv, RemTypeOK', UNCHANGED <<project, seat>>, \A u \in Users : Kept(u),
         \A w \in Workers : WorkFits(w)'
  PROVE  RemovalInv'
<1>1. \A u \in Users : UserFits(u)'
  BY UserKept DEF RemovalInv
<1>2. Owners' = Owners /\ Seated' = Seated
  BY DEF Owners, Seated, Effective
<1>3. OwnerSits' /\ Cardinality(Seated') <= MaxMembers
  BY <1>2 DEF OwnerSits, RemovalInv
<1> QED BY <1>1, <1>3 DEF RemovalInv

\* Also the states of the jobs.
LEMMA StatusesStay ==
  ASSUME RemovalInv, UNCHANGED seat, \A j \in Jobs : job'[j].status = job[j].status
  PROVE  \A u \in Users : Kept(u)
<1> SUFFICES ASSUME NEW u \in Users PROVE Kept(u)
  OBVIOUS
<1>1. \A i \in 1..MaxRemovals : job'[<<u, i>>].status = job[<<u, i>>].status
  BY JobPairs
<1>2. \A i \in 1..MaxRemovals : job[<<u, i>>].status = "pending" => ~ Effective(u)
  BY DEF RemovalInv, UserFits
<1>3. seat[u].removing => seat[u].active
  BY DEF RemovalInv, UserFits
<1>4. Effective(u)' <=> Effective(u)
  BY DEF Effective
<1> QED BY <1>1, <1>2, <1>3, <1>4 DEF Kept

-----------------------------------------------------------------------------
(* The requests and the Space. *)

\* Members in effect begin to leave (S), other seats that no Owner holds are closed (C).
LEMMA SomeLeave ==
  ASSUME RemovalInv, NEW S \in SUBSET Users, NEW C \in SUBSET Users,
         WriteJobs(S, C), CanRemove(S), UNCHANGED <<project, spaceSeat, worker, faults>>,
         epoch' \in {0, 1},
         \A u \in S : u \notin C /\ Effective(u) /\ seat[u].role # "owner",
         \A u \in C : seat[u].role # "owner",
         seat' = [u \in Users |-> IF u \in S THEN [seat[u] EXCEPT !.removing = TRUE]
                                  ELSE IF u \in C THEN NoSeat ELSE seat[u]]
  PROVE  RemovalInv'
<1>1. RemTypeOK /\ \A u \in Users : UserFits(u)
  BY DEF RemovalInv
<1>2. \A u \in Users : /\ u \in S => seat'[u] = [seat[u] EXCEPT !.removing = TRUE]
                       /\ u \in C => seat'[u] = NoSeat
                       /\ u \notin S /\ u \notin C => seat'[u] = seat[u]
  OBVIOUS
<1>3. \A u \in Users :
         /\ seat'[u] \in Member
         /\ u \in S \cup C => ~ Effective(u)' /\ seat[u].role # "owner"
         /\ u \notin S \cup C => (Effective(u)' <=> Effective(u))
         /\ u \notin S /\ seat'[u].removing => seat[u].removing
  BY <1>1, <1>2, SeatEdits, SeatRecords, ProjectTypes DEF Effective
<1>4. RemTypeOK'
  <2>1. seat' \in [Users -> Member]
    BY <1>3
  <2>2. job' \in [Jobs -> Job]
    BY <1>1, Writes
  <2> QED BY <1>1, <2>1, <2>2 DEF RemTypeOK
<1>5. ASSUME NEW u \in Users PROVE UserFits(u)'
  <2>1. CASE u \in S
    BY <1>1, <1>2, <2>1, UserBegins
  <2>2. CASE u \notin S
    <3>1. \A i \in 1..MaxRemovals :
             \/ u \in C /\ job[<<u, i>>].status = "pending" /\ job'[<<u, i>>] = Terminal("cancelled")
             \/ /\ u \in C => job[<<u, i>>].status # "pending"
                /\ job'[<<u, i>>] = job[<<u, i>>]
      BY <1>1, <2>2, Writes DEF Written
    <3>2. \A i \in 1..MaxRemovals :
             /\ job'[<<u, i>>].status = "none" <=> job[<<u, i>>].status = "none"
             /\ job'[<<u, i>>].status = "pending" => job[<<u, i>>].status = "pending"
             /\ u \notin C => job'[<<u, i>>].status = job[<<u, i>>].status
      BY <3>1, JobRecords
    <3>3. u \in C => ~ seat'[u].removing /\ ~ Effective(u)'
      BY <1>2, SeatRecords DEF Effective
    <3>4. u \notin C => seat'[u] = seat[u] /\ (Effective(u)' <=> Effective(u))
      BY <1>2, <1>3, <2>2
    <3>5. /\ \A i \in 1..MaxRemovals : job[<<u, i>>].status = "pending" => ~ Effective(u)
          /\ seat[u].removing => seat[u].active
      BY <1>1 DEF UserFits
    <3>6. Kept(u)
      BY <3>2, <3>3, <3>4, <3>5 DEF Kept
    <3> QED BY <1>1, <3>6, UserKept
  <2> QED BY <2>1, <2>2
<1>6. HeldKept /\ ClosingKept
  BY <1>1, <1>3, WritesHeld DEF ClosingKept
<1>7. \A w \in Workers : WorkFits(w)'
  BY <1>1, <1>6, WorkKept DEF RemovalInv, HeldKept
<1>8. OwnersKept /\ SeatedKept
  <2>1. \A u \in Users : u \notin S \cup C => seat'[u] = seat[u]
    BY <1>2
  <2>2. \A u \in Users : u \in S \cup C => ~ Effective(u)' /\ seat[u].role # "owner"
    BY <1>3
  <2> QED BY <1>3, <2>1, <2>2 DEF OwnersKept, SeatedKept
<1>9. OwnerSits' /\ Cardinality(Seated') <= MaxMembers
  BY <1>8, SeatsKept DEF RemovalInv
<1> QED BY <1>4, <1>5, <1>7, <1>9 DEF RemovalInv

LEMMA EpochMoves ==
  ASSUME RemTypeOK, Bump
  PROVE  epoch' \in {0, 1} /\ epoch' # epoch
  BY DEF RemTypeOK, Bump

\* A member leaves or is removed, and their agents with them.
LEMMA RemovalBegins ==
  ASSUME RemovalInv, NEW u \in Users, Effective(u), seat[u].role # "owner",
         BeginRemovalWithAgents(u)
  PROVE  RemovalInv'
<1> DEFINE S == {u} \cup OwnedAgents(u)
<1>1. S \in SUBSET Users /\ \A a \in S : a \notin {} /\ Effective(a) /\ seat[a].role # "owner"
  BY DEF OwnedAgents
<1>2. /\ WriteJobs(S, {}) /\ CanRemove(S) /\ UNCHANGED <<project, spaceSeat, worker, faults>>
      /\ seat' = BeginRemoval(S) /\ Bump
  BY DEF BeginRemovalWithAgents
<1>3. seat' = [a \in Users |-> IF a \in S THEN [seat[a] EXCEPT !.removing = TRUE]
                               ELSE IF a \in {} THEN NoSeat ELSE seat[a]]
  BY <1>2 DEF BeginRemoval
<1>4. epoch' \in {0, 1}
  BY <1>2, EpochMoves DEF RemovalInv
<1> HIDE DEF S
<1> QED BY <1>1, <1>2, <1>3, <1>4, SomeLeave

\* The Space's cascade closes a seat and takes the agents along.
LEMMA CascadeStep ==
  ASSUME RemovalInv, NEW u \in Users, SpaceCascade(u)
  PROVE  RemovalInv'
<1>1. PICK S \in SUBSET Users : S = IF Effective(u) THEN OwnedAgents(u) \ {u} ELSE {}
  BY DEF OwnedAgents
<1>2. PICK C \in SUBSET Users : C = IF Deactivates(u) THEN {u} ELSE {}
  OBVIOUS
<1>3. /\ WriteJobs(S, C) /\ CanRemove(S) /\ UNCHANGED <<project, spaceSeat, worker, faults>> /\ Bump
      /\ seat' = [BeginRemoval(S) EXCEPT ![u] = IF Deactivates(u) THEN Closed(seat[u]) ELSE @]
  BY <1>1, <1>2 DEF SpaceCascade
<1>4. /\ \A a \in S : a # u /\ a \notin C /\ Effective(a) /\ seat[a].role # "owner"
      /\ \A a \in C : a = u /\ seat[a].role # "owner"
      /\ u \in C <=> Deactivates(u)
  BY <1>1, <1>2 DEF OwnedAgents, Deactivates
<1>5. seat' = [a \in Users |-> IF a \in S THEN [seat[a] EXCEPT !.removing = TRUE]
                               ELSE IF a \in C THEN NoSeat ELSE seat[a]]
  <2>1. BeginRemoval(S) = [a \in Users |-> IF a \in S THEN [seat[a] EXCEPT !.removing = TRUE]
                                           ELSE seat[a]]
    BY DEF BeginRemoval
  <2>2. seat' = [a \in Users |-> IF a = u THEN IF u \in C THEN NoSeat ELSE seat[u]
                                 ELSE BeginRemoval(S)[a]]
    BY <1>3, <1>4, <2>1 DEF Closed
  <2>3. \A a \in Users : a # u => a \notin C
    BY <1>4
  <2>4. u \notin S
    BY <1>4
  <2> QED BY <2>1, <2>2, <2>3, <2>4
<1>6. epoch' \in {0, 1}
  BY <1>3, EpochMoves DEF RemovalInv
<1> QED BY <1>3, <1>4, <1>5, <1>6, SomeLeave

\* Users come in, within the quota; what was pending for them is cancelled.
LEMMA AdmitStep ==
  ASSUME RemovalInv, NEW a \in Users, NEW S \in SUBSET Users, NEW r \in {"common", "admin"},
         AddMembers(a, S, r)
  PROVE  RemovalInv'
<1>0. PICK E \in SUBSET Users : E = {}
  OBVIOUS
<1>1. PICK N \in SUBSET Users : N = {u \in S : ~ Effective(u)}
  OBVIOUS
<1>2. /\ WriteJobs(E, N) /\ UNCHANGED <<project, spaceSeat, worker, faults>> /\ Bump
      /\ Cardinality(Seated) + Cardinality(N) <= MaxMembers
      /\ seat' = Admitted(N, r)
  BY <1>0, <1>1 DEF AddMembers, NewSeats, Seated
<1>3. RemTypeOK /\ \A u \in Users : UserFits(u)
  BY DEF RemovalInv
<1>4. \A u \in Users :
         /\ u \in N => seat'[u] = OpenSeat(r) /\ ~ Effective(u)
         /\ u \notin N => seat'[u] = seat[u]
  BY <1>1, <1>2 DEF Admitted, OpenSeat
<1>5. \A u \in Users :
         /\ seat'[u] \in Member
         /\ u \in N => Effective(u)' /\ ~ seat'[u].removing /\ seat'[u].role # "owner"
         /\ u \notin N => (Effective(u)' <=> Effective(u))
  <2>1. /\ OpenSeat(r) \in Member /\ OpenSeat(r).active /\ ~ OpenSeat(r).removing
        /\ OpenSeat(r).role # "owner"
    BY SeatRecords DEF Roles
  <2> QED BY <1>3, <1>4, <2>1, ProjectTypes DEF Effective
<1>6. RemTypeOK'
  <2>1. seat' \in [Users -> Member]
    <3>1. seat' = [u \in Users |-> seat'[u]]
      BY <1>2 DEF Admitted
    <3> QED BY <1>5, <3>1
  <2>2. job' \in [Jobs -> Job]
    BY <1>2, <1>3, Writes
  <2>3. epoch' \in {0, 1}
    BY <1>2, <1>3, EpochMoves
  <2> QED BY <1>2, <1>3, <2>1, <2>2, <2>3 DEF RemTypeOK
<1>7. ASSUME NEW u \in Users PROVE UserFits(u)'
  <2>0. Written(E, N)
    BY <1>2, <1>3, Writes
  <2>1. \A i \in 1..MaxRemovals :
           \/ u \in N /\ job[<<u, i>>].status = "pending" /\ job'[<<u, i>>] = Terminal("cancelled")
           \/ /\ u \in N => job[<<u, i>>].status # "pending"
              /\ job'[<<u, i>>] = job[<<u, i>>]
    BY <1>0, <2>0 DEF Written
  <2>2. \A i \in 1..MaxRemovals :
           /\ job'[<<u, i>>].status = "none" <=> job[<<u, i>>].status = "none"
           /\ job'[<<u, i>>].status = "pending" => u \notin N /\ job[<<u, i>>].status = "pending"
           /\ u \notin N => job'[<<u, i>>].status = job[<<u, i>>].status
    BY <2>1, JobRecords
  <2>3. /\ \A i \in 1..MaxRemovals : job[<<u, i>>].status = "pending" => ~ Effective(u)
        /\ seat[u].removing => seat[u].active
    BY <1>3 DEF UserFits
  <2>4. Kept(u)
    BY <1>4, <1>5, <2>2, <2>3 DEF Kept
  <2> QED BY <1>3, <2>4, UserKept
<1>8. HeldKept /\ ClosingKept
  <2>1. HeldKept
    BY <1>2, <1>3, WritesHeld
  <2>2. ClosingKept
    BY <1>4, <1>5 DEF ClosingKept
  <2> QED BY <2>1, <2>2
<1>9. \A w \in Workers : WorkFits(w)'
  BY <1>2, <1>3, <1>8, WorkKept DEF RemovalInv, HeldKept
<1>10. OwnerSits'
  <2>1. OwnersKept
    BY <1>4, <1>5 DEF OwnersKept
  <2> QED BY <1>2, <2>1, SeatsKept DEF RemovalInv
<1>11. Cardinality(Seated') <= MaxMembers
  <2>1. Seated' = Seated \cup N /\ Seated \cap N = {}
    BY <1>4, <1>5 DEF Seated
  <2>2. IsFiniteSet(Seated) /\ IsFiniteSet(N)
    BY ProjectConstants, FS_Subset DEF Seated
  <2>3. Cardinality(Seated \cup N) = Cardinality(Seated) + Cardinality(N) - Cardinality(Seated \cap N)
    BY <2>2, FS_Union
  <2>4. Cardinality(Seated) \in Nat /\ Cardinality(N) \in Nat /\ Cardinality(Seated \cap N) = 0
    BY <2>1, <2>2, FS_CardinalityType, FS_EmptySet
  <2>5. Cardinality(Seated') = Cardinality(Seated) + Cardinality(N)
    BY <2>1, <2>3, <2>4
  <2> QED BY <1>2, <2>5
<1> QED BY <1>6, <1>7, <1>9, <1>10, <1>11 DEF RemovalInv

\* A step that changes roles only.
LEMMA RolesChange ==
  ASSUME RemovalInv, seat' \in [Users -> Member],
         \A u \in Users : seat'[u].active = seat[u].active /\ seat'[u].removing = seat[u].removing,
         UNCHANGED <<project, spaceSeat, job, worker, faults>>, epoch' \in {0, 1}, OwnerSits'
  PROVE  RemovalInv'
<1>1. \A u \in Users : Effective(u)' <=> Effective(u)
  BY DEF Effective
<1>2. RemTypeOK'
  BY DEF RemovalInv, RemTypeOK
<1>3. \A u \in Users : UserFits(u)'
  <2> SUFFICES ASSUME NEW u \in Users PROVE UserFits(u)'
    OBVIOUS
  <2>1. /\ \A i \in 1..MaxRemovals : job[<<u, i>>].status = "pending" => ~ Effective(u)
        /\ seat[u].removing => seat[u].active
    BY DEF RemovalInv, UserFits
  <2>2. Kept(u)
    BY <1>1, <2>1 DEF Kept
  <2> QED BY <2>2, UserKept DEF RemovalInv
<1>4. HeldKept /\ ClosingKept
  BY DEF HeldKept, Held, ClosingKept
<1>5. \A w \in Workers : WorkFits(w)'
  BY <1>4, WorkKept DEF RemovalInv, HeldKept
<1>6. Cardinality(Seated') <= MaxMembers
  BY <1>1, SeatsKept DEF SeatedKept, RemovalInv
<1> QED BY <1>2, <1>3, <1>5, <1>6 DEF RemovalInv

\* changeMemberRoleOnce, transferProjectOwnerOnce.
LEMMA RoleStep ==
  ASSUME RemovalInv, NEW a \in Users, NEW u \in Users, NEW r \in {"common", "admin"},
         ChangeMemberRole(a, u, r)
  PROVE  RemovalInv'
<1>1. RemTypeOK /\ r \in Roles
  BY DEF RemovalInv, Roles
<1>2. \A x \in Users : seat'[x] = IF x = u THEN [seat[u] EXCEPT !.role = r] ELSE seat[x]
  BY <1>1 DEF ChangeMemberRole, RemTypeOK
<1>3. \A x \in Users : /\ seat'[x] \in Member
                       /\ seat'[x].active = seat[x].active /\ seat'[x].removing = seat[x].removing
                       /\ x = u => seat'[x].role = r
                       /\ x # u => seat'[x].role = seat[x].role
  <2>1. seat[u] \in Member
    BY <1>1, ProjectTypes
  <2>2. PICK s \in Member : /\ s = [seat[u] EXCEPT !.role = r]
                            /\ s.active = seat[u].active /\ s.removing = seat[u].removing
                            /\ s.role = r
    BY <1>1, <2>1, RoleEdit
  <2>3. \A x \in Users : seat'[x] = IF x = u THEN s ELSE seat[x]
    BY <1>2, <2>2
  <2> QED BY <1>1, <2>2, <2>3, ProjectTypes
<1>4. seat' \in [Users -> Member]
  BY <1>1, <1>3 DEF ChangeMemberRole, RemTypeOK
<1>5. epoch' \in {0, 1} /\ UNCHANGED <<project, spaceSeat, job, worker, faults>>
  BY <1>1, EpochMoves DEF ChangeMemberRole
<1>6. OwnersKept
  <2>1. seat[u].role # "owner" /\ r # "owner"
    BY DEF ChangeMemberRole
  <2> QED BY <1>3, <2>1 DEF OwnersKept, Effective
<1>7. OwnerSits'
  BY <1>5, <1>6, SeatsKept DEF RemovalInv
<1> QED BY <1>3, <1>4, <1>5, <1>7, RolesChange

LEMMA TransferStep ==
  ASSUME RemovalInv, NEW a \in Users, NEW u \in Users, TransferProjectOwner(a, u)
  PROVE  RemovalInv'
<1>1. RemTypeOK /\ "owner" \in Roles /\ "admin" \in Roles
  BY DEF RemovalInv, Roles
<1>2. /\ Effective(u) /\ seat[u].role # "owner" /\ Effective(a) /\ seat[a].role = "owner" /\ u # a
  BY <1>1, ProjectConstants DEF TransferProjectOwner, Successor, ActorRole
<1>3. \A x \in Users : seat'[x] = IF x = u THEN [seat[u] EXCEPT !.role = "owner"]
                                  ELSE IF x = a THEN [seat[a] EXCEPT !.role = "admin"] ELSE seat[x]
  <2> DEFINE f == [seat EXCEPT ![u].role = "owner"]
  <2>1. f = [x \in Users |-> IF x = u THEN [seat[u] EXCEPT !.role = "owner"] ELSE seat[x]]
    BY <1>1 DEF RemTypeOK
  <2>2. seat' = [f EXCEPT ![a].role = "admin"]
    BY DEF TransferProjectOwner
  <2>3. f[a] = seat[a]
    BY <1>2, <2>1
  <2>4. \A x \in Users : seat'[x] = IF x = a THEN [f[a] EXCEPT !.role = "admin"] ELSE f[x]
    BY <2>1, <2>2
  <2> QED BY <1>2, <2>1, <2>3, <2>4
<1>4. \A x \in Users : /\ seat'[x] \in Member
                       /\ seat'[x].active = seat[x].active /\ seat'[x].removing = seat[x].removing
                       /\ x = u => seat'[x].role = "owner"
                       /\ x = a => seat'[x].role = "admin"
                       /\ x # u /\ x # a => seat'[x].role = seat[x].role
  <2>1. seat[u] \in Member /\ seat[a] \in Member
    BY <1>1, ProjectTypes
  <2>2. PICK s \in Member : /\ s = [seat[u] EXCEPT !.role = "owner"]
                            /\ s.active = seat[u].active /\ s.removing = seat[u].removing
                            /\ s.role = "owner"
    BY <1>1, <2>1, RoleEdit
  <2>3. PICK t \in Member : /\ t = [seat[a] EXCEPT !.role = "admin"]
                            /\ t.active = seat[a].active /\ t.removing = seat[a].removing
                            /\ t.role = "admin"
    BY <1>1, <2>1, RoleEdit
  <2>4. \A x \in Users : seat'[x] = IF x = u THEN s ELSE IF x = a THEN t ELSE seat[x]
    BY <1>3, <2>2, <2>3
  <2> QED BY <1>1, <1>2, <2>2, <2>3, <2>4, ProjectTypes
<1>5. seat' \in [Users -> Member]
  BY <1>1, <1>4 DEF TransferProjectOwner, RemTypeOK
<1>6. epoch' \in {0, 1} /\ UNCHANGED <<project, spaceSeat, job, worker, faults>>
  BY <1>1, EpochMoves DEF TransferProjectOwner
<1>7. OwnerSits'
  <2>1. project # "disbanded"
    BY DEF TransferProjectOwner
  <2>2. PICK o \in Users : Owners = {o}
    BY <2>1 DEF RemovalInv, OwnerSits
  <2>3. o = a
    BY <1>2, <2>2 DEF Owners
  <2>4. \A x \in Users : Effective(x)' /\ seat'[x].role = "owner" <=> x = u
    BY <1>2, <1>4, <2>2, <2>3 DEF Owners, Effective
  <2>5. Owners' = {u}
    BY <2>4 DEF Owners
  <2> QED BY <2>5 DEF OwnerSits
<1> QED BY <1>4, <1>5, <1>6, <1>7, RolesChange

\* The archive flag, and the seat in the Space.
LEMMA FlagStep ==
  ASSUME RemovalInv, NEW u \in Users, Archive(u) \/ SpaceSeatTransition(u)
  PROVE  RemovalInv'
<1>1. RemTypeOK
  BY DEF RemovalInv
<1>2. /\ UNCHANGED <<seat, job, worker, faults>> /\ spaceSeat' \subseteq Users /\ epoch' \in {0, 1}
      /\ project' \in {"live", "archived", "disbanded"}
      /\ project' # "disbanded" => project # "disbanded"
  BY <1>1 DEF Archive, SpaceSeatTransition, BumpOnTransition, RemTypeOK
<1>3. RemTypeOK'
  BY <1>1, <1>2 DEF RemTypeOK
<1>4. \A x \in Users : UserFits(x)'
  <2>1. \A x \in Users : Kept(x)
    BY <1>2, StatusesStay
  <2> QED BY <2>1, UserKept DEF RemovalInv
<1>5. HeldKept /\ ClosingKept /\ OwnersKept /\ SeatedKept
  BY <1>2 DEF HeldKept, Held, ClosingKept, OwnersKept, SeatedKept, Effective
<1>6. \A w \in Workers : WorkFits(w)'
  BY <1>2, <1>5, WorkKept DEF RemovalInv, HeldKept
<1>7. OwnerSits' /\ Cardinality(Seated') <= MaxMembers
  BY <1>2, <1>5, SeatsKept DEF RemovalInv
<1> QED BY <1>3, <1>4, <1>6, <1>7 DEF RemovalInv

\* The project is disbanded: no seat is in effect or closing any more.
LEMMA ProjectDisbands ==
  ASSUME RemovalInv, NEW a \in Users, Disband(a)
  PROVE  RemovalInv'
<1>0. PICK E \in SUBSET Users : E = {}
  OBVIOUS
<1>1. RemTypeOK /\ \A u \in Users : UserFits(u)
  BY DEF RemovalInv
<1>2. /\ WriteJobs(E, Users) /\ Bump /\ UNCHANGED <<spaceSeat, worker, faults>>
      /\ project' = "disbanded"
  BY <1>0 DEF Disband
<1>3. \A u \in Users : /\ seat[u].active => seat'[u] = NoSeat
                       /\ ~ seat[u].active => seat'[u] = seat[u]
  BY DEF Disband, Closed
<1>4. \A u \in Users : seat'[u] \in Member /\ ~ seat'[u].removing /\ ~ Effective(u)'
  <2>1. \A u \in Users : seat[u].removing => seat[u].active
    BY <1>1 DEF UserFits
  <2> QED BY <1>1, <1>3, <2>1, SeatRecords, ProjectTypes DEF Effective
<1>5. RemTypeOK'
  <2>1. seat' \in [Users -> Member]
    <3>1. seat' = [u \in Users |-> seat'[u]]
      BY DEF Disband
    <3> QED BY <1>4, <3>1
  <2>2. job' \in [Jobs -> Job] /\ epoch' \in {0, 1}
    BY <1>1, <1>2, Writes, EpochMoves
  <2> QED BY <1>1, <1>2, <2>1, <2>2 DEF RemTypeOK
<1>6. ASSUME NEW u \in Users PROVE UserFits(u)'
  <2>1. Written(E, Users)
    BY <1>1, <1>2, Writes
  <2>2. \A i \in 1..MaxRemovals :
           \/ job[<<u, i>>].status = "pending" /\ job'[<<u, i>>] = Terminal("cancelled")
           \/ job[<<u, i>>].status # "pending" /\ job'[<<u, i>>] = job[<<u, i>>]
    BY <1>0, <2>1 DEF Written
  <2>3. Kept(u)
    BY <1>4, <2>2, JobRecords DEF Kept
  <2> QED BY <1>1, <2>3, UserKept
<1>7. HeldKept /\ ClosingKept /\ SeatedKept
  BY <1>1, <1>2, <1>4, WritesHeld DEF ClosingKept, SeatedKept
<1>8. \A w \in Workers : WorkFits(w)'
  BY <1>1, <1>2, <1>7, WorkKept DEF RemovalInv, HeldKept
<1>9. OwnerSits' /\ Cardinality(Seated') <= MaxMembers
  BY <1>2, <1>7, SeatsKept DEF RemovalInv, OwnerSits
<1> QED BY <1>5, <1>6, <1>8, <1>9 DEF RemovalInv

-----------------------------------------------------------------------------
(* The jobs and the workers. *)

\* A step of one worker, or of none, that leaves the seats and the states of the jobs.
LEMMA JobsStep ==
  ASSUME RemovalInv, UNCHANGED seatVars, job' \in [Jobs -> Job], worker' \in [Workers -> Worker],
         faults' \in 0..MaxFaults, \A j \in Jobs : job'[j].status = job[j].status,
         \A w \in Workers :
            \/ WorkFits(w)'
            \/ worker'[w] = worker[w] /\ \A j \in Jobs : Held(w, j)' => Held(w, j)
  PROVE  RemovalInv'
<1>1. RemTypeOK'
  BY DEF RemovalInv, RemTypeOK, seatVars
<1>2. \A u \in Users : Kept(u)
  BY StatusesStay DEF seatVars
<1>3. ClosingKept
  BY DEF ClosingKept, seatVars
<1>4. \A w \in Workers : WorkFits(w)'
  BY <1>3, WorkKept DEF RemovalInv
<1> QED BY <1>1, <1>2, <1>4, SeatsStay DEF seatVars

LEMMA QuietWorker ==
  ASSUME NEW w \in Workers, worker'[w].pc \in {"idle", "next"}
  PROVE  WorkFits(w)'
  BY DEF WorkFits

LEMMA FaultCount ==
  ASSUME RemTypeOK, Fault \/ UNCHANGED faults
  PROVE  faults' \in 0..MaxFaults
  BY ProjectConstants DEF RemTypeOK, Fault

LEMMA ClaimStep ==
  ASSUME RemovalInv, NEW w \in Workers, NEW S \in SUBSET Jobs, ClaimRemovalJobs(w, S)
  PROVE  RemovalInv'
<1>1. RemTypeOK /\ UNCHANGED seatVars /\ UNCHANGED faults
  BY DEF RemovalInv, ClaimRemovalJobs
<1>2. \A n \in 0..MaxAttempts : OneMore(n) \in 0..MaxAttempts
  BY ProjectConstants DEF OneMore
<1>3. ASSUME NEW j \in Jobs
      PROVE  /\ job'[j] \in Job /\ job'[j].status = job[j].status
             /\ j \in S => job'[j].owner = w
             /\ j \notin S => job'[j] = job[j]
  <2>1. job'[j] = IF j \in S THEN ClaimedBy(w, job[j], OneMore(job[j].attempts)) ELSE job[j]
    BY DEF ClaimRemovalJobs, ClaimedBy
  <2>2. job[j] \in Job /\ OneMore(job[j].attempts) \in 0..MaxAttempts
    BY <1>1, <1>2, ProjectTypes DEF Job
  <2> QED BY <2>1, <2>2, ClaimEdit
<1>4. job' \in [Jobs -> Job]
  BY <1>3 DEF ClaimRemovalJobs
<1>5. PICK r \in Worker : r.pc = "next" /\ worker' = [worker EXCEPT ![w] = r]
  <2>1. /\ [IdleWorker EXCEPT !.pc = "next", !.ids = S, !.todo = S] \in Worker
        /\ [IdleWorker EXCEPT !.pc = "next", !.ids = S, !.todo = S].pc = "next"
    BY ProjectConstants, WorkerClaims
  <2> QED BY <2>1 DEF ClaimRemovalJobs, Set
<1>6. worker' \in [Workers -> Worker] /\ worker'[w] = r /\ \A x \in Workers : x # w => worker'[x] = worker[x]
  BY <1>1, <1>5 DEF RemTypeOK
<1>7. WorkFits(w)'
  BY <1>5, <1>6, QuietWorker
<1>8. \A x \in Workers, j \in Jobs : x # w => (Held(x, j)' => Held(x, j))
  BY <1>3 DEF Held
<1>9. \A x \in Workers : WorkFits(x)' \/ (worker'[x] = worker[x] /\ \A j \in Jobs : Held(x, j)' => Held(x, j))
  BY <1>6, <1>7, <1>8
<1>10. faults' \in 0..MaxFaults
  BY <1>1, FaultCount
<1> QED BY <1>1, <1>3, <1>4, <1>6, <1>9, <1>10, JobsStep

\* Leases that are renewed or run out, and jobs that come due.
LEMMA LeaseStep ==
  ASSUME RemovalInv,
         \/ \E w \in Workers : Heartbeat(w)
         \/ \E j \in Jobs : LeaseExpires(j) \/ ComeDue(j)
  PROVE  RemovalInv'
<1>1. RemTypeOK
  BY DEF RemovalInv
<1>2. /\ UNCHANGED seatVars /\ UNCHANGED worker /\ faults' \in 0..MaxFaults
  BY <1>1, FaultCount DEF Heartbeat, LeaseExpires, ComeDue
<1>3. job' = [j \in Jobs |-> job'[j]]
  BY <1>1 DEF RemTypeOK, Heartbeat, LeaseExpires, ComeDue
<1>4. ASSUME NEW j \in Jobs
      PROVE  job'[j] \in {job[j], [job[j] EXCEPT !.lease = "live"], [job[j] EXCEPT !.lease = "expired"],
                          [job[j] EXCEPT !.due = TRUE]}
  <2>1. ASSUME NEW w \in Workers, Heartbeat(w) PROVE job'[j] \in {job[j], [job[j] EXCEPT !.lease = "live"]}
    BY <2>1 DEF Heartbeat
  <2>2. ASSUME NEW i \in Jobs, LeaseExpires(i)
        PROVE  job'[j] \in {job[j], [job[j] EXCEPT !.lease = "expired"]}
    BY <1>1, <2>2 DEF LeaseExpires, RemTypeOK
  <2>3. ASSUME NEW i \in Jobs, ComeDue(i) PROVE job'[j] \in {job[j], [job[j] EXCEPT !.due = TRUE]}
    BY <1>1, <2>3 DEF ComeDue, RemTypeOK
  <2> QED BY <2>1, <2>2, <2>3
<1>5. ASSUME NEW j \in Jobs
      PROVE  job'[j] \in Job /\ job'[j].status = job[j].status /\ job'[j].owner = job[j].owner
  <2>1. job[j] \in Job
    BY <1>1, ProjectTypes
  <2>2. PICK r \in Job : /\ r = [job[j] EXCEPT !.lease = "live"]
                         /\ r.status = job[j].status /\ r.owner = job[j].owner
    BY <2>1, LeaseEdit
  <2>3. PICK r2 \in Job : /\ r2 = [job[j] EXCEPT !.lease = "expired"]
                          /\ r2.status = job[j].status /\ r2.owner = job[j].owner
    BY <2>1, LeaseEdit
  <2>4. PICK r3 \in Job : /\ r3 = [job[j] EXCEPT !.due = TRUE]
                          /\ r3.status = job[j].status /\ r3.owner = job[j].owner
    BY <2>1, DueEdit
  <2> QED BY <1>4, <2>1, <2>2, <2>3, <2>4
<1>6. job' \in [Jobs -> Job]
  BY <1>3, <1>5
<1>7. \A w \in Workers, j \in Jobs : Held(w, j)' => Held(w, j)
  BY <1>5 DEF Held
<1>8. worker' \in [Workers -> Worker]
  BY <1>1, <1>2 DEF RemTypeOK
<1> QED BY <1>2, <1>5, <1>6, <1>7, <1>8, JobsStep

\* One worker takes a new record.
LEMMA WorkerSet ==
  ASSUME RemTypeOK, NEW w \in Workers, NEW r \in Worker, Set(w, r)
  PROVE  /\ worker' \in [Workers -> Worker] /\ worker'[w] = r
         /\ \A x \in Workers : x # w => worker'[x] = worker[x]
  BY DEF RemTypeOK, Set

LEMMA GoesOn ==
  ASSUME RemTypeOK, NEW w \in Workers
  PROVE  Next1(w) \in Worker /\ Next1(w).pc \in {"idle", "next"}
<1>1. worker[w] \in Worker
  BY ProjectTypes
<1>2. PICK p \in {"idle", "next"} : p = IF worker[w].todo = {} THEN "idle" ELSE "next"
  OBVIOUS
<1>3. PICK S \in SUBSET Jobs : S = IF worker[w].todo = {} THEN {} ELSE worker[w].ids
  BY <1>1, WorkerFields
<1>4. Next1(w) = WentOn(worker[w], p, S)
  BY <1>2, <1>3, Zenon DEF Next1, WentOn
<1> QED BY <1>1, <1>4, WorkerGoesOn

\* The worker goes on to the next job or loses its batch, and no row changes.
LEMMA WorkerDrops ==
  ASSUME RemovalInv, NEW w \in Workers, RetireFails(w) \/ Crash(w)
  PROVE  RemovalInv'
<1>1. RemTypeOK /\ UNCHANGED seatVars /\ UNCHANGED job /\ Fault
  BY DEF RemovalInv, RetireFails, Crash
<1>2. PICK r \in Worker : r.pc \in {"idle", "next"} /\ Set(w, r)
  BY <1>1, GoesOn, WorkerRests DEF RetireFails, Crash
<1>3. /\ worker' \in [Workers -> Worker] /\ worker'[w] = r
      /\ \A x \in Workers : x # w => worker'[x] = worker[x]
  BY <1>1, <1>2, WorkerSet
<1>4. WorkFits(w)'
  BY <1>2, <1>3, QuietWorker
<1>5. \A x \in Workers, j \in Jobs : Held(x, j)' => Held(x, j)
  BY <1>1 DEF Held
<1>6. job' \in [Jobs -> Job] /\ faults' \in 0..MaxFaults /\ \A j \in Jobs : job'[j].status = job[j].status
  BY <1>1, FaultCount DEF RemTypeOK
<1> QED BY <1>1, <1>3, <1>4, <1>5, <1>6, JobsStep

\* removalCancelled
LEMMA TakeStep ==
  ASSUME RemovalInv, NEW w \in Workers, NEW j \in Jobs, RemovalCancelled(w, j)
  PROVE  RemovalInv'
<1>1. RemTypeOK /\ UNCHANGED seatVars /\ UNCHANGED job /\ UNCHANGED faults
  BY DEF RemovalInv, RemovalCancelled
<1>2. PICK v \in {"none", "cancelled", "failed"} :
         /\ v = "cancelled" => ~ (seat[j[1]].removing /\ JobStillOwnsRemoval(w, j))
         /\ Set(w, [worker[w] EXCEPT !.pc = IF v = "none" THEN "finish" ELSE "retire",
                                     !.todo = @ \ {j}, !.job = j, !.verdict = v])
  BY DEF RemovalCancelled
<1>3. PICK p \in {"finish", "retire"} : p = IF v = "none" THEN "finish" ELSE "retire"
  OBVIOUS
<1>4. worker[w] \in Worker /\ worker[w].todo \ {j} \in SUBSET Jobs
  BY <1>1, ProjectTypes, WorkerFields
<1>5. PICK r \in Worker : Set(w, r) /\ r.pc = p /\ r.job = j /\ r.verdict = v
  <2>1. PICK S \in SUBSET Jobs : S = worker[w].todo \ {j}
    BY <1>4
  <2>2. Set(w, TookUp(worker[w], p, S, j, v))
    BY <1>2, <1>3, <2>1, Zenon DEF TookUp
  <2> QED BY <1>4, <2>2, WorkerTakes
<1>6. /\ worker' \in [Workers -> Worker] /\ worker'[w] = r
      /\ \A x \in Workers : x # w => worker'[x] = worker[x]
  BY <1>1, <1>5, WorkerSet
<1>7. WorkFits(w)'
  BY <1>1, <1>2, <1>3, <1>5, <1>6 DEF WorkFits, Held, JobStillOwnsRemoval, seatVars
<1>8. \A x \in Workers, i \in Jobs : Held(x, i)' => Held(x, i)
  BY <1>1 DEF Held
<1>9. job' \in [Jobs -> Job] /\ faults' \in 0..MaxFaults /\ \A i \in Jobs : job'[i].status = job[i].status
  BY <1>1 DEF RemTypeOK
<1> QED BY <1>1, <1>6, <1>7, <1>8, <1>9, JobsStep

\* finishRemoval: the report is "done" only if the seat is not closing, or not this job's.
LEMMA FinishStep ==
  ASSUME RemovalInv, NEW w \in Workers, FinishRemoval(w)
  PROVE  RemovalInv'
<1>1. /\ RemTypeOK /\ UNCHANGED <<project, spaceSeat, epoch, job, faults>> /\ worker[w].pc = "finish"
      /\ \A u \in Users : UserFits(u)
  BY DEF RemovalInv, FinishRemoval
<1>2. PICK j \in Jobs : j = worker[w].job
  BY <1>1 DEF RemovalInv, WorkFits
<1>3. PICK u \in Users : u = j[1]
  BY JobPairs
<1>4. PICK v \in {"done", "failed"} : /\ Set(w, Reported(worker[w], v))
                                      /\ v = "failed" => UNCHANGED seat
                                      /\ v = "done" =>
                                            seat' = IF seat[u].active /\ seat[u].removing /\ Held(w, j)
                                                    THEN [seat EXCEPT ![u] = NoSeat] ELSE seat
  BY <1>2, <1>3 DEF FinishRemoval, Reported, Closed, JobStillOwnsRemoval, Held
<1>5. PICK r \in Worker : Set(w, r) /\ r.pc = "retire" /\ r.job = j /\ r.verdict = v
  BY <1>1, <1>2, <1>4, ProjectTypes, WorkerReports
<1>6. /\ worker' \in [Workers -> Worker] /\ worker'[w] = r
      /\ \A x \in Workers : x # w => worker'[x] = worker[x]
  BY <1>1, <1>5, WorkerSet
<1>7. /\ seat' \in [Users -> Member]
      /\ \A x \in Users : seat'[x] = seat[x] \/ (x = u /\ seat[u].removing /\ seat'[u] = NoSeat)
  BY <1>1, <1>4, SeatRecords DEF RemTypeOK
<1>8. v = "done" /\ Held(w, j) => ~ seat'[u].removing
  <2>1. seat[u].removing => seat[u].active
    BY <1>1 DEF UserFits
  <2> QED BY <1>1, <1>4, <2>1, SeatRecords DEF RemTypeOK
<1>9. RemTypeOK'
  BY <1>1, <1>6, <1>7 DEF RemTypeOK
<1>10. ASSUME NEW x \in Users PROVE UserFits(x)'
  <2>1. /\ \A i \in 1..MaxRemovals : job[<<x, i>>].status = "pending" => ~ Effective(x)
        /\ seat[x].removing => seat[x].active
    BY <1>1 DEF UserFits
  <2>2. /\ Effective(x)' => Effective(x)
        /\ seat'[x].removing => seat[x].removing /\ seat'[x].active
    BY <1>7, <2>1, SeatRecords DEF Effective
  <2>3. Kept(x)
    BY <1>1, <2>1, <2>2 DEF Kept
  <2> QED BY <1>1, <2>3, UserKept
<1>11. ClosingKept /\ OwnersKept /\ SeatedKept
  <2>1. \A x \in Users : seat'[x] # seat[x] => ~ seat'[x].removing /\ ~ Effective(x) /\ ~ Effective(x)'
    BY <1>7, SeatRecords DEF Effective
  <2>2. \A x \in Users : seat'[x] = seat[x] => (Effective(x)' <=> Effective(x))
    BY DEF Effective
  <2> QED BY <2>1, <2>2 DEF ClosingKept, OwnersKept, SeatedKept
<1>12. WorkFits(w)'
  BY <1>1, <1>3, <1>5, <1>6, <1>8 DEF WorkFits, Held
<1>13. ASSUME NEW x \in Workers PROVE WorkFits(x)'
  <2>1. CASE x = w
    BY <1>12, <2>1
  <2>2. CASE x # w
    <3>1. \A i \in Jobs : Held(x, i)' => Held(x, i)
      BY <1>1 DEF Held
    <3> QED BY <1>1, <1>6, <1>11, <2>2, <3>1, WorkKept DEF RemovalInv
  <2> QED BY <2>1, <2>2
<1>14. OwnerSits' /\ Cardinality(Seated') <= MaxMembers
  BY <1>1, <1>11, SeatsKept DEF RemovalInv
<1> QED BY <1>9, <1>10, <1>13, <1>14 DEF RemovalInv

ResetJob(r) == [r EXCEPT !.lease = "none", !.owner = Nobody, !.due = FALSE]

\* retireRemovalJob: the worker's own job is settled, given up or put back.
LEMMA RetireStep ==
  ASSUME RemovalInv, NEW w \in Workers, RetireRemovalJob(w)
  PROVE  RemovalInv'
<1>1. /\ RemTypeOK /\ UNCHANGED seatVars /\ UNCHANGED faults /\ worker[w].pc = "retire"
      /\ worker[w].verdict # "none" /\ WorkFits(w) /\ \A u \in Users : UserFits(u)
  BY DEF RemovalInv, RetireRemovalJob, WorkFits
<1>2. PICK j \in Jobs : j = worker[w].job
  BY <1>1 DEF WorkFits
<1>3. PICK v \in {"done", "cancelled", "failed"} : v = worker[w].verdict
  <2>1. worker[w].verdict \in {"none", "done", "cancelled", "failed"}
    BY <1>1, ProjectTypes, WorkerFields
  <2> QED BY <1>1, <2>1
<1>4. job' = IF ~ Held(w, j) THEN job
             ELSE [job EXCEPT ![j] = IF v # "failed" THEN Terminal(v)
                                     ELSE IF Exhausted(j) THEN Terminal("abandoned")
                                     ELSE ResetJob(job[j])]
  BY <1>2, <1>3, Zenon DEF RetireRemovalJob, ResetJob
<1>5. \/ job' = job
      \/ \E r \in Job : /\ job' = [job EXCEPT ![j] = r]
                        /\ job[j].status = "pending"
                        /\ r.status # "none"
                        /\ r.status = "pending" => r.owner = Nobody
                        /\ seat[j[1]].removing => r.status \in {"pending", "abandoned"}
  <2>1. CASE ~ Held(w, j)
    BY <1>4, <2>1
  <2>2. CASE Held(w, j) /\ v # "failed"
    <3>1. PICK s \in {"done", "cancelled", "abandoned"} : s = v
      BY <2>2
    <3>2. job' = [job EXCEPT ![j] = Terminal(s)] /\ ~ seat[j[1]].removing
      BY <1>1, <1>2, <1>3, <1>4, <2>2, <3>1 DEF WorkFits
    <3> QED BY <2>2, <3>2, JobRecords DEF Held
  <2>3. CASE Held(w, j) /\ v = "failed" /\ Exhausted(j)
    <3>1. job' = [job EXCEPT ![j] = Terminal("abandoned")]
      BY <1>4, <2>3
    <3> QED BY <2>3, <3>1, JobRecords DEF Held
  <2>4. CASE Held(w, j) /\ v = "failed" /\ ~ Exhausted(j)
    <3>1. job' = [job EXCEPT ![j] = ResetJob(job[j])]
      BY <1>4, <2>4
    <3>2. ResetJob(job[j]) \in Job /\ ResetJob(job[j]).status = "pending" /\ ResetJob(job[j]).owner = Nobody
      BY <1>1, <2>4, ProjectTypes, ResetEdit DEF Held, ResetJob
    <3> QED BY <2>4, <3>1, <3>2 DEF Held
  <2> QED BY <2>1, <2>2, <2>3, <2>4
<1>6. /\ job' \in [Jobs -> Job]
      /\ \A i \in Jobs :
            \/ job'[i] = job[i]
            \/ /\ i = j /\ job[j].status = "pending" /\ job'[j].status # "none"
               /\ job'[j].status = "pending" => job'[j].owner = Nobody
               /\ seat[j[1]].removing => job'[j].status \in {"pending", "abandoned"}
  <2>1. CASE job' = job
    BY <1>1, <2>1 DEF RemTypeOK
  <2>2. CASE job' # job
    <3>1. PICK r \in Job : /\ job' = [job EXCEPT ![j] = r]
                           /\ job[j].status = "pending" /\ r.status # "none"
                           /\ r.status = "pending" => r.owner = Nobody
                           /\ seat[j[1]].removing => r.status \in {"pending", "abandoned"}
      BY <1>5, <2>2
    <3>2. job' \in [Jobs -> Job] /\ job'[j] = r /\ \A i \in Jobs : i # j => job'[i] = job[i]
      BY <1>1, <3>1 DEF RemTypeOK
    <3> QED BY <3>1, <3>2
  <2> QED BY <2>1, <2>2
<1>7. /\ worker' \in [Workers -> Worker] /\ worker'[w].pc \in {"idle", "next"}
      /\ \A x \in Workers : x # w => worker'[x] = worker[x]
  <2>1. Set(w, Next1(w))
    BY DEF RetireRemovalJob
  <2> QED BY <1>1, <2>1, GoesOn, WorkerSet
<1>8. RemTypeOK'
  BY <1>1, <1>6, <1>7 DEF RemTypeOK, seatVars
<1>9. ASSUME NEW u \in Users PROVE Kept(u)
  <2>1. /\ \A i \in 1..MaxRemovals : job[<<u, i>>].status = "pending" => ~ Effective(u)
        /\ seat[u].removing => seat[u].active
    BY <1>1 DEF UserFits
  <2>2. \A i \in 1..MaxRemovals :
           \/ job'[<<u, i>>] = job[<<u, i>>]
           \/ /\ job[<<u, i>>].status = "pending" /\ job'[<<u, i>>].status # "none"
              /\ seat[u].removing => job'[<<u, i>>].status \in {"pending", "abandoned"}
    BY <1>6, JobPairs
  <2>3. seat'[u] = seat[u] /\ (Effective(u)' <=> Effective(u))
    BY <1>1 DEF seatVars, Effective
  <2> QED BY <2>1, <2>2, <2>3 DEF Kept
<1>10. \A x \in Workers, i \in Jobs : Held(x, i)' => Held(x, i)
  BY <1>6, ProjectConstants DEF Held
<1>11. ASSUME NEW x \in Workers PROVE WorkFits(x)'
  <2>1. CASE x = w
    BY <1>7, <2>1, QuietWorker
  <2>2. CASE x # w
    <3>1. ClosingKept
      BY <1>1 DEF ClosingKept, seatVars
    <3> QED BY <1>1, <1>7, <1>10, <2>2, <3>1, WorkKept DEF RemovalInv
  <2> QED BY <2>1, <2>2
<1> QED BY <1>1, <1>8, <1>9, <1>11, SeatsStay DEF seatVars

-----------------------------------------------------------------------------
FirstSeat == [NoSeat EXCEPT !.active = TRUE, !.role = "owner"]

LEMMA FirstSeatRecord ==
  /\ FirstSeat \in Member /\ FirstSeat.active /\ ~ FirstSeat.removing /\ FirstSeat.role = "owner"
<1>1. NoSeat \in Member /\ NoSeat.removing = FALSE /\ "owner" \in Roles
  BY SeatRecords DEF Roles
<1>2. ASSUME NEW r \in Member, NEW k \in Roles
      PROVE  /\ [r EXCEPT !.active = TRUE, !.role = k] \in Member
             /\ [r EXCEPT !.active = TRUE, !.role = k].active
             /\ [r EXCEPT !.active = TRUE, !.role = k].removing = r.removing
             /\ [r EXCEPT !.active = TRUE, !.role = k].role = k
  BY DEF Member
<1> QED BY <1>1, <1>2 DEF FirstSeat

LEMMA RemovalInit == RemInit => RemovalInv
<1> SUFFICES ASSUME RemInit PROVE RemovalInv
  OBVIOUS
<1>1. PICK s \in Member : s = FirstSeat /\ s.active /\ ~ s.removing /\ s.role = "owner"
  BY FirstSeatRecord
<1>2. \A u \in Users : seat[u] = IF u = FirstOwner THEN s ELSE NoSeat
  BY <1>1 DEF RemInit, FirstSeat
<1>3. \A u \in Users : /\ seat[u] \in Member /\ ~ seat[u].removing
                       /\ Effective(u) <=> u = FirstOwner
                       /\ u = FirstOwner => seat[u].role = "owner"
  BY <1>1, <1>2, SeatRecords DEF Effective
<1>4. RemTypeOK
  <2>1. seat \in [Users -> Member]
    BY <1>3 DEF RemInit
  <2>2. job \in [Jobs -> Job] /\ worker \in [Workers -> Worker]
    BY JobRecords, WorkerRests DEF RemInit
  <2> QED BY <2>1, <2>2, ProjectConstants DEF RemInit, RemTypeOK
<1>5. ASSUME NEW u \in Users PROVE UserFits(u)
  <2>1. \A i \in 1..MaxRemovals : job[<<u, i>>] = NoJob
    BY JobPairs DEF RemInit
  <2>2. Removals(u) = {} /\ 1..0 = {} /\ 0 \in 0..MaxRemovals
    BY <2>1, JobRecords, ProjectConstants DEF Removals
  <2>3. Removals(u) = 1..0 /\ \A i \in 1..MaxRemovals : job[<<u, i>>].status # "pending"
    BY <2>1, <2>2, JobRecords
  <2> QED BY <1>3, <2>2, <2>3 DEF UserFits
<1>6. \A w \in Workers : WorkFits(w)
  BY WorkerRests DEF RemInit, WorkFits
<1>7. Owners = {FirstOwner} /\ Seated = {FirstOwner}
  BY <1>3, ProjectConstants DEF Owners, Seated
<1>8. OwnerSits
  BY <1>7, ProjectConstants DEF OwnerSits
<1>9. Cardinality(Seated) <= MaxMembers
  BY <1>7, ProjectConstants, FS_Singleton
<1> QED BY <1>4, <1>5, <1>6, <1>8, <1>9 DEF RemovalInv

LEMMA RemovalStep == RemovalInv /\ [RemNext]_remVars => RemovalInv'
<1> SUFFICES ASSUME RemovalInv, [RemNext]_remVars PROVE RemovalInv'
  OBVIOUS
<1>1. CASE UNCHANGED remVars
  <2>1. UNCHANGED <<project, seat, spaceSeat, epoch, job, worker, faults>>
    BY <1>1 DEF remVars, seatVars
  <2>2. /\ \A j \in Jobs : job'[j].status = job[j].status
        /\ \A w \in Workers : worker'[w] = worker[w] /\ \A j \in Jobs : Held(w, j)' => Held(w, j)
    BY <2>1 DEF Held
  <2>3. job' \in [Jobs -> Job] /\ worker' \in [Workers -> Worker] /\ faults' \in 0..MaxFaults
    BY <2>1 DEF RemovalInv, RemTypeOK
  <2>4. UNCHANGED seatVars
    BY <2>1 DEF seatVars
  <2> QED BY <2>2, <2>3, <2>4, JobsStep
<1>2. CASE Requests
  <2>1. ASSUME NEW a \in Users, NEW u \in Users, NEW r \in {"common", "admin"}, ChangeMemberRole(a, u, r)
        PROVE  RemovalInv'
    BY <2>1, RoleStep
  <2>2. ASSUME NEW a \in Users, NEW S \in SUBSET Users, NEW r \in {"common", "admin"}, AddMembers(a, S, r)
        PROVE  RemovalInv'
    BY <2>2, AdmitStep
  <2>3. ASSUME NEW a \in Users, NEW u \in Users, RemoveMemberOnce(a, u) PROVE RemovalInv'
    BY <2>3, RemovalBegins DEF RemoveMemberOnce
  <2>4. ASSUME NEW a \in Users, NEW u \in Users, TransferProjectOwner(a, u) PROVE RemovalInv'
    BY <2>4, TransferStep
  <2>5. ASSUME NEW u \in Users, LeaveProject(u) PROVE RemovalInv'
    BY <2>5, RemovalBegins DEF LeaveProject
  <2>6. ASSUME NEW u \in Users, Archive(u) PROVE RemovalInv'
    BY <2>6, FlagStep
  <2>7. ASSUME NEW u \in Users, Disband(u) PROVE RemovalInv'
    BY <2>7, ProjectDisbands
  <2> QED BY <1>2, <2>1, <2>2, <2>3, <2>4, <2>5, <2>6, <2>7 DEF Requests
<1>3. CASE Space
  BY <1>3, FlagStep, CascadeStep DEF Space
<1>4. CASE ClaimAny
  BY <1>4, ClaimStep DEF ClaimAny
<1>5. ASSUME NEW w \in Workers, WorkerStep(w) PROVE RemovalInv'
  BY <1>5, TakeStep, FinishStep, RetireStep DEF WorkerStep
<1>6. ASSUME NEW w \in Workers, Heartbeat(w) PROVE RemovalInv'
  BY <1>6, LeaseStep
<1>7. ASSUME NEW w \in Workers, RetireFails(w) \/ Crash(w) PROVE RemovalInv'
  BY <1>7, WorkerDrops
<1>8. ASSUME NEW j \in Jobs, LeaseExpires(j) \/ ComeDue(j) PROVE RemovalInv'
  BY <1>8, LeaseStep
<1> QED BY <1>1, <1>2, <1>3, <1>4, <1>5, <1>6, <1>7, <1>8 DEF RemNext

LEMMA RemovalAlways == RemSpec => []RemovalInv
  BY RemovalInit, RemovalStep, PTL DEF RemSpec

LEMMA RemovalFits == RemovalInv => RemovalSound
<1> SUFFICES ASSUME RemovalInv PROVE RemovalSound
  OBVIOUS
<1>1. ASSUME NEW u \in Users, seat[u].removing
      PROVE  seat[u].active /\ job[LatestJob(u)].status \in {"pending", "abandoned"}
  <2>1. PICK n \in 0..MaxRemovals :
           /\ Removals(u) = 1..n
           /\ seat[u].active /\ job[<<u, n>>].status \in {"pending", "abandoned"}
    BY <1>1 DEF RemovalInv, UserFits
  <2>2. LatestJob(u) = <<u, n>>
    BY <2>1, Counted, ProjectConstants
  <2> QED BY <2>1, <2>2
<1>2. OwnerKept
  <2> SUFFICES ASSUME project # "disbanded" PROVE Cardinality(Owners) = 1
    BY DEF OwnerKept, Owners
  <2> QED BY FS_Singleton DEF RemovalInv, OwnerSits
<1>3. WithinQuota
  BY DEF RemovalInv, WithinQuota, Seated
<1> QED BY <1>1, <1>2, <1>3 DEF RemovalInv, RemovalSound, RemovalCovered

\* For any number of members, workers and removals: a seat that is closing has the job of its
\* last removal to close it, a project that is not disbanded has exactly one Owner in effect,
\* and the quota holds, whatever requests, the Space, crashed and stalled workers do.
THEOREM RemovalIsSound == RemSpec => []RemovalSound
  BY RemovalAlways, RemovalFits, PTL

-----------------------------------------------------------------------------
(* Who changes a seat, and what the peers of the project are told. *)

Told == \A u \in Users : Standing(u)' # Standing(u) => epoch' # epoch
OwnCycle ==
    \A w \in Workers, u \in Users :
        worker'[w] # worker[w] /\ seat'[u] # seat[u] => worker[w].job = LatestJob(u)

\* A worker closes a seat that is closing, for the user's last removal.
LEMMA CloseStep ==
  ASSUME RemovalInv, NEW w \in Workers, FinishRemoval(w)
  PROVE  Told /\ OwnCycle
<1>1. /\ RemTypeOK /\ UNCHANGED <<project, spaceSeat, epoch, job, faults>> /\ worker[w].pc = "finish"
      /\ \A u \in Users : UserFits(u)
  BY DEF RemovalInv, FinishRemoval
<1>2. PICK j \in Jobs : j = worker[w].job
  BY <1>1 DEF RemovalInv, WorkFits
<1>3. PICK u \in Users, i \in 1..MaxRemovals : j = <<u, i>> /\ u = j[1]
  BY JobPairs
<1>4. \A x \in Users : seat'[x] # seat[x] =>
         x = u /\ seat[u].removing /\ seat'[u] = NoSeat /\ job[j].status = "pending"
  BY <1>1, <1>2, <1>3 DEF FinishRemoval, Closed, JobStillOwnsRemoval, RemTypeOK
<1>5. \A x \in Workers : x # w => worker'[x] = worker[x]
  BY <1>1 DEF FinishRemoval, Set, RemTypeOK
<1>6. \A x \in Users : seat'[x] # seat[x] => LatestJob(x) = j
  <2> SUFFICES ASSUME NEW x \in Users, seat'[x] # seat[x] PROVE LatestJob(x) = j
    OBVIOUS
  <2>1. x = u /\ job[<<u, i>>].status = "pending"
    BY <1>3, <1>4
  <2>2. PICK n \in 0..MaxRemovals : Removals(u) = 1..n /\ i = n
    BY <1>1, <2>1 DEF UserFits
  <2> QED BY <1>3, <2>1, <2>2, Counted, ProjectConstants
<1>7. OwnCycle
  BY <1>2, <1>5, <1>6 DEF OwnCycle
<1>8. ASSUME NEW x \in Users PROVE Standing(x)' = Standing(x)
  <2>1. CASE seat'[x] = seat[x]
    BY <1>1, <2>1 DEF Standing, Effective
  <2>2. CASE seat'[x] # seat[x]
    <3>1. ~ Effective(x) /\ ~ Effective(x)'
      BY <1>4, <2>2, SeatRecords DEF Effective
    <3> QED BY <3>1 DEF Standing
  <2> QED BY <2>1, <2>2
<1> QED BY <1>7, <1>8 DEF Told

\* A seat in the Space opens or closes: whoever is in effect is told of.
LEMMA TransitionTold ==
  ASSUME NEW u \in Users, SpaceSeatTransition(u), RemTypeOK
  PROVE  Told
<1>1. UNCHANGED <<project, seat>> /\ \A x \in Users : x # u => (x \in spaceSeat' <=> x \in spaceSeat)
  BY DEF SpaceSeatTransition
<1>2. \A x \in Users : Effective(x)' <=> Effective(x)
  BY <1>1 DEF Effective
<1>3. \A x \in Users : x # u => Standing(x)' = Standing(x)
  BY <1>1, <1>2 DEF Standing
<1>4. CASE Effective(u) /\ project # "disbanded"
  <2>1. Bump
    BY <1>4 DEF SpaceSeatTransition, BumpOnTransition, Bump
  <2> QED BY <2>1, EpochMoves DEF Told
<1>5. CASE ~ (Effective(u) /\ project # "disbanded")
  <2>1. Standing(u)' = Standing(u)
    BY <1>1, <1>2, <1>5 DEF Standing
  <2> QED BY <1>3, <2>1 DEF Told
<1> QED BY <1>4, <1>5

LEMMA QuietTold ==
  ASSUME UNCHANGED <<seat, spaceSeat>>, (project' = "disbanded") <=> (project = "disbanded")
  PROVE  Told
<1>1. \A u \in Users : Effective(u)' <=> Effective(u)
  BY DEF Effective
<1> QED BY <1>1 DEF Told, Standing

LEMMA SeatStep == RemovalInv /\ [RemNext]_remVars => Told /\ OwnCycle
<1> SUFFICES ASSUME RemovalInv, [RemNext]_remVars PROVE Told /\ OwnCycle
  OBVIOUS
<1>0. RemTypeOK
  BY DEF RemovalInv
<1>1. ASSUME Bump, UNCHANGED worker PROVE Told /\ OwnCycle
  BY <1>0, <1>1, EpochMoves DEF Told, OwnCycle
<1>2. ASSUME UNCHANGED seatVars PROVE Told /\ OwnCycle
  <2>1. UNCHANGED <<project, seat, spaceSeat>>
    BY <1>2 DEF seatVars
  <2> QED BY <2>1, QuietTold DEF OwnCycle
<1>3. CASE UNCHANGED remVars
  BY <1>2, <1>3 DEF remVars
<1>4. CASE Requests
  <2>1. ASSUME NEW a \in Users, NEW u \in Users, NEW r \in {"common", "admin"}, ChangeMemberRole(a, u, r)
        PROVE  Told /\ OwnCycle
    BY <1>1, <2>1 DEF ChangeMemberRole
  <2>2. ASSUME NEW a \in Users, NEW S \in SUBSET Users, NEW r \in {"common", "admin"}, AddMembers(a, S, r)
        PROVE  Told /\ OwnCycle
    BY <1>1, <2>2 DEF AddMembers
  <2>3. ASSUME NEW a \in Users, NEW u \in Users, RemoveMemberOnce(a, u) PROVE Told /\ OwnCycle
    BY <1>1, <2>3 DEF RemoveMemberOnce, BeginRemovalWithAgents
  <2>4. ASSUME NEW a \in Users, NEW u \in Users, TransferProjectOwner(a, u) PROVE Told /\ OwnCycle
    BY <1>1, <2>4 DEF TransferProjectOwner
  <2>5. ASSUME NEW u \in Users, LeaveProject(u) PROVE Told /\ OwnCycle
    BY <1>1, <2>5 DEF LeaveProject, BeginRemovalWithAgents
  <2>6. ASSUME NEW u \in Users, Archive(u) PROVE Told /\ OwnCycle
    <3>1. UNCHANGED <<seat, spaceSeat, worker>> /\ project # "disbanded" /\ project' # "disbanded"
      BY <2>6 DEF Archive
    <3> QED BY <3>1, QuietTold DEF OwnCycle
  <2>7. ASSUME NEW u \in Users, Disband(u) PROVE Told /\ OwnCycle
    BY <1>1, <2>7 DEF Disband
  <2> QED BY <1>4, <2>1, <2>2, <2>3, <2>4, <2>5, <2>6, <2>7 DEF Requests
<1>5. ASSUME NEW u \in Users, SpaceSeatTransition(u) PROVE Told /\ OwnCycle
  BY <1>0, <1>5, TransitionTold DEF SpaceSeatTransition, OwnCycle
<1>6. ASSUME NEW u \in Users, SpaceCascade(u) PROVE Told /\ OwnCycle
  BY <1>1, <1>6 DEF SpaceCascade
<1>7. CASE ClaimAny
  BY <1>2, <1>7 DEF ClaimAny, ClaimRemovalJobs
<1>8. ASSUME NEW w \in Workers, WorkerStep(w) PROVE Told /\ OwnCycle
  <2>1. ASSUME NEW j \in Jobs, RemovalCancelled(w, j) PROVE UNCHANGED seatVars
    BY <2>1 DEF RemovalCancelled
  <2>2. RetireRemovalJob(w) => UNCHANGED seatVars
    BY DEF RetireRemovalJob
  <2> QED BY <1>2, <1>8, <2>1, <2>2, CloseStep DEF WorkerStep
<1>9. ASSUME NEW w \in Workers, Heartbeat(w) \/ RetireFails(w) \/ Crash(w) PROVE Told /\ OwnCycle
  BY <1>2, <1>9 DEF Heartbeat, RetireFails, Crash
<1>10. ASSUME NEW j \in Jobs, LeaseExpires(j) \/ ComeDue(j) PROVE Told /\ OwnCycle
  BY <1>2, <1>10 DEF LeaseExpires, ComeDue
<1> QED BY <1>3, <1>4, <1>5, <1>6, <1>7, <1>8, <1>9, <1>10 DEF RemNext, Space

\* For any number of members, workers and removals: a worker closes a seat only for that
\* seat's last removal, however late it wakes up, and no step changes what an authorization
\* answers about anybody without moving the epoch the answers are cached under.
THEOREM SeatStepsAreSound == RemSpec => SeatStepsSound
<1>1. RemovalInv /\ [RemNext]_remVars
        => /\ [(\E u \in Users : Standing(u)' # Standing(u)) => epoch' # epoch]_remVars
           /\ [\A w \in Workers, u \in Users :
                  worker'[w] # worker[w] /\ seat'[u] # seat[u] => worker[w].job = LatestJob(u)]_remVars
  BY SeatStep DEF Told, OwnCycle
<1>2. RemSpec => OwnCycleOnly
  BY <1>1, RemovalAlways, PTL DEF RemSpec, OwnCycleOnly
<1>3. RemSpec => EpochTells
  BY <1>1, RemovalAlways, PTL DEF RemSpec, EpochTells
<1> QED BY <1>2, <1>3 DEF SeatStepsSound
=============================================================================
