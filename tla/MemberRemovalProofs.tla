------------------------ MODULE MemberRemovalProofs ------------------------
(***************************************************************************)
(* Proofs about MemberRemoval, for every set of users, groups, projects    *)
(* and workers and every budget: its types, the attempts of an abandoned   *)
(* job, that verdicts stand and members are spared, and, for Spaces with   *)
(* no more projects than a page of the cascade, that no removal is left    *)
(* half done without a job.                                                *)
(***************************************************************************)
EXTENDS MemberRemoval, FiniteSetTheorems, TLAPS

\* What a worker at work carries.
WorkerSound(r) ==
    /\ r.pc # "idle" => r.job \in Jobs /\ r.owner \in 1..MaxAttempts
    /\ r.pc \notin {"confirm", "end"} => r.page < MaxPages
    /\ r.pc = "gexit" => r.todo \subseteq Groups
    /\ r.pc = "pexit" => r.todo \subseteq Projects

TypeInv == TypeOK /\ \A w \in Workers : WorkerSound(worker[w])

LEMMA Constants ==
  /\ MaxAttempts \in Nat \ {0} /\ PageSize \in Nat \ {0} /\ MaxPages \in Nat \ {0}
  /\ MaxRemovals \in Nat \ {0} /\ IsFiniteSet(Projects)
  BY RemovalAssumption

\* The fields of the types.
LEMMA Fields ==
  ASSUME TypeInv, NEW w \in Workers
  PROVE  /\ worker[w] \in Worker /\ WorkerSound(worker[w])
         /\ ~At(w, "idle") => /\ worker[w].job \in Jobs /\ Uid(w) \in Users
                              /\ worker[w].owner \in 1..MaxAttempts
  BY DEF TypeInv, TypeOK, Worker, WorkerSound, At, Uid, Jobs

\* A worker that goes on to r leaves the others alone.
LEMMA SetTypes ==
  ASSUME TypeInv, NEW w \in Workers, NEW r \in Worker, WorkerSound(r), Set(w, r)
  PROVE  /\ worker' \in [Workers -> Worker] /\ \A v \in Workers : WorkerSound(worker'[v])
         /\ worker'[w] = r /\ \A v \in Workers : v # w => worker'[v] = worker[v]
  BY DEF TypeInv, TypeOK, Set

-----------------------------------------------------------------------------
(* Where each step of a worker leaves its record. *)

\* The rows of the Space that a removal of u has yet to take.
LeftGroups(u) == {g \in groups[u] : <<u, g>> \notin late}

\* How far an attempt without an error has got with the groups G and the projects P left.
Done(r, G, P) ==
    /\ r.pc = "gexit" => G \subseteq r.todo
    /\ r.pc \in {"pcheck", "plist", "pexit", "confirm", "end"} => G = {}
    /\ r.pc = "pexit" => P \subseteq r.todo
    /\ r.pc = "end" => P = {}

\* A Space has no more projects than the cascade reads in one page.
OnePage == Cardinality(Projects) <= PageSize

\* A worker at work goes on to r with the same job ...
GoesOn(w, r) ==
    /\ WorkerSound(r) /\ r.pc # "idle" /\ Set(w, r)
    /\ r.job = worker[w].job /\ r.owner = worker[w].owner

\* ... and unless it fails or meets a member it gets further with what is left.
Advances(w, u, r) ==
    /\ GoesOn(w, r)
    /\ \/ r.failed
       \/ Member(u)
       \/ /\ ~worker[w].failed
          /\ OnePage /\ Done(worker[w], LeftGroups(u), projects[u])
             => Done(r, LeftGroups(u)', projects'[u])

\* The plain moves.
LEMMA GotoRecord ==
  ASSUME TypeInv, NEW w \in Workers, ~At(w, "idle"),
         NEW pc \in {"gcheck", "glist", "pcheck", "plist", "end"}, Goto(w, pc),
         pc = "end" \/ worker[w].page < MaxPages
  PROVE  \E r \in Worker : /\ GoesOn(w, r) /\ r.pc = pc /\ r.todo = {}
                           /\ r.failed = worker[w].failed
<1> DEFINE r == [worker[w] EXCEPT !.pc = pc, !.todo = {}]
<1>1. /\ r \in Worker /\ r.pc = pc /\ r.todo = {} /\ r.failed = worker[w].failed
      /\ r.page = worker[w].page /\ r.job = worker[w].job /\ r.owner = worker[w].owner
  BY Fields DEF Worker
<1>2. Set(w, r)
  BY DEF Goto
<1> HIDE DEF r
<1>3. GoesOn(w, r)
  BY <1>1, <1>2, Fields DEF GoesOn, WorkerSound, At
<1> QED BY <1>1, <1>3

LEMMA FailToRecord ==
  ASSUME TypeInv, NEW w \in Workers, ~At(w, "idle"),
         NEW pc \in {"pcheck", "end"}, FailTo(w, pc), pc = "end" \/ worker[w].page < MaxPages
  PROVE  \E r \in Worker : GoesOn(w, r) /\ r.pc = pc /\ r.failed
<1> DEFINE r == [worker[w] EXCEPT !.pc = pc, !.todo = {}, !.failed = TRUE]
<1>1. /\ r \in Worker /\ r.pc = pc /\ r.todo = {} /\ r.failed
      /\ r.page = worker[w].page /\ r.job = worker[w].job /\ r.owner = worker[w].owner
  BY Fields DEF Worker
<1>2. Set(w, r)
  BY DEF FailTo
<1> HIDE DEF r
<1>3. GoesOn(w, r)
  BY <1>1, <1>2, Fields DEF GoesOn, WorkerSound, At
<1> QED BY <1>1, <1>3

\* The outer gate.
LEMMA CheckSeatAdvances ==
  ASSUME TypeInv, NEW w \in Workers, NEW u \in Users, u = Uid(w), CheckSeat(w)
  PROVE  \E r \in Worker : Advances(w, u, r)
<1>1. worker[w].pc = "check" /\ ~At(w, "idle") /\ worker[w].page < MaxPages
  BY Fields DEF CheckSeat, At, WorkerSound
<1>2. CASE FailTo(w, "end")
  BY <1>1, <1>2, FailToRecord DEF Advances
<1>3. ASSUME Goto(w, IF CheckMembershipForCleanup(u) THEN "end" ELSE "gcheck")
      PROVE  \E r \in Worker : Advances(w, u, r)
  <2> DEFINE pc == IF CheckMembershipForCleanup(u) THEN "end" ELSE "gcheck"
  <2>1. pc = "end" => Member(u)
    BY DEF CheckMembershipForCleanup, Member
  <2>2. pc \in {"gcheck", "glist", "pcheck", "plist", "end"}
    OBVIOUS
  <2>3. Goto(w, pc)
    BY <1>3
  <2> HIDE DEF pc
  <2>4. PICK r \in Worker : GoesOn(w, r) /\ r.pc = pc /\ r.failed = worker[w].failed
    BY <1>1, <2>2, <2>3, GotoRecord
  <2>5. pc = "gcheck" \/ pc = "end"
    BY DEF pc
  <2> QED BY <2>1, <2>4, <2>5 DEF Advances, Done
<1> QED BY <1>2, <1>3 DEF CheckSeat

\* Rows that a step leaves alone.
LEMMA SameRows ==
  ASSUME UNCHANGED <<groups, late, projects>>, NEW u \in Users
  PROVE  LeftGroups(u)' = LeftGroups(u) /\ projects'[u] = projects[u]
  BY DEF LeftGroups

\* The gate of the group step, and the project step's, which comes after it.
LEMMA GatesAdvance ==
  ASSUME TypeInv, NEW w \in Workers, NEW u \in Users, u = Uid(w), GroupCheck(w) \/ ProjectCheck(w)
  PROVE  \E r \in Worker : Advances(w, u, r)
<1>1. /\ ~At(w, "idle") /\ worker[w].page < MaxPages
      /\ worker[w].pc = IF GroupCheck(w) THEN "gcheck" ELSE "pcheck"
  BY Fields DEF GroupCheck, ProjectCheck, At, WorkerSound
<1>2. LeftGroups(u)' = LeftGroups(u) /\ projects'[u] = projects[u]
  BY SameRows DEF GroupCheck, ProjectCheck, rowVars
<1>3. CASE FailTo(w, "pcheck") \/ FailTo(w, "end")
  BY <1>1, <1>3, FailToRecord DEF Advances
<1>4. CASE ~Member(u) /\ GroupCheck(w) /\ Goto(w, "glist")
  <2>1. PICK r \in Worker : GoesOn(w, r) /\ r.pc = "glist" /\ r.failed = worker[w].failed
    BY <1>1, <1>4, GotoRecord
  <2> QED BY <2>1 DEF Advances, Done
<1>5. CASE ~Member(u) /\ ProjectCheck(w) /\ Goto(w, "plist")
  <2>1. PICK r \in Worker : GoesOn(w, r) /\ r.pc = "plist" /\ r.failed = worker[w].failed
    BY <1>1, <1>5, GotoRecord
  <2>2. worker[w].pc = "pcheck"
    BY <1>5 DEF ProjectCheck, At
  <2> QED BY <1>2, <2>1, <2>2 DEF Advances, Done
<1>6. CASE Member(u) /\ (Goto(w, "pcheck") \/ Goto(w, "end"))
  <2>1. PICK r \in Worker : GoesOn(w, r)
    BY <1>1, <1>6, GotoRecord
  <2> QED BY <1>6, <2>1 DEF Advances
<1> QED
  BY <1>3, <1>4, <1>5, <1>6 DEF GroupCheck, ProjectCheck, CheckMembershipForCleanup, Member

\* The list of groups holds every group the user is in.
LEMMA GroupListAdvances ==
  ASSUME TypeInv, NEW w \in Workers, NEW u \in Users, u = Uid(w), GroupList(w)
  PROVE  \E r \in Worker : Advances(w, u, r)
<1>1. worker[w].pc = "glist" /\ ~At(w, "idle") /\ worker[w].page < MaxPages
  BY Fields DEF GroupList, At, WorkerSound
<1>2. LeftGroups(u)' = LeftGroups(u)
  BY SameRows DEF GroupList, rowVars
<1>3. CASE FailTo(w, "pcheck")
  BY <1>1, <1>3, FailToRecord DEF Advances
<1>4. ASSUME Set(w, [worker[w] EXCEPT !.todo = groups[u],
                                      !.pc = IF groups[u] = {} THEN "pcheck" ELSE "gexit"])
      PROVE  \E r \in Worker : Advances(w, u, r)
  <2> DEFINE r == [worker[w] EXCEPT !.todo = groups[u],
                                    !.pc = IF groups[u] = {} THEN "pcheck" ELSE "gexit"]
  <2>1. groups[u] \subseteq Groups
    BY DEF TypeInv, TypeOK
  <2>2. /\ r \in Worker /\ r.pc = (IF groups[u] = {} THEN "pcheck" ELSE "gexit")
        /\ r.todo = groups[u] /\ r.failed = worker[w].failed
        /\ r.page = worker[w].page /\ r.job = worker[w].job /\ r.owner = worker[w].owner
    BY <2>1, Fields DEF Worker
  <2>3. Set(w, r)
    BY <1>4
  <2> HIDE DEF r
  <2>4. GoesOn(w, r)
    BY <1>1, <2>1, <2>2, <2>3, Fields DEF GoesOn, WorkerSound, At
  <2>5. Done(r, LeftGroups(u)', projects'[u])
    BY <1>2, <2>2 DEF Done, LeftGroups
  <2> QED BY <2>2, <2>4, <2>5 DEF Advances
<1> QED BY <1>3, <1>4 DEF GroupList

LEMMA AfterGroupRecord ==
  ASSUME TypeInv, NEW w \in Workers, At(w, "gexit"), NEW g \in Groups, NEW f \in BOOLEAN,
         AfterGroup(w, g, f)
  PROVE  \E r \in Worker :
            /\ GoesOn(w, r) /\ r.todo = worker[w].todo \ {g} /\ r.failed = (worker[w].failed \/ f)
            /\ r.pc = IF r.todo = {} THEN "pcheck" ELSE "gexit"
<1> DEFINE rest == worker[w].todo \ {g}
           r == [worker[w] EXCEPT !.todo = rest, !.failed = @ \/ f,
                                  !.pc = IF rest = {} THEN "pcheck" ELSE "gexit"]
<1>1. worker[w].todo \subseteq Groups /\ worker[w].page < MaxPages /\ ~At(w, "idle")
  BY Fields DEF WorkerSound, At
<1>2. /\ r \in Worker /\ r.pc = (IF rest = {} THEN "pcheck" ELSE "gexit")
      /\ r.todo = rest /\ r.failed = (worker[w].failed \/ f)
      /\ r.page = worker[w].page /\ r.job = worker[w].job /\ r.owner = worker[w].owner
  BY <1>1, Fields DEF Worker
<1>3. Set(w, r)
  BY DEF AfterGroup
<1> HIDE DEF r
<1>4. GoesOn(w, r)
  BY <1>1, <1>2, <1>3, Fields DEF GoesOn, WorkerSound, At
<1> QED BY <1>2, <1>3, <1>4

\* One group of the list, taken or failed.
LEMMA ExitGroupAdvances ==
  ASSUME TypeInv, NEW w \in Workers, NEW u \in Users, u = Uid(w), NEW g \in Groups,
         ExitGroup(w, g) \/ ExitGroupFails(w, g)
  PROVE  \E r \in Worker : Advances(w, u, r)
<1>1. At(w, "gexit")
  BY DEF ExitGroup, ExitGroupFails
<1>2. CASE ExitGroupFails(w, g)
  <2>1. PICK r \in Worker : GoesOn(w, r) /\ r.failed = (worker[w].failed \/ TRUE)
    BY <1>1, <1>2, AfterGroupRecord DEF ExitGroupFails
  <2> QED BY <2>1 DEF Advances
<1>3. CASE ExitGroup(w, g)
  <2>1. PICK r \in Worker :
            /\ GoesOn(w, r) /\ r.todo = worker[w].todo \ {g} /\ r.failed = (worker[w].failed \/ FALSE)
            /\ r.pc = IF r.todo = {} THEN "pcheck" ELSE "gexit"
    BY <1>1, <1>3, AfterGroupRecord DEF ExitGroup
  <2>2. ASSUME ~Member(u), Done(worker[w], LeftGroups(u), projects[u])
        PROVE  Done(r, LeftGroups(u)', projects'[u])
    <3>1. /\ groups' = [groups EXCEPT ![u] = @ \ {g}] /\ late' = late \ {<<u, g>>}
      BY <1>3, <2>2 DEF ExitGroup, SeatStillOpen, Member
    <3>2. LeftGroups(u)' \subseteq LeftGroups(u) \ {g}
      BY <3>1 DEF LeftGroups, TypeInv, TypeOK
    <3>3. LeftGroups(u)' \subseteq r.todo
      BY <1>1, <2>1, <2>2, <3>2 DEF Done, At
    <3> QED BY <2>1, <3>3 DEF Done
  <2>3. r.failed \/ ~worker[w].failed
    BY <2>1, Fields DEF Worker
  <2> QED BY <2>1, <2>2, <2>3 DEF Advances
<1> QED BY <1>2, <1>3

LEMMA PageRecord ==
  ASSUME TypeInv, NEW w \in Workers, At(w, "plist"), NEW S \in SUBSET Projects, NEW b \in BOOLEAN,
         Set(w, [worker[w] EXCEPT !.pc = "pexit", !.todo = S, !.full = b, !.progressed = FALSE])
  PROVE  \E r \in Worker : GoesOn(w, r) /\ r.pc = "pexit" /\ r.todo = S /\ r.failed = worker[w].failed
<1> DEFINE r == [worker[w] EXCEPT !.pc = "pexit", !.todo = S, !.full = b, !.progressed = FALSE]
<1>1. worker[w] \in Worker /\ worker[w].page < MaxPages /\ ~At(w, "idle")
  BY Fields DEF WorkerSound, At
<1>2. /\ r \in Worker /\ r.pc = "pexit" /\ r.todo = S /\ r.failed = worker[w].failed
      /\ r.page = worker[w].page /\ r.job = worker[w].job /\ r.owner = worker[w].owner
  BY <1>1 DEF Worker
<1> HIDE DEF r
<1>3. GoesOn(w, r)
  BY <1>1, <1>2, Fields DEF GoesOn, WorkerSound, At, r
<1> QED BY <1>2, <1>3

\* The page of the cascade holds every project the user has a seat in, if one page can.
LEMMA ProjectListAdvances ==
  ASSUME TypeInv, NEW w \in Workers, NEW u \in Users, u = Uid(w), ProjectList(w)
  PROVE  \E r \in Worker : Advances(w, u, r)
<1> DEFINE open == projects[u]
           size == IF Cardinality(open) < PageSize THEN Cardinality(open) ELSE PageSize
<1>1. worker[w].pc = "plist" /\ ~At(w, "idle") /\ worker[w].page < MaxPages
  BY Fields DEF ProjectList, At, WorkerSound
<1>2. LeftGroups(u)' = LeftGroups(u) /\ projects'[u] = open
  BY SameRows DEF ProjectList, rowVars
<1>3. CASE FailTo(w, "end")
  BY <1>1, <1>3, FailToRecord DEF Advances
<1>4. CASE open = {} /\ Goto(w, "end")
  <2>1. PICK r \in Worker : GoesOn(w, r) /\ r.pc = "end" /\ r.failed = worker[w].failed
    BY <1>1, <1>4, GotoRecord
  <2> QED BY <1>1, <1>2, <1>4, <2>1 DEF Advances, Done
<1>5. ASSUME NEW S \in kSubset(size, open),
             Set(w, [worker[w] EXCEPT !.pc = "pexit", !.todo = S, !.full = (size = PageSize),
                                      !.progressed = FALSE])
      PROVE  \E r \in Worker : Advances(w, u, r)
  <2>0. PICK b \in BOOLEAN : b = (size = PageSize)
    <3>1. CASE size = PageSize
      BY <3>1
    <3>2. CASE size # PageSize
      BY <3>2
    <3> QED BY <3>1, <3>2
  <2>1. open \subseteq Projects /\ S \subseteq open /\ Cardinality(S) = size
    BY <1>5 DEF TypeInv, TypeOK, kSubset
  <2>2. PICK r \in Worker :
            GoesOn(w, r) /\ r.pc = "pexit" /\ r.todo = S /\ r.failed = worker[w].failed
    <3>1. Set(w, [worker[w] EXCEPT !.pc = "pexit", !.todo = S, !.full = b, !.progressed = FALSE])
      BY <1>5, <2>0
    <3>2. S \in SUBSET Projects /\ At(w, "plist")
      BY <1>1, <2>1 DEF At
    <3> QED BY <3>1, <3>2, PageRecord
  <2>4. ASSUME OnePage PROVE open = S
    <3>1. IsFiniteSet(open) /\ Cardinality(open) <= Cardinality(Projects)
      BY <2>1, Constants, FS_Subset
    <3>2. Cardinality(open) \in Nat /\ Cardinality(Projects) \in Nat
      BY <3>1, Constants, FS_CardinalityType
    <3>3. Cardinality(S) = Cardinality(open)
      BY <2>1, <2>4, <3>1, <3>2, Constants DEF OnePage
    <3> QED BY <2>1, <3>1, <3>3, FS_Subset
  <2>5. OnePage /\ Done(worker[w], LeftGroups(u), projects[u]) => Done(r, LeftGroups(u)', projects'[u])
    BY <1>1, <1>2, <2>2, <2>4 DEF Done
  <2> QED BY <2>2, <2>5 DEF Advances
<1> QED BY <1>3, <1>4, <1>5 DEF ProjectList

\* The fields a worker changes when it is done with a project of its page.
Turns(r, old, rest, failed, progressed, page, pc) ==
    /\ old \in Worker /\ rest \in SUBSET Projects /\ failed \in BOOLEAN
    /\ progressed \in BOOLEAN /\ page \in 0..MaxPages
    /\ pc \in {"pexit", "plist", "confirm", "end"}
    /\ r = [old EXCEPT !.todo = rest, !.failed = failed, !.progressed = progressed,
                       !.page = page, !.pc = pc]

LEMMA PageEdits ==
  ASSUME NEW r, NEW old, NEW rest, NEW failed, NEW progressed, NEW page, NEW pc,
         Turns(r, old, rest, failed, progressed, page, pc)
  PROVE  /\ r \in Worker /\ r.pc = pc /\ r.page = page /\ r.todo = rest
         /\ r.failed = failed /\ r.job = old.job /\ r.owner = old.owner
  BY DEF Worker, Turns

LEMMA AfterProjectRecord ==
  ASSUME TypeInv, NEW w \in Workers, At(w, "pexit"), NEW p \in Projects,
         NEW changed \in BOOLEAN, NEW f \in BOOLEAN, AfterProject(w, p, changed, f)
  PROVE  \E r \in Worker :
            /\ GoesOn(w, r) /\ r.todo = worker[w].todo \ {p} /\ r.failed = (worker[w].failed \/ f)
            /\ r.pc \in {"pexit", "plist", "confirm", "end"} /\ (r.pc = "pexit" <=> r.todo # {})
<1> DEFINE old == worker[w]
           rest == old.todo \ {p}
           progressed == old.progressed \/ changed
           failed == old.failed \/ f
           more == old.full /\ progressed
<1>1. old \in Worker /\ old.todo \subseteq Projects /\ old.page < MaxPages /\ ~At(w, "idle")
  BY Fields DEF WorkerSound, At
<1>2. /\ NextPage(old.page) \in {"plist", "confirm"}
      /\ NextPage(old.page) = "plist" => old.page + 1 < MaxPages
      /\ old.page \in 0..MaxPages /\ old.page + 1 \in 0..MaxPages
  BY <1>1, Constants DEF NextPage, Worker
<1>3. PICK pc \in {"pexit", "plist", "confirm", "end"} :
          pc = IF rest # {} THEN "pexit" ELSE IF more THEN NextPage(old.page) ELSE "end"
  BY <1>2
<1>4. PICK page \in 0..MaxPages : page = IF rest = {} THEN old.page + 1 ELSE old.page
  BY <1>2
<1> PICK r : Turns(r, old, rest, failed, progressed, page, pc)
  BY <1>1 DEF Turns
<1>5. /\ r \in Worker /\ r.pc = pc /\ r.page = page
      /\ r.todo = rest /\ r.failed = failed /\ r.job = old.job /\ r.owner = old.owner
  BY PageEdits
<1>6. Set(w, r)
  BY <1>3, <1>4 DEF AfterProject, Turns
<1>7. (pc = "pexit" <=> rest # {}) /\ (pc \in {"pexit", "plist"} => page < MaxPages)
  BY <1>1, <1>2, <1>3, <1>4
<1>8. GoesOn(w, r)
  BY <1>1, <1>5, <1>6, <1>7, Fields DEF GoesOn, WorkerSound, At
<1> QED BY <1>5, <1>7, <1>8

\* One project of the page, taken or failed.
LEMMA CloseProjectSeatAdvances ==
  ASSUME TypeInv, NEW w \in Workers, NEW u \in Users, u = Uid(w), NEW p \in Projects,
         CloseProjectSeat(w, p) \/ CloseProjectSeatFails(w, p)
  PROVE  \E r \in Worker : Advances(w, u, r)
<1>1. At(w, "pexit")
  BY DEF CloseProjectSeat, CloseProjectSeatFails
<1>2. CASE CloseProjectSeatFails(w, p)
  <2>1. PICK r \in Worker : GoesOn(w, r) /\ r.failed = (worker[w].failed \/ TRUE)
    BY <1>1, <1>2, AfterProjectRecord DEF CloseProjectSeatFails
  <2> QED BY <2>1 DEF Advances
<1>3. CASE CloseProjectSeat(w, p)
  <2>1. PICK changed \in BOOLEAN, f \in BOOLEAN : AfterProject(w, p, changed, f) /\ f = FALSE
    <3>1. CASE p \in projects[u]
      BY <1>3, <3>1 DEF CloseProjectSeat, AfterProject
    <3>2. CASE p \notin projects[u]
      BY <1>3, <3>2 DEF CloseProjectSeat, AfterProject
    <3> QED BY <3>1, <3>2
  <2>2. PICK r \in Worker :
            /\ GoesOn(w, r) /\ r.todo = worker[w].todo \ {p} /\ r.failed = (worker[w].failed \/ f)
            /\ r.pc \in {"pexit", "plist", "confirm", "end"} /\ (r.pc = "pexit" <=> r.todo # {})
    BY <1>1, <2>1, AfterProjectRecord
  <2>3. ASSUME ~Member(u), Done(worker[w], LeftGroups(u), projects[u])
        PROVE  Done(r, LeftGroups(u)', projects'[u])
    <3>1. projects' = [projects EXCEPT ![u] = @ \ {p}] /\ UNCHANGED <<groups, late>>
      BY <1>3, <2>3 DEF CloseProjectSeat, SeatStillOpen, Member
    <3>2. LeftGroups(u)' = {} /\ projects[u] \subseteq worker[w].todo
      BY <1>1, <2>3, <3>1 DEF Done, At, LeftGroups
    <3>3. projects'[u] = projects[u] \ {p}
      BY <3>1 DEF TypeInv, TypeOK
    <3>4. projects'[u] \subseteq r.todo
      BY <2>2, <3>2, <3>3
    <3>5. r.pc = "end" => projects'[u] = {}
      BY <2>2, <3>4
    <3> QED BY <2>2, <3>2, <3>4, <3>5 DEF Done
  <2>4. r.failed \/ ~worker[w].failed
    BY <2>2, Fields DEF Worker
  <2> QED BY <2>2, <2>3, <2>4 DEF Advances
<1> QED BY <1>2, <1>3

LEMMA ConfirmAdvances ==
  ASSUME TypeInv, NEW w \in Workers, NEW u \in Users, u = Uid(w), Confirm(w)
  PROVE  \E r \in Worker : Advances(w, u, r)
<1>1. worker[w].pc = "confirm" /\ ~At(w, "idle")
  BY DEF Confirm, At
<1>2. LeftGroups(u)' = LeftGroups(u) /\ projects'[u] = projects[u]
  BY SameRows DEF Confirm, rowVars
<1>3. CASE FailTo(w, "end")
  BY <1>1, <1>3, FailToRecord DEF Advances
<1>4. CASE projects[u] = {} /\ Goto(w, "end")
  <2>1. PICK r \in Worker : GoesOn(w, r) /\ r.pc = "end" /\ r.failed = worker[w].failed
    BY <1>1, <1>4, GotoRecord
  <2> QED BY <1>1, <1>2, <1>4, <2>1 DEF Advances, Done
<1> QED BY <1>3, <1>4 DEF Confirm

\* Every step of a worker but the last, for the user whose job it is.
LEMMA WorkerAdvances ==
  ASSUME TypeInv, NEW w \in Workers, WorkerStep(w), ~EndJob(w), ~EndJobFails(w)
  PROVE  /\ Uid(w) \in Users /\ worker[w].job \in Jobs /\ ~At(w, "idle")
         /\ \A u \in Users : u = Uid(w) => \E r \in Worker : Advances(w, u, r)
         /\ UNCHANGED <<doorVars, job, sweeping>>
         /\ \/ UNCHANGED rowVars
            \/ \E g \in Groups : ExitGroup(w, g)
            \/ \E p \in Projects : CloseProjectSeat(w, p)
<1>1. ~At(w, "idle")
  BY DEF WorkerStep, At, CheckSeat, GroupCheck, GroupList, ExitGroup, ExitGroupFails, ProjectCheck,
     ProjectList, CloseProjectSeat, CloseProjectSeatFails, Confirm
<1>2. ASSUME NEW u \in Users, u = Uid(w) PROVE \E r \in Worker : Advances(w, u, r)
  BY <1>2, CheckSeatAdvances, GatesAdvance, GroupListAdvances, ExitGroupAdvances,
     ProjectListAdvances, CloseProjectSeatAdvances, ConfirmAdvances DEF WorkerStep
<1>3. UNCHANGED <<doorVars, job, sweeping>>
  BY DEF WorkerStep, CheckSeat, GroupCheck, GroupList, ExitGroup, ExitGroupFails, ProjectCheck,
     ProjectList, CloseProjectSeat, CloseProjectSeatFails, Confirm
<1>4. \/ UNCHANGED rowVars
      \/ \E g \in Groups : ExitGroup(w, g)
      \/ \E p \in Projects : CloseProjectSeat(w, p)
  BY DEF WorkerStep, CheckSeat, GroupCheck, GroupList, ExitGroupFails, ProjectCheck,
     ProjectList, CloseProjectSeatFails, Confirm
<1> QED BY <1>1, <1>2, <1>3, <1>4, Fields

-----------------------------------------------------------------------------
(* The job rows. *)

\* A user's jobs are numbered without gaps; an owner is the count of its own claim; only a
\* job that was given up has used its budget; and what a worker or the sweep remembers of a
\* job is no more than the row has.
Counted ==
    /\ \A u \in Users : \E k \in 0..MaxRemovals : Removals(u) = 1..k
    /\ \A j \in Jobs : job[j].owner # 0 => job[j].owner = job[j].attempts
    /\ AbandonedMeansExhausted
    /\ \A j \in sweeping : job[j].attempts = MaxAttempts /\ job[j].status # None
    /\ \A w \in Workers : worker[w].pc # "idle" =>
          job[worker[w].job].status # None /\ worker[w].owner <= job[worker[w].job].attempts

\* What a step may do to a row of the job table.
RowMoves(j) ==
    /\ job[j].status # None => job'[j].status # None /\ job'[j].attempts >= job[j].attempts
    /\ job[j].status \in {"done", "abandoned"} => job'[j].status = job[j].status
    /\ job'[j].owner # 0 => job'[j].owner = job'[j].attempts
    /\ job'[j].status = "abandoned" => job'[j].attempts = MaxAttempts
    /\ job[j].status = "pending" /\ job'[j].status = "done" =>
          \E w \in Workers : worker[w].job = j /\ At(w, "end") /\ ~worker[w].failed
    /\ job[j].status = None => job'[j].status \in {None, "pending"}
JobsMove == job' \in [Jobs -> Job] /\ \A j \in Jobs : RowMoves(j)

NoNewJob == \A j \in Jobs : job[j].status = None => job'[j].status = None

LEMMA SameJobs ==
  ASSUME TypeInv, Counted, UNCHANGED job
  PROVE  JobsMove /\ NoNewJob
  BY DEF TypeInv, TypeOK, Counted, JobsMove, RowMoves, NoNewJob, AbandonedMeansExhausted, Job

\* One row.
LEMMA OneRowMoves ==
  ASSUME TypeInv, Counted, NEW i \in Jobs, NEW row \in Job, job' = [job EXCEPT ![i] = row],
         job[i].status # None, row.status # None, row.attempts >= job[i].attempts,
         job[i].status \in {"done", "abandoned"} => row.status = job[i].status,
         row.owner # 0 => row.owner = row.attempts,
         row.status = "abandoned" => row.attempts = MaxAttempts,
         job[i].status = "pending" /\ row.status = "done" =>
            \E w \in Workers : worker[w].job = i /\ At(w, "end") /\ ~worker[w].failed
  PROVE  JobsMove /\ NoNewJob
<1>1. job \in [Jobs -> Job] /\ job' \in [Jobs -> Job] /\ job'[i] = row
      /\ \A j \in Jobs : j # i => job'[j] = job[j]
  BY DEF TypeInv, TypeOK
<1>2. RowMoves(i) /\ (job[i].status = None => job'[i].status = None)
  BY <1>1 DEF RowMoves
<1>3. ASSUME NEW j \in Jobs, j # i PROVE RowMoves(j) /\ (job[j].status = None => job'[j].status = None)
  BY <1>1, <1>3 DEF RowMoves, Counted, AbandonedMeansExhausted, Job
<1> QED BY <1>1, <1>2, <1>3 DEF JobsMove, NoNewJob

LEMMA IdleSound == Idle \in Worker /\ WorkerSound(Idle) /\ Idle.pc = "idle" /\ Idle.page = 0
<1>1. 0 \in 0..MaxAttempts /\ 0 \in 0..MaxPages /\ 0 < MaxPages
  BY Constants
<1> QED BY <1>1 DEF Idle, Worker, WorkerSound

LEMMA ClaimMoves ==
  ASSUME TypeInv, Counted, NEW w \in Workers, NEW i \in Jobs, Claim(w, i)
  PROVE  /\ JobsMove /\ NoNewJob
         /\ \E r \in Worker : /\ WorkerSound(r) /\ Set(w, r) /\ r.pc = "check" /\ r.job = i
                              /\ r.owner = job'[i].attempts
<1>1. /\ job[i] \in Job /\ job[i].status = "pending" /\ job[i].attempts \in 0..MaxAttempts
      /\ job[i].attempts < MaxAttempts
  BY DEF Claim, Claimable, TypeInv, TypeOK, Job
<1>2. PICK n \in 1..MaxAttempts : n = job[i].attempts + 1
  BY <1>1, Constants
<1> DEFINE row == [job[i] EXCEPT !.attempts = n, !.lease = "live", !.owner = n]
           r == [Idle EXCEPT !.pc = "check", !.job = i, !.owner = n]
<1>a. n \in 0..MaxAttempts
  BY Constants
<1>3. /\ row \in Job /\ row.status = "pending" /\ row.attempts = n /\ row.owner = n
  BY <1>1, <1>a DEF Job
<1>4. job' = [job EXCEPT ![i] = row]
  BY <1>1, <1>2 DEF Claim, ClaimedAttempts, TypeInv, TypeOK, Job
<1>5. Set(w, r)
  BY <1>2 DEF Claim, ClaimedAttempts, Set
<1>6. /\ r \in Worker /\ r.pc = "check" /\ r.job = i /\ r.owner = n /\ r.page = 0
  BY <1>a, IdleSound DEF Worker
<1> HIDE DEF row, r
<1>7. WorkerSound(r)
  BY <1>6, Constants DEF WorkerSound
<1>8. job'[i].attempts = n
  BY <1>3, <1>4 DEF TypeInv, TypeOK
<1>9. JobsMove /\ NoNewJob
  <2>1. row.attempts >= job[i].attempts
    BY <1>1, <1>2, <1>3, Constants
  <2>2. /\ row.status # None /\ job[i].status # None
        /\ job[i].status \notin {"done", "abandoned"} /\ row.status \notin {"done", "abandoned"}
    BY <1>1, <1>3 DEF None
  <2> QED BY <1>3, <1>4, <2>1, <2>2, OneRowMoves
<1> QED BY <1>5, <1>6, <1>7, <1>8, <1>9

\* Rows that a verdict or the sweep writes, and those of a release.
LEMMA VerdictRow ==
  ASSUME NEW q \in Job, NEW s \in {"done", "abandoned"}
  PROVE  LET row == [q EXCEPT !.status = s, !.lease = None, !.owner = 0] IN
         /\ row \in Job /\ row.status = s /\ row.owner = 0 /\ row.attempts = q.attempts
         /\ q.attempts >= q.attempts
<1>1. 0 \in 0..MaxAttempts /\ \A n \in 0..MaxAttempts : n >= n
  BY Constants
<1> QED BY <1>1 DEF Job, None

LEMMA ReleasedRow ==
  ASSUME NEW q \in Job
  PROVE  LET row == [q EXCEPT !.due = FALSE, !.lease = None, !.owner = 0] IN
         /\ row \in Job /\ row.status = q.status /\ row.owner = 0 /\ row.attempts = q.attempts
         /\ q.attempts >= q.attempts
<1>1. 0 \in 0..MaxAttempts /\ \A n \in 0..MaxAttempts : n >= n
  BY Constants
<1> QED BY <1>1 DEF Job, None

\* A worker's verdict on its job.
LEMMA FinishMoves ==
  ASSUME TypeInv, Counted, NEW w \in Workers, At(w, "end"),
         NEW s \in {"done", "abandoned"}, FinishRow(w, s),
         s = "done" => ~worker[w].failed, s = "abandoned" => RetriesExhausted(w)
  PROVE  JobsMove /\ NoNewJob
<1> DEFINE i == worker[w].job
           row == [job[i] EXCEPT !.status = s, !.lease = None, !.owner = 0]
<1>1. /\ i \in Jobs /\ worker[w].owner \in 1..MaxAttempts /\ job[i] \in Job
  BY Fields DEF At, TypeInv, TypeOK
<1>2. CASE ~Owned(w)
  BY <1>2, SameJobs DEF FinishRow
<1>3. CASE Owned(w)
  <2>1. job' = [job EXCEPT ![i] = row]
    BY <1>1, <1>3 DEF FinishRow, TypeInv, TypeOK, Job
  <2>2. /\ row \in Job /\ row.status = s /\ row.owner = 0 /\ row.attempts = job[i].attempts
    BY <1>1, VerdictRow
  <2>3. job[i].status = "pending" /\ job[i].owner = worker[w].owner
    BY <1>3 DEF Owned
  <2>4. s = "abandoned" => job[i].attempts = MaxAttempts
    BY <1>1, <2>3, Constants DEF Counted, RetriesExhausted, Job
  <2>5. job[i].attempts >= job[i].attempts
    BY <1>1, Constants DEF Job
  <2>6. i = worker[w].job
    OBVIOUS
  <2> HIDE DEF row, i
  <2>7. row.status # None /\ job[i].status # None /\ job[i].status \notin {"done", "abandoned"}
    BY <2>2, <2>3 DEF None
  <2>8. row.status = "done" => \E v \in Workers : worker[v].job = i /\ At(v, "end") /\ ~worker[v].failed
    BY <2>2, <2>6
  <2> QED BY <1>1, <2>1, <2>2, <2>4, <2>5, <2>7, <2>8, OneRowMoves
<1> QED BY <1>2, <1>3

LEMMA ReleaseMoves ==
  ASSUME TypeInv, Counted, NEW w \in Workers, At(w, "end"), ReleaseRow(w)
  PROVE  JobsMove /\ NoNewJob
<1> DEFINE i == worker[w].job
           row == [job[i] EXCEPT !.due = FALSE, !.lease = None, !.owner = 0]
<1>1. /\ i \in Jobs /\ job[i] \in Job
  BY Fields DEF At, TypeInv, TypeOK
<1>2. CASE ~Owned(w)
  BY <1>2, SameJobs DEF ReleaseRow
<1>3. CASE Owned(w)
  <2>1. job' = [job EXCEPT ![i] = row]
    BY <1>1, <1>3 DEF ReleaseRow, TypeInv, TypeOK, Job
  <2>2. /\ row \in Job /\ row.status = job[i].status /\ row.owner = 0
        /\ row.attempts = job[i].attempts
    BY <1>1, ReleasedRow
  <2>3. job[i].status = "pending"
    BY <1>3 DEF Owned
  <2>5. job[i].attempts >= job[i].attempts
    BY <1>1, Constants DEF Job
  <2> HIDE DEF row, i
  <2>7. row.status # None /\ row.status \notin {"done", "abandoned"}
    BY <2>2, <2>3 DEF None
  <2> QED BY <1>1, <2>1, <2>2, <2>3, <2>5, <2>7, OneRowMoves
<1> QED BY <1>2, <1>3

LEMMA EndJobMoves ==
  ASSUME TypeInv, Counted, NEW w \in Workers, EndJob(w)
  PROVE  JobsMove /\ NoNewJob
<1>1. CASE ~worker[w].failed /\ FinishRow(w, "done")
  BY <1>1, FinishMoves DEF EndJob, At
<1>2. CASE RetriesExhausted(w) /\ FinishRow(w, "abandoned")
  BY <1>2, FinishMoves DEF EndJob, At
<1>3. CASE ReleaseRow(w)
  BY <1>3, ReleaseMoves DEF EndJob, At
<1> QED BY <1>1, <1>2, <1>3 DEF EndJob

\* The sweep, over what is still pending of the ids it selected.
LEMMA SweepUpdateMoves ==
  ASSUME TypeInv, Counted, SweepUpdate
  PROVE  JobsMove /\ NoNewJob
<1> DEFINE S == {j \in sweeping : job[j].status = "pending"}
<1>1. ASSUME NEW j \in Jobs
      PROVE  /\ job'[j] = IF j \in S THEN [job[j] EXCEPT !.status = "abandoned", !.lease = None, !.owner = 0]
                          ELSE job[j]
             /\ job[j] \in Job
  BY DEF SweepUpdate, Abandon, TypeInv, TypeOK
<1>2. \A j \in S : job[j].status = "pending" /\ job[j].attempts = MaxAttempts
  BY DEF Counted
<1>3. job' \in [Jobs -> Job]
  <2>1. \A j \in Jobs : job'[j] \in Job
    <3>1. ASSUME NEW j \in Jobs, j \in S PROVE job'[j] \in Job
      <4> DEFINE row == [job[j] EXCEPT !.status = "abandoned", !.lease = None, !.owner = 0]
      <4>1. job'[j] = row /\ job[j] \in Job
        BY <1>1, <3>1
      <4>2. row \in Job
        BY <4>1, VerdictRow
      <4> HIDE DEF row
      <4> QED BY <4>1, <4>2
    <3>2. ASSUME NEW j \in Jobs, j \notin S PROVE job'[j] \in Job
      BY <1>1, <3>2
    <3> QED BY <3>1, <3>2
  <2> QED BY <2>1 DEF SweepUpdate, Abandon
<1>4. ASSUME NEW j \in Jobs
      PROVE  RowMoves(j) /\ (job[j].status = None => job'[j].status = None)
  <2>1. CASE j \in S
    <3> DEFINE row == job'[j]
    <3>1. row.status = "abandoned" /\ row.owner = 0 /\ row.attempts = MaxAttempts
          /\ job[j].status = "pending" /\ job[j].attempts = MaxAttempts
      BY <1>1, <1>2, <2>1 DEF Job
    <3> QED BY <3>1, Constants DEF RowMoves, None
  <2>2. CASE j \notin S
    <3>1. job'[j] = job[j] /\ job[j] \in Job
      BY <1>1, <2>2
    <3>3. job[j].attempts >= job[j].attempts
      BY <3>1, VerdictRow
    <3> HIDE DEF S
    <3> QED BY <3>1, <3>3 DEF RowMoves, Counted, AbandonedMeansExhausted, Job
  <2> QED BY <2>1, <2>2
<1> QED BY <1>3, <1>4 DEF JobsMove, NoNewJob

\* Time.
LEMMA TimeMoves ==
  ASSUME TypeInv, Counted, NEW i \in Jobs, Age(i) \/ ComeDue(i)
  PROVE  JobsMove /\ NoNewJob
<1>1. job[i] \in Job /\ job[i].attempts >= job[i].attempts
  BY Constants DEF TypeInv, TypeOK, Job
<1>2. PICK row \in Job : /\ job' = [job EXCEPT ![i] = row] /\ row.status = job[i].status
                         /\ row.owner = job[i].owner /\ row.attempts = job[i].attempts
  <2>1. CASE Age(i)
    <3> DEFINE l == IF job[i].lease = "live" THEN "expired" ELSE "dead"
               row == [job[i] EXCEPT !.lease = l]
    <3>1. job' = [job EXCEPT ![i] = row]
      BY <1>1, <2>1 DEF Age, TypeInv, TypeOK, Job
    <3>2. row \in Job /\ row.status = job[i].status /\ row.owner = job[i].owner
          /\ row.attempts = job[i].attempts
      BY <1>1 DEF Job
    <3> QED BY <3>1, <3>2
  <2>2. CASE ComeDue(i)
    <3> DEFINE row == [job[i] EXCEPT !.due = TRUE]
    <3>1. job' = [job EXCEPT ![i] = row]
      BY <1>1, <2>2 DEF ComeDue, TypeInv, TypeOK, Job
    <3>2. row \in Job /\ row.status = job[i].status /\ row.owner = job[i].owner
          /\ row.attempts = job[i].attempts
      BY <1>1 DEF Job
    <3> QED BY <3>1, <3>2
  <2> QED BY <2>1, <2>2
<1>3. CASE job[i].status # None
  <2>1. /\ row.owner # 0 => row.owner = row.attempts
        /\ row.status = "abandoned" => row.attempts = MaxAttempts
    BY <1>2 DEF Counted, AbandonedMeansExhausted
  <2>2. ~(job[i].status = "pending" /\ row.status = "done")
    BY <1>2
  <2> QED BY <1>1, <1>2, <1>3, <2>1, <2>2, OneRowMoves
<1>4. CASE job[i].status = None
  BY <1>1, <1>2, <1>4 DEF JobsMove, RowMoves, NoNewJob, TypeInv, TypeOK, Counted,
     AbandonedMeansExhausted, Job, None
<1> QED BY <1>3, <1>4

\* The row of a removal just made.
NewRow == [NoJob EXCEPT !.status = "pending", !.due = TRUE]

LEMMA NewRowSound ==
  NewRow \in Job /\ NewRow.status = "pending" /\ NewRow.attempts = 0 /\ NewRow.owner = 0
<1>1. 0 \in 0..MaxAttempts
  BY Constants
<1> QED BY <1>1 DEF NewRow, NoJob, Job, None

\* Closing the seats of S writes, for each of them, the row after the last one.
LEMMA Enqueued ==
  ASSUME TypeInv, Counted, NEW S \in SUBSET Users, CanRemove(S), Enqueue(S),
         NEW u \in Users, NEW k \in 0..MaxRemovals, Removals(u) = 1..k
  PROVE  /\ u \in S => /\ k + 1 \in 1..MaxRemovals /\ job'[<<u, k + 1>>] = NewRow
                       /\ job[<<u, k + 1>>].status = None
         /\ \A n \in 1..MaxRemovals : u \notin S \/ n # k + 1 => job'[<<u, n>>] = job[<<u, n>>]
<1>1. Cardinality(Removals(u)) = k
  <2>1. Cardinality(1..k) = k
    BY FS_Interval, Constants
  <2> QED BY <2>1
<1>2. u \in S => k < MaxRemovals
  BY <1>1 DEF CanRemove
<1>3. u \in S => k + 1 \in 1..MaxRemovals
  BY <1>2, Constants
<1>4. ASSUME NEW n \in 1..MaxRemovals
      PROVE  job'[<<u, n>>] = IF u \in S /\ n = k + 1 THEN NewRow ELSE job[<<u, n>>]
  <2>1. <<u, n>> \in Jobs /\ <<u, n>>[1] = u /\ <<u, n>>[2] = n
    BY DEF Jobs
  <2> QED BY <1>1, <2>1 DEF Enqueue, NewRow
<1>5. u \in S => job[<<u, k + 1>>].status = None
  <2>1. k + 1 \notin 1..k
    BY Constants
  <2> QED BY <1>3, <2>1 DEF Removals
<1> QED BY <1>3, <1>4, <1>5

\* The job of the last removal of u.
Latest(u, n) ==
    /\ n \in 1..MaxRemovals /\ job[<<u, n>>].status # None
    /\ \A m \in (n + 1)..MaxRemovals : job[<<u, m>>].status = None

LEMMA EnqueueMoves ==
  ASSUME TypeInv, Counted, NEW S \in SUBSET Users, CanRemove(S), Enqueue(S)
  PROVE  /\ JobsMove
         /\ \A u \in Users : \E k \in 0..MaxRemovals : Removals(u)' = 1..k
         /\ \A u \in Users \ S, n \in 1..MaxRemovals : job'[<<u, n>>] = job[<<u, n>>]
         /\ \A u \in S : \E n \in 1..MaxRemovals :
               Latest(u, n)' /\ job'[<<u, n>>].status = "pending" /\ job[<<u, n>>].status = None
<1>1. ASSUME NEW u \in Users PROVE \E k \in 0..MaxRemovals : Removals(u) = 1..k
  BY DEF Counted
<1>2. ASSUME NEW j \in Jobs PROVE job'[j] = job[j] \/ (job'[j] = NewRow /\ job[j].status = None)
  <2>1. PICK u \in Users, n \in 1..MaxRemovals : j = <<u, n>>
    BY DEF Jobs
  <2>2. PICK k \in 0..MaxRemovals : Removals(u) = 1..k
    BY <1>1
  <2> QED BY <2>1, <2>2, Enqueued
<1>3. JobsMove
  <2>1. ASSUME NEW j \in Jobs PROVE job'[j] \in Job /\ RowMoves(j)
    <3>1. job[j] \in Job
      BY DEF TypeInv, TypeOK
    <3>2. CASE job'[j] = job[j]
      <4>1. job[j].attempts >= job[j].attempts
        BY <3>1, VerdictRow
      <4>2. /\ job[j].status = "abandoned" => job[j].attempts = MaxAttempts
            /\ job[j].owner # 0 => job[j].owner = job[j].attempts
        BY DEF Counted, AbandonedMeansExhausted
      <4> QED BY <3>1, <3>2, <4>1, <4>2 DEF RowMoves
    <3>3. CASE job'[j] = NewRow /\ job[j].status = None
      BY <3>3, NewRowSound DEF RowMoves, None
    <3> QED BY <1>2, <3>2, <3>3
  <2>2. job' \in [Jobs -> Job]
    BY <2>1 DEF Enqueue
  <2> QED BY <2>1, <2>2 DEF JobsMove
<1>4. ASSUME NEW u \in Users PROVE \E k \in 0..MaxRemovals : Removals(u)' = 1..k
  <2>1. PICK k \in 0..MaxRemovals : Removals(u) = 1..k
    BY <1>1
  <2>2. \A n \in 1..MaxRemovals : job[<<u, n>>].status # None <=> n \in 1..k
    BY <2>1 DEF Removals
  <2>3. Removals(u)' = {n \in 1..MaxRemovals : job'[<<u, n>>].status # None}
    BY DEF Removals
  <2>4. CASE u \notin S
    <3>0. \A n \in 1..MaxRemovals : job'[<<u, n>>] = job[<<u, n>>]
      BY <2>1, <2>4, Enqueued
    <3>1. \A n \in 1..MaxRemovals : job'[<<u, n>>].status # None <=> n \in 1..k
      BY <2>2, <3>0, Zenon
    <3>2. Removals(u)' = 1..k
      BY <2>3, <3>1, Constants
    <3> QED BY <3>2
  <2>5. CASE u \in S
    <3>1. k + 1 \in 1..MaxRemovals /\ job'[<<u, k + 1>>] = NewRow
      BY <2>1, <2>5, Enqueued
    <3>0. \A n \in 1..MaxRemovals : n # k + 1 => job'[<<u, n>>] = job[<<u, n>>]
      BY <2>1, Enqueued
    <3>2. \A n \in 1..MaxRemovals : n # k + 1 => (job'[<<u, n>>].status # None <=> n \in 1..k)
      BY <2>2, <3>0, Zenon
    <3>3. \A n \in 1..MaxRemovals : job'[<<u, n>>].status # None <=> n \in 1..(k + 1)
      BY <3>1, <3>2, NewRowSound, Constants DEF None
    <3>4. Removals(u)' = 1..(k + 1)
      BY <2>3, <3>1, <3>3, Constants
    <3>5. k + 1 \in 0..MaxRemovals
      BY <3>1, Constants
    <3> QED BY <3>4, <3>5
  <2> QED BY <2>4, <2>5
<1>5. ASSUME NEW u \in Users \ S, NEW n \in 1..MaxRemovals PROVE job'[<<u, n>>] = job[<<u, n>>]
  BY <1>1, <1>5, Enqueued
<1>6. ASSUME NEW u \in S
      PROVE  \E n \in 1..MaxRemovals :
               Latest(u, n)' /\ job'[<<u, n>>].status = "pending" /\ job[<<u, n>>].status = None
  <2>1. PICK k \in 0..MaxRemovals : Removals(u) = 1..k
    BY <1>1
  <2>2. /\ k + 1 \in 1..MaxRemovals /\ job'[<<u, k + 1>>] = NewRow
        /\ job[<<u, k + 1>>].status = None
    BY <1>6, <2>1, Enqueued
  <2>3. ASSUME NEW m \in (k + 2)..MaxRemovals PROVE job'[<<u, m>>].status = None
    <3>1. m \in 1..MaxRemovals /\ m # k + 1 /\ m \notin 1..k
      BY Constants
    <3>2. job'[<<u, m>>] = job[<<u, m>>]
      BY <1>6, <2>1, <3>1, Enqueued
    <3> QED BY <2>1, <3>1, <3>2 DEF Removals
  <2>4. (k + 1) + 1 = k + 2
    BY Constants
  <2>5. Latest(u, k + 1)'
    BY <2>2, <2>3, <2>4, NewRowSound DEF Latest, None
  <2> QED BY <2>2, <2>5, NewRowSound
<1> QED BY <1>3, <1>4, <1>5, <1>6

-----------------------------------------------------------------------------
(* Types, and the invariants of the job table. *)

DoorTypesOK ==
    /\ space \in {"live", "banned", "disbanded"} /\ seat \in [Users -> BOOLEAN]
    /\ groups \in [Users -> SUBSET Groups] /\ projects \in [Users -> SUBSET Projects]
    /\ joining \subseteq Users /\ admitting \subseteq Users \X Groups
    /\ setting \in {None, "live", "banned"} /\ late \subseteq Users \X Groups

\* The doors write no worker, and only the closing of seats writes the job table.
LEMMA DoorTypes ==
  ASSUME TypeInv, Doors
  PROVE  /\ DoorTypesOK' /\ UNCHANGED <<sweeping, worker>>
         /\ UNCHANGED job \/ \E S \in SUBSET Users : CanRemove(S) /\ Enqueue(S)
<1>0. DoorTypesOK
  BY DEF DoorTypesOK, TypeInv, TypeOK
<1>1. ASSUME NEW u \in Users, CloseSeat(u)
      PROVE  DoorTypesOK' /\ UNCHANGED <<sweeping, worker>> /\ CanRemove({u}) /\ Enqueue({u})
  BY <1>0, <1>1 DEF CloseSeat, DoorTypesOK, rowVars
<1>2. ASSUME NEW u \in Users, BeginJoin(u) \/ CommitJoin(u)
      PROVE  DoorTypesOK' /\ UNCHANGED <<sweeping, worker, job>>
  BY <1>0, <1>2 DEF BeginJoin, CommitJoin, DoorTypesOK, rowVars
<1>3. ASSUME Disband
      PROVE  /\ DoorTypesOK' /\ UNCHANGED <<sweeping, worker>>
             /\ CanRemove({u \in Users : seat[u]}) /\ Enqueue({u \in Users : seat[u]})
  BY <1>0, <1>3 DEF Disband, DoorTypesOK, rowVars
<1>4. ASSUME UpdateSpaceStatus \/ \E s \in {"live", "banned"} : BeginLiftBan(s)
      PROVE  DoorTypesOK' /\ UNCHANGED <<sweeping, worker, job>>
  BY <1>0, <1>4 DEF UpdateSpaceStatus, BeginLiftBan, DoorTypesOK, rowVars, None
<1>5. ASSUME NEW u \in Users, NEW g \in Groups, BeginAdmit(u, g)
      PROVE  DoorTypesOK' /\ UNCHANGED <<sweeping, worker, job>>
  BY <1>0, <1>5 DEF BeginAdmit, DoorTypesOK, rowVars
<1>6. ASSUME NEW u \in Users, NEW g \in Groups, CommitAdmit(u, g)
      PROVE  DoorTypesOK' /\ UNCHANGED <<sweeping, worker, job>>
  BY <1>0, <1>6 DEF CommitAdmit, DoorTypesOK, rowVars
<1>7. ASSUME NEW u \in Users, NEW p \in Projects, AdmitToProject(u, p)
      PROVE  DoorTypesOK' /\ UNCHANGED <<sweeping, worker, job>>
  BY <1>0, <1>7 DEF AdmitToProject, DoorTypesOK, doorVars
<1> QED BY <1>1, <1>2, <1>3, <1>4, <1>5, <1>6, <1>7 DEF Doors

\* How the records of the workers change: one of them ends, claims or goes on.
Ends(w) == Set(w, Idle)
Claims(w, i) ==
    \E r \in Worker : /\ WorkerSound(r) /\ Set(w, r) /\ r.pc = "check" /\ r.job = i
                      /\ r.owner = job'[i].attempts /\ job[i].status # None
Proceeds(w) == worker[w].pc # "idle" /\ \E r \in Worker : GoesOn(w, r)

WorkersMove ==
    \/ UNCHANGED worker
    \/ \E w \in Workers : Ends(w) \/ (\E i \in Jobs : Claims(w, i)) \/ Proceeds(w)

\* Every step, as the job table and the workers see it.
LEMMA NextMoves ==
  ASSUME TypeInv, Counted, [Next]_vars
  PROVE  /\ JobsMove /\ WorkersMove
         /\ NoNewJob \/ \E S \in SUBSET Users : CanRemove(S) /\ Enqueue(S)
<1>1. CASE UNCHANGED vars
  BY <1>1, SameJobs DEF vars, WorkersMove
<1>2. CASE Doors
  BY <1>2, DoorTypes, SameJobs, EnqueueMoves DEF WorkersMove
<1>3. CASE ClaimAny
  <2>1. PICK w \in Workers, i \in Jobs : Claim(w, i)
    BY <1>3 DEF ClaimAny
  <2>2. job[i].status # None
    BY <2>1 DEF Claim, Claimable, None
  <2>3. Claims(w, i)
    BY <2>1, <2>2, ClaimMoves DEF Claims
  <2> QED BY <2>1, <2>3, ClaimMoves DEF WorkersMove
<1>4. CASE SweepSelect
  BY <1>4, SameJobs DEF SweepSelect, WorkersMove
<1>5. CASE SweepUpdate
  BY <1>5, SweepUpdateMoves DEF SweepUpdate, WorkersMove
<1>6. ASSUME NEW w \in Workers, EndJob(w) \/ EndJobFails(w) \/ Crash(w)
      PROVE  JobsMove /\ WorkersMove /\ NoNewJob
  <2>1. JobsMove /\ NoNewJob
    BY <1>6, EndJobMoves, SameJobs DEF EndJobFails, Crash
  <2>2. Ends(w)
    BY <1>6 DEF EndJob, EndJobFails, Crash, Ends, Set
  <2> QED BY <2>1, <2>2 DEF WorkersMove
<1>7. ASSUME NEW w \in Workers, WorkerStep(w), ~EndJob(w), ~EndJobFails(w)
      PROVE  JobsMove /\ WorkersMove /\ NoNewJob
  <2>1. JobsMove /\ NoNewJob
    BY <1>7, WorkerAdvances, SameJobs
  <2>2. Proceeds(w)
    <3>1. PICK u \in Users : u = Uid(w)
      BY <1>7, WorkerAdvances
    <3>2. PICK r \in Worker : Advances(w, u, r)
      BY <1>7, <3>1, WorkerAdvances
    <3>3. worker[w].pc # "idle"
      BY <1>7, WorkerAdvances DEF At
    <3> QED BY <3>2, <3>3 DEF Proceeds, Advances
  <2> QED BY <2>1, <2>2 DEF WorkersMove
<1>8. ASSUME NEW i \in Jobs, Age(i) \/ ComeDue(i)
      PROVE  JobsMove /\ WorkersMove /\ NoNewJob
  BY <1>8, TimeMoves DEF Age, ComeDue, WorkersMove
<1> QED BY <1>1, <1>2, <1>3, <1>4, <1>5, <1>6, <1>7, <1>8 DEF Next, Sweep

LEMMA WorkersMoveTypes ==
  ASSUME TypeInv, WorkersMove
  PROVE  worker' \in [Workers -> Worker] /\ \A w \in Workers : WorkerSound(worker'[w])
<1>1. CASE UNCHANGED worker
  BY <1>1 DEF TypeInv, TypeOK
<1>2. ASSUME NEW w \in Workers, NEW r \in Worker, WorkerSound(r), Set(w, r)
      PROVE  worker' \in [Workers -> Worker] /\ \A v \in Workers : WorkerSound(worker'[v])
  BY <1>2, SetTypes
<1>3. ASSUME NEW w \in Workers, Ends(w)
      PROVE  worker' \in [Workers -> Worker] /\ \A v \in Workers : WorkerSound(worker'[v])
  BY <1>2, <1>3, IdleSound DEF Ends
<1>4. ASSUME NEW w \in Workers, NEW i \in Jobs, Claims(w, i)
      PROVE  worker' \in [Workers -> Worker] /\ \A v \in Workers : WorkerSound(worker'[v])
  BY <1>2, <1>4 DEF Claims
<1>5. ASSUME NEW w \in Workers, Proceeds(w)
      PROVE  worker' \in [Workers -> Worker] /\ \A v \in Workers : WorkerSound(worker'[v])
  BY <1>2, <1>5 DEF Proceeds, GoesOn
<1> QED BY <1>1, <1>3, <1>4, <1>5 DEF WorkersMove

LEMMA NextTypes ==
  ASSUME TypeInv, Counted, [Next]_vars
  PROVE  TypeInv'
<1>1. /\ job' \in [Jobs -> Job] /\ worker' \in [Workers -> Worker]
      /\ \A w \in Workers : WorkerSound(worker'[w])
  BY NextMoves, WorkersMoveTypes DEF JobsMove
<1>0. DoorTypesOK /\ sweeping \subseteq Jobs
  BY DEF TypeInv, TypeOK, DoorTypesOK
<1>2. DoorTypesOK' /\ sweeping' \subseteq Jobs
  <2>1. CASE UNCHANGED vars
    BY <1>0, <2>1 DEF vars, doorVars, rowVars, DoorTypesOK
  <2>2. CASE Doors
    BY <1>0, <2>2, DoorTypes
  <2>3. ASSUME NEW w \in Workers, NEW i \in Jobs, Claim(w, i)
        PROVE  DoorTypesOK' /\ sweeping' \subseteq Jobs
    BY <1>0, <2>3 DEF Claim, doorVars, rowVars, DoorTypesOK
  <2>4. CASE Sweep
    BY <1>0, <2>4 DEF Sweep, SweepSelect, SweepUpdate, doorVars, rowVars, DoorTypesOK
  <2>5. ASSUME NEW w \in Workers, WorkerStep(w), ~EndJob(w), ~EndJobFails(w)
        PROVE  DoorTypesOK' /\ sweeping' \subseteq Jobs
    <3>1. Uid(w) \in Users /\ UNCHANGED <<doorVars, job, sweeping>>
      BY <2>5, WorkerAdvances
    <3>2. CASE UNCHANGED rowVars
      BY <1>0, <3>1, <3>2 DEF doorVars, rowVars, DoorTypesOK
    <3>3. ASSUME NEW g \in Groups, ExitGroup(w, g) PROVE DoorTypesOK'
      BY <1>0, <3>1, <3>3 DEF ExitGroup, doorVars, rowVars, DoorTypesOK
    <3>4. ASSUME NEW p \in Projects, CloseProjectSeat(w, p) PROVE DoorTypesOK'
      <4>1. projects' = projects \/ projects' = [projects EXCEPT ![Uid(w)] = @ \ {p}]
        BY <3>4 DEF CloseProjectSeat
      <4>2. projects' \in [Users -> SUBSET Projects]
        BY <1>0, <3>1, <4>1 DEF DoorTypesOK
      <4>3. UNCHANGED <<space, seat, groups, joining, admitting, setting, late>>
        BY <3>1, <3>4 DEF CloseProjectSeat, doorVars
      <4> QED BY <1>0, <4>2, <4>3 DEF DoorTypesOK
    <3> QED BY <1>0, <2>5, <3>1, <3>2, <3>3, <3>4, WorkerAdvances
  <2>6. ASSUME NEW i \in Jobs, Age(i) \/ ComeDue(i)
        PROVE  DoorTypesOK' /\ sweeping' \subseteq Jobs
    BY <1>0, <2>6 DEF Age, ComeDue, doorVars, rowVars, DoorTypesOK
  <2>7. ASSUME NEW w \in Workers, EndJob(w) \/ EndJobFails(w) \/ Crash(w)
        PROVE  DoorTypesOK' /\ sweeping' \subseteq Jobs
    BY <1>0, <2>7 DEF EndJob, EndJobFails, Crash, doorVars, rowVars, DoorTypesOK
  <2> QED BY <2>1, <2>2, <2>3, <2>4, <2>5, <2>6, <2>7 DEF Next, ClaimAny
<1> QED BY <1>1, <1>2 DEF TypeInv, TypeOK, DoorTypesOK

LEMMA NextNumbered ==
  ASSUME TypeInv, Counted, [Next]_vars, NEW u \in Users
  PROVE  \E k \in 0..MaxRemovals : Removals(u)' = 1..k
<1>1. CASE \E S \in SUBSET Users : CanRemove(S) /\ Enqueue(S)
  BY <1>1, EnqueueMoves
<1>2. CASE NoNewJob
  <2>1. \A n \in 1..MaxRemovals : job'[<<u, n>>].status # None <=> job[<<u, n>>].status # None
    BY <1>2, NextMoves DEF JobsMove, RowMoves, NoNewJob, Jobs
  <2>2. Removals(u)' = {n \in 1..MaxRemovals : job'[<<u, n>>].status # None}
    BY DEF Removals
  <2>3. Removals(u) = {n \in 1..MaxRemovals : job[<<u, n>>].status # None}
    BY DEF Removals
  <2>4. Removals(u)' = Removals(u)
    BY <2>1, <2>2, <2>3, Zenon
  <2> QED BY <2>4 DEF Counted
<1> QED BY <1>1, <1>2, NextMoves

LEMMA SweepingMoves ==
  ASSUME TypeInv, [Next]_vars, NEW j \in sweeping'
  PROVE  j \in Jobs /\ (j \in sweeping \/ (job[j].attempts >= MaxAttempts /\ job[j].status # None))
<1>1. CASE SweepSelect
  BY <1>1 DEF SweepSelect, None
<1>2. CASE sweeping' = sweeping \/ sweeping' = {}
  BY <1>2 DEF TypeInv, TypeOK
<1>3. ASSUME NEW w \in Workers, WorkerStep(w) PROVE sweeping' = sweeping
  BY <1>3, WorkerAdvances DEF EndJob, EndJobFails
<1> QED BY <1>1, <1>2, <1>3, DoorTypes DEF Next, ClaimAny, Claim, Sweep, SweepUpdate, Crash, Age,
        ComeDue, vars

LEMMA NextCounted ==
  ASSUME TypeInv, Counted, [Next]_vars
  PROVE  Counted'
<1>0. \A j \in Jobs : job[j] \in Job /\ job'[j] \in Job /\ RowMoves(j)
  BY NextMoves DEF TypeInv, TypeOK, JobsMove
<1>1. ASSUME NEW j \in sweeping' PROVE job'[j].attempts = MaxAttempts /\ job'[j].status # None
  <2>1. /\ j \in Jobs /\ job[j].attempts >= MaxAttempts /\ job[j].status # None
    BY <1>1, SweepingMoves, Constants DEF Counted
  <2>2. job'[j].attempts >= job[j].attempts /\ job'[j].status # None
        /\ job'[j].attempts \in 0..MaxAttempts /\ job[j].attempts \in 0..MaxAttempts
    BY <1>0, <2>1 DEF RowMoves, Job
  <2> QED BY <2>1, <2>2, Constants
<1>2. ASSUME NEW w \in Workers, worker[w].pc # "idle"
      PROVE  /\ job'[worker[w].job].status # None
             /\ worker[w].owner <= job'[worker[w].job].attempts
  <2>1. PICK i \in Jobs : i = worker[w].job
    BY <1>2, Fields DEF At
  <2>2. job[i].status # None /\ worker[w].owner <= job[i].attempts
    BY <1>2, <2>1 DEF Counted
  <2>3. job'[i].attempts >= job[i].attempts /\ job'[i].status # None
        /\ job'[i].attempts \in 0..MaxAttempts /\ job[i].attempts \in 0..MaxAttempts
    BY <1>0, <2>2 DEF RowMoves, Job
  <2>4. worker[w].owner \in 1..MaxAttempts
    BY <1>2, Fields DEF At
  <2>5. worker[w].owner <= job'[i].attempts
    BY <2>2, <2>3, <2>4, Constants
  <2> QED BY <2>1, <2>3, <2>5
<1>3. ASSUME NEW w \in Workers, worker'[w].pc # "idle"
      PROVE  /\ job'[worker'[w].job].status # None
             /\ worker'[w].owner <= job'[worker'[w].job].attempts
  <2>1. CASE UNCHANGED worker
    BY <1>2, <1>3, <2>1
  <2>2. ASSUME NEW v \in Workers, Ends(v)
        PROVE  worker'[w] = worker[w]
    BY <1>3, <2>2, SetTypes, IdleSound DEF Ends
  <2>3. ASSUME NEW v \in Workers, NEW i \in Jobs, Claims(v, i)
        PROVE  \/ worker'[w] = worker[w]
               \/ /\ worker'[w].job = i /\ worker'[w].owner = job'[i].attempts
                  /\ job'[i].status # None /\ job'[i].attempts \in 0..MaxAttempts
    <3>1. job'[i].status # None /\ job'[i].attempts \in 0..MaxAttempts
      BY <1>0, <2>3 DEF Claims, RowMoves, Job
    <3> QED BY <2>3, <3>1, SetTypes DEF Claims
  <2>4. ASSUME NEW v \in Workers, Proceeds(v)
        PROVE  /\ worker[w].pc # "idle" /\ worker'[w].job = worker[w].job
               /\ worker'[w].owner = worker[w].owner
    <3>1. CASE w = v
      BY <2>4, <3>1, SetTypes DEF Proceeds, GoesOn
    <3>2. CASE w # v
      BY <1>3, <2>4, <3>2, SetTypes DEF Proceeds, GoesOn
    <3> QED BY <3>1, <3>2
  <2>5. \A n \in 0..MaxAttempts : n <= n
    BY Constants
  <2> QED BY <1>2, <1>3, <2>1, <2>2, <2>3, <2>4, <2>5, NextMoves DEF WorkersMove
<1>4. \A j \in Jobs : job'[j].owner # 0 => job'[j].owner = job'[j].attempts
  BY <1>0 DEF RowMoves
<1>5. AbandonedMeansExhausted'
  BY <1>0 DEF RowMoves, AbandonedMeansExhausted
<1>6. \A u \in Users : \E k \in 0..MaxRemovals : Removals(u)' = 1..k
  BY NextNumbered
<1> QED BY <1>1, <1>3, <1>4, <1>5, <1>6 DEF Counted

LEMMA InitSound ==
  ASSUME Init
  PROVE  TypeInv /\ Counted
<1>0. 0 \in 0..MaxAttempts /\ 0 \in 0..MaxRemovals /\ 1..0 = {}
  BY Constants
<1>1. NoJob \in Job /\ NoJob.status = None /\ NoJob.owner = 0
  BY <1>0 DEF NoJob, Job, None
<1>2. TypeInv
  BY <1>1, IdleSound DEF Init, TypeInv, TypeOK
<1>3. \A j \in Jobs : job[j] = NoJob
  BY DEF Init
<1>4. \A u \in Users : Removals(u) = {}
  BY <1>1, <1>3 DEF Removals, Jobs
<1>5. AbandonedMeansExhausted
  BY <1>1, <1>3 DEF AbandonedMeansExhausted, None
<1>6. sweeping = {} /\ \A w \in Workers : worker[w].pc = "idle"
  BY IdleSound DEF Init
<1>7. Counted
  BY <1>0, <1>1, <1>3, <1>4, <1>5, <1>6 DEF Counted
<1> QED BY <1>2, <1>7

\* The types, and the numbers of the jobs and their claims.
THEOREM JobsCounted == Spec => [](TypeInv /\ Counted)
<1>1. Init => TypeInv /\ Counted
  BY InitSound
<1>2. TypeInv /\ Counted /\ [Next]_vars => (TypeInv /\ Counted)'
  BY NextTypes, NextCounted
<1> QED BY <1>1, <1>2, PTL DEF Spec

\* finishMemberRemovalCleanup's promise about abandoned rows, for every budget and every
\* interleaving of slow workers, crashes and sweeps.
THEOREM AbandonedUsedUp == Spec => []AbandonedMeansExhausted
<1>1. TypeInv /\ Counted => AbandonedMeansExhausted
  BY DEF Counted
<1> QED BY <1>1, JobsCounted, PTL

\* No step rewrites a verdict: not a late worker, and not the sweep with an old list of ids.
THEOREM VerdictsAreFinal == Spec => VerdictsStand
<1>1. TypeInv /\ Counted /\ [Next]_vars =>
        \A j \in Jobs : job[j].status \in {"done", "abandoned"} => job'[j].status = job[j].status
  BY NextMoves DEF JobsMove, RowMoves
<1> QED BY <1>1, JobsCounted, PTL DEF Spec, VerdictsStand

-----------------------------------------------------------------------------
(* Members are spared. *)

LEMMA RowsOfMembers ==
  ASSUME TypeInv, [Next]_vars, NEW u \in Users, Member(u)
  PROVE  groups[u] \subseteq groups'[u] /\ projects[u] \subseteq projects'[u]
<1> USE DEF TypeInv, TypeOK
<1>1. CASE UNCHANGED rowVars
  BY <1>1 DEF rowVars
<1>2. ASSUME NEW v \in Users, NEW g \in Groups, CommitAdmit(v, g)
      PROVE  groups[u] \subseteq groups'[u] /\ projects[u] \subseteq projects'[u]
  BY <1>2 DEF CommitAdmit
<1>3. ASSUME NEW v \in Users, NEW p \in Projects, AdmitToProject(v, p)
      PROVE  groups[u] \subseteq groups'[u] /\ projects[u] \subseteq projects'[u]
  BY <1>3 DEF AdmitToProject
<1>4. ASSUME NEW w \in Workers, NEW g \in Groups, ExitGroup(w, g)
      PROVE  groups[u] \subseteq groups'[u] /\ projects[u] \subseteq projects'[u]
  <2>1. CASE Uid(w) = u
    BY <1>4, <2>1 DEF ExitGroup, SeatStillOpen, Member, rowVars
  <2>2. CASE Uid(w) # u
    BY <1>4, <2>2 DEF ExitGroup, rowVars
  <2> QED BY <2>1, <2>2
<1>5. ASSUME NEW w \in Workers, NEW p \in Projects, CloseProjectSeat(w, p)
      PROVE  groups[u] \subseteq groups'[u] /\ projects[u] \subseteq projects'[u]
  <2>1. CASE Uid(w) = u
    BY <1>5, <2>1 DEF CloseProjectSeat, SeatStillOpen, Member
  <2>2. CASE Uid(w) # u
    BY <1>5, <2>2 DEF CloseProjectSeat
  <2> QED BY <2>1, <2>2
<1>6. ASSUME NEW w \in Workers, WorkerStep(w)
      PROVE  \/ UNCHANGED rowVars
             \/ \E g \in Groups : ExitGroup(w, g)
             \/ \E p \in Projects : CloseProjectSeat(w, p)
  BY <1>6, WorkerAdvances DEF EndJob, EndJobFails
<1>7. Doors => \/ UNCHANGED rowVars
               \/ \E v \in Users, g \in Groups : CommitAdmit(v, g)
               \/ \E v \in Users, p \in Projects : AdmitToProject(v, p)
  BY DEF Doors, CloseSeat, BeginJoin, CommitJoin, Disband, UpdateSpaceStatus, BeginLiftBan, BeginAdmit
<1>8. ClaimAny \/ Sweep \/ (\E w \in Workers : Crash(w)) \/ (\E j \in Jobs : Age(j) \/ ComeDue(j))
      \/ UNCHANGED vars => UNCHANGED rowVars
  BY DEF ClaimAny, Claim, Sweep, SweepSelect, SweepUpdate, Crash, Age, ComeDue, vars
<1> QED BY <1>1, <1>2, <1>3, <1>4, <1>5, <1>6, <1>7, <1>8 DEF Next

\* However stale a worker's job, check or list is, it takes nothing from a member.
THEOREM MembersAreSpared == Spec => SparesMembers
<1>1. TypeInv /\ Counted /\ [Next]_vars =>
        \A u \in Users : Member(u) =>
          groups[u] \subseteq groups'[u] /\ projects[u] \subseteq projects'[u]
  BY RowsOfMembers
<1> QED BY <1>1, JobsCounted, PTL DEF Spec, SparesMembers

-----------------------------------------------------------------------------
(* No removal is left half done without a job. *)

\* An attempt without an error for the last removal of someone who is not a member has
\* taken what its place in the pipeline says.
Thorough ==
    \A w \in Workers : worker[w].pc # "idle" /\ ~worker[w].failed =>
        \A u \in Users, n \in 1..MaxRemovals :
            worker[w].job = <<u, n>> /\ Latest(u, n) /\ ~Member(u) =>
                Done(worker[w], LeftGroups(u), projects[u])

\* And the last removal is what covers what is left.
LastCovers ==
    \A u \in Users : ~Member(u) /\ Leftovers(u) # {} =>
        \E n \in 1..MaxRemovals : Latest(u, n) /\ job[<<u, n>>].status \in {"pending", "abandoned"}

\* Nothing is added for someone who holds no seat, but for the groups that count as late.
LEMMA RowsShrink ==
  ASSUME TypeInv, [Next]_vars, NEW u \in Users, ~Member(u)
  PROVE  LeftGroups(u)' \subseteq LeftGroups(u) /\ projects'[u] \subseteq projects[u]
<1> USE DEF TypeInv, TypeOK
<1>1. CASE UNCHANGED rowVars
  BY <1>1, SameRows DEF rowVars
<1>2. ASSUME NEW v \in Users, NEW g \in Groups, CommitAdmit(v, g)
      PROVE  LeftGroups(u)' \subseteq LeftGroups(u) /\ projects'[u] \subseteq projects[u]
  <2>1. CASE u = v
    BY <1>2, <2>1 DEF CommitAdmit, LeftGroups, Member
  <2>2. CASE u # v
    BY <1>2, <2>2 DEF CommitAdmit, LeftGroups
  <2> QED BY <2>1, <2>2
<1>3. ASSUME NEW v \in Users, NEW p \in Projects, AdmitToProject(v, p)
      PROVE  LeftGroups(u)' \subseteq LeftGroups(u) /\ projects'[u] \subseteq projects[u]
  BY <1>3 DEF AdmitToProject, LeftGroups, Member
<1>4. ASSUME NEW w \in Workers, NEW g \in Groups, ExitGroup(w, g)
      PROVE  LeftGroups(u)' \subseteq LeftGroups(u) /\ projects'[u] \subseteq projects[u]
  <2>1. CASE UNCHANGED rowVars
    BY <1>1, <2>1
  <2>2. CASE groups' = [groups EXCEPT ![Uid(w)] = @ \ {g}] /\ late' = late \ {<<Uid(w), g>>}
             /\ UNCHANGED projects
    <3>1. CASE Uid(w) = u
      BY <2>2, <3>1 DEF LeftGroups
    <3>2. CASE Uid(w) # u
      BY <2>2, <3>2 DEF LeftGroups
    <3> QED BY <2>2, <3>1, <3>2
  <2> QED BY <1>4, <2>1, <2>2 DEF ExitGroup
<1>5. ASSUME NEW w \in Workers, NEW p \in Projects, CloseProjectSeat(w, p)
      PROVE  LeftGroups(u)' \subseteq LeftGroups(u) /\ projects'[u] \subseteq projects[u]
  BY <1>5 DEF CloseProjectSeat, LeftGroups
<1>6. ASSUME NEW w \in Workers, WorkerStep(w)
      PROVE  \/ UNCHANGED rowVars
             \/ \E g \in Groups : ExitGroup(w, g)
             \/ \E p \in Projects : CloseProjectSeat(w, p)
  BY <1>6, WorkerAdvances DEF EndJob, EndJobFails
<1>7. Doors => \/ UNCHANGED rowVars
               \/ \E v \in Users, g \in Groups : CommitAdmit(v, g)
               \/ \E v \in Users, p \in Projects : AdmitToProject(v, p)
  BY DEF Doors, CloseSeat, BeginJoin, CommitJoin, Disband, UpdateSpaceStatus, BeginLiftBan, BeginAdmit
<1>8. ClaimAny \/ Sweep \/ (\E w \in Workers : Crash(w)) \/ (\E j \in Jobs : Age(j) \/ ComeDue(j))
      \/ UNCHANGED vars => UNCHANGED rowVars
  BY DEF ClaimAny, Claim, Sweep, SweepSelect, SweepUpdate, Crash, Age, ComeDue, vars
<1> QED BY <1>1, <1>2, <1>3, <1>4, <1>5, <1>6, <1>7, <1>8 DEF Next

\* Whoever is not a member after a step either was none before it, or has lost the seat in
\* the step that wrote a new job.
Removed(u) ==
    /\ UNCHANGED worker
    /\ \E n \in 1..MaxRemovals :
         Latest(u, n)' /\ job'[<<u, n>>].status = "pending" /\ job[<<u, n>>].status = None
SameRemovals(u) ==
    ~Member(u) /\ \A n \in 1..MaxRemovals : job'[<<u, n>>].status = None <=> job[<<u, n>>].status = None

LEMMA OutsiderMoves ==
  ASSUME TypeInv, Counted, [Next]_vars, NEW u \in Users, ~Member(u)'
  PROVE  Removed(u) \/ SameRemovals(u)
<1>1. ASSUME NEW S \in SUBSET Users, CanRemove(S), Enqueue(S), UNCHANGED worker, u \in S
      PROVE  Removed(u)
  BY <1>1, EnqueueMoves DEF Removed
<1>2. ASSUME NEW S \in SUBSET Users, CanRemove(S), Enqueue(S), u \notin S, ~Member(u)
      PROVE  SameRemovals(u)
  BY <1>2, EnqueueMoves DEF SameRemovals
<1>3. ASSUME NoNewJob, ~Member(u)
      PROVE  SameRemovals(u)
  BY <1>3, NextMoves DEF SameRemovals, NoNewJob, JobsMove, RowMoves, Jobs
<1>4. ASSUME NEW v \in Users, CloseSeat(v)
      PROVE  Removed(u) \/ SameRemovals(u)
  <2>1. CanRemove({v}) /\ Enqueue({v}) /\ UNCHANGED worker /\ {v} \in SUBSET Users
    BY <1>4 DEF CloseSeat
  <2>2. v # u => ~Member(u)
    BY <1>4 DEF CloseSeat, Member, TypeInv, TypeOK
  <2> QED BY <1>1, <1>2, <2>1, <2>2
<1>5. ASSUME Disband
      PROVE  Removed(u) \/ SameRemovals(u)
  <2> DEFINE S == {v \in Users : seat[v]}
  <2>1. CanRemove(S) /\ Enqueue(S) /\ UNCHANGED worker /\ S \in SUBSET Users
    BY <1>5 DEF Disband
  <2>2. u \notin S => ~Member(u)
    BY DEF Member
  <2> HIDE DEF S
  <2> QED BY <1>1, <1>2, <2>1, <2>2
<1>6. ASSUME ~(\E v \in Users : CloseSeat(v)), ~Disband
      PROVE  NoNewJob /\ ~Member(u)
  <2>1. ASSUME Doors PROVE UNCHANGED job /\ ~Member(u)
    <3>1. UNCHANGED job
      BY <1>6, <2>1 DEF Doors, BeginJoin, CommitJoin, UpdateSpaceStatus, BeginLiftBan, BeginAdmit,
         CommitAdmit, AdmitToProject
    <3>2. Member(u) => Member(u)'
      <4>1. ASSUME NEW v \in Users, CommitJoin(v) PROVE seat[u] => seat'[u]
        BY <4>1 DEF CommitJoin, TypeInv, TypeOK
      <4>2. ASSUME UpdateSpaceStatus PROVE space' # "disbanded" /\ seat' = seat
        BY <4>2 DEF UpdateSpaceStatus, TypeInv, TypeOK, None
      <4> QED BY <1>6, <2>1, <4>1, <4>2 DEF Doors, Member, BeginJoin, CommitJoin, BeginLiftBan,
              BeginAdmit, CommitAdmit, AdmitToProject, doorVars
    <3> QED BY <3>1, <3>2
  <2>2. ASSUME NEW w \in Workers, WorkerStep(w) PROVE UNCHANGED <<seat, space>> /\ NoNewJob
    <3>1. CASE EndJob(w) \/ EndJobFails(w)
      BY <3>1, EndJobMoves, SameJobs DEF EndJob, EndJobFails, doorVars
    <3>2. CASE ~EndJob(w) /\ ~EndJobFails(w)
      BY <2>2, <3>2, WorkerAdvances, SameJobs DEF doorVars
    <3> QED BY <3>1, <3>2
  <2>3. ASSUME NEW i \in Jobs, Age(i) \/ ComeDue(i) PROVE UNCHANGED <<seat, space>> /\ NoNewJob
    BY <2>3, TimeMoves DEF Age, ComeDue, doorVars
  <2>4. ASSUME NEW w \in Workers, Crash(w) PROVE UNCHANGED <<seat, space>> /\ NoNewJob
    BY <2>4, SameJobs DEF Crash, doorVars
  <2>5. ASSUME ClaimAny PROVE UNCHANGED <<seat, space>> /\ NoNewJob
    BY <2>5, ClaimMoves DEF ClaimAny, Claim, doorVars
  <2>6. ASSUME Sweep PROVE UNCHANGED <<seat, space>> /\ NoNewJob
    BY <2>6, SweepUpdateMoves, SameJobs DEF Sweep, SweepSelect, SweepUpdate, doorVars
  <2>7. ASSUME UNCHANGED vars PROVE UNCHANGED <<seat, space>> /\ NoNewJob
    BY <2>7, SameJobs DEF vars, doorVars
  <2>8. UNCHANGED <<seat, space>> => ~Member(u)
    BY DEF Member
  <2> QED BY <2>1, <2>2, <2>3, <2>4, <2>5, <2>6, <2>7, <2>8, SameJobs DEF Next
<1> QED BY <1>3, <1>4, <1>5, <1>6

\* An attempt without an error has just begun, or was one before the step and is as far
\* with less left.
LEMMA KeepsDone ==
  ASSUME TypeInv, Counted, OnePage, [Next]_vars, NEW u \in Users, ~Member(u),
         NEW w \in Workers, worker'[w].pc # "idle", ~worker'[w].failed, u = Uid(w)'
  PROVE  \/ worker'[w].pc = "check"
         \/ /\ worker[w].pc # "idle" /\ ~worker[w].failed /\ worker'[w].job = worker[w].job
            /\ Done(worker[w], LeftGroups(u), projects[u])
               => Done(worker'[w], LeftGroups(u)', projects'[u])
<1>1. ASSUME worker'[w] = worker[w]
      PROVE  Done(worker[w], LeftGroups(u), projects[u]) => Done(worker'[w], LeftGroups(u)', projects'[u])
  BY <1>1, RowsShrink DEF Done
<1>2. CASE worker'[w] = worker[w]
  BY <1>1, <1>2
<1>3. ASSUME NEW v \in Workers, Ends(v) PROVE worker'[w] = worker[w]
  BY <1>3, SetTypes, IdleSound DEF Ends
<1>4. ASSUME NEW v \in Workers, NEW i \in Jobs, Claim(v, i)
      PROVE  worker'[w] = worker[w] \/ worker'[w].pc = "check"
  BY <1>4, ClaimMoves, SetTypes
<1>5. ASSUME NEW v \in Workers, WorkerStep(v), ~EndJob(v), ~EndJobFails(v), worker'[w] # worker[w]
      PROVE  /\ worker[w].pc # "idle" /\ ~worker[w].failed /\ worker'[w].job = worker[w].job
             /\ Done(worker[w], LeftGroups(u), projects[u])
                => Done(worker'[w], LeftGroups(u)', projects'[u])
  <2>1. PICK x \in Users : x = Uid(v)
    BY <1>5, WorkerAdvances
  <2>2. PICK r \in Worker : Advances(v, x, r)
    BY <1>5, <2>1, WorkerAdvances
  <2>3. GoesOn(v, r)
    BY <2>2 DEF Advances
  <2>4. w = v /\ worker'[w] = r
    BY <1>5, <2>3, SetTypes DEF GoesOn
  <2>5. worker'[w].job = worker[w].job /\ worker[w].pc # "idle"
    BY <1>5, <2>3, <2>4, WorkerAdvances DEF GoesOn, At
  <2>6. x = u
    BY <2>1, <2>4, <2>5 DEF Uid
  <2> QED BY <2>2, <2>4, <2>5, <2>6 DEF Advances
<1>6. ASSUME NEW v \in Workers, EndJob(v) \/ EndJobFails(v) \/ Crash(v)
      PROVE  Ends(v)
  BY <1>6 DEF EndJob, EndJobFails, Crash, Ends, Set
<1>7. Doors \/ Sweep \/ (\E i \in Jobs : Age(i) \/ ComeDue(i)) \/ UNCHANGED vars => UNCHANGED worker
  BY DoorTypes DEF Sweep, SweepSelect, SweepUpdate, Age, ComeDue, vars
<1> QED BY <1>2, <1>3, <1>4, <1>5, <1>6, <1>7 DEF Next, ClaimAny

LEMMA NextThorough ==
  ASSUME TypeInv, Counted, OnePage, Thorough, [Next]_vars
  PROVE  Thorough'
<1> SUFFICES ASSUME NEW w \in Workers, worker'[w].pc # "idle", ~worker'[w].failed,
                    NEW u \in Users, NEW m \in 1..MaxRemovals, worker'[w].job = <<u, m>>,
                    Latest(u, m)', ~Member(u)'
             PROVE  Done(worker'[w], LeftGroups(u)', projects'[u])
  BY DEF Thorough
<1>1. CASE Removed(u)
  <2>1. PICK n \in 1..MaxRemovals :
            Latest(u, n)' /\ job'[<<u, n>>].status = "pending" /\ job[<<u, n>>].status = None
    BY <1>1 DEF Removed
  <2>2. worker' = worker
    BY <1>1 DEF Removed
  <2>3. job[<<u, m>>].status # None
    BY <2>2 DEF Counted
  <2>5. m # n
    BY <2>1, <2>3
  <2>7. m \in (n + 1)..MaxRemovals \/ n \in (m + 1)..MaxRemovals
    BY <2>5, Constants
  <2>8. job'[<<u, m>>].status # None /\ job'[<<u, n>>].status # None
    BY <2>1 DEF Latest, None
  <2> QED BY <2>1, <2>7, <2>8 DEF Latest
<1>2. CASE SameRemovals(u)
  <2>1. ~Member(u)
    BY <1>2 DEF SameRemovals
  <2>2. CASE worker'[w].pc = "check"
    BY <2>2 DEF Done
  <2>3. CASE /\ worker[w].pc # "idle" /\ ~worker[w].failed /\ worker'[w].job = worker[w].job
             /\ Done(worker[w], LeftGroups(u), projects[u])
                => Done(worker'[w], LeftGroups(u)', projects'[u])
    <3>1. Latest(u, m)
      <4>1. \A n \in (m + 1)..MaxRemovals : n \in 1..MaxRemovals
        BY Constants
      <4> QED BY <1>2, <4>1 DEF SameRemovals, Latest
    <3> QED BY <2>1, <2>3, <3>1 DEF Thorough
  <2>4. u = Uid(w)'
    BY DEF Uid
  <2> QED BY <2>1, <2>2, <2>3, <2>4, KeepsDone
<1> QED BY <1>1, <1>2, OutsiderMoves

LEMMA NextCovers ==
  ASSUME TypeInv, Counted, Thorough, LastCovers, [Next]_vars
  PROVE  LastCovers'
<1> SUFFICES ASSUME NEW u \in Users, ~Member(u)', Leftovers(u)' # {}
             PROVE  \E n \in 1..MaxRemovals :
                      Latest(u, n)' /\ job'[<<u, n>>].status \in {"pending", "abandoned"}
  BY DEF LastCovers
<1>1. CASE Removed(u)
  BY <1>1 DEF Removed
<1>2. CASE SameRemovals(u)
  <2>1. ~Member(u)
    BY <1>2 DEF SameRemovals
  <2>2. Leftovers(u)' \subseteq Leftovers(u) /\ Leftovers(u) = LeftGroups(u) \cup projects[u]
    BY <2>1, RowsShrink DEF Leftovers, LeftGroups
  <2>3. PICK n \in 1..MaxRemovals : Latest(u, n) /\ job[<<u, n>>].status \in {"pending", "abandoned"}
    BY <2>1, <2>2 DEF LastCovers
  <2>4. Latest(u, n)'
    <3>1. \A m \in (n + 1)..MaxRemovals : m \in 1..MaxRemovals
      BY Constants
    <3> QED BY <1>2, <2>3, <3>1 DEF SameRemovals, Latest
  <2>5. <<u, n>> \in Jobs /\ RowMoves(<<u, n>>) /\ job'[<<u, n>>] \in Job
    BY NextMoves DEF Jobs, JobsMove
  <2>6. ~(job[<<u, n>>].status = "pending" /\ job'[<<u, n>>].status = "done")
    <3> SUFFICES ASSUME job[<<u, n>>].status = "pending", job'[<<u, n>>].status = "done"
                 PROVE  FALSE
      OBVIOUS
    <3>1. PICK w \in Workers : worker[w].job = <<u, n>> /\ At(w, "end") /\ ~worker[w].failed
      BY <2>5 DEF RowMoves
    <3>2. worker[w].pc = "end"
      BY <3>1 DEF At
    <3>3. Done(worker[w], LeftGroups(u), projects[u])
      BY <2>1, <2>3, <3>1, <3>2 DEF Thorough
    <3>4. LeftGroups(u) = {} /\ projects[u] = {}
      BY <3>2, <3>3 DEF Done
    <3> QED BY <2>2, <3>4
  <2>7. job'[<<u, n>>].status \in {"pending", "abandoned"}
    BY <2>3, <2>5, <2>6 DEF RowMoves, Job, None
  <2> QED BY <2>4, <2>7
<1> QED BY <1>1, <1>2, OutsiderMoves

\* A removal is never half done in silence, in a Space whose projects fit in one page of
\* the cascade: with more, a full page that a second worker has closed first ends the job
\* as done with the next page unread.
THEOREM CleanupIsSound == ASSUME OnePage PROVE Spec => []CleanupSound
<1> DEFINE IInv == TypeInv /\ Counted /\ Thorough /\ LastCovers
<1>1. Init => IInv
  <2> SUFFICES ASSUME Init PROVE IInv
    OBVIOUS
  <2>1. TypeInv /\ Counted
    BY InitSound
  <2>2. \A u \in Users : seat[u] /\ space # "disbanded"
    BY DEF Init
  <2>3. \A w \in Workers : worker[w].pc = "idle"
    BY IdleSound DEF Init
  <2> QED BY <2>1, <2>2, <2>3 DEF Thorough, LastCovers, Member
<1>2. IInv /\ [Next]_vars => IInv'
  BY NextTypes, NextCounted, NextThorough, NextCovers
<1>3. IInv => CleanupSound
  BY DEF CleanupSound, CleanupCovered, LastCovers, TypeInv, Counted
<1> QED BY <1>1, <1>2, <1>3, PTL DEF Spec
=============================================================================
