--------------------------- MODULE WorldCycleProofs ---------------------------
(***************************************************************************)
(* In every cycle of parents that is committed, two undos have put two of  *)
(* the edges back: for any Tasks, turns, commands and events.              *)
(*                                                                         *)
(* A command that gives a Task another parent locks every Task it sees.  An*)
(* undo locks the one Task, so that turns which close a cycle together need*)
(* an edge put back in each.  The invariant (Cycles) says so of what is    *)
(* committed and of what each turn sees.  A turn that has moved Tasks, and *)
(* so may have broken a cycle that another one still sees, has a hold: a   *)
(* set of Tasks it has locked, closed under their parents, the old ones    *)
(* included, so that no cycle another turn closes passes through it.       *)
(*                                                                         *)
(* The commit of one turn, seen by another, is a merge of their rows       *)
(* (MergedCycles): a cycle there meets a hold and lies in it, or is one    *)
(* that one of the turns saw, or has an edge put back by each.             *)
(*                                                                         *)
(* The audit: its depth-first search finds the cycles there are            *)
(* (CyclesReported), and it reports nothing of sound tables but what a     *)
(* commit tears (WorldAuditTrusted).  That the supersede chains are sound  *)
(* is an invariant of its own (Chains).                                    *)
(***************************************************************************)
EXTENDS WorldHistoryProofs, WorldAudit, FiniteSetTheorems, WellFoundedInduction

SetsParent(e, x) == e.row = x /\ "parent" \in DOMAIN e.new
Reparents(e, x) == SetsParent(e, x) /\ e.kind = "changed"

(* The Tasks whose parent the last event of E has put back.                *)
PutBack(E) ==
    {x \in Tasks : \E e \in E : /\ SetsParent(e, x) /\ Undone(e)
                                /\ \A d \in E : SetsParent(d, x) => d.at <= e.at}

(* The events that t has prepared have no date yet, and are the last.      *)
Prepared(t) == {work[t].events[i] : i \in Pending(t)}
Backs(t) ==
    {x \in Tasks : IF \E e \in Prepared(t) : SetsParent(e, x)
                   THEN \E e \in Prepared(t) : SetsParent(e, x) /\ Undone(e)
                   ELSE x \in PutBack(Events(t))}

(* The Tasks to which t has given another parent by a command.             *)
Moved(t) == {x \in Tasks : \E e \in own[t] \cup Prepared(t) : Reparents(e, x)}

ParentsIn(row) == \A x \in Present(row) : row[x].parent \in Present(row) \cup {None}
OldParentsIn(E, S) == \A e \in E : \A x \in Tasks : Reparents(e, x) => e.old.parent \in S \cup {None}

(* Every cycle has two parents that are put back.                          *)
TwoBacks(row, R) ==
    \A C \in (SUBSET Present(row)) \ {{}} :
        (\A x \in C : row[x].parent \in C) => \E x, y \in C \cap R : x # y

(* What t has changed of the parents of committed Tasks it has moved or put*)
(* back.                                                                   *)
Explained(t) ==
    \A x \in Present(saved) :
        \/ x \in Moved(t) \cup Backs(t)
        \/ View(t)[x].parent = saved[x].parent /\ x \notin PutBack(log)

(* A hold is closed under parents, those that t sees and those it could put*)
(* back: a cycle that another turn closes has nothing in it.               *)
Hold(t, A) ==
    /\ A \subseteq Present(View(t)) /\ Moved(t) \subseteq A
    /\ \A x \in A : owner[x] = t /\ View(t)[x].parent \in A \cup {None}
    /\ pc[t] = "undoing" => A \cap work[t].took = {}
    /\ \A e \in Events(t) \cup Prepared(t) : \A x \in A : Reparents(e, x) => e.old.parent \in A \cup {None}

TurnCycles(t) ==
    /\ ParentsIn(View(t)) /\ TwoBacks(View(t), Backs(t))
    /\ OldParentsIn(own[t] \cup Prepared(t), Present(View(t)))
    /\ Explained(t)
    /\ \E A \in SUBSET Tasks : Hold(t, A)

Cycles ==
    /\ ParentsIn(saved) /\ TwoBacks(saved, PutBack(log)) /\ OldParentsIn(log, Present(saved))
    /\ \A t \in Turns : TurnCycles(t)

(* What a turn commits, seen by another that holds other rows: m is the    *)
(* base with the rows of both.                                             *)
Merged(base, a, b, m, R0, RA, RB, RM, OA, OB) ==
    /\ OA \cap OB = {}
    /\ \A x \in Tasks :
         IF x \in OA THEN m[x] = a[x] /\ b[x] = base[x] /\ (x \in RM <=> x \in RA) /\ (x \in RB <=> x \in R0)
         ELSE IF x \in OB THEN m[x] = b[x] /\ a[x] = base[x] /\ (x \in RM <=> x \in RB)
                               /\ (x \in RA <=> x \in R0)
         ELSE /\ m[x] = base[x] /\ a[x] = base[x] /\ b[x] = base[x]
              /\ (x \in RM <=> x \in R0) /\ (x \in RA <=> x \in R0) /\ (x \in RB <=> x \in R0)
    /\ \A x \in Present(base) : x \in Present(a) /\ x \in Present(b)
    /\ ParentsIn(a) /\ ParentsIn(b) /\ TwoBacks(a, RA) /\ TwoBacks(b, RB)

Closes(row, C) == C \subseteq Present(row) /\ C # {} /\ \A x \in C : row[x].parent \in C

(* A cycle that meets the hold of a turn is one that the turn sees.        *)
LEMMA CycleInHold ==
    ASSUME NEW base, NEW a, NEW b, NEW m, NEW R0, NEW RA, NEW RB, NEW RM, NEW OA, NEW OB,
           Merged(base, a, b, m, R0, RA, RB, RM, OA, OB),
           NEW A \in SUBSET OA, \A x \in A : x \in Present(a) /\ a[x].parent \in A \cup {None},
           NEW C, Closes(m, C), C \cap A # {}
    PROVE  \E x, y \in C \cap RM : x # y
<1>1. PICK D : D = C \cap A
  OBVIOUS
<1>2. \A x \in D : x \in Tasks /\ m[x] = a[x]
  BY <1>1 DEF Merged, Closes, Present
<1>3. None \notin C
  BY WorldAssumption DEF Closes, Present, Rows, Entities
<1>4. \A x \in D : a[x].parent \in D
  BY <1>1, <1>2, <1>3 DEF Closes
<1>5. D \in (SUBSET Present(a)) \ {{}}
  BY <1>1
<1>6. PICK x, y \in D \cap RA : x # y
  BY <1>4, <1>5 DEF Merged, TwoBacks
<1>7. x \in RM /\ y \in RM
  BY <1>1, <1>2, <1>6 DEF Merged
<1> QED
  BY <1>1, <1>6, <1>7

(* A cycle in which b has nothing of its own is one that the other sees.   *)
LEMMA CycleOfOne ==
    ASSUME NEW base, NEW a, NEW b, NEW m, NEW R0, NEW RA, NEW RB, NEW RM, NEW OA, NEW OB,
           Merged(base, a, b, m, R0, RA, RB, RM, OA, OB), NEW C, Closes(m, C),
           \A x \in C \cap OB : x \notin RB,
           \A x \in C \cap OB : x \in Present(base) => b[x].parent = base[x].parent /\ x \notin R0
    PROVE  \E x, y \in C \cap RM : x # y
<1>1. PICK D : D = {x \in C : x \in OB => x \in Present(base)}
  OBVIOUS
<1>2. C \subseteq Tasks /\ None \notin C
  BY WorldAssumption DEF Closes, Present, Rows, Entities
<1>3. CASE D = {}
  <2>1. C \subseteq OB
    BY <1>1, <1>3
  <2>2. \A x \in C : m[x] = b[x] /\ x \in Present(b)
    BY <1>2, <2>1 DEF Merged, Closes, Present
  <2>3. C \in (SUBSET Present(b)) \ {{}} /\ \A x \in C : b[x].parent \in C
    BY <2>2 DEF Closes
  <2>4. \E x, y \in C \cap RB : x # y
    BY <2>3 DEF Merged, TwoBacks
  <2> QED
    BY <1>2, <2>1, <2>4
<1>4. CASE D # {}
  <2>1. \A x \in D : x \in Present(a) /\ a[x].parent = m[x].parent
    BY <1>1, <1>2 DEF Merged, Closes, Present
  <2>2. ASSUME NEW x \in D
        PROVE  a[x].parent \in D
    <3>1. a[x].parent \in C /\ a[x].parent \in Present(a)
      BY <1>1, <1>2, <2>1 DEF Closes, Merged, ParentsIn
    <3>2. a[x].parent \in OB => a[x].parent \in Present(base)
      BY <3>1 DEF Merged, Present
    <3> QED
      BY <1>1, <3>1, <3>2
  <2>3. D \in (SUBSET Present(a)) \ {{}}
    BY <1>4, <2>1
  <2>4. PICK x, y \in D \cap RA : x # y
    BY <2>2, <2>3 DEF Merged, TwoBacks
  <2>5. \A z \in D \cap RA : z \in RM
    BY <1>1, <1>2 DEF Merged
  <2> QED
    BY <1>1, <2>4, <2>5
<1> QED
  BY <1>3, <1>4

LEMMA MergedSwap ==
    ASSUME NEW base, NEW a, NEW b, NEW m, NEW R0, NEW RA, NEW RB, NEW RM, NEW OA, NEW OB,
           Merged(base, a, b, m, R0, RA, RB, RM, OA, OB)
    PROVE  Merged(base, b, a, m, R0, RB, RA, RM, OB, OA)
BY DEF Merged

(* A turn has moved rows of its hold, put others back, and changed no      *)
(* parent besides.                                                         *)
Own(base, a, R0, RA, OA, A) ==
    /\ A \subseteq OA
    /\ \A x \in A : x \in Present(a) /\ a[x].parent \in A \cup {None}
    /\ \A x \in OA : x \in Present(base) =>
         \/ x \in A \cup RA
         \/ a[x].parent = base[x].parent /\ x \notin R0

LEMMA MergedCycles ==
    ASSUME NEW base, NEW a, NEW b, NEW m, NEW R0, NEW RA, NEW RB, NEW RM, NEW OA, NEW OB,
           Merged(base, a, b, m, R0, RA, RB, RM, OA, OB),
           NEW A, Own(base, a, R0, RA, OA, A), NEW B, Own(base, b, R0, RB, OB, B)
    PROVE  ParentsIn(m) /\ TwoBacks(m, RM)
<1>1. ParentsIn(m)
  <2> SUFFICES ASSUME NEW x \in Present(m) PROVE m[x].parent \in Present(m) \cup {None}
    BY DEF ParentsIn
  <2>1. \A y \in Tasks : y \in Present(a) \/ y \in Present(b) => y \in Present(m)
    BY DEF Merged, Present
  <2>2. \/ x \in Present(a) /\ m[x] = a[x]
        \/ x \in Present(b) /\ m[x] = b[x]
    BY DEF Merged, Present
  <2>3. \/ m[x].parent \in Present(a) \cup {None}
        \/ m[x].parent \in Present(b) \cup {None}
    BY <2>2 DEF Merged, ParentsIn
  <2> QED
    BY <2>1, <2>3 DEF Present
<1>2. ASSUME NEW C, Closes(m, C)
      PROVE  \E x, y \in C \cap RM : x # y
  <2>0. C \subseteq Tasks
    BY <1>2 DEF Closes, Present
  <2>1. CASE C \cap A # {}
    BY <1>2, <2>1, CycleInHold DEF Own
  <2>2. CASE C \cap B # {}
    BY <1>2, <2>2, CycleInHold, MergedSwap DEF Own
  <2>3. CASE C \cap A = {} /\ C \cap B = {}
    <3>1. CASE \A x \in C \cap OB : x \notin RB
      BY <1>2, <2>3, <3>1, CycleOfOne DEF Own
    <3>2. CASE \A x \in C \cap OA : x \notin RA
      BY <1>2, <2>3, <3>2, CycleOfOne, MergedSwap DEF Own
    <3>3. ASSUME NEW x \in C \cap OA, x \in RA, NEW y \in C \cap OB, y \in RB
          PROVE  x # y /\ x \in RM /\ y \in RM
      BY <2>0, <3>3 DEF Merged
    <3> QED
      BY <3>1, <3>2, <3>3
  <2> QED
    BY <2>1, <2>2, <2>3
<1> QED
  BY <1>1, <1>2 DEF TwoBacks, Closes

(***************************************************************************)
(* New parents                                                             *)
(***************************************************************************)

SameParents(a, b) ==
    \A x \in Tasks : /\ a[x] = Absent <=> b[x] = Absent
                     /\ a[x] # Absent => b[x].parent = a[x].parent

LEMMA SameParentsOK ==
    ASSUME NEW a, NEW b, SameParents(a, b)
    PROVE  /\ Present(a) = Present(b)
           /\ ParentsIn(a) => ParentsIn(b)
           /\ \A R : TwoBacks(a, R) => TwoBacks(b, R)
<1>1. Present(a) = Present(b) /\ \A x \in Present(a) : b[x].parent = a[x].parent
  BY DEF SameParents, Present
<1>2. ParentsIn(a) => ParentsIn(b)
  BY <1>1 DEF ParentsIn
<1>3. ASSUME NEW R, TwoBacks(a, R)
      PROVE  TwoBacks(b, R)
  <2> SUFFICES ASSUME NEW C \in (SUBSET Present(b)) \ {{}}, \A x \in C : b[x].parent \in C
               PROVE  \E x, y \in C \cap R : x # y
    BY DEF TwoBacks
  <2>1. C \in (SUBSET Present(a)) \ {{}} /\ \A x \in C : a[x].parent \in C
    BY <1>1
  <2> QED
    BY <1>3, <2>1 DEF TwoBacks
<1> QED
  BY <1>1, <1>2, <1>3

LEMMA NoneIsNoTask == None \notin Tasks
BY WorldAssumption DEF Rows, Entities

(* A valid parent closes no cycle: the Task is in none.                    *)
LEMMA ValidParentOK ==
    ASSUME NEW a, NEW b, NEW x \in Present(a), NEW p, ValidParent(a, x, p),
           NEW R, NEW S, \A y \in Tasks \ {x} : y \in S <=> y \in R,
           Present(b) = Present(a), b[x].parent = p,
           \A y \in Present(a) \ {x} : b[y].parent = a[y].parent,
           ParentsIn(a), TwoBacks(a, R)
    PROVE  ParentsIn(b) /\ TwoBacks(b, S) /\ p \in Present(a) \cup {None}
<1>1. p \in Present(a) \cup {None}
  BY DEF ValidParent, Present
<1>2. ParentsIn(b)
  BY <1>1 DEF ParentsIn
<1>3. ASSUME NEW C \in (SUBSET Present(b)) \ {{}}, \A y \in C : b[y].parent \in C
      PROVE  \E y, z \in C \cap S : y # z
  <2>0. C \subseteq Tasks /\ None \notin C
    BY NoneIsNoTask DEF Present
  <2>1. x \notin C
    <3> SUFFICES ASSUME x \in C PROVE FALSE
      OBVIOUS
    <3>1. p \in C /\ p # None
      BY <1>3, <2>0
    <3>2. PICK chain \in SUBSET {y \in Tasks \ {x} : a[y] # Absent} :
             /\ p \in chain
             /\ \A y \in chain : a[y].parent \in chain \cup {None}
             /\ \A D \in (SUBSET chain) \ {{}} : \E y \in D : a[y].parent \notin D
      BY <3>1 DEF ValidParent
    <3>3. PICK D : D = C \cap chain
      OBVIOUS
    <3>4. D \in (SUBSET chain) \ {{}}
      BY <3>1, <3>2, <3>3
    <3>5. PICK y \in D : a[y].parent \notin D
      BY <3>2, <3>4
    <3>6. y \in C /\ y \in chain /\ y # x /\ y \in Present(a)
      BY <3>2, <3>3, <3>5 DEF Present
    <3>7. a[y].parent \in C /\ a[y].parent \in chain \cup {None}
      BY <1>3, <3>2, <3>6
    <3> QED
      BY <2>0, <3>3, <3>5, <3>7
  <2>2. C \in (SUBSET Present(a)) \ {{}} /\ \A y \in C : a[y].parent \in C
    BY <1>3, <2>1
  <2>3. PICK y, z \in C \cap R : y # z
    BY <2>2 DEF TwoBacks
  <2> QED
    BY <2>0, <2>1, <2>3
<1> QED
  BY <1>1, <1>2, <1>3 DEF TwoBacks

(* Nothing is below a Task that is new.                                    *)
LEMMA NewTaskParents ==
    ASSUME NEW a, NEW b, NEW x \in Tasks \ Present(a),
           NEW R, NEW S, \A y \in Tasks \ {x} : y \in S <=> y \in R,
           Present(b) = Present(a) \cup {x}, b[x].parent \in Present(a) \cup {None},
           \A y \in Present(a) : b[y].parent = a[y].parent,
           ParentsIn(a), TwoBacks(a, R)
    PROVE  ParentsIn(b) /\ TwoBacks(b, S)
<1>1. ParentsIn(b)
  BY DEF ParentsIn
<1>2. ASSUME NEW C \in (SUBSET Present(b)) \ {{}}, \A y \in C : b[y].parent \in C
      PROVE  \E y, z \in C \cap S : y # z
  <2>1. PICK D : D = C \ {x}
    OBVIOUS
  <2>2. D \subseteq Present(a) /\ None \notin C /\ C \subseteq Tasks
    BY <2>1, NoneIsNoTask DEF Present
  <2>3. D # {}
    BY <1>2, <2>1, <2>2
  <2>4. ASSUME NEW y \in D
        PROVE  a[y].parent \in D
    <3>1. y \in C /\ y \in Present(a)
      BY <2>1, <2>2
    <3>2. b[y].parent = a[y].parent /\ b[y].parent \in C
      BY <1>2, <3>1
    <3>3. a[y].parent \in Present(a) \cup {None}
      BY <3>1 DEF ParentsIn
    <3> QED
      BY <2>1, <2>2, <3>2, <3>3
  <2>5. PICK y, z \in D \cap R : y # z
    BY <2>2, <2>3, <2>4 DEF TwoBacks
  <2> QED
    BY <2>1, <2>2, <2>5
<1> QED
  BY <1>1, <1>2 DEF TwoBacks

(***************************************************************************)
(* What turns hold                                                         *)
(***************************************************************************)

LEMMA PutBackOn ==
    ASSUME NEW E, NEW F, NEW x \in Tasks, On(E, x) = On(F, x)
    PROVE  x \in PutBack(E) <=> x \in PutBack(F)
<1>1. \A e : e \in E /\ SetsParent(e, x) <=> e \in F /\ SetsParent(e, x)
  BY DEF On, SetsParent
<1> QED
  BY <1>1 DEF PutBack

(* The events a turn writes at a flush are about rows it holds.            *)
LEMMA PreparedHeld ==
    ASSUME HInv, NEW t \in Turns, pc[t] = "flushing", NEW i \in DOMAIN work[t].events
    PROVE  owner[work[t].events[i].row] = t /\ ShapeOK(work[t].events[i])
<1>1. WorkOK(t)
  BY DEF HInv, Work
<1>2. PendingOK(t, work[t].events[i])
  BY <1>1 DEF WorkOK
<1> QED
  BY <1>2 DEF PendingOK

(* What a turn has written or prepared is about rows it holds.             *)
LEMMA WritesHeld ==
    ASSUME HInv, NEW t \in Turns, NEW e \in own[t] \cup Prepared(t)
    PROVE  owner[e.row] = t /\ ShapeOK(e)
<1>1. e \in own[t] => owner[e.row] = t /\ ShapeOK(e)
  BY DEF HInv, Locks, OwnOK, Sets, SetOK, DatesOK, Events
<1>2. ASSUME e \in Prepared(t)
      PROVE  owner[e.row] = t /\ ShapeOK(e)
  <2>1. PICK i \in DOMAIN work[t].events : e = work[t].events[i] /\ pc[t] = "flushing"
    BY <1>2 DEF Prepared, Pending
  <2> QED
    BY <2>1, PreparedHeld
<1> QED
  BY <1>1, <1>2

LEMMA NotHeld ==
    ASSUME HInv, NEW t \in Turns, NEW x \in Tasks, owner[x] # t
    PROVE  /\ x \notin Moved(t) /\ (x \in Backs(t) <=> x \in PutBack(log))
           /\ View(t)[x] = saved[x]
<1>1. \A e \in own[t] \cup Prepared(t) : e.row # x
  BY WritesHeld
<1>2. x \notin Moved(t) /\ (x \in Backs(t) <=> x \in PutBack(Events(t)))
  BY <1>1 DEF Moved, Backs, Reparents, SetsParent
<1>3. On(Events(t), x) = On(log, x)
  BY <1>1 DEF On, Events
<1> QED
  BY <1>2, <1>3, PutBackOn, TasksAreRows DEF View

LEMMA MovedHeld ==
    ASSUME HInv, NEW t \in Turns
    PROVE  Moved(t) \subseteq {x \in Tasks : owner[x] = t}
BY NotHeld DEF Moved

(* What was there is there for everybody.                                  *)
LEMMA SavedSeen ==
    ASSUME HInv, NEW t \in Turns
    PROVE  Present(saved) \subseteq Present(View(t))
BY TasksAreRows DEF HInv, IInv, GInv, RowsOK, Present, View

LEMMA ViewOfTasks ==
    ASSUME NEW t \in Turns
    PROVE  /\ \A x \in Tasks : View(t)[x] = IF owner[x] = t THEN draft[x] ELSE saved[x]
           /\ \A x \in Tasks : View(t)'[x] = IF owner'[x] = t THEN draft'[x] ELSE saved'[x]
BY TasksAreRows DEF View

LEMMA Unprepared ==
    ASSUME NEW t \in Turns
    PROVE  /\ pc[t] # "flushing" => /\ Prepared(t) = {} /\ Backs(t) = PutBack(Events(t))
           /\ pc'[t] # "flushing" => /\ Prepared(t)' = {} /\ Backs(t)' = PutBack(Events(t)')
<1>1. pc[t] # "flushing" => Prepared(t) = {}
  BY DEF Prepared, Pending
<1>2. pc'[t] # "flushing" => Prepared(t)' = {}
  BY DEF Prepared, Pending
<1> QED
  BY <1>1, <1>2 DEF Backs, PutBack

(***************************************************************************)
(* Steps of a turn                                                         *)
(***************************************************************************)

(* What a step of t must show that commits nothing.                        *)
OthersKeep(t) ==
    \A u \in Turns \ {t} :
        /\ own'[u] = own[u] /\ pc'[u] = pc[u] /\ work'[u] = work[u]
        /\ \A x \in Tasks : /\ owner'[x] = u <=> owner[x] = u
                            /\ owner[x] = u => draft'[x] = draft[x]

LEMMA OthersKeepCycles ==
    ASSUME HInv, Cycles, NEW t \in Turns, saved' = saved, log' = log, OthersKeep(t), TurnCycles(t)'
    PROVE  Cycles'
<1> SUFFICES ASSUME NEW u \in Turns \ {t} PROVE TurnCycles(u)'
  BY DEF Cycles, ParentsIn, TwoBacks, OldParentsIn, Present
<1>1. own'[u] = own[u] /\ pc'[u] = pc[u] /\ work'[u] = work[u]
  BY DEF OthersKeep
<1>2. \A x \in Tasks : View(u)'[x] = View(u)[x]
  BY ViewOfTasks DEF OthersKeep
<1>3. Events(u)' = Events(u) /\ Prepared(u)' = Prepared(u)
  BY <1>1 DEF Events, Prepared, Pending
<1>4. Backs(u)' = Backs(u) /\ Moved(u)' = Moved(u)
  BY <1>1, <1>3 DEF Backs, Moved
<1>5. TurnCycles(u)
  BY DEF Cycles
<1>6. SameParents(View(u), View(u)')
  BY <1>2 DEF SameParents
<1>7. /\ Present(View(u)') = Present(View(u)) /\ ParentsIn(View(u)')
      /\ TwoBacks(View(u)', Backs(u))
  BY <1>5, <1>6, SameParentsOK DEF TurnCycles
<1>8. Explained(u)'
  <2>1. Present(saved)' = Present(saved) /\ PutBack(log)' = PutBack(log)
    BY DEF Present, PutBack
  <2> QED
    BY <1>2, <1>4, <1>5, <2>1 DEF TurnCycles, Explained, Present
<1>9. ASSUME NEW A \in SUBSET Tasks, Hold(u, A)
      PROVE  Hold(u, A)'
  <2>1. \A x \in A : owner'[x] = u
    BY <1>9 DEF Hold, OthersKeep
  <2>2. Present(View(u))' = Present(View(u))
    BY <1>7 DEF Present
  <2>3. \A x \in A : View(u)'[x] = View(u)[x]
    BY <1>2
  <2> QED
    BY <1>1, <1>3, <1>4, <1>9, <2>1, <2>2, <2>3 DEF Hold
<1>10. (ParentsIn(View(u)) /\ TwoBacks(View(u), Backs(u)))'
  BY <1>4, <1>7 DEF ParentsIn, TwoBacks, Present
<1>11. OldParentsIn(own[u] \cup Prepared(u), Present(View(u)))'
  BY <1>1, <1>3, <1>5, <1>7 DEF TurnCycles, OldParentsIn, Present
<1> QED
  BY <1>5, <1>8, <1>9, <1>10, <1>11 DEF TurnCycles

(* A step of t that changes no parent.                                     *)
LEMMA QuietTurn ==
    ASSUME HInv, NEW t \in Turns, TurnCycles(t), saved' = saved, log' = log,
           SameParents(View(t), View(t)'), Backs(t)' = Backs(t), Moved(t)' = Moved(t),
           \A x \in Tasks : owner[x] = t =>
               \/ owner'[x] = t
               \/ pc[t] = "undoing" /\ x \in work[t].took,
           \A e \in own'[t] \cup Prepared(t)' : \A x \in Tasks : Reparents(e, x) =>
               \E d \in own[t] \cup Prepared(t) : Reparents(d, x) /\ d.old.parent = e.old.parent,
           pc'[t] = "undoing" => \A x \in work'[t].took : owner[x] # t
    PROVE  TurnCycles(t)'
<1>1. /\ Present(View(t)') = Present(View(t)) /\ ParentsIn(View(t)')
      /\ TwoBacks(View(t)', Backs(t))
  BY SameParentsOK DEF TurnCycles
<1>2. (ParentsIn(View(t)) /\ TwoBacks(View(t), Backs(t)))'
  BY <1>1 DEF ParentsIn, TwoBacks, Present
<1>3. Present(View(t))' = Present(View(t)) /\ Present(saved)' = Present(saved)
      /\ PutBack(log)' = PutBack(log)
  BY <1>1 DEF Present, PutBack
<1>4. OldParentsIn(own[t] \cup Prepared(t), Present(View(t)))'
  BY <1>3 DEF OldParentsIn, TurnCycles
<1>5. Explained(t)'
  <2>1. \A x \in Present(saved) : View(t)'[x].parent = View(t)[x].parent
    BY SavedSeen DEF SameParents, Present
  <2>2. Explained(t)
    BY DEF TurnCycles
  <2> QED
    BY <1>3, <2>1, <2>2 DEF Explained
<1>6. PICK A \in SUBSET Tasks : Hold(t, A)
  BY DEF TurnCycles
<1>7. Hold(t, A)'
  <2>1. \A x \in A : owner'[x] = t /\ View(t)'[x].parent \in A \cup {None}
    BY <1>6 DEF Hold, SameParents, Present
  <2>2. pc'[t] = "undoing" => A \cap work'[t].took = {}
    BY <1>6 DEF Hold
  <2>3. ASSUME NEW e \in Events(t)' \cup Prepared(t)', NEW x \in A, Reparents(e, x)
        PROVE  e.old.parent \in A \cup {None}
    <3>1. CASE e \in log
      BY <1>6, <2>3, <3>1 DEF Hold, Events
    <3>2. CASE e \in own'[t] \cup Prepared(t)'
      <4>1. PICK d \in own[t] \cup Prepared(t) : Reparents(d, x) /\ d.old.parent = e.old.parent
        BY <2>3, <3>2
      <4> QED
        BY <1>6, <4>1 DEF Hold, Events
    <3> QED
      BY <2>3, <3>1, <3>2 DEF Events
  <2> QED
    BY <1>3, <1>6, <2>1, <2>2, <2>3 DEF Hold
<1> QED
  BY <1>2, <1>4, <1>5, <1>7 DEF TurnCycles

(* A step of t that writes rows and prepares events, none of a parent.     *)
LEMMA QuietWrite ==
    ASSUME HInv, NEW t \in Turns, TurnCycles(t), pc[t] # "flushing", saved' = saved, log' = log,
           own' = own, SameParents(View(t), View(t)'),
           \A x \in Tasks : owner[x] = t => owner'[x] = t, pc'[t] # "undoing",
           \A e \in Prepared(t)' : \A x \in Tasks : ~SetsParent(e, x)
    PROVE  TurnCycles(t)'
<1>1. Prepared(t) = {} /\ Events(t)' = Events(t)
  BY Unprepared DEF Events
<1>2. Moved(t)' = Moved(t)
  BY <1>1 DEF Moved, Reparents
<1>3. Backs(t)' = Backs(t)
  <2>1. Backs(t) = PutBack(Events(t))
    BY Unprepared
  <2>2. \A x : x \in Backs(t)' <=> x \in Tasks /\ x \in PutBack(Events(t))
    BY <1>1 DEF Backs, PutBack
  <2>3. PutBack(Events(t)) \subseteq Tasks
    BY DEF PutBack
  <2> QED
    BY <2>1, <2>2, <2>3
<1>4. \A e \in own'[t] \cup Prepared(t)' : \A x \in Tasks : Reparents(e, x) =>
           \E d \in own[t] \cup Prepared(t) : Reparents(d, x) /\ d.old.parent = e.old.parent
  BY DEF Reparents
<1> QED
  BY <1>2, <1>3, <1>4, QuietTurn

(* A step of t that only locks.                                            *)
LEMMA QuietLock ==
    ASSUME HInv, NEW t \in Turns, TurnCycles(t), pc[t] # "flushing", saved' = saved, log' = log,
           own' = own, SameParents(View(t), View(t)'), pc'[t] # "flushing",
           \A x \in Tasks : owner[x] = t =>
               \/ owner'[x] = t
               \/ pc[t] = "undoing" /\ x \in work[t].took,
           pc'[t] = "undoing" => \A x \in work'[t].took : owner[x] # t
    PROVE  TurnCycles(t)'
<1>1. Prepared(t) = {} /\ Prepared(t)' = {} /\ Events(t)' = Events(t)
  BY Unprepared DEF Events
<1>2. Moved(t)' = Moved(t)
  BY <1>1 DEF Moved
<1>3. Backs(t)' = Backs(t)
  BY <1>1 DEF Backs, PutBack
<1> QED
  BY <1>1, <1>2, <1>3, QuietTurn

LEMMA OthersKept ==
    ASSUME HInv, NEW t \in Turns, OthersStay(t), own' = own,
           \A x \in Tasks : owner'[x] = owner[x] \/ (owner[x] \in {None, t} /\ owner'[x] \in {None, t}),
           \A x \in Tasks : draft'[x] # draft[x] => owner[x] \in {None, t}
    PROVE  OthersKeep(t)
BY Nobody DEF OthersKeep, OthersStay

(* What t sees after it has locked rows and written some of them.          *)
LEMMA LockedView ==
    ASSUME HInv, NEW t \in Turns, NEW S, LockRows(t, S), saved' = saved, OthersStay(t), own' = own,
           \A x \in Tasks : draft'[x] # draft[x] => x \in S
    PROVE  /\ OthersKeep(t)
           /\ \A x \in Tasks : owner[x] = t => owner'[x] = t
           /\ \A x \in Tasks \cap S : owner'[x] = t /\ View(t)'[x] = draft'[x] /\ View(t)[x] = draft[x]
           /\ \A x \in Tasks : draft'[x] = draft[x] => View(t)'[x] = View(t)[x]
<1> USE TasksAreRows, Nobody
<1>1. /\ \A x \in Tasks : owner'[x] = owner[x] \/ (owner[x] = None /\ owner'[x] = t)
      /\ \A x \in Tasks \cap S : owner[x] \in {None, t} /\ owner'[x] = t
  BY LockedRows DEF HInv, IInv
<1>2. \A x \in Tasks : owner[x] = None => draft[x] = saved[x]
  BY DEF HInv, IInv, GInv, RowsOK
<1>3. OthersKeep(t)
  BY <1>1, OthersKept
<1>4. \A x \in Tasks \cap S : View(t)'[x] = draft'[x] /\ View(t)[x] = draft[x]
  BY <1>1, <1>2, ViewOfTasks
<1>5. \A x \in Tasks : draft'[x] = draft[x] => View(t)'[x] = View(t)[x]
  BY <1>1, <1>2, ViewOfTasks
<1> QED
  BY <1>1, <1>3, <1>4, <1>5

(* An action that writes rows and changes no parent.                       *)
LEMMA QuietWriteC ==
    ASSUME HInv, Cycles, NEW t \in Turns, pc[t] # "flushing", NEW S, LockRows(t, S),
           NEW events, NEW keys, Write(t, events, keys),
           \A x \in Tasks : \/ draft'[x] = draft[x]
                            \/ /\ x \in S /\ draft'[x] # Absent /\ View(t)[x] # Absent
                               /\ draft'[x].parent = View(t)[x].parent,
           \A i \in DOMAIN events : \A x \in Tasks : ~SetsParent(events[i], x)
    PROVE  Cycles'
<1>1. /\ saved' = saved /\ log' = log /\ own' = own /\ OthersStay(t)
      /\ pc'[t] = "flushing" /\ work'[t].events = events
  BY WriteIs DEF HInv
<1>2. /\ OthersKeep(t) /\ \A x \in Tasks : owner[x] = t => owner'[x] = t
      /\ \A x \in Tasks \cap S : View(t)'[x] = draft'[x]
      /\ \A x \in Tasks : draft'[x] = draft[x] => View(t)'[x] = View(t)[x]
  BY <1>1, LockedView
<1>3. SameParents(View(t), View(t)')
  BY <1>2 DEF SameParents
<1>4. \A e \in Prepared(t)' : \A x \in Tasks : ~SetsParent(e, x)
  BY <1>1 DEF Prepared, Pending
<1>5. TurnCycles(t)'
  BY <1>1, <1>2, <1>3, <1>4, QuietWrite DEF Cycles
<1> QED
  BY <1>1, <1>2, <1>5, OthersKeepCycles

(* An action that only takes locks.                                        *)
LEMMA QuietLockC ==
    ASSUME HInv, Cycles, NEW t \in Turns, pc[t] = "idle", NEW S, LockRows(t, S),
           UNCHANGED <<saved, log, own, pc, work>>, \A x \in Tasks : draft'[x] = draft[x]
    PROVE  Cycles'
<1>1. OthersStay(t)
  BY DEF OthersStay
<1>2. /\ OthersKeep(t) /\ \A x \in Tasks : owner[x] = t => owner'[x] = t
      /\ \A x \in Tasks : View(t)'[x] = View(t)[x]
  BY <1>1, LockedView
<1>3. SameParents(View(t), View(t)')
  BY <1>2 DEF SameParents
<1>4. TurnCycles(t)'
  BY <1>2, <1>3, QuietLock DEF Cycles
<1> QED
  BY <1>2, <1>4, OthersKeepCycles

(* The row and the event of a change of a Task.                            *)
LEMMA ChangeTask ==
    ASSUME HInv, NEW t \in Turns, NEW x \in Tasks, View(t)[x] \in TaskRow,
           NEW values \in TaskUpdates, NEW keys, Change(t, x, x, values, keys)
    PROVE  \E new, event :
               /\ Write(t, <<event>>, keys)
               /\ draft'[x] = new /\ \A y \in Tasks \ {x} : draft'[y] = draft[y]
               /\ new # Absent
               /\ event.row = x /\ event.kind = "changed"
               /\ SetsParent(event, x) =>
                      /\ "parent" \in DOMAIN values /\ new.parent = values.parent
                      /\ event.old.parent = View(t)[x].parent
               /\ ~SetsParent(event, x) => new.parent = View(t)[x].parent
<1>1. PICK old : old = View(t)[x]
  OBVIOUS
<1>2. PICK changed : changed = {f \in DOMAIN values : values[f] # old[f]}
  OBVIOUS
<1>3. PICK new : new = [f \in DOMAIN old |-> IF f \in changed THEN values[f] ELSE old[f]]
  OBVIOUS
<1>4. PICK event : event = Event("changed", x, x, Pick(old, changed), Pick(values, changed))
  OBVIOUS
<1>5. draft' = [draft EXCEPT ![x] = new] /\ Write(t, <<event>>, keys)
  BY <1>1, <1>2, <1>3, <1>4 DEF Change
<1>6. draft'[x] = new /\ \A y \in Tasks \ {x} : draft'[y] = draft[y]
  BY <1>5, DraftIs, TasksAreRows
<1>7. /\ event.row = x /\ event.kind = "changed"
      /\ event.old = Pick(old, changed) /\ event.new = Pick(values, changed)
  BY <1>4 DEF Event
<1>8. DOMAIN event.new = changed /\ ("parent" \in changed => event.old.parent = old.parent)
  BY <1>7 DEF Pick
<1>9. SetsParent(event, x) <=> "parent" \in changed
  BY <1>7, <1>8 DEF SetsParent
<1>10. "parent" \in DOMAIN old
  BY <1>1 DEF TaskRow
<1>11. new.parent = IF "parent" \in changed THEN values.parent ELSE old.parent
  BY <1>3, <1>10
<1>12. new # Absent
  <2>1. /\ changed \in SUBSET {"parent", "done"}
        /\ "parent" \in changed => values.parent \in Tasks \cup {None}
        /\ "done" \in changed => values.done \in BOOLEAN
    <3>1. \/ values \in [parent : Tasks \cup {None}]
          \/ values \in [done : BOOLEAN]
          \/ values \in [parent : Tasks \cup {None}, done : BOOLEAN]
      BY WorldAssumption
    <3> QED
      BY <1>2, <3>1
  <2>2. old \in TaskRow
    BY <1>1
  <2>3. new \in TaskRow
    BY <1>3, <2>1, <2>2, FieldsReplaced
  <2> QED
    BY <2>3, Nobody
<1> QED
  BY <1>1, <1>2, <1>5, <1>6, <1>7, <1>8, <1>9, <1>11, <1>12

(* What t sees when it has written row x and prepared its event.           *)
LEMMA WrittenParent ==
    ASSUME HInv, NEW t \in Turns, pc[t] # "flushing", NEW S, LockRows(t, S), NEW x \in Tasks \cap S,
           NEW event, NEW keys, Write(t, <<event>>, keys), SetsParent(event, x),
           \A y \in Tasks \ {x} : draft'[y] = draft[y]
    PROVE  /\ saved' = saved /\ log' = log /\ own' = own /\ pc'[t] = "flushing"
           /\ OthersKeep(t) /\ Prepared(t) = {} /\ Prepared(t)' = {event} /\ Events(t)' = Events(t)
           /\ \A y \in Tasks : owner[y] = t => owner'[y] = t
           /\ \A y \in Tasks \cap S : owner'[y] = t
           /\ View(t)'[x] = draft'[x] /\ \A y \in Tasks \ {x} : View(t)'[y] = View(t)[y]
           /\ \A y \in Tasks \ {x} : y \in Backs(t)' <=> y \in Backs(t)
           /\ x \in Backs(t)' <=> Undone(event)
           /\ Moved(t)' = Moved(t) \cup (IF event.kind = "changed" THEN {x} ELSE {})
<1>0. PICK events : events = <<event>>
  OBVIOUS
<1>1. /\ saved' = saved /\ log' = log /\ own' = own /\ OthersStay(t)
      /\ pc'[t] = "flushing" /\ work'[t].events = events
  BY <1>0, WriteIs DEF HInv
<1>2. DOMAIN events = {1} /\ events[1] = event
  BY <1>0
<1>3. Prepared(t) = {} /\ Prepared(t)' = {event} /\ Events(t)' = Events(t)
  BY <1>1, <1>2, Unprepared DEF Prepared, Pending, Events
<1>4. /\ OthersKeep(t) /\ \A y \in Tasks : owner[y] = t => owner'[y] = t
      /\ \A y \in Tasks \cap S : owner'[y] = t /\ View(t)'[y] = draft'[y]
      /\ \A y \in Tasks : draft'[y] = draft[y] => View(t)'[y] = View(t)[y]
  BY <1>1, LockedView
<1>5. \A y \in Tasks \ {x} : ~SetsParent(event, y)
  BY DEF SetsParent
<1>6. Backs(t) = PutBack(Events(t)) /\ PutBack(Events(t))' = PutBack(Events(t))
  BY <1>3, Unprepared DEF PutBack
<1>7. /\ \A y \in Tasks \ {x} : y \in Backs(t)' <=> y \in Backs(t)
      /\ x \in Backs(t)' <=> Undone(event)
  BY <1>3, <1>5, <1>6 DEF Backs
<1>8. Moved(t)' = Moved(t) \cup (IF event.kind = "changed" THEN {x} ELSE {})
  BY <1>1, <1>3 DEF Moved, Reparents, SetsParent
<1> QED
  BY <1>1, <1>3, <1>4, <1>7, <1>8

(* A command moves a Task: the turn holds every Task it sees.              *)
LEMMA MoveC ==
    ASSUME HInv, Cycles, NEW t \in Turns, pc[t] # "flushing", LockRows(t, Visible(t)),
           NEW x \in Visible(t), NEW p, ValidParent(View(t), x, p),
           NEW event, NEW keys, Write(t, <<event>>, keys), SetsParent(event, x),
           event.kind = "changed", event.old.parent = View(t)[x].parent,
           draft'[x] # Absent, draft'[x].parent = p, \A y \in Tasks \ {x} : draft'[y] = draft[y]
    PROVE  Cycles'
<1>1. Visible(t) = Present(View(t)) /\ x \in Tasks
  BY DEF Visible, Present
<1>2. /\ saved' = saved /\ log' = log /\ own' = own /\ pc'[t] = "flushing"
      /\ OthersKeep(t) /\ Prepared(t) = {} /\ Prepared(t)' = {event} /\ Events(t)' = Events(t)
      /\ \A y \in Present(View(t)) : owner'[y] = t
      /\ View(t)'[x] = draft'[x] /\ \A y \in Tasks \ {x} : View(t)'[y] = View(t)[y]
      /\ \A y \in Tasks \ {x} : y \in Backs(t)' <=> y \in Backs(t)
      /\ Moved(t)' = Moved(t) \cup {x}
  <2>1. x \in Tasks \cap Visible(t)
    BY <1>1
  <2>2. /\ saved' = saved /\ log' = log /\ own' = own /\ pc'[t] = "flushing"
        /\ OthersKeep(t) /\ Prepared(t) = {} /\ Prepared(t)' = {event} /\ Events(t)' = Events(t)
        /\ \A y \in Tasks \cap Visible(t) : owner'[y] = t
        /\ View(t)'[x] = draft'[x] /\ \A y \in Tasks \ {x} : View(t)'[y] = View(t)[y]
        /\ \A y \in Tasks \ {x} : y \in Backs(t)' <=> y \in Backs(t)
        /\ Moved(t)' = Moved(t) \cup (IF event.kind = "changed" THEN {x} ELSE {})
    BY <2>1, WrittenParent
  <2>3. \A y \in Present(View(t)) : y \in Tasks \cap Visible(t)
    BY <1>1 DEF Present
  <2> QED
    BY <2>2, <2>3
<1>3. /\ Present(View(t)') = Present(View(t)) /\ Present(View(t))' = Present(View(t))
      /\ Present(saved)' = Present(saved)
  BY <1>1, <1>2 DEF Present
<1>4. TurnCycles(t) /\ OldParentsIn(log, Present(saved))
  BY DEF Cycles
<1>5. ParentsIn(View(t)') /\ TwoBacks(View(t)', Backs(t)')
  <2>1. PICK a, b, R, Q : a = View(t) /\ b = View(t)' /\ R = Backs(t) /\ Q = Backs(t)'
    OBVIOUS
  <2>2. x \in Present(a) /\ ValidParent(a, x, p) /\ ParentsIn(a) /\ TwoBacks(a, R)
    BY <1>1, <1>4, <2>1 DEF TurnCycles
  <2>3. /\ Present(b) = Present(a) /\ b[x].parent = p
        /\ \A y \in Tasks \ {x} : y \in Q <=> y \in R
        /\ \A y \in Present(a) \ {x} : b[y].parent = a[y].parent
    BY <1>2, <1>3, <2>1 DEF Present
  <2>4. ParentsIn(b) /\ TwoBacks(b, Q)
    BY <2>2, <2>3, ValidParentOK
  <2> QED
    BY <2>1, <2>4
<1>6. OldParentsIn(own'[t] \cup Prepared(t)', Present(View(t)'))
  <2>1. View(t)[x].parent \in Present(View(t)) \cup {None}
    BY <1>1, <1>4 DEF TurnCycles, ParentsIn
  <2>2. OldParentsIn(own[t], Present(View(t)))
    BY <1>2, <1>4 DEF TurnCycles, OldParentsIn
  <2> QED
    BY <1>2, <1>3, <2>1, <2>2 DEF OldParentsIn
<1>7. Explained(t)'
  <2>1. PutBack(log)' = PutBack(log)
    BY <1>2 DEF PutBack
  <2>2. \A y \in Present(saved) : y \in Tasks
    BY DEF Present
  <2> QED
    BY <1>2, <1>3, <1>4, <2>1, <2>2 DEF TurnCycles, Explained
<1>8. Hold(t, Present(View(t)))'
  <2>1. Moved(t)' \subseteq Present(View(t)')
    <3>1. Moved(t) \subseteq Present(View(t))
      BY <1>4 DEF TurnCycles, Hold
    <3> QED
      BY <1>1, <1>2, <1>3, <3>1
  <2>2. \A y \in Present(View(t)') : View(t)'[y].parent \in Present(View(t)') \cup {None}
    BY <1>5 DEF ParentsIn
  <2>3. Present(saved) \subseteq Present(View(t))
    BY SavedSeen
  <2>4. \A e \in Events(t) \cup Prepared(t)' : \A y \in Present(View(t)') :
            Reparents(e, y) => e.old.parent \in Present(View(t)') \cup {None}
    BY <1>2, <1>3, <1>4, <1>6, <2>3 DEF OldParentsIn, Events, Present
  <2> QED
    BY <1>2, <1>3, <2>1, <2>2, <2>4 DEF Hold
<1>9. TurnCycles(t)'
  <2>1. (ParentsIn(View(t)) /\ TwoBacks(View(t), Backs(t)))'
    BY <1>5 DEF ParentsIn, TwoBacks, Present
  <2>2. OldParentsIn(own[t] \cup Prepared(t), Present(View(t)))'
    BY <1>3, <1>6 DEF OldParentsIn
  <2>3. Present(View(t))' \in SUBSET Tasks
    BY DEF Present
  <2> QED
    BY <1>7, <1>8, <2>1, <2>2, <2>3 DEF TurnCycles
<1> QED
  BY <1>2, <1>9, OthersKeepCycles

LEMMA UpdateTaskC ==
    ASSUME HInv, Cycles, NEW t \in Turns, NEW x \in Tasks, NEW values \in TaskUpdates,
           UpdateTask(t, x, values)
    PROVE  Cycles'
<1>1. PICK keys, S :
        /\ pc[t] = "idle" /\ x \in Visible(t) /\ LockRows(t, S)
        /\ S = IF "parent" \in DOMAIN values THEN Visible(t) ELSE {x}
        /\ "parent" \in DOMAIN values => ValidParent(View(t), x, values.parent)
        /\ Change(t, x, x, values, keys)
  BY DEF UpdateTask, Begin
<1>2. View(t)[x] \in TaskRow
  BY <1>1, TasksAreRows DEF Visible, View, HInv, IInv, GInv, RowsOK, TasksTyped
<1>3. PICK new, event :
        /\ Write(t, <<event>>, keys)
        /\ draft'[x] = new /\ \A y \in Tasks \ {x} : draft'[y] = draft[y]
        /\ new # Absent
        /\ event.row = x /\ event.kind = "changed"
        /\ SetsParent(event, x) =>
               /\ "parent" \in DOMAIN values /\ new.parent = values.parent
               /\ event.old.parent = View(t)[x].parent
        /\ ~SetsParent(event, x) => new.parent = View(t)[x].parent
  <2>1. Change(t, x, x, values, keys)
    BY <1>1
  <2> QED
    BY <1>2, <2>1, ChangeTask
<1>4. CASE SetsParent(event, x)
  BY <1>1, <1>3, <1>4, MoveC
<1>5. CASE ~SetsParent(event, x)
  <2>1. PICK events : events = <<event>>
    OBVIOUS
  <2>2. \A i \in DOMAIN events : \A y \in Tasks : ~SetsParent(events[i], y)
    BY <1>3, <1>5, <2>1 DEF SetsParent
  <2>3. x \in S /\ View(t)[x] # Absent
    BY <1>1, <1>2, Nobody
  <2>4. Write(t, events, keys)
    BY <1>3, <2>1
  <2>5. \A y \in Tasks : \/ draft'[y] = draft[y]
                         \/ /\ y \in S /\ draft'[y] # Absent /\ View(t)[y] # Absent
                            /\ draft'[y].parent = View(t)[y].parent
    BY <1>3, <1>5, <2>3
  <2> QED
    BY <1>1, <2>2, <2>4, <2>5, QuietWriteC
<1> QED
  BY <1>4, <1>5

LEMMA CreateTaskC ==
    ASSUME HInv, Cycles, NEW t \in Turns, NEW x \in Tasks, NEW row \in NewTasks, CreateTask(t, x, row)
    PROVE  Cycles'
<1>1. PICK event, keys :
        /\ event = Event("recorded", x, x, Nothing, row)
        /\ pc[t] = "idle" /\ saved[x] = Absent /\ owner[x] = None
        /\ row.needs \cup ({row.parent} \ {None}) \subseteq Visible(t)
        /\ owner' = [owner EXCEPT ![x] = t] /\ draft' = [draft EXCEPT ![x] = row]
        /\ Write(t, <<event>>, keys)
  BY DEF CreateTask, Begin
<1>2. row \in TaskRow /\ row # Absent /\ row.parent \in Present(View(t)) \cup {None}
  BY <1>1, WorldAssumption DEF Visible, Present
<1>3. LockRows(t, {x})
  <2>1. \A u \in Turns \ {t} : x \notin sharers[u]
    BY <1>1, Nobody DEF HInv, Locks, KeysOK
  <2>2. owner' = [r \in Rows |-> IF r \in {x} THEN t ELSE owner[r]]
    BY <1>1, TasksAreRows DEF HInv, IInv, GInv, RowsOK
  <2> QED
    BY <1>1, <2>1, <2>2 DEF LockRows, CanLock
<1>4. draft'[x] = row /\ \A y \in Tasks \ {x} : draft'[y] = draft[y]
  BY <1>1, DraftIs, TasksAreRows
<1>5. SetsParent(event, x) /\ event.kind = "recorded"
  BY <1>1, <1>2 DEF Event, SetsParent, TaskRow
<1>6. /\ saved' = saved /\ log' = log /\ own' = own /\ pc'[t] = "flushing"
      /\ OthersKeep(t) /\ Prepared(t) = {} /\ Prepared(t)' = {event} /\ Events(t)' = Events(t)
      /\ \A y \in Tasks : owner[y] = t => owner'[y] = t
      /\ View(t)'[x] = row /\ \A y \in Tasks \ {x} : View(t)'[y] = View(t)[y]
      /\ \A y \in Tasks \ {x} : y \in Backs(t)' <=> y \in Backs(t)
      /\ Moved(t)' = Moved(t)
  <2>1. x \in Tasks \cap {x} /\ pc[t] # "flushing"
    BY <1>1
  <2>2. /\ saved' = saved /\ log' = log /\ own' = own /\ pc'[t] = "flushing"
        /\ OthersKeep(t) /\ Prepared(t) = {} /\ Prepared(t)' = {event} /\ Events(t)' = Events(t)
        /\ \A y \in Tasks : owner[y] = t => owner'[y] = t
        /\ View(t)'[x] = draft'[x] /\ \A y \in Tasks \ {x} : View(t)'[y] = View(t)[y]
        /\ \A y \in Tasks \ {x} : y \in Backs(t)' <=> y \in Backs(t)
        /\ Moved(t)' = Moved(t) \cup (IF event.kind = "changed" THEN {x} ELSE {})
    BY <1>1, <1>3, <1>4, <1>5, <2>1, WrittenParent
  <2> QED
    BY <1>4, <1>5, <2>2
<1>7. /\ x \notin Present(View(t)) /\ Present(View(t)') = Present(View(t)) \cup {x}
      /\ Present(View(t))' = Present(View(t)')
      /\ Present(saved)' = Present(saved) /\ x \notin Present(saved)
  <2>1. View(t)[x] = Absent
    BY <1>1, Nobody, ViewOfTasks
  <2> QED
    BY <1>1, <1>2, <1>6, <2>1 DEF Present
<1>8. TurnCycles(t) /\ \A y \in Present(View(t)) : y \in Tasks
  BY DEF Cycles, Present
<1>9. ParentsIn(View(t)') /\ TwoBacks(View(t)', Backs(t)')
  <2>1. PICK a, b, R, Q : a = View(t) /\ b = View(t)' /\ R = Backs(t) /\ Q = Backs(t)'
    OBVIOUS
  <2>2. ParentsIn(a) /\ TwoBacks(a, R)
    BY <1>8, <2>1 DEF TurnCycles
  <2>3. /\ x \in Tasks \ Present(a) /\ Present(b) = Present(a) \cup {x}
        /\ b[x].parent \in Present(a) \cup {None}
        /\ \A y \in Tasks \ {x} : y \in Q <=> y \in R
        /\ \A y \in Present(a) : b[y].parent = a[y].parent
    BY <1>2, <1>6, <1>7, <1>8, <2>1
  <2>4. ParentsIn(b) /\ TwoBacks(b, Q)
    BY <2>2, <2>3, NewTaskParents
  <2> QED
    BY <2>1, <2>4
<1>10. (ParentsIn(View(t)) /\ TwoBacks(View(t), Backs(t)))'
  BY <1>9 DEF ParentsIn, TwoBacks, Present
<1>11. OldParentsIn(own[t] \cup Prepared(t), Present(View(t)))'
  BY <1>5, <1>6, <1>7, <1>8 DEF TurnCycles, OldParentsIn, Reparents
<1>12. Explained(t)'
  <2>1. PutBack(log)' = PutBack(log)
    BY <1>6 DEF PutBack
  <2>2. \A y \in Present(saved) : y \in Tasks \ {x}
    BY <1>7 DEF Present
  <2> QED
    BY <1>6, <1>7, <1>8, <2>1, <2>2 DEF TurnCycles, Explained
<1>13. PICK A \in SUBSET Tasks : Hold(t, A)
  BY <1>8 DEF TurnCycles
<1>14. Hold(t, A)'
  <2>1. \A y \in A : y \in Present(View(t)) /\ y # x
    BY <1>7, <1>13 DEF Hold
  <2>2. \A y \in A : owner'[y] = t /\ View(t)'[y].parent \in A \cup {None}
    BY <1>6, <1>13, <2>1 DEF Hold
  <2>3. \A e \in Events(t)' \cup Prepared(t)' : \A y \in A : Reparents(e, y) =>
            e.old.parent \in A \cup {None}
    BY <1>5, <1>6, <1>13 DEF Hold, Reparents
  <2> QED
    BY <1>6, <1>7, <1>13, <2>1, <2>2, <2>3 DEF Hold
<1>15. TurnCycles(t)'
  BY <1>10, <1>11, <1>12, <1>14 DEF TurnCycles
<1> QED
  BY <1>6, <1>15, OthersKeepCycles

LEMMA LinkTaskGoalC ==
    ASSUME HInv, Cycles, NEW t \in Turns, NEW x \in Tasks, LinkTaskGoal(t, x)
    PROVE  Cycles'
<1>1. pc[t] = "idle" /\ x \in Visible(t) /\ LockRows(t, {x, Goal})
  BY DEF LinkTaskGoal, Begin
<1>2. CASE Unwritten
  BY <1>1, <1>2, QuietLockC DEF Unwritten, rows, history
<1>3. CASE ~Unwritten
  <2>1. PICK new, events :
          /\ new = [View(t)[x] EXCEPT !.linked = TRUE]
          /\ events = <<Event("recorded", x, x, Only("linked", FALSE), Only("linked", TRUE))>>
    OBVIOUS
  <2>2. Write(t, events, {}) /\ draft' = [draft EXCEPT ![x] = new]
    BY <1>3, <2>1 DEF LinkTaskGoal
  <2>3. View(t)[x] \in TaskRow
    BY <1>1, TasksAreRows DEF Visible, View, HInv, IInv, GInv, RowsOK, TasksTyped
  <2>4. new \in TaskRow /\ new.parent = View(t)[x].parent
    BY <2>1, <2>3 DEF TaskRow
  <2>5. draft'[x] = new /\ \A y \in Tasks \ {x} : draft'[y] = draft[y]
    BY <2>2, DraftIs, TasksAreRows
  <2>6. \A i \in DOMAIN events : \A y \in Tasks : ~SetsParent(events[i], y)
    BY <2>1 DEF SetsParent, Event, Only
  <2>7. \A y \in Tasks : \/ draft'[y] = draft[y]
                         \/ /\ y \in {x, Goal} /\ draft'[y] # Absent /\ View(t)[y] # Absent
                            /\ draft'[y].parent = View(t)[y].parent
    BY <2>3, <2>4, <2>5, Nobody
  <2> QED
    BY <1>1, <2>2, <2>6, <2>7, QuietWriteC
<1> QED
  BY <1>2, <1>3

LEMMA AddDependencyC ==
    ASSUME HInv, Cycles, NEW t \in Turns, NEW p \in Tasks, NEW x \in Tasks, AddDependency(t, p, x)
    PROVE  Cycles'
<1>1. PICK needs, more : needs = View(t)[x].needs /\ more = needs \cup {p}
  OBVIOUS
<1>2. /\ pc[t] = "idle" /\ x \in Visible(t) /\ LockRows(t, Visible(t))
      /\ \/ Unwritten
         \/ /\ draft' = [draft EXCEPT ![x] = [View(t)[x] EXCEPT !.needs = more]]
            /\ Write(t, <<Event("recorded", x, x, Only("needs", needs), Only("needs", more))>>, {p})
  BY <1>1 DEF AddDependency, Begin
<1>3. CASE Unwritten
  BY <1>2, <1>3, QuietLockC DEF Unwritten, rows, history
<1>4. CASE ~Unwritten
  <2>1. PICK new, events :
          /\ new = [View(t)[x] EXCEPT !.needs = more]
          /\ events = <<Event("recorded", x, x, Only("needs", needs), Only("needs", more))>>
    OBVIOUS
  <2>2. Write(t, events, {p}) /\ draft' = [draft EXCEPT ![x] = new]
    BY <1>2, <1>4, <2>1
  <2>3. View(t)[x] \in TaskRow
    BY <1>2, TasksAreRows DEF Visible, View, HInv, IInv, GInv, RowsOK, TasksTyped
  <2>4. new \in TaskRow /\ new.parent = View(t)[x].parent
    BY <1>1, <2>1, <2>3 DEF TaskRow
  <2>5. draft'[x] = new /\ \A y \in Tasks \ {x} : draft'[y] = draft[y]
    BY <2>2, DraftIs, TasksAreRows
  <2>6. \A i \in DOMAIN events : \A y \in Tasks : ~SetsParent(events[i], y)
    BY <2>1 DEF SetsParent, Event, Only
  <2>7. \A y \in Tasks : \/ draft'[y] = draft[y]
                         \/ /\ y \in Visible(t) /\ draft'[y] # Absent /\ View(t)[y] # Absent
                            /\ draft'[y].parent = View(t)[y].parent
    BY <1>2, <2>3, <2>4, <2>5, Nobody
  <2> QED
    BY <1>2, <2>2, <2>6, <2>7, QuietWriteC
<1> QED
  BY <1>3, <1>4

(* An action that writes no Task.                                          *)
LEMMA ElsewhereC ==
    ASSUME HInv, Cycles, NEW t \in Turns, pc[t] # "flushing", NEW S, LockRows(t, S),
           NEW events, NEW keys, Write(t, events, keys), \A x \in Tasks : draft'[x] = draft[x],
           \A i \in DOMAIN events : events[i].row \notin Tasks
    PROVE  Cycles'
<1>1. \A i \in DOMAIN events : \A x \in Tasks : ~SetsParent(events[i], x)
  BY DEF SetsParent
<1> QED
  BY <1>1, QuietWriteC

LEMMA ChangeElsewhereC ==
    ASSUME HInv, Cycles, NEW t \in Turns, NEW r \in Rows \ Tasks, pc[t] = "idle", LockRows(t, {r}),
           NEW on, NEW values, Change(t, r, on, values, {})
    PROVE  Cycles'
<1>1. PICK old, changed, events, new :
        /\ old = View(t)[r] /\ changed = {f \in DOMAIN values : values[f] # old[f]}
        /\ events = <<Event("changed", on, r, Pick(old, changed), Pick(values, changed))>>
        /\ new = [f \in DOMAIN old |-> IF f \in changed THEN values[f] ELSE old[f]]
  OBVIOUS
<1>2. Write(t, events, {}) /\ draft' = [draft EXCEPT ![r] = new]
  BY <1>1 DEF Change
<1>3. \A x \in Tasks : draft'[x] = draft[x]
  BY <1>2, DraftIs, TasksAreRows
<1>4. \A i \in DOMAIN events : events[i].row \notin Tasks
  BY <1>1 DEF Event
<1> QED
  BY <1>2, <1>3, <1>4, ElsewhereC

LEMMA DecisionC ==
    ASSUME HInv, Cycles, NEW t \in Turns, NEW d \in Decisions,
           \/ CreateDecision(t, d) \/ RevokeDecision(t, d)
           \/ \E old \in Decisions : SupersedeDecision(t, d, old)
    PROVE  Cycles'
<1>1. PICK S, events :
        /\ pc[t] = "idle" /\ LockRows(t, S) /\ Write(t, events, {})
        /\ \A x \in Tasks : draft'[x] = draft[x]
        /\ \A i \in DOMAIN events : events[i].row \notin Tasks
  <2>0. \A r \in Decisions : r \notin Tasks
    BY TasksAreRows
  <2>1. CASE CreateDecision(t, d)
    <3>1. PICK events : events = <<Event("recorded", d, d, Nothing, NewDecision)>>
      OBVIOUS
    <3>2. /\ pc[t] = "idle" /\ LockRows(t, {d}) /\ Write(t, events, {})
          /\ draft' = [draft EXCEPT ![d] = NewDecision]
      BY <2>1, <3>1 DEF CreateDecision, Begin
    <3>3. \A x \in Tasks : draft'[x] = draft[x]
      BY <2>0, <3>2, DraftIs, TasksAreRows
    <3>4. \A i \in DOMAIN events : events[i].row \notin Tasks
      BY <2>0, <3>1 DEF Event
    <3> QED
      BY <3>2, <3>3, <3>4
  <2>2. CASE RevokeDecision(t, d)
    <3>1. PICK events, new :
            /\ events = <<Event("recorded", d, d, Only("status", "ACTIVE"), Only("status", "REVOKED"))>>
            /\ new = [View(t)[d] EXCEPT !.status = "REVOKED"]
      OBVIOUS
    <3>2. /\ pc[t] = "idle" /\ LockRows(t, {d}) /\ Write(t, events, {})
          /\ draft' = [draft EXCEPT ![d] = new]
      BY <2>2, <3>1 DEF RevokeDecision, Begin
    <3>3. \A x \in Tasks : draft'[x] = draft[x]
      BY <2>0, <3>2, DraftIs, TasksAreRows
    <3>4. \A i \in DOMAIN events : events[i].row \notin Tasks
      BY <2>0, <3>1 DEF Event
    <3> QED
      BY <3>2, <3>3, <3>4
  <2>3. ASSUME NEW old \in Decisions, SupersedeDecision(t, d, old)
        PROVE  \E S, events :
                 /\ pc[t] = "idle" /\ LockRows(t, S) /\ Write(t, events, {})
                 /\ \A x \in Tasks : draft'[x] = draft[x]
                 /\ \A i \in DOMAIN events : events[i].row \notin Tasks
    <3>1. PICK row, new, before, after :
            /\ row = [NewDecision EXCEPT !.supersedes = old]
            /\ new = [View(t)[old] EXCEPT !.status = "SUPERSEDED", !.successor = d]
            /\ before = [status |-> "ACTIVE", successor |-> None]
            /\ after = [status |-> "SUPERSEDED", successor |-> d]
      OBVIOUS
    <3>2. PICK events : events = <<Event("recorded", old, old, before, after),
                                   Event("recorded", d, d, Nothing, row)>>
      OBVIOUS
    <3>3. /\ pc[t] = "idle" /\ LockRows(t, {d, old}) /\ Write(t, events, {})
          /\ draft' = [draft EXCEPT ![d] = row, ![old] = new]
      BY <2>3, <3>1, <3>2 DEF SupersedeDecision, Begin
    <3>4. \A x \in Tasks : draft'[x] = draft[x]
      BY <2>0, <3>3, TasksAreRows DEF HInv, IInv, GInv, RowsOK
    <3>5. \A i \in DOMAIN events : events[i].row \notin Tasks
      BY <2>0, <3>2 DEF Event
    <3> QED
      BY <3>3, <3>4, <3>5
  <2> QED
    BY <2>1, <2>2, <2>3
<1> QED
  BY <1>1, ElsewhereC

LEMMA LocksOnlyC ==
    ASSUME HInv, Cycles, NEW t \in Turns, CacheSummary(t) \/ Refused(t)
    PROVE  Cycles'
<1>1. pc[t] = "idle" /\ UNCHANGED <<saved, log, own, pc, work>>
  BY DEF CacheSummary, Refused, Begin, rows, history
<1>2. CASE CacheSummary(t)
  <2>1. /\ LockRows(t, {Project})
        /\ draft' = [draft EXCEPT ![Project] = {e.at : e \in Events(t)}]
    BY <1>2 DEF CacheSummary
  <2>2. \A x \in Tasks : draft'[x] = draft[x]
    BY <2>1, DraftIs, TasksAreRows
  <2> QED
    BY <1>1, <2>1, <2>2, QuietLockC
<1>3. CASE Refused(t)
  <2>1. draft' = draft /\ owner' = owner
    BY <1>3 DEF Refused, rows
  <2>2. LockRows(t, {})
    BY <2>1 DEF LockRows, CanLock, HInv, IInv, GInv, RowsOK
  <2> QED
    BY <1>1, <2>1, <2>2, QuietLockC
<1> QED
  BY <1>2, <1>3

LEMMA BeginUndoC ==
    ASSUME HInv, Cycles, NEW t \in Turns, NEW x \in Tasks \cup {Goal}, NEW everywhere \in BOOLEAN,
           BeginUndo(t, x, everywhere)
    PROVE  Cycles'
<1>1. PICK took : took = {x} \ {r \in Rows : owner[r] = t}
  OBVIOUS
<1>2. PICK e :
        /\ pc[t] = "idle" /\ LockRows(t, {x}) /\ pc' = [pc EXCEPT ![t] = "undoing"]
        /\ work' = [work EXCEPT ![t].undoes = e, ![t].everywhere = everywhere, ![t].took = took]
        /\ UNCHANGED <<saved, draft, log, own>>
  BY <1>1 DEF BeginUndo, Begin, rows, history
<1>3. /\ work' = [work EXCEPT ![t] = [work[t] EXCEPT !.undoes = e, !.everywhere = everywhere,
                                                   !.took = took]]
      /\ DOMAIN work[t] = {"events", "keys", "undoes", "everywhere", "took"}
  BY <1>2 DEF HInv, IInv, EInv
<1>4. work'[t].took = took /\ pc'[t] = "undoing" /\ OthersStay(t)
  BY <1>2, <1>3 DEF HInv, IInv, EInv, OthersStay
<1>5. /\ OthersKeep(t) /\ \A y \in Tasks : owner[y] = t => owner'[y] = t
      /\ \A y \in Tasks : View(t)'[y] = View(t)[y]
  BY <1>2, <1>4, LockedView
<1>6. SameParents(View(t), View(t)')
  BY <1>5 DEF SameParents
<1>7. \A r \in took : owner[r] # t
  BY <1>1, TasksAreRows
<1>8. TurnCycles(t)'
  BY <1>2, <1>4, <1>5, <1>6, <1>7, QuietLock DEF Cycles
<1> QED
  BY <1>2, <1>5, <1>8, OthersKeepCycles

(* The old parent is put back, if it closes no cycle that the turn sees.   *)
LEMMA RestoreC ==
    ASSUME HInv, Cycles, NEW t \in Turns, Restore(t)
    PROVE  Cycles'
<1>1. PICK e, old : e = work[t].undoes /\ old = View(t)[e.row]
  OBVIOUS
<1>2. PICK new, event, keys :
        /\ new = [f \in DOMAIN old |-> IF f \in DOMAIN e.old THEN e.old[f] ELSE old[f]]
        /\ event = [Event("undone", e.on, e.row, Pick(old, DOMAIN e.old), e.old)
                       EXCEPT !.reverses = e.at, !.everywhere = work[t].everywhere]
        /\ keys = IF "parent" \in DOMAIN e.old THEN {e.old.parent} \ {None} ELSE {}
  OBVIOUS
<1>3. /\ pc[t] = "undoing" /\ old # Absent /\ LockRows(t, {e.row})
      /\ "parent" \in DOMAIN e.old => ValidParent(View(t), e.row, e.old.parent)
      /\ draft' = [draft EXCEPT ![e.row] = new]
      /\ Write(t, <<event>>, keys)
  BY <1>1, <1>2 DEF Restore
<1>4. /\ e \in Events(t) /\ e.kind = "changed" /\ ShapeOK(e)
      /\ e.row \in Rows /\ DOMAIN e.old = DOMAIN e.new
  <2>1. UndoOK(t, e)
    BY <1>1, <1>3 DEF HInv, Work, WorkOK
  <2>2. e \in Events(t) /\ e.kind = "changed" /\ ShapeOK(e)
    BY <2>1 DEF UndoOK, Reversible, HInv, Sets, SetOK, DatesOK
  <2> QED
    BY <2>2 DEF ShapeOK
<1>5. event.row = e.row /\ event.kind = "undone" /\ event.new = e.old
  BY <1>2 DEF Event
<1>6. draft'[e.row] = new /\ \A r \in Rows \ {e.row} : draft'[r] = draft[r]
  BY <1>3, <1>4, DraftIs
<1>7. CASE e.row \notin Tasks
  <2>1. PICK events : events = <<event>>
    OBVIOUS
  <2>2. Write(t, events, keys) /\ \A i \in DOMAIN events : events[i].row \notin Tasks
    BY <1>3, <1>5, <1>7, <2>1
  <2>3. \A x \in Tasks : draft'[x] = draft[x]
    BY <1>6, <1>7, TasksAreRows
  <2>4. pc[t] # "flushing"
    BY <1>3
  <2> QED
    BY <1>3, <2>2, <2>3, <2>4, ElsewhereC
<1>8. CASE e.row \in Tasks
  <2> DEFINE x == e.row
  <2>1. old \in TaskRow
    <3>1. old \in TaskRow \cup {Absent}
      BY <1>1, <1>8, TasksAreRows DEF View, HInv, IInv, GInv, RowsOK, TasksTyped
    <3> QED
      BY <1>3, <3>1
  <2>2. e.old \in OldValues
    BY <1>1, <1>3, <1>4, <1>8 DEF HInv, IInv, EInv, EventOK
  <2>3. /\ DOMAIN e.old \in SUBSET {"parent", "done"}
        /\ "parent" \in DOMAIN e.old => e.old.parent \in Tasks \cup {None}
        /\ "done" \in DOMAIN e.old => e.old.done \in BOOLEAN
    BY <2>2 DEF OldValues
  <2>4. new \in TaskRow
    <3>1. PICK S, values : S = DOMAIN e.old /\ values = e.old
      OBVIOUS
    <3>2. new = [f \in DOMAIN old |-> IF f \in S THEN values[f] ELSE old[f]]
      BY <1>2, <3>1
    <3>3. /\ S \in SUBSET {"parent", "done"}
          /\ "parent" \in S => values.parent \in Tasks \cup {None}
          /\ "done" \in S => values.done \in BOOLEAN
      BY <2>3, <3>1
    <3> QED
      BY <2>1, <3>2, <3>3 DEF TaskRow
  <2>5. new.parent = IF "parent" \in DOMAIN e.old THEN e.old.parent ELSE old.parent
    BY <1>2, <2>1 DEF TaskRow
  <2>6. new # Absent /\ old # Absent
    BY <2>1, <2>4, Nobody
  <2>7. CASE "parent" \notin DOMAIN e.old
    <3>1. PICK events : events = <<event>>
      OBVIOUS
    <3>2. Write(t, events, keys) /\ \A i \in DOMAIN events : \A y \in Tasks : ~SetsParent(events[i], y)
      BY <1>3, <1>5, <2>7, <3>1 DEF SetsParent
    <3>3. \A y \in Tasks : \/ draft'[y] = draft[y]
                           \/ /\ y \in {x} /\ draft'[y] # Absent /\ View(t)[y] # Absent
                              /\ draft'[y].parent = View(t)[y].parent
      BY <1>1, <1>6, <2>5, <2>6, <2>7, TasksAreRows
    <3>4. pc[t] # "flushing"
      BY <1>3
    <3> QED
      BY <1>3, <3>2, <3>3, <3>4, QuietWriteC
  <2>8. CASE "parent" \in DOMAIN e.old
    <3>1. /\ SetsParent(event, x) /\ ~(event.kind = "changed") /\ Undone(event)
          /\ Reparents(e, x)
      BY <1>4, <1>5, <2>8 DEF SetsParent, Undone, Reparents
    <3>2. /\ saved' = saved /\ log' = log /\ own' = own /\ pc'[t] = "flushing"
          /\ OthersKeep(t) /\ Prepared(t) = {} /\ Prepared(t)' = {event} /\ Events(t)' = Events(t)
          /\ \A y \in Tasks : owner[y] = t => owner'[y] = t
          /\ View(t)'[x] = new /\ \A y \in Tasks \ {x} : View(t)'[y] = View(t)[y]
          /\ \A y \in Tasks \ {x} : y \in Backs(t)' <=> y \in Backs(t)
          /\ x \in Backs(t)' /\ Moved(t)' = Moved(t)
      <4>1. x \in Tasks \cap {x} /\ pc[t] # "flushing" /\ \A y \in Tasks \ {x} : draft'[y] = draft[y]
        BY <1>3, <1>6, <1>8, TasksAreRows
      <4>2. /\ saved' = saved /\ log' = log /\ own' = own /\ pc'[t] = "flushing"
            /\ OthersKeep(t) /\ Prepared(t) = {} /\ Prepared(t)' = {event} /\ Events(t)' = Events(t)
            /\ \A y \in Tasks : owner[y] = t => owner'[y] = t
            /\ View(t)'[x] = draft'[x] /\ \A y \in Tasks \ {x} : View(t)'[y] = View(t)[y]
            /\ \A y \in Tasks \ {x} : y \in Backs(t)' <=> y \in Backs(t)
            /\ x \in Backs(t)' <=> Undone(event)
            /\ Moved(t)' = Moved(t) \cup (IF event.kind = "changed" THEN {x} ELSE {})
        BY <1>3, <3>1, <4>1, WrittenParent
      <4> QED
        BY <1>6, <3>1, <4>2
    <3>3. /\ x \in Present(View(t)) /\ Present(View(t)') = Present(View(t))
          /\ Present(View(t))' = Present(View(t)') /\ Present(saved)' = Present(saved)
      BY <1>1, <1>8, <2>6, <3>2 DEF Present
    <3>4. TurnCycles(t) /\ \A y \in Present(View(t)) : y \in Tasks
      BY DEF Cycles, Present
    <3>5. ParentsIn(View(t)') /\ TwoBacks(View(t)', Backs(t)')
      <4>1. PICK a, b, R, Q, p :
              a = View(t) /\ b = View(t)' /\ R = Backs(t) /\ Q = Backs(t)' /\ p = e.old.parent
        OBVIOUS
      <4>2. x \in Present(a) /\ ValidParent(a, x, p) /\ ParentsIn(a) /\ TwoBacks(a, R)
        BY <1>3, <2>8, <3>3, <3>4, <4>1 DEF TurnCycles
      <4>3. /\ Present(b) = Present(a) /\ b[x].parent = p
            /\ \A y \in Tasks \ {x} : y \in Q <=> y \in R
            /\ \A y \in Present(a) \ {x} : b[y].parent = a[y].parent
        BY <2>5, <2>8, <3>2, <3>3, <3>4, <4>1
      <4>4. ParentsIn(b) /\ TwoBacks(b, Q)
        BY <4>2, <4>3, ValidParentOK, SMTT(30)
      <4> QED
        BY <4>1, <4>4
    <3>6. (ParentsIn(View(t)) /\ TwoBacks(View(t), Backs(t)))'
      BY <3>5 DEF ParentsIn, TwoBacks, Present
    <3>7. OldParentsIn(own[t] \cup Prepared(t), Present(View(t)))'
      BY <3>1, <3>2, <3>3, <3>4 DEF TurnCycles, OldParentsIn, Reparents
    <3>8. Explained(t)'
      <4>1. PutBack(log)' = PutBack(log)
        BY <3>2 DEF PutBack
      <4>2. \A y \in Present(saved) : y \in Tasks
        BY DEF Present
      <4> QED
        BY <3>2, <3>3, <3>4, <4>1, <4>2 DEF TurnCycles, Explained
    <3>9. PICK A \in SUBSET Tasks : Hold(t, A)
      BY <3>4 DEF TurnCycles
    <3>10. Hold(t, A)'
      <4>1. \A y \in A : owner'[y] = t /\ View(t)'[y].parent \in A \cup {None}
        <5>1. x \in A => new.parent \in A \cup {None}
          BY <1>4, <2>5, <2>8, <3>1, <3>9 DEF Hold
        <5> QED
          BY <3>2, <3>9, <5>1 DEF Hold
      <4>2. \A d \in Events(t)' \cup Prepared(t)' : \A y \in A : Reparents(d, y) =>
                d.old.parent \in A \cup {None}
        BY <3>1, <3>2, <3>9 DEF Hold, Reparents
      <4> QED
        BY <3>2, <3>3, <3>9, <4>1, <4>2 DEF Hold
    <3>11. TurnCycles(t)'
      BY <3>6, <3>7, <3>8, <3>10 DEF TurnCycles
    <3> QED
      BY <3>2, <3>11, OthersKeepCycles
  <2> QED
    BY <2>7, <2>8
<1> QED
  BY <1>7, <1>8

(* What was locked for the undo is released, and is as it was.             *)
LEMMA RefuseUndoC ==
    ASSUME HInv, Cycles, NEW t \in Turns, RefuseUndo(t)
    PROVE  Cycles'
<1>1. PICK took : took = work[t].took
  OBVIOUS
<1>2. /\ pc[t] = "undoing" /\ UNCHANGED <<saved, draft, log, own>>
      /\ owner' = [r \in Rows |-> IF r \in took THEN None ELSE owner[r]]
      /\ pc' = [pc EXCEPT ![t] = "idle"] /\ work' = [work EXCEPT ![t] = NoWork]
  BY <1>1 DEF RefuseUndo, rows, history
<1>3. pc'[t] = "idle" /\ OthersStay(t)
  BY <1>2 DEF OthersStay, HInv, IInv, EInv
<1>4. \A r \in took : owner[r] = t /\ draft[r] = saved[r]
  BY <1>1, <1>2 DEF HInv, Work, WorkOK, UndoOK
<1>5. \A x \in Tasks : owner'[x] = IF x \in took THEN None ELSE owner[x]
  BY <1>2, TasksAreRows
<1>6. OthersKeep(t)
  BY <1>2, <1>3, <1>4, <1>5, OthersKept
<1>7. \A x \in Tasks : View(t)'[x] = View(t)[x]
  BY <1>2, <1>4, <1>5, ViewOfTasks, Nobody
<1>8. SameParents(View(t), View(t)')
  BY <1>7 DEF SameParents
<1>9. TurnCycles(t)'
  BY <1>1, <1>2, <1>3, <1>5, <1>8, QuietLock DEF Cycles
<1> QED
  BY <1>2, <1>6, <1>9, OthersKeepCycles

LEMMA AbortC ==
    ASSUME HInv, Cycles, NEW t \in Turns, Abort(t)
    PROVE  Cycles'
<1>1. /\ draft' = [r \in Rows |-> IF owner[r] = t THEN saved[r] ELSE draft[r]]
      /\ owner' = [r \in Rows |-> IF owner[r] = t THEN None ELSE owner[r]]
      /\ own' = [own EXCEPT ![t] = {}]
      /\ pc' = [pc EXCEPT ![t] = "idle"] /\ work' = [work EXCEPT ![t] = NoWork]
      /\ saved' = saved /\ log' = log
  BY DEF Abort, Release
<1>2. /\ own'[t] = {} /\ pc'[t] = "idle" /\ OthersStay(t)
      /\ \A u \in Turns \ {t} : own'[u] = own[u]
  BY <1>1 DEF OthersStay, HInv, IInv, EInv
<1>3. \A x \in Tasks : /\ owner'[x] = IF owner[x] = t THEN None ELSE owner[x]
                       /\ draft'[x] = IF owner[x] = t THEN saved[x] ELSE draft[x]
  BY <1>1, TasksAreRows
<1>4. OthersKeep(t)
  BY <1>2, <1>3, Nobody DEF OthersKeep, OthersStay
<1>5. Events(t)' = log /\ Prepared(t)' = {} /\ Backs(t)' = PutBack(Events(t)')
  BY <1>1, <1>2, Unprepared DEF Events
<1>6. Moved(t)' = {} /\ Backs(t)' = PutBack(log) /\ PutBack(log)' = PutBack(log)
  BY <1>1, <1>2, <1>5 DEF Moved, PutBack
<1>7. \A x \in Tasks : View(t)'[x] = saved[x]
  BY <1>1, <1>3, Nobody, ViewOfTasks
<1>8. SameParents(saved, View(t)')
  BY <1>7 DEF SameParents
<1>9. ParentsIn(View(t)') /\ TwoBacks(View(t)', PutBack(log))
  BY <1>8, SameParentsOK DEF Cycles
<1>10. (ParentsIn(View(t)) /\ TwoBacks(View(t), Backs(t)))'
  BY <1>6, <1>9 DEF ParentsIn, TwoBacks, Present
<1>11. OldParentsIn(own[t] \cup Prepared(t), Present(View(t)))'
  BY <1>2, <1>5 DEF OldParentsIn
<1>12. Explained(t)'
  <2>1. \A x \in Present(saved)' : View(t)'[x] = saved'[x]
    BY <1>1, <1>7 DEF Present
  <2> QED
    BY <1>6, <2>1 DEF Explained
<1>13. Hold(t, {})'
  BY <1>6 DEF Hold
<1>14. TurnCycles(t)'
  BY <1>10, <1>11, <1>12, <1>13 DEF TurnCycles
<1> QED
  BY <1>1, <1>4, <1>14, OthersKeepCycles

(* The events that t prepared get their dates and change in nothing else.  *)
SameChange(e, d) == e.row = d.row /\ e.kind = d.kind /\ e.old = d.old /\ e.new = d.new

LEMMA StampsKeep ==
    ASSUME HInv, NEW t \in Turns, pc[t] = "flushing"
    PROVE  /\ \A e \in Stamped(t) : \E d \in Prepared(t) : SameChange(e, d)
           /\ \A d \in Prepared(t) : \E e \in Stamped(t) : SameChange(e, d)
<1>1. PICK events : events = work[t].events
  OBVIOUS
<1>2. /\ Prepared(t) = {events[i] : i \in DOMAIN events}
      /\ Stamped(t) = {[events[i] EXCEPT !.at = clock + i] : i \in DOMAIN events}
  BY <1>1 DEF Prepared, Pending, Stamped
<1>3. \A i \in DOMAIN events :
          DOMAIN events[i] = {"at", "kind", "on", "row", "old", "new", "reverses", "everywhere"}
  BY <1>1, PreparedHeld DEF ShapeOK
<1>4. ASSUME NEW i \in DOMAIN events, NEW e, e = [events[i] EXCEPT !.at = clock + i]
      PROVE  SameChange(e, events[i])
  BY <1>3, <1>4 DEF SameChange
<1> QED
  BY <1>2, <1>4

(* The last event on the parent of x is the one that t appends.            *)
LEMMA StampedPutsBack ==
    ASSUME HInv, NEW t \in Turns, pc[t] = "flushing", NEW x \in Tasks,
           NEW e \in Stamped(t), SetsParent(e, x)
    PROVE  x \in PutBack(Events(t) \cup Stamped(t)) <=> Undone(e)
<1>1. \A d \in Stamped(t) : SetsParent(d, x) => d = e
  BY Stamps DEF SetsParent
<1>2. clock \in Nat /\ e.at \in Nat /\ clock < e.at
  BY Stamps DEF HInv, Typed
<1>3. \A d \in Events(t) : d.at \in Nat /\ d.at < e.at
  BY <1>2, PastDates
<1>4. \A d \in Events(t) \cup Stamped(t) : SetsParent(d, x) => d = e \/ (d.at \in Nat /\ d.at < e.at)
  BY <1>1, <1>3
<1>5. ASSUME Undone(e)
      PROVE  x \in PutBack(Events(t) \cup Stamped(t))
  BY <1>2, <1>4, <1>5 DEF PutBack
<1>6. ASSUME x \in PutBack(Events(t) \cup Stamped(t))
      PROVE  Undone(e)
  <2>1. PICK d \in Events(t) \cup Stamped(t) :
          /\ SetsParent(d, x) /\ Undone(d)
          /\ \A f \in Events(t) \cup Stamped(t) : SetsParent(f, x) => f.at <= d.at
    BY <1>6 DEF PutBack
  <2>2. e.at <= d.at
    BY <2>1
  <2>3. d = e
    BY <1>2, <1>4, <2>1, <2>2
  <2> QED
    BY <2>1, <2>3
<1> QED
  BY <1>5, <1>6

LEMMA FlushC ==
    ASSUME HInv, Cycles, NEW t \in Turns, Flush(t)
    PROVE  Cycles'
<1>1. PICK N, P : N = Stamped(t) /\ P = Projects(t)
  OBVIOUS
<1>2. /\ pc[t] = "flushing" /\ LockRows(t, P)
      /\ draft' = [r \in Rows |-> IF r \in P THEN None ELSE draft[r]]
      /\ own' = [own EXCEPT ![t] = own[t] \cup N]
      /\ pc' = [pc EXCEPT ![t] = "idle"] /\ work' = [work EXCEPT ![t] = NoWork]
      /\ saved' = saved /\ log' = log
  BY <1>1 DEF Flush, Stamped
<1>3. P \subseteq {Project}
  BY <1>1 DEF Projects
<1>4. \A x \in Tasks : owner'[x] = owner[x] /\ draft'[x] = draft[x]
  BY <1>2, <1>3, TasksAreRows DEF LockRows
<1>5. /\ own'[t] = own[t] \cup N /\ pc'[t] = "idle" /\ OthersStay(t)
      /\ \A u \in Turns \ {t} : own'[u] = own[u]
  BY <1>2 DEF OthersStay, HInv, IInv, EInv
<1>6. OthersKeep(t)
  BY <1>4, <1>5 DEF OthersKeep, OthersStay
<1>7. Events(t)' = Events(t) \cup N /\ Prepared(t)' = {}
  BY <1>2, <1>5, Unprepared DEF Events
<1>8. \A x \in Tasks : View(t)'[x] = View(t)[x]
  BY <1>2, <1>4, ViewOfTasks
<1>9. SameParents(View(t), View(t)')
  BY <1>8 DEF SameParents
<1>10. /\ \A e \in N : \E d \in Prepared(t) : SameChange(e, d)
       /\ \A d \in Prepared(t) : \E e \in N : SameChange(e, d)
  BY <1>1, <1>2, StampsKeep
<1>11. \A e, d, x : SameChange(e, d) =>
           /\ SetsParent(e, x) <=> SetsParent(d, x)
           /\ Reparents(e, x) <=> Reparents(d, x)
           /\ Undone(e) <=> Undone(d)
  BY DEF SameChange, SetsParent, Reparents, Undone
<1>12. Moved(t)' = Moved(t)
  <2>1. Moved(t)' = {x \in Tasks : \E e \in own[t] \cup N : Reparents(e, x)}
    BY <1>5, <1>7 DEF Moved
  <2> QED
    BY <1>10, <1>11, <2>1 DEF Moved
<1>13. ASSUME NEW x \in Tasks
       PROVE  x \in PutBack(Events(t) \cup N) <=> x \in Backs(t)
  <2>1. CASE \E e \in N : SetsParent(e, x)
    <3>1. PICK e \in N : SetsParent(e, x)
      BY <2>1
    <3>2. x \in PutBack(Events(t) \cup N) <=> Undone(e)
      BY <1>1, <1>2, <3>1, StampedPutsBack
    <3>3. \A d \in N : SetsParent(d, x) => d = e
      BY <1>1, <1>2, <3>1, Stamps DEF SetsParent
    <3>4. \E d \in Prepared(t) : SetsParent(d, x)
      BY <1>10, <1>11, <3>1
    <3>5. (\E d \in Prepared(t) : SetsParent(d, x) /\ Undone(d)) <=> Undone(e)
      BY <1>10, <1>11, <3>1, <3>3
    <3> QED
      BY <3>2, <3>4, <3>5 DEF Backs
  <2>2. CASE \A e \in N : ~SetsParent(e, x)
    <3>1. \A d \in Prepared(t) : ~SetsParent(d, x)
      BY <1>10, <1>11, <2>2
    <3>2. x \in PutBack(Events(t) \cup N) <=> x \in PutBack(Events(t))
      BY <2>2 DEF PutBack
    <3> QED
      BY <3>1, <3>2 DEF Backs
  <2> QED
    BY <2>1, <2>2
<1>14. Backs(t)' = Backs(t)
  <2>1. Backs(t)' = PutBack(Events(t) \cup N)
    BY <1>5, <1>7, Unprepared
  <2>2. PutBack(Events(t) \cup N) \subseteq Tasks /\ Backs(t) \subseteq Tasks
    BY DEF PutBack, Backs
  <2> QED
    BY <1>13, <2>1, <2>2
<1>15. \A e \in own'[t] \cup Prepared(t)' : \A x \in Tasks : Reparents(e, x) =>
           \E d \in own[t] \cup Prepared(t) : Reparents(d, x) /\ d.old.parent = e.old.parent
  <2> SUFFICES ASSUME NEW e \in N, NEW x \in Tasks, Reparents(e, x)
               PROVE  \E d \in Prepared(t) : Reparents(d, x) /\ d.old.parent = e.old.parent
    BY <1>5, <1>7
  <2>1. PICK d \in Prepared(t) : SameChange(e, d)
    BY <1>10
  <2> QED
    BY <1>11, <2>1 DEF SameChange
<1>16. TurnCycles(t)'
  BY <1>2, <1>4, <1>5, <1>9, <1>12, <1>14, <1>15, QuietTurn DEF Cycles
<1> QED
  BY <1>2, <1>6, <1>16, OthersKeepCycles

(* What another turn sees when t has committed: its own rows, and those    *)
(* that t saw.                                                             *)
LEMMA CommitMerges ==
    ASSUME HInv, Cycles, NEW t \in Turns, Commit(t), NEW u \in Turns \ {t}
    PROVE  Merged(saved, View(t), View(u), View(u)', PutBack(log), Backs(t), Backs(u), Backs(u)',
                  {x \in Tasks : owner[x] = t}, {x \in Tasks : owner[x] = u})
<1>1. /\ saved' = View(t) /\ log' = Events(t) /\ own'[u] = own[u]
      /\ draft' = draft /\ pc' = pc /\ work' = work
      /\ owner' = [r \in Rows |-> IF owner[r] = t THEN None ELSE owner[r]]
  BY DEF Commit, Release, Events, HInv, IInv, EInv
<1>2. Events(u)' = Events(t) \cup Events(u) /\ Prepared(u)' = Prepared(u)
  BY <1>1 DEF Events, Prepared, Pending
<1>3. \A x \in Tasks : View(u)'[x] = IF owner[x] = u THEN View(u)[x] ELSE View(t)[x]
  BY <1>1, ViewOfTasks, TasksAreRows, Nobody
<1>4. /\ \A e \in own[t] : owner[e.row] = t
      /\ \A e \in own[u] \cup Prepared(u) : owner[e.row] = u
  BY WritesHeld
<1>5. ASSUME NEW x \in Tasks, owner[x] # u
      PROVE  x \in Backs(u)' <=> x \in PutBack(Events(t))
  <2>1. \A e \in Prepared(u)' : ~SetsParent(e, x)
    BY <1>2, <1>4, <1>5 DEF SetsParent
  <2>2. x \in Backs(u)' <=> x \in PutBack(Events(u)')
    BY <2>1 DEF Backs, PutBack
  <2>3. On(Events(u)', x) = On(Events(t), x)
    BY <1>2, <1>4, <1>5 DEF On, Events
  <2> QED
    BY <2>2, <2>3, PutBackOn
<1>6. ASSUME NEW x \in Tasks, owner[x] = u
      PROVE  x \in Backs(u)' <=> x \in Backs(u)
  <2>1. On(Events(u)', x) = On(Events(u), x)
    BY <1>2, <1>4, <1>6 DEF On, Events
  <2>2. x \in PutBack(Events(u)') <=> x \in PutBack(Events(u))
    BY <2>1, PutBackOn
  <2>3. x \in Backs(u)' <=> IF \E e \in Prepared(u) : SetsParent(e, x)
                            THEN \E e \in Prepared(u) : SetsParent(e, x) /\ Undone(e)
                            ELSE x \in PutBack(Events(u)')
    BY <1>2 DEF Backs, PutBack
  <2> QED
    BY <2>2, <2>3 DEF Backs
<1>7. pc[t] = "idle" /\ Backs(t) = PutBack(Events(t))
  BY Unprepared DEF Commit
<1>8. /\ \A x \in Tasks : owner[x] # t =>
             View(t)[x] = saved[x] /\ (x \in Backs(t) <=> x \in PutBack(log))
      /\ \A x \in Tasks : owner[x] # u =>
             View(u)[x] = saved[x] /\ (x \in Backs(u) <=> x \in PutBack(log))
  BY NotHeld
<1>9. Present(saved) \subseteq Present(View(t)) /\ Present(saved) \subseteq Present(View(u))
  BY SavedSeen
<1>10. TurnCycles(t) /\ TurnCycles(u)
  BY DEF Cycles
<1>11. /\ ParentsIn(View(t)) /\ ParentsIn(View(u))
       /\ TwoBacks(View(t), Backs(t)) /\ TwoBacks(View(u), Backs(u))
  BY <1>10 DEF TurnCycles
<1>12. \A x \in Tasks :
         /\ owner[x] = t => /\ View(u)'[x] = View(t)[x] /\ View(u)[x] = saved[x]
                            /\ x \in Backs(u)' <=> x \in Backs(t)
                            /\ x \in Backs(u) <=> x \in PutBack(log)
         /\ owner[x] = u => /\ View(u)'[x] = View(u)[x] /\ View(t)[x] = saved[x]
                            /\ x \in Backs(u)' <=> x \in Backs(u)
                            /\ x \in Backs(t) <=> x \in PutBack(log)
         /\ owner[x] # t /\ owner[x] # u =>
              /\ View(u)'[x] = saved[x] /\ View(t)[x] = saved[x] /\ View(u)[x] = saved[x]
              /\ x \in Backs(u)' <=> x \in PutBack(log)
              /\ x \in Backs(t) <=> x \in PutBack(log)
              /\ x \in Backs(u) <=> x \in PutBack(log)
  BY <1>3, <1>5, <1>6, <1>7, <1>8
<1>13. PICK a, b, m, R0, RA, RB, RM, OA, OB :
         /\ a = View(t) /\ b = View(u) /\ m = View(u)'
         /\ R0 = PutBack(log) /\ RA = Backs(t) /\ RB = Backs(u) /\ RM = Backs(u)'
         /\ OA = {x \in Tasks : owner[x] = t} /\ OB = {x \in Tasks : owner[x] = u}
  OBVIOUS
<1>14. Merged(saved, a, b, m, R0, RA, RB, RM, OA, OB)
  BY <1>9, <1>11, <1>12, <1>13 DEF Merged
<1> QED
  BY <1>13, <1>14

LEMMA TurnsOwn ==
    ASSUME HInv, NEW t \in Turns, Explained(t), NEW A \in SUBSET Tasks, Hold(t, A)
    PROVE  Own(saved, View(t), PutBack(log), Backs(t), {x \in Tasks : owner[x] = t}, A)
<1>1. \A x \in Present(saved) :
          \/ x \in A \cup Backs(t)
          \/ View(t)[x].parent = saved[x].parent /\ x \notin PutBack(log)
  BY DEF Explained, Hold
<1>2. \A x \in A : owner[x] = t /\ x \in Present(View(t)) /\ View(t)[x].parent \in A \cup {None}
  BY DEF Hold
<1> QED
  BY <1>1, <1>2 DEF Own

LEMMA CommitC ==
    ASSUME HInv, Cycles, NEW t \in Turns, Commit(t)
    PROVE  Cycles'
<1>1. /\ pc[t] = "idle" /\ saved' = View(t) /\ log' = Events(t)
      /\ own'[t] = {} /\ \A u \in Turns \ {t} : own'[u] = own[u]
      /\ draft' = draft /\ pc' = pc /\ work' = work
      /\ owner' = [r \in Rows |-> IF owner[r] = t THEN None ELSE owner[r]]
  BY DEF Commit, Release, Events, HInv, IInv, EInv
<1>2. TurnCycles(t) /\ Present(saved) \subseteq Present(View(t))
  BY SavedSeen DEF Cycles
<1>3. Prepared(t) = {} /\ Backs(t) = PutBack(Events(t))
  BY <1>1, Unprepared
<1>4. Present(saved)' = Present(View(t)) /\ PutBack(log)' = PutBack(Events(t))
  BY <1>1 DEF Present, PutBack
<1>5. ParentsIn(saved') /\ TwoBacks(saved', PutBack(log)')
  BY <1>1, <1>2, <1>3, <1>4 DEF TurnCycles
<1>6. OldParentsIn(log', Present(saved)')
  BY <1>1, <1>2, <1>3, <1>4 DEF Cycles, TurnCycles, OldParentsIn, Events
<1>7. TurnCycles(t)'
  <2>1. Events(t)' = log' /\ Prepared(t)' = {} /\ Backs(t)' = PutBack(Events(t)')
    BY <1>1, Unprepared DEF Events
  <2>2. Moved(t)' = {} /\ Backs(t)' = PutBack(log)'
    BY <1>1, <2>1 DEF Moved, PutBack
  <2>3. \A x \in Tasks : View(t)'[x] = saved'[x]
    BY <1>1, Nobody, ViewOfTasks, TasksAreRows
  <2>4. SameParents(saved', View(t)')
    BY <2>3 DEF SameParents
  <2>5. ParentsIn(View(t)') /\ TwoBacks(View(t)', PutBack(log)')
    BY <1>5, <2>4, SameParentsOK
  <2>6. (ParentsIn(View(t)) /\ TwoBacks(View(t), Backs(t)))'
    BY <2>2, <2>5 DEF ParentsIn, TwoBacks, Present
  <2>7. OldParentsIn(own[t] \cup Prepared(t), Present(View(t)))'
    BY <1>1, <2>1 DEF OldParentsIn
  <2>8. Explained(t)'
    BY <2>2, <2>3 DEF Explained, Present
  <2>9. Hold(t, {})'
    BY <2>2 DEF Hold
  <2> QED
    BY <2>6, <2>7, <2>8, <2>9 DEF TurnCycles
<1>8. ASSUME NEW u \in Turns \ {t}
      PROVE  TurnCycles(u)'
  <2>1. PICK a, b, m, R0, RA, RB, RM, OA, OB :
          /\ a = View(t) /\ b = View(u) /\ m = View(u)'
          /\ R0 = PutBack(log) /\ RA = Backs(t) /\ RB = Backs(u) /\ RM = Backs(u)'
          /\ OA = {x \in Tasks : owner[x] = t} /\ OB = {x \in Tasks : owner[x] = u}
    OBVIOUS
  <2>2. Merged(saved, a, b, m, R0, RA, RB, RM, OA, OB)
    BY <2>1, CommitMerges
  <2>3. TurnCycles(u)
    BY DEF Cycles
  <2>4. PICK A, B : /\ A \in SUBSET Tasks /\ Hold(t, A) /\ Own(saved, a, R0, RA, OA, A)
                    /\ B \in SUBSET Tasks /\ Hold(u, B) /\ Own(saved, b, R0, RB, OB, B)
    BY <1>2, <2>1, <2>3, TurnsOwn DEF TurnCycles
  <2>5. ParentsIn(m) /\ TwoBacks(m, RM)
    BY <2>2, <2>4, MergedCycles
  <2>6. (ParentsIn(View(u)) /\ TwoBacks(View(u), Backs(u)))'
    BY <2>1, <2>5 DEF ParentsIn, TwoBacks, Present
  <2>7. Present(b) \subseteq Present(m) /\ Present(View(u))' = Present(m)
    BY <2>1, <2>2 DEF Merged, Present
  <2>8. Events(u)' = Events(t) \cup Events(u) /\ Prepared(u)' = Prepared(u) /\ Moved(u)' = Moved(u)
    BY <1>1 DEF Events, Prepared, Pending, Moved
  <2>9. OldParentsIn(own[u] \cup Prepared(u), Present(View(u)))'
    BY <1>1, <2>1, <2>3, <2>7, <2>8 DEF TurnCycles, OldParentsIn
  <2>10. Explained(u)'
    <3> SUFFICES ASSUME NEW x \in Tasks, x \in Present(a)
                 PROVE  \/ x \in Moved(u) \cup RM
                        \/ m[x].parent = a[x].parent /\ x \notin RA
      BY <1>1, <1>3, <1>4, <2>1, <2>8 DEF Explained, Present
    <3>1. CASE x \in OB
      <4>1. m[x] = b[x] /\ a[x] = saved[x] /\ (x \in RM <=> x \in RB) /\ (x \in RA <=> x \in R0)
        BY <2>2, <3>1 DEF Merged
      <4>2. x \in Present(saved)
        BY <4>1 DEF Present
      <4> QED
        BY <2>1, <2>3, <4>1, <4>2 DEF TurnCycles, Explained
    <3>2. CASE x \notin OB
      BY <2>2, <3>2 DEF Merged
    <3> QED
      BY <3>1, <3>2
  <2>11. Hold(u, B)'
    <3>1. \A x \in B : x \in OB /\ m[x] = b[x] /\ owner'[x] = u
      BY <1>1, <2>1, <2>2, <2>4, TasksAreRows DEF Merged, Hold
    <3>2. \A e \in own[t] : owner[e.row] = t
      BY WritesHeld
    <3>3. \A e \in Events(u)' \cup Prepared(u)' : \A x \in B : Reparents(e, x) =>
              e.old.parent \in B \cup {None}
      BY <2>1, <2>4, <2>8, <3>1, <3>2 DEF Hold, Events, Reparents, SetsParent
    <3> QED
      BY <1>1, <2>1, <2>4, <2>7, <2>8, <3>1, <3>3 DEF Hold
  <2> QED
    BY <2>4, <2>6, <2>9, <2>10, <2>11 DEF TurnCycles
<1> QED
  BY <1>5, <1>6, <1>7, <1>8 DEF Cycles

LEMMA StutterC ==
    ASSUME HInv, Cycles, UNCHANGED vars
    PROVE  Cycles'
<1>1. /\ saved' = saved /\ draft' = draft /\ log' = log /\ own' = own
      /\ owner' = owner /\ pc' = pc /\ work' = work
  BY DEF vars, rows, history, locks
<1>2. /\ ParentsIn(saved') /\ TwoBacks(saved', PutBack(log')) /\ OldParentsIn(log', Present(saved'))
  BY <1>1 DEF Cycles
<1>3. PutBack(log)' = PutBack(log') /\ Present(saved)' = Present(saved')
  BY DEF PutBack, Present
<1>4. ASSUME NEW t \in Turns
      PROVE  TurnCycles(t)'
  <2>1. \A x \in Tasks : owner[x] = t => owner'[x] = t
    BY <1>1
  <2>2. OthersKeep(t) /\ Events(t)' = Events(t) /\ Prepared(t)' = Prepared(t)
    BY <1>1 DEF OthersKeep, Events, Prepared, Pending
  <2>3. View(t)' = View(t) /\ Backs(t)' = Backs(t) /\ Moved(t)' = Moved(t)
    BY <1>1, <2>2 DEF View, Backs, Moved, PutBack
  <2>4. TurnCycles(t)
    BY DEF Cycles
  <2>5. \A A \in SUBSET Tasks : Hold(t, A) => Hold(t, A)'
    BY <1>1, <2>2, <2>3 DEF Hold, Present
  <2>6. Explained(t)'
    BY <1>1, <1>3, <2>3, <2>4 DEF TurnCycles, Explained
  <2>7. (ParentsIn(View(t)) /\ TwoBacks(View(t), Backs(t)))'
    BY <2>3, <2>4 DEF TurnCycles, ParentsIn, TwoBacks, Present
  <2>8. OldParentsIn(own[t] \cup Prepared(t), Present(View(t)))'
    BY <1>1, <2>2, <2>3, <2>4 DEF TurnCycles, OldParentsIn, Present
  <2> QED
    BY <2>4, <2>5, <2>6, <2>7, <2>8 DEF TurnCycles
<1> QED
  BY <1>2, <1>3, <1>4 DEF Cycles, ParentsIn, TwoBacks, OldParentsIn

LEMMA CInitOK == Init => Cycles
<1> SUFFICES ASSUME Init PROVE Cycles
  OBVIOUS
<1>1. /\ log = {} /\ \A t \in Turns : own[t] = {} /\ pc[t] = "idle" /\ Events(t) = {}
      /\ \A x \in Tasks : saved[x] = FirstTasks[x] /\ draft[x] = FirstTasks[x]
  BY TasksAreRows DEF Init, FirstRows, Events
<1>2. ParentsIn(FirstTasks) /\ TwoBacks(FirstTasks, {})
  <2>1. \A x \in Present(FirstTasks) :
          /\ FirstTasks[x] \in TaskRow
          /\ \A y \in {FirstTasks[x].parent} \ {None} : FirstTasks[y] # Absent
    BY WorldAssumption DEF Present
  <2>2. ParentsIn(FirstTasks)
    BY <2>1 DEF ParentsIn, Present, TaskRow
  <2>3. TwoBacks(FirstTasks, {})
    BY WorldAssumption DEF TwoBacks, ParentsAcyclicIn, Present
  <2> QED
    BY <2>2, <2>3
<1>3. ASSUME NEW row, \A x \in Tasks : row[x] = FirstTasks[x]
      PROVE  ParentsIn(row) /\ TwoBacks(row, {})
  <2>1. SameParents(FirstTasks, row)
    BY <1>3 DEF SameParents
  <2> QED
    BY <1>2, <2>1, SameParentsOK
<1>4. PutBack({}) = {}
  BY DEF PutBack
<1>5. ASSUME NEW t \in Turns
      PROVE  TurnCycles(t)
  <2>1. \A x \in Tasks : View(t)[x] = FirstTasks[x]
    BY <1>1, ViewOfTasks
  <2>2. Prepared(t) = {} /\ Backs(t) = {} /\ Moved(t) = {}
    BY <1>1, <1>4, Unprepared DEF Moved
  <2>3. ParentsIn(View(t)) /\ TwoBacks(View(t), Backs(t))
    BY <1>3, <2>1, <2>2
  <2>4. Explained(t)
    BY <1>1, <1>4, <2>1 DEF Explained, Present
  <2>5. Hold(t, {})
    BY <2>2 DEF Hold
  <2> QED
    BY <1>1, <2>2, <2>3, <2>4, <2>5 DEF TurnCycles, OldParentsIn
<1>6. ParentsIn(saved) /\ TwoBacks(saved, PutBack(log))
  BY <1>1, <1>3, <1>4
<1> QED
  BY <1>1, <1>5, <1>6 DEF Cycles, OldParentsIn

LEMMA CStepOK == HInv /\ Cycles /\ [Next]_vars => Cycles'
<1> SUFFICES ASSUME HInv, Cycles, [Next]_vars PROVE Cycles'
  OBVIOUS
<1>1. CASE UNCHANGED vars
  BY <1>1, StutterC
<1>2. ASSUME NEW t \in Turns, NEW x \in Tasks, NEW row \in NewTasks, CreateTask(t, x, row)
      PROVE  Cycles'
  BY <1>2, CreateTaskC
<1>3. ASSUME NEW t \in Turns, NEW x \in Tasks, NEW values \in TaskUpdates, UpdateTask(t, x, values)
      PROVE  Cycles'
  BY <1>3, UpdateTaskC
<1>4. ASSUME NEW t \in Turns, NEW done \in BOOLEAN, UpdateGoal(t, done)
      PROVE  Cycles'
  BY <1>4, ChangeElsewhereC, TasksAreRows DEF UpdateGoal, Begin
<1>5. ASSUME NEW t \in Turns, NEW c \in Criteria, NEW mark \in Marks, UpdateCriterion(t, c, mark)
      PROVE  Cycles'
  <2>1. c \in Rows \ Tasks
    BY TasksAreRows
  <2> QED
    BY <1>5, <2>1, ChangeElsewhereC DEF UpdateCriterion, Begin
<1>6. ASSUME NEW t \in Turns, NEW x \in Tasks, LinkTaskGoal(t, x)
      PROVE  Cycles'
  BY <1>6, LinkTaskGoalC
<1>7. ASSUME NEW t \in Turns, NEW x \in Tasks, NEW y \in Tasks, AddDependency(t, x, y)
      PROVE  Cycles'
  BY <1>7, AddDependencyC
<1>8. ASSUME NEW t \in Turns, NEW d \in Decisions, CreateDecision(t, d) \/ RevokeDecision(t, d)
      PROVE  Cycles'
  BY <1>8, DecisionC
<1>9. ASSUME NEW t \in Turns, NEW d \in Decisions, NEW e \in Decisions, SupersedeDecision(t, d, e)
      PROVE  Cycles'
  BY <1>9, DecisionC
<1>10. ASSUME NEW t \in Turns, NEW x \in Tasks \cup {Goal}, NEW everywhere \in BOOLEAN,
              BeginUndo(t, x, everywhere)
       PROVE  Cycles'
  BY <1>10, BeginUndoC
<1>11. ASSUME NEW t \in Turns, CacheSummary(t) \/ Refused(t) \/ Restore(t) \/ RefuseUndo(t)
       PROVE  Cycles'
  BY <1>11, LocksOnlyC, RestoreC, RefuseUndoC
<1>12. ASSUME NEW t \in Turns, Flush(t) \/ Commit(t) \/ Abort(t)
       PROVE  Cycles'
  BY <1>12, FlushC, CommitC, AbortC
<1> QED
  BY <1>1, <1>2, <1>3, <1>4, <1>5, <1>6, <1>7, <1>8, <1>9, <1>10, <1>11, <1>12 DEF Next

(* No reparenting closes a cycle of parents, by however many turns at once *)
(* and not even with an edge that an undo has put back: in every cycle that*)
(* is committed, two undos have put two edges back (_validate_parent_chain *)
(* against the rows that update_task locks and undo_last_change does not). *)
THEOREM CyclesNeedTwoUndos == Spec => []CyclesTakeTwoUndos
<1>1. HInv /\ Cycles => CyclesTakeTwoUndos
  <2> SUFFICES ASSUME HInv, Cycles, NEW C \in (SUBSET Present(saved)) \ {{}},
                      \A x \in C : saved[x].parent \in C
               PROVE  \E x, y \in C \cap Restored : x # y
    BY DEF CyclesTakeTwoUndos, Present
  <2>1. clock \in Nat /\ DatesOK(log)
    BY DEF HInv, Typed, Sets, SetOK
  <2>2. PutBack(log) \subseteq Restored
    <3> SUFFICES ASSUME NEW x \in PutBack(log) PROVE x \in Restored
      OBVIOUS
    <3>1. PICK S : S = Touching(x, "parent")
      OBVIOUS
    <3>2. PICK e \in S : Undone(e) /\ \A d \in S : d.at <= e.at
      BY <3>1 DEF PutBack, SetsParent, Touching
    <3>3. Latest(S) \in S /\ \A d \in S : d.at <= Latest(S).at
      BY <3>2 DEF Latest
    <3>4. S \subseteq log
      BY <3>1 DEF Touching
    <3>5. Latest(S).at = e.at
      BY <2>1, <3>2, <3>3, <3>4 DEF DatesOK
    <3>6. Latest(S) = e
      BY <2>1, <3>2, <3>3, <3>4, <3>5 DEF DatesOK
    <3> QED
      BY <3>1, <3>2, <3>6 DEF Restored, Undone, PutBack
  <2>3. \E x, y \in C \cap PutBack(log) : x # y
    BY DEF Cycles, TwoBacks
  <2> QED
    BY <2>2, <2>3
<1> QED
  BY <1>1, HInitOK, HStepOK, CInitOK, CStepOK, PTL DEF Spec

-----------------------------------------------------------------------------
(***************************************************************************)
(* The depth-first search of the audit                                     *)
(***************************************************************************)

IsGraph(graph) ==
    /\ IsFiniteSet(Calls(graph))
    /\ None \notin DOMAIN graph /\ \A x \in DOMAIN graph : None \notin graph[x]
Nodes(graph) == {call[2] : call \in Calls(graph)}
Edge(graph, x, y) == x # None /\ <<x, y>> \in Calls(graph)

(* Every node of C has an edge into C, and also one from C.                *)
Circular(graph, C) == None \notin C /\ \A x \in C : \E y \in C : Edge(graph, x, y)
Entered(graph, C) == \A y \in C : \E x \in C : Edge(graph, x, y)

PathOK(graph, path) ==
    /\ path \in Seq(Nodes(graph))
    /\ \A i, j \in DOMAIN path : path[i] = path[j] => i = j
    /\ \A i \in DOMAIN path : i > 1 => Edge(graph, path[i - 1], path[i])
Later(path, x, y) == \E i, j \in DOMAIN path : i < j /\ path[i] = x /\ path[j] = y

(* What has been called by the loop has been entered.                      *)
Started(graph, s) ==
    \A x : <<None, x>> \in Calls(graph) \ s.calls => x \in Visiting(s.path) \cup s.visited

(* As long as nothing of C is reported the search has not left a node of C,*)
(* and the calls made in C are on the path.                                *)
Open(graph, s, C) ==
    C \cap s.reported = {} =>
        /\ C \cap s.visited = {}
        /\ \A x, y \in C : <<x, y>> \in Calls(graph) \ s.calls => Later(s.path, x, y)

SearchOK(graph, s) ==
    /\ s = [path |-> s.path, calls |-> s.calls, visited |-> s.visited, reported |-> s.reported]
    /\ PathOK(graph, s.path) /\ s.calls \subseteq Calls(graph)
    /\ Started(graph, s)
    /\ \A C : Circular(graph, C) => Open(graph, s, C)
    /\ \A x \in s.reported : \E C : x \in C /\ Circular(graph, C) /\ Entered(graph, C)

Called(s, call) == [s EXCEPT !.calls = @ \ {call}]

LEMMA CallsAre ==
    ASSUME NEW graph, NEW call
    PROVE  call \in Calls(graph) <=> \/ \E x \in DOMAIN graph : call \in {x} \X graph[x]
                                     \/ call \in {None} \X DOMAIN graph
<1> DEFINE U == UNION {{node} \X graph[node] : node \in DOMAIN graph}
<1>1. call \in U <=> \E x \in DOMAIN graph : call \in {x} \X graph[x]
  BY Zenon
<1>2. Calls(graph) = U \cup ({None} \X DOMAIN graph)
  BY DEF Calls
<1> HIDE DEF U
<1> QED
  BY <1>1, <1>2

LEMMA NodesAreReal ==
    ASSUME NEW graph, IsGraph(graph)
    PROVE  /\ None \notin Nodes(graph)
           /\ \A call \in Calls(graph) : call = <<call[1], call[2]>> /\ call[2] \in Nodes(graph)
           /\ \A x, y : Edge(graph, x, y) <=> x \in DOMAIN graph /\ y \in graph[x]
           /\ \A x : x \in DOMAIN graph <=> <<None, x>> \in Calls(graph)
<1>1. ASSUME NEW call \in Calls(graph)
      PROVE  /\ call = <<call[1], call[2]>> /\ call[2] \in Nodes(graph) /\ call[2] # None
  <2>1. \/ \E x \in DOMAIN graph : call \in {x} \X graph[x]
        \/ call \in {None} \X DOMAIN graph
    BY CallsAre
  <2> QED
    BY <2>1 DEF IsGraph, Nodes
<1>2. ASSUME NEW x, NEW y, x \in DOMAIN graph, y \in graph[x] PROVE Edge(graph, x, y)
  <2>1. <<x, y>> \in {x} \X graph[x]
    BY <1>2
  <2> QED
    BY <1>2, <2>1, CallsAre DEF Edge, IsGraph
<1>3. ASSUME NEW x, NEW y, Edge(graph, x, y) PROVE x \in DOMAIN graph /\ y \in graph[x]
  <2>1. x # None /\ \/ \E z \in DOMAIN graph : <<x, y>> \in {z} \X graph[z]
                    \/ <<x, y>> \in {None} \X DOMAIN graph
    BY <1>3, CallsAre DEF Edge
  <2> QED
    BY <2>1
<1>4. ASSUME NEW x PROVE x \in DOMAIN graph <=> <<None, x>> \in Calls(graph)
  <2>1. ASSUME <<None, x>> \in Calls(graph) PROVE x \in DOMAIN graph
    <3>1. \/ \E z \in DOMAIN graph : <<None, x>> \in {z} \X graph[z]
          \/ <<None, x>> \in {None} \X DOMAIN graph
      BY <2>1, CallsAre
    <3> QED
      BY <3>1 DEF IsGraph
  <2>2. x \in DOMAIN graph => <<None, x>> \in {None} \X DOMAIN graph
    OBVIOUS
  <2> QED
    BY <2>1, <2>2, CallsAre
<1> QED
  BY <1>1, <1>2, <1>3, <1>4 DEF Nodes

(* A node that the search comes back to is on a cycle: the path from it.   *)
LEMMA ComesBack ==
    ASSUME NEW graph, IsGraph(graph), NEW path, PathOK(graph, path), NEW node,
           node \in Visiting(path), Edge(graph, Top(path), node)
    PROVE  \E C : node \in C /\ Circular(graph, C) /\ Entered(graph, C)
<1>1. PICK k \in DOMAIN path : path[k] = node
  BY DEF Visiting
<1>2. PICK n \in Nat : DOMAIN path = 1 .. n /\ Len(path) = n
  BY DEF PathOK
<1>3. n # 0 /\ Top(path) = path[n] /\ k \in 1 .. n
  BY <1>1, <1>2 DEF Top, PathOK
<1>4. \A i \in 1 .. n : i > 1 => Edge(graph, path[i - 1], path[i])
  BY <1>2 DEF PathOK
<1>5. Edge(graph, path[n], path[k])
  BY <1>1, <1>3
<1>6. PICK C : C = {path[i] : i \in k .. n}
  OBVIOUS
<1>7. node \in C
  BY <1>1, <1>2, <1>3, <1>6
<1>8. None \notin C
  <2>1. \A i \in 1 .. n : path[i] \in Nodes(graph)
    BY <1>2 DEF PathOK
  <2> QED
    BY <1>3, <1>6, <2>1, NodesAreReal
<1>9. ASSUME NEW i \in k .. n
      PROVE  \E j \in k .. n : Edge(graph, path[i], path[j])
  <2>1. CASE i = n
    BY <1>3, <1>5, <2>1
  <2>2. CASE i # n
    <3>1. i + 1 \in k .. n /\ i + 1 \in 1 .. n /\ i + 1 > 1 /\ (i + 1) - 1 = i
      BY <1>3, <2>2
    <3> QED
      BY <1>4, <3>1
  <2> QED
    BY <2>1, <2>2
<1>10. ASSUME NEW i \in k .. n
       PROVE  \E j \in k .. n : Edge(graph, path[j], path[i])
  <2>1. CASE i = k
    BY <1>3, <1>5, <2>1
  <2>2. CASE i # k
    <3>1. i - 1 \in k .. n /\ i \in 1 .. n /\ i > 1
      BY <1>3, <2>2
    <3> QED
      BY <1>4, <3>1
  <2> QED
    BY <2>1, <2>2
<1>11. Circular(graph, C) /\ Entered(graph, C)
  BY <1>6, <1>8, <1>9, <1>10 DEF Circular, Entered
<1> QED
  BY <1>7, <1>11

LEMMA OnPath ==
    ASSUME NEW S, NEW path \in Seq(S)
    PROVE  \E n \in Nat : /\ Len(path) = n /\ DOMAIN path = 1 .. n
                          /\ n = 0 <=> path = <<>>
                          /\ n # 0 => Top(path) = path[n]
BY DEF Top

(* The last node of a path is taken away.                                  *)
LEMMA Shorter ==
    ASSUME NEW S, NEW path \in Seq(S), path # <<>>, NEW p, p = SubSeq(path, 1, Len(path) - 1)
    PROVE  /\ p \in Seq(S) /\ Len(p) = Len(path) - 1
           /\ \A i \in DOMAIN p : i \in DOMAIN path /\ i # Len(path) /\ p[i] = path[i]
           /\ \A i \in DOMAIN path : i # Len(path) => i \in DOMAIN p
<1>1. PICK n \in Nat : Len(path) = n /\ DOMAIN path = 1 .. n /\ n # 0
  BY OnPath
<1> QED
  BY <1>1

LEMMA LeaveOK ==
    ASSUME NEW graph, IsGraph(graph), NEW s, SearchOK(graph, s), s.path # <<>>,
           {call \in s.calls : call[1] = Top(s.path)} = {}, NEW r, r = Leave(s)
    PROVE  /\ SearchOK(graph, r)
           /\ r.calls = s.calls /\ Len(r.path) = Len(s.path) - 1
<1>0. PICK path : path = s.path
  OBVIOUS
<1>1. /\ path \in Seq(Nodes(graph)) /\ path # <<>>
      /\ \A i, j \in DOMAIN path : path[i] = path[j] => i = j
      /\ \A i \in DOMAIN path : i > 1 => Edge(graph, path[i - 1], path[i])
  BY <1>0 DEF SearchOK, PathOK
<1>2. PICK n \in Nat \ {0} : Len(path) = n /\ DOMAIN path = 1 .. n /\ Top(path) = path[n]
  <2>1. PICK m \in Nat : /\ Len(path) = m /\ DOMAIN path = 1 .. m
                         /\ m = 0 <=> path = <<>>
                         /\ m # 0 => Top(path) = path[m]
    BY <1>1, OnPath
  <2> QED
    BY <1>1, <2>1
<1>3. PICK u : u = path[n]
  OBVIOUS
<1>4. PICK p : p = SubSeq(path, 1, n - 1)
  OBVIOUS
<1>5. r = [path |-> p, calls |-> s.calls, visited |-> s.visited \cup {u}, reported |-> s.reported]
  BY <1>0, <1>1, <1>2, <1>3, <1>4 DEF Leave, SearchOK
<1>6. r.path = p /\ r.calls = s.calls /\ r.visited = s.visited \cup {u} /\ r.reported = s.reported
  BY <1>5
<1>7. /\ p \in Seq(Nodes(graph)) /\ Len(p) = n - 1
      /\ \A i \in DOMAIN p : i \in DOMAIN path /\ i # n /\ p[i] = path[i]
      /\ \A i \in DOMAIN path : i # n => i \in DOMAIN p
  BY <1>1, <1>2, <1>4, Shorter
<1>8. \A call \in s.calls : call[1] # u
  BY <1>0, <1>2, <1>3
<1>9. PathOK(graph, p)
  <2>1. ASSUME NEW i \in DOMAIN p, i > 1 PROVE Edge(graph, p[i - 1], p[i])
    <3>1. i \in DOMAIN path /\ i - 1 \in DOMAIN path /\ i - 1 # n
      BY <1>2, <1>7, <2>1
    <3>2. i - 1 \in DOMAIN p
      BY <1>7, <3>1
    <3> QED
      BY <1>1, <1>7, <2>1, <3>1, <3>2
  <2> QED
    BY <1>1, <1>7, <2>1 DEF PathOK
<1>10. Started(graph, r)
  <2> SUFFICES ASSUME NEW x, <<None, x>> \in Calls(graph) \ s.calls
               PROVE  x \in Visiting(p) \cup s.visited \cup {u}
    BY <1>6 DEF Started
  <2>1. x \in Visiting(path) \cup s.visited
    BY <1>0 DEF SearchOK, Started
  <2>2. ASSUME NEW i \in DOMAIN path, path[i] # u PROVE path[i] \in Visiting(p)
    BY <1>2, <1>7, <1>3, <2>2 DEF Visiting
  <2> QED
    BY <2>1, <2>2 DEF Visiting
<1>11. ASSUME NEW C, Circular(graph, C), C \cap r.reported = {}
      PROVE  /\ C \cap r.visited = {}
             /\ \A x, y \in C : <<x, y>> \in Calls(graph) \ r.calls => Later(r.path, x, y)
  <2>1. /\ C \cap s.visited = {}
        /\ \A x, y \in C : <<x, y>> \in Calls(graph) \ s.calls => Later(path, x, y)
    BY <1>0, <1>6, <1>11 DEF SearchOK, Open
  <2>2. u \notin C
    <3>1. SUFFICES ASSUME u \in C PROVE FALSE
      OBVIOUS
    <3>2. PICK y \in C : Edge(graph, u, y)
      BY <1>11, <3>1 DEF Circular
    <3>3. <<u, y>> \in Calls(graph) \ s.calls
      BY <1>8, <3>2 DEF Edge
    <3>4. PICK i, j \in DOMAIN path : i < j /\ path[i] = u
      BY <2>1, <3>1, <3>3 DEF Later
    <3>5. i = n
      BY <1>1, <1>2, <1>3, <3>4
    <3> QED
      BY <1>2, <3>4, <3>5
  <2>3. ASSUME NEW x \in C, NEW y \in C, <<x, y>> \in Calls(graph) \ s.calls PROVE Later(p, x, y)
    <3>1. PICK i, j \in DOMAIN path : i < j /\ path[i] = x /\ path[j] = y
      BY <2>1, <2>3 DEF Later
    <3>2. i # n /\ j # n
      BY <1>2, <1>3, <2>2, <3>1
    <3>3. i \in DOMAIN p /\ j \in DOMAIN p /\ p[i] = x /\ p[j] = y
      BY <1>7, <3>1, <3>2
    <3> QED
      BY <3>1, <3>3 DEF Later
  <2> QED
    BY <1>6, <2>1, <2>2, <2>3
<1>12. \A x \in r.reported : \E C : x \in C /\ Circular(graph, C) /\ Entered(graph, C)
  BY <1>6 DEF SearchOK
<1>13. r.calls \subseteq Calls(graph)
  BY <1>6 DEF SearchOK
<1>14. SearchOK(graph, r)
  <2>1. \A C : Circular(graph, C) => Open(graph, r, C)
    BY <1>11 DEF Open
  <2>2. r = [path |-> r.path, calls |-> r.calls, visited |-> r.visited, reported |-> r.reported]
    BY <1>5
  <2>3. PathOK(graph, r.path)
    BY <1>6, <1>9
  <2> QED
    BY <1>10, <1>12, <1>13, <2>1, <2>2, <2>3 DEF SearchOK
<1> QED
  BY <1>0, <1>2, <1>6, <1>7, <1>14

LEMMA VisitOK ==
    ASSUME NEW graph, IsGraph(graph), NEW s, SearchOK(graph, s),
           NEW call \in s.calls, call[1] = Top(s.path),
           NEW r, r = Visit(Called(s, call), call[2])
    PROVE  /\ SearchOK(graph, r)
           /\ r.calls = s.calls \ {call} /\ Len(r.path) \in {Len(s.path), Len(s.path) + 1}
<1>0. PICK path, calls, node, u : /\ path = s.path /\ calls = s.calls \ {call}
                                  /\ node = call[2] /\ u = Top(path)
  OBVIOUS
<1>1. PathOK(graph, path) /\ path \in Seq(Nodes(graph))
  BY <1>0 DEF SearchOK, PathOK
<1>2. /\ call \in Calls(graph) /\ call = <<u, node>> /\ node \in Nodes(graph) /\ node # None
      /\ None \notin Nodes(graph)
  <2>1. call \in Calls(graph)
    BY DEF SearchOK
  <2> QED
    BY <1>0, <2>1, NodesAreReal
<1>3. PICK n \in Nat : /\ Len(path) = n /\ DOMAIN path = 1 .. n
                       /\ n = 0 <=> path = <<>>
                       /\ n # 0 => u = path[n]
  BY <1>0, <1>1, OnPath
<1>4. u # None => n # 0 /\ Edge(graph, u, node)
  BY <1>0, <1>2, <1>3 DEF Top, Edge
<1>5. n # 0 => u # None
  <2>1. n # 0 => path[n] \in Nodes(graph)
    BY <1>1, <1>3
  <2> QED
    BY <1>2, <1>3, <2>1
<1>6. Called(s, call)
          = [path |-> path, calls |-> calls, visited |-> s.visited, reported |-> s.reported]
  BY <1>0 DEF SearchOK, Called
<1>7. /\ calls \subseteq Calls(graph)
      /\ \A c \in Calls(graph) \ calls : c \in Calls(graph) \ s.calls \/ c = call
  BY <1>0, <1>2 DEF SearchOK
<1>8. \A x : <<None, x>> \in Calls(graph) \ s.calls => x \in Visiting(path) \cup s.visited
  BY <1>0 DEF SearchOK, Started
<1>9. \A C : Circular(graph, C) /\ C \cap s.reported = {} =>
          /\ C \cap s.visited = {}
          /\ \A x, y \in C : <<x, y>> \in Calls(graph) \ s.calls => Later(path, x, y)
  BY <1>0 DEF SearchOK, Open
<1>10. \A x \in s.reported : \E C : x \in C /\ Circular(graph, C) /\ Entered(graph, C)
  BY DEF SearchOK
<1>11. r = IF node \in Visiting(path)
           THEN [path |-> path, calls |-> calls, visited |-> s.visited,
                 reported |-> s.reported \cup {node}]
           ELSE IF node \in s.visited
           THEN [path |-> path, calls |-> calls, visited |-> s.visited, reported |-> s.reported]
           ELSE [path |-> Append(path, node), calls |-> calls, visited |-> s.visited,
                 reported |-> s.reported]
  <2>1. PICK t : t = [path |-> path, calls |-> calls, visited |-> s.visited,
                      reported |-> s.reported]
    OBVIOUS
  <2>2. t.path = path /\ t.visited = s.visited
    BY <2>1
  <2>3. [t EXCEPT !.reported = @ \cup {node}]
            = [path |-> path, calls |-> calls, visited |-> s.visited,
               reported |-> s.reported \cup {node}]
    BY <2>1
  <2>4. [t EXCEPT !.path = Append(@, node)]
            = [path |-> Append(path, node), calls |-> calls, visited |-> s.visited,
               reported |-> s.reported]
    BY <2>1, SMTT(30)
  <2>5. r = Visit(t, node)
    BY <1>0, <1>6, <2>1
  <2> QED
    BY <2>1, <2>2, <2>3, <2>4, <2>5 DEF Visit
<1>12. CASE node \in Visiting(path)
  <2>1. r = [path |-> path, calls |-> calls, visited |-> s.visited,
             reported |-> s.reported \cup {node}]
    BY <1>11, <1>12
  <2>2. n # 0 /\ Edge(graph, u, node)
    BY <1>3, <1>4, <1>5, <1>12 DEF Visiting
  <2>3. \E C : node \in C /\ Circular(graph, C) /\ Entered(graph, C)
    BY <1>0, <1>1, <1>12, <2>2, ComesBack
  <2>4. Started(graph, r)
    BY <1>2, <1>7, <1>8, <1>12, <2>1 DEF Started
  <2>5. ASSUME NEW C, Circular(graph, C) PROVE Open(graph, r, C)
    BY <1>2, <1>7, <1>9, <2>1, <2>5 DEF Open
  <2>6. \A x \in r.reported : \E C : x \in C /\ Circular(graph, C) /\ Entered(graph, C)
    BY <1>10, <2>1, <2>3
  <2>7. SearchOK(graph, r)
    <3>1. /\ r.path = path /\ r.calls = calls /\ r.visited = s.visited
          /\ r.reported = s.reported \cup {node}
      BY <2>1
    <3>2. r = [path |-> r.path, calls |-> r.calls, visited |-> r.visited, reported |-> r.reported]
      BY <2>1, <3>1
    <3> QED
      BY <1>1, <1>7, <2>4, <2>5, <2>6, <3>1, <3>2 DEF SearchOK
  <2> QED
    BY <1>0, <1>3, <2>1, <2>7
<1>13. CASE node \notin Visiting(path) /\ node \in s.visited
  <2>1. r = [path |-> path, calls |-> calls, visited |-> s.visited, reported |-> s.reported]
    BY <1>11, <1>13
  <2>2. Started(graph, r)
    BY <1>2, <1>7, <1>8, <1>13, <2>1 DEF Started
  <2>3. ASSUME NEW C, Circular(graph, C) PROVE Open(graph, r, C)
    BY <1>2, <1>7, <1>9, <1>13, <2>1, <2>3 DEF Open
  <2>4. \A x \in r.reported : \E C : x \in C /\ Circular(graph, C) /\ Entered(graph, C)
    BY <1>10, <2>1
  <2>5. SearchOK(graph, r)
    BY <1>1, <1>7, <2>1, <2>2, <2>3, <2>4 DEF SearchOK
  <2> QED
    BY <1>0, <1>3, <2>1, <2>5
<1>14. CASE node \notin Visiting(path) /\ node \notin s.visited
  <2>0. PICK p : p = Append(path, node)
    OBVIOUS
  <2>1. r = [path |-> p, calls |-> calls, visited |-> s.visited, reported |-> s.reported]
    BY <1>11, <1>14, <2>0
  <2>2. /\ p \in Seq(Nodes(graph)) /\ Len(p) = n + 1 /\ DOMAIN p = 1 .. n + 1
        /\ p[n + 1] = node /\ \A i \in 1 .. n : p[i] = path[i]
    BY <1>1, <1>2, <1>3, <2>0
  <2>3. \A i \in 1 .. n : path[i] # node
    BY <1>3, <1>14 DEF Visiting
  <2>4. PathOK(graph, p)
    <3>1. ASSUME NEW i \in DOMAIN p, NEW j \in DOMAIN p, p[i] = p[j] PROVE i = j
      <4>1. i = n + 1 <=> j = n + 1
        BY <2>2, <2>3, <3>1
      <4>2. i # n + 1 /\ j # n + 1 => i \in DOMAIN path /\ j \in DOMAIN path /\ path[i] = path[j]
        BY <1>3, <2>2, <3>1
      <4> QED
        BY <1>1, <4>1, <4>2 DEF PathOK
    <3>2. ASSUME NEW i \in DOMAIN p, i > 1 PROVE Edge(graph, p[i - 1], p[i])
      <4>1. CASE i = n + 1
        <5>1. i - 1 = n /\ n \in 1 .. n
          BY <3>2, <4>1
        <5> QED
          BY <1>3, <1>4, <1>5, <2>2, <4>1, <5>1
      <4>2. CASE i # n + 1
        <5>1. i \in DOMAIN path /\ i \in 1 .. n /\ i - 1 \in 1 .. n
          BY <1>3, <2>2, <3>2, <4>2
        <5> QED
          BY <1>1, <2>2, <3>2, <5>1 DEF PathOK
      <4> QED
        BY <4>1, <4>2
    <3> QED
      BY <2>2, <3>1, <3>2 DEF PathOK
  <2>5. Visiting(path) \subseteq Visiting(p) /\ node \in Visiting(p)
    BY <1>3, <2>2 DEF Visiting
  <2>6. Started(graph, r)
    BY <1>2, <1>7, <1>8, <2>1, <2>5 DEF Started
  <2>7. \A x, y : Later(path, x, y) => Later(p, x, y)
    <3> SUFFICES ASSUME NEW x, NEW y, NEW i \in DOMAIN path, NEW j \in DOMAIN path,
                        i < j, path[i] = x, path[j] = y
                 PROVE  Later(p, x, y)
      BY DEF Later
    <3>1. i \in DOMAIN p /\ j \in DOMAIN p /\ p[i] = x /\ p[j] = y
      BY <1>3, <2>2
    <3> QED
      BY <3>1 DEF Later
  <2>8. n # 0 => Later(p, u, node)
    <3> SUFFICES ASSUME n # 0 PROVE Later(p, u, node)
      OBVIOUS
    <3>1. n \in DOMAIN p /\ n + 1 \in DOMAIN p /\ n < n + 1 /\ p[n] = u
      BY <1>3, <2>2
    <3> QED
      BY <2>2, <3>1 DEF Later
  <2>9. ASSUME NEW C, Circular(graph, C), C \cap s.reported = {},
               NEW x \in C, NEW y \in C, <<x, y>> \in Calls(graph) \ calls
        PROVE  Later(p, x, y)
    <3>1. CASE <<x, y>> = call
      <4>1. x = u /\ y = node /\ x # None
        BY <1>2, <2>9, <3>1 DEF Circular
      <4> QED
        BY <1>4, <2>8, <4>1
    <3>2. CASE <<x, y>> # call
      BY <1>7, <1>9, <2>7, <2>9, <3>2
    <3> QED
      BY <3>1, <3>2
  <2>10. ASSUME NEW C, Circular(graph, C) PROVE Open(graph, r, C)
    BY <1>9, <2>1, <2>9, <2>10 DEF Open
  <2>11. \A x \in r.reported : \E C : x \in C /\ Circular(graph, C) /\ Entered(graph, C)
    BY <1>10, <2>1
  <2>12. SearchOK(graph, r)
    BY <1>7, <2>1, <2>4, <2>6, <2>10, <2>11 DEF SearchOK
  <2> QED
    BY <1>0, <1>3, <2>1, <2>2, <2>12
<1> QED
  BY <1>12, <1>13, <1>14

(* Each round makes a call or returns from one, or the search has ended.   *)
Ended(s) == s.path = <<>> /\ {call \in s.calls : call[1] = Top(s.path)} = {}
Remaining(s) == 2 * Cardinality(s.calls) + Len(s.path)

LEMMA AdvanceOK ==
    ASSUME NEW graph, IsGraph(graph), NEW s, SearchOK(graph, s), NEW r, r = Advance(s)
    PROVE  /\ SearchOK(graph, r)
           /\ Ended(s) => r = s
           /\ ~Ended(s) => Remaining(s) \in Nat /\ Remaining(r) \in Nat /\ Remaining(r) < Remaining(s)
<1> DEFINE due == {call \in s.calls : call[1] = Top(s.path)}
<1>1. IsFiniteSet(s.calls) /\ Cardinality(s.calls) \in Nat /\ Len(s.path) \in Nat
  <2>1. s.calls \subseteq Calls(graph) /\ s.path \in Seq(Nodes(graph))
    BY DEF SearchOK, PathOK
  <2>2. IsFiniteSet(s.calls)
    BY <2>1, FS_Subset DEF IsGraph
  <2> QED
    BY <2>1, <2>2, FS_CardinalityType
<1>2. CASE due = {} /\ s.path = <<>>
  BY <1>2 DEF Advance, Leave, Ended
<1>3. CASE due = {} /\ s.path # <<>>
  <2>1. r = Leave(s)
    BY <1>3 DEF Advance
  <2>2. SearchOK(graph, r) /\ r.calls = s.calls /\ Len(r.path) = Len(s.path) - 1
    BY <1>3, <2>1, LeaveOK
  <2>3. s.path \in Seq(Nodes(graph)) /\ r.path \in Seq(Nodes(graph))
    BY <2>2 DEF SearchOK, PathOK
  <2>4. Len(r.path) \in Nat
    BY <2>3
  <2>5. ~Ended(s)
    BY <1>3 DEF Ended
  <2> QED
    BY <1>1, <2>2, <2>4, <2>5 DEF Remaining
<1>4. CASE due # {}
  <2>1. PICK call : call = CHOOSE c \in due : TRUE
    OBVIOUS
  <2>2. call \in s.calls /\ call[1] = Top(s.path)
    BY <1>4, <2>1
  <2>3. r = Visit(Called(s, call), call[2])
    BY <1>4, <2>1 DEF Advance, Called
  <2>4. /\ SearchOK(graph, r)
        /\ r.calls = s.calls \ {call} /\ Len(r.path) \in {Len(s.path), Len(s.path) + 1}
    BY <2>2, <2>3, VisitOK
  <2>5. Cardinality(r.calls) = Cardinality(s.calls) - 1 /\ Cardinality(r.calls) \in Nat
    BY <1>1, <2>2, <2>4, FS_RemoveElement, FS_CardinalityType
  <2>6. ~Ended(s)
    BY <1>4 DEF Ended
  <2>7. PICK k \in Nat, m \in Nat, n \in Nat : k = Cardinality(s.calls) /\ m = Len(s.path)
                                            /\ n = Cardinality(r.calls)
    BY <1>1, <2>5
  <2>8. n = k - 1 /\ Len(r.path) \in {m, m + 1}
    BY <2>4, <2>5, <2>7
  <2>9. Remaining(s) = 2 * k + m /\ Remaining(r) = 2 * n + Len(r.path)
    BY <2>7 DEF Remaining
  <2>10. Remaining(s) \in Nat /\ Remaining(r) \in Nat /\ Remaining(r) < Remaining(s)
    <3>1. CASE Len(r.path) = m
      BY <2>8, <2>9, <3>1
    <3>2. CASE Len(r.path) = m + 1
      BY <2>8, <2>9, <3>2
    <3> QED
      BY <2>8, <3>1, <3>2
  <2> QED
    BY <2>4, <2>6, <2>10
<1> QED
  BY <1>2, <1>3, <1>4

LEMMA Least ==
  ASSUME NEW T, T \subseteq Nat, T # {}
  PROVE  \E x \in T : \A y \in T : x <= y
<1> DEFINE R == {ss \in Nat \X Nat : ss[1] < ss[2]}
<1>1. IsWellFoundedOn(R, Nat)
  BY NatLessThanWellFounded DEF OpToRel
<1> HIDE DEF R
<1>2. PICK x \in T : \A y \in T : <<y, x>> \notin R
  BY <1>1, WFMin
<1>3. ASSUME NEW y \in T PROVE x <= y
  <2>1. PICK p : p = <<y, x>>
    OBVIOUS
  <2>2. p \in Nat \X Nat /\ p[1] = y /\ p[2] = x
    BY <2>1
  <2>3. ~(y < x)
    BY <1>2, <2>1, <2>2 DEF R
  <2> QED
    BY <2>3
<1> QED
  BY <1>3

(* Induction, over a set of numbers up to N.                               *)
LEMMA UpTo ==
  ASSUME NEW N \in Nat, NEW T, 0 \in T, \A n \in Nat : n < N /\ n \in T => n + 1 \in T
  PROVE  0 .. N \subseteq T
<1>1. SUFFICES ASSUME (0 .. N) \ T # {} PROVE FALSE
  OBVIOUS
<1>2. PICK x \in (0 .. N) \ T : \A y \in (0 .. N) \ T : x <= y
  <2>1. PICK D : D = (0 .. N) \ T
    OBVIOUS
  <2>2. D \subseteq Nat /\ D # {}
    BY <1>1, <2>1
  <2>3. \E x \in D : \A y \in D : x <= y
    BY <2>2, Least
  <2> QED
    BY <2>1, <2>3
<1>3. x # 0 /\ x - 1 \in Nat /\ x - 1 < N
  BY <1>2
<1>4. x - 1 \in T
  BY <1>2, <1>3
<1> QED
  BY <1>2, <1>3, <1>4

Begun(graph) == [path |-> <<>>, calls |-> Calls(graph), visited |-> {}, reported |-> {}]

(* The rounds are well defined: one after the other.                       *)
LEMMA RoundsOf ==
  ASSUME NEW graph, IsGraph(graph), NEW N, N = Rounds(graph)
  PROVE  /\ N \in Nat
         /\ Search(graph)[0] = Begun(graph)
         /\ \A n \in Nat : n < N => Search(graph)[n + 1] = Advance(Search(graph)[n])
<1>0. N \in Nat
  BY FS_CardinalityType DEF IsGraph, Rounds
<1> DEFINE Round(f, n) == IF n = 0 THEN Begun(graph) ELSE Advance(f[n - 1])
           T == {k \in Nat : \E f : f = [n \in 0 .. k |-> Round(f, n)]}
<1>1. 0 \in T
  <2>1. PICK f : f = [n \in 0 .. 0 |-> Begun(graph)]
    OBVIOUS
  <2>2. f = [n \in 0 .. 0 |-> Round(f, n)]
    BY <2>1
  <2> QED
    BY <2>2
<1>2. ASSUME NEW k \in Nat, k \in T PROVE k + 1 \in T
  <2>1. PICK f : f = [n \in 0 .. k |-> Round(f, n)]
    BY <1>2
  <2>2. PICK h : h = [n \in 0 .. k + 1 |-> IF n = k + 1 THEN Advance(f[k]) ELSE f[n]]
    OBVIOUS
  <2>3. ASSUME NEW n \in 0 .. k + 1 PROVE h[n] = Round(h, n)
    <3>1. CASE n = 0
      BY <2>1, <2>2, <3>1
    <3>2. CASE n # 0 /\ n <= k
      <4>1. n \in 0 .. k /\ n - 1 \in 0 .. k /\ n # k + 1 /\ n - 1 # k + 1 /\ n - 1 \in 0 .. k + 1
        BY <3>2
      <4>2. h[n] = f[n] /\ h[n - 1] = f[n - 1]
        BY <2>2, <4>1
      <4>3. f[n] = Advance(f[n - 1])
        BY <2>1, <3>2, <4>1
      <4> QED
        BY <3>2, <4>2, <4>3
    <3>3. CASE n = k + 1
      <4>1. n # 0 /\ n - 1 = k /\ k \in 0 .. k + 1 /\ k # k + 1
        BY <3>3
      <4> QED
        BY <2>2, <3>3, <4>1
    <3> QED
      BY <3>1, <3>2, <3>3
  <2>4. h = [n \in 0 .. k + 1 |-> Round(h, n)]
    BY <2>2, <2>3
  <2> QED
    BY <2>4
<1>3. N \in T
  <2> HIDE DEF T
  <2> QED
    BY <1>0, <1>1, <1>2, UpTo
<1>4. PICK f : f = [n \in 0 .. N |-> Round(f, n)]
  BY <1>3
<1>5. Search(graph) = [n \in 0 .. N |-> Round(Search(graph), n)]
  BY <1>4 DEF Search, Begun
<1>6. Search(graph)[0] = Begun(graph)
  BY <1>0, <1>5
<1>7. ASSUME NEW n \in Nat, n < N
      PROVE  Search(graph)[n + 1] = Advance(Search(graph)[n])
  <2>1. n + 1 \in 0 .. N /\ n + 1 # 0 /\ (n + 1) - 1 = n
    BY <1>0, <1>7
  <2> QED
    BY <1>5, <2>1
<1> QED
  BY <1>0, <1>6, <1>7

(* The search ends, and reports nodes of every cycle and of cycles only.   *)
LEMMA SearchFinds ==
  ASSUME NEW graph, IsGraph(graph), NEW found, found = DirectedCycles(graph)
  PROVE  /\ \A C : C # {} /\ Circular(graph, C) => C \cap found # {}
         /\ \A x \in found : \E C : x \in C /\ Circular(graph, C) /\ Entered(graph, C)
<1>1. PICK N, search : N = Rounds(graph) /\ search = Search(graph)
  OBVIOUS
<1>2. /\ N \in Nat /\ search[0] = Begun(graph)
      /\ \A n \in Nat : n < N => search[n + 1] = Advance(search[n])
  BY <1>1, RoundsOf
<1> DEFINE T == {n \in Nat : /\ SearchOK(graph, search[n])
                             /\ ~Ended(search[n]) => n + Remaining(search[n]) <= N}
<1>3. 0 \in T
  <2>1. PICK s : s = search[0]
    OBVIOUS
  <2>2. s.path = <<>> /\ s.calls = Calls(graph) /\ s.visited = {} /\ s.reported = {}
    BY <1>2, <2>1 DEF Begun
  <2>3. s = [path |-> s.path, calls |-> s.calls, visited |-> s.visited, reported |-> s.reported]
    BY <1>2, <2>1, <2>2 DEF Begun
  <2>4. PathOK(graph, s.path)
    BY <2>2 DEF PathOK
  <2>5. Started(graph, s) /\ \A C : Circular(graph, C) => Open(graph, s, C)
    BY <2>2 DEF Started, Open
  <2>6. SearchOK(graph, s)
    BY <2>2, <2>3, <2>4, <2>5 DEF SearchOK
  <2>7. Remaining(s) = N
    BY <1>1, <1>2, <2>2 DEF Remaining, Rounds
  <2> QED
    BY <1>2, <2>1, <2>6, <2>7
<1>4. ASSUME NEW n \in Nat, n < N, n \in T PROVE n + 1 \in T
  <2>1. PICK s, r : s = search[n] /\ r = search[n + 1]
    OBVIOUS
  <2>2. SearchOK(graph, s) /\ (~Ended(s) => n + Remaining(s) <= N) /\ r = Advance(s)
    BY <1>2, <1>4, <2>1
  <2>3. /\ SearchOK(graph, r)
        /\ Ended(s) => r = s
        /\ ~Ended(s) => Remaining(s) \in Nat /\ Remaining(r) \in Nat /\ Remaining(r) < Remaining(s)
    BY <2>2, AdvanceOK
  <2>4. ~Ended(r) => (n + 1) + Remaining(r) <= N
    BY <1>2, <2>2, <2>3
  <2> QED
    BY <2>1, <2>3, <2>4
<1>5. PICK s : s = search[N]
  OBVIOUS
<1>6. SearchOK(graph, s) /\ (~Ended(s) => N + Remaining(s) <= N)
  <2>1. N \in T
    <3> HIDE DEF T
    <3> QED
      BY <1>2, <1>3, <1>4, UpTo
  <2> QED
    BY <1>5, <2>1
<1>7. Ended(s)
  <2>1. PICK r : r = Advance(s)
    OBVIOUS
  <2>2. ~Ended(s) => Remaining(s) \in Nat /\ Remaining(r) \in Nat /\ Remaining(r) < Remaining(s)
    BY <1>6, <2>1, AdvanceOK
  <2> QED
    BY <1>2, <1>6, <2>2
<1>8. found = s.reported
  BY <1>1, <1>5 DEF DirectedCycles
<1>9. ASSUME NEW C, C # {}, Circular(graph, C) PROVE C \cap found # {}
  <2>1. PICK x \in C : \E y \in C : Edge(graph, x, y)
    BY <1>9 DEF Circular
  <2>2. <<None, x>> \in Calls(graph)
    BY <2>1, NodesAreReal
  <2>3. <<None, x>> \notin s.calls
    BY <1>7 DEF Ended, Top
  <2>4. x \in Visiting(s.path) \cup s.visited
    BY <1>6, <2>2, <2>3 DEF SearchOK, Started
  <2>5. Visiting(s.path) = {}
    BY <1>7 DEF Ended, Visiting
  <2> QED
    BY <1>6, <1>8, <1>9, <2>4, <2>5 DEF SearchOK, Open
<1>10. \A x \in found : \E C : x \in C /\ Circular(graph, C) /\ Entered(graph, C)
  BY <1>6, <1>8 DEF SearchOK
<1> QED
  BY <1>9, <1>10

LEMMA FiniteGraph ==
    ASSUME NEW graph, DOMAIN graph \subseteq Rows, \A x \in DOMAIN graph : graph[x] \subseteq Rows
    PROVE  IsGraph(graph)
<1>1. None \notin Rows
  BY WorldAssumption
<1>2. IsFiniteSet(Rows \cup {None})
  BY AuditAssumption, FS_AddElement
<1>3. IsFiniteSet((Rows \cup {None}) \X (Rows \cup {None}))
  BY <1>2, FS_Product
<1>4. Calls(graph) \subseteq (Rows \cup {None}) \X (Rows \cup {None})
  BY CallsAre
<1> QED
  BY <1>1, <1>3, <1>4, FS_Subset DEF IsGraph

(* The audit reports a node of every cycle of parents, and only nodes that *)
(* are on one, however many Tasks there are and in whatever order the      *)
(* search takes them (_verify_directed_cycles).                            *)
THEOREM CyclesAreReported == Spec => []CyclesReported
<1>1. HInv => CyclesReported
  <2> SUFFICES ASSUME HInv PROVE CyclesReported
    OBVIOUS
  <2>1. PICK graph, found : graph = ParentGraph(saved) /\ found = DirectedCycles(graph)
    OBVIOUS
  <2>2. \A x \in Tasks : saved[x] # Absent => saved[x].parent \in Tasks \cup {None}
    BY DEF HInv, IInv, GInv, RowsOK, TasksTyped, TaskRow
  <2>3. /\ DOMAIN graph = {x \in Tasks : saved[x] # Absent /\ saved[x].parent # None}
        /\ \A x \in DOMAIN graph : graph[x] = {saved[x].parent}
    <3>1. PICK D : D = {x \in Exist(saved, Tasks) : saved[x].parent # None}
      OBVIOUS
    <3>2. graph = [x \in D |-> {saved[x].parent}]
      BY <2>1, <3>1 DEF ParentGraph
    <3>3. D = {x \in Tasks : saved[x] # Absent /\ saved[x].parent # None}
      BY <3>1 DEF Exist
    <3>4. DOMAIN graph = D /\ \A x \in D : graph[x] = {saved[x].parent}
      BY <3>2
    <3> QED
      BY <3>3, <3>4
  <2>4. IsGraph(graph)
    BY <2>2, <2>3, FiniteGraph, TasksAreRows
  <2>5. /\ \A C : C # {} /\ Circular(graph, C) => C \cap found # {}
        /\ \A x \in found : \E C : x \in C /\ Circular(graph, C) /\ Entered(graph, C)
    BY <2>1, <2>4, SearchFinds
  <2>6. ASSUME NEW C \in SUBSET Exist(saved, Tasks), C # {}, \A x \in C : saved[x].parent \in C
        PROVE  C \cap found # {}
    <3>1. None \notin C
      BY NoneIsNoTask DEF Exist
    <3>2. ASSUME NEW x \in C PROVE Edge(graph, x, saved[x].parent)
      <4>1. x \in Tasks /\ saved[x] # Absent /\ saved[x].parent # None
        BY <2>6, <3>1 DEF Exist
      <4>2. x \in DOMAIN graph /\ graph[x] = {saved[x].parent}
        BY <2>3, <4>1
      <4> QED
        BY <2>4, <4>2, NodesAreReal
    <3> QED
      BY <2>5, <2>6, <3>1, <3>2 DEF Circular
  <2>7. ASSUME NEW x \in found
        PROVE  \E C \in SUBSET Exist(saved, Tasks) :
                   /\ \A y \in C : saved[y].parent \in C
                   /\ x \in C /\ \A y \in C : \E z \in C : saved[z].parent = y
    <3>1. PICK C : x \in C /\ Circular(graph, C) /\ Entered(graph, C)
      BY <2>5
    <3>2. ASSUME NEW y \in C, NEW z \in C, Edge(graph, y, z)
          PROVE  y \in Exist(saved, Tasks) /\ saved[y].parent = z
      BY <2>3, <2>4, <3>2, NodesAreReal DEF Exist
    <3>3. \A y \in C : y \in Exist(saved, Tasks) /\ saved[y].parent \in C
      BY <3>1, <3>2 DEF Circular
    <3>4. \A y \in C : \E z \in C : saved[z].parent = y
      BY <3>1, <3>2 DEF Entered
    <3> QED
      BY <3>1, <3>3, <3>4
  <2> QED
    BY <2>1, <2>6, <2>7 DEF CyclesReported
<1> QED
  BY <1>1, HInitOK, HStepOK, PTL DEF Spec

-----------------------------------------------------------------------------
(***************************************************************************)
(* Supersede chains                                                        *)
(*                                                                         *)
(* A turn sees the Decisions it holds as it has written them and the others*)
(* as they are committed.  The chains are sound not only so but whichever  *)
(* of the turns are taken to have committed (Chains): a commit and an abort*)
(* then change nothing but which turns those are.                          *)
(***************************************************************************)

(* The rows as they would be if the turns in S had committed.              *)
Together(S) == [r \in Rows |-> IF owner[r] \in S THEN draft[r] ELSE saved[r]]

Decided(row) == {d \in Decisions : row[d] # Absent}
Supersedes(row, d, old) ==
    /\ old \in Decided(row)
    /\ row[old].status = "SUPERSEDED" /\ row[old].successor = d
ChainsIn(row) ==
    /\ \A d \in Decided(row) :
         /\ row[d].supersedes # None => Supersedes(row, d, row[d].supersedes)
         /\ row[d].successor # None => row[d].successor \in Decided(row)
    /\ \A C \in (SUBSET Decided(row)) \ {{}} : \E d \in C : row[d].successor \notin C
Chains == \A S \in SUBSET Turns : ChainsIn(Together(S))

SameDecisions(a, b) == \A d \in Decisions : b[d] = a[d]
OthersSame(a, b, D) == \A d \in Decisions \ D : b[d] = a[d]
Decide(row) == \A d \in Decisions : row[d] \in DecisionRow \cup {Absent}

LEMMA NoDecisionIsNone == None \notin Decisions /\ Absent \notin DecisionRow
BY WorldAssumption DEF Rows, Entities

LEMMA SameChains ==
    ASSUME NEW a, NEW b, ChainsIn(a), SameDecisions(a, b)
    PROVE  ChainsIn(b)
<1>1. Decided(b) = Decided(a)
  BY DEF Decided, SameDecisions
<1>2. \A d \in Decided(a) : d \in Decisions /\ b[d] = a[d]
  BY DEF Decided, SameDecisions
<1> QED
  BY <1>1, <1>2 DEF ChainsIn, Supersedes

(* A new Decision has no successor, and nobody refers to it yet.           *)
LEMMA NewChain ==
    ASSUME NEW a, NEW b, Decide(a), ChainsIn(a), NEW d \in Decisions, a[d] = Absent,
           b[d] = NewDecision, OthersSame(a, b, {d})
    PROVE  ChainsIn(b)
<1> USE NoDecisionIsNone
<1>1. Decided(b) = Decided(a) \cup {d} /\ d \notin Decided(a)
  BY NewDecisionOK DEF Decided, OthersSame
<1>2. \A e \in Decided(a) : b[e] = a[e] /\ e # d
  BY <1>1 DEF OthersSame, Decided
<1>3. b[d].supersedes = None /\ b[d].successor = None
  BY DEF NewDecision
<1>4. ASSUME NEW C \in (SUBSET Decided(b)) \ {{}}
      PROVE  \E e \in C : b[e].successor \notin C
  <2>1. CASE d \in C
    BY <1>3, <2>1 DEF Decided
  <2>2. CASE d \notin C
    BY <1>1, <1>2, <2>2 DEF ChainsIn
  <2> QED
    BY <2>1, <2>2
<1>5. ASSUME NEW e \in Decided(b)
      PROVE  /\ b[e].supersedes # None => Supersedes(b, e, b[e].supersedes)
             /\ b[e].successor # None => b[e].successor \in Decided(b)
  BY <1>1, <1>2, <1>3 DEF ChainsIn, Supersedes
<1> QED
  BY <1>4, <1>5 DEF ChainsIn

(* A Decision without a successor that is ACTIVE is one that none          *)
(* supersedes.                                                             *)
LEMMA NotSuperseded ==
    ASSUME NEW a, ChainsIn(a), NEW old, old \in Decided(a), a[old].status = "ACTIVE"
    PROVE  \A e \in Decided(a) : a[e].supersedes # None => a[e].supersedes # old
BY DEF ChainsIn, Supersedes

LEMMA SupersededChain ==
    ASSUME NEW a, NEW b, Decide(a), ChainsIn(a), NEW d \in Decisions, a[d] = Absent,
           NEW old \in Decisions, a[old] # Absent, a[old].status = "ACTIVE",
           a[old].successor = None, OthersSame(a, b, {d, old}),
           b[d] = [NewDecision EXCEPT !.supersedes = old],
           b[old] # Absent, b[old].status = "SUPERSEDED", b[old].successor = d,
           b[old].supersedes = a[old].supersedes
    PROVE  ChainsIn(b)
<1> USE NoDecisionIsNone
<1>1. /\ b[d] # Absent /\ b[d].supersedes = old /\ b[d].successor = None
      /\ d # old
  BY NewDecisionOK DEF NewDecision
<1>2. Decided(b) = Decided(a) \cup {d} /\ d \notin Decided(a) /\ old \in Decided(a)
  BY <1>1 DEF Decided, OthersSame
<1>3. \A e \in Decided(a) \ {old} : b[e] = a[e] /\ e # d
  BY <1>2 DEF OthersSame, Decided
<1>4. ASSUME NEW C \in (SUBSET Decided(b)) \ {{}}
      PROVE  \E e \in C : b[e].successor \notin C
  <2>1. CASE d \in C
    BY <1>1, <2>1 DEF Decided
  <2>2. CASE d \notin C /\ old \in C
    BY <2>2
  <2>3. CASE d \notin C /\ old \notin C
    BY <1>2, <1>3, <2>3 DEF ChainsIn
  <2> QED
    BY <2>1, <2>2, <2>3
<1>5. ASSUME NEW e \in Decided(a), a[e].supersedes # None
      PROVE  Supersedes(b, e, a[e].supersedes)
  <2>1. a[e].supersedes # old /\ Supersedes(a, e, a[e].supersedes)
    BY <1>2, <1>5, NotSuperseded DEF ChainsIn
  <2> QED
    BY <1>2, <1>3, <2>1 DEF Supersedes
<1>6. Supersedes(b, d, old)
  BY <1>2 DEF Supersedes
<1>7. ASSUME NEW e \in Decided(b)
      PROVE  /\ b[e].supersedes # None => Supersedes(b, e, b[e].supersedes)
             /\ b[e].successor # None => b[e].successor \in Decided(b)
  <2>1. CASE e = d
    BY <1>1, <1>6, <2>1
  <2>2. CASE e = old
    BY <1>2, <1>5, <2>2
  <2>3. CASE e \in Decided(a) \ {old}
    BY <1>2, <1>3, <1>5, <2>3 DEF ChainsIn
  <2> QED
    BY <1>2, <2>1, <2>2, <2>3
<1> QED
  BY <1>4, <1>7 DEF ChainsIn

LEMMA RevokedChain ==
    ASSUME NEW a, NEW b, Decide(a), ChainsIn(a), NEW d \in Decisions, a[d] # Absent,
           a[d].status = "ACTIVE", OthersSame(a, b, {d}),
           b[d] = [a[d] EXCEPT !.status = "REVOKED"]
    PROVE  ChainsIn(b)
<1> USE NoDecisionIsNone
<1>1. a[d] \in DecisionRow
  BY DEF Decide
<1>2. /\ b[d] # Absent /\ b[d].successor = a[d].successor
      /\ b[d].supersedes = a[d].supersedes
  BY <1>1 DEF DecisionRow, Statuses
<1>3. Decided(b) = Decided(a) /\ d \in Decided(a)
  BY <1>2 DEF Decided, OthersSame
<1>4. \A e \in Decided(a) : /\ b[e].successor = a[e].successor
                            /\ b[e].supersedes = a[e].supersedes
                            /\ e # d => b[e] = a[e]
  BY <1>2 DEF OthersSame, Decided
<1>5. ASSUME NEW e \in Decided(b), b[e].supersedes # None
      PROVE  Supersedes(b, e, b[e].supersedes)
  <2>1. a[e].supersedes # d /\ Supersedes(a, e, a[e].supersedes)
    BY <1>3, <1>4, <1>5, NotSuperseded DEF ChainsIn
  <2> QED
    BY <1>3, <1>4, <2>1 DEF Supersedes
<1> QED
  BY <1>3, <1>4, <1>5 DEF ChainsIn

(* A step that writes no Decision, and gets or gives up only what is as it *)
(* is committed.                                                           *)
DecisionsQuiet ==
    \A d \in Decisions : /\ saved'[d] = saved[d] /\ draft'[d] = draft[d]
                         /\ owner'[d] = owner[d] \/ draft[d] = saved[d]

LEMMA TogetherIs ==
    ASSUME NEW S, NEW d \in Decisions
    PROVE  Together(S)[d] = IF owner[d] \in S THEN draft[d] ELSE saved[d]
BY Apart DEF Together

LEMMA TogetherIsNext ==
    ASSUME NEW S, NEW d \in Decisions
    PROVE  Together(S)'[d] = IF owner'[d] \in S THEN draft'[d] ELSE saved'[d]
BY Apart DEF Together

LEMMA TogetherDecides ==
    ASSUME HInv, NEW S
    PROVE  Decide(Together(S))
BY TogetherIs DEF Decide, HInv, Typed, RowTypes

LEMMA QuietChains ==
    ASSUME Chains, DecisionsQuiet
    PROVE  Chains'
<1> SUFFICES ASSUME NEW S \in SUBSET Turns PROVE ChainsIn(Together(S)')
  BY DEF Chains, ChainsIn, Decided, Supersedes
<1>1. SameDecisions(Together(S), Together(S)')
  BY TogetherIs, TogetherIsNext DEF SameDecisions, DecisionsQuiet
<1> QED
  BY <1>1, SameChains DEF Chains

LEMMA LockedQuiet ==
    ASSUME HInv, NEW t \in Turns, NEW S, LockRows(t, S)
    PROVE  \A d \in Decisions : owner'[d] = owner[d] \/ draft[d] = saved[d]
BY LockedRows, Apart DEF HInv, IInv, Typed

LEMMA ElsewhereChains ==
    ASSUME HInv, Chains, NEW t \in Turns, NEW S, LockRows(t, S), saved' = saved,
           NEW r \in Rows \ Decisions, NEW new, draft' = [draft EXCEPT ![r] = new]
    PROVE  Chains'
<1>1. \A d \in Decisions : draft'[d] = draft[d]
  BY DraftIs, Apart
<1> QED
  BY <1>1, LockedQuiet, QuietChains DEF DecisionsQuiet

LEMMA TaskChains ==
    ASSUME HInv, Chains, NEW t \in Turns, NEW x \in Tasks,
           \/ \E row \in NewTasks : CreateTask(t, x, row)
           \/ \E values \in TaskUpdates : UpdateTask(t, x, values)
           \/ LinkTaskGoal(t, x)
           \/ \E y \in Tasks : AddDependency(t, y, x)
    PROVE  Chains'
<1> USE Apart
<1>1. ASSUME NEW row, CreateTask(t, x, row) PROVE Chains'
  <2>1. /\ owner' = [owner EXCEPT ![x] = t] /\ saved' = saved
        /\ draft' = [draft EXCEPT ![x] = row]
    BY <1>1 DEF CreateTask, Write
  <2>2. \A d \in Decisions : owner'[d] = owner[d] /\ draft'[d] = draft[d]
    BY <2>1, DraftIs DEF HInv, IInv, GInv, RowsOK
  <2> QED
    BY <2>1, <2>2, QuietChains DEF DecisionsQuiet
<1>2. ASSUME NEW values, UpdateTask(t, x, values) PROVE Chains'
  <2>1. PICK S, new : LockRows(t, S) /\ saved' = saved /\ draft' = [draft EXCEPT ![x] = new]
    BY <1>2 DEF UpdateTask, Change, Write
  <2> QED
    BY <2>1, ElsewhereChains
<1>3. CASE LinkTaskGoal(t, x)
  <2>1. CASE Unwritten /\ LockRows(t, {x, Goal})
    BY <2>1, LockedQuiet, QuietChains DEF Unwritten, rows, DecisionsQuiet
  <2>2. CASE \E new : LockRows(t, {x, Goal}) /\ saved' = saved /\ draft' = [draft EXCEPT ![x] = new]
    BY <2>2, ElsewhereChains
  <2> QED
    BY <1>3, <2>1, <2>2 DEF LinkTaskGoal, Write
<1>4. ASSUME NEW y \in Tasks, AddDependency(t, y, x) PROVE Chains'
  <2>1. CASE Unwritten /\ LockRows(t, Visible(t))
    BY <2>1, LockedQuiet, QuietChains DEF Unwritten, rows, DecisionsQuiet
  <2>2. CASE \E new : /\ LockRows(t, Visible(t)) /\ saved' = saved
                      /\ draft' = [draft EXCEPT ![x] = new]
    BY <2>2, ElsewhereChains
  <2> QED
    BY <1>4, <2>1, <2>2 DEF AddDependency, Write
<1> QED
  BY <1>1, <1>2, <1>3, <1>4

LEMMA OtherChains ==
    ASSUME HInv, Chains, NEW t \in Turns,
           \/ \E done \in BOOLEAN : UpdateGoal(t, done)
           \/ \E c \in Criteria, mark \in Marks : UpdateCriterion(t, c, mark)
           \/ CacheSummary(t) \/ Refused(t)
           \/ \E x \in Tasks \cup {Goal}, everywhere \in BOOLEAN : BeginUndo(t, x, everywhere)
    PROVE  Chains'
<1> USE Apart
<1>1. ASSUME NEW done, UpdateGoal(t, done) PROVE Chains'
  <2>1. PICK S, new : LockRows(t, S) /\ saved' = saved /\ draft' = [draft EXCEPT ![Goal] = new]
    BY <1>1 DEF UpdateGoal, Change, Write
  <2>2. Goal \in Rows \ Decisions
    OBVIOUS
  <2> QED
    BY <2>1, <2>2, ElsewhereChains
<1>2. ASSUME NEW c \in Criteria, NEW mark, UpdateCriterion(t, c, mark) PROVE Chains'
  <2>1. PICK S, new : LockRows(t, S) /\ saved' = saved /\ draft' = [draft EXCEPT ![c] = new]
    BY <1>2 DEF UpdateCriterion, Change, Write
  <2>2. c \in Rows \ Decisions
    OBVIOUS
  <2> QED
    BY <2>1, <2>2, ElsewhereChains
<1>3. CASE CacheSummary(t)
  <2>1. /\ LockRows(t, {Project}) /\ saved' = saved
        /\ draft' = [draft EXCEPT ![Project] = {e.at : e \in Events(t)}]
    BY <1>3 DEF CacheSummary
  <2>2. Project \in Rows \ Decisions
    BY WorldAssumption DEF Rows
  <2> QED
    BY <2>1, <2>2, ElsewhereChains
<1>4. CASE Refused(t)
  BY <1>4, QuietChains DEF Refused, rows, DecisionsQuiet
<1>5. ASSUME NEW x, NEW everywhere, BeginUndo(t, x, everywhere) PROVE Chains'
  <2>1. LockRows(t, {x}) /\ saved' = saved /\ draft' = draft
    BY <1>5 DEF BeginUndo, rows
  <2> QED
    BY <2>1, LockedQuiet, QuietChains DEF DecisionsQuiet
<1> QED
  BY <1>1, <1>2, <1>3, <1>4, <1>5

LEMMA UndoChains ==
    ASSUME HInv, Chains, NEW t \in Turns, Restore(t) \/ RefuseUndo(t) \/ Flush(t)
    PROVE  Chains'
<1> USE Apart
<1>1. CASE Restore(t)
  <2>1. PICK e, new : /\ e = work[t].undoes /\ pc[t] = "undoing" /\ LockRows(t, {e.row})
                      /\ saved' = saved /\ draft' = [draft EXCEPT ![e.row] = new]
    BY <1>1 DEF Restore, Write
  <2>2. UndoOK(t, e)
    BY <2>1 DEF HInv, Work, WorkOK
  <2>3. e.kind = "changed" /\ ShapeOK(e)
    BY <2>2 DEF UndoOK, Reversible, HInv, Sets, SetOK, DatesOK
  <2>4. e.row \in Rows \ Decisions
    BY <2>3 DEF ShapeOK
  <2> QED
    BY <2>1, <2>4, ElsewhereChains
<1>2. CASE RefuseUndo(t)
  <2>1. PICK took : took = work[t].took
    OBVIOUS
  <2>2. /\ pc[t] = "undoing" /\ saved' = saved /\ draft' = draft
        /\ owner' = [r \in Rows |-> IF r \in took THEN None ELSE owner[r]]
    BY <1>2, <2>1 DEF RefuseUndo, rows
  <2>3. \A r \in took : draft[r] = saved[r]
    BY <2>1, <2>2 DEF HInv, Work, WorkOK, UndoOK
  <2> QED
    BY <2>2, <2>3, QuietChains DEF DecisionsQuiet
<1>3. CASE Flush(t)
  <2>1. /\ LockRows(t, Projects(t)) /\ saved' = saved
        /\ draft' = [r \in Rows |-> IF r \in Projects(t) THEN None ELSE draft[r]]
    BY <1>3 DEF Flush
  <2>2. Decisions \cap Projects(t) = {}
    BY WorldAssumption DEF Projects
  <2>3. \A d \in Decisions : draft'[d] = draft[d]
    BY <2>1, <2>2
  <2> QED
    BY <2>1, <2>3, LockedQuiet, QuietChains DEF DecisionsQuiet
<1> QED
  BY <1>1, <1>2, <1>3

(* A turn writes Decisions it holds: those who do not see it see what they *)
(* saw, and the others what it sees.                                       *)
LEMMA WrittenTogether ==
    ASSUME HInv, NEW t \in Turns, NEW D \in SUBSET Decisions, LockRows(t, D), saved' = saved,
           \A d \in Decisions \ D : draft'[d] = draft[d], NEW S \in SUBSET Turns
    PROVE  /\ t \notin S => SameDecisions(Together(S), Together(S)')
           /\ t \in S => /\ OthersSame(Together(S), Together(S)', D)
                         /\ \A d \in D : /\ Together(S)[d] = View(t)[d]
                                         /\ Together(S)'[d] = draft'[d]
<1> USE Apart, Nobody
<1>1. /\ \A d \in Decisions \ D : owner'[d] = owner[d]
      /\ \A d \in D : owner[d] \in {None, t} /\ owner'[d] = t
      /\ \A d \in Decisions : owner[d] = None => draft[d] = saved[d]
  BY LockedRows DEF HInv, IInv, Typed, LockRows
<1>2. \A d \in Decisions : View(t)[d] = IF owner[d] = t THEN draft[d] ELSE saved[d]
  BY DEF View
<1>3. CASE t \notin S
  BY <1>1, <1>3, TogetherIs, TogetherIsNext DEF SameDecisions
<1>4. CASE t \in S
  BY <1>1, <1>2, <1>4, TogetherIs, TogetherIsNext DEF OthersSame
<1> QED
  BY <1>3, <1>4

LEMMA WrittenChains ==
    ASSUME HInv, Chains, NEW t \in Turns, NEW D \in SUBSET Decisions, LockRows(t, D),
           saved' = saved, \A d \in Decisions \ D : draft'[d] = draft[d],
           \A a, b : /\ Decide(a) /\ ChainsIn(a) /\ OthersSame(a, b, D)
                     /\ \A d \in D : a[d] = View(t)[d] /\ b[d] = draft'[d]
                     => ChainsIn(b)
    PROVE  Chains'
<1> SUFFICES ASSUME NEW S \in SUBSET Turns PROVE ChainsIn(Together(S)')
  BY DEF Chains, ChainsIn, Decided, Supersedes
<1>1. ChainsIn(Together(S)) /\ Decide(Together(S))
  BY TogetherDecides DEF Chains
<1>2. PICK a, b : a = Together(S) /\ b = Together(S)'
  OBVIOUS
<1>3. CASE t \notin S
  BY <1>1, <1>3, WrittenTogether, SameChains
<1>4. CASE t \in S
  <2>1. /\ OthersSame(a, b, D)
        /\ \A d \in D : a[d] = View(t)[d] /\ b[d] = draft'[d]
    BY <1>2, <1>4, WrittenTogether
  <2> QED
    BY <1>1, <1>2, <2>1
<1> QED
  BY <1>3, <1>4

LEMMA DecisionChains ==
    ASSUME HInv, Chains, NEW t \in Turns, NEW d \in Decisions,
           \/ CreateDecision(t, d) \/ RevokeDecision(t, d)
           \/ \E old \in Decisions : SupersedeDecision(t, d, old)
    PROVE  Chains'
<1> USE Apart, Nobody
<1>1. CASE CreateDecision(t, d)
  <2>1. /\ LockRows(t, {d}) /\ saved' = saved /\ saved[d] = Absent /\ owner[d] = None
        /\ draft' = [draft EXCEPT ![d] = NewDecision]
    BY <1>1 DEF CreateDecision, Write
  <2>2. draft'[d] = NewDecision /\ \A e \in Decisions \ {d} : draft'[e] = draft[e]
    BY <2>1, DraftIs
  <2>3. View(t)[d] = Absent
    BY <2>1 DEF View
  <2>4. ASSUME NEW a, NEW b, Decide(a), ChainsIn(a), OthersSame(a, b, {d}),
               a[d] = View(t)[d], b[d] = draft'[d]
        PROVE  ChainsIn(b)
    BY <2>2, <2>3, <2>4, NewChain
  <2> QED
    BY <2>1, <2>2, <2>4, WrittenChains
<1>2. CASE RevokeDecision(t, d)
  <2>1. PICK new : new = [View(t)[d] EXCEPT !.status = "REVOKED"]
    OBVIOUS
  <2>2. /\ LockRows(t, {d}) /\ saved' = saved /\ Revocable(t, d)
        /\ draft' = [draft EXCEPT ![d] = new]
    BY <1>2, <2>1 DEF RevokeDecision, Write
  <2>3. draft'[d] = new /\ \A e \in Decisions \ {d} : draft'[e] = draft[e]
    BY <2>2, DraftIs
  <2>4. View(t)[d] # Absent /\ View(t)[d].status = "ACTIVE"
    BY <2>2 DEF Revocable
  <2>5. ASSUME NEW a, NEW b, Decide(a), ChainsIn(a), OthersSame(a, b, {d}),
               a[d] = View(t)[d], b[d] = draft'[d]
        PROVE  ChainsIn(b)
    BY <2>1, <2>3, <2>4, <2>5, RevokedChain
  <2> QED
    BY <2>2, <2>3, <2>5, WrittenChains
<1>3. ASSUME NEW old \in Decisions, SupersedeDecision(t, d, old) PROVE Chains'
  <2>1. PICK row : row = [NewDecision EXCEPT !.supersedes = old]
    OBVIOUS
  <2>2. PICK was, new : /\ was = View(t)[old]
                        /\ new = [was EXCEPT !.status = "SUPERSEDED", !.successor = d]
    OBVIOUS
  <2>3. /\ LockRows(t, {d, old}) /\ saved' = saved /\ Revocable(t, old)
        /\ saved[d] = Absent /\ owner[d] = None
        /\ draft' = [draft EXCEPT ![d] = row, ![old] = new]
    BY <1>3, <2>1, <2>2 DEF SupersedeDecision, Write
  <2>4. View(t)[d] = Absent
    BY <2>3 DEF View
  <2>5. /\ View(t)[old] # Absent /\ View(t)[old].status = "ACTIVE"
        /\ View(t)[old].successor = None
    BY <2>3 DEF Revocable
  <2>6. /\ d # old /\ draft'[d] = row /\ draft'[old] = new
        /\ \A e \in Decisions \ {d, old} : draft'[e] = draft[e]
    BY <2>3, <2>4, <2>5 DEF HInv, IInv, GInv, RowsOK
  <2>7. was \in DecisionRow
    BY <2>2, <2>5, Apart DEF View, HInv, Typed, RowTypes
  <2>8. /\ new # Absent /\ new.status = "SUPERSEDED" /\ new.successor = d
        /\ new.supersedes = was.supersedes
    <3>1. new \in DecisionRow
      BY <2>2, <2>7 DEF DecisionRow, Statuses
    <3>2. new.status = "SUPERSEDED" /\ new.successor = d /\ new.supersedes = was.supersedes
      BY <2>2, <2>7 DEF DecisionRow
    <3> QED
      BY <3>1, <3>2, NoDecisionIsNone
  <2>9. ASSUME NEW a, NEW b, Decide(a), ChainsIn(a), OthersSame(a, b, {d, old}),
               \A e \in {d, old} : a[e] = View(t)[e] /\ b[e] = draft'[e]
        PROVE  ChainsIn(b)
    <3>1. /\ a[d] = Absent /\ a[old] # Absent /\ a[old].status = "ACTIVE"
          /\ a[old].successor = None /\ b[d] = [NewDecision EXCEPT !.supersedes = old]
      BY <2>1, <2>4, <2>5, <2>6, <2>9
    <3>2. /\ b[old] # Absent /\ b[old].status = "SUPERSEDED" /\ b[old].successor = d
          /\ b[old].supersedes = a[old].supersedes
      BY <2>2, <2>6, <2>8, <2>9
    <3> QED
      BY <2>9, <3>1, <3>2, SupersededChain
  <2> QED
    BY <2>3, <2>6, <2>9, WrittenChains
<1> QED
  BY <1>1, <1>2, <1>3

LEMMA EndChains ==
    ASSUME HInv, Chains, NEW t \in Turns, Commit(t) \/ Abort(t)
    PROVE  Chains'
<1> USE Apart, Nobody
<1> SUFFICES ASSUME NEW S \in SUBSET Turns PROVE ChainsIn(Together(S)')
  BY DEF Chains, ChainsIn, Decided, Supersedes
<1>1. \A d \in Decisions : /\ owner'[d] = IF owner[d] = t THEN None ELSE owner[d]
                           /\ owner[d] \in Turns \cup {None}
  BY DEF Commit, Abort, Release, HInv, IInv, GInv, RowsOK
<1>2. CASE Commit(t)
  <2>1. \A d \in Decisions : /\ draft'[d] = draft[d]
                             /\ saved'[d] = IF owner[d] = t THEN draft[d] ELSE saved[d]
    BY <1>2 DEF Commit, View
  <2>2. PICK U \in SUBSET Turns : U = S \cup {t}
    OBVIOUS
  <2>3. SameDecisions(Together(U), Together(S)')
    BY <1>1, <2>1, <2>2, TogetherIs, TogetherIsNext DEF SameDecisions
  <2> QED
    BY <2>3, SameChains DEF Chains
<1>3. CASE Abort(t)
  <2>1. \A d \in Decisions : /\ saved'[d] = saved[d]
                             /\ draft'[d] = IF owner[d] = t THEN saved[d] ELSE draft[d]
    BY <1>3 DEF Abort
  <2>2. PICK U \in SUBSET Turns : U = S \ {t}
    OBVIOUS
  <2>3. SameDecisions(Together(U), Together(S)')
    BY <1>1, <2>1, <2>2, TogetherIs, TogetherIsNext DEF SameDecisions
  <2> QED
    BY <2>3, SameChains DEF Chains
<1> QED
  BY <1>2, <1>3

LEMMA ChainsInit == Init => Chains
<1> SUFFICES ASSUME Init, NEW S \in SUBSET Turns PROVE ChainsIn(Together(S))
  BY DEF Chains
<1> USE NoDecisionIsNone
<1>1. \A d \in Decisions : Together(S)[d] \in {NewDecision, Absent}
  BY TogetherIs, Apart, WorldAssumption DEF Init, FirstRows
<1>2. \A d \in Decided(Together(S)) :
          d \in Decisions /\ Together(S)[d].supersedes = None /\ Together(S)[d].successor = None
  BY <1>1 DEF Decided, NewDecision
<1> QED
  BY <1>2 DEF ChainsIn

LEMMA ChainsStep == HInv /\ Chains /\ [Next]_vars => Chains'
<1> SUFFICES ASSUME HInv, Chains, [Next]_vars PROVE Chains'
  OBVIOUS
<1>1. CASE UNCHANGED vars
  BY <1>1, QuietChains DEF vars, rows, locks, DecisionsQuiet
<1>2. ASSUME NEW t \in Turns, NEW x \in Tasks,
             \/ \E row \in NewTasks : CreateTask(t, x, row)
             \/ \E values \in TaskUpdates : UpdateTask(t, x, values)
             \/ LinkTaskGoal(t, x)
             \/ \E y \in Tasks : AddDependency(t, y, x)
      PROVE  Chains'
  BY <1>2, TaskChains
<1>3. ASSUME NEW t \in Turns,
             \/ \E done \in BOOLEAN : UpdateGoal(t, done)
             \/ \E c \in Criteria, mark \in Marks : UpdateCriterion(t, c, mark)
             \/ CacheSummary(t) \/ Refused(t)
             \/ \E x \in Tasks \cup {Goal}, everywhere \in BOOLEAN : BeginUndo(t, x, everywhere)
      PROVE  Chains'
  BY <1>3, OtherChains
<1>4. ASSUME NEW t \in Turns, Restore(t) \/ RefuseUndo(t) \/ Flush(t)
      PROVE  Chains'
  BY <1>4, UndoChains
<1>5. ASSUME NEW t \in Turns, NEW d \in Decisions,
             \/ CreateDecision(t, d) \/ RevokeDecision(t, d)
             \/ \E old \in Decisions : SupersedeDecision(t, d, old)
      PROVE  Chains'
  BY <1>5, DecisionChains
<1>6. ASSUME NEW t \in Turns, Commit(t) \/ Abort(t)
      PROVE  Chains'
  BY <1>6, EndChains
<1> QED
  BY <1>1, <1>2, <1>3, <1>4, <1>5, <1>6 DEF Next

LEMMA ChainsInvariant == Spec => [](HInv /\ Chains)
BY HInitOK, HStepOK, ChainsInit, ChainsStep, PTL DEF Spec

(* The committed chains: a Decision that supersedes one is its successor,  *)
(* that one is SUPERSEDED, successors exist, and no chain ends in itself.  *)
SupersedeChains == ChainsIn(saved)
LEMMA ChainsCommitted == Chains => SupersedeChains
<1> SUFFICES ASSUME Chains PROVE ChainsIn(saved)
  BY DEF SupersedeChains
<1>1. ChainsIn(Together({}))
  BY DEF Chains
<1>2. SameDecisions(Together({}), saved)
  BY TogetherIs DEF SameDecisions
<1> QED
  BY <1>1, <1>2, SameChains

(* However turns create, supersede, revoke and roll back Decisions at once,*)
(* the committed supersede chains are sound.                               *)
THEOREM SupersedeChainsSound == Spec => []SupersedeChains
BY ChainsInvariant, ChainsCommitted, PTL

-----------------------------------------------------------------------------
(***************************************************************************)
(* What the audit reports                                                  *)
(*                                                                         *)
(* A snapshot is the rows and events that are committed at some time.  What*)
(* every snapshot satisfies (Sound), and that no row is deleted (Follows), *)
(* leave an audit that a commit interrupts nothing but the torn issues.    *)
(***************************************************************************)

(* The nodes that a search reports are on a cycle of the rows.             *)
LEMMA NoParentCycle ==
    ASSUME NEW row, TasksTyped(row), ParentsAcyclicIn(row)
    PROVE  DirectedCycles(ParentGraph(row)) = {}
<1>1. PICK graph : graph = ParentGraph(row)
  OBVIOUS
<1>2. /\ DOMAIN graph = {x \in Tasks : row[x] # Absent /\ row[x].parent # None}
      /\ \A x \in DOMAIN graph : graph[x] = {row[x].parent}
  <2>1. PICK D : D = {x \in Exist(row, Tasks) : row[x].parent # None}
    OBVIOUS
  <2>2. graph = [x \in D |-> {row[x].parent}]
    BY <1>1, <2>1 DEF ParentGraph
  <2> QED
    BY <2>1, <2>2 DEF Exist
<1>3. IsGraph(graph)
  BY <1>2, FiniteGraph, TasksAreRows DEF TasksTyped, TaskRow
<1>4. ASSUME NEW C, Circular(graph, C), C # {} PROVE FALSE
  <2>1. ASSUME NEW x \in C PROVE x \in Tasks /\ row[x] # Absent /\ row[x].parent \in C
    <3>1. PICK y \in C : Edge(graph, x, y)
      BY <1>4 DEF Circular
    <3>2. x \in DOMAIN graph /\ y \in graph[x]
      BY <1>3, <3>1, NodesAreReal
    <3> QED
      BY <1>2, <3>2
  <2> QED
    BY <1>4, <2>1 DEF ParentsAcyclicIn
<1> QED
  BY <1>1, <1>3, <1>4, SearchFinds

LEMMA NoSuccessorCycle ==
    ASSUME NEW row, Decide(row), ChainsIn(row)
    PROVE  DirectedCycles(SuccessorGraph(row)) = {}
<1>1. PICK graph : graph = SuccessorGraph(row)
  OBVIOUS
<1>2. /\ DOMAIN graph = {x \in Decisions : row[x] # Absent /\ row[x].successor # None}
      /\ \A x \in DOMAIN graph : graph[x] = {row[x].successor}
  <2>1. PICK D : D = {x \in Exist(row, Decisions) : row[x].successor # None}
    OBVIOUS
  <2>2. graph = [x \in D |-> {row[x].successor}]
    BY <1>1, <2>1 DEF SuccessorGraph
  <2> QED
    BY <2>1, <2>2 DEF Exist
<1>3. IsGraph(graph)
  BY <1>2, FiniteGraph, Apart DEF Decide, DecisionRow
<1>4. ASSUME NEW C, Circular(graph, C), C # {} PROVE FALSE
  <2>1. ASSUME NEW x \in C PROVE x \in Decided(row) /\ row[x].successor \in C
    <3>1. PICK y \in C : Edge(graph, x, y)
      BY <1>4 DEF Circular
    <3>2. x \in DOMAIN graph /\ y \in graph[x]
      BY <1>3, <3>1, NodesAreReal
    <3> QED
      BY <1>2, <3>2 DEF Decided
  <2> QED
    BY <1>4, <2>1 DEF ChainsIn
<1> QED
  BY <1>1, <1>3, <1>4, SearchFinds

LEMMA NoDependencyCycle ==
    ASSUME NEW row, TasksTyped(row), NeedsAcyclicIn(row)
    PROVE  DirectedCycles(DependencyGraph(row)) = {}
<1>1. PICK graph : graph = DependencyGraph(row)
  OBVIOUS
<1>2. DOMAIN graph \subseteq Tasks /\ \A x \in DOMAIN graph : graph[x] = Dependents(row, x)
  <2>1. PICK D : D = {x \in Tasks : Dependents(row, x) # {}}
    OBVIOUS
  <2>2. graph = [x \in D |-> Dependents(row, x)]
    BY <1>1, <2>1 DEF DependencyGraph
  <2> QED
    BY <2>1, <2>2
<1>3. \A x, y : y \in Dependents(row, x) <=> y \in Tasks /\ row[y] # Absent /\ x \in row[y].needs
  BY DEF Dependents, Exist
<1>4. IsGraph(graph)
  BY <1>2, <1>3, FiniteGraph, TasksAreRows
<1>5. ASSUME NEW C, Entered(graph, C), C # {} PROVE FALSE
  <2>1. ASSUME NEW y \in C PROVE y \in Tasks /\ row[y] # Absent /\ row[y].needs \cap C # {}
    <3>1. PICK x \in C : Edge(graph, x, y)
      BY <1>5 DEF Entered
    <3>2. x \in DOMAIN graph /\ y \in graph[x]
      BY <1>4, <3>1, NodesAreReal
    <3> QED
      BY <1>2, <1>3, <3>2
  <2> QED
    BY <1>5, <2>1 DEF NeedsAcyclicIn
<1> QED
  BY <1>1, <1>4, <1>5, SearchFinds

Sound(c) ==
    /\ TasksTyped(c.rows) /\ ClosedIn(c.rows) /\ NeedsAcyclicIn(c.rows)
    /\ Decide(c.rows) /\ ChainsIn(c.rows)
    /\ \A e \in c.log : /\ e.on \in Present(c.rows) \cup Decided(c.rows) \cup {Goal}
                        /\ e.reverses # 0 => \E f \in c.log : f.at = e.reverses

Follows(b, a) ==
    Present(b.rows) \subseteq Present(a.rows) /\ Decided(b.rows) \subseteq Decided(a.rows)

(* Every table is of one of the snapshots, and the typed rows are read     *)
(* after the entities.                                                     *)
Torn(look, b, a) ==
    /\ \A t \in {"entities", "tasks", "decisions", "events", "links", "dependencies"} :
           look[t] \in {b, a}
    /\ look["entities"] = b \/ (look["tasks"] = a /\ look["decisions"] = a)
Whole(look, c) ==
    \A t \in {"entities", "tasks", "decisions", "events", "links", "dependencies"} : look[t] = c

LEMMA LookIs ==
    ASSUME NEW n \in 0 .. Len(Tables), NEW b, NEW a
    PROVE  /\ Torn(Look(n, b, a), b, a)
           /\ n = 0 => Whole(Look(n, b, a), a)
           /\ n = Len(Tables) => Whole(Look(n, b, a), b)
<1>1. /\ Len(Tables) = 6 /\ DOMAIN Tables = 1 .. 6
      /\ Tables[1] = "entities" /\ Tables[2] = "tasks" /\ Tables[3] = "decisions"
      /\ Tables[4] = "events" /\ Tables[5] = "links" /\ Tables[6] = "dependencies"
  BY DEF Tables
<1>2. \A i \in 1 .. 6 : Look(n, b, a)[Tables[i]] = IF \E j \in 1 .. n : Tables[j] = Tables[i] THEN b ELSE a
  BY <1>1 DEF Look
<1>3. \A i, j \in 1 .. 6 : Tables[i] = Tables[j] => i = j
  BY <1>1
<1>4. ASSUME NEW i \in 1 .. 6
      PROVE  Look(n, b, a)[Tables[i]] = IF i <= n THEN b ELSE a
  <2>1. (\E j \in 1 .. n : Tables[j] = Tables[i]) <=> i <= n
    BY <1>1, <1>3
  <2> QED
    BY <1>2, <2>1
<1>5. /\ Look(n, b, a)["entities"] = IF 1 <= n THEN b ELSE a
      /\ Look(n, b, a)["tasks"] = IF 2 <= n THEN b ELSE a
      /\ Look(n, b, a)["decisions"] = IF 3 <= n THEN b ELSE a
      /\ Look(n, b, a)["events"] = IF 4 <= n THEN b ELSE a
      /\ Look(n, b, a)["links"] = IF 5 <= n THEN b ELSE a
      /\ Look(n, b, a)["dependencies"] = IF 6 <= n THEN b ELSE a
  BY <1>1, <1>4
<1> QED
  BY <1>1, <1>5 DEF Torn, Whole

LEMMA ExistIs ==
    ASSUME NEW row
    PROVE  /\ Exist(row, Tasks) = Present(row) /\ Exist(row, Decisions) = Decided(row)
           /\ Exist(row, Tasks \cup Decisions) = Present(row) \cup Decided(row)
BY DEF Exist, Present, Decided

LEMMA IdentitiesAre ==
    ASSUME NEW look
    PROVE  Identities(look) =
               Present(look["entities"].rows) \cup Decided(look["entities"].rows) \cup {Goal}
BY ExistIs DEF Identities, Entity

LEMMA TypedRowsTorn ==
    ASSUME NEW b, NEW a, Follows(b, a), NEW look, Torn(look, b, a)
    PROVE  /\ TypedRowIssues(look) \subseteq TornIssues
           /\ \A c \in {b, a} : Whole(look, c) => TypedRowIssues(look) = {}
<1>1. PICK typed : typed = Present(look["tasks"].rows) \cup Decided(look["decisions"].rows) \cup {Goal}
  OBVIOUS
<1>2. PICK missing, stray \in BOOLEAN :
          /\ missing = (Identities(look) \ typed # {})
          /\ stray = (typed \ Identities(look) # {})
  OBVIOUS
<1>3. typed = Exist(Task(look), Tasks) \cup Exist(Decision(look), Decisions) \cup {Goal}
  BY <1>1, ExistIs DEF Task, Decision
<1>4. TypedRowIssues(look) =
          Found([PHYSICAL_TYPED_ROW_MISSING |-> missing, TYPED_ROW_WITHOUT_ENTITY |-> stray])
  BY <1>2, <1>3, Zenon DEF TypedRowIssues
<1>5. ~missing
  BY <1>1, <1>2, IdentitiesAre DEF Torn, Follows
<1>6. TypedRowIssues(look) \subseteq TornIssues
  BY <1>4, <1>5 DEF Found, TornIssues
<1>7. ASSUME NEW c \in {b, a}, Whole(look, c) PROVE TypedRowIssues(look) = {}
  <2>1. ~stray
    BY <1>1, <1>2, <1>7, IdentitiesAre DEF Whole
  <2> QED
    BY <1>4, <1>5, <2>1 DEF Found
<1> QED
  BY <1>6, <1>7

LEMMA HistoryTorn ==
    ASSUME NEW b, NEW a, Sound(b), Sound(a), NEW look, Torn(look, b, a)
    PROVE  /\ HistoryIssues(look) \subseteq TornIssues
           /\ \A c \in {b, a} : Whole(look, c) => HistoryIssues(look) = {}
<1>1. PICK events : events = look["events"].log
  OBVIOUS
<1>2. PICK missing, lost \in BOOLEAN :
          /\ missing = (\E e \in events : e.on \notin Identities(look))
          /\ lost = (\E e \in events : e.reverses # 0 /\ \A f \in events : f.at # e.reverses)
  OBVIOUS
<1>3. HistoryIssues(look) =
          Found([EVENT_ENTITY_MISSING |-> missing, EVENT_REVERSE_TARGET_MISSING |-> lost])
  BY <1>1, <1>2, Zenon DEF HistoryIssues
<1>4. ~lost
  BY <1>1, <1>2 DEF Torn, Sound
<1>5. HistoryIssues(look) \subseteq TornIssues
  BY <1>3, <1>4 DEF Found, TornIssues
<1>6. ASSUME NEW c \in {b, a}, Whole(look, c) PROVE HistoryIssues(look) = {}
  <2>1. ~missing
    BY <1>1, <1>2, <1>6, IdentitiesAre DEF Whole, Sound
  <2> QED
    BY <1>3, <1>4, <2>1 DEF Found
<1> QED
  BY <1>5, <1>6

LEMMA RelationsTorn ==
    ASSUME NEW b, NEW a, Sound(b), Sound(a), NEW look, Torn(look, b, a)
    PROVE  /\ RelationIssues(look) \subseteq TornIssues
           /\ \A c \in {b, a} : Whole(look, c) => RelationIssues(look) = {}
<1>1. PICK link, dependency, task :
          /\ link = look["links"].rows /\ dependency = look["dependencies"].rows
          /\ task = look["tasks"].rows
  OBVIOUS
<1>2. PICK linked, needed, cycle \in BOOLEAN :
          /\ linked = (\E x \in Present(link) : link[x].linked /\ x \notin Present(task))
          /\ needed = (\E x \in Present(dependency) :
                           /\ dependency[x].needs # {}
                           /\ ~({x} \cup dependency[x].needs \subseteq Present(task)))
          /\ cycle = (DirectedCycles(DependencyGraph(dependency)) # {})
  OBVIOUS
<1>3. Exist(link, Tasks) = Present(link) /\ Exist(dependency, Tasks) = Present(dependency)
      /\ Exist(Task(look), Tasks) = Present(task)
  BY <1>1, ExistIs DEF Task
<1>4. RelationIssues(look) =
          Found([DANGLING_TASK_GOAL_LINK |-> linked, DANGLING_TASK_DEPENDENCY |-> needed,
                 TASK_DEPENDENCY_CYCLE |-> cycle])
  BY <1>1, <1>2, <1>3, ZenonT(60) DEF RelationIssues
<1>5. ~cycle
  BY <1>1, <1>2, NoDependencyCycle DEF Torn, Sound
<1>6. RelationIssues(look) \subseteq TornIssues
  BY <1>4, <1>5 DEF Found, TornIssues
<1>7. ASSUME NEW c \in {b, a}, Whole(look, c) PROVE RelationIssues(look) = {}
  <2>1. link = c.rows /\ dependency = c.rows /\ task = c.rows
    BY <1>1, <1>7 DEF Whole
  <2>2. ~linked /\ ~needed
    BY <1>2, <2>1 DEF Sound, ClosedIn
  <2> QED
    BY <1>4, <1>5, <2>2 DEF Found
<1> QED
  BY <1>6, <1>7

LEMMA SupersedesTorn ==
    ASSUME NEW b, NEW a, Sound(b), Sound(a), NEW look, Torn(look, b, a)
    PROVE  /\ SupersedeIssues(look) \subseteq TornIssues
           /\ \A c \in {b, a} : Whole(look, c) => SupersedeIssues(look) = {}
<1>1. PICK broken, cycle \in BOOLEAN :
          /\ broken = (\/ \E d \in Exist(Decision(look), Decisions) : WrongPredecessor(look, d)
                       \/ \E d \in Identities(look) \cap Decisions :
                              Entity(look)[d].successor \notin Identities(look) \cup {None})
          /\ cycle = (DirectedCycles(SuccessorGraph(Entity(look))) # {})
  OBVIOUS
<1>2. SupersedeIssues(look) =
          Found([INVALID_SUPERSEDE_CHAIN |-> broken, SUPERSEDE_CYCLE |-> cycle])
  BY <1>1, Zenon DEF SupersedeIssues
<1>3. ~cycle
  BY <1>1, NoSuccessorCycle DEF Torn, Sound, Entity
<1>4. SupersedeIssues(look) \subseteq TornIssues
  BY <1>2, <1>3 DEF Found, TornIssues
<1>5. ASSUME NEW c \in {b, a}, Whole(look, c) PROVE SupersedeIssues(look) = {}
  <2>1. PICK row : row = c.rows
    OBVIOUS
  <2>2. /\ Decision(look) = row /\ Entity(look) = row /\ Exist(row, Decisions) = Decided(row)
        /\ Identities(look) = Present(row) \cup Decided(row) \cup {Goal}
    BY <1>5, <2>1, IdentitiesAre, ExistIs DEF Whole, Decision, Entity
  <2>3. Identities(look) \cap Decisions = Decided(row)
    BY <2>2, Apart, TasksAreRows DEF Present, Decided
  <2>4. ASSUME NEW d \in Decided(row) PROVE ~WrongPredecessor(look, d)
    BY <2>1, <2>2 DEF WrongPredecessor, Sound, ChainsIn, Supersedes
  <2>5. ASSUME NEW d \in Decided(row) PROVE row[d].successor \in Identities(look) \cup {None}
    BY <2>1, <2>2 DEF Sound, ChainsIn
  <2>6. ~broken
    BY <1>1, <2>2, <2>3, <2>4, <2>5
  <2> QED
    BY <1>2, <1>3, <2>6 DEF Found
<1> QED
  BY <1>4, <1>5

LEMMA ParentsTorn ==
    ASSUME NEW b, NEW a, Sound(b), Sound(a), NEW look, Torn(look, b, a)
    PROVE  ParentIssues(look) \subseteq
               IF ParentsAcyclicIn(b.rows) /\ ParentsAcyclicIn(a.rows) THEN {} ELSE {"TASK_PARENT_CYCLE"}
<1>1. PICK cycle \in BOOLEAN : cycle = (DirectedCycles(ParentGraph(Task(look))) # {})
  OBVIOUS
<1>2. ParentIssues(look) = Found([TASK_PARENT_CYCLE |-> cycle])
  BY <1>1, Zenon DEF ParentIssues
<1>3. ParentsAcyclicIn(b.rows) /\ ParentsAcyclicIn(a.rows) => ~cycle
  BY <1>1, NoParentCycle DEF Torn, Sound, Task
<1> QED
  BY <1>2, <1>3 DEF Found

LEMMA IssuesTorn ==
    ASSUME NEW b, NEW a, Sound(b), Sound(a), Follows(b, a), NEW n \in 0 .. Len(Tables)
    PROVE  Issues(Look(n, b, a)) \subseteq
               (IF n \in {0, Len(Tables)} THEN {} ELSE TornIssues)
                   \cup (IF ParentsAcyclicIn(b.rows) /\ ParentsAcyclicIn(a.rows) THEN {}
                         ELSE {"TASK_PARENT_CYCLE"})
<1>1. PICK look : look = Look(n, b, a)
  OBVIOUS
<1>2. /\ Torn(look, b, a)
      /\ n \in {0, Len(Tables)} => \E c \in {b, a} : Whole(look, c)
  BY <1>1, LookIs
<1>3. PICK typed, past, related, superseded, parents :
          /\ typed = TypedRowIssues(look) /\ past = HistoryIssues(look)
          /\ related = RelationIssues(look) /\ superseded = SupersedeIssues(look)
          /\ parents = ParentIssues(look)
  OBVIOUS
<1>4. Issues(look) = typed \cup past \cup related \cup superseded \cup parents
  BY <1>3 DEF Issues
<1>5. typed \cup past \cup related \cup superseded
          \subseteq IF n \in {0, Len(Tables)} THEN {} ELSE TornIssues
  BY <1>2, <1>3, TypedRowsTorn, HistoryTorn, RelationsTorn, SupersedesTorn
<1>6. parents \subseteq IF ParentsAcyclicIn(b.rows) /\ ParentsAcyclicIn(a.rows) THEN {}
                        ELSE {"TASK_PARENT_CYCLE"}
  BY <1>2, <1>3, ParentsTorn
<1> QED
  BY <1>1, <1>4, <1>5, <1>6

(* What is committed is sound.                                             *)
CommittedSound == Sound(Committed)
LEMMA SnapshotSound == HInv /\ Chains => CommittedSound
<1> SUFFICES ASSUME HInv, Chains PROVE Sound(Committed)
  BY DEF CommittedSound
<1>1. PICK c : c = Committed
  OBVIOUS
<1>2. c.rows = saved /\ c.log = log
  BY <1>1 DEF Committed
<1>3. TasksTyped(saved) /\ ClosedIn(saved) /\ NeedsAcyclicIn(saved) /\ Decide(saved)
  BY DEF HInv, IInv, GInv, RowsOK, GraphsOK, Typed, RowTypes, Decide
<1>4. ChainsIn(saved)
  BY ChainsCommitted DEF SupersedeChains
<1>5. ASSUME NEW e \in log
      PROVE  /\ e.on \in Present(saved) \cup Decided(saved) \cup {Goal}
             /\ e.reverses # 0 => \E f \in log : f.at = e.reverses
  <2>1. ShapeOK(e) /\ There(e.row, saved[e.row]) /\ ReversesOK(log)
    BY DEF HInv, Sets, SetOK, DatesOK, Locks
  <2>2. e.on \in Tasks \cup Decisions \cup {Goal} /\ (e.on # Goal => e.on = e.row)
    BY <2>1 DEF ShapeOK, Rows, Entities
  <2>3. e.on \in Present(saved) \cup Decided(saved) \cup {Goal}
    BY <2>1, <2>2 DEF There, Present, Decided
  <2>4. e.reverses # 0 => \E f \in log : f.at = e.reverses
    BY <2>1 DEF ShapeOK, ReversesOK
  <2> QED
    BY <2>3, <2>4
<1>6. Sound(c)
  BY <1>2, <1>3, <1>4, <1>5 DEF Sound
<1> QED
  BY <1>1, <1>6

(* Only the commit of a turn changes what is committed.                    *)
LEMMA OnlyCommits ==
    ASSUME [Next]_vars
    PROVE  saved' = saved \/ \E t \in Turns : Commit(t)
<1>1. CASE UNCHANGED vars
  BY <1>1 DEF vars, rows
<1>2. ASSUME NEW t \in Turns, NEW x \in Tasks,
             \/ \E row \in NewTasks : CreateTask(t, x, row)
             \/ \E values \in TaskUpdates : UpdateTask(t, x, values)
             \/ LinkTaskGoal(t, x)
             \/ \E y \in Tasks : AddDependency(t, y, x)
      PROVE  saved' = saved
  BY <1>2 DEF CreateTask, UpdateTask, LinkTaskGoal, AddDependency, Change, Write, Unwritten, rows
<1>3. ASSUME NEW t \in Turns,
             \/ \E done \in BOOLEAN : UpdateGoal(t, done)
             \/ \E c \in Criteria, mark \in Marks : UpdateCriterion(t, c, mark)
             \/ CacheSummary(t) \/ Refused(t)
             \/ \E x \in Tasks \cup {Goal}, everywhere \in BOOLEAN : BeginUndo(t, x, everywhere)
      PROVE  saved' = saved
  BY <1>3 DEF UpdateGoal, UpdateCriterion, CacheSummary, Refused, BeginUndo, Change, Write, rows
<1>4. ASSUME NEW t \in Turns, Restore(t) \/ RefuseUndo(t) \/ Flush(t)
      PROVE  saved' = saved
  BY <1>4 DEF Restore, RefuseUndo, Flush, Write, rows
<1>5. ASSUME NEW t \in Turns, NEW d \in Decisions,
             \/ CreateDecision(t, d) \/ RevokeDecision(t, d)
             \/ \E old \in Decisions : SupersedeDecision(t, d, old)
      PROVE  saved' = saved
  BY <1>5 DEF CreateDecision, RevokeDecision, SupersedeDecision, Write
<1>6. ASSUME NEW t \in Turns, Abort(t)
      PROVE  saved' = saved
  BY <1>6 DEF Abort
<1> QED
  BY <1>1, <1>2, <1>3, <1>4, <1>5, <1>6 DEF Next

(* No step deletes a row that is committed.                                *)
LEMMA RowsFollow ==
    ASSUME HInv, [Next]_vars
    PROVE  Present(saved) \subseteq Present(saved') /\ Decided(saved) \subseteq Decided(saved')
<1>1. CASE saved' = saved
  BY <1>1
<1>2. ASSUME NEW t \in Turns, Commit(t)
      PROVE  Present(saved) \subseteq Present(saved') /\ Decided(saved) \subseteq Decided(saved')
  <2>1. \A r \in Tasks \cup Decisions : saved'[r] = IF owner[r] = t THEN draft[r] ELSE saved[r]
    BY <1>2, Apart DEF Commit, View
  <2>2. \A r \in Tasks \cup Decisions : saved[r] # Absent => draft[r] # Absent
    BY DEF HInv, IInv, GInv, RowsOK, Typed
  <2> QED
    BY <2>1, <2>2 DEF Present, Decided
<1> QED
  BY <1>1, <1>2, OnlyCommits

(* An audit of these tables may be trusted: it reports a cycle of parents  *)
(* only when there is one, nothing else of what is committed, and when a   *)
(* turn commits meanwhile no other issue but the torn ones.                *)
THEOREM WorldAuditsAreTrusted == Spec => WorldAuditTrusted
<1>1. ASSUME HInv, CommittedSound, CommittedSound', [Next]_vars, NEW n \in 0 .. Len(Tables)
      PROVE  Issues(Look(n, Committed, Committed'))
                 \subseteq (IF n \in {0, Len(Tables)} THEN {} ELSE TornIssues)
                     \cup (IF ParentsAcyclicIn(saved) /\ ParentsAcyclicIn(saved') THEN {}
                           ELSE {"TASK_PARENT_CYCLE"})
  <2>1. PICK b, a : b = Committed /\ a = Committed'
    OBVIOUS
  <2>2. Sound(b) /\ Sound(a)
    BY <1>1, <2>1 DEF CommittedSound
  <2>3. b.rows = saved /\ a.rows = saved'
    BY <2>1 DEF Committed
  <2>4. Follows(b, a)
    BY <1>1, <2>3, RowsFollow DEF Follows
  <2>5. Issues(Look(n, b, a))
            \subseteq (IF n \in {0, Len(Tables)} THEN {} ELSE TornIssues)
                \cup (IF ParentsAcyclicIn(b.rows) /\ ParentsAcyclicIn(a.rows) THEN {}
                      ELSE {"TASK_PARENT_CYCLE"})
    BY <2>2, <2>4, IssuesTorn
  <2> QED
    BY <2>1, <2>3, <2>5
<1>2. HInv /\ CommittedSound /\ CommittedSound' /\ [Next]_vars =>
          [\A n \in 0 .. Len(Tables) :
               saved' # saved =>
                   Issues(Look(n, Committed, Committed'))
                       \subseteq (IF n \in {0, Len(Tables)} THEN {} ELSE TornIssues)
                           \cup (IF ParentsAcyclicIn(saved) /\ ParentsAcyclicIn(saved') THEN {}
                                 ELSE {"TASK_PARENT_CYCLE"})]_vars
  BY <1>1
<1>3. Spec => [](HInv /\ Chains /\ CommittedSound)
  BY ChainsInvariant, SnapshotSound, PTL
<1> QED
  BY <1>2, <1>3, PTL DEF Spec, WorldAuditTrusted
=============================================================================
