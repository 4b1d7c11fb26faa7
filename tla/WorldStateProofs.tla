-------------------------- MODULE WorldStateProofs --------------------------
(***************************************************************************)
(* Task dependencies stay acyclic, for any Tasks, turns and updates.       *)
(*                                                                         *)
(* The property is not inductive: a turn checks the graph it sees, and     *)
(* what is committed is changed by others until it commits itself.  What   *)
(* makes it hold is that an added edge needs the lock of every Task there  *)
(* is: of two open turns at most one has changed edges between committed   *)
(* Tasks (OneChanger), and what the others insert is not seen (ClosedIn).  *)
(***************************************************************************)
EXTENDS WorldState, TLAPS

Present(row) == {x \in Tasks : row[x] # Absent}
ClosedIn(row) == \A x \in Present(row) : row[x].needs \subseteq Present(row)
TasksTyped(row) == \A x \in Tasks : row[x] \in TaskRow \cup {Absent}

(* t has changed the dependencies of a Task that is committed.             *)
Changed(t) ==
    \E x \in Tasks : owner[x] = t /\ saved[x] # Absent /\ draft[x].needs # saved[x].needs
OneChanger == \A t, u \in Turns : t # u => ~(Changed(t) /\ Changed(u))

RowsOK ==
    /\ owner \in [Rows -> Turns \cup {None}]
    /\ draft = [r \in Rows |-> draft[r]]
    /\ TasksTyped(saved) /\ TasksTyped(draft)
    /\ \A x \in Tasks : saved[x] # Absent => draft[x] # Absent
    /\ \A x \in Tasks : owner[x] = None => draft[x] = saved[x]

GraphsOK ==
    /\ ClosedIn(saved) /\ NeedsAcyclicIn(saved)
    /\ \A t \in Turns : ClosedIn(View(t)) /\ NeedsAcyclicIn(View(t))
    /\ OneChanger

GInv == RowsOK /\ GraphsOK

(* A change that can be undone gives a Task's parent or its completion back,*)
(* never its dependencies.                                                 *)
OldValues ==
    [parent : Tasks \cup {None}] \cup [done : BOOLEAN] \cup [parent : Tasks \cup {None}, done : BOOLEAN]
EventOK(e) ==
    /\ DOMAIN e = {"at", "kind", "on", "row", "old", "new", "reverses", "everywhere"}
    /\ e.kind = "changed" /\ e.row \in Tasks => e.old \in OldValues

EInv ==
    /\ work = [t \in Turns |-> work[t]]
    /\ own = [t \in Turns |-> own[t]]
    /\ pc \in [Turns -> {"idle", "undoing", "flushing"}]
    /\ \A e \in log : EventOK(e)
    /\ \A t \in Turns :
         /\ \A e \in own[t] : EventOK(e)
         /\ DOMAIN work[t] = {"events", "keys", "undoes", "everywhere", "took"}
         /\ pc[t] = "flushing" => \A i \in DOMAIN work[t].events : EventOK(work[t].events[i])
         /\ pc[t] = "undoing" => EventOK(work[t].undoes) /\ work[t].undoes.kind = "changed"

(* What undo_last_change has locked and not yet written.                   *)
TookInv ==
    \A t \in Turns : pc[t] = "undoing" =>
        \A x \in work[t].took \cap Tasks : owner[x] = t /\ draft[x] = saved[x]

IInv == GInv /\ EInv /\ TookInv

(***************************************************************************)
(* Graphs                                                                  *)
(***************************************************************************)

(* Two rows with the same Tasks and dependencies.                          *)
SameNeeds(a, b) ==
    \A x \in Tasks : /\ a[x] = Absent <=> b[x] = Absent
                     /\ a[x] # Absent => a[x].needs = b[x].needs

LEMMA SameNeedsOK ==
    ASSUME NEW a, NEW b, SameNeeds(a, b)
    PROVE  /\ ClosedIn(a) => ClosedIn(b)
           /\ NeedsAcyclicIn(a) => NeedsAcyclicIn(b)
<1>1. Present(a) = Present(b)
  BY DEF SameNeeds, Present
<1>2. \A x \in Present(a) : a[x].needs = b[x].needs
  BY DEF SameNeeds, Present
<1>3. ClosedIn(a) => ClosedIn(b)
  BY <1>1, <1>2 DEF ClosedIn
<1>4. ASSUME NeedsAcyclicIn(a)
      PROVE  NeedsAcyclicIn(b)
  <2> SUFFICES ASSUME NEW C \in (SUBSET Present(b)) \ {{}}
               PROVE  \E x \in C : b[x].needs \cap C = {}
    BY DEF NeedsAcyclicIn, Present
  <2>1. PICK x \in C : a[x].needs \cap C = {}
    BY <1>1, <1>4 DEF NeedsAcyclicIn, Present
  <2> QED
    BY <1>1, <1>2, <2>1
<1> QED
  BY <1>3, <1>4

(* add_dependency: an edge that _dependency_would_cycle lets pass.         *)
LEMMA NewEdgeOK ==
    ASSUME NEW a, NEW b, NEW p \in Present(a), NEW d \in Present(a),
           ClosedIn(a), NeedsAcyclicIn(a), ~WouldCycle(a, p, d),
           Present(b) = Present(a),
           \A x \in Present(a) : b[x].needs = IF x = d THEN a[x].needs \cup {p} ELSE a[x].needs
    PROVE  ClosedIn(b) /\ NeedsAcyclicIn(b)
<1>1. ClosedIn(b)
  BY DEF ClosedIn
<1>2. PICK seen \in SUBSET Present(a) :
        /\ d \in seen /\ p \notin seen
        /\ \A x \in Tasks : a[x] # Absent /\ a[x].needs \cap seen # {} => x \in seen
  BY DEF WouldCycle, Present
<1>3. NeedsAcyclicIn(b)
  <2> SUFFICES ASSUME NEW C \in (SUBSET Present(a)) \ {{}},
                      \A x \in C : b[x].needs \cap C # {}
               PROVE  FALSE
    BY DEF NeedsAcyclicIn, Present
  <2>1. CASE p \notin C \/ d \notin C
    <3>1. \A x \in C : a[x].needs \cap C = b[x].needs \cap C
      BY <2>1
    <3> QED
      BY <3>1 DEF NeedsAcyclicIn, Present
  <2>2. CASE p \in C /\ d \in C
    <3> DEFINE D == C \ seen
    <3>1. D \in (SUBSET Present(a)) \ {{}}
      BY <1>2, <2>2
    <3>2. ASSUME NEW x \in D
          PROVE  a[x].needs \cap D # {}
      <4>1. x \in Present(a) /\ x \notin seen /\ x # d
        BY <1>2
      <4>2. a[x].needs \cap seen = {}
        BY <1>2, <4>1 DEF Present
      <4>3. b[x].needs = a[x].needs /\ b[x].needs \cap C # {}
        BY <4>1
      <4> QED
        BY <4>2, <4>3
    <3> QED
      BY <3>1, <3>2 DEF NeedsAcyclicIn, Present
  <2> QED
    BY <2>1, <2>2
<1> QED
  BY <1>1, <1>3

(* create_task: a Task nobody sees yet, with prerequisites that are seen.  *)
LEMMA NewTaskOK ==
    ASSUME NEW a, NEW b, NEW x \in Tasks, a[x] = Absent, b[x] # Absent,
           ClosedIn(a), NeedsAcyclicIn(a), b[x].needs \subseteq Present(a),
           \A y \in Tasks \ {x} : b[y] = a[y]
    PROVE  ClosedIn(b) /\ NeedsAcyclicIn(b)
<1>1. x \notin Present(a) /\ Present(b) = Present(a) \cup {x}
  BY DEF Present
<1>2. \A y \in Present(a) : b[y] = a[y] /\ a[y].needs \subseteq Present(a)
  BY <1>1 DEF Present, ClosedIn
<1>3. ClosedIn(b)
  BY <1>1, <1>2 DEF ClosedIn
<1>4. NeedsAcyclicIn(b)
  <2> SUFFICES ASSUME NEW C \in (SUBSET Present(b)) \ {{}},
                      \A y \in C : b[y].needs \cap C # {}
               PROVE  FALSE
    BY DEF NeedsAcyclicIn, Present
  <2> DEFINE D == C \ {x}
  <2>1. ASSUME NEW y \in D
        PROVE  a[y].needs \cap D # {}
    <3>1. y \in C /\ y \in Present(a)
      BY <1>1
    <3>2. b[y].needs = a[y].needs /\ x \notin a[y].needs
      BY <1>1, <1>2, <3>1
    <3>3. b[y].needs \cap C # {}
      BY <3>1
    <3> QED
      BY <3>2, <3>3
  <2>2. D = {}
    BY <1>1, <2>1 DEF NeedsAcyclicIn, Present
  <2> QED
    BY <1>1, <2>2
<1> QED
  BY <1>3, <1>4

(* Commit: what is seen once the rows of two turns are both there.  M is   *)
(* the merge, A and B are what the two turns see; only one has changed     *)
(* dependencies that were there, here not the turn of A.                   *)
LEMMA MergeOK ==
    ASSUME NEW base, NEW A, NEW B, NEW M,
           ClosedIn(A), NeedsAcyclicIn(A), ClosedIn(B), NeedsAcyclicIn(B),
           \* every Task is as base has it, or as one of them has it
           \A x \in Tasks : \/ M[x] = B[x] /\ A[x] = base[x]
                            \/ M[x] = A[x] /\ B[x] = base[x],
           \A x \in Tasks : base[x] # Absent => A[x] # Absent /\ B[x] # Absent,
           \A x \in Tasks : base[x] # Absent => A[x].needs = base[x].needs
    PROVE  ClosedIn(M) /\ NeedsAcyclicIn(M)
<1>1. Present(M) = Present(A) \cup Present(B)
  BY DEF Present
<1>2. ASSUME NEW x \in Present(B)
      PROVE  x \in Present(M) /\ M[x].needs = B[x].needs
  BY <1>1 DEF Present
<1>3. ASSUME NEW x \in Present(M), x \notin Present(B)
      PROVE  x \in Present(A) /\ M[x] = A[x]
  <2>1. x \in Tasks /\ M[x] # Absent /\ B[x] = Absent
    BY <1>3 DEF Present
  <2>2. M[x] = A[x]
    BY <2>1
  <2> QED
    BY <2>1, <2>2 DEF Present
<1>4. ClosedIn(M)
  BY <1>1, <1>2, <1>3 DEF ClosedIn
<1>5. NeedsAcyclicIn(M)
  <2> SUFFICES ASSUME NEW C \in (SUBSET Present(M)) \ {{}},
                      \A x \in C : M[x].needs \cap C # {}
               PROVE  FALSE
    BY DEF NeedsAcyclicIn, Present
  <2> DEFINE D == C \cap Present(B)
  <2>1. \A x \in D : B[x].needs \cap D # {}
    BY <1>2 DEF ClosedIn
  <2>2. D = {}
    <3>1. D \in SUBSET Present(B)
      OBVIOUS
    <3> HIDE DEF D
    <3> QED
      BY <2>1, <3>1 DEF NeedsAcyclicIn, Present
  <2>3. C \in (SUBSET Present(A)) \ {{}} /\ \A x \in C : A[x].needs \cap C # {}
    BY <1>3, <2>2
  <2> QED
    BY <2>3 DEF NeedsAcyclicIn, Present
<1> QED
  BY <1>4, <1>5

(***************************************************************************)
(* Steps                                                                   *)
(***************************************************************************)

LEMMA TasksAreRows == Tasks \subseteq Rows /\ Goal \in Rows /\ Goal \notin Tasks
                      /\ Decisions \cap Tasks = {} /\ Criteria \cap Tasks = {}
                      /\ Project \in Rows /\ Project \notin Tasks
                      /\ Criteria \subseteq Rows /\ Decisions \subseteq Rows
BY WorldAssumption DEF Rows, Entities

LEMMA Nobody == None \notin Turns /\ Absent \notin TaskRow /\ None # Absent
BY WorldAssumption

(* No step of t touches a row that another turn holds.                     *)
Foreign(t) ==
    \A x \in Tasks : owner[x] \notin {None, t} =>
        owner'[x] = owner[x] /\ draft'[x] = draft[x] /\ saved'[x] = saved[x]

(* Rows are locked, or released as they were; fields change, not needs.    *)
Quiet(t) ==
    /\ saved' = saved
    /\ owner' \in [Rows -> Turns \cup {None}]
    /\ draft' = [r \in Rows |-> draft'[r]]
    /\ \A x \in Tasks :
         \/ owner'[x] = owner[x]
         \/ owner[x] = None /\ owner'[x] = t
         \/ owner[x] = t /\ owner'[x] = None /\ draft[x] = saved[x] /\ draft'[x] = draft[x]
    /\ \A x \in Tasks :
         \/ draft'[x] = draft[x]
         \/ /\ owner'[x] = t /\ draft[x] # Absent
            /\ draft'[x] \in TaskRow /\ draft'[x].needs = draft[x].needs

LEMMA QuietOK ==
    ASSUME GInv, NEW t \in Turns, Quiet(t)
    PROVE  GInv' /\ Foreign(t)
<1> USE Nobody, TasksAreRows
<1>1. RowsOK'
  BY DEF GInv, RowsOK, Quiet, TasksTyped
<1>2. ASSUME NEW u \in Turns
      PROVE  SameNeeds(View(u), View(u)')
  BY DEF GInv, RowsOK, Quiet, SameNeeds, View
<1>3. ASSUME NEW u \in Turns
      PROVE  (ClosedIn(View(u)) /\ NeedsAcyclicIn(View(u)))'
  <2>1. ClosedIn(View(u)) /\ NeedsAcyclicIn(View(u))
    BY DEF GInv, GraphsOK
  <2>2. ClosedIn(View(u)') /\ NeedsAcyclicIn(View(u)')
    BY <1>2, <2>1, SameNeedsOK
  <2> QED
    BY <2>2 DEF ClosedIn, NeedsAcyclicIn, Present
<1>4. ASSUME NEW u \in Turns, Changed(u)'
      PROVE  Changed(u)
  <2>1. PICK x \in Tasks : owner'[x] = u /\ saved[x] # Absent /\ draft'[x].needs # saved[x].needs
    BY <1>4 DEF Changed, Quiet
  <2>2. draft'[x].needs = draft[x].needs
    BY DEF Quiet
  <2>3. owner[x] = u
    BY <2>1, <2>2 DEF GInv, RowsOK, Quiet
  <2> QED
    BY <2>1, <2>2, <2>3 DEF Changed
<1>5. OneChanger'
  BY <1>4 DEF GInv, GraphsOK, OneChanger
<1>6. ClosedIn(saved)' /\ NeedsAcyclicIn(saved)'
  BY DEF GInv, GraphsOK, Quiet, ClosedIn, NeedsAcyclicIn, Present
<1>7. Foreign(t)
  BY DEF Quiet, Foreign
<1> QED
  BY <1>1, <1>3, <1>5, <1>6, <1>7 DEF GInv, GraphsOK

(* What another turn sees of the Tasks, when no row but t's is touched.    *)
LEMMA OthersSeeTheSame ==
    ASSUME RowsOK, NEW t \in Turns, NEW u \in Turns \ {t}, saved' = saved,
           owner' \in [Rows -> Turns \cup {None}], Foreign(t),
           \A x \in Tasks : owner[x] \in {None, t} => owner'[x] \in {None, t}
    PROVE  \A x \in Tasks : View(u)'[x] = View(u)[x]
BY Nobody, TasksAreRows DEF RowsOK, Foreign, View

LEMMA CreateTaskOK ==
    ASSUME GInv, NEW t \in Turns, NEW x \in Tasks, NEW row \in NewTasks, CreateTask(t, x, row)
    PROVE  GInv' /\ Foreign(t)
<1> USE Nobody, TasksAreRows
<1>0. row \in TaskRow
  BY WorldAssumption
<1>1. /\ saved[x] = Absent /\ owner[x] = None /\ saved' = saved
      /\ owner' = [owner EXCEPT ![x] = t]
      /\ draft' = [draft EXCEPT ![x] = row]
      /\ row.needs \subseteq Visible(t)
  BY DEF CreateTask, Write
<1>2. RowsOK'
  BY <1>0, <1>1 DEF GInv, RowsOK, TasksTyped
<1>3. Foreign(t)
  BY <1>1 DEF Foreign, GInv, RowsOK
<1>4. ASSUME NEW u \in Turns \ {t}
      PROVE  (ClosedIn(View(u)) /\ NeedsAcyclicIn(View(u)))'
  <2>1. \A y \in Tasks : View(u)'[y] = View(u)[y]
    BY <1>1, <1>3, OthersSeeTheSame DEF GInv, RowsOK
  <2>2. SameNeeds(View(u), View(u)')
    BY <2>1 DEF SameNeeds
  <2>3. ClosedIn(View(u)') /\ NeedsAcyclicIn(View(u)')
    BY <2>2, SameNeedsOK DEF GInv, GraphsOK
  <2> QED
    BY <2>3 DEF ClosedIn, NeedsAcyclicIn, Present
<1>5. (ClosedIn(View(t)) /\ NeedsAcyclicIn(View(t)))'
  <2>1. View(t)[x] = Absent /\ View(t)'[x] = row
    BY <1>1 DEF View, GInv, RowsOK
  <2>2. \A y \in Tasks \ {x} : View(t)'[y] = View(t)[y]
    BY <1>1 DEF View, GInv, RowsOK
  <2>3. row # Absent /\ row.needs \subseteq Present(View(t))
    BY <1>0, <1>1 DEF Visible, Present
  <2>4. ClosedIn(View(t)) /\ NeedsAcyclicIn(View(t))
    BY DEF GInv, GraphsOK
  <2>5. ClosedIn(View(t)') /\ NeedsAcyclicIn(View(t)')
    BY <2>1, <2>2, <2>3, <2>4, NewTaskOK
  <2> QED
    BY <2>5 DEF ClosedIn, NeedsAcyclicIn, Present
<1>6. ASSUME NEW u \in Turns, Changed(u)'
      PROVE  Changed(u)
  <2>1. PICK y \in Tasks : owner'[y] = u /\ saved[y] # Absent /\ draft'[y].needs # saved[y].needs
    BY <1>1, <1>6 DEF Changed
  <2>2. y # x
    BY <1>1, <2>1
  <2>3. owner[y] = u /\ draft[y].needs # saved[y].needs
    BY <1>1, <2>1, <2>2 DEF GInv, RowsOK
  <2> QED
    BY <2>1, <2>3 DEF Changed
<1>7. OneChanger'
  BY <1>6 DEF GInv, GraphsOK, OneChanger
<1>8. ClosedIn(saved)' /\ NeedsAcyclicIn(saved)'
  BY <1>1 DEF GInv, GraphsOK, ClosedIn, NeedsAcyclicIn, Present
<1> QED
  BY <1>2, <1>3, <1>4, <1>5, <1>7, <1>8 DEF GInv, GraphsOK

(* Once it has all the locks, nobody else has changed a dependency.        *)
LEMMA AddDependencyOK ==
    ASSUME GInv, NEW t \in Turns, NEW p \in Tasks, NEW d \in Tasks, AddDependency(t, p, d)
    PROVE  GInv' /\ Foreign(t)
<1> USE Nobody, TasksAreRows
<1>1. /\ {p, d} \subseteq Visible(t) /\ saved' = saved
      /\ \A r \in Visible(t) : owner[r] \in {None, t}
      /\ owner' = [r \in Rows |-> IF r \in Visible(t) THEN t ELSE owner[r]]
  BY DEF AddDependency, LockRows, CanLock, Write, Unwritten, rows
<1>2. owner' \in [Rows -> Turns \cup {None}]
  BY <1>1 DEF GInv, RowsOK
<1>3. CASE draft' = draft
  <2>1. Quiet(t)
    BY <1>1, <1>2, <1>3 DEF Quiet, GInv, RowsOK, Visible
  <2> QED
    BY <2>1, QuietOK
<1>4. CASE /\ ~WouldCycle(View(t), p, d)
           /\ draft' = [draft EXCEPT ![d] =
                           [View(t)[d] EXCEPT !.needs = View(t)[d].needs \cup {p}]]
  <2> DEFINE new == [View(t)[d] EXCEPT !.needs = View(t)[d].needs \cup {p}]
  <2>1. \A x \in Tasks : View(t)[x] = IF owner[x] = t THEN draft[x] ELSE saved[x]
    BY DEF View
  <2>2. View(t)[d] \in TaskRow
    BY <1>1, <2>1 DEF GInv, RowsOK, TasksTyped, Visible
  <2>3. new \in TaskRow /\ new.needs = View(t)[d].needs \cup {p}
    BY <2>2 DEF TaskRow
  <2>4. draft'[d] = new /\ \A x \in Tasks \ {d} : draft'[x] = draft[x]
    BY <1>4 DEF GInv, RowsOK
  <2> HIDE DEF new
  <2>5. \A x \in Tasks : owner'[x] = IF x \in Visible(t) THEN t ELSE owner[x]
    BY <1>1
  <2>6. \A x \in Tasks : saved[x] # Absent => x \in Visible(t)
    BY <2>1 DEF Visible, GInv, RowsOK
  <2>7. RowsOK'
    <3>1. TasksTyped(draft)' /\ TasksTyped(saved)'
      BY <1>1, <2>3, <2>4 DEF GInv, RowsOK, TasksTyped
    <3>2. draft' = [r \in Rows |-> draft'[r]]
      BY <1>4 DEF GInv, RowsOK
    <3>3. \A x \in Tasks : saved'[x] # Absent => draft'[x] # Absent
      BY <1>1, <2>3, <2>4 DEF GInv, RowsOK
    <3>4. \A x \in Tasks : owner'[x] = None => draft'[x] = saved'[x]
      BY <1>1, <2>4, <2>5 DEF GInv, RowsOK
    <3> QED
      BY <1>2, <3>1, <3>2, <3>3, <3>4 DEF RowsOK
  <2>8. Foreign(t)
    BY <1>1, <2>4, <2>5 DEF Foreign
  <2>9. ASSUME NEW u \in Turns \ {t}
        PROVE  (ClosedIn(View(u)) /\ NeedsAcyclicIn(View(u)))'
    <3>1. \A y \in Tasks : View(u)'[y] = View(u)[y]
      BY <1>1, <1>2, <2>5, <2>8, OthersSeeTheSame DEF GInv
    <3>2. SameNeeds(View(u), View(u)')
      BY <3>1 DEF SameNeeds
    <3>3. ClosedIn(View(u)') /\ NeedsAcyclicIn(View(u)')
      BY <3>2, SameNeedsOK DEF GInv, GraphsOK
    <3> QED
      BY <3>3 DEF ClosedIn, NeedsAcyclicIn, Present
  <2>10. (ClosedIn(View(t)) /\ NeedsAcyclicIn(View(t)))'
    <3>1. \A x \in Tasks : View(t)'[x] = IF owner'[x] = t THEN draft'[x] ELSE saved[x]
      BY <1>1 DEF View
    <3>2. \A x \in Tasks \ {d} : View(t)'[x] = View(t)[x]
      BY <1>1, <2>1, <2>4, <2>5, <3>1 DEF GInv, RowsOK
    <3>3. View(t)'[d] = new
      BY <1>1, <2>4, <2>5, <3>1
    <3>4. p \in Present(View(t)) /\ d \in Present(View(t))
      BY <1>1 DEF Visible, Present
    <3>5. new # Absent
      BY <2>3
    <3>6. Present(View(t)') = Present(View(t))
      BY <3>2, <3>3, <3>4, <3>5 DEF Present
    <3>7. \A x \in Present(View(t)) :
             View(t)'[x].needs = IF x = d THEN View(t)[x].needs \cup {p} ELSE View(t)[x].needs
      BY <2>3, <3>2, <3>3 DEF Present
    <3>8. ClosedIn(View(t)) /\ NeedsAcyclicIn(View(t))
      BY DEF GInv, GraphsOK
    <3>9. ClosedIn(View(t)') /\ NeedsAcyclicIn(View(t)')
      BY <1>4, <3>4, <3>6, <3>7, <3>8, NewEdgeOK
    <3> QED
      BY <3>9 DEF ClosedIn, NeedsAcyclicIn, Present
  <2>11. ASSUME NEW u \in Turns \ {t}
         PROVE  ~Changed(u)'
    BY <1>1, <2>5, <2>6 DEF Changed
  <2>12. OneChanger'
    BY <2>11 DEF OneChanger
  <2>13. ClosedIn(saved)' /\ NeedsAcyclicIn(saved)'
    BY <1>1 DEF GInv, GraphsOK, ClosedIn, NeedsAcyclicIn, Present
  <2> QED
    BY <2>7, <2>8, <2>9, <2>10, <2>12, <2>13 DEF GInv, GraphsOK
<1> QED
  BY <1>3, <1>4 DEF AddDependency, Unwritten, rows

(* The rows of two turns come together: at most one of the two has changed *)
(* dependencies of committed Tasks, and neither refers to what the other   *)
(* has created.                                                            *)
LEMMA CommitOK ==
    ASSUME GInv, NEW t \in Turns, Commit(t)
    PROVE  GInv' /\ Foreign(t)
<1> USE Nobody, TasksAreRows
<1>1. /\ saved' = View(t) /\ draft' = draft
      /\ owner' = [r \in Rows |-> IF owner[r] = t THEN None ELSE owner[r]]
  BY DEF Commit, Release
<1>2. \A x \in Tasks : saved'[x] = IF owner[x] = t THEN draft[x] ELSE saved[x]
  BY <1>1 DEF View
<1>3. \A x \in Tasks : owner'[x] = IF owner[x] = t THEN None ELSE owner[x]
  BY <1>1
<1>4. RowsOK'
  <2>1. owner' \in [Rows -> Turns \cup {None}]
    BY <1>1 DEF GInv, RowsOK
  <2>2. draft' = [r \in Rows |-> draft'[r]]
    BY <1>1 DEF GInv, RowsOK
  <2> QED
    BY <1>1, <1>2, <1>3, <2>1, <2>2 DEF GInv, RowsOK, TasksTyped
<1>5. Foreign(t)
  BY <1>1, <1>2, <1>3 DEF Foreign
<1>6. ASSUME NEW u \in Turns, Changed(u)'
      PROVE  Changed(u)
  <2>1. PICK x \in Tasks : owner'[x] = u /\ saved'[x] # Absent /\ draft'[x].needs # saved'[x].needs
    BY <1>6 DEF Changed
  <2>2. owner[x] = u /\ u # t
    BY <1>3, <2>1
  <2> QED
    BY <1>1, <1>2, <2>1, <2>2 DEF Changed
<1>7. OneChanger'
  BY <1>6 DEF GInv, GraphsOK, OneChanger
<1>8. ClosedIn(View(t)) /\ NeedsAcyclicIn(View(t))
  BY DEF GInv, GraphsOK
<1>9. ClosedIn(saved)' /\ NeedsAcyclicIn(saved)'
  BY <1>1, <1>8 DEF ClosedIn, NeedsAcyclicIn, Present
<1>10. ASSUME NEW u \in Turns
       PROVE  (ClosedIn(View(u)) /\ NeedsAcyclicIn(View(u)))'
  <2>1. \A x \in Tasks : View(u)'[x] = IF owner'[x] = u THEN draft'[x] ELSE saved'[x]
    BY DEF View
  <2>2. CASE u = t
    <3>1. \A x \in Tasks : View(u)'[x] = View(t)[x]
      BY <1>1, <1>3, <2>1, <2>2
    <3>2. SameNeeds(View(t), View(u)')
      BY <3>1 DEF SameNeeds
    <3>3. ClosedIn(View(u)') /\ NeedsAcyclicIn(View(u)')
      BY <1>8, <3>2, SameNeedsOK
    <3> QED
      BY <3>3 DEF ClosedIn, NeedsAcyclicIn, Present
  <2>3. CASE u # t
    <3>1. ClosedIn(View(u)) /\ NeedsAcyclicIn(View(u))
      BY DEF GInv, GraphsOK
    <3>2. \A x \in Tasks : View(t)[x] = IF owner[x] = t THEN draft[x] ELSE saved[x]
      BY DEF View
    <3>3. \A x \in Tasks : View(u)[x] = IF owner[x] = u THEN draft[x] ELSE saved[x]
      BY DEF View
    <3>4. \A x \in Tasks : View(u)'[x] = IF owner[x] = u THEN draft[x]
                                         ELSE IF owner[x] = t THEN draft[x] ELSE saved[x]
      BY <1>1, <1>2, <1>3, <2>1, <2>3
    <3>5. \A x \in Tasks : saved[x] # Absent => View(t)[x] # Absent /\ View(u)[x] # Absent
      BY <3>2, <3>3 DEF GInv, RowsOK
    <3>6. CASE ~Changed(t)
      <4>1. \A x \in Tasks : saved[x] # Absent => View(t)[x].needs = saved[x].needs
        BY <3>2, <3>6 DEF Changed
      <4>2. \A x \in Tasks : \/ View(u)'[x] = View(u)[x] /\ View(t)[x] = saved[x]
                             \/ View(u)'[x] = View(t)[x] /\ View(u)[x] = saved[x]
        BY <2>3, <3>2, <3>3, <3>4
      <4>3. ClosedIn(View(u)') /\ NeedsAcyclicIn(View(u)')
        BY <1>8, <3>1, <3>5, <4>1, <4>2, MergeOK
      <4> QED
        BY <4>3 DEF ClosedIn, NeedsAcyclicIn, Present
    <3>7. CASE ~Changed(u)
      <4>1. \A x \in Tasks : saved[x] # Absent => View(u)[x].needs = saved[x].needs
        BY <3>3, <3>7 DEF Changed
      <4>2. \A x \in Tasks : \/ View(u)'[x] = View(t)[x] /\ View(u)[x] = saved[x]
                             \/ View(u)'[x] = View(u)[x] /\ View(t)[x] = saved[x]
        BY <2>3, <3>2, <3>3, <3>4
      <4>3. ClosedIn(View(u)') /\ NeedsAcyclicIn(View(u)')
        BY <1>8, <3>1, <3>5, <4>1, <4>2, MergeOK
      <4> QED
        BY <4>3 DEF ClosedIn, NeedsAcyclicIn, Present
    <3> QED
      BY <2>3, <3>6, <3>7 DEF GInv, GraphsOK, OneChanger
  <2> QED
    BY <2>2, <2>3
<1> QED
  BY <1>4, <1>5, <1>7, <1>9, <1>10 DEF GInv, GraphsOK

LEMMA AbortOK ==
    ASSUME GInv, NEW t \in Turns, Abort(t)
    PROVE  GInv' /\ Foreign(t)
<1> USE Nobody, TasksAreRows
<1>1. /\ saved' = saved
      /\ owner' = [r \in Rows |-> IF owner[r] = t THEN None ELSE owner[r]]
      /\ draft' = [r \in Rows |-> IF owner[r] = t THEN saved[r] ELSE draft[r]]
  BY DEF Abort, Release
<1>2. RowsOK'
  BY <1>1 DEF GInv, RowsOK, TasksTyped
<1>3. Foreign(t)
  BY <1>1 DEF Foreign
<1>4. ASSUME NEW u \in Turns
      PROVE  (ClosedIn(View(u)) /\ NeedsAcyclicIn(View(u)))'
  <2> DEFINE before == IF u = t THEN saved ELSE View(u)
  <2>1. \A x \in Tasks : View(u)'[x] = before[x]
    BY <1>1 DEF View, GInv, RowsOK
  <2>2. ClosedIn(before) /\ NeedsAcyclicIn(before)
    BY DEF GInv, GraphsOK
  <2>3. SameNeeds(before, View(u)')
    BY <2>1 DEF SameNeeds
  <2>4. ClosedIn(View(u)') /\ NeedsAcyclicIn(View(u)')
    BY <2>2, <2>3, SameNeedsOK
  <2> QED
    BY <2>4 DEF ClosedIn, NeedsAcyclicIn, Present
<1>5. ASSUME NEW u \in Turns, Changed(u)'
      PROVE  Changed(u)
  BY <1>1, <1>5 DEF Changed, GInv, RowsOK
<1>6. OneChanger'
  BY <1>5 DEF GInv, GraphsOK, OneChanger
<1>7. ClosedIn(saved)' /\ NeedsAcyclicIn(saved)'
  BY <1>1 DEF GInv, GraphsOK, ClosedIn, NeedsAcyclicIn, Present
<1> QED
  BY <1>2, <1>3, <1>4, <1>6, <1>7 DEF GInv, GraphsOK

LEMMA LockedRows ==
    ASSUME GInv, NEW t \in Turns, NEW S, LockRows(t, S)
    PROVE  /\ owner' \in [Rows -> Turns \cup {None}]
           /\ \A r \in Rows : owner'[r] = owner[r] \/ (owner[r] = None /\ owner'[r] = t)
           /\ \A r \in S : r \in Rows => owner[r] \in {None, t} /\ owner'[r] = t
BY DEF GInv, RowsOK, LockRows, CanLock

(* What t sees of a row it may lock is its draft.                          *)
LEMMA LockableIsDraft ==
    ASSUME GInv, NEW t \in Turns, NEW x \in Tasks, owner[x] \in {None, t}
    PROVE  View(t)[x] = draft[x]
BY TasksAreRows DEF GInv, RowsOK, View

(* A step that locks rows and writes no Task.                              *)
LEMMA NoTaskQuiet ==
    ASSUME GInv, NEW t \in Turns, NEW S, LockRows(t, S), saved' = saved,
           draft' = [r \in Rows |-> draft'[r]], \A x \in Tasks : draft'[x] = draft[x]
    PROVE  Quiet(t)
BY LockedRows, TasksAreRows DEF Quiet

(* A step that locks rows and writes the fields of one Task.               *)
LEMMA OneTaskQuiet ==
    ASSUME GInv, NEW t \in Turns, NEW S, NEW x \in Tasks, x \in S, LockRows(t, S),
           saved' = saved, View(t)[x] # Absent,
           NEW new \in TaskRow, new.needs = View(t)[x].needs,
           draft' = [draft EXCEPT ![x] = new]
    PROVE  Quiet(t)
<1> USE Nobody, TasksAreRows
<1>1. owner[x] \in {None, t} /\ owner'[x] = t
  BY LockedRows
<1>2. draft[x] # Absent /\ new.needs = draft[x].needs
  BY <1>1, LockableIsDraft
<1>3. draft' = [r \in Rows |-> draft'[r]] /\ draft'[x] = new
      /\ \A y \in Tasks \ {x} : draft'[y] = draft[y]
  BY DEF GInv, RowsOK
<1> QED
  BY <1>1, <1>2, <1>3, LockedRows DEF Quiet

(* The fields that a change keeps of a Task's old row.                     *)
LEMMA PickedOld ==
    ASSUME NEW old \in TaskRow, NEW values \in TaskUpdates, NEW S \in SUBSET DOMAIN values, S # {}
    PROVE  Pick(old, S) \in OldValues
<1>1. \/ values \in [parent : Tasks \cup {None}]
      \/ values \in [done : BOOLEAN]
      \/ values \in [parent : Tasks \cup {None}, done : BOOLEAN]
  BY WorldAssumption
<1>2. S \in {{"parent"}, {"done"}, {"parent", "done"}}
  BY <1>1
<1>3. CASE S = {"parent"}
  BY <1>3 DEF Pick, OldValues, TaskRow
<1>4. CASE S = {"done"}
  BY <1>4 DEF Pick, OldValues, TaskRow
<1>5. CASE S = {"parent", "done"}
  BY <1>5 DEF Pick, OldValues, TaskRow
<1> QED
  BY <1>2, <1>3, <1>4, <1>5

(* The row that a change or an undo of some fields leaves.                 *)
LEMMA FieldsReplaced ==
    ASSUME NEW old \in TaskRow, NEW values, NEW S \in SUBSET {"parent", "done"},
           "parent" \in S => values.parent \in Tasks \cup {None},
           "done" \in S => values.done \in BOOLEAN
    PROVE  LET new == [f \in DOMAIN old |-> IF f \in S THEN values[f] ELSE old[f]]
           IN  new \in TaskRow /\ new.needs = old.needs
BY DEF TaskRow

(***************************************************************************)
(* Events and the work of turns                                            *)
(***************************************************************************)

LEMMA EventRecordOK ==
    ASSUME NEW on, NEW row, NEW old, NEW new
    PROVE  /\ EventOK(Event("recorded", on, row, old, new))
           /\ EventOK(Event("undone", on, row, old, new))
           /\ row \notin Tasks \/ old \in OldValues => EventOK(Event("changed", on, row, old, new))
BY DEF EventOK, Event

(* Turns other than t keep their place.                                    *)
OthersStay(t) == \A u \in Turns \ {t} : pc'[u] = pc[u] /\ work'[u] = work[u]

LEMMA WriteOK ==
    ASSUME EInv, NEW t \in Turns, NEW events, NEW keys, Write(t, events, keys),
           \A i \in DOMAIN events : EventOK(events[i])
    PROVE  EInv' /\ pc'[t] = "flushing" /\ OthersStay(t)
<1>1. /\ log' = log /\ own' = own
      /\ pc' = [pc EXCEPT ![t] = "flushing"]
      /\ work' = [work EXCEPT ![t] = [work[t] EXCEPT !.events = events,
                      !.keys = keys \cup {events[i].on : i \in DOMAIN events}]]
  BY DEF Write, history, EInv
<1>2. /\ work'[t].events = events
      /\ DOMAIN work'[t] = {"events", "keys", "undoes", "everywhere", "took"}
  BY <1>1 DEF EInv
<1>3. pc'[t] = "flushing" /\ OthersStay(t)
  BY <1>1 DEF EInv, OthersStay
<1>4. work' = [u \in Turns |-> work'[u]] /\ own' = [u \in Turns |-> own'[u]]
      /\ pc' \in [Turns -> {"idle", "undoing", "flushing"}]
  BY <1>1 DEF EInv
<1> QED
  BY <1>1, <1>2, <1>3, <1>4 DEF EInv, OthersStay

(* The turn becomes idle and has no work.                                  *)
LEMMA IdleOK ==
    ASSUME EInv, NEW t \in Turns, pc' = [pc EXCEPT ![t] = "idle"],
           work' = [work EXCEPT ![t] = NoWork],
           \A e \in log' : EventOK(e),
           own' = [u \in Turns |-> own'[u]], \A u \in Turns : \A e \in own'[u] : EventOK(e)
    PROVE  EInv' /\ pc'[t] = "idle" /\ OthersStay(t)
<1>1. work'[t] = NoWork /\ pc'[t] = "idle" /\ OthersStay(t)
  BY DEF EInv, OthersStay
<1>2. work' = [u \in Turns |-> work'[u]]
      /\ pc' \in [Turns -> {"idle", "undoing", "flushing"}]
  BY DEF EInv
<1> QED
  BY <1>1, <1>2 DEF EInv, OthersStay, NoWork

(* A step of t that is not the beginning of an undo.                       *)
LEMMA TookOK ==
    ASSUME RowsOK, TookInv, NEW t \in Turns, Foreign(t), OthersStay(t), pc'[t] # "undoing"
    PROVE  TookInv'
<1> SUFFICES ASSUME NEW u \in Turns, pc'[u] = "undoing", NEW x \in work'[u].took \cap Tasks
             PROVE  owner'[x] = u /\ draft'[x] = saved'[x]
  BY DEF TookInv
<1>1. u # t /\ pc[u] = "undoing" /\ x \in work[u].took \cap Tasks
  BY DEF OthersStay
<1>2. owner[x] = u /\ draft[x] = saved[x]
  BY <1>1 DEF TookInv
<1> QED
  BY <1>1, <1>2, Nobody DEF Foreign

(***************************************************************************)
(* One lemma per action                                                    *)
(***************************************************************************)

(* An action that writes rows and prepares its events.                     *)
LEMMA WrittenOK ==
    ASSUME IInv, NEW t \in Turns, NEW events, NEW keys, Write(t, events, keys),
           \A i \in DOMAIN events : EventOK(events[i]), GInv' /\ Foreign(t)
    PROVE  IInv'
<1>1. EInv' /\ pc'[t] = "flushing" /\ OthersStay(t)
  BY WriteOK DEF IInv
<1>2. TookInv'
  BY <1>1, TookOK DEF IInv, GInv
<1> QED
  BY <1>1, <1>2 DEF IInv

(* An action that writes no Task and prepares its events.                  *)
LEMMA WrittenElsewhereOK ==
    ASSUME IInv, NEW t \in Turns, NEW events, NEW keys, Write(t, events, keys),
           \A i \in DOMAIN events : EventOK(events[i]), NEW S, LockRows(t, S),
           draft' = [r \in Rows |-> draft'[r]], \A x \in Tasks : draft'[x] = draft[x]
    PROVE  IInv'
<1>1. saved' = saved
  BY DEF Write
<1>2. GInv' /\ Foreign(t)
  BY <1>1, NoTaskQuiet, QuietOK DEF IInv
<1> QED
  BY <1>2, WrittenOK

(* An action that only takes locks.                                        *)
LEMMA UnwrittenOK ==
    ASSUME IInv, NEW t \in Turns, Quiet(t), UNCHANGED <<log, own, pc, work>>, pc[t] = "idle"
    PROVE  IInv'
<1>1. GInv' /\ Foreign(t)
  BY QuietOK DEF IInv
<1>2. EInv' /\ OthersStay(t) /\ pc'[t] = "idle"
  BY DEF IInv, EInv, OthersStay
<1>3. TookInv'
  BY <1>1, <1>2, TookOK DEF IInv, GInv
<1> QED
  BY <1>1, <1>2, <1>3 DEF IInv

LEMMA CreateTaskInv ==
    ASSUME IInv, NEW t \in Turns, NEW x \in Tasks, NEW row \in NewTasks, CreateTask(t, x, row)
    PROVE  IInv'
<1>1. GInv' /\ Foreign(t)
  BY CreateTaskOK DEF IInv
<1>2. PICK keys : Write(t, <<Event("recorded", x, x, Nothing, row)>>, keys)
  BY DEF CreateTask
<1>3. \A i \in DOMAIN <<Event("recorded", x, x, Nothing, row)>> :
         EventOK(<<Event("recorded", x, x, Nothing, row)>>[i])
  BY EventRecordOK
<1> QED
  BY <1>1, <1>2, <1>3, WrittenOK

LEMMA UpdateTaskInv ==
    ASSUME IInv, NEW t \in Turns, NEW x \in Tasks, NEW values \in TaskUpdates,
           UpdateTask(t, x, values)
    PROVE  IInv'
<1> DEFINE old == View(t)[x]
           changed == {f \in DOMAIN values : values[f] # old[f]}
           new == [f \in DOMAIN old |-> IF f \in changed THEN values[f] ELSE old[f]]
           event == Event("changed", x, x, Pick(old, changed), Pick(values, changed))
           locked == IF "parent" \in DOMAIN values THEN Visible(t) ELSE {x}
<1>1. PICK keys : /\ x \in Visible(t) /\ LockRows(t, locked) /\ changed # {}
                  /\ draft' = [draft EXCEPT ![x] = new]
                  /\ Write(t, <<event>>, keys)
  BY DEF UpdateTask, Change
<1>2. old \in TaskRow /\ old # Absent
  <2>1. old \in TaskRow \cup {Absent}
    BY TasksAreRows DEF View, IInv, GInv, RowsOK, TasksTyped
  <2> QED
    BY <1>1, <2>1 DEF Visible
<1>3. /\ DOMAIN values \subseteq {"parent", "done"}
      /\ "parent" \in DOMAIN values => values.parent \in Tasks \cup {None}
      /\ "done" \in DOMAIN values => values.done \in BOOLEAN
  <2>1. \/ values \in [parent : Tasks \cup {None}]
        \/ values \in [done : BOOLEAN]
        \/ values \in [parent : Tasks \cup {None}, done : BOOLEAN]
    BY WorldAssumption
  <2> QED
    BY <2>1
<1>4. changed \in SUBSET DOMAIN values
  OBVIOUS
<1> HIDE DEF old, changed
<1>5. new \in TaskRow /\ new.needs = old.needs
  BY <1>2, <1>3, <1>4, FieldsReplaced
<1>6. Pick(old, changed) \in OldValues
  BY <1>1, <1>2, <1>4, PickedOld
<1>7. EventOK(event)
  BY <1>6, EventRecordOK
<1> HIDE DEF new, event
<1>8. \A i \in DOMAIN <<event>> : EventOK(<<event>>[i])
  BY <1>7
<1>9. saved' = saved
  BY <1>1 DEF Write
<1>10. x \in locked
  BY <1>1
<1> HIDE DEF locked
<1>11. Quiet(t)
  BY <1>1, <1>2, <1>5, <1>9, <1>10, OneTaskQuiet DEF IInv, old
<1>12. GInv' /\ Foreign(t)
  BY <1>11, QuietOK DEF IInv
<1> QED
  BY <1>1, <1>8, <1>12, WrittenOK

(* A change of a row that is no Task's.                                    *)
LEMMA ChangeElsewhereInv ==
    ASSUME IInv, NEW t \in Turns, NEW r \in Rows \ Tasks, NEW on, NEW values, NEW keys,
           LockRows(t, {r}), Change(t, r, on, values, keys)
    PROVE  IInv'
<1> DEFINE old == View(t)[r]
           changed == {f \in DOMAIN values : values[f] # old[f]}
           new == [f \in DOMAIN old |-> IF f \in changed THEN values[f] ELSE old[f]]
           event == Event("changed", on, r, Pick(old, changed), Pick(values, changed))
<1>1. draft' = [draft EXCEPT ![r] = new] /\ Write(t, <<event>>, keys)
  BY DEF Change
<1>2. EventOK(event)
  BY EventRecordOK
<1> HIDE DEF new, event
<1>3. \A i \in DOMAIN <<event>> : EventOK(<<event>>[i])
  BY <1>2
<1>4. draft' = [q \in Rows |-> draft'[q]] /\ \A x \in Tasks : draft'[x] = draft[x]
  BY <1>1, TasksAreRows DEF IInv, GInv, RowsOK
<1> QED
  BY <1>1, <1>3, <1>4, WrittenElsewhereOK

LEMMA LinkTaskGoalInv ==
    ASSUME IInv, NEW t \in Turns, NEW x \in Tasks, LinkTaskGoal(t, x)
    PROVE  IInv'
<1>1. LockRows(t, {x, Goal}) /\ x \in Visible(t) /\ pc[t] = "idle"
  BY DEF LinkTaskGoal, Begin
<1>2. CASE Unwritten
  <2>1. Quiet(t)
    BY <1>1, <1>2, NoTaskQuiet DEF Unwritten, rows, IInv, GInv, RowsOK
  <2> QED
    BY <1>1, <1>2, <2>1, UnwrittenOK DEF Unwritten, history
<1>3. CASE ~Unwritten
  <2> DEFINE old == View(t)[x]
             new == [old EXCEPT !.linked = TRUE]
             event == Event("recorded", x, x, Only("linked", FALSE), Only("linked", TRUE))
  <2>1. draft' = [draft EXCEPT ![x] = new] /\ Write(t, <<event>>, {})
    BY <1>3 DEF LinkTaskGoal
  <2>2. old \in TaskRow /\ old # Absent
    <3>1. old \in TaskRow \cup {Absent}
      BY TasksAreRows DEF View, IInv, GInv, RowsOK, TasksTyped
    <3> QED
      BY <1>1, <3>1 DEF Visible
  <2> HIDE DEF old
  <2>3. new \in TaskRow /\ new.needs = old.needs
    BY <2>2 DEF TaskRow
  <2>8. EventOK(event)
    BY EventRecordOK
  <2> HIDE DEF new, event
  <2>4. \A i \in DOMAIN <<event>> : EventOK(<<event>>[i])
    BY <2>8
  <2>5. saved' = saved
    BY <2>1 DEF Write
  <2>6. Quiet(t)
    BY <1>1, <2>1, <2>2, <2>3, <2>5, OneTaskQuiet DEF IInv, old
  <2>7. GInv' /\ Foreign(t)
    BY <2>6, QuietOK DEF IInv
  <2> QED
    BY <2>1, <2>4, <2>7, WrittenOK
<1> QED
  BY <1>2, <1>3

LEMMA AddDependencyInv ==
    ASSUME IInv, NEW t \in Turns, NEW p \in Tasks, NEW d \in Tasks, AddDependency(t, p, d)
    PROVE  IInv'
<1>1. GInv' /\ Foreign(t)
  BY AddDependencyOK DEF IInv
<1>2. CASE Unwritten
  <2>1. EInv' /\ OthersStay(t) /\ pc'[t] = "idle"
    BY <1>2 DEF Unwritten, history, AddDependency, Begin, IInv, EInv, OthersStay
  <2>2. TookInv'
    BY <1>1, <2>1, TookOK DEF IInv, GInv
  <2> QED
    BY <1>1, <2>1, <2>2 DEF IInv
<1>3. CASE ~Unwritten
  <2> DEFINE needs == View(t)[d].needs
             event == Event("recorded", d, d, Only("needs", needs),
                            Only("needs", needs \cup {p}))
  <2>1. Write(t, <<event>>, {p})
    BY <1>3 DEF AddDependency
  <2>2. EventOK(event)
    BY EventRecordOK
  <2> HIDE DEF event
  <2>3. \A i \in DOMAIN <<event>> : EventOK(<<event>>[i])
    BY <2>2
  <2> QED
    BY <1>1, <2>1, <2>3, WrittenOK
<1> QED
  BY <1>2, <1>3

LEMMA CreateDecisionInv ==
    ASSUME IInv, NEW t \in Turns, NEW d \in Decisions, CreateDecision(t, d)
    PROVE  IInv'
<1> DEFINE event == Event("recorded", d, d, Nothing, NewDecision)
<1>1. LockRows(t, {d}) /\ draft' = [draft EXCEPT ![d] = NewDecision] /\ Write(t, <<event>>, {})
  BY DEF CreateDecision
<1>2. EventOK(event)
  BY EventRecordOK
<1> HIDE DEF event
<1>3. \A i \in DOMAIN <<event>> : EventOK(<<event>>[i])
  BY <1>2
<1>4. draft' = [q \in Rows |-> draft'[q]] /\ \A x \in Tasks : draft'[x] = draft[x]
  BY <1>1, TasksAreRows DEF IInv, GInv, RowsOK
<1> QED
  BY <1>1, <1>3, <1>4, WrittenElsewhereOK

LEMMA SupersedeDecisionInv ==
    ASSUME IInv, NEW t \in Turns, NEW d \in Decisions, NEW old \in Decisions,
           SupersedeDecision(t, d, old)
    PROVE  IInv'
<1> DEFINE row == [NewDecision EXCEPT !.supersedes = old]
           first == Event("recorded", old, old, [status |-> "ACTIVE", successor |-> None],
                          [status |-> "SUPERSEDED", successor |-> d])
           second == Event("recorded", d, d, Nothing, row)
           gone == [View(t)[old] EXCEPT !.status = "SUPERSEDED", !.successor = d]
<1>1. /\ LockRows(t, {d, old})
      /\ draft' = [draft EXCEPT ![d] = row, ![old] = gone]
      /\ Write(t, <<first, second>>, {})
  BY DEF SupersedeDecision
<1>2. EventOK(first) /\ EventOK(second)
  BY EventRecordOK
<1> HIDE DEF row, first, second, gone
<1>3. \A i \in DOMAIN <<first, second>> : EventOK(<<first, second>>[i])
  BY <1>2
<1>4. draft' = [q \in Rows |-> draft'[q]] /\ \A x \in Tasks : draft'[x] = draft[x]
  BY <1>1, TasksAreRows DEF IInv, GInv, RowsOK
<1> QED
  BY <1>1, <1>3, <1>4, WrittenElsewhereOK

LEMMA RevokeDecisionInv ==
    ASSUME IInv, NEW t \in Turns, NEW d \in Decisions, RevokeDecision(t, d)
    PROVE  IInv'
<1> DEFINE event == Event("recorded", d, d, Only("status", "ACTIVE"), Only("status", "REVOKED"))
           gone == [View(t)[d] EXCEPT !.status = "REVOKED"]
<1>1. LockRows(t, {d}) /\ draft' = [draft EXCEPT ![d] = gone] /\ Write(t, <<event>>, {})
  BY DEF RevokeDecision
<1>2. EventOK(event)
  BY EventRecordOK
<1> HIDE DEF event, gone
<1>3. \A i \in DOMAIN <<event>> : EventOK(<<event>>[i])
  BY <1>2
<1>4. draft' = [q \in Rows |-> draft'[q]] /\ \A x \in Tasks : draft'[x] = draft[x]
  BY <1>1, TasksAreRows DEF IInv, GInv, RowsOK
<1> QED
  BY <1>1, <1>3, <1>4, WrittenElsewhereOK

LEMMA CacheSummaryInv ==
    ASSUME IInv, NEW t \in Turns, CacheSummary(t)
    PROVE  IInv'
<1>1. draft' = [q \in Rows |-> draft'[q]] /\ \A x \in Tasks : draft'[x] = draft[x]
  BY TasksAreRows DEF CacheSummary, IInv, GInv, RowsOK
<1>2. Quiet(t)
  BY <1>1, NoTaskQuiet DEF CacheSummary, IInv
<1> QED
  BY <1>2, UnwrittenOK DEF CacheSummary, Begin, history

LEMMA RefusedInv ==
    ASSUME IInv, NEW t \in Turns, Refused(t)
    PROVE  IInv'
<1>1. Quiet(t)
  BY TasksAreRows DEF Refused, Quiet, rows, IInv, GInv, RowsOK
<1> QED
  BY <1>1, UnwrittenOK DEF Refused, Begin, history

LEMMA BeginUndoInv ==
    ASSUME IInv, NEW t \in Turns, NEW x \in Tasks \cup {Goal}, NEW everywhere \in BOOLEAN,
           BeginUndo(t, x, everywhere)
    PROVE  IInv'
<1> USE Nobody, TasksAreRows
<1>1. PICK e \in Events(t) :
        /\ e.kind = "changed"
        /\ LockRows(t, {x}) /\ saved' = saved /\ draft' = draft /\ own' = own /\ log' = log
        /\ pc' = [pc EXCEPT ![t] = "undoing"]
        /\ work' = [work EXCEPT ![t].undoes = e, ![t].everywhere = everywhere,
                                ![t].took = {x} \ {r \in Rows : owner[r] = t}]
  BY DEF BeginUndo, Newest, Undoable, rows, history
<1> DEFINE took == {x} \ {r \in Rows : owner[r] = t}
<1>2. work' = [work EXCEPT ![t] = [work[t] EXCEPT !.undoes = e, !.everywhere = everywhere,
                                                   !.took = took]]
  BY <1>1 DEF IInv, EInv
<1> HIDE DEF took
<1>3. Quiet(t)
  BY <1>1, NoTaskQuiet DEF IInv, GInv, RowsOK
<1>4. GInv' /\ Foreign(t)
  BY <1>3, QuietOK DEF IInv
<1>5. EventOK(e)
  BY DEF Events, IInv, EInv
<1>6. /\ work'[t].undoes = e /\ work'[t].took = took
      /\ DOMAIN work'[t] = {"events", "keys", "undoes", "everywhere", "took"}
      /\ pc'[t] = "undoing" /\ OthersStay(t)
  <2>1. work \in [Turns -> {work[u] : u \in Turns}]
        /\ DOMAIN work[t] = {"events", "keys", "undoes", "everywhere", "took"}
        /\ pc \in [Turns -> {"idle", "undoing", "flushing"}]
    BY DEF IInv, EInv
  <2>2. pc'[t] = "undoing" /\ OthersStay(t)
    BY <1>1, <1>2, <2>1 DEF OthersStay
  <2>3. work'[t] = [work[t] EXCEPT !.undoes = e, !.everywhere = everywhere, !.took = took]
    BY <1>2, <2>1
  <2>4. work'[t].undoes = e /\ work'[t].took = took
        /\ DOMAIN work'[t] = {"events", "keys", "undoes", "everywhere", "took"}
    BY <2>1, <2>3
  <2> QED
    BY <2>2, <2>4
<1>7. EInv'
  <2>1. work' = [u \in Turns |-> work'[u]] /\ own' = [u \in Turns |-> own'[u]]
        /\ pc' \in [Turns -> {"idle", "undoing", "flushing"}]
    BY <1>1, <1>2 DEF IInv, EInv
  <2> QED
    BY <1>1, <1>5, <1>6, <2>1 DEF IInv, EInv, OthersStay
<1>8. TookInv'
  <2> SUFFICES ASSUME NEW u \in Turns, pc'[u] = "undoing", NEW y \in work'[u].took \cap Tasks
               PROVE  owner'[y] = u /\ draft'[y] = saved'[y]
    BY DEF TookInv
  <2>1. CASE u # t
    <3>1. owner[y] = u /\ draft[y] = saved[y]
      BY <1>6, <2>1 DEF IInv, TookInv, OthersStay
    <3> QED
      BY <1>4, <2>1, <3>1 DEF Foreign
  <2>2. CASE u = t
    <3>1. y = x /\ owner[y] # t
      BY <1>6, <2>2 DEF took
    <3>2. owner[y] \in {None, t} /\ owner'[y] = t
      BY <1>1, <3>1, LockedRows DEF IInv
    <3> QED
      BY <1>1, <2>2, <3>1, <3>2 DEF IInv, GInv, RowsOK
  <2> QED
    BY <2>1, <2>2
<1> QED
  BY <1>4, <1>7, <1>8 DEF IInv

LEMMA RestoreInv ==
    ASSUME IInv, NEW t \in Turns, Restore(t)
    PROVE  IInv'
<1> USE TasksAreRows
<1> DEFINE e == work[t].undoes
           old == View(t)[e.row]
           new == [f \in DOMAIN old |-> IF f \in DOMAIN e.old THEN e.old[f] ELSE old[f]]
           event == [Event("undone", e.on, e.row, Pick(old, DOMAIN e.old), e.old)
                        EXCEPT !.reverses = e.at, !.everywhere = work[t].everywhere]
<1>1. PICK keys : /\ pc[t] = "undoing" /\ old # Absent /\ LockRows(t, {e.row})
                  /\ draft' = [draft EXCEPT ![e.row] = new]
                  /\ Write(t, <<event>>, keys)
  BY DEF Restore
<1>2. EventOK(event)
  BY DEF EventOK, Event
<1>3. EventOK(e) /\ e.kind = "changed"
  BY <1>1 DEF IInv, EInv
<1> HIDE DEF e, event
<1>4. \A i \in DOMAIN <<event>> : EventOK(<<event>>[i])
  BY <1>2
<1>5. saved' = saved
  BY <1>1 DEF Write
<1>6. CASE e.row \notin Tasks
  <2> HIDE DEF new
  <2>1. draft' = [q \in Rows |-> draft'[q]] /\ \A x \in Tasks : draft'[x] = draft[x]
    BY <1>1, <1>6 DEF IInv, GInv, RowsOK
  <2> QED
    BY <1>1, <1>4, <2>1, WrittenElsewhereOK
<1>7. CASE e.row \in Tasks
  <2>1. old \in TaskRow
    <3>1. old \in TaskRow \cup {Absent}
      BY <1>7 DEF View, IInv, GInv, RowsOK, TasksTyped
    <3> QED
      BY <1>1, <3>1
  <2> HIDE DEF old
  <2>2. e.old \in OldValues
    BY <1>3, <1>7 DEF EventOK
  <2>3. /\ DOMAIN e.old \in SUBSET {"parent", "done"}
        /\ "parent" \in DOMAIN e.old => e.old.parent \in Tasks \cup {None}
        /\ "done" \in DOMAIN e.old => e.old.done \in BOOLEAN
    BY <2>2 DEF OldValues
  <2>4. new \in TaskRow /\ new.needs = old.needs
    BY <2>1, <2>3, FieldsReplaced, SMTT(30)
  <2> HIDE DEF new
  <2>5. Quiet(t)
    BY <1>1, <1>5, <1>7, <2>4, OneTaskQuiet DEF IInv, old
  <2>6. GInv' /\ Foreign(t)
    BY <2>5, QuietOK DEF IInv
  <2> QED
    BY <1>1, <1>4, <2>6, WrittenOK
<1> QED
  BY <1>6, <1>7

(* What it took and has not written is released.                           *)
LEMMA RefuseUndoInv ==
    ASSUME IInv, NEW t \in Turns, RefuseUndo(t)
    PROVE  IInv'
<1> USE Nobody, TasksAreRows
<1>1. /\ pc[t] = "undoing" /\ saved' = saved /\ draft' = draft /\ own' = own /\ log' = log
      /\ owner' = [r \in Rows |-> IF r \in work[t].took THEN None ELSE owner[r]]
      /\ pc' = [pc EXCEPT ![t] = "idle"]
      /\ work' = [work EXCEPT ![t] = NoWork]
  BY DEF RefuseUndo, rows, history
<1>2. \A x \in work[t].took \cap Tasks : owner[x] = t /\ draft[x] = saved[x]
  BY <1>1 DEF IInv, TookInv
<1>3. Quiet(t)
  BY <1>1, <1>2 DEF Quiet, IInv, GInv, RowsOK
<1>4. GInv' /\ Foreign(t)
  BY <1>3, QuietOK DEF IInv
<1>5. EInv' /\ pc'[t] = "idle" /\ OthersStay(t)
  BY <1>1, IdleOK DEF IInv, EInv
<1>6. TookInv'
  BY <1>4, <1>5, TookOK DEF IInv, GInv
<1> QED
  BY <1>4, <1>5, <1>6 DEF IInv

LEMMA FlushInv ==
    ASSUME IInv, NEW t \in Turns, Flush(t)
    PROVE  IInv'
<1> USE TasksAreRows
<1> DEFINE events == work[t].events
           stamped == {[events[i] EXCEPT !.at = clock + i] : i \in DOMAIN events}
<1>1. /\ pc[t] = "flushing" /\ saved' = saved /\ log' = log
      /\ LockRows(t, Projects(t))
      /\ draft' = [r \in Rows |-> IF r \in Projects(t) THEN None ELSE draft[r]]
      /\ own' = [own EXCEPT ![t] = @ \cup stamped]
      /\ pc' = [pc EXCEPT ![t] = "idle"]
      /\ work' = [work EXCEPT ![t] = NoWork]
  BY DEF Flush
<1>2. draft' = [q \in Rows |-> draft'[q]] /\ \A x \in Tasks : draft'[x] = draft[x]
  BY <1>1 DEF Projects
<1>3. Quiet(t)
  BY <1>1, <1>2, NoTaskQuiet DEF IInv
<1>4. GInv' /\ Foreign(t)
  BY <1>3, QuietOK DEF IInv
<1>5. \A f \in stamped : EventOK(f)
  <2> SUFFICES ASSUME NEW i \in DOMAIN events
               PROVE  EventOK([events[i] EXCEPT !.at = clock + i])
    OBVIOUS
  <2>1. EventOK(events[i])
    BY <1>1 DEF IInv, EInv
  <2> HIDE DEF events
  <2> QED
    BY <2>1 DEF EventOK
<1> HIDE DEF stamped
<1>6. own' = [u \in Turns |-> own'[u]] /\ \A u \in Turns : \A f \in own'[u] : EventOK(f)
  BY <1>1, <1>5 DEF IInv, EInv
<1>7. EInv' /\ pc'[t] = "idle" /\ OthersStay(t)
  BY <1>1, <1>6, IdleOK DEF IInv, EInv
<1>8. TookInv'
  BY <1>4, <1>7, TookOK DEF IInv, GInv
<1> QED
  BY <1>4, <1>7, <1>8 DEF IInv

LEMMA CommitInv ==
    ASSUME IInv, NEW t \in Turns, Commit(t)
    PROVE  IInv'
<1>1. GInv' /\ Foreign(t)
  BY CommitOK DEF IInv
<1>2. pc[t] = "idle" /\ pc' = pc /\ work' = work /\ log' = log \cup own[t]
      /\ own' = [own EXCEPT ![t] = {}]
  BY DEF Commit, Release
<1>3. EInv' /\ OthersStay(t) /\ pc'[t] = "idle"
  BY <1>2 DEF IInv, EInv, OthersStay
<1>4. TookInv'
  BY <1>1, <1>3, TookOK DEF IInv, GInv
<1> QED
  BY <1>1, <1>3, <1>4 DEF IInv

LEMMA AbortInv ==
    ASSUME IInv, NEW t \in Turns, Abort(t)
    PROVE  IInv'
<1>1. GInv' /\ Foreign(t)
  BY AbortOK DEF IInv
<1>2. /\ pc' = [pc EXCEPT ![t] = "idle"] /\ work' = [work EXCEPT ![t] = NoWork] /\ log' = log
      /\ own' = [own EXCEPT ![t] = {}]
  BY DEF Abort, Release
<1>3. EInv' /\ OthersStay(t) /\ pc'[t] = "idle"
  BY <1>2, IdleOK DEF IInv, EInv
<1>4. TookInv'
  BY <1>1, <1>3, TookOK DEF IInv, GInv
<1> QED
  BY <1>1, <1>3, <1>4 DEF IInv

(***************************************************************************)
(* The theorem                                                             *)
(***************************************************************************)

LEMMA InitOK == Init => IInv
<1> SUFFICES ASSUME Init PROVE IInv
  OBVIOUS
<1> USE Nobody, TasksAreRows
<1>1. /\ \A x \in Tasks : saved[x] = FirstTasks[x]
      /\ draft = [r \in Rows |-> draft[r]] /\ draft = saved
  BY DEF Init, FirstRows
<1>2. /\ FirstTasks \in [Tasks -> TaskRow \cup {Absent}]
      /\ NeedsAcyclicIn(FirstTasks) /\ ClosedIn(FirstTasks)
  BY WorldAssumption DEF ClosedIn, Present, TaskRow
<1>3. RowsOK
  BY <1>1, <1>2 DEF RowsOK, TasksTyped, Init
<1>4. SameNeeds(FirstTasks, saved) /\ \A t \in Turns : SameNeeds(FirstTasks, View(t))
  BY <1>1 DEF SameNeeds, View
<1>5. GraphsOK
  BY <1>1, <1>2, <1>4, SameNeedsOK DEF GraphsOK, OneChanger, Changed
<1>6. EInv /\ TookInv
  BY DEF Init, EInv, TookInv, NoWork
<1> QED
  BY <1>3, <1>5, <1>6 DEF IInv, GInv

LEMMA StepOK == IInv /\ [Next]_vars => IInv'
<1> SUFFICES ASSUME IInv, [Next]_vars PROVE IInv'
  OBVIOUS
<1>1. CASE UNCHANGED vars
  <2>1. UNCHANGED <<saved, draft, owner, log, own, pc, work>>
    BY <1>1 DEF vars, rows, history, locks
  <2>2. RowsOK'
    BY <2>1 DEF IInv, GInv, RowsOK, TasksTyped
  <2>3. GraphsOK'
    <3>1. \A t \in Turns : View(t)' = View(t)
      BY <2>1 DEF View
    <3>2. \A t \in Turns : (ClosedIn(View(t)) /\ NeedsAcyclicIn(View(t)))'
      BY <3>1 DEF IInv, GInv, GraphsOK, ClosedIn, NeedsAcyclicIn, Present
    <3>3. OneChanger'
      BY <2>1 DEF IInv, GInv, GraphsOK, OneChanger, Changed
    <3>4. ClosedIn(saved)' /\ NeedsAcyclicIn(saved)'
      BY <2>1 DEF IInv, GInv, GraphsOK, ClosedIn, NeedsAcyclicIn, Present
    <3> QED
      BY <3>2, <3>3, <3>4 DEF GraphsOK
  <2>4. EInv'
    BY <2>1 DEF IInv, EInv
  <2>5. TookInv'
    BY <2>1 DEF IInv, TookInv
  <2> QED
    BY <2>2, <2>3, <2>4, <2>5 DEF IInv, GInv
<1>2. ASSUME NEW t \in Turns, NEW x \in Tasks, NEW row \in NewTasks, CreateTask(t, x, row)
      PROVE  IInv'
  BY <1>2, CreateTaskInv
<1>3. ASSUME NEW t \in Turns, NEW x \in Tasks, NEW values \in TaskUpdates, UpdateTask(t, x, values)
      PROVE  IInv'
  BY <1>3, UpdateTaskInv
<1>4. ASSUME NEW t \in Turns, NEW done \in BOOLEAN, UpdateGoal(t, done)
      PROVE  IInv'
  BY <1>4, TasksAreRows, ChangeElsewhereInv DEF UpdateGoal
<1>5. ASSUME NEW t \in Turns, NEW c \in Criteria, NEW mark \in Marks, UpdateCriterion(t, c, mark)
      PROVE  IInv'
  BY <1>5, TasksAreRows, ChangeElsewhereInv DEF UpdateCriterion
<1>6. ASSUME NEW t \in Turns, NEW x \in Tasks, LinkTaskGoal(t, x)
      PROVE  IInv'
  BY <1>6, LinkTaskGoalInv
<1>7. ASSUME NEW t \in Turns, NEW x \in Tasks, NEW y \in Tasks, AddDependency(t, x, y)
      PROVE  IInv'
  BY <1>7, AddDependencyInv
<1>8. ASSUME NEW t \in Turns, NEW d \in Decisions, CreateDecision(t, d) \/ RevokeDecision(t, d)
      PROVE  IInv'
  BY <1>8, CreateDecisionInv, RevokeDecisionInv
<1>9. ASSUME NEW t \in Turns, NEW d \in Decisions, NEW e \in Decisions, SupersedeDecision(t, d, e)
      PROVE  IInv'
  BY <1>9, SupersedeDecisionInv
<1>10. ASSUME NEW t \in Turns, NEW x \in Tasks \cup {Goal}, NEW everywhere \in BOOLEAN,
              BeginUndo(t, x, everywhere)
       PROVE  IInv'
  BY <1>10, BeginUndoInv
<1>11. ASSUME NEW t \in Turns,
              \/ CacheSummary(t) \/ Refused(t) \/ Restore(t) \/ RefuseUndo(t)
              \/ Flush(t) \/ Commit(t) \/ Abort(t)
       PROVE  IInv'
  BY <1>11, CacheSummaryInv, RefusedInv, RestoreInv, RefuseUndoInv, FlushInv, CommitInv, AbortInv
<1> QED
  BY <1>1, <1>2, <1>3, <1>4, <1>5, <1>6, <1>7, <1>8, <1>9, <1>10, <1>11 DEF Next

(* Task dependencies never have a cycle: whatever Tasks there are, however *)
(* many turns add, create, update and undo at once, and wherever they fail.*)
THEOREM DependenciesStayAcyclic == Spec => []DependenciesAcyclic
<1>1. IInv => DependenciesAcyclic
  BY DEF IInv, GInv, GraphsOK, DependenciesAcyclic
<1> QED
  BY <1>1, InitOK, StepOK, PTL DEF Spec

(* Of two turns that are open at a time, at most one has changed the       *)
(* dependencies of committed Tasks: what the locks of add_dependency give. *)
THEOREM OneTurnChangesDependencies == Spec => []OneChanger
<1>1. IInv => OneChanger
  BY DEF IInv, GInv, GraphsOK
<1> QED
  BY <1>1, InitOK, StepOK, PTL DEF Spec
=============================================================================
