-------------------------- MODULE WorldHistoryProofs --------------------------
(***************************************************************************)
(* What the history of the world says is what is stored, for any rows,     *)
(* turns, commands and events: no gaps (HistoryGapless), reversed changes  *)
(* have left no trace (HistoryExplains), an undo reverses the last change  *)
(* and nothing twice (UndoesTheLast), and no summary outlives an event.    *)
(*                                                                         *)
(* Events become visible when their turn commits.  What makes the order of *)
(* their dates the order of the changes of a row is that a turn which has  *)
(* an event of a row, uncommitted, holds the row (Locks), so that what it  *)
(* sees of the row is all there is.  The invariant is therefore about one  *)
(* row at a time: what is committed of its history explains what is stored *)
(* of it, and what its holder sees explains the draft.                     *)
(***************************************************************************)
EXTENDS WorldStateProofs

Undone(e) == e.kind = "undone"
Created(e) == e.kind = "recorded" /\ DOMAIN e.old = {}
ReversedIn(E, e) == \E u \in E : u.reverses = e.at

(* The fields that commands change and undo puts back.                     *)
FieldsOf(r) == IF r \in Tasks THEN {"parent", "done"}
               ELSE IF r \in Criteria THEN {"mark"} ELSE {"done"}

ShapeOK(e) ==
    /\ DOMAIN e = {"at", "kind", "on", "row", "old", "new", "reverses", "everywhere"}
    /\ e.row \in Rows \ {Project}
    /\ e.on = IF e.row \in Criteria THEN Goal ELSE e.row
    /\ \/ /\ e.kind \in {"changed", "undone"}
          /\ e.row \in Tasks \cup Criteria \cup {Goal}
          /\ DOMAIN e.old = DOMAIN e.new /\ DOMAIN e.new \subseteq FieldsOf(e.row)
       \/ /\ e.kind = "recorded"
          /\ DOMAIN e.old = {} \/ DOMAIN e.new \cap {"parent", "done", "mark"} = {}
    /\ ~Undone(e) => e.reverses = 0

(***************************************************************************)
(* The history S of one row                                                *)
(***************************************************************************)

On(E, r) == {e \in E : e.row = r}
Touch(S, f) == {e \in S : f \in DOMAIN e.new}
Stand(S, f) == {e \in Touch(S, f) : ~Undone(e) /\ ~ReversedIn(S, e)}
Before(S, e) == {d \in S : d.at < e.at}

(* v is what the last event of S has left in field f.                      *)
ValueIs(S, r, f, v) ==
    IF S = {} THEN v = FirstRows(None)[r][f]
    ELSE \E e \in S : (\A d \in S : d.at <= e.at) /\ v = e.new[f]

(* With all events, and with those that stand.                             *)
FieldIs(S, r, f, v) == ValueIs(Touch(S, f), r, f, v) /\ ValueIs(Stand(S, f), r, f, v)
There(r, row) == r \in Tasks \cup Decisions => row # Absent
RowValue(S, r, row) == There(r, row) => \A f \in DOMAIN row : FieldIs(S, r, f, row[f])

Gapless(S, r) ==
    \A e \in S : \A f \in DOMAIN e.old : ValueIs(Before(Touch(S, f), e), r, f, e.old[f])

(* What an undo would put back is what the events before it have left of   *)
(* those that stand.                                                       *)
Kept(S, r) ==
    \A e \in S : e.kind = "changed" /\ ~ReversedIn(S, e) =>
        \A f \in DOMAIN e.old : ValueIs(Before(Stand(S, f), e), r, f, e.old[f])
CreatedFirst(S) == \A e \in S : Created(e) => \A d \in S : e.at <= d.at
RowHistory(S, r) == Gapless(S, r) /\ Kept(S, r) /\ CreatedFirst(S)

(***************************************************************************)
(* What turns have done and are about to do                                *)
(***************************************************************************)

Listed(events) == events \in Seq({events[i] : i \in DOMAIN events})
Pending(t) == {i \in DOMAIN work[t].events : pc[t] = "flushing"}
PendingRows(t) == {work[t].events[i].row : i \in Pending(t)}

(* An undo of t on an entity is about the last of its changes that stand,  *)
(* or of all changes.                                                      *)
Reversible(E) == {e \in E : e.kind = "changed" /\ ~ReversedIn(E, e)}
Target(t, at, on, everywhere) ==
    /\ on \in Rows /\ owner[on] = t
    /\ everywhere => mode[t] = "exclusive"
    /\ \E e \in Reversible(Events(t)) : e.at = at /\ e.on = on
    /\ \A d \in Reversible(Events(t)) : d.on = on \/ everywhere => d.at <= at

PendingOK(t, e) ==
    LET S == On(Events(t), e.row)
        row == draft[e.row]
    IN  /\ ShapeOK(e)
        /\ owner[e.row] = t /\ e.on \in work[t].keys
        /\ \A f \in DOMAIN row : IF f \in DOMAIN e.new THEN row[f] = e.new[f]
                                 ELSE FieldIs(S, e.row, f, row[f])
        /\ \A f \in DOMAIN e.old : FieldIs(S, e.row, f, e.old[f])
        /\ Created(e) => S = {}
        /\ There(e.row, draft[e.row])
        /\ Undone(e) =>
             /\ Target(t, e.reverses, e.on, e.everywhere)
             /\ DOMAIN work[t].events = {1}
             /\ \E d \in S : /\ d.at = e.reverses /\ d.kind = "changed" /\ d.on = e.on
                             /\ d.old = e.new

UndoOK(t, e) ==
    /\ e \in Reversible(Events(t))
    /\ Target(t, e.at, e.on, work[t].everywhere)
    /\ \A r \in work[t].took :
         /\ r \in Rows \ {Project}
         /\ owner[r] = t /\ draft[r] = saved[r] /\ (r \in Tasks => saved[r] # Absent)
         /\ \A d \in own[t] : d.row # r /\ (Undone(d) => d.on # r)

WorkOK(t) ==
    /\ pc[t] # "idle" => mode[t] # "none"
    /\ pc[t] = "undoing" => UndoOK(t, work[t].undoes)
    /\ pc[t] = "flushing" =>
         /\ work[t].keys \subseteq Rows
         /\ \A i \in DOMAIN work[t].events : PendingOK(t, work[t].events[i])
         /\ \A i, j \in DOMAIN work[t].events :
                i # j => work[t].events[i].row # work[t].events[j].row
         /\ Listed(work[t].events)

(* A set of events that somebody sees: dates are distinct, what is undone  *)
(* is there, and was the last change that stood.                           *)
DatesOK(E) ==
    /\ \A e \in E : ShapeOK(e) /\ e.at \in 1 .. clock
    /\ \A e, d \in E : e.at = d.at => e = d
ReversesOK(E) ==
    \A v \in E : Undone(v) =>
        \E e \in E : /\ e.at = v.reverses /\ e.kind = "changed"
                     /\ e.on = v.on /\ e.row = v.row /\ e.at < v.at
LastOK(E) ==
    /\ \A u, e \in E :
           /\ Undone(u) /\ e.kind = "changed"
           /\ u.reverses < e.at /\ e.at < u.at
           /\ u.everywhere \/ e.on = u.on
           => \E v \in E : v.reverses = e.at /\ v.at < u.at
    /\ \A u, v \in E : u.reverses = v.reverses /\ u.reverses # 0 => u = v
SetOK(E) == DatesOK(E) /\ ReversesOK(E) /\ LastOK(E)

RowTypes(row) ==
    /\ \A d \in Decisions : row[d] \in DecisionRow \cup {Absent}
    /\ \A c \in Criteria : DOMAIN row[c] = {"mark"}
    /\ DOMAIN row[Goal] = {"done"}

Typed ==
    /\ sharers \in [Turns -> SUBSET Rows] /\ mode = [t \in Turns |-> mode[t]]
    /\ clock \in Nat
    /\ RowTypes(saved) /\ RowTypes(draft)
    /\ \A d \in Decisions : saved[d] # Absent => draft[d] # Absent
    /\ \A r \in Rows : owner[r] = None => draft[r] = saved[r]

Sets ==
    /\ SetOK(log) /\ \A t \in Turns : SetOK(Events(t))
    /\ \A t, u \in Turns : t # u => \A e \in own[t], d \in own[u] : e.at # d.at
    /\ \A t \in Turns : \A e \in own[t], d \in log : d.row = e.row => d.at < e.at

(* Who has written an event holds its row, and shares its entity.          *)
OwnOK(t) ==
    /\ mode[t] = "none" => own[t] = {}
    /\ \A e \in own[t] :
         /\ owner[e.row] = t /\ e.on \in sharers[t]
         /\ There(e.row, draft[e.row])
    /\ \A e \in own[t] : Undone(e) => owner[e.on] = t /\ (e.everywhere => mode[t] = "exclusive")
(* What it shares it can see.                                              *)
KeysOK(t) ==
    /\ \A x \in Tasks \cap sharers[t] : saved[x] # Absent \/ owner[x] = t
    /\ pc[t] = "flushing" =>
         \A x \in Tasks \cap work[t].keys : saved[x] # Absent \/ owner[x] = t
Exclude(t, u) ==
    /\ \A r \in sharers[u] : owner[r] # t
    /\ mode[t] = "exclusive" => mode[u] = "none"
Locks ==
    /\ \A t \in Turns : OwnOK(t) /\ KeysOK(t)
    /\ \A t, u \in Turns : t # u => Exclude(t, u)
    /\ \A e \in log : There(e.row, saved[e.row])

Work == \A t \in Turns : WorkOK(t)

HeldOK(t, r) ==
    /\ RowHistory(On(Events(t), r), r)
    /\ r \notin PendingRows(t) => RowValue(On(Events(t), r), r, draft[r])
Histories ==
    \A r \in Rows \ {Project} :
        /\ RowHistory(On(log, r), r) /\ RowValue(On(log, r), r, saved[r])
        /\ \A t \in Turns : owner[r] = t => HeldOK(t, r)

(* Every turn with an event holds the Project, and a summary it sees names *)
(* what it sees.                                                           *)
Summary ==
    /\ saved[Project] = Absent => owner[Project] = None
    /\ SummaryCurrent
    /\ \A t \in Turns :
         /\ own[t] # {} => owner[Project] = t \/ saved[Project] = Absent
         /\ owner[Project] = t /\ draft[Project] \notin {None, Absent}
            => \A e \in Events(t) : e.at \in draft[Project]

HInv == IInv /\ Typed /\ Sets /\ Locks /\ Work /\ Histories /\ Summary

-----------------------------------------------------------------------------
(***************************************************************************)
(* One event more in the history of a row                                  *)
(***************************************************************************)

(* All events of S are older than e, and none reverses it.                 *)
Newer(S, e) ==
    /\ e.at \in Nat \ {0}
    /\ \A d \in S : d.at \in Nat \ {0} /\ d.at < e.at /\ d.reverses # e.at

(* The row as e has left it.                                               *)
Leaves(S, e, r, row) ==
    \A f \in DOMAIN row : IF f \in DOMAIN e.new THEN row[f] = e.new[f] ELSE FieldIs(S, r, f, row[f])

LEMMA BeforeNew ==
    ASSUME NEW S, NEW e, Newer(S, e)
    PROVE  /\ e \notin S
           /\ \A f : Touch(S \cup {e}, f) = Touch(S, f) \cup (IF f \in DOMAIN e.new THEN {e} ELSE {})
           /\ \A f : Before(Touch(S \cup {e}, f), e) = Touch(S, f)
           /\ \A f : \A d \in S : Before(Touch(S \cup {e}, f), d) = Before(Touch(S, f), d)
<1>1. e \notin S
  BY DEF Newer
<1>2. ASSUME NEW f
      PROVE  Touch(S \cup {e}, f) = Touch(S, f) \cup (IF f \in DOMAIN e.new THEN {e} ELSE {})
  BY DEF Touch
<1>3. ASSUME NEW f
      PROVE  Before(Touch(S \cup {e}, f), e) = Touch(S, f)
  BY DEF Before, Touch, Newer
<1>4. ASSUME NEW f, NEW d \in S
      PROVE  Before(Touch(S \cup {e}, f), d) = Before(Touch(S, f), d)
  <2>1. ~(e.at < d.at)
    BY DEF Newer
  <2> QED
    BY <2>1 DEF Before, Touch
<1> QED
  BY <1>1, <1>2, <1>3, <1>4

(* The newest event says what the field is.                                *)
LEMMA NewestSays ==
    ASSUME NEW S, NEW e, Newer(S, e), NEW T \in SUBSET S, NEW r, NEW f
    PROVE  ValueIs(T \cup {e}, r, f, e.new[f])
<1>1. \A d \in T \cup {e} : d.at <= e.at
  BY DEF Newer
<1> QED
  BY <1>1 DEF ValueIs

LEMMA AppendPlain ==
    ASSUME NEW S, NEW e, NEW r, NEW row, Newer(S, e),
           ~Undone(e), e.reverses = 0, RowHistory(S, r), Created(e) => S = {},
           \A f \in DOMAIN e.old : FieldIs(S, r, f, e.old[f]),
           Leaves(S, e, r, row)
    PROVE  RowHistory(S \cup {e}, r) /\ RowValue(S \cup {e}, r, row)
<1> DEFINE R == S \cup {e}
<1>1. /\ e \notin S
      /\ \A f : Touch(R, f) = Touch(S, f) \cup (IF f \in DOMAIN e.new THEN {e} ELSE {})
      /\ \A f : Before(Touch(R, f), e) = Touch(S, f)
      /\ \A f : \A d \in S : Before(Touch(R, f), d) = Before(Touch(S, f), d)
  BY BeforeNew
<1>2. /\ \A d \in S : ReversedIn(R, d) <=> ReversedIn(S, d)
      /\ ~ReversedIn(R, e)
  BY DEF ReversedIn, Newer
<1>3. \A f : Stand(R, f) = Stand(S, f) \cup (IF f \in DOMAIN e.new THEN {e} ELSE {})
  BY <1>1, <1>2 DEF Stand, Touch
<1>4. /\ \A f : Before(Stand(R, f), e) = Stand(S, f)
      /\ \A f : \A d \in S : Before(Stand(R, f), d) = Before(Stand(S, f), d)
  <2>1. ASSUME NEW f
        PROVE  Before(Stand(R, f), e) = Stand(S, f)
    <3>1. \A d \in Stand(S, f) : d.at < e.at
      BY DEF Stand, Touch, Newer
    <3>2. ~(e.at < e.at)
      BY DEF Newer
    <3> QED
      BY <1>3, <3>1, <3>2 DEF Before
  <2>2. \A d \in S : ~(e.at < d.at)
    BY DEF Newer
  <2>3. \A f : \A d \in S : Before(Stand(R, f), d) = Before(Stand(S, f), d)
    BY <1>3, <2>2 DEF Before
  <2> QED
    BY <2>1, <2>3
<1>5. Gapless(R, r)
  BY <1>1 DEF Gapless, RowHistory, FieldIs
<1>6. Kept(R, r)
  BY <1>2, <1>4 DEF Kept, RowHistory, FieldIs
<1>7. CreatedFirst(R)
  BY DEF CreatedFirst, RowHistory, Newer
<1>8. RowValue(R, r, row)
  <2> SUFFICES ASSUME NEW f \in DOMAIN row PROVE FieldIs(R, r, f, row[f])
    BY DEF RowValue
  <2>1. CASE f \in DOMAIN e.new
    <3>1. ValueIs(Touch(S, f) \cup {e}, r, f, e.new[f]) /\ ValueIs(Stand(S, f) \cup {e}, r, f, e.new[f])
      BY NewestSays DEF Touch, Stand
    <3>2. row[f] = e.new[f]
      BY <2>1 DEF Leaves
    <3> QED
      BY <1>1, <1>3, <2>1, <3>1, <3>2 DEF FieldIs
  <2>2. CASE f \notin DOMAIN e.new
    BY <1>1, <1>3, <2>2 DEF Leaves, FieldIs
  <2> QED
    BY <2>1, <2>2
<1> QED
  BY <1>5, <1>6, <1>7, <1>8 DEF RowHistory

(* An undo takes the last change that stands out of what stands: the field *)
(* gets the value that the change had kept.                                *)
LEMMA AppendUndo ==
    ASSUME NEW S, NEW u, NEW e \in S, NEW r, NEW row, Newer(S, u), u.reverses = e.at,
           Undone(u), \A d \in S : ShapeOK(d) /\ d.row = r,
           \A d, b \in S : d.at = b.at => d = b,
           RowHistory(S, r), e \in Reversible(S), \A d \in Reversible(S) : d.at <= e.at,
           DOMAIN u.new = DOMAIN e.old, u.new = e.old,
           \A f \in DOMAIN u.old : FieldIs(S, r, f, u.old[f]),
           Leaves(S, u, r, row)
    PROVE  RowHistory(S \cup {u}, r) /\ RowValue(S \cup {u}, r, row)
<1> DEFINE R == S \cup {u}
<1>1. /\ u \notin S
      /\ \A f : Touch(R, f) = Touch(S, f) \cup (IF f \in DOMAIN u.new THEN {u} ELSE {})
      /\ \A f : Before(Touch(R, f), u) = Touch(S, f)
      /\ \A f : \A d \in S : Before(Touch(R, f), d) = Before(Touch(S, f), d)
  BY BeforeNew
<1>2. e.kind = "changed" /\ ~ReversedIn(S, e) /\ ShapeOK(e)
  BY DEF Reversible
<1>3. \A d \in S : ReversedIn(R, d) <=> ReversedIn(S, d) \/ d = e
  BY DEF ReversedIn
<1>4. \A f : Stand(R, f) = Stand(S, f) \ {e}
  BY <1>1, <1>3 DEF Stand, Touch
<1>5. Gapless(R, r)
  BY <1>1 DEF Gapless, RowHistory, FieldIs
<1>6. Kept(R, r)
  <2> SUFFICES ASSUME NEW d \in R, d.kind = "changed", ~ReversedIn(R, d), NEW f \in DOMAIN d.old
               PROVE  ValueIs(Before(Stand(R, f), d), r, f, d.old[f])
    BY DEF Kept
  <2>1. d \in S /\ d # e /\ ~ReversedIn(S, d)
    BY <1>3 DEF Undone
  <2>2. d.at <= e.at
    BY <2>1 DEF Reversible
  <2>3. Before(Stand(R, f), d) = Before(Stand(S, f), d)
    <3>1. ~(e.at < d.at)
      BY <2>1, <2>2 DEF Newer
    <3> QED
      BY <1>4, <3>1 DEF Before
  <2> QED
    BY <2>1, <2>3 DEF Kept, RowHistory
<1>7. CreatedFirst(R)
  BY DEF CreatedFirst, RowHistory, Newer, Undone, Created
<1>8. RowValue(R, r, row)
  <2> SUFFICES ASSUME NEW f \in DOMAIN row PROVE FieldIs(R, r, f, row[f])
    BY DEF RowValue
  <2>1. CASE f \in DOMAIN u.new
    <3>1. row[f] = u.new[f] /\ row[f] = e.old[f] /\ f \in DOMAIN e.old
      BY <2>1 DEF Leaves
    <3>2. ValueIs(Touch(R, f), r, f, row[f])
      <4>1. ValueIs(Touch(S, f) \cup {u}, r, f, u.new[f])
        BY NewestSays DEF Touch
      <4>2. Touch(R, f) = Touch(S, f) \cup {u}
        BY <1>1, <2>1
      <4> QED
        BY <3>1, <4>1, <4>2
    <3>3. ValueIs(Before(Stand(S, f), e), r, f, e.old[f])
      BY <1>2, <3>1 DEF RowHistory, Kept
    <3>4. \A d \in Stand(S, f) : d = e \/ d.at < e.at
      <4> SUFFICES ASSUME NEW d \in Stand(S, f), d # e PROVE d.at < e.at
        OBVIOUS
      <4>1. d \in S /\ ~Undone(d) /\ ~ReversedIn(S, d) /\ f \in DOMAIN d.new /\ ShapeOK(d)
        BY DEF Stand, Touch
      <4>2. d.at # e.at /\ d.at \in Nat /\ e.at \in Nat
        BY <4>1 DEF Newer
      <4>3. CASE d.kind = "changed"
        BY <4>1, <4>2, <4>3 DEF Reversible
      <4>4. CASE d.kind = "recorded"
        <5>1. f \in {"parent", "done", "mark"}
          BY <1>2, <3>1 DEF ShapeOK, FieldsOf
        <5>2. Created(d)
          BY <4>1, <4>4, <5>1 DEF ShapeOK, Created
        <5> QED
          BY <4>1, <4>2, <5>2 DEF RowHistory, CreatedFirst
      <4> QED
        BY <4>1, <4>3, <4>4 DEF ShapeOK, Undone
    <3>5. Stand(R, f) = Before(Stand(S, f), e)
      <4>1. ~(e.at < e.at)
        BY DEF Newer
      <4> QED
        BY <1>4, <3>4, <4>1 DEF Before
    <3>6. ValueIs(Stand(R, f), r, f, row[f])
      BY <3>1, <3>3, <3>5
    <3> QED
      BY <3>2, <3>6 DEF FieldIs
  <2>2. CASE f \notin DOMAIN u.new
    <3>1. e \notin Stand(S, f)
      BY <1>2, <2>2 DEF ShapeOK, Stand, Touch
    <3>2. FieldIs(S, r, f, row[f])
      BY <2>2 DEF Leaves
    <3>3. Touch(R, f) = Touch(S, f)
      BY <1>1, <2>2
    <3>4. Stand(R, f) = Stand(S, f)
      BY <1>4, <3>1
    <3> QED
      BY <3>2, <3>3, <3>4 DEF FieldIs
  <2> QED
    BY <2>1, <2>2
<1> QED
  BY <1>5, <1>6, <1>7, <1>8 DEF RowHistory

(***************************************************************************)
(* What the locks give                                                     *)
(***************************************************************************)

(* What has reversed an event of a row is an event of that row.            *)
LEMMA ReversedOnRow ==
    ASSUME clock \in Nat, NEW E, SetOK(E), NEW r, NEW d \in On(E, r)
    PROVE  ReversedIn(On(E, r), d) <=> ReversedIn(E, d)
<1> SUFFICES ASSUME NEW v \in E, v.reverses = d.at
             PROVE  v \in On(E, r)
  BY DEF ReversedIn, On
<1>1. d \in E /\ d.row = r /\ d.at # 0 /\ ShapeOK(v)
  BY DEF On, SetOK, DatesOK
<1>2. Undone(v)
  BY <1>1 DEF ShapeOK
<1>3. PICK e \in E : e.at = v.reverses /\ e.row = v.row
  BY <1>2 DEF SetOK, ReversesOK
<1>4. e = d
  BY <1>1, <1>3 DEF SetOK, DatesOK
<1> QED
  BY <1>1, <1>3, <1>4 DEF On

(* Of a row that others do not hold, t has all the history there is.       *)
LEMMA LockableRow ==
    ASSUME HInv, NEW t \in Turns, NEW r \in Rows \ {Project}, owner[r] \in {None, t},
           pc[t] # "flushing"
    PROVE  /\ RowHistory(On(Events(t), r), r)
           /\ RowValue(On(Events(t), r), r, View(t)[r])
           /\ owner[r] = None => On(Events(t), r) = On(log, r) /\ draft[r] = saved[r]
           /\ r \in Tasks \cup Decisions /\ owner[r] = None /\ saved[r] = Absent
              => On(Events(t), r) = {}
<1> USE Nobody
<1>1. CASE owner[r] = t
  <2>1. HeldOK(t, r) /\ r \notin PendingRows(t) /\ View(t)[r] = draft[r]
    BY <1>1 DEF HInv, Histories, PendingRows, Pending, View
  <2> QED
    BY <1>1, <2>1 DEF HeldOK
<1>2. CASE owner[r] = None
  <2>1. \A e \in own[t] : e.row # r
    BY <1>2 DEF HInv, Locks, OwnOK
  <2>2. On(Events(t), r) = On(log, r)
    BY <2>1 DEF On, Events
  <2>3. RowHistory(On(log, r), r) /\ RowValue(On(log, r), r, saved[r])
    BY DEF HInv, Histories
  <2>4. View(t)[r] = saved[r] /\ draft[r] = saved[r]
    BY <1>2 DEF View, HInv, Typed
  <2>5. r \in Tasks \cup Decisions /\ saved[r] = Absent => On(log, r) = {}
    BY DEF HInv, Locks, On, There
  <2> QED
    BY <2>2, <2>3, <2>4, <2>5
<1> QED
  BY <1>1, <1>2

(* A step leaves the work of turn u as it is, and what it is about.        *)
Keeps(u) ==
    /\ pc'[u] = pc[u] /\ work'[u] = work[u] /\ mode'[u] = mode[u] /\ own'[u] = own[u]
    /\ \A r \in Rows : owner[r] = u =>
         /\ owner'[r] = u /\ draft'[r] = draft[r] /\ saved'[r] = saved[r]
         /\ On(Events(u)', r) = On(Events(u), r)
    /\ \A e \in Reversible(Events(u)) :
         e.on \in Rows /\ owner[e.on] = u => e \in Reversible(Events(u)')
    /\ \A at, on, everywhere : Target(u, at, on, everywhere) => Target(u, at, on, everywhere)'

LEMMA KeepsWork ==
    ASSUME NEW u \in Turns, WorkOK(u), Keeps(u)
    PROVE  WorkOK(u)'
<1>1. pc'[u] # "idle" => mode'[u] # "none"
  BY DEF WorkOK, Keeps
<1>2. ASSUME pc'[u] = "undoing"
      PROVE  UndoOK(u, work[u].undoes)'
  <2> DEFINE e == work[u].undoes
  <2>1. UndoOK(u, e) /\ e' = e /\ work'[u] = work[u]
    BY <1>2 DEF WorkOK, Keeps
  <2>2. Target(u, e.at, e.on, work[u].everywhere) /\ e \in Reversible(Events(u))
    BY <2>1 DEF UndoOK
  <2>3. e \in Reversible(Events(u)')
    BY <2>2 DEF Keeps, Target
  <2>4. Target(u, e.at, e.on, work[u].everywhere)'
    <3>1. \A at, on, everywhere :
             Target(u, at, on, everywhere) => Target(u, at, on, everywhere)'
      BY DEF Keeps
    <3> QED
      BY <2>1, <2>2, <3>1
  <2>5. \A r \in work'[u].took :
             /\ r \in Rows \ {Project}
             /\ owner'[r] = u /\ draft'[r] = saved'[r] /\ (r \in Tasks => saved'[r] # Absent)
             /\ \A d \in own'[u] : d.row # r /\ (Undone(d) => d.on # r)
    BY <2>1 DEF UndoOK, Keeps
  <2> HIDE DEF e
  <2> QED
    BY <2>1, <2>3, <2>4, <2>5 DEF UndoOK, e
<1>3. ASSUME pc'[u] = "flushing"
      PROVE  /\ work'[u].keys \subseteq Rows
             /\ \A i \in DOMAIN work'[u].events : PendingOK(u, work[u].events[i])'
             /\ \A i, j \in DOMAIN work'[u].events :
                    i # j => work'[u].events[i].row # work'[u].events[j].row
             /\ Listed(work'[u].events)
  <2>1. work'[u] = work[u] /\ pc[u] = "flushing"
    BY <1>3 DEF Keeps
  <2>2. ASSUME NEW i \in DOMAIN work[u].events
        PROVE  PendingOK(u, work[u].events[i])'
    <3> DEFINE e == work[u].events[i]
    <3>1. PendingOK(u, e) /\ e' = e
      BY <2>1 DEF WorkOK
    <3>2. e.row \in Rows /\ owner[e.row] = u
      BY <3>1 DEF PendingOK, ShapeOK
    <3>3. /\ owner'[e.row] = u /\ draft'[e.row] = draft[e.row]
          /\ On(Events(u)', e.row) = On(Events(u), e.row)
      BY <3>2 DEF Keeps
    <3>4. Undone(e) => Target(u, e.reverses, e.on, e.everywhere)'
      <4>1. \A at, on, everywhere :
               Target(u, at, on, everywhere) => Target(u, at, on, everywhere)'
        BY DEF Keeps
      <4> QED
        BY <3>1, <4>1 DEF PendingOK
    <3> HIDE DEF e
    <3> QED
      BY <2>1, <3>1, <3>3, <3>4 DEF PendingOK, e
  <2> QED
    BY <2>1, <2>2 DEF WorkOK
<1> QED
  BY <1>1, <1>2, <1>3 DEF WorkOK

(***************************************************************************)
(* Steps that lock and write rows                                          *)
(***************************************************************************)

LocalStep(t) ==
    /\ UNCHANGED <<saved, log, own, clock, sharers>>
    /\ mode' = [u \in Turns |-> mode'[u]]
    /\ \A r \in Rows : \/ owner'[r] = owner[r]
                       \/ /\ owner[r] = None /\ owner'[r] = t
                          /\ \A u \in Turns \ {t} : r \notin sharers[u]
    /\ \A r \in Rows : draft'[r] # draft[r] => owner'[r] = t
    /\ \A u \in Turns \ {t} : mode'[u] = mode[u] /\ mode[u] # "exclusive"
    /\ mode'[t] # "none" /\ (mode[t] = "exclusive" => mode'[t] = "exclusive")
    /\ mode'[t] = "exclusive" => \A u \in Turns \ {t} : mode[u] = "none"
    /\ OthersStay(t)

(* Other turns keep what they have.                                        *)
LEMMA LocalKeeps ==
    ASSUME HInv, NEW t \in Turns, LocalStep(t), NEW u \in Turns \ {t}
    PROVE  Keeps(u)
<1> USE Nobody
<1>1. Events(u)' = Events(u)
  BY DEF LocalStep, Events
<1>2. \A r \in Rows : owner[r] = u =>
         owner'[r] = u /\ draft'[r] = draft[r] /\ saved'[r] = saved[r]
  BY DEF LocalStep
<1>3. pc'[u] = pc[u] /\ work'[u] = work[u] /\ mode'[u] = mode[u] /\ own'[u] = own[u]
  BY DEF LocalStep, OthersStay
<1>4. \A at, on, everywhere : Target(u, at, on, everywhere) => Target(u, at, on, everywhere)'
  BY <1>1, <1>2, <1>3 DEF Target
<1> QED
  BY <1>1, <1>2, <1>3, <1>4 DEF Keeps

LEMMA LocalLocks ==
    ASSUME HInv, IInv', NEW t \in Turns, LocalStep(t), WorkOK(t)',
           pc'[t] = "flushing" =>
               \A x \in Tasks \cap work'[t].keys : saved[x] # Absent \/ owner'[x] = t,
           \A r \in Rows \ {Project} : draft'[r] # draft[r] => There(r, draft'[r])
    PROVE  Locks'
<1> USE Nobody, TasksAreRows
<1>1. /\ saved' = saved /\ log' = log /\ own' = own /\ clock' = clock /\ sharers' = sharers
      /\ \A u \in Turns : \A e \in own[u] : e.row \in Rows \ {Project}
      /\ \A u \in Turns : \A e \in own[u] : Undone(e) => e.on \in Rows
      /\ \A u \in Turns : \A r \in Rows : owner[r] = u => owner'[r] = u
      /\ \A u \in Turns : mode[u] = "exclusive" => mode'[u] = "exclusive"
      /\ \A u \in Turns : mode'[u] = "none" => mode[u] = "none"
  <2>1. \A u \in Turns : \A e \in own[u] : ShapeOK(e)
    BY DEF HInv, Sets, SetOK, DatesOK, Events
  <2>2. \A u \in Turns : \A e \in own[u] : e.row \in Rows \ {Project} /\ (Undone(e) => e.on \in Rows)
    BY <2>1 DEF ShapeOK
  <2> QED
    BY <2>2 DEF LocalStep
<1>2. ASSUME NEW u \in Turns
      PROVE  OwnOK(u)'
  <2>1. OwnOK(u)
    BY DEF HInv, Locks
  <2>2. \A e \in own[u] : There(e.row, draft'[e.row])
    BY <1>1, <2>1 DEF OwnOK
  <2> QED
    BY <1>1, <2>1, <2>2 DEF OwnOK
<1>3. ASSUME NEW u \in Turns
      PROVE  KeysOK(u)'
  <2>1. KeysOK(u)
    BY DEF HInv, Locks
  <2> QED
    BY <1>1, <2>1 DEF KeysOK, LocalStep, OthersStay
<1>4. ASSUME NEW u \in Turns, NEW v \in Turns, u # v
      PROVE  Exclude(u, v)'
  <2>1. Exclude(u, v)
    BY <1>4 DEF HInv, Locks
  <2>2. \A r \in sharers[v] : owner'[r] # u
    <3>1. sharers[v] \subseteq Rows
      BY DEF HInv, Typed
    <3> QED
      BY <1>4, <2>1, <3>1 DEF Exclude, LocalStep
  <2>3. mode'[u] = "exclusive" => mode'[v] = "none"
    BY <1>4, <2>1 DEF Exclude, LocalStep
  <2> QED
    BY <1>1, <2>2, <2>3 DEF Exclude
<1> QED
  BY <1>1, <1>2, <1>3, <1>4 DEF Locks, HInv

LEMMA LocalHistories ==
    ASSUME HInv, IInv', NEW t \in Turns, LocalStep(t), pc[t] # "flushing",
           \A r \in Rows \ {Project} : draft'[r] # draft[r] => r \in PendingRows(t)'
    PROVE  Histories'
<1> USE Nobody
<1>1. saved' = saved /\ log' = log /\ \A u \in Turns : Events(u)' = Events(u)
  BY DEF LocalStep, Events
<1> SUFFICES ASSUME NEW r \in Rows \ {Project}, NEW u \in Turns, owner'[r] = u
             PROVE  HeldOK(u, r)'
  BY <1>1 DEF Histories, HInv
<1>2. CASE u # t
  <2>1. HeldOK(u, r) /\ draft'[r] = draft[r]
    BY <1>2 DEF LocalStep, HInv, Histories
  <2>2. PendingRows(u)' = PendingRows(u)
    BY <1>2 DEF LocalStep, OthersStay, PendingRows, Pending
  <2> QED
    BY <1>1, <2>1, <2>2 DEF HeldOK
<1>3. CASE u = t
  <2>1. owner[r] \in {None, t}
    BY <1>3 DEF LocalStep
  <2>2. RowHistory(On(Events(t), r), r) /\ RowValue(On(Events(t), r), r, View(t)[r])
    BY <2>1, LockableRow
  <2>3. View(t)[r] = draft[r]
    BY <2>1, LockableRow DEF View
  <2> QED
    BY <1>1, <1>3, <2>2, <2>3 DEF HeldOK
<1> QED
  BY <1>2, <1>3

(* What a local step of t must show.                                       *)
LEMMA LocalOK ==
    ASSUME HInv, IInv', NEW t \in Turns, LocalStep(t), pc[t] # "flushing", WorkOK(t)',
           pc'[t] = "flushing" =>
               \A x \in Tasks \cap work'[t].keys : saved[x] # Absent \/ owner'[x] = t,
           \A r \in Rows \ {Project} :
               draft'[r] # draft[r] => There(r, draft'[r]) /\ r \in PendingRows(t)',
           RowTypes(draft'), Summary'
    PROVE  HInv'
<1> USE Nobody, TasksAreRows
<1>1. /\ saved' = saved /\ log' = log /\ own' = own /\ clock' = clock /\ sharers' = sharers
      /\ \A u \in Turns : Events(u)' = Events(u)
  BY DEF LocalStep, Events
<1>2. Typed'
  <2>1. \A d \in Decisions : saved[d] # Absent => draft'[d] # Absent
    <3>1. \A d \in Decisions : d \in Rows \ {Project}
      BY WorldAssumption DEF Rows, Entities
    <3> QED
      BY <3>1 DEF HInv, Typed, There
  <2>2. \A r \in Rows : owner'[r] = None => draft'[r] = saved[r]
    BY DEF LocalStep, HInv, Typed
  <2>3. mode' = [u \in Turns |-> mode'[u]]
    BY DEF LocalStep
  <2> QED
    BY <1>1, <2>1, <2>2, <2>3 DEF Typed, HInv
<1>3. Sets'
  BY <1>1 DEF HInv, Sets, SetOK, DatesOK, Events
<1>4. Locks'
  BY LocalLocks
<1>5. Work'
  <2> SUFFICES ASSUME NEW u \in Turns PROVE WorkOK(u)'
    BY DEF Work
  <2>1. CASE u = t
    BY <2>1
  <2>2. CASE u # t
    <3>1. Keeps(u) /\ WorkOK(u)
      BY <2>2, LocalKeeps DEF HInv, Work
    <3> QED
      BY <3>1, KeepsWork
  <2> QED
    BY <2>1, <2>2
<1>6. Histories'
  BY LocalHistories
<1> QED
  BY <1>2, <1>3, <1>4, <1>5, <1>6 DEF HInv

(* How an action begins.                                                   *)
ModeStep(t) ==
    /\ mode' = [u \in Turns |-> mode'[u]]
    /\ \A u \in Turns \ {t} : mode'[u] = mode[u] /\ mode[u] # "exclusive"
    /\ mode'[t] # "none" /\ (mode[t] = "exclusive" => mode'[t] = "exclusive")
    /\ mode'[t] = "exclusive" => \A u \in Turns \ {t} : mode[u] = "none"

LEMMA BeginIs ==
    ASSUME HInv, NEW t \in Turns, NEW kind \in {"shared", "exclusive"}, Begin(t, kind)
    PROVE  ModeStep(t) /\ pc[t] = "idle" /\ (kind = "exclusive" => mode'[t] = "exclusive")
<1>1. /\ pc[t] = "idle" /\ mode' = [mode EXCEPT ![t] = IF @ = "exclusive" THEN @ ELSE kind]
      /\ \A u \in Turns \ {t} : mode[u] # "exclusive" /\ (kind = "exclusive" => mode[u] = "none")
  BY DEF Begin, Advisory
<1>2. mode = [u \in Turns |-> mode[u]]
  BY DEF HInv, Typed
<1>3. mode[t] = "exclusive" => \A u \in Turns \ {t} : mode[u] = "none"
  BY DEF HInv, Locks, Exclude
<1> QED
  BY <1>1, <1>2, <1>3 DEF ModeStep

(* The locks of an action that writes no summary.                          *)
Locked(t) ==
    \A r \in Rows : \/ owner'[r] = owner[r]
                    \/ /\ owner[r] = None /\ owner'[r] = t /\ r # Project
                       /\ \A u \in Turns \ {t} : r \notin sharers[u]

LEMMA LockedIs ==
    ASSUME HInv, NEW t \in Turns, NEW S \in SUBSET (Rows \ {Project}), LockRows(t, S)
    PROVE  Locked(t) /\ \A r \in S : owner[r] \in {None, t} /\ owner'[r] = t
BY DEF Locked, LockRows, CanLock

LEMMA WriteIs ==
    ASSUME IInv, NEW t \in Turns, NEW events, NEW keys, Write(t, events, keys)
    PROVE  /\ UNCHANGED <<saved, log, own, clock, sharers>>
           /\ pc'[t] = "flushing" /\ work'[t].events = events
           /\ work'[t].keys = keys \cup {events[i].on : i \in DOMAIN events}
           /\ OthersStay(t)
<1>1. /\ UNCHANGED <<saved, log, own, clock, sharers>>
      /\ pc' = [pc EXCEPT ![t] = "flushing"]
      /\ work' = [work EXCEPT ![t] = [work[t] EXCEPT !.events = events,
                      !.keys = keys \cup {events[i].on : i \in DOMAIN events}]]
  BY DEF Write, history, IInv, EInv
<1>2. DOMAIN work[t] = {"events", "keys", "undoes", "everywhere", "took"}
  BY DEF IInv, EInv
<1>3. work'[t] = [work[t] EXCEPT !.events = events,
                      !.keys = keys \cup {events[i].on : i \in DOMAIN events}]
  BY <1>1 DEF IInv, EInv
<1>4. pc'[t] = "flushing" /\ OthersStay(t)
  BY <1>1 DEF IInv, EInv, OthersStay
<1> QED
  BY <1>1, <1>2, <1>3, <1>4

(* The event of a change of a row that t sees.                             *)
LEMMA ChangedOK ==
    ASSUME HInv, NEW t \in Turns, pc[t] # "flushing", UNCHANGED <<log, own>>,
           NEW e, ShapeOK(e), ~Created(e), e.on \in work'[t].keys,
           Undone(e) =>
             /\ Target(t, e.reverses, e.on, e.everywhere)'
             /\ DOMAIN work'[t].events = {1}
             /\ \E d \in On(Events(t), e.row) :
                    d.at = e.reverses /\ d.kind = "changed" /\ d.on = e.on /\ d.old = e.new,
           owner[e.row] \in {None, t}, owner'[e.row] = t,
           There(e.row, View(t)[e.row]), DOMAIN e.old \subseteq DOMAIN View(t)[e.row],
           \A f \in DOMAIN e.old : e.old[f] = View(t)[e.row][f],
           There(e.row, draft'[e.row]), DOMAIN draft'[e.row] = DOMAIN View(t)[e.row],
           \A f \in DOMAIN View(t)[e.row] :
               draft'[e.row][f] = IF f \in DOMAIN e.new THEN e.new[f] ELSE View(t)[e.row][f]
    PROVE  PendingOK(t, e)'
<1> DEFINE S == On(Events(t), e.row)
<1>1. e.row \in Rows \ {Project}
  BY DEF ShapeOK
<1>2. RowValue(S, e.row, View(t)[e.row])
  BY <1>1, LockableRow
<1>3. \A f \in DOMAIN View(t)[e.row] : FieldIs(S, e.row, f, View(t)[e.row][f])
  BY <1>2 DEF RowValue
<1>4. On(Events(t)', e.row) = S
  BY DEF Events
<1>7. Undone(e) =>
        /\ Target(t, e.reverses, e.on, e.everywhere)'
        /\ DOMAIN work'[t].events = {1}
        /\ \E d \in S : d.at = e.reverses /\ d.kind = "changed" /\ d.on = e.on /\ d.old = e.new
  OBVIOUS
<1> HIDE DEF S
<1>5. \A f \in DOMAIN draft'[e.row] :
          IF f \in DOMAIN e.new THEN draft'[e.row][f] = e.new[f]
          ELSE FieldIs(S, e.row, f, draft'[e.row][f])
  BY <1>3
<1>6. \A f \in DOMAIN e.old : FieldIs(S, e.row, f, e.old[f])
  BY <1>3
<1> QED
  BY <1>4, <1>5, <1>6, <1>7 DEF PendingOK

(* The event of a row that was not there.                                  *)
LEMMA CreatedOK ==
    ASSUME HInv, NEW t \in Turns, pc[t] # "flushing", UNCHANGED <<log, own>>,
           NEW e, ShapeOK(e), Created(e), e.on \in work'[t].keys,
           e.row \in Tasks \cup Decisions, saved[e.row] = Absent, owner[e.row] = None,
           owner'[e.row] = t, draft'[e.row] = e.new, e.new # Absent
    PROVE  PendingOK(t, e)'
<1>1. e.row \in Rows \ {Project}
  BY DEF ShapeOK
<1>2. On(Events(t), e.row) = {}
  BY <1>1, LockableRow
<1>3. On(Events(t)', e.row) = {}
  BY <1>2 DEF Events
<1> QED
  BY <1>3 DEF PendingOK, Created, Undone, There

(* An action that has written rows and prepared their events.              *)
LEMMA WrittenH ==
    ASSUME HInv, IInv', NEW t \in Turns, ModeStep(t), pc[t] # "flushing", Locked(t),
           NEW events, NEW keys \in SUBSET Rows, Write(t, events, keys),
           Listed(events),
           \A i, j \in DOMAIN events : i # j => events[i].row # events[j].row,
           \A i \in DOMAIN events : PendingOK(t, events[i])',
           \A r \in Rows : draft'[r] # draft[r] =>
               There(r, draft'[r]) /\ \E i \in DOMAIN events : events[i].row = r,
           \A x \in Tasks \cap keys : saved[x] # Absent \/ owner'[x] = t,
           RowTypes(draft')
    PROVE  HInv'
<1> USE Nobody, TasksAreRows
<1>1. /\ UNCHANGED <<saved, log, own, clock, sharers>>
      /\ pc'[t] = "flushing" /\ work'[t].events = events
      /\ work'[t].keys = keys \cup {events[i].on : i \in DOMAIN events}
      /\ OthersStay(t)
  BY WriteIs DEF HInv
<1>2. \A i \in DOMAIN events :
         /\ events[i].row \in Rows \ {Project} /\ owner'[events[i].row] = t
         /\ events[i].on \in Rows
         /\ events[i].on \in Tasks => events[i].on = events[i].row
  BY WorldAssumption DEF PendingOK, ShapeOK
<1>3. \A r \in Rows : draft'[r] # draft[r] => r \in PendingRows(t)' /\ owner'[r] = t
  BY <1>1, <1>2 DEF PendingRows, Pending
<1>4. LocalStep(t)
  BY <1>1, <1>3 DEF LocalStep, ModeStep, Locked
<1>5. WorkOK(t)'
  BY <1>1, <1>2 DEF WorkOK, ModeStep
<1>6. \A x \in Tasks \cap work'[t].keys : saved[x] # Absent \/ owner'[x] = t
  BY <1>1, <1>2
<1>7. Summary'
  <2>1. draft'[Project] = draft[Project] /\ owner'[Project] = owner[Project]
    BY <1>2 DEF Locked
  <2> QED
    BY <1>1, <2>1 DEF HInv, Summary, SummaryCurrent, Events
<1> QED
  BY <1>3, <1>4, <1>5, <1>6, <1>7, LocalOK

(***************************************************************************)
(* One lemma per action that writes rows                                   *)
(***************************************************************************)

LEMMA Apart ==
    /\ \A x \in Tasks : x \in Rows \ {Project} /\ x \notin Criteria \cup Decisions /\ x # Goal
    /\ \A d \in Decisions : d \in Rows \ {Project} /\ d \notin Criteria /\ d # Goal
    /\ \A c \in Criteria : c \in Rows \ {Project} /\ c # Goal
    /\ Goal \in Rows \ {Project}
BY WorldAssumption DEF Rows, Entities

LEMMA DraftIs ==
    ASSUME HInv, NEW r \in Rows, NEW new, draft' = [draft EXCEPT ![r] = new]
    PROVE  draft'[r] = new /\ \A q \in Rows \ {r} : draft'[q] = draft[q]
BY DEF HInv, IInv, GInv, RowsOK

LEMMA TaskTypes ==
    ASSUME HInv, \A r \in Rows \ Tasks : draft'[r] = draft[r]
    PROVE  RowTypes(draft')
<1>1. RowTypes(draft)
  BY DEF HInv, Typed
<1> QED
  BY <1>1, Apart DEF RowTypes

(* An action that writes one row.                                          *)
LEMMA OneWrittenH ==
    ASSUME HInv, IInv', NEW t \in Turns, ModeStep(t), pc[t] # "flushing", Locked(t),
           NEW event, NEW keys \in SUBSET Rows, Write(t, <<event>>, keys),
           \A r \in Rows \ {event.row} : draft'[r] = draft[r], There(event.row, draft'[event.row]),
           event.on \in work'[t].keys => PendingOK(t, event)',
           \A x \in Tasks \cap keys : saved[x] # Absent \/ owner'[x] = t,
           RowTypes(draft')
    PROVE  HInv'
<1>0. PICK events : events = <<event>>
  OBVIOUS
<1>1. DOMAIN events = {1} /\ events[1] = event /\ Listed(events)
  BY <1>0 DEF Listed
<1>2. work'[t].keys = keys \cup {events[i].on : i \in DOMAIN events}
  BY <1>0, WriteIs DEF HInv
<1>3. PendingOK(t, event)'
  BY <1>1, <1>2
<1>4. \A r \in Rows : draft'[r] # draft[r] =>
          There(r, draft'[r]) /\ \E i \in DOMAIN events : events[i].row = r
  BY <1>1
<1>7. \A i, j \in DOMAIN events : i # j => events[i].row # events[j].row
  BY <1>1
<1>5. Write(t, events, keys)
  BY <1>0
<1>6. \A i \in DOMAIN events : PendingOK(t, events[i])'
  BY <1>1, <1>3
<1> QED
  BY <1>1, <1>4, <1>5, <1>6, <1>7, WrittenH

LEMMA CreateTaskH ==
    ASSUME HInv, IInv', NEW t \in Turns, NEW x \in Tasks, NEW row \in NewTasks,
           CreateTask(t, x, row)
    PROVE  HInv'
<1> USE Nobody, Apart
<1>1. PICK event : event = Event("recorded", x, x, Nothing, row)
  OBVIOUS
<1>0. PICK keys : keys = row.needs \cup ({row.parent} \ {None})
                          \cup (IF row.linked THEN {Goal} ELSE {})
  OBVIOUS
<1>2. /\ Begin(t, "shared") /\ saved[x] = Absent /\ owner[x] = None
      /\ row.needs \cup ({row.parent} \ {None}) \subseteq Visible(t)
      /\ owner' = [owner EXCEPT ![x] = t] /\ draft' = [draft EXCEPT ![x] = row]
      /\ Write(t, <<event>>, keys)
  BY <1>0, <1>1 DEF CreateTask
<1>3. row \in TaskRow
  BY WorldAssumption
<1>4. ModeStep(t) /\ pc[t] = "idle"
  BY <1>2, BeginIs
<1>5. Locked(t) /\ owner'[x] = t
  <2>1. \A u \in Turns \ {t} : x \notin sharers[u]
    BY <1>2 DEF HInv, Locks, KeysOK
  <2> QED
    BY <1>2, <2>1 DEF Locked, HInv, IInv, GInv, RowsOK
<1>6. ShapeOK(event) /\ Created(event) /\ event.on = x /\ event.row = x /\ event.new = row
  BY <1>1 DEF ShapeOK, Created, Event, Nothing, Undone
<1>7. keys \in SUBSET Rows /\ \A y \in Tasks \cap keys : saved[y] # Absent \/ owner'[y] = t
  <2>1. \A y \in Visible(t) : y \in Tasks /\ (saved[y] # Absent \/ owner[y] = t)
    BY DEF Visible, View
  <2> QED
    BY <1>0, <1>2, <1>3, <1>5, <2>1 DEF Locked, TaskRow
<1>8. /\ draft'[event.row] = row /\ row # Absent /\ There(event.row, row)
      /\ \A r \in Rows \ {event.row} : draft'[r] = draft[r]
  <2>1. draft'[x] = row /\ \A r \in Rows \ {x} : draft'[r] = draft[r]
    BY <1>2, DraftIs
  <2> QED
    BY <1>3, <1>6, <2>1 DEF There
<1>9. RowTypes(draft')
  BY <1>2, DraftIs, TaskTypes
<1>10. event.on \in work'[t].keys => PendingOK(t, event)'
  BY <1>2, <1>4, <1>5, <1>6, <1>8, CreatedOK DEF Write, history
<1> QED
  BY <1>2, <1>4, <1>5, <1>6, <1>7, <1>8, <1>9, <1>10, OneWrittenH

(* A change of fields that undo can put back.                              *)
LEMMA ChangeH ==
    ASSUME HInv, IInv', NEW t \in Turns, ModeStep(t), pc[t] # "flushing", Locked(t),
           NEW x \in Tasks \cup Criteria \cup {Goal}, owner[x] \in {None, t}, owner'[x] = t,
           There(x, View(t)[x]), FieldsOf(x) \subseteq DOMAIN View(t)[x],
           There(x, draft'[x]), NEW on, on = IF x \in Criteria THEN Goal ELSE x,
           NEW values, DOMAIN values \subseteq FieldsOf(x), NEW keys \in SUBSET Rows,
           \A y \in Tasks \cap keys : saved[y] # Absent \/ owner'[y] = t,
           RowTypes(draft'), Change(t, x, on, values, keys)
    PROVE  HInv'
<1> USE Apart
<1>1. PICK old : old = View(t)[x]
  OBVIOUS
<1>2. PICK changed : changed = {f \in DOMAIN values : values[f] # old[f]}
  OBVIOUS
<1>3. PICK new : new = [f \in DOMAIN old |-> IF f \in changed THEN values[f] ELSE old[f]]
  OBVIOUS
<1>4. PICK event : event = Event("changed", on, x, Pick(old, changed), Pick(values, changed))
  OBVIOUS
<1>5. draft' = [draft EXCEPT ![x] = new] /\ Write(t, <<event>>, keys)
  BY <1>1, <1>2, <1>3, <1>4 DEF Change
<1>6. draft'[x] = new /\ \A r \in Rows \ {x} : draft'[r] = draft[r]
  BY <1>5, DraftIs, ZenonT(30)
<1>7. /\ ShapeOK(event) /\ event.row = x /\ event.kind = "changed" /\ event.on = on
      /\ event.old = Pick(old, changed) /\ event.new = Pick(values, changed)
  <2>1. changed \subseteq FieldsOf(x)
    BY <1>2
  <2> QED
    BY <1>4, <2>1 DEF ShapeOK, Event, Pick, Undone
<1>8. event.on \in work'[t].keys => PendingOK(t, event)'
  <2>1. /\ DOMAIN event.old = changed /\ DOMAIN event.new = changed
        /\ \A f \in changed : event.old[f] = old[f] /\ event.new[f] = values[f]
    BY <1>7 DEF Pick
  <2>2. changed \subseteq DOMAIN old
    BY <1>1, <1>2
  <2>3. DOMAIN draft'[x] = DOMAIN old
        /\ \A f \in DOMAIN old : draft'[x][f] = IF f \in changed THEN values[f] ELSE old[f]
    BY <1>3, <1>6
  <2>4. ~Undone(event) /\ ~Created(event) /\ UNCHANGED <<log, own>>
    BY <1>5, <1>7 DEF Undone, Created, Write, history
  <2> HIDE <1>3, <1>4, <1>2
  <2> QED
    BY <1>1, <1>7, <2>1, <2>2, <2>3, <2>4, ChangedOK
<1>9. event.row \in Rows
  BY <1>7
<1> QED
  BY <1>5, <1>6, <1>7, <1>8, OneWrittenH

LEMMA UpdateTaskH ==
    ASSUME HInv, IInv', NEW t \in Turns, NEW x \in Tasks, NEW values \in TaskUpdates,
           UpdateTask(t, x, values)
    PROVE  HInv'
<1> USE Nobody, Apart
<1>0. PICK keys : keys = IF "parent" \in DOMAIN values THEN {values.parent} \ {None} ELSE {}
  OBVIOUS
<1>1. /\ Begin(t, "shared") /\ x \in Visible(t)
      /\ LockRows(t, IF "parent" \in DOMAIN values THEN Visible(t) ELSE {x})
      /\ "parent" \in DOMAIN values => ValidParent(View(t), x, values.parent)
      /\ Change(t, x, x, values, keys)
  BY <1>0 DEF UpdateTask
<1>2. ModeStep(t) /\ pc[t] = "idle"
  BY <1>1, BeginIs
<1>3. Locked(t) /\ owner[x] \in {None, t} /\ owner'[x] = t
  <2>1. (IF "parent" \in DOMAIN values THEN Visible(t) ELSE {x}) \in SUBSET (Rows \ {Project})
    BY DEF Visible
  <2> QED
    BY <1>1, <2>1, LockedIs
<1>4. View(t)[x] \in TaskRow
  <2>1. View(t)[x] \in TaskRow \cup {Absent}
    BY DEF View, HInv, IInv, GInv, RowsOK, TasksTyped
  <2> QED
    BY <1>1, <2>1 DEF Visible
<1>5. There(x, View(t)[x]) /\ FieldsOf(x) \subseteq DOMAIN View(t)[x]
  BY <1>4 DEF There, FieldsOf, TaskRow
<1>6. DOMAIN values \subseteq FieldsOf(x)
  BY WorldAssumption DEF FieldsOf
<1>7. keys \in SUBSET Rows /\ \A y \in Tasks \cap keys : saved[y] # Absent \/ owner'[y] = t
  <2>1. \A y \in keys : y \in Visible(t)
    BY <1>0, <1>1 DEF ValidParent, Visible
  <2>2. \A y \in Visible(t) : y \in Tasks /\ (saved[y] # Absent \/ owner[y] = t)
    BY DEF Visible, View
  <2> QED
    BY <1>3, <2>1, <2>2 DEF Locked
<1>8. There(x, draft'[x]) /\ \A r \in Rows \ {x} : draft'[r] = draft[r]
  <2>1. PICK old, changed :
           /\ old = View(t)[x] /\ changed = {f \in DOMAIN values : values[f] # old[f]}
    OBVIOUS
  <2>2. PICK new : new = [f \in DOMAIN old |-> IF f \in changed THEN values[f] ELSE old[f]]
    OBVIOUS
  <2>3. draft' = [draft EXCEPT ![x] = new]
    BY <1>1, <2>1, <2>2 DEF Change
  <2>4. draft'[x] = new /\ \A r \in Rows \ {x} : draft'[r] = draft[r]
    BY <2>3, DraftIs
  <2>5. new \in TaskRow
    <3>1. /\ changed \in SUBSET {"parent", "done"}
          /\ "parent" \in changed => values.parent \in Tasks \cup {None}
          /\ "done" \in changed => values.done \in BOOLEAN
      <4>1. \/ values \in [parent : Tasks \cup {None}]
            \/ values \in [done : BOOLEAN]
            \/ values \in [parent : Tasks \cup {None}, done : BOOLEAN]
        BY WorldAssumption
      <4> QED
        BY <2>1, <4>1
    <3>2. old \in TaskRow
      BY <1>4, <2>1
    <3> QED
      BY <2>2, <3>1, <3>2, FieldsReplaced
  <2> QED
    BY <2>4, <2>5 DEF There
<1>9. RowTypes(draft')
  BY <1>8, TaskTypes
<1> QED
  BY <1>1, <1>2, <1>3, <1>5, <1>6, <1>7, <1>8, <1>9, ChangeH

(* A change of the Goal or of a criterion.                                 *)
LEMMA ChangeElsewhereH ==
    ASSUME HInv, IInv', NEW t \in Turns, NEW x \in Criteria \cup {Goal}, Begin(t, "shared"),
           LockRows(t, {x}), NEW f, f = IF x = Goal THEN "done" ELSE "mark", NEW v,
           Change(t, x, Goal, Only(f, v), {})
    PROVE  HInv'
<1> USE Apart
<1>1. ModeStep(t) /\ pc[t] = "idle"
  BY BeginIs
<1>2. Locked(t) /\ owner[x] \in {None, t} /\ owner'[x] = t
  BY LockedIs
<1>3. DOMAIN View(t)[x] = {f} /\ FieldsOf(x) = {f} /\ DOMAIN Only(f, v) = {f}
  BY DEF View, HInv, Typed, RowTypes, FieldsOf, Only
<1>4. DOMAIN draft'[x] = DOMAIN View(t)[x] /\ \A r \in Rows \ {x} : draft'[r] = draft[r]
  <2>1. PICK old, changed :
           /\ old = View(t)[x] /\ changed = {g \in DOMAIN Only(f, v) : Only(f, v)[g] # old[g]}
    OBVIOUS
  <2>2. PICK new : new = [g \in DOMAIN old |-> IF g \in changed THEN Only(f, v)[g] ELSE old[g]]
    OBVIOUS
  <2>3. draft' = [draft EXCEPT ![x] = new]
    BY <2>1, <2>2 DEF Change
  <2>4. draft'[x] = new /\ \A r \in Rows \ {x} : draft'[r] = draft[r]
    BY <2>3, DraftIs
  <2> QED
    BY <2>1, <2>2, <2>4
<1>6. RowTypes(draft')
  <2>1. RowTypes(draft)
    BY DEF HInv, Typed
  <2> QED
    BY <1>3, <1>4, <2>1 DEF RowTypes
<1>7. There(x, View(t)[x]) /\ There(x, draft'[x])
  BY DEF There
<1> QED
  BY <1>1, <1>2, <1>3, <1>6, <1>7, ChangeH

(* An event of a Task or a Decision that undo cannot reverse.              *)
LEMMA RecordH ==
    ASSUME HInv, IInv', NEW t \in Turns, ModeStep(t), pc[t] # "flushing", Locked(t),
           NEW x \in Tasks \cup Decisions, owner[x] \in {None, t}, owner'[x] = t,
           There(x, View(t)[x]), NEW new, There(x, new), DOMAIN new = DOMAIN View(t)[x],
           NEW f \in DOMAIN new \ {"parent", "done", "mark"},
           \A g \in DOMAIN new \ {f} : new[g] = View(t)[x][g],
           draft' = [draft EXCEPT ![x] = new], NEW keys \in SUBSET Rows,
           \A y \in Tasks \cap keys : saved[y] # Absent \/ owner'[y] = t,
           Write(t, <<Event("recorded", x, x, Only(f, View(t)[x][f]), Only(f, new[f]))>>, keys),
           RowTypes(draft')
    PROVE  HInv'
<1> USE Apart
<1>1. PICK event : event = Event("recorded", x, x, Only(f, View(t)[x][f]), Only(f, new[f]))
  OBVIOUS
<1>2. /\ event.row = x /\ event.on = x /\ event.kind = "recorded" /\ event.reverses = 0
      /\ DOMAIN event.old = {f} /\ DOMAIN event.new = {f}
      /\ event.old[f] = View(t)[x][f] /\ event.new[f] = new[f]
      /\ DOMAIN event = {"at", "kind", "on", "row", "old", "new", "reverses", "everywhere"}
  BY <1>1 DEF Event, Only
<1>3. ShapeOK(event) /\ ~Undone(event) /\ ~Created(event)
  BY <1>2 DEF ShapeOK, Undone, Created
<1>4. draft'[x] = new /\ \A r \in Rows \ {x} : draft'[r] = draft[r]
  BY DraftIs
<1>8. There(event.row, draft'[event.row]) /\ \A r \in Rows \ {event.row} : draft'[r] = draft[r]
  BY <1>2, <1>4
<1>5. UNCHANGED <<log, own>> /\ Write(t, <<event>>, keys)
  BY <1>1 DEF Write, history
<1>6. \A g \in DOMAIN View(t)[x] :
         draft'[x][g] = IF g \in DOMAIN event.new THEN event.new[g] ELSE View(t)[x][g]
  BY <1>2, <1>4
<1>7. event.on \in work'[t].keys => PendingOK(t, event)'
  BY <1>2, <1>3, <1>4, <1>5, <1>6, ChangedOK
<1> QED
  BY <1>5, <1>7, <1>8, OneWrittenH

(* An action that changes nothing.                                         *)
LEMMA UnwrittenH ==
    ASSUME HInv, IInv', NEW t \in Turns, ModeStep(t), pc[t] = "idle", Locked(t), Unwritten
    PROVE  HInv'
<1> USE Nobody, TasksAreRows
<1>1. UNCHANGED <<saved, draft, log, own, clock, sharers, pc, work>>
  BY DEF Unwritten, rows, history
<1>2. LocalStep(t)
  BY <1>1 DEF LocalStep, ModeStep, Locked, OthersStay
<1>3. WorkOK(t)'
  BY <1>1 DEF WorkOK, ModeStep
<1>4. RowTypes(draft')
  BY <1>1 DEF HInv, Typed
<1>5. Summary'
  BY <1>1 DEF HInv, Summary, SummaryCurrent, Events, Locked
<1> QED
  BY <1>1, <1>2, <1>3, <1>4, <1>5, LocalOK

LEMMA LinkTaskGoalH ==
    ASSUME HInv, IInv', NEW t \in Turns, NEW x \in Tasks, LinkTaskGoal(t, x)
    PROVE  HInv'
<1> USE Nobody, Apart
<1>1. Begin(t, "shared") /\ x \in Visible(t) /\ LockRows(t, {x, Goal})
  BY DEF LinkTaskGoal
<1>2. ModeStep(t) /\ pc[t] = "idle"
  BY <1>1, BeginIs
<1>3. Locked(t) /\ owner[x] \in {None, t} /\ owner'[x] = t
  BY <1>1, LockedIs
<1>4. CASE Unwritten
  BY <1>2, <1>3, <1>4, UnwrittenH
<1>5. CASE ~Unwritten
  <2>1. PICK new : new = [View(t)[x] EXCEPT !.linked = TRUE]
    OBVIOUS
  <2>2. View(t)[x] \in TaskRow
    <3>1. View(t)[x] \in TaskRow \cup {Absent}
      BY DEF View, HInv, IInv, GInv, RowsOK, TasksTyped
    <3> QED
      BY <1>1, <3>1 DEF Visible
  <2>3. /\ new \in TaskRow /\ DOMAIN new = DOMAIN View(t)[x] /\ new.linked = TRUE
        /\ "linked" \in DOMAIN new \ {"parent", "done", "mark"}
        /\ \A g \in DOMAIN new \ {"linked"} : new[g] = View(t)[x][g]
    BY <2>1, <2>2 DEF TaskRow
  <2>4. View(t)[x].linked = FALSE /\ draft' = [draft EXCEPT ![x] = new]
    BY <1>5, <2>1, <2>2 DEF LinkTaskGoal, TaskRow
  <2>5. Write(t, <<Event("recorded", x, x, Only("linked", View(t)[x].linked),
                         Only("linked", new.linked))>>, {})
    BY <1>5, <2>3, <2>4 DEF LinkTaskGoal
  <2>6. There(x, View(t)[x]) /\ There(x, new)
    BY <2>2, <2>3 DEF There
  <2>7. RowTypes(draft')
    BY <2>4, DraftIs, TaskTypes
  <2>8. {} \in SUBSET Rows /\ \A y \in Tasks \cap {} : saved[y] # Absent \/ owner'[y] = t
    OBVIOUS
  <2> QED
    BY <1>2, <1>3, <2>3, <2>4, <2>5, <2>6, <2>7, <2>8, RecordH, ZenonT(60)
<1> QED
  BY <1>4, <1>5

LEMMA AddDependencyH ==
    ASSUME HInv, IInv', NEW t \in Turns, NEW p \in Tasks, NEW x \in Tasks, AddDependency(t, p, x)
    PROVE  HInv'
<1> USE Nobody, Apart
<1>1. Begin(t, "shared") /\ {p, x} \subseteq Visible(t) /\ LockRows(t, Visible(t))
  BY DEF AddDependency
<1>2. ModeStep(t) /\ pc[t] = "idle"
  BY <1>1, BeginIs
<1>3. Locked(t) /\ owner[x] \in {None, t} /\ owner'[x] = t
  <2>1. Visible(t) \in SUBSET (Rows \ {Project})
    BY DEF Visible
  <2> QED
    BY <1>1, <2>1, LockedIs
<1>4. CASE Unwritten
  BY <1>2, <1>3, <1>4, UnwrittenH
<1>5. CASE ~Unwritten
  <2>1. PICK new : new = [View(t)[x] EXCEPT !.needs = View(t)[x].needs \cup {p}]
    OBVIOUS
  <2>2. View(t)[x] \in TaskRow
    <3>1. View(t)[x] \in TaskRow \cup {Absent}
      BY DEF View, HInv, IInv, GInv, RowsOK, TasksTyped
    <3> QED
      BY <1>1, <3>1 DEF Visible
  <2>3. /\ new \in TaskRow /\ DOMAIN new = DOMAIN View(t)[x]
        /\ new.needs = View(t)[x].needs \cup {p}
        /\ "needs" \in DOMAIN new \ {"parent", "done", "mark"}
        /\ \A g \in DOMAIN new \ {"needs"} : new[g] = View(t)[x][g]
    BY <2>1, <2>2 DEF TaskRow
  <2>4. draft' = [draft EXCEPT ![x] = new]
    BY <1>5, <2>1 DEF AddDependency
  <2>5. Write(t, <<Event("recorded", x, x, Only("needs", View(t)[x].needs),
                         Only("needs", new.needs))>>, {p})
    BY <1>5, <2>3 DEF AddDependency
  <2>6. There(x, View(t)[x]) /\ There(x, new)
    BY <2>2, <2>3 DEF There
  <2>7. RowTypes(draft')
    BY <2>4, DraftIs, TaskTypes
  <2>8. {p} \in SUBSET Rows /\ \A y \in Tasks \cap {p} : saved[y] # Absent \/ owner'[y] = t
    BY <1>1, <1>3 DEF Visible, View, Locked
  <2> QED
    BY <1>2, <1>3, <2>3, <2>4, <2>5, <2>6, <2>7, <2>8, RecordH
<1> QED
  BY <1>4, <1>5

LEMMA DecisionTypes ==
    ASSUME HInv, \A r \in Rows \ Decisions : draft'[r] = draft[r],
           \A d \in Decisions : draft'[d] = draft[d] \/ draft'[d] \in DecisionRow
    PROVE  RowTypes(draft')
<1>1. RowTypes(draft)
  BY DEF HInv, Typed
<1> QED
  BY <1>1, Apart DEF RowTypes

LEMMA NewDecisionOK ==
    /\ NewDecision \in DecisionRow /\ Absent \notin DecisionRow
    /\ \A d \in Decisions : [NewDecision EXCEPT !.supersedes = d] \in DecisionRow
BY WorldAssumption DEF NewDecision, DecisionRow, Statuses

LEMMA CreateDecisionH ==
    ASSUME HInv, IInv', NEW t \in Turns, NEW d \in Decisions, CreateDecision(t, d)
    PROVE  HInv'
<1> USE Nobody, Apart
<1>1. PICK event : event = Event("recorded", d, d, Nothing, NewDecision)
  OBVIOUS
<1>2. /\ Begin(t, "shared") /\ saved[d] = Absent /\ owner[d] = None /\ LockRows(t, {d})
      /\ draft' = [draft EXCEPT ![d] = NewDecision] /\ Write(t, <<event>>, {})
  BY <1>1 DEF CreateDecision
<1>3. ModeStep(t) /\ pc[t] = "idle"
  BY <1>2, BeginIs
<1>4. Locked(t) /\ owner'[d] = t
  BY <1>2, LockedIs
<1>5. draft'[d] = NewDecision /\ \A r \in Rows \ {d} : draft'[r] = draft[r]
  BY <1>2, DraftIs
<1>6. /\ ShapeOK(event) /\ Created(event) /\ event.on = d /\ event.row = d
      /\ event.new = NewDecision
  BY <1>1 DEF ShapeOK, Created, Event, Nothing, Undone
<1>7. NewDecision \in DecisionRow /\ NewDecision # Absent
  BY NewDecisionOK
<1>8. RowTypes(draft')
  BY <1>5, <1>7, DecisionTypes
<1>9. There(event.row, draft'[event.row]) /\ \A r \in Rows \ {event.row} : draft'[r] = draft[r]
  BY <1>5, <1>6, <1>7 DEF There
<1>10. event.on \in work'[t].keys => PendingOK(t, event)'
  BY <1>2, <1>3, <1>4, <1>5, <1>6, <1>7, CreatedOK DEF Write, history
<1>11. {} \in SUBSET Rows /\ \A y \in Tasks \cap {} : saved[y] # Absent \/ owner'[y] = t
  OBVIOUS
<1> QED
  BY <1>2, <1>3, <1>4, <1>8, <1>9, <1>10, <1>11, OneWrittenH

LEMMA RevokeDecisionH ==
    ASSUME HInv, IInv', NEW t \in Turns, NEW d \in Decisions, RevokeDecision(t, d)
    PROVE  HInv'
<1> USE Nobody, Apart
<1>1. /\ Begin(t, "shared") /\ LockRows(t, {d}) /\ Revocable(t, d)
      /\ Write(t, <<Event("recorded", d, d, Only("status", "ACTIVE"),
                          Only("status", "REVOKED"))>>, {})
  BY DEF RevokeDecision
<1>2. ModeStep(t) /\ pc[t] = "idle"
  BY <1>1, BeginIs
<1>3. Locked(t) /\ owner[d] \in {None, t} /\ owner'[d] = t
  BY <1>1, LockedIs
<1>4. View(t)[d] \in DecisionRow /\ View(t)[d].status = "ACTIVE"
  BY <1>1 DEF Revocable, View, HInv, Typed, RowTypes
<1>5. PICK new : new = [View(t)[d] EXCEPT !.status = "REVOKED"]
  OBVIOUS
<1>6. /\ new \in DecisionRow /\ DOMAIN new = DOMAIN View(t)[d] /\ new.status = "REVOKED"
      /\ "status" \in DOMAIN new \ {"parent", "done", "mark"}
      /\ \A g \in DOMAIN new \ {"status"} : new[g] = View(t)[d][g]
  BY <1>4, <1>5 DEF DecisionRow, Statuses
<1>7. draft' = [draft EXCEPT ![d] = new]
  BY <1>5 DEF RevokeDecision
<1>8. draft'[d] = new /\ \A r \in Rows \ {d} : draft'[r] = draft[r]
  BY <1>7, DraftIs
<1>9. RowTypes(draft')
  BY <1>6, <1>8, DecisionTypes
<1>10. There(d, View(t)[d]) /\ There(d, new)
  BY <1>4, <1>6, NewDecisionOK DEF There
<1>11. {} \in SUBSET Rows /\ \A y \in Tasks \cap {} : saved[y] # Absent \/ owner'[y] = t
  OBVIOUS
<1>12. Write(t, <<Event("recorded", d, d, Only("status", View(t)[d].status),
                        Only("status", new.status))>>, {})
  BY <1>1, <1>4, <1>6
<1> QED
  BY <1>2, <1>3, <1>6, <1>7, <1>9, <1>10, <1>11, <1>12, RecordH

(* Two rows and two events.                                                *)
LEMMA SupersedeDecisionH ==
    ASSUME HInv, IInv', NEW t \in Turns, NEW d \in Decisions, NEW b \in Decisions,
           SupersedeDecision(t, d, b)
    PROVE  HInv'
<1> USE Nobody, Apart
<1>1. PICK row, first, second, gone :
        /\ row = [NewDecision EXCEPT !.supersedes = b]
        /\ first = Event("recorded", b, b, [status |-> "ACTIVE", successor |-> None],
                         [status |-> "SUPERSEDED", successor |-> d])
        /\ second = Event("recorded", d, d, Nothing, row)
        /\ gone = [View(t)[b] EXCEPT !.status = "SUPERSEDED", !.successor = d]
  OBVIOUS
<1>2. /\ Begin(t, "shared") /\ saved[d] = Absent /\ owner[d] = None /\ LockRows(t, {d, b})
      /\ Revocable(t, b) /\ draft' = [draft EXCEPT ![d] = row, ![b] = gone]
      /\ Write(t, <<first, second>>, {})
  BY <1>1 DEF SupersedeDecision
<1>3. ModeStep(t) /\ pc[t] = "idle"
  BY <1>2, BeginIs
<1>4. Locked(t) /\ owner[b] \in {None, t} /\ owner'[b] = t /\ owner'[d] = t
  BY <1>2, LockedIs
<1>5. /\ View(t)[b] \in DecisionRow /\ View(t)[b].status = "ACTIVE"
      /\ View(t)[b].successor = None /\ b # d
  <2>1. View(t)[d] = Absent
    BY <1>2 DEF View
  <2>2. View(t)[b] # Absent /\ View(t)[b].status = "ACTIVE" /\ View(t)[b].successor = None
    BY <1>2 DEF Revocable
  <2>3. View(t)[b] \in DecisionRow \cup {Absent}
    BY DEF View, HInv, Typed, RowTypes
  <2> QED
    BY <2>1, <2>2, <2>3
<1>6. draft'[d] = row /\ draft'[b] = gone /\ \A r \in Rows \ {d, b} : draft'[r] = draft[r]
  BY <1>2, <1>5 DEF HInv, IInv, GInv, RowsOK
<1>7. row \in DecisionRow /\ row # Absent
  BY <1>1, NewDecisionOK
<1>8. /\ gone \in DecisionRow /\ DOMAIN gone = DOMAIN View(t)[b]
      /\ gone.status = "SUPERSEDED" /\ gone.successor = d
      /\ {"status", "successor"} \subseteq DOMAIN View(t)[b]
      /\ \A g \in DOMAIN gone \ {"status", "successor"} : gone[g] = View(t)[b][g]
  BY <1>1, <1>5 DEF DecisionRow, Statuses
<1>9. RowTypes(draft')
  BY <1>6, <1>7, <1>8, DecisionTypes
<1>10. /\ first.row = b /\ first.on = b /\ first.kind = "recorded" /\ first.reverses = 0
       /\ DOMAIN first.old = {"status", "successor"} /\ DOMAIN first.new = {"status", "successor"}
       /\ first.old.status = "ACTIVE" /\ first.old.successor = None
       /\ first.new.status = "SUPERSEDED" /\ first.new.successor = d
       /\ DOMAIN first = {"at", "kind", "on", "row", "old", "new", "reverses", "everywhere"}
  BY <1>1 DEF Event
<1>11. ShapeOK(first) /\ ~Undone(first) /\ ~Created(first)
  BY <1>10 DEF ShapeOK, Undone, Created
<1>12. /\ ShapeOK(second) /\ Created(second) /\ second.on = d /\ second.row = d
       /\ second.new = row
  BY <1>1 DEF ShapeOK, Created, Event, Nothing, Undone
<1>13. PICK events : events = <<first, second>>
  OBVIOUS
<1>14. DOMAIN events = {1, 2} /\ events[1] = first /\ events[2] = second /\ Listed(events)
  <2>1. DOMAIN events = {1, 2} /\ events[1] = first /\ events[2] = second
    BY <1>13
  <2>2. first \in {events[i] : i \in DOMAIN events} /\ second \in {events[i] : i \in DOMAIN events}
    BY <2>1
  <2> QED
    BY <1>13, <2>1, <2>2 DEF Listed
<1>15. UNCHANGED <<log, own>> /\ first.on \in work'[t].keys /\ second.on \in work'[t].keys
  <2>1. work'[t].keys = {} \cup {events[i].on : i \in DOMAIN events}
    BY <1>2, <1>13, WriteIs DEF HInv
  <2> QED
    BY <1>2, <1>14, <2>1 DEF Write, history
<1>16. There(b, View(t)[b]) /\ There(b, gone) /\ There(d, row)
  BY <1>5, <1>7, <1>8, NewDecisionOK DEF There
<1>17. PendingOK(t, first)'
  <2>1. \A f \in DOMAIN first.old : first.old[f] = View(t)[b][f]
    BY <1>5, <1>10
  <2>2. \A f \in DOMAIN View(t)[b] :
           gone[f] = IF f \in DOMAIN first.new THEN first.new[f] ELSE View(t)[b][f]
    BY <1>8, <1>10
  <2> QED
    BY <1>3, <1>4, <1>6, <1>8, <1>10, <1>11, <1>15, <1>16, <2>1, <2>2, ChangedOK
<1>18. PendingOK(t, second)'
  BY <1>2, <1>3, <1>4, <1>6, <1>7, <1>12, <1>15, CreatedOK
<1>19. \A i \in DOMAIN events : PendingOK(t, events[i])'
  BY <1>14, <1>17, <1>18
<1>20. \A i, j \in DOMAIN events : i # j => events[i].row # events[j].row
  BY <1>5, <1>10, <1>12, <1>14
<1>21. \A r \in Rows : draft'[r] # draft[r] =>
           There(r, draft'[r]) /\ \E i \in DOMAIN events : events[i].row = r
  BY <1>6, <1>10, <1>12, <1>14, <1>16
<1>22. /\ {} \in SUBSET Rows /\ \A y \in Tasks \cap {} : saved[y] # Absent \/ owner'[y] = t
       /\ Write(t, events, {})
  BY <1>2, <1>13
<1> QED
  BY <1>3, <1>4, <1>9, <1>14, <1>19, <1>20, <1>21, <1>22, WrittenH

LEMMA CacheSummaryH ==
    ASSUME HInv, IInv', NEW t \in Turns, CacheSummary(t)
    PROVE  HInv'
<1> USE Nobody, TasksAreRows
<1>1. /\ Begin(t, "shared") /\ View(t)[Project] # Absent /\ LockRows(t, {Project})
      /\ draft' = [draft EXCEPT ![Project] = {e.at : e \in Events(t)}]
      /\ UNCHANGED <<saved, log, own, clock, sharers, pc, work>>
  BY DEF CacheSummary, history
<1>2. ModeStep(t) /\ pc[t] = "idle"
  BY <1>1, BeginIs
<1>3. draft'[Project] = {e.at : e \in Events(t)} /\ \A r \in Rows \ {Project} : draft'[r] = draft[r]
  BY <1>1, DraftIs
<1>4. /\ owner[Project] \in {None, t} /\ owner'[Project] = t
      /\ \A r \in Rows \ {Project} : owner'[r] = owner[r]
      /\ \A u \in Turns \ {t} : Project \notin sharers[u]
  BY <1>1 DEF LockRows, CanLock
<1>5. LocalStep(t)
  BY <1>1, <1>2, <1>3, <1>4 DEF LocalStep, ModeStep, OthersStay
<1>6. WorkOK(t)'
  BY <1>1, <1>2 DEF WorkOK, ModeStep
<1>7. RowTypes(draft')
  <2>1. RowTypes(draft)
    BY DEF HInv, Typed
  <2> QED
    BY <1>3, <2>1, Apart DEF RowTypes
<1>8. Summary'
  <2>1. saved[Project] # Absent
    BY <1>1 DEF View, HInv, Summary
  <2>2. \A u \in Turns : own[u] # {} => owner'[Project] = u
    BY <1>4, <2>1 DEF HInv, Summary
  <2>3. SummaryCurrent'
    BY <1>1 DEF HInv, Summary, SummaryCurrent
  <2> QED
    BY <1>1, <1>3, <1>4, <2>1, <2>2, <2>3 DEF Summary, Events
<1> QED
  BY <1>1, <1>2, <1>3, <1>5, <1>6, <1>7, <1>8, LocalOK

LEMMA RefusedH ==
    ASSUME HInv, IInv', NEW t \in Turns, Refused(t)
    PROVE  HInv'
<1>1. Begin(t, "shared") /\ UNCHANGED <<saved, draft, log, own, clock, owner, sharers, pc, work>>
  BY DEF Refused, rows, history
<1>2. ModeStep(t) /\ pc[t] = "idle"
  BY <1>1, BeginIs
<1>3. Locked(t)
  BY <1>1 DEF Locked
<1>4. Unwritten
  BY <1>1 DEF Unwritten, rows, history
<1> QED
  BY <1>2, <1>3, <1>4, UnwrittenH

LEMMA BeginUndoH ==
    ASSUME HInv, IInv', NEW t \in Turns, NEW x \in Tasks \cup {Goal}, NEW everywhere \in BOOLEAN,
           BeginUndo(t, x, everywhere)
    PROVE  HInv'
<1> USE Nobody, Apart
<1>1. PICK took : took = {x} \ {r \in Rows : owner[r] = t}
  OBVIOUS
<1>2. PICK e \in Newest({e \in Undoable(t) : e.on = x}) :
        /\ Begin(t, IF everywhere THEN "exclusive" ELSE "shared")
        /\ everywhere => \E d \in Newest(Undoable(t)) : d.on = x
        /\ View(t)[x] # Absent /\ LockRows(t, {x})
        /\ pc' = [pc EXCEPT ![t] = "undoing"]
        /\ work' = [work EXCEPT ![t].undoes = e, ![t].everywhere = everywhere, ![t].took = took]
        /\ UNCHANGED <<saved, draft, log, own, clock, sharers>>
  BY <1>1 DEF BeginUndo, rows, history
<1>3. ModeStep(t) /\ pc[t] = "idle" /\ (everywhere => mode'[t] = "exclusive")
  BY <1>2, BeginIs
<1>4. Locked(t) /\ owner[x] \in {None, t} /\ owner'[x] = t
  BY <1>2, LockedIs
<1>5. /\ work' = [work EXCEPT ![t] = [work[t] EXCEPT !.undoes = e, !.everywhere = everywhere,
                                                   !.took = took]]
      /\ DOMAIN work[t] = {"events", "keys", "undoes", "everywhere", "took"}
  BY <1>2 DEF HInv, IInv, EInv
<1>6. work'[t] = [work[t] EXCEPT !.undoes = e, !.everywhere = everywhere, !.took = took]
      /\ pc'[t] = "undoing" /\ OthersStay(t)
  BY <1>2, <1>5 DEF HInv, IInv, EInv, OthersStay
<1>7. work'[t].undoes = e /\ work'[t].everywhere = everywhere /\ work'[t].took = took
  BY <1>5, <1>6
<1>8. LocalStep(t)
  BY <1>2, <1>3, <1>4, <1>6 DEF LocalStep, ModeStep, Locked
<1>9. Undoable(t) = Reversible(Events(t)) /\ Events(t)' = Events(t)
  BY <1>2 DEF Undoable, Reversible, ReversedIn, Events
<1>10. e \in Reversible(Events(t)) /\ e.on = x
       /\ \A d \in Reversible(Events(t)) : d.on = x => d.at <= e.at
  BY <1>2, <1>9 DEF Newest
<1>11. Target(t, e.at, x, everywhere)'
  <2>1. \A d \in Reversible(Events(t)) : d.on = x \/ everywhere => d.at <= e.at
    <3>1. CASE ~everywhere
      BY <1>10, <3>1
    <3>2. CASE everywhere
      <4>1. PICK b \in Reversible(Events(t)) :
              b.on = x /\ \A d \in Reversible(Events(t)) : d.at <= b.at
        BY <1>2, <1>9, <3>2 DEF Newest
      <4>2. \A d \in Reversible(Events(t)) : d.at \in Nat
        BY DEF Reversible, HInv, Typed, Sets, SetOK, DatesOK
      <4>3. b.at <= e.at
        BY <1>10, <4>1
      <4> QED
        BY <1>10, <4>1, <4>2, <4>3
    <3> QED
      BY <3>1, <3>2
  <2> QED
    BY <1>3, <1>4, <1>9, <1>10, <2>1 DEF Target
<1>12. \A r \in took : /\ r \in Rows \ {Project}
                       /\ owner'[r] = t /\ draft[r] = saved[r] /\ (r \in Tasks => saved[r] # Absent)
                       /\ \A d \in own[t] : d.row # r /\ (Undone(d) => d.on # r)
  <2> SUFFICES ASSUME NEW r \in took PROVE
                       /\ r \in Rows \ {Project}
                       /\ owner'[r] = t /\ draft[r] = saved[r] /\ (r \in Tasks => saved[r] # Absent)
                       /\ \A d \in own[t] : d.row # r /\ (Undone(d) => d.on # r)
    OBVIOUS
  <2>1. r = x /\ owner[x] = None
    BY <1>1, <1>4
  <2>2. draft[x] = saved[x] /\ saved[x] # Absent
    BY <1>2, <2>1 DEF View, HInv, Typed
  <2>3. \A d \in own[t] : owner[d.row] = t /\ (Undone(d) => owner[d.on] = t)
    BY DEF HInv, Locks, OwnOK
  <2> QED
    BY <1>4, <2>1, <2>2, <2>3
<1>13. WorkOK(t)'
  <2>1. UndoOK(t, work[t].undoes)'
    BY <1>2, <1>7, <1>9, <1>10, <1>11, <1>12 DEF UndoOK
  <2> QED
    BY <1>3, <1>6, <2>1 DEF WorkOK, ModeStep
<1>14. RowTypes(draft')
  BY <1>2 DEF HInv, Typed
<1>15. Summary'
  <2>1. Project \in Rows /\ owner'[Project] = owner[Project]
    BY <1>4, TasksAreRows DEF Locked
  <2>2. Summary
    BY DEF HInv
  <2> QED
    BY <1>2, <1>9, <2>1, <2>2 DEF Summary, SummaryCurrent, Events
<1> QED
  BY <1>2, <1>3, <1>6, <1>8, <1>13, <1>14, <1>15, LocalOK

LEMMA RestoreH ==
    ASSUME HInv, IInv', NEW t \in Turns, Restore(t)
    PROVE  HInv'
<1> USE Nobody, Apart
<1>1. PICK e, old, keys : /\ e = work[t].undoes /\ old = View(t)[e.row]
                          /\ keys = IF "parent" \in DOMAIN e.old THEN {e.old.parent} \ {None} ELSE {}
  OBVIOUS
<1>2. PICK new, event :
        /\ new = [f \in DOMAIN old |-> IF f \in DOMAIN e.old THEN e.old[f] ELSE old[f]]
        /\ event = [Event("undone", e.on, e.row, Pick(old, DOMAIN e.old), e.old)
                       EXCEPT !.reverses = e.at, !.everywhere = work[t].everywhere]
  OBVIOUS
<1>3. /\ pc[t] = "undoing" /\ old # Absent /\ LockRows(t, {e.row})
      /\ "parent" \in DOMAIN e.old => ValidParent(View(t), e.row, e.old.parent)
      /\ draft' = [draft EXCEPT ![e.row] = new]
      /\ Write(t, <<event>>, keys) /\ mode' = mode
  BY <1>1, <1>2 DEF Restore
<1>4. UndoOK(t, e) /\ mode[t] # "none"
  BY <1>1, <1>3 DEF HInv, Work, WorkOK
<1>5. /\ ShapeOK(e) /\ e.kind = "changed" /\ e \in Events(t)
      /\ Target(t, e.at, e.on, work[t].everywhere)
  BY <1>4 DEF UndoOK, Reversible, HInv, Sets, SetOK, DatesOK
<1>6. /\ e.row \in Tasks \cup Criteria \cup {Goal} /\ DOMAIN e.old \subseteq FieldsOf(e.row)
      /\ e.row \in Rows \ {Project}
  BY <1>5 DEF ShapeOK
<1>7. ModeStep(t)
  BY <1>3, <1>4 DEF ModeStep, HInv, Typed, Locks, Exclude
<1>8. Locked(t) /\ owner[e.row] \in {None, t} /\ owner'[e.row] = t
  BY <1>3, <1>6, LockedIs
<1>9. draft'[e.row] = new /\ \A r \in Rows \ {e.row} : draft'[r] = draft[r]
  BY <1>3, <1>6, DraftIs
<1>10. e.row \in Tasks => old \in TaskRow
  <2>1. e.row \in Tasks => old \in TaskRow \cup {Absent}
    BY <1>1 DEF View, HInv, IInv, GInv, RowsOK, TasksTyped
  <2> QED
    BY <1>3, <2>1
<1>11. FieldsOf(e.row) \subseteq DOMAIN old
  <2>1. CASE e.row \in Tasks
    BY <1>10, <2>1 DEF FieldsOf, TaskRow
  <2>2. CASE e.row \in Criteria \cup {Goal}
    BY <1>1, <2>2 DEF FieldsOf, View, HInv, Typed, RowTypes
  <2> QED
    BY <1>6, <2>1, <2>2
<1>12. e.row \in Tasks => new \in TaskRow
  <2> SUFFICES ASSUME e.row \in Tasks PROVE new \in TaskRow
    OBVIOUS
  <2>1. e.old \in OldValues
    BY <1>1, <1>3, <1>5 DEF HInv, IInv, EInv, EventOK
  <2>2. /\ DOMAIN e.old \in SUBSET {"parent", "done"}
        /\ "parent" \in DOMAIN e.old => e.old.parent \in Tasks \cup {None}
        /\ "done" \in DOMAIN e.old => e.old.done \in BOOLEAN
    BY <2>1 DEF OldValues
  <2>3. old \in TaskRow
    BY <1>10
  <2> DEFINE S == DOMAIN e.old
             put == [f \in DOMAIN old |-> IF f \in S THEN e.old[f] ELSE old[f]]
  <2>4. put \in TaskRow
    <3>1. S \in SUBSET {"parent", "done"}
      BY <2>2
    <3> HIDE DEF S
    <3>2. /\ "parent" \in S => e.old.parent \in Tasks \cup {None}
          /\ "done" \in S => e.old.done \in BOOLEAN
      BY <2>2 DEF S
    <3> QED
      BY <2>3, <3>1, <3>2 DEF TaskRow
  <2> QED
    BY <1>2, <2>4
<1>13. There(e.row, old) /\ There(e.row, new)
  BY <1>3, <1>6, <1>12 DEF There
<1>14. RowTypes(draft')
  <2>1. RowTypes(draft) /\ RowTypes(saved)
    BY DEF HInv, Typed
  <2>2. DOMAIN new = DOMAIN old
    BY <1>2
  <2>3. \A c \in Criteria : c = e.row => DOMAIN old = {"mark"}
    BY <1>1, <2>1 DEF View, RowTypes
  <2>4. Goal = e.row => DOMAIN old = {"done"}
    BY <1>1, <2>1 DEF View, RowTypes
  <2>5. \A d \in Decisions : draft'[d] \in DecisionRow \cup {Absent}
    <3>1. \A d \in Decisions : draft'[d] = draft[d]
      BY <1>6, <1>9
    <3> QED
      BY <2>1, <3>1 DEF RowTypes
  <2>6. \A c \in Criteria : DOMAIN draft'[c] = {"mark"}
    BY <1>9, <2>1, <2>2, <2>3 DEF RowTypes
  <2>7. DOMAIN draft'[Goal] = {"done"}
    BY <1>9, <2>1, <2>2, <2>4 DEF RowTypes
  <2> QED
    BY <2>5, <2>6, <2>7 DEF RowTypes
<1>15. /\ event.row = e.row /\ event.on = e.on /\ event.kind = "undone" /\ event.reverses = e.at
       /\ event.everywhere = work[t].everywhere /\ event.new = e.old
       /\ event.old = Pick(old, DOMAIN e.old)
       /\ DOMAIN event = {"at", "kind", "on", "row", "old", "new", "reverses", "everywhere"}
  BY <1>2 DEF Event
<1>16. DOMAIN event.old = DOMAIN e.old /\ \A f \in DOMAIN event.old : event.old[f] = old[f]
  BY <1>15 DEF Pick
<1>17. ShapeOK(event) /\ Undone(event) /\ ~Created(event)
  BY <1>5, <1>6, <1>15, <1>16 DEF ShapeOK, Undone, Created
<1>18. keys \in SUBSET Rows /\ \A y \in Tasks \cap keys : saved[y] # Absent \/ owner'[y] = t
  <2>1. \A y \in keys : y \in Tasks /\ View(t)[y] # Absent
    BY <1>1, <1>3 DEF ValidParent
  <2> QED
    BY <1>8, <2>1 DEF Locked, View
<1>19. event.on \in work'[t].keys => PendingOK(t, event)'
  <2>1. work'[t].events = <<event>> /\ UNCHANGED <<log, own>>
    BY <1>3, WriteIs DEF HInv
  <2>2. DOMAIN work'[t].events = {1}
    BY <2>1
  <2>3. Target(t, event.reverses, event.on, event.everywhere)'
    <3>1. owner'[e.on] = t
      BY <1>5, <1>8 DEF Target, Locked
    <3>2. Events(t)' = Events(t)
      BY <2>1 DEF Events
    <3> QED
      BY <1>3, <1>5, <1>15, <3>1, <3>2 DEF Target
  <2>4. \E d \in On(Events(t), event.row) :
            d.at = event.reverses /\ d.kind = "changed" /\ d.on = event.on /\ d.old = event.new
    BY <1>5, <1>15 DEF On
  <2>5. DOMAIN event.old \subseteq DOMAIN View(t)[event.row]
        /\ \A f \in DOMAIN event.old : event.old[f] = View(t)[event.row][f]
    BY <1>1, <1>6, <1>11, <1>15, <1>16
  <2>6. /\ DOMAIN draft'[event.row] = DOMAIN View(t)[event.row]
        /\ \A f \in DOMAIN View(t)[event.row] :
               draft'[event.row][f] = IF f \in DOMAIN event.new THEN event.new[f]
                                      ELSE View(t)[event.row][f]
    <3>1. draft'[event.row] = new /\ View(t)[event.row] = old /\ event.new = e.old
      BY <1>1, <1>9, <1>15
    <3> QED
      BY <1>2, <3>1
  <2>7. There(event.row, View(t)[event.row]) /\ There(event.row, draft'[event.row])
    BY <1>1, <1>9, <1>13, <1>15
  <2>8. owner[event.row] \in {None, t} /\ owner'[event.row] = t /\ pc[t] # "flushing"
    BY <1>3, <1>8, <1>15
  <2> QED
    BY <1>17, <2>1, <2>2, <2>3, <2>4, <2>5, <2>6, <2>7, <2>8, ChangedOK
<1>20. There(event.row, draft'[event.row]) /\ \A r \in Rows \ {event.row} : draft'[r] = draft[r]
  BY <1>9, <1>13, <1>15
<1> QED
  BY <1>3, <1>7, <1>8, <1>14, <1>18, <1>19, <1>20, OneWrittenH

(***************************************************************************)
(* The other actions                                                       *)
(***************************************************************************)

(* What was locked and not written is as it was.                           *)
LEMMA RefuseUndoH ==
    ASSUME HInv, IInv', NEW t \in Turns, RefuseUndo(t)
    PROVE  HInv'
<1> USE Nobody, Apart, TasksAreRows
<1>1. PICK took : took = work[t].took
  OBVIOUS
<1>2. /\ pc[t] = "undoing" /\ UNCHANGED <<saved, draft, log, own, clock, sharers, mode>>
      /\ owner' = [r \in Rows |-> IF r \in took THEN None ELSE owner[r]]
      /\ pc' = [pc EXCEPT ![t] = "idle"] /\ work' = [work EXCEPT ![t] = NoWork]
  BY <1>1 DEF RefuseUndo, rows, history
<1>3. pc'[t] = "idle" /\ OthersStay(t)
  BY <1>2 DEF OthersStay, HInv, IInv, EInv
<1>4. \A r \in took : /\ r \in Rows \ {Project} /\ owner[r] = t /\ draft[r] = saved[r]
                      /\ r \in Tasks => saved[r] # Absent
                      /\ \A d \in own[t] : d.row # r /\ (Undone(d) => d.on # r)
  BY <1>1, <1>2 DEF HInv, Work, WorkOK, UndoOK
<1>5. /\ \A r \in Rows : owner'[r] # None => owner'[r] = owner[r]
      /\ \A r \in Rows : owner[r] # t => owner'[r] = owner[r]
      /\ owner'[Project] = owner[Project]
  BY <1>2, <1>4
<1>6. \A u \in Turns : Events(u)' = Events(u)
  BY <1>2 DEF Events
<1>7. Typed'
  <2>1. \A r \in Rows : owner'[r] = None => draft[r] = saved[r]
    BY <1>2, <1>4 DEF HInv, Typed
  <2>2. Typed
    BY DEF HInv
  <2> QED
    BY <1>2, <2>1, <2>2 DEF Typed
<1>8. Sets'
  BY <1>2, <1>6 DEF HInv, Sets, SetOK, DatesOK
<1>9. Locks'
  <2>1. ASSUME NEW u \in Turns
        PROVE  OwnOK(u)' /\ KeysOK(u)'
    <3>1. OwnOK(u) /\ KeysOK(u)
      BY DEF HInv, Locks
    <3>2. \A e \in own[u] : e.row \in Rows /\ (Undone(e) => e.on \in Rows)
      <4>1. \A e \in own[u] : ShapeOK(e)
        BY DEF HInv, Sets, SetOK, DatesOK, Events
      <4> QED
        BY <4>1 DEF ShapeOK
    <3>3. OwnOK(u)'
      <4>1. CASE u = t
        <5>1. \A e \in own[u] : e.row \notin took /\ (Undone(e) => e.on \notin took)
          BY <1>4, <4>1
        <5> QED
          BY <1>2, <3>1, <3>2, <5>1 DEF OwnOK
      <4>2. CASE u # t
        BY <1>2, <1>5, <3>1, <3>2, <4>2 DEF OwnOK
      <4> QED
        BY <4>1, <4>2
    <3>4. KeysOK(u)'
      <4>1. CASE u = t
        BY <1>2, <1>3, <1>4, <3>1, <4>1 DEF KeysOK
      <4>2. CASE u # t
        BY <1>2, <1>3, <1>5, <3>1, <4>2 DEF KeysOK, OthersStay
      <4> QED
        BY <4>1, <4>2
    <3> QED
      BY <3>3, <3>4
  <2>2. ASSUME NEW u \in Turns, NEW v \in Turns, u # v
        PROVE  Exclude(u, v)'
    <3>1. Exclude(u, v) /\ sharers[v] \subseteq Rows
      BY <2>2 DEF HInv, Locks, Typed
    <3> QED
      BY <1>2, <1>5, <3>1 DEF Exclude
  <2> QED
    BY <1>2, <2>1, <2>2 DEF Locks, HInv
<1>10. Work'
  <2> SUFFICES ASSUME NEW u \in Turns PROVE WorkOK(u)'
    BY DEF Work
  <2>1. CASE u = t
    BY <1>3, <2>1 DEF WorkOK
  <2>2. CASE u # t
    <3>1. \A r \in Rows : owner[r] = u =>
             owner'[r] = u /\ draft'[r] = draft[r] /\ saved'[r] = saved[r]
      BY <1>2, <1>5, <2>2
    <3>2. \A at, on, everywhere : Target(u, at, on, everywhere) => Target(u, at, on, everywhere)'
      BY <1>2, <1>6, <3>1 DEF Target
    <3>3. Keeps(u)
      BY <1>2, <1>3, <1>6, <2>2, <3>1, <3>2 DEF Keeps, OthersStay
    <3> QED
      BY <3>3, KeepsWork DEF HInv, Work
  <2> QED
    BY <2>1, <2>2
<1>11. Histories'
  <2>1. \A u \in Turns : PendingRows(u)' = PendingRows(u)
    BY <1>2, <1>3 DEF PendingRows, Pending, OthersStay
  <2>2. \A r \in Rows \ {Project} : \A u \in Turns : owner'[r] = u => HeldOK(u, r)
    BY <1>5 DEF HInv, Histories
  <2>3. \A r \in Rows \ {Project} : \A u \in Turns : owner'[r] = u => HeldOK(u, r)'
    BY <1>2, <1>6, <2>1, <2>2 DEF HeldOK
  <2> QED
    BY <1>2, <2>3 DEF HInv, Histories
<1>12. Summary'
  <2>1. Summary
    BY DEF HInv
  <2> QED
    BY <1>2, <1>5, <1>6, <2>1 DEF Summary, SummaryCurrent
<1> QED
  BY <1>7, <1>8, <1>9, <1>10, <1>11, <1>12 DEF HInv

LEMMA AbortH ==
    ASSUME HInv, IInv', NEW t \in Turns, Abort(t)
    PROVE  HInv'
<1> USE Nobody, Apart, TasksAreRows
<1>1. /\ draft' = [r \in Rows |-> IF owner[r] = t THEN saved[r] ELSE draft[r]]
      /\ owner' = [r \in Rows |-> IF owner[r] = t THEN None ELSE owner[r]]
      /\ sharers' = [sharers EXCEPT ![t] = {}] /\ mode' = [mode EXCEPT ![t] = "none"]
      /\ own' = [own EXCEPT ![t] = {}]
      /\ pc' = [pc EXCEPT ![t] = "idle"] /\ work' = [work EXCEPT ![t] = NoWork]
      /\ UNCHANGED <<saved, log, clock>>
  BY DEF Abort, Release
<1>2. /\ pc'[t] = "idle" /\ OthersStay(t) /\ own'[t] = {} /\ sharers'[t] = {} /\ mode'[t] = "none"
      /\ \A u \in Turns \ {t} : own'[u] = own[u] /\ sharers'[u] = sharers[u] /\ mode'[u] = mode[u]
      /\ sharers' \in [Turns -> SUBSET Rows] /\ mode' = [u \in Turns |-> mode'[u]]
  BY <1>1 DEF OthersStay, HInv, IInv, EInv, Typed
<1>3. /\ \A r \in Rows : owner'[r] # t
      /\ \A r \in Rows : owner'[r] # None => owner'[r] = owner[r] /\ draft'[r] = draft[r]
      /\ \A r \in Rows : \A u \in Turns \ {t} : owner[r] = u => owner'[r] = u /\ draft'[r] = draft[r]
  BY <1>1 DEF HInv, IInv, GInv, RowsOK
<1>4. Events(t)' = log /\ \A u \in Turns \ {t} : Events(u)' = Events(u)
  BY <1>1, <1>2 DEF Events
<1>5. Typed'
  <2>1. Typed
    BY DEF HInv
  <2>2. \A r \in Rows : draft'[r] \in {draft[r], saved[r]}
        /\ (owner'[r] = None => draft'[r] = saved[r])
    BY <1>1, <2>1 DEF Typed
  <2>3. RowTypes(draft')
    BY <2>1, <2>2 DEF Typed, RowTypes
  <2>4. \A d \in Decisions : saved[d] # Absent => draft'[d] # Absent
    BY <2>1, <2>2 DEF Typed
  <2> QED
    BY <1>1, <1>2, <2>1, <2>2, <2>3, <2>4 DEF Typed
<1>6. Sets'
  <2>1. Sets
    BY DEF HInv
  <2>2. SetOK(log)' /\ \A u \in Turns : SetOK(Events(u))'
    BY <1>1, <1>4, <2>1 DEF Sets, SetOK, DatesOK
  <2>3. \A u, v \in Turns : u # v => \A e \in own'[u], d \in own'[v] : e.at # d.at
    BY <1>2, <2>1 DEF Sets
  <2>4. \A u \in Turns : \A e \in own'[u], d \in log' : d.row = e.row => d.at < e.at
    BY <1>1, <1>2, <2>1 DEF Sets
  <2> QED
    BY <2>2, <2>3, <2>4 DEF Sets
<1>7. Locks'
  <2>1. ASSUME NEW u \in Turns
        PROVE  OwnOK(u)' /\ KeysOK(u)'
    <3>1. OwnOK(u) /\ KeysOK(u)
      BY DEF HInv, Locks
    <3>2. \A e \in own[u] : e.row \in Rows /\ (Undone(e) => e.on \in Rows)
      <4>1. \A e \in own[u] : ShapeOK(e)
        BY DEF HInv, Sets, SetOK, DatesOK, Events
      <4> QED
        BY <4>1 DEF ShapeOK
    <3>3. CASE u = t
      BY <1>2, <3>3 DEF OwnOK, KeysOK
    <3>4. CASE u # t
      <4>1. OwnOK(u)'
        BY <1>2, <1>3, <3>1, <3>2, <3>4 DEF OwnOK
      <4>2. KeysOK(u)'
        BY <1>1, <1>2, <1>3, <3>1, <3>4 DEF KeysOK, OthersStay
      <4> QED
        BY <4>1, <4>2
    <3> QED
      BY <3>3, <3>4
  <2>2. ASSUME NEW u \in Turns, NEW v \in Turns, u # v
        PROVE  Exclude(u, v)'
    <3>1. Exclude(u, v) /\ sharers[v] \subseteq Rows
      BY <2>2 DEF HInv, Locks, Typed
    <3> QED
      BY <1>2, <1>3, <3>1 DEF Exclude
  <2> QED
    BY <1>1, <2>1, <2>2 DEF Locks, HInv
<1>8. Work'
  <2> SUFFICES ASSUME NEW u \in Turns PROVE WorkOK(u)'
    BY DEF Work
  <2>1. CASE u = t
    BY <1>2, <2>1 DEF WorkOK
  <2>2. CASE u # t
    <3>1. \A r \in Rows : owner[r] = u =>
             owner'[r] = u /\ draft'[r] = draft[r] /\ saved'[r] = saved[r]
      BY <1>1, <1>3, <2>2
    <3>2. \A at, on, everywhere : Target(u, at, on, everywhere) => Target(u, at, on, everywhere)'
      BY <1>2, <1>4, <2>2, <3>1 DEF Target
    <3>3. Keeps(u)
      BY <1>2, <1>4, <2>2, <3>1, <3>2 DEF Keeps, OthersStay
    <3> QED
      BY <3>3, KeepsWork DEF HInv, Work
  <2> QED
    BY <2>1, <2>2
<1>9. Histories'
  <2>1. ASSUME NEW r \in Rows \ {Project}, NEW u \in Turns, owner'[r] = u
        PROVE  HeldOK(u, r)'
    <3>1. u # t /\ owner[r] = u /\ draft'[r] = draft[r]
      BY <1>3, <2>1
    <3>2. HeldOK(u, r)
      BY <3>1 DEF HInv, Histories
    <3>3. PendingRows(u)' = PendingRows(u)
      BY <1>2, <3>1 DEF PendingRows, Pending, OthersStay
    <3> QED
      BY <1>4, <3>1, <3>2, <3>3 DEF HeldOK
  <2> QED
    BY <1>1, <2>1 DEF HInv, Histories
<1>10. Summary'
  <2>1. Summary
    BY DEF HInv
  <2>2. owner'[Project] # None => owner'[Project] = owner[Project] /\ draft'[Project] = draft[Project]
    BY <1>3
  <2>3. \A u \in Turns : own'[u] # {} => owner'[Project] = u \/ saved'[Project] = Absent
    BY <1>1, <1>2, <1>3, <2>1 DEF Summary
  <2>4. \A u \in Turns : owner'[Project] = u => u # t /\ owner[Project] = u /\ Events(u)' = Events(u)
    BY <1>3, <1>4
  <2>5. saved'[Project] = Absent => owner'[Project] = None
    BY <1>1, <2>1 DEF Summary
  <2>6. SummaryCurrent'
    BY <1>1, <2>1 DEF Summary, SummaryCurrent
  <2> QED
    BY <2>1, <2>2, <2>3, <2>4, <2>5, <2>6 DEF Summary
<1> QED
  BY <1>5, <1>6, <1>7, <1>8, <1>9, <1>10 DEF HInv

(***************************************************************************)
(* Flush                                                                   *)
(***************************************************************************)

LEMMA StampedOK ==
    ASSUME NEW t, NEW e, PendingOK(t, e), NEW n
    PROVE  PendingOK(t, [e EXCEPT !.at = n])
<1>1. DOMAIN e = {"at", "kind", "on", "row", "old", "new", "reverses", "everywhere"}
  BY DEF PendingOK, ShapeOK
<1>2. PICK d : d = [e EXCEPT !.at = n]
  OBVIOUS
<1>3. /\ d.kind = e.kind /\ d.on = e.on /\ d.row = e.row /\ d.old = e.old /\ d.new = e.new
      /\ d.reverses = e.reverses /\ d.everywhere = e.everywhere /\ DOMAIN d = DOMAIN e
  BY <1>1, <1>2
<1>4. ShapeOK(d)
  BY <1>3 DEF PendingOK, ShapeOK, Undone
<1>5. (Undone(d) <=> Undone(e)) /\ (Created(d) <=> Created(e))
  BY <1>3 DEF Undone, Created
<1>6. PendingOK(t, d)
  BY <1>3, <1>4, <1>5 DEF PendingOK
<1> QED
  BY <1>2, <1>6

Stamped(t) == {[work[t].events[i] EXCEPT !.at = clock + i] : i \in DOMAIN work[t].events}

LEMMA Stamps ==
    ASSUME HInv, NEW t \in Turns, pc[t] = "flushing"
    PROVE  /\ Len(work[t].events) \in Nat
           /\ \A e \in Stamped(t) :
                /\ PendingOK(t, e) /\ e.at \in Nat /\ clock < e.at
                /\ e.at <= clock + Len(work[t].events)
           /\ \A e, d \in Stamped(t) : e.at = d.at \/ e.row = d.row => e = d
           /\ \A e \in Stamped(t) : Undone(e) => Stamped(t) = {e}
           /\ \A r : r \in PendingRows(t) <=> \E e \in Stamped(t) : e.row = r
<1>1. PICK events : events = work[t].events
  OBVIOUS
<1>2. /\ \A i \in DOMAIN events : PendingOK(t, events[i])
      /\ \A i, j \in DOMAIN events : i # j => events[i].row # events[j].row
      /\ Listed(events)
  BY <1>1 DEF HInv, Work, WorkOK
<1>3. Len(events) \in Nat /\ DOMAIN events = 1 .. Len(events)
  BY <1>2 DEF Listed
<1>4. clock \in Nat
  BY DEF HInv, Typed
<1>5. ASSUME NEW i \in DOMAIN events, NEW e, e = [events[i] EXCEPT !.at = clock + i]
      PROVE  /\ PendingOK(t, e) /\ e.at = clock + i /\ e.row = events[i].row
             /\ Undone(e) => DOMAIN events = {1}
  <2>1. PendingOK(t, events[i]) /\ PendingOK(t, e)
    BY <1>2, <1>5, StampedOK
  <2>2. DOMAIN events[i] = {"at", "kind", "on", "row", "old", "new", "reverses", "everywhere"}
    BY <2>1 DEF PendingOK, ShapeOK
  <2>3. e.at = clock + i /\ e.row = events[i].row
    BY <1>5, <2>2
  <2> QED
    BY <1>1, <2>1, <2>3 DEF PendingOK
<1>6. \A e : e \in Stamped(t) <=> \E i \in DOMAIN events : e = [events[i] EXCEPT !.at = clock + i]
  BY <1>1 DEF Stamped
<1>7. \A e \in Stamped(t) :
        /\ PendingOK(t, e) /\ e.at \in Nat /\ clock < e.at /\ e.at <= clock + Len(events)
  BY <1>3, <1>4, <1>5, <1>6
<1>8. \A e, d \in Stamped(t) : e.at = d.at \/ e.row = d.row => e = d
  <2> SUFFICES ASSUME NEW e \in Stamped(t), NEW d \in Stamped(t), e.at = d.at \/ e.row = d.row
               PROVE  e = d
    OBVIOUS
  <2>1. PICK i \in DOMAIN events : e = [events[i] EXCEPT !.at = clock + i]
    BY <1>6
  <2>2. PICK j \in DOMAIN events : d = [events[j] EXCEPT !.at = clock + j]
    BY <1>6
  <2>3. /\ e.at = clock + i /\ e.row = events[i].row
        /\ d.at = clock + j /\ d.row = events[j].row
    BY <1>5, <2>1, <2>2
  <2>4. i = j
    BY <1>2, <1>3, <1>4, <2>3
  <2> QED
    BY <2>1, <2>2, <2>4
<1>9. ASSUME NEW e \in Stamped(t), Undone(e)
      PROVE  Stamped(t) = {e}
  <2>1. PICK i \in DOMAIN events : e = [events[i] EXCEPT !.at = clock + i]
    BY <1>6
  <2>2. DOMAIN events = {1}
    BY <1>5, <1>9, <2>1
  <2>3. \A d \in Stamped(t) : d = e
    BY <1>6, <2>1, <2>2
  <2> QED
    BY <2>3
<1>10. ASSUME NEW r
       PROVE  r \in PendingRows(t) <=> \E e \in Stamped(t) : e.row = r
  <2>1. r \in PendingRows(t) <=> \E i \in DOMAIN events : events[i].row = r
    BY <1>1 DEF PendingRows, Pending
  <2>2. ASSUME NEW i \in DOMAIN events
        PROVE  \E e \in Stamped(t) : e.row = events[i].row
    <3>1. PICK e : e = [events[i] EXCEPT !.at = clock + i]
      OBVIOUS
    <3> QED
      BY <1>5, <1>6, <3>1
  <2>3. ASSUME NEW e \in Stamped(t)
        PROVE  \E i \in DOMAIN events : events[i].row = e.row
    BY <1>5, <1>6
  <2> QED
    BY <2>1, <2>2, <2>3
<1> QED
  BY <1>1, <1>3, <1>7, <1>8, <1>9, <1>10

(* Dates of what is seen are in the past.                                  *)
LEMMA PastDates ==
    ASSUME HInv, NEW t \in Turns, NEW d \in Events(t)
    PROVE  /\ d.at \in Nat \ {0} /\ d.at <= clock /\ ShapeOK(d)
           /\ d.reverses # 0 => Undone(d)
           /\ d.reverses \in Nat /\ d.reverses <= clock
<1>1. SetOK(Events(t)) /\ clock \in Nat
  BY DEF HInv, Sets, Typed
<1>2. \A e \in Events(t) : ShapeOK(e) /\ e.at \in Nat \ {0} /\ e.at <= clock
  BY <1>1 DEF SetOK, DatesOK
<1>3. ~Undone(d) => d.reverses = 0
  BY <1>2 DEF ShapeOK
<1>4. Undone(d) => d.reverses \in Nat /\ d.reverses <= clock
  BY <1>1, <1>2 DEF SetOK, ReversesOK
<1> QED
  BY <1>1, <1>2, <1>3, <1>4

LEMMA FlushRow ==
    ASSUME HInv, NEW t \in Turns, pc[t] = "flushing", NEW e \in Stamped(t)
    PROVE  LET S == On(Events(t), e.row)
           IN  RowHistory(S \cup {e}, e.row) /\ RowValue(S \cup {e}, e.row, draft[e.row])
<1> DEFINE r == e.row
           S == On(Events(t), r)
<1>1. PendingOK(t, e) /\ e.at \in Nat /\ clock < e.at
  BY Stamps
<1>2. r \in Rows \ {Project} /\ owner[r] = t /\ ShapeOK(e)
  BY <1>1 DEF PendingOK, ShapeOK
<1>3. RowHistory(S, r)
  BY <1>2 DEF HInv, Histories, HeldOK
<1>4. \A d \in S : d \in Events(t) /\ d.row = r
  BY DEF On
<1>5. clock \in Nat
  BY DEF HInv, Typed
<1>6. Newer(S, e)
  BY <1>1, <1>4, <1>5, PastDates DEF Newer
<1>7. Leaves(S, e, r, draft[r])
  BY <1>1 DEF PendingOK, Leaves
<1>8. \A f \in DOMAIN e.old : FieldIs(S, r, f, e.old[f])
  BY <1>1 DEF PendingOK
<1>9. CASE ~Undone(e)
  <2>1. e.reverses = 0
    BY <1>2, <1>9 DEF ShapeOK
  <2>2. Created(e) => S = {}
    BY <1>1 DEF PendingOK
  <2> HIDE DEF S, r
  <2>3. RowHistory(S \cup {e}, r) /\ RowValue(S \cup {e}, r, draft[r])
    BY <1>3, <1>6, <1>7, <1>8, <1>9, <2>1, <2>2, AppendPlain
  <2> QED
    BY <2>3 DEF S, r
<1>10. CASE Undone(e)
  <2>1. PICK d \in S : d.at = e.reverses /\ d.kind = "changed" /\ d.on = e.on /\ d.old = e.new
    BY <1>1, <1>10 DEF PendingOK
  <2>2. Target(t, e.reverses, e.on, e.everywhere) /\ SetOK(Events(t))
    BY <1>1, <1>10 DEF PendingOK, HInv, Sets
  <2>3. d \in Reversible(Events(t))
    <3>1. PICK b \in Reversible(Events(t)) : b.at = e.reverses
      BY <2>2 DEF Target
    <3>2. b = d
      BY <1>4, <2>1, <2>2, <3>1 DEF SetOK, DatesOK, Reversible
    <3> QED
      BY <3>1, <3>2
  <2>4. \A b \in S : ReversedIn(S, b) <=> ReversedIn(Events(t), b)
    BY <1>5, <2>2, ReversedOnRow
  <2>5. d \in Reversible(S)
    BY <2>1, <2>3, <2>4 DEF Reversible
  <2>6. \A b \in Reversible(S) : b.at <= d.at
    <3> SUFFICES ASSUME NEW b \in Reversible(S) PROVE b.at <= d.at
      OBVIOUS
    <3>1. b \in S /\ b \in Reversible(Events(t))
      BY <1>4, <2>4 DEF Reversible
    <3>2. b.on = d.on
      <4>1. ShapeOK(b) /\ ShapeOK(d) /\ b.row = d.row
        BY <1>4, <2>1, <3>1, PastDates
      <4> QED
        BY <4>1 DEF ShapeOK
    <3> QED
      BY <2>1, <2>2, <3>1, <3>2 DEF Target
  <2>7. \A b \in S : ShapeOK(b) /\ b.row = r
    BY <1>4, PastDates
  <2>8. \A b, c \in S : b.at = c.at => b = c
    BY <1>4, <2>2 DEF SetOK, DatesOK
  <2>9. DOMAIN e.new = DOMAIN d.old /\ e.new = d.old /\ e.reverses = d.at
    BY <2>1
  <2> HIDE DEF S, r
  <2>10. RowHistory(S \cup {e}, r) /\ RowValue(S \cup {e}, r, draft[r])
    BY <1>3, <1>6, <1>7, <1>8, <1>10, <2>1, <2>5, <2>6, <2>7, <2>8, <2>9, AppendUndo
  <2> QED
    BY <2>10 DEF S, r
<1> QED
  BY <1>9, <1>10

(* The history with the new events.                                        *)
LEMMA FlushSet ==
    ASSUME HInv, NEW t \in Turns, pc[t] = "flushing", NEW N, N = Stamped(t),
           clock' = clock + Len(work[t].events)
    PROVE  /\ clock' \in Nat /\ clock <= clock'
           /\ \A e \in Events(t) \cup N : ShapeOK(e) /\ e.at \in 1 .. clock'
           /\ \A e, d \in Events(t) \cup N : e.at = d.at => e = d
           /\ ReversesOK(Events(t) \cup N) /\ LastOK(Events(t) \cup N)
<1> DEFINE E == Events(t)
<1>1. /\ clock \in Nat /\ Len(work[t].events) \in Nat
      /\ \A e \in N : PendingOK(t, e) /\ e.at \in Nat /\ clock < e.at /\ e.at <= clock'
      /\ \A e, d \in N : e.at = d.at => e = d
      /\ \A e \in N : Undone(e) => N = {e}
  BY Stamps DEF HInv, Typed
<1>2. \A d \in E : /\ d.at \in Nat \ {0} /\ d.at <= clock /\ ShapeOK(d)
                   /\ d.reverses # 0 => Undone(d)
                   /\ d.reverses \in Nat /\ d.reverses <= clock
  BY PastDates
<1>3. SetOK(E)
  BY DEF HInv, Sets
<1>4. \A e \in N : ShapeOK(e) /\ (e.reverses # 0 => Undone(e))
  BY <1>1 DEF PendingOK, ShapeOK
<1>5. clock' \in Nat /\ clock <= clock'
  BY <1>1
<1>6. \A e \in E \cup N : ShapeOK(e) /\ e.at \in 1 .. clock'
  BY <1>1, <1>2, <1>4, <1>5
<1>7. \A e, d \in E \cup N : e.at = d.at => e = d
  BY <1>1, <1>2, <1>3 DEF SetOK, DatesOK
<1>8. ReversesOK(E \cup N)
  <2> SUFFICES ASSUME NEW v \in E \cup N, Undone(v)
               PROVE  \E e \in E \cup N : /\ e.at = v.reverses /\ e.kind = "changed"
                                          /\ e.on = v.on /\ e.row = v.row /\ e.at < v.at
    BY DEF ReversesOK
  <2>1. CASE v \in E
    BY <1>3, <2>1 DEF SetOK, ReversesOK
  <2>2. CASE v \in N
    <3>1. PICK d \in On(E, v.row) : d.at = v.reverses /\ d.kind = "changed" /\ d.on = v.on
      BY <1>1, <2>2 DEF PendingOK
    <3>2. d \in E /\ d.row = v.row
      BY DEF On
    <3> QED
      BY <1>1, <1>2, <2>2, <3>1, <3>2
  <2> QED
    BY <2>1, <2>2
<1>9. \A u \in N : Undone(u) => Target(t, u.reverses, u.on, u.everywhere)
  BY <1>1 DEF PendingOK
<1>10. ASSUME NEW u \in E \cup N, NEW e \in E \cup N, Undone(u), e.kind = "changed",
              u.reverses < e.at, e.at < u.at, u.everywhere \/ e.on = u.on
       PROVE  \E v \in E \cup N : v.reverses = e.at /\ v.at < u.at
  <2>1. CASE u \in E
    <3>1. e \in E
      BY <1>1, <1>2, <1>10, <2>1
    <3> QED
      BY <1>3, <1>10, <2>1, <3>1 DEF SetOK, LastOK
  <2>2. CASE u \in N
    <3>1. e \in E
      BY <1>1, <1>10, <2>2 DEF Undone
    <3>2. ReversedIn(E, e)
      <4> SUFFICES ASSUME e \in Reversible(E) PROVE FALSE
        BY <1>10, <3>1 DEF Reversible
      <4>1. Target(t, u.reverses, u.on, u.everywhere)
        BY <1>9, <1>10, <2>2
      <4>2. e.at <= u.reverses
        BY <1>10, <4>1 DEF Target
      <4>3. u.reverses \in Nat
        <5>1. PICK d \in On(E, u.row) : d.at = u.reverses
          BY <1>1, <1>10, <2>2 DEF PendingOK
        <5> QED
          BY <1>2, <5>1 DEF On
      <4> QED
        BY <1>2, <1>10, <3>1, <4>2, <4>3
    <3> QED
      BY <1>1, <1>2, <2>2, <3>2 DEF ReversedIn
  <2> QED
    BY <2>1, <2>2
<1>11. ASSUME NEW u \in E \cup N, NEW v \in E \cup N, u.reverses = v.reverses, u.reverses # 0
       PROVE  u = v
  <2>1. Undone(u) /\ Undone(v)
    BY <1>2, <1>4, <1>11
  <2>2. ASSUME NEW a \in E, NEW b \in N, Undone(b), a.reverses = b.reverses
        PROVE  FALSE
    <3>1. PICK e \in Reversible(E) : e.at = b.reverses
      BY <1>9, <2>2 DEF Target
    <3> QED
      BY <2>2, <3>1 DEF Reversible, ReversedIn
  <2>3. u \in N /\ v \in N => u = v
    BY <1>1, <2>1
  <2>4. u \in E /\ v \in E => u = v
    BY <1>3, <1>11 DEF SetOK, LastOK
  <2> QED
    BY <1>11, <2>1, <2>2, <2>3, <2>4
<1>12. LastOK(E \cup N)
  BY <1>10, <1>11 DEF LastOK
<1> QED
  BY <1>5, <1>6, <1>7, <1>8, <1>12

LEMMA FlushH ==
    ASSUME HInv, IInv', NEW t \in Turns, Flush(t)
    PROVE  HInv'
<1> USE Nobody, Apart, TasksAreRows
<1>1. PICK N, P, K : N = Stamped(t) /\ P = Projects(t) /\ K = work[t].keys
  OBVIOUS
<1>2. /\ pc[t] = "flushing" /\ \A r \in K : owner[r] \in {None, t}
      /\ LockRows(t, P) /\ draft' = [r \in Rows |-> IF r \in P THEN None ELSE draft[r]]
      /\ own' = [own EXCEPT ![t] = own[t] \cup N] /\ clock' = clock + Len(work[t].events)
      /\ sharers' = [sharers EXCEPT ![t] = sharers[t] \cup K]
      /\ pc' = [pc EXCEPT ![t] = "idle"] /\ work' = [work EXCEPT ![t] = NoWork]
      /\ UNCHANGED <<saved, log, mode>>
  BY <1>1 DEF Flush, Stamped
<1>3. /\ P \subseteq {Project} /\ (Project \in P <=> View(t)[Project] # Absent)
      /\ \A r \in Rows : draft'[r] = IF r \in P THEN None ELSE draft[r]
      /\ \A r \in Rows : owner'[r] = IF r \in P THEN t ELSE owner[r]
      /\ \A r \in P : owner[r] \in {None, t} /\ \A u \in Turns \ {t} : r \notin sharers[u]
  BY <1>1, <1>2 DEF Projects, LockRows, CanLock
<1>4. /\ \A r \in Rows \ {Project} : owner'[r] = owner[r] /\ draft'[r] = draft[r]
      /\ \A r \in Rows : owner[r] = t => owner'[r] = t
      /\ \A r \in Rows : \A u \in Turns \ {t} : owner[r] = u => owner'[r] = u /\ draft'[r] = draft[r]
      /\ \A r \in Rows : \A u \in Turns \ {t} : owner'[r] = u => owner[r] = u
  BY <1>3
<1>5. /\ pc'[t] = "idle" /\ OthersStay(t) /\ own'[t] = own[t] \cup N
      /\ \A u \in Turns \ {t} : own'[u] = own[u] /\ sharers'[u] = sharers[u]
      /\ sharers'[t] = sharers[t] \cup K
  BY <1>2 DEF OthersStay, HInv, IInv, EInv, Typed
<1>6. K \subseteq Rows /\ mode[t] # "none"
  BY <1>1, <1>2 DEF HInv, Work, WorkOK
<1>7. Events(t)' = Events(t) \cup N /\ \A u \in Turns \ {t} : Events(u)' = Events(u)
  BY <1>2, <1>5 DEF Events
<1>8. /\ clock' \in Nat /\ clock <= clock'
      /\ \A e \in Events(t) \cup N : ShapeOK(e) /\ e.at \in 1 .. clock'
      /\ \A e, d \in Events(t) \cup N : e.at = d.at => e = d
      /\ ReversesOK(Events(t) \cup N) /\ LastOK(Events(t) \cup N)
  BY <1>1, <1>2, FlushSet
<1>9. \A e \in N : PendingOK(t, e) /\ e.at \in Nat /\ clock < e.at
  BY <1>1, <1>2, Stamps
<1>10. Typed'
  <2>1. Typed
    BY DEF HInv
  <2>2. RowTypes(draft')
    BY <1>4, <2>1 DEF Typed, RowTypes
  <2>3. \A d \in Decisions : saved[d] # Absent => draft'[d] # Absent
    BY <1>4, <2>1 DEF Typed
  <2>4. \A r \in Rows : owner'[r] = None => draft'[r] = saved[r]
    BY <1>3, <2>1 DEF Typed
  <2>5. sharers' \in [Turns -> SUBSET Rows]
    BY <1>2, <1>6, <2>1 DEF Typed
  <2> QED
    BY <1>2, <1>8, <2>1, <2>2, <2>3, <2>4, <2>5 DEF Typed
<1>11. Sets'
  <2>1. Sets /\ clock \in Nat
    BY DEF HInv, Typed
  <2>2. SetOK(log)' /\ \A u \in Turns \ {t} : SetOK(Events(u))'
    BY <1>2, <1>7, <1>8, <2>1 DEF Sets, SetOK, DatesOK
  <2>3. SetOK(Events(t))'
    BY <1>7, <1>8 DEF SetOK, DatesOK
  <2>4. \A u \in Turns : \A d \in Events(u) : d.at \in Nat /\ d.at <= clock
    BY PastDates
  <2>5. \A u, v \in Turns : u # v => \A e \in own'[u], d \in own'[v] : e.at # d.at
    <3> SUFFICES ASSUME NEW u \in Turns, NEW v \in Turns, u # v,
                        NEW e \in own'[u], NEW d \in own'[v]
                 PROVE  e.at # d.at
      OBVIOUS
    <3>1. CASE e \in own[u] /\ d \in own[v]
      BY <2>1, <3>1 DEF Sets
    <3>2. CASE u = t /\ e \in N
      BY <1>5, <1>9, <2>1, <2>4, <3>2 DEF Events
    <3>3. CASE v = t /\ d \in N
      BY <1>5, <1>9, <2>1, <2>4, <3>3 DEF Events
    <3> QED
      BY <1>5, <3>1, <3>2, <3>3
  <2>6. \A u \in Turns : \A e \in own'[u], d \in log : d.row = e.row => d.at < e.at
    <3> SUFFICES ASSUME NEW u \in Turns, NEW e \in own'[u], NEW d \in log, d.row = e.row
                 PROVE  d.at < e.at
      OBVIOUS
    <3>1. CASE e \in own[u]
      BY <2>1, <3>1 DEF Sets
    <3>2. CASE u = t /\ e \in N
      BY <1>9, <2>1, <2>4, <3>2 DEF Events
    <3> QED
      BY <1>5, <3>1, <3>2
  <2> QED
    BY <1>2, <2>2, <2>3, <2>5, <2>6 DEF Sets
<1>12. Locks'
  <2>1. ASSUME NEW u \in Turns, NEW e \in own[u]
        PROVE  e.row \in Rows \ {Project} /\ (Undone(e) => e.on \in Rows)
    <3>1. ShapeOK(e)
      BY DEF HInv, Sets, SetOK, DatesOK, Events
    <3> QED
      BY <3>1 DEF ShapeOK
  <2>2. ASSUME NEW u \in Turns \ {t}
        PROVE  OwnOK(u)' /\ KeysOK(u)'
    <3>1. OwnOK(u) /\ KeysOK(u)
      BY DEF HInv, Locks
    <3>2. OwnOK(u)'
      BY <1>2, <1>4, <1>5, <2>1, <3>1 DEF OwnOK
    <3>3. KeysOK(u)'
      BY <1>2, <1>4, <1>5, <3>1 DEF KeysOK, OthersStay
    <3> QED
      BY <3>2, <3>3
  <2>3. OwnOK(t)'
    <3>1. OwnOK(t)
      BY DEF HInv, Locks
    <3>2. \A e \in N : /\ e.row \in Rows \ {Project} /\ owner[e.row] = t /\ e.on \in K
                       /\ There(e.row, draft[e.row])
                       /\ Undone(e) => e.on \in Rows /\ owner[e.on] = t
                                       /\ (e.everywhere => mode[t] = "exclusive")
      BY <1>1, <1>9 DEF PendingOK, ShapeOK, Target
    <3> QED
      BY <1>2, <1>4, <1>5, <1>6, <2>1, <3>1, <3>2 DEF OwnOK
  <2>4. KeysOK(t)'
    <3>1. KeysOK(t)
      BY DEF HInv, Locks
    <3> QED
      BY <1>1, <1>2, <1>4, <1>5, <3>1 DEF KeysOK
  <2>5. ASSUME NEW u \in Turns, NEW v \in Turns, u # v
        PROVE  Exclude(u, v)'
    <3>1. Exclude(u, v) /\ sharers[v] \subseteq Rows
      BY <2>5 DEF HInv, Locks, Typed
    <3>2. \A r \in sharers'[v] : owner'[r] # u
      <4>1. CASE v = t
        BY <1>2, <1>4, <1>5, <1>6, <2>5, <3>1, <4>1 DEF Exclude
      <4>2. CASE v # t
        BY <1>3, <1>5, <2>5, <3>1, <4>2 DEF Exclude
      <4> QED
        BY <4>1, <4>2
    <3> QED
      BY <1>2, <3>1, <3>2 DEF Exclude
  <2> QED
    BY <1>2, <2>2, <2>3, <2>4, <2>5 DEF Locks, HInv
<1>13. Work'
  <2> SUFFICES ASSUME NEW u \in Turns PROVE WorkOK(u)'
    BY DEF Work
  <2>1. CASE u = t
    BY <1>5, <2>1 DEF WorkOK
  <2>2. CASE u # t
    <3>1. \A r \in Rows : owner[r] = u =>
             owner'[r] = u /\ draft'[r] = draft[r] /\ saved'[r] = saved[r]
      BY <1>2, <1>4, <2>2
    <3>2. \A at, on, everywhere : Target(u, at, on, everywhere) => Target(u, at, on, everywhere)'
      BY <1>2, <1>7, <2>2, <3>1 DEF Target
    <3>3. Keeps(u)
      BY <1>2, <1>5, <1>7, <2>2, <3>1, <3>2 DEF Keeps, OthersStay
    <3> QED
      BY <3>3, KeepsWork DEF HInv, Work
  <2> QED
    BY <2>1, <2>2
<1>14. Histories'
  <2>1. ASSUME NEW r \in Rows \ {Project}, NEW u \in Turns, owner'[r] = u
        PROVE  HeldOK(u, r)'
    <3>1. HeldOK(u, r) /\ draft'[r] = draft[r]
      BY <1>4, <2>1 DEF HInv, Histories
    <3>2. CASE u # t
      <4>1. PendingRows(u)' = PendingRows(u)
        BY <1>5, <3>2 DEF PendingRows, Pending, OthersStay
      <4> QED
        BY <1>7, <3>1, <3>2, <4>1 DEF HeldOK
    <3>3. CASE u = t /\ r \in PendingRows(t)
      <4>1. PICK e \in N : e.row = r
        BY <1>1, <1>2, <3>3, Stamps
      <4>2. On(Events(t)', r) = On(Events(t), r) \cup {e}
        <5>1. \A d \in N : d.row = r => d = e
          BY <1>1, <1>2, <4>1, Stamps
        <5> QED
          BY <1>7, <4>1, <5>1 DEF On
      <4>3. /\ RowHistory(On(Events(t), r) \cup {e}, r)
            /\ RowValue(On(Events(t), r) \cup {e}, r, draft[r])
        BY <1>1, <1>2, <4>1, FlushRow
      <4> QED
        BY <3>1, <3>3, <4>2, <4>3 DEF HeldOK
    <3>4. CASE u = t /\ r \notin PendingRows(t)
      <4>1. On(Events(t)', r) = On(Events(t), r)
        <5>1. \A d \in N : d.row # r
          BY <1>1, <1>2, <3>4, Stamps
        <5> QED
          BY <1>7, <5>1 DEF On
      <4> QED
        BY <3>1, <3>4, <4>1 DEF HeldOK
    <3> QED
      BY <3>2, <3>3, <3>4
  <2> QED
    BY <1>2, <2>1 DEF HInv, Histories
<1>15. Summary'
  <2>1. Summary
    BY DEF HInv
  <2>2. SummaryCurrent'
    BY <1>2, <2>1 DEF Summary, SummaryCurrent
  <2>3. CASE Project \in P
    <3>1. saved[Project] # Absent
      BY <1>3, <2>1, <2>3 DEF Summary, View
    <3>2. owner'[Project] = t /\ draft'[Project] = None
      BY <1>3, <2>3
    <3>3. \A u \in Turns \ {t} : own'[u] = {}
      BY <1>3, <1>5, <2>1, <2>3, <3>1 DEF Summary
    <3> QED
      BY <1>2, <2>2, <3>1, <3>2, <3>3 DEF Summary
  <2>4. CASE Project \notin P
    <3>1. owner'[Project] = owner[Project] /\ draft'[Project] = draft[Project]
      BY <1>3, <2>4
    <3>2. CASE owner[Project] = t
      <4>1. draft[Project] = Absent
        BY <1>3, <2>4, <3>2 DEF View
      <4> QED
        BY <1>2, <1>5, <2>1, <2>2, <3>1, <3>2, <4>1 DEF Summary
    <3>3. CASE owner[Project] # t
      <4>1. saved[Project] = Absent /\ owner[Project] = None
        BY <1>3, <2>1, <2>4, <3>3 DEF View, Summary
      <4> QED
        BY <1>2, <2>2, <3>1, <4>1 DEF Summary
    <3> QED
      BY <3>2, <3>3
  <2> QED
    BY <2>3, <2>4
<1> QED
  BY <1>10, <1>11, <1>12, <1>13, <1>14, <1>15 DEF HInv

(***************************************************************************)
(* Commit                                                                  *)
(***************************************************************************)

(* The events of t are not about what another turn holds.                  *)
LEMMA CommitsApart ==
    ASSUME HInv, NEW t \in Turns, NEW u \in Turns \ {t}, NEW e \in own[t]
    PROVE  /\ owner[e.row] = t /\ owner[e.on] # u /\ e.row \in Rows \ {Project}
           /\ mode[u] # "exclusive" /\ mode[t] # "none"
<1>1. OwnOK(t) /\ Exclude(u, t) /\ ShapeOK(e)
  BY DEF HInv, Locks, Sets, SetOK, DatesOK, Events
<1> QED
  BY <1>1 DEF OwnOK, Exclude, ShapeOK

(* What is undone is about the same entity, whoever sees it.               *)
LEMMA UndoneOn ==
    ASSUME HInv, NEW t \in Turns, NEW v \in Events(t), v.reverses # 0
    PROVE  Undone(v) /\ \E e \in Events(t) : e.at = v.reverses /\ e.on = v.on /\ e.row = v.row
<1>1. Undone(v)
  BY PastDates
<1>2. ReversesOK(Events(t))
  BY DEF HInv, Sets, SetOK
<1> QED
  BY <1>1, <1>2 DEF ReversesOK

(* Two turns never have the same date.                                     *)
LEMMA DatesApart ==
    ASSUME HInv, NEW t \in Turns, NEW u \in Turns, NEW e \in Events(t), NEW d \in Events(u),
           e.at = d.at
    PROVE  e = d
<1>1. SetOK(Events(t)) /\ SetOK(Events(u))
  BY DEF HInv, Sets
<1>2. CASE e \in own[t] /\ d \in own[u]
  <2>1. t = u
    BY <1>2 DEF HInv, Sets
  <2> QED
    BY <1>1, <2>1 DEF SetOK, DatesOK
<1>3. CASE e \in log
  BY <1>1, <1>3 DEF SetOK, DatesOK, Events
<1>4. CASE d \in log
  BY <1>1, <1>4 DEF SetOK, DatesOK, Events
<1> QED
  BY <1>2, <1>3, <1>4 DEF Events

(* What u and t see together is again a history.                           *)
LEMMA CommitSet ==
    ASSUME HInv, NEW t \in Turns, NEW u \in Turns \ {t}
    PROVE  SetOK(Events(t) \cup Events(u))
<1> DEFINE A == Events(t)
           B == Events(u)
<1>1. SetOK(A) /\ SetOK(B)
  BY DEF HInv, Sets
<1>2. DatesOK(A \cup B)
  <2>1. \A e \in A \cup B : ShapeOK(e) /\ e.at \in 1 .. clock
    BY <1>1 DEF SetOK, DatesOK
  <2>2. \A e, d \in A \cup B : e.at = d.at => e = d
    BY DatesApart
  <2> QED
    BY <2>1, <2>2 DEF DatesOK
<1>3. ReversesOK(A \cup B)
  BY <1>1 DEF SetOK, ReversesOK
<1>4. ASSUME NEW a \in Turns, NEW b \in Turns \ {a},
             NEW v \in own[a], NEW e \in own[b], Undone(v)
      PROVE  e.on # v.on /\ ~v.everywhere
  <2>1. OwnOK(a) /\ OwnOK(b) /\ Exclude(a, b)
    BY DEF HInv, Locks
  <2>2. owner[v.on] = a /\ e.on \in sharers[b] /\ mode[b] # "none"
    BY <1>4, <2>1 DEF OwnOK
  <2> QED
    BY <1>4, <2>1, <2>2 DEF OwnOK, Exclude
<1>5. ASSUME NEW v \in A \cup B, NEW e \in A \cup B, Undone(v), e.kind = "changed",
             v.reverses < e.at, e.at < v.at, v.everywhere \/ e.on = v.on
      PROVE  \E w \in A \cup B : w.reverses = e.at /\ w.at < v.at
  <2>1. CASE v \in A /\ e \in A
    BY <1>1, <1>5, <2>1 DEF SetOK, LastOK
  <2>2. CASE v \in B /\ e \in B
    BY <1>1, <1>5, <2>2 DEF SetOK, LastOK
  <2>3. CASE v \in own[t] /\ e \in own[u]
    BY <1>4, <1>5, <2>3
  <2>4. CASE v \in own[u] /\ e \in own[t]
    BY <1>4, <1>5, <2>4
  <2> QED
    BY <2>1, <2>2, <2>3, <2>4 DEF Events
<1>6. ASSUME NEW a \in Turns, NEW b \in Turns \ {a}, NEW v \in own[a], NEW w \in own[b],
             v.reverses = w.reverses, v.reverses # 0
      PROVE  FALSE
  <2>1. v \in Events(a) /\ w \in Events(b)
    BY DEF Events
  <2>2. PICK d \in Events(a) : d.at = v.reverses /\ d.on = v.on
    BY <1>6, <2>1, UndoneOn
  <2>3. PICK e \in Events(b) : e.at = w.reverses /\ e.on = w.on
    BY <1>6, <2>1, UndoneOn
  <2>4. d = e
    BY <1>6, <2>2, <2>3, DatesApart
  <2> QED
    BY <1>4, <1>6, <2>1, <2>2, <2>3, <2>4, UndoneOn
<1>7. ASSUME NEW v \in A \cup B, NEW w \in A \cup B, v.reverses = w.reverses, v.reverses # 0
      PROVE  v = w
  <2>1. CASE v \in A /\ w \in A
    BY <1>1, <1>7, <2>1 DEF SetOK, LastOK
  <2>2. CASE v \in B /\ w \in B
    BY <1>1, <1>7, <2>2 DEF SetOK, LastOK
  <2>3. CASE v \in own[t] /\ w \in own[u]
    BY <1>6, <1>7, <2>3
  <2>4. CASE v \in own[u] /\ w \in own[t]
    BY <1>6, <1>7, <2>4
  <2> QED
    BY <2>1, <2>2, <2>3, <2>4 DEF Events
<1>8. LastOK(A \cup B)
  BY <1>5, <1>7 DEF LastOK
<1> QED
  BY <1>2, <1>3, <1>8 DEF SetOK

(* Of the changes of what u holds, those that stand are the same.          *)
Extends(u, E) ==
    /\ \A r \in Rows : owner[r] = u => On(E, r) = On(Events(u), r)
    /\ \A e \in Events(u) : owner[e.on] = u =>
           (e \in Reversible(E) <=> e \in Reversible(Events(u)))
    /\ \A e \in E : owner[e.on] = u => e \in Events(u)
    /\ mode[u] = "exclusive" => E = Events(u)

LEMMA CommitKeepsChanges ==
    ASSUME HInv, NEW t \in Turns, NEW u \in Turns \ {t}
    PROVE  Extends(u, Events(t) \cup Events(u))
<1> DEFINE E == Events(t) \cup Events(u)
<1>1. \A e \in E : e \in Events(u) \/ e \in own[t]
  BY DEF Events
<1>2. \A e \in E : owner[e.on] = u => e \in Events(u)
  BY <1>1, CommitsApart
<1>3. \A r \in Rows : owner[r] = u => On(E, r) = On(Events(u), r)
  BY <1>1, CommitsApart DEF On
<1>4. mode[u] = "exclusive" => E = Events(u)
  BY <1>1, CommitsApart
<1>5. ASSUME NEW e \in Events(u), owner[e.on] = u, NEW v \in E, v.reverses = e.at
      PROVE  v \in Events(u)
  <2> SUFFICES ASSUME v \in own[t] PROVE FALSE
    BY <1>1
  <2>1. e.at # 0 /\ v \in Events(t)
    BY PastDates DEF Events
  <2>2. PICK d \in Events(t) : d.at = v.reverses /\ d.on = v.on
    BY <1>5, <2>1, UndoneOn
  <2>3. d = e
    BY <1>5, <2>2, DatesApart
  <2> QED
    BY <1>5, <2>2, <2>3, CommitsApart
<1>6. ASSUME NEW e \in Events(u), owner[e.on] = u
      PROVE  e \in Reversible(E) <=> e \in Reversible(Events(u))
  <2>1. ReversedIn(E, e) <=> ReversedIn(Events(u), e)
    BY <1>5, <1>6 DEF ReversedIn
  <2> QED
    BY <1>6, <2>1 DEF Reversible
<1> QED
  BY <1>2, <1>3, <1>4, <1>6 DEF Extends

LEMMA CommitH ==
    ASSUME HInv, IInv', NEW t \in Turns, Commit(t)
    PROVE  HInv'
<1> USE Nobody, Apart, TasksAreRows
<1>1. /\ pc[t] = "idle" /\ saved' = View(t) /\ log' = log \cup own[t]
      /\ owner' = [r \in Rows |-> IF owner[r] = t THEN None ELSE owner[r]]
      /\ sharers' = [sharers EXCEPT ![t] = {}] /\ mode' = [mode EXCEPT ![t] = "none"]
      /\ own' = [own EXCEPT ![t] = {}] /\ UNCHANGED <<draft, clock, pc, work>>
  BY DEF Commit, Release
<1>2. /\ own'[t] = {} /\ sharers'[t] = {} /\ mode'[t] = "none" /\ pc'[t] = "idle"
      /\ \A u \in Turns \ {t} : own'[u] = own[u] /\ sharers'[u] = sharers[u] /\ mode'[u] = mode[u]
      /\ sharers' \in [Turns -> SUBSET Rows] /\ mode' = [u \in Turns |-> mode'[u]]
  BY <1>1 DEF HInv, IInv, EInv, Typed
<1>3. /\ \A r \in Rows : owner'[r] # t
      /\ \A r \in Rows : owner'[r] # None => owner'[r] = owner[r]
      /\ \A r \in Rows : \A u \in Turns \ {t} : owner[r] = u => owner'[r] = u
      /\ \A r \in Rows : saved'[r] = IF owner[r] = t THEN draft[r] ELSE saved[r]
  BY <1>1 DEF HInv, IInv, GInv, RowsOK, View
<1>4. /\ log' = Events(t) /\ Events(t)' = Events(t)
      /\ \A u \in Turns \ {t} : Events(u)' = Events(t) \cup Events(u)
  BY <1>1, <1>2 DEF Events
<1>5. Typed'
  <2>1. Typed
    BY DEF HInv
  <2>2. RowTypes(saved')
    BY <1>3, <2>1 DEF Typed, RowTypes
  <2>3. \A d \in Decisions : saved'[d] # Absent => draft[d] # Absent
    BY <1>3, <2>1 DEF Typed
  <2>4. \A r \in Rows : owner'[r] = None => draft[r] = saved'[r]
    BY <1>1, <1>3, <2>1 DEF Typed
  <2> QED
    BY <1>1, <1>2, <2>1, <2>2, <2>3, <2>4 DEF Typed
<1>6. Sets'
  <2>1. Sets
    BY DEF HInv
  <2>2. SetOK(log)' /\ SetOK(Events(t))'
    <3>1. PICK E : E = Events(t)
      OBVIOUS
    <3>2. SetOK(E)
      BY <2>1, <3>1 DEF Sets
    <3>3. SetOK(E)'
      BY <1>1, <3>2 DEF SetOK, DatesOK
    <3>4. log' = E /\ Events(t)' = E
      BY <1>4, <3>1
    <3> QED
      BY <3>3, <3>4
  <2>3. ASSUME NEW u \in Turns \ {t}
        PROVE  SetOK(Events(u))'
    <3>1. SetOK(Events(t) \cup Events(u))
      BY CommitSet
    <3> QED
      BY <1>1, <1>4, <3>1 DEF SetOK, DatesOK
  <2>4. \A u, v \in Turns : u # v => \A e \in own'[u], d \in own'[v] : e.at # d.at
    BY <1>2, <2>1 DEF Sets
  <2>5. \A u \in Turns : \A e \in own'[u], d \in log' : d.row = e.row => d.at < e.at
    <3> SUFFICES ASSUME NEW u \in Turns, NEW e \in own'[u], NEW d \in log', d.row = e.row
                 PROVE  d.at < e.at
      OBVIOUS
    <3>1. u # t /\ e \in own[u]
      BY <1>2
    <3>2. CASE d \in log
      BY <2>1, <3>1, <3>2 DEF Sets
    <3>3. CASE d \in own[t]
      BY <3>1, <3>3, CommitsApart
    <3> QED
      BY <1>1, <3>2, <3>3
  <2> QED
    BY <2>2, <2>3, <2>4, <2>5 DEF Sets
<1>7. Locks'
  <2>1. ASSUME NEW u \in Turns
        PROVE  OwnOK(u)' /\ KeysOK(u)'
    <3>1. OwnOK(u) /\ KeysOK(u)
      BY DEF HInv, Locks
    <3>2. \A e \in own[u] : e.row \in Rows /\ (Undone(e) => e.on \in Rows)
      <4>1. \A e \in own[u] : ShapeOK(e)
        BY DEF HInv, Sets, SetOK, DatesOK, Events
      <4> QED
        BY <4>1 DEF ShapeOK
    <3>3. CASE u = t
      BY <1>1, <1>2, <3>3 DEF OwnOK, KeysOK
    <3>4. CASE u # t
      <4>1. OwnOK(u)'
        BY <1>1, <1>2, <1>3, <3>1, <3>2, <3>4 DEF OwnOK
      <4>2. KeysOK(u)'
        <5>1. \A x \in Tasks : saved[x] # Absent => saved'[x] # Absent
          BY <1>3 DEF HInv, IInv, GInv, RowsOK
        <5> QED
          BY <1>1, <1>2, <1>3, <3>1, <3>4, <5>1 DEF KeysOK
      <4> QED
        BY <4>1, <4>2
    <3> QED
      BY <3>3, <3>4
  <2>2. ASSUME NEW u \in Turns, NEW v \in Turns, u # v
        PROVE  Exclude(u, v)'
    <3>1. Exclude(u, v) /\ sharers[v] \subseteq Rows
      BY <2>2 DEF HInv, Locks, Typed
    <3> QED
      BY <1>2, <1>3, <3>1 DEF Exclude
  <2>3. \A e \in log' : There(e.row, saved'[e.row])
    <3> SUFFICES ASSUME NEW e \in log' PROVE There(e.row, saved'[e.row])
      OBVIOUS
    <3>1. CASE e \in own[t]
      <4>1. owner[e.row] = t /\ There(e.row, draft[e.row]) /\ e.row \in Rows
        BY <3>1, CommitsApart, ZenonT(60) DEF HInv, Locks, OwnOK, Sets, SetOK, DatesOK, Events, ShapeOK
      <4> QED
        BY <1>3, <4>1
    <3>2. CASE e \in log
      <4>1. There(e.row, saved[e.row]) /\ ShapeOK(e)
        BY <3>2 DEF HInv, Locks, Sets, SetOK, DatesOK
      <4>2. \A x \in Tasks \cup Decisions : saved[x] # Absent => saved'[x] # Absent
        BY <1>3 DEF HInv, IInv, GInv, RowsOK, Typed
      <4> QED
        BY <4>1, <4>2 DEF There
    <3> QED
      BY <1>1, <3>1, <3>2
  <2> QED
    BY <2>1, <2>2, <2>3 DEF Locks
<1>8. ASSUME NEW u \in Turns \ {t}
      PROVE  Keeps(u)
  <2>1. PICK E : E = Events(t) \cup Events(u)
    OBVIOUS
  <2>2. Events(u)' = E
    BY <1>4, <2>1
  <2>3. /\ \A r \in Rows : owner[r] = u => On(E, r) = On(Events(u), r)
        /\ \A e \in Events(u) : owner[e.on] = u =>
               (e \in Reversible(E) <=> e \in Reversible(Events(u)))
        /\ \A e \in E : owner[e.on] = u => e \in Events(u)
        /\ mode[u] = "exclusive" => E = Events(u)
    <3>1. Extends(u, E)
      BY <2>1, CommitKeepsChanges
    <3> QED
      BY <3>1 DEF Extends
  <2>4. \A r \in Rows : owner[r] = u => owner'[r] = u /\ draft'[r] = draft[r] /\ saved'[r] = saved[r]
    BY <1>1, <1>3
  <2>5. \A e \in Reversible(Events(u)) : e.on \in Rows /\ owner[e.on] = u => e \in Reversible(E)
    BY <2>3 DEF Reversible
  <2>6. ASSUME NEW at, NEW on, NEW everywhere, Target(u, at, on, everywhere)
        PROVE  Target(u, at, on, everywhere)'
    <3>1. on \in Rows /\ owner[on] = u /\ (everywhere => mode[u] = "exclusive")
      BY <2>6 DEF Target
    <3>2. \E e \in Reversible(E) : e.at = at /\ e.on = on
      BY <2>3, <2>6 DEF Target, Reversible
    <3>3. ASSUME NEW d \in Reversible(E), d.on = on \/ everywhere
          PROVE  d.at <= at
      <4>1. CASE everywhere
        BY <2>3, <2>6, <3>1, <3>3, <4>1 DEF Target
      <4>2. CASE d.on = on
        <5>1. d \in Events(u) /\ d \in Reversible(Events(u))
          BY <2>3, <3>1, <3>3, <4>2 DEF Reversible
        <5> QED
          BY <2>6, <4>2, <5>1 DEF Target
      <4> QED
        BY <3>3, <4>1, <4>2
    <3> QED
      BY <1>2, <2>2, <2>4, <3>1, <3>2, <3>3 DEF Target
  <2> QED
    BY <1>1, <1>2, <2>2, <2>3, <2>4, <2>5, <2>6 DEF Keeps
<1>9. Work'
  <2> SUFFICES ASSUME NEW u \in Turns PROVE WorkOK(u)'
    BY DEF Work
  <2>1. CASE u = t
    BY <1>2, <2>1 DEF WorkOK
  <2>2. CASE u # t
    BY <1>8, <2>2, KeepsWork DEF HInv, Work
  <2> QED
    BY <2>1, <2>2
<1>10. Histories'
  <2>1. ASSUME NEW r \in Rows \ {Project}
        PROVE  RowHistory(On(log', r), r) /\ RowValue(On(log', r), r, saved'[r])
    <3>1. CASE owner[r] = t
      <4>1. HeldOK(t, r) /\ r \notin PendingRows(t)
        BY <1>1, <3>1 DEF HInv, Histories, PendingRows, Pending
      <4> QED
        BY <1>3, <1>4, <3>1, <4>1 DEF HeldOK
    <3>2. CASE owner[r] # t
      <4>1. On(log', r) = On(log, r)
        BY <1>1, <3>2, CommitsApart DEF On, HInv, Locks, OwnOK
      <4>2. RowHistory(On(log, r), r) /\ RowValue(On(log, r), r, saved[r])
        BY DEF HInv, Histories
      <4> QED
        BY <1>3, <3>2, <4>1, <4>2
    <3> QED
      BY <3>1, <3>2
  <2>2. ASSUME NEW r \in Rows \ {Project}, NEW u \in Turns, owner'[r] = u
        PROVE  HeldOK(u, r)'
    <3>1. u # t /\ owner[r] = u
      BY <1>3, <2>2
    <3>2. HeldOK(u, r) /\ On(Events(u)', r) = On(Events(u), r)
      BY <1>8, <3>1 DEF HInv, Histories, Keeps
    <3>3. PendingRows(u)' = PendingRows(u)
      BY <1>1 DEF PendingRows, Pending
    <3> QED
      BY <1>1, <3>2, <3>3 DEF HeldOK
  <2> QED
    BY <2>1, <2>2 DEF Histories
<1>11. Summary'
  <2>1. Summary
    BY DEF HInv
  <2>2. own[t] # {} => owner[Project] = t \/ saved[Project] = Absent
    BY <2>1 DEF Summary
  <2>3. saved'[Project] = IF owner[Project] = t THEN draft[Project] ELSE saved[Project]
    BY <1>3
  <2>4. SummaryCurrent'
    <3>1. CASE owner[Project] = t
      BY <1>4, <2>1, <2>3, <3>1 DEF Summary, SummaryCurrent
    <3>2. CASE owner[Project] # t
      BY <1>1, <2>1, <2>2, <2>3, <3>2 DEF Summary, SummaryCurrent
    <3> QED
      BY <3>1, <3>2
  <2>5. saved'[Project] = Absent => owner'[Project] = None
    BY <1>1, <2>1, <2>3 DEF Summary
  <2>6. ASSUME NEW u \in Turns
        PROVE  /\ own'[u] # {} => owner'[Project] = u \/ saved'[Project] = Absent
               /\ owner'[Project] = u /\ draft'[Project] \notin {None, Absent}
                  => \A e \in Events(u)' : e.at \in draft'[Project]
    <3>1. own'[u] # {} => owner'[Project] = u \/ saved'[Project] = Absent
      BY <1>2, <1>3, <2>1, <2>3 DEF Summary
    <3>2. ASSUME owner'[Project] = u
          PROVE  Events(u)' = Events(u) /\ owner[Project] = u
      <4>1. u # t /\ owner[Project] = u
        BY <1>3, <3>2
      <4>2. own[t] = {}
        BY <2>1, <2>2, <4>1 DEF Summary
      <4> QED
        BY <1>4, <4>1, <4>2 DEF Events
    <3> QED
      BY <1>1, <2>1, <3>1, <3>2 DEF Summary
  <2> QED
    BY <2>4, <2>5, <2>6 DEF Summary
<1> QED
  BY <1>5, <1>6, <1>7, <1>9, <1>10, <1>11 DEF HInv

-----------------------------------------------------------------------------

LEMMA StutterH ==
    ASSUME HInv, IInv', UNCHANGED vars
    PROVE  HInv'
<1>1. /\ saved' = saved /\ draft' = draft /\ log' = log /\ own' = own /\ clock' = clock
      /\ owner' = owner /\ sharers' = sharers /\ mode' = mode /\ pc' = pc /\ work' = work
      /\ \A u \in Turns : Events(u)' = Events(u)
  BY DEF vars, rows, history, locks, Events
<1>2. Typed'
  BY <1>1 DEF HInv, Typed
<1>3. Sets'
  BY <1>1 DEF HInv, Sets, SetOK, DatesOK
<1>4. Locks'
  BY <1>1 DEF HInv, Locks, OwnOK, KeysOK, Exclude
<1>5. Work'
  <2> SUFFICES ASSUME NEW u \in Turns PROVE WorkOK(u)'
    BY DEF Work
  <2>1. \A at, on, everywhere : Target(u, at, on, everywhere) => Target(u, at, on, everywhere)'
    BY <1>1 DEF Target
  <2>2. Keeps(u)
    BY <1>1, <2>1 DEF Keeps, Reversible
  <2> QED
    BY <2>2, KeepsWork DEF HInv, Work
<1>6. Histories'
  BY <1>1 DEF HInv, Histories, HeldOK, PendingRows, Pending
<1>7. Summary'
  BY <1>1 DEF HInv, Summary, SummaryCurrent
<1> QED
  BY <1>2, <1>3, <1>4, <1>5, <1>6, <1>7 DEF HInv

LEMMA HInitOK == Init => HInv
<1> SUFFICES ASSUME Init PROVE HInv
  OBVIOUS
<1> USE Nobody, Apart, TasksAreRows
<1>1. IInv
  BY InitOK
<1>2. /\ log = {} /\ clock = 0 /\ draft = saved
      /\ \A t \in Turns : /\ own[t] = {} /\ Events(t) = {} /\ pc[t] = "idle"
                          /\ mode[t] = "none" /\ sharers[t] = {}
      /\ \A r \in Rows : owner[r] = None
  BY DEF Init, Events
<1>3. \A r \in Rows \ {Project} : saved[r] = FirstRows(None)[r]
  BY DEF Init, FirstRows, Rows, Entities
<1>4. Typed
  <2>1. RowTypes(saved)
    <3>1. NewDecision \in DecisionRow
      BY DEF NewDecision, DecisionRow, Statuses
    <3>2. \A d \in Decisions : saved[d] \in DecisionRow \cup {Absent}
      BY <1>3, <3>1, WorldAssumption DEF FirstRows
    <3>3. \A c \in Criteria : DOMAIN saved[c] = {"mark"}
      BY <1>3, WorldAssumption DEF FirstRows
    <3>4. DOMAIN saved[Goal] = {"done"}
      BY <1>3, WorldAssumption DEF FirstRows
    <3> QED
      BY <3>2, <3>3, <3>4 DEF RowTypes
  <2>2. sharers \in [Turns -> SUBSET Rows] /\ mode = [t \in Turns |-> mode[t]]
    BY DEF Init
  <2> QED
    BY <1>2, <2>1, <2>2 DEF Typed
<1>5. Sets
  BY <1>2 DEF Sets, SetOK, DatesOK, ReversesOK, LastOK
<1>6. Locks
  BY <1>2 DEF Locks, OwnOK, KeysOK, Exclude
<1>7. Work
  BY <1>2 DEF Work, WorkOK
<1>8. Histories
  <2> SUFFICES ASSUME NEW r \in Rows \ {Project}
               PROVE  RowHistory(On(log, r), r) /\ RowValue(On(log, r), r, saved[r])
    BY <1>2 DEF Histories
  <2>1. On(log, r) = {} /\ \A f : Touch({}, f) = {} /\ Stand({}, f) = {}
    BY <1>2 DEF On, Touch, Stand
  <2>2. RowHistory({}, r)
    BY DEF RowHistory, Gapless, Kept, CreatedFirst
  <2>3. RowValue({}, r, saved[r])
    BY <1>3, <2>1 DEF RowValue, FieldIs, ValueIs
  <2> QED
    BY <2>1, <2>2, <2>3
<1>9. Summary
  BY <1>2 DEF Summary, SummaryCurrent
<1> QED
  BY <1>1, <1>4, <1>5, <1>6, <1>7, <1>8, <1>9 DEF HInv

LEMMA HStepOK == HInv /\ [Next]_vars => HInv'
<1> SUFFICES ASSUME HInv, [Next]_vars PROVE HInv'
  OBVIOUS
<1> USE Apart
<1>1. IInv'
  BY StepOK DEF HInv
<1>2. CASE UNCHANGED vars
  BY <1>1, <1>2, StutterH
<1>3. ASSUME NEW t \in Turns, NEW x \in Tasks, NEW row \in NewTasks, CreateTask(t, x, row)
      PROVE  HInv'
  BY <1>1, <1>3, CreateTaskH
<1>4. ASSUME NEW t \in Turns, NEW x \in Tasks, NEW values \in TaskUpdates, UpdateTask(t, x, values)
      PROVE  HInv'
  BY <1>1, <1>4, UpdateTaskH
<1>5. ASSUME NEW t \in Turns, NEW done \in BOOLEAN, UpdateGoal(t, done)
      PROVE  HInv'
  BY <1>1, <1>5, ChangeElsewhereH DEF UpdateGoal
<1>6. ASSUME NEW t \in Turns, NEW c \in Criteria, NEW mark \in Marks, UpdateCriterion(t, c, mark)
      PROVE  HInv'
  BY <1>1, <1>6, ChangeElsewhereH DEF UpdateCriterion
<1>7. ASSUME NEW t \in Turns, NEW x \in Tasks, LinkTaskGoal(t, x)
      PROVE  HInv'
  BY <1>1, <1>7, LinkTaskGoalH
<1>8. ASSUME NEW t \in Turns, NEW x \in Tasks, NEW y \in Tasks, AddDependency(t, x, y)
      PROVE  HInv'
  BY <1>1, <1>8, AddDependencyH
<1>9. ASSUME NEW t \in Turns, NEW d \in Decisions, CreateDecision(t, d) \/ RevokeDecision(t, d)
      PROVE  HInv'
  BY <1>1, <1>9, CreateDecisionH, RevokeDecisionH
<1>10. ASSUME NEW t \in Turns, NEW d \in Decisions, NEW e \in Decisions, SupersedeDecision(t, d, e)
       PROVE  HInv'
  BY <1>1, <1>10, SupersedeDecisionH
<1>11. ASSUME NEW t \in Turns, NEW x \in Tasks \cup {Goal}, NEW everywhere \in BOOLEAN,
              BeginUndo(t, x, everywhere)
       PROVE  HInv'
  BY <1>1, <1>11, BeginUndoH
<1>12. ASSUME NEW t \in Turns, CacheSummary(t) \/ Refused(t) \/ Restore(t) \/ RefuseUndo(t)
       PROVE  HInv'
  BY <1>1, <1>12, CacheSummaryH, RefusedH, RestoreH, RefuseUndoH
<1>13. ASSUME NEW t \in Turns, Flush(t) \/ Commit(t) \/ Abort(t)
       PROVE  HInv'
  BY <1>1, <1>13, FlushH, CommitH, AbortH
<1> QED
  BY <1>2, <1>3, <1>4, <1>5, <1>6, <1>7, <1>8, <1>9, <1>10, <1>11, <1>12, <1>13 DEF Next

-----------------------------------------------------------------------------
(***************************************************************************)
(* The properties                                                          *)
(***************************************************************************)

(* The value that ValueIs says is the one that ValueAfter computes.        *)
LEMMA ValueIsAfter ==
    ASSUME clock \in Nat, DatesOK(log), NEW S \in SUBSET log, NEW r, NEW f, NEW v, ValueIs(S, r, f, v)
    PROVE  v = ValueAfter(S, r, f)
<1>1. CASE S = {}
  BY <1>1 DEF ValueIs, ValueAfter
<1>2. CASE S # {}
  <2>1. PICK e \in S : (\A d \in S : d.at <= e.at) /\ v = e.new[f]
    BY <1>2 DEF ValueIs
  <2>2. Latest(S) \in S /\ \A d \in S : d.at <= Latest(S).at
    BY <2>1 DEF Latest
  <2>3. Latest(S).at = e.at
    BY <2>1, <2>2 DEF DatesOK
  <2>4. Latest(S) = e
    BY <2>1, <2>2, <2>3 DEF DatesOK
  <2> QED
    BY <1>2, <2>1, <2>4 DEF ValueAfter
<1> QED
  BY <1>1, <1>2

(* What the model computes of all events, of the events of the row.        *)
LEMMA OfTheRow ==
    ASSUME clock \in Nat, SetOK(log), NEW r, NEW f
    PROVE  Touching(r, f) = Touch(On(log, r), f) /\ Standing(r, f) = Stand(On(log, r), f)
<1>1. Touching(r, f) = Touch(On(log, r), f)
  BY DEF Touching, Touch, On
<1>2. \A e \in Touching(r, f) : e \in On(log, r)
  BY DEF Touching, On
<1>3. \A e \in Touching(r, f) : ReversedIn(On(log, r), e) <=> \E u \in log : u.reverses = e.at
  BY <1>2, ReversedOnRow DEF ReversedIn
<1> QED
  BY <1>1, <1>3 DEF Standing, Stand, Undone

(* The committed history of every row has no gaps: each event says, for    *)
(* every field it changes, exactly the value that the event before it has  *)
(* left, whatever the turns did at once, and whichever of them failed      *)
(* (domain_events written by the commands and by undo).                    *)
THEOREM HistoryStaysGapless == Spec => []HistoryGapless
<1>1. HInv => HistoryGapless
  <2> SUFFICES ASSUME HInv, NEW e \in log, NEW f \in DOMAIN e.old
               PROVE  e.old[f] = ValueAfter({d \in Touching(e.row, f) : d.at < e.at}, e.row, f)
    BY DEF HistoryGapless
  <2> DEFINE r == e.row
             S == {d \in Touching(r, f) : d.at < e.at}
  <2>1. clock \in Nat /\ SetOK(log) /\ DatesOK(log)
    BY DEF HInv, Typed, Sets, SetOK
  <2>2. r \in Rows \ {Project} /\ e \in On(log, r)
    BY <2>1 DEF DatesOK, ShapeOK, On
  <2>3. Gapless(On(log, r), r)
    BY <2>2 DEF HInv, Histories, RowHistory
  <2>4. ValueIs(Before(Touch(On(log, r), f), e), r, f, e.old[f])
    BY <2>2, <2>3 DEF Gapless
  <2>5. S = Before(Touch(On(log, r), f), e) /\ S \in SUBSET log
    BY <2>1, OfTheRow DEF Before, Touching
  <2> HIDE DEF S, r
  <2>6. e.old[f] = ValueAfter(S, r, f)
    BY <2>1, <2>4, <2>5, ValueIsAfter
  <2> QED
    BY <2>6 DEF S, r
<1> QED
  BY <1>1, HInitOK, HStepOK, PTL DEF Spec

(* What is stored of every row is what the committed changes say that no   *)
(* undo has reversed: reversed changes have left no trace, and no change of*)
(* another turn was lost or restored on the way.                           *)
THEOREM HistoryExplainsRows == Spec => []HistoryExplains
<1>1. HInv => HistoryExplains
  <2> SUFFICES ASSUME HInv, NEW r \in Described, NEW f \in DOMAIN saved[r]
               PROVE  saved[r][f] = ValueAfter(Standing(r, f), r, f)
    BY DEF HistoryExplains
  <2>1. clock \in Nat /\ SetOK(log) /\ DatesOK(log)
    BY DEF HInv, Typed, Sets, SetOK
  <2>2. RowValue(On(log, r), r, saved[r]) /\ There(r, saved[r])
    BY DEF HInv, Histories, Described, There
  <2>3. ValueIs(Stand(On(log, r), f), r, f, saved[r][f])
    BY <2>2 DEF RowValue, FieldIs
  <2>4. Standing(r, f) = Stand(On(log, r), f) /\ Standing(r, f) \in SUBSET log
    BY <2>1, OfTheRow DEF Standing, Touching
  <2> QED
    BY <2>1, <2>3, <2>4, ValueIsAfter
<1> QED
  BY <1>1, HInitOK, HStepOK, PTL DEF Spec

(* An undo reverses what was the last change when it was recorded, of its  *)
(* entity or, without an entity, of all; and no change is reversed twice,  *)
(* by however many turns at once (undo_last_change).                       *)
THEOREM UndoReversesTheLast == Spec => []UndoesTheLast
<1>1. HInv => UndoesTheLast
  BY DEF HInv, Sets, SetOK, LastOK, UndoesTheLast, Undone
<1> QED
  BY <1>1, HInitOK, HStepOK, PTL DEF Spec

(* A committed summary of the Project was written after the last committed *)
(* event: every event recorded since has cleared it.                       *)
THEOREM SummaryStaysCurrent == Spec => []SummaryCurrent
<1>1. HInv => SummaryCurrent
  BY DEF HInv, Summary
<1> QED
  BY <1>1, HInitOK, HStepOK, PTL DEF Spec
=============================================================================
