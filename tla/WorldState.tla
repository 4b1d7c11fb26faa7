----------------------------- MODULE WorldState -----------------------------
(***************************************************************************)
(* The domain services of services/world_state.py over the primitives of   *)
(* services/domain_mutation.py, run by concurrent turns.                   *)
(*                                                                         *)
(* A turn is one database transaction at READ COMMITTED; its domain actions*)
(* are its savepoints.  Row locks, the key-share locks of foreign keys and *)
(* the advisory lock last until the turn ends.  A turn that waits for a    *)
(* lock is a turn whose action is disabled; a deadlock's victim, a failed  *)
(* turn and a crash are Abort, which can come at any time.                 *)
(*                                                                         *)
(* An entity and its typed row are one row here (every action that writes  *)
(* locks both), and a Task's row includes its dependency rows and its link *)
(* to the Goal, whose writers hold the Task's lock or have created it.     *)
(* Projects and Goals have the parent hierarchy and the actions of Tasks:  *)
(* Tasks stand for the three, one Goal is there for its success criteria   *)
(* and one Project, or none, for the summaries that every event clears.    *)
(* Rows are read when the statement runs (the session keeps no row between *)
(* two actions), and the clocks of all turns agree.                        *)
(***************************************************************************)
EXTENDS Integers, Sequences

CONSTANTS
    Tasks, Criteria, Goal, Decisions, Project,
    Turns,           \* concurrent turns; one that has ended may begin again
    None,            \* SQL NULL, and the owner of a row nobody has locked
    Absent,          \* the row of an entity nobody has created
    FirstTasks,      \* the rows of the Tasks there are at the start
    FirstDecisions,  \* the Decisions that are there, ACTIVE
    Marks,           \* SuccessCriterionStatus
    Commands,        \* the kinds of commands that turns are asked for
    NewTasks,        \* rows that create_task is asked for
    TaskUpdates,     \* fields and values that update_task is asked for
    MaxEvents        \* bound: events appended

TaskRow == [parent : Tasks \cup {None}, done : BOOLEAN, needs : SUBSET Tasks, linked : BOOLEAN]
Statuses == {"ACTIVE", "SUPERSEDED", "REVOKED"}
DecisionRow == [status : Statuses, supersedes : Decisions \cup {None},
                successor : Decisions \cup {None}]
NewDecision == [status |-> "ACTIVE", supersedes |-> None, successor |-> None]
GoalRow == [done : BOOLEAN]
CriterionRow == [mark : Marks]
Entities == Tasks \cup {Goal} \cup Decisions
Rows == Entities \cup Criteria \cup {Project}

(* No set of tasks in which each has its parent, or a prerequisite, in the    *)
(* set: what a forest and an acyclic graph are.                               *)
ParentsAcyclicIn(row) ==
    \A C \in (SUBSET {x \in Tasks : row[x] # Absent}) \ {{}} : \E x \in C : row[x].parent \notin C
NeedsAcyclicIn(row) ==
    \A C \in (SUBSET {x \in Tasks : row[x] # Absent}) \ {{}} :
        \E x \in C : row[x].needs \cap C = {}

ASSUME WorldAssumption ==
    /\ FirstTasks \in [Tasks -> TaskRow \cup {Absent}]
    /\ \A x \in Tasks : FirstTasks[x] # Absent =>
           /\ \A y \in FirstTasks[x].needs \cup ({FirstTasks[x].parent} \ {None}) :
                  FirstTasks[y] # Absent
    /\ ParentsAcyclicIn(FirstTasks)
    /\ NeedsAcyclicIn(FirstTasks)
    /\ FirstDecisions \subseteq Decisions
    /\ "UNKNOWN" \in Marks
    /\ NewTasks \subseteq TaskRow
    /\ TaskUpdates \subseteq [parent : Tasks \cup {None}] \cup [done : BOOLEAN]
                          \cup [parent : Tasks \cup {None}, done : BOOLEAN]
    /\ Tasks \cap Decisions = {} /\ Criteria \cap (Tasks \cup Decisions) = {}
    /\ {Goal, Project} \cap (Tasks \cup Decisions \cup Criteria) = {} /\ Goal # Project
    /\ None \notin Rows \cup Turns
    /\ Absent \notin TaskRow \cup DecisionRow \cup {None}
    /\ MaxEvents \in Nat

VARIABLES
    saved,           \* committed rows
    draft,           \* rows as their owner has written them
    log,             \* committed events
    own,             \* of a turn: the events it has appended
    clock,           \* created_at of the last event appended by anybody
    owner,           \* who holds a row FOR UPDATE or has inserted it
    sharers,         \* of a turn: rows it holds FOR KEY SHARE
    mode,            \* of a turn: how it holds the advisory lock
    pc, work         \* of a turn: its next step and what that step needs

rows == <<saved, draft>>
history == <<log, own, clock>>
locks == <<owner, sharers, mode>>
vars == <<rows, history, locks, pc, work>>

NoWork == [events |-> <<>>, keys |-> {}, undoes |-> None, everywhere |-> FALSE, took |-> {}]

FirstRows(summary) ==
    [r \in Rows |-> IF r \in Tasks THEN FirstTasks[r]
                    ELSE IF r \in Decisions THEN IF r \in FirstDecisions THEN NewDecision ELSE Absent
                    ELSE IF r \in Criteria THEN [mark |-> "UNKNOWN"]
                    ELSE IF r = Goal THEN [done |-> FALSE]
                    ELSE summary]

Init ==
    \* the summary is NULL, or there is no Project to have one
    /\ saved \in {FirstRows(None), FirstRows(Absent)}
    /\ draft = saved
    /\ log = {} /\ own = [t \in Turns |-> {}] /\ clock = 0
    /\ owner = [r \in Rows |-> None]
    /\ sharers = [t \in Turns |-> {}]
    /\ mode = [t \in Turns |-> "none"]
    /\ pc = [t \in Turns |-> "idle"]
    /\ work = [t \in Turns |-> NoWork]

(***************************************************************************)
(* What a turn sees and how it locks                                       *)
(***************************************************************************)

(* Rows and events in the eyes of turn t: what is committed and its own.      *)
View(t) == [r \in Rows |-> IF owner[r] = t THEN draft[r] ELSE saved[r]]
Visible(t) == {x \in Tasks : View(t)[x] # Absent}
Events(t) == log \cup own[t]

(* Variant of Advisory: the lock is shared also by undo_last_change.          *)
AlwaysShared(t, kind) == mode' = [mode EXCEPT ![t] = "shared"]

(* _lock_world_state.                                                         *)
Advisory(t, kind) ==
    /\ \A u \in Turns \ {t} : mode[u] # "exclusive" /\ (kind = "exclusive" => mode[u] = "none")
    /\ mode' = [mode EXCEPT ![t] = IF @ = "exclusive" THEN @ ELSE kind]

(* Variant of CanLock: rows are read without FOR UPDATE.                      *)
NoForUpdate(t, S) == t \in Turns

CanLock(t, S) == \A r \in S : owner[r] \in {None, t} /\ \A u \in Turns \ {t} : r \notin sharers[u]
LockRows(t, S) ==
    /\ CanLock(t, S)
    /\ owner' = [r \in Rows |-> IF r \in S THEN t ELSE owner[r]]

(* atomic_domain_action: how an action begins.                                *)
Begin(t, kind) == pc[t] = "idle" /\ clock < MaxEvents /\ Advisory(t, kind)

(* An event as _event gets it, of a change of the fields of old to new.       *)
Event(kind, on, row, old, new) ==
    [at |-> 0, kind |-> kind, on |-> on, row |-> row, old |-> old, new |-> new,
     reverses |-> 0, everywhere |-> FALSE]
Nothing == [f \in {} |-> None]
Only(f, v) == [g \in {f} |-> v]
Pick(row, S) == [f \in S |-> row[f]]

(* The rows are written, the events remain to be flushed; the foreign keys of *)
(* the rows written and of the events are keys.                               *)
Write(t, events, keys) ==
    /\ pc' = [pc EXCEPT ![t] = "flushing"]
    /\ work' = [work EXCEPT ![t].events = events,
                            ![t].keys = keys \cup {events[i].on : i \in DOMAIN events}]
    /\ UNCHANGED <<saved, history, sharers>>

(* The action ends without a change (what it asks for is there).              *)
Unwritten == UNCHANGED <<rows, history, sharers, pc, work>>

(***************************************************************************)
(* Graphs                                                                  *)
(***************************************************************************)

(* Variant of ValidParent: only the parent itself is looked at.               *)
NotItself(row, child, parent) == parent # child

(* _validate_parent_chain: the chain that starts at the new parent ends, and  *)
(* does not pass the child.                                                   *)
ValidParent(row, child, parent) ==
    \/ parent = None
    \/ \E chain \in SUBSET {x \in Tasks \ {child} : row[x] # Absent} :
           /\ parent \in chain
           /\ \A x \in chain : row[x].parent \in chain \cup {None}
           /\ \A C \in (SUBSET chain) \ {{}} : \E x \in C : row[x].parent \notin C

(* Variant of WouldCycle: only the first row is looked at.                    *)
SelfCycle(row, prerequisite, dependent) == prerequisite = dependent

(* _dependency_would_cycle: the search from the dependent along the           *)
(* dependencies reaches the prerequisite.                                     *)
WouldCycle(row, prerequisite, dependent) ==
    \A seen \in SUBSET {x \in Tasks : row[x] # Absent} :
        /\ dependent \in seen
        /\ \A x \in Tasks : row[x] # Absent /\ row[x].needs \cap seen # {} => x \in seen
        => prerequisite \in seen

(***************************************************************************)
(* Actions of a turn                                                       *)
(***************************************************************************)

CreateTask(t, x, row) ==
    /\ Begin(t, "shared")
    /\ saved[x] = Absent /\ owner[x] = None
    /\ row.needs \cup ({row.parent} \ {None}) \subseteq Visible(t)
    /\ owner' = [owner EXCEPT ![x] = t]
    /\ draft' = [draft EXCEPT ![x] = row]
    /\ Write(t, <<Event("recorded", x, x, Nothing, row)>>,
             row.needs \cup ({row.parent} \ {None}) \cup (IF row.linked THEN {Goal} ELSE {}))

(* A change of the fields of row x that values gives, of those that differ.   *)
Change(t, x, on, values, keys) ==
    LET old == View(t)[x]
        changed == {f \in DOMAIN values : values[f] # old[f]}
    IN  /\ changed # {}
        /\ draft' = [draft EXCEPT ![x] = [f \in DOMAIN old |->
                                              IF f \in changed THEN values[f] ELSE old[f]]]
        /\ Write(t, <<Event("changed", on, x, Pick(old, changed), Pick(values, changed))>>, keys)

(* A command that names the parent locks every row of the type first.         *)
UpdateTask(t, x, values) ==
    /\ Begin(t, "shared")
    /\ x \in Visible(t)
    /\ LockRows(t, IF "parent" \in DOMAIN values THEN Visible(t) ELSE {x})
    /\ "parent" \in DOMAIN values => ValidParent(View(t), x, values.parent)
    /\ Change(t, x, x, values, IF "parent" \in DOMAIN values THEN {values.parent} \ {None} ELSE {})

UpdateGoal(t, done) ==
    /\ Begin(t, "shared")
    /\ LockRows(t, {Goal})
    /\ Change(t, Goal, Goal, Only("done", done), {})

UpdateCriterion(t, c, mark) ==
    /\ Begin(t, "shared")
    /\ LockRows(t, {c})
    /\ Change(t, c, Goal, Only("mark", mark), {})

(* link_task_goal; create_relation and link_project_goal have the same shape. *)
LinkTaskGoal(t, x) ==
    /\ Begin(t, "shared")
    /\ x \in Visible(t)
    /\ LockRows(t, {x, Goal})
    /\ \/ /\ View(t)[x].linked
          /\ Unwritten
       \/ /\ ~View(t)[x].linked
          /\ draft' = [draft EXCEPT ![x] = [View(t)[x] EXCEPT !.linked = TRUE]]
          /\ Write(t, <<Event("recorded", x, x, Only("linked", FALSE), Only("linked", TRUE))>>, {})

AddDependency(t, prerequisite, dependent) ==
    LET needs == View(t)[dependent].needs
        more == needs \cup {prerequisite}
    IN  /\ Begin(t, "shared")
        /\ {prerequisite, dependent} \subseteq Visible(t)
        /\ LockRows(t, Visible(t))
        /\ \/ /\ prerequisite \in needs
              /\ Unwritten
           \/ /\ prerequisite \notin needs
              /\ ~WouldCycle(View(t), prerequisite, dependent)
              /\ draft' = [draft EXCEPT ![dependent] = [View(t)[dependent] EXCEPT !.needs = more]]
              /\ Write(t, <<Event("recorded", dependent, dependent,
                                  Only("needs", needs), Only("needs", more))>>, {prerequisite})

(* Variant of Revocable: any Decision there is.                               *)
AnyDecision(t, d) == View(t)[d] # Absent

(* _active_decision and the check of its status.                              *)
Revocable(t, d) ==
    /\ View(t)[d] # Absent
    /\ View(t)[d].status = "ACTIVE"
    /\ View(t)[d].successor = None

CreateDecision(t, d) ==
    /\ Begin(t, "shared")
    /\ saved[d] = Absent /\ owner[d] = None
    /\ LockRows(t, {d})
    /\ draft' = [draft EXCEPT ![d] = NewDecision]
    /\ Write(t, <<Event("recorded", d, d, Nothing, NewDecision)>>, {})

(* create_decision with supersedes_decision_id.                               *)
SupersedeDecision(t, d, old) ==
    LET row == [NewDecision EXCEPT !.supersedes = old]
        before == [status |-> "ACTIVE", successor |-> None]
        after == [status |-> "SUPERSEDED", successor |-> d]
    IN  /\ Begin(t, "shared")
        /\ saved[d] = Absent /\ owner[d] = None
        /\ LockRows(t, {d, old})
        /\ Revocable(t, old)
        /\ draft' = [draft EXCEPT ![d] = row,
                                  ![old] = [View(t)[old] EXCEPT !.status = "SUPERSEDED",
                                                                !.successor = d]]
        /\ Write(t, <<Event("recorded", old, old, before, after),
                      Event("recorded", d, d, Nothing, row)>>, {})

RevokeDecision(t, d) ==
    /\ Begin(t, "shared")
    /\ LockRows(t, {d})
    /\ Revocable(t, d)
    /\ draft' = [draft EXCEPT ![d] = [View(t)[d] EXCEPT !.status = "REVOKED"]]
    /\ Write(t, <<Event("recorded", d, d, Only("status", "ACTIVE"), Only("status", "REVOKED"))>>, {})

(* cache_project_summary: a text written from all that is recorded by now.    *)
CacheSummary(t) ==
    /\ Begin(t, "shared")
    /\ View(t)[Project] # Absent
    /\ LockRows(t, {Project})
    /\ draft' = [draft EXCEPT ![Project] = {e.at : e \in Events(t)}]
    /\ UNCHANGED <<saved, history, sharers, pc, work>>

(* An action that is refused keeps nothing but the advisory lock.             *)
Refused(t) ==
    /\ Begin(t, "shared")
    /\ UNCHANGED <<rows, history, owner, sharers, pc, work>>

(***************************************************************************)
(* undo_last_change                                                        *)
(***************************************************************************)

(* Events t can reverse: of the listed types, and reversed by none it sees.   *)
Undoable(t) ==
    {e \in Events(t) : e.kind = "changed" /\ \A u \in Events(t) : u.reverses # e.at}
(* Variant of Newest: the order is forgotten.                                 *)
Anyone(S) == {e \in S : TRUE}

(* order_by(created_at.desc()).limit(1).                                      *)
Newest(S) == {e \in S : \A f \in S : f.at <= e.at}

(* The entity is locked and the last change of it is taken.  Without an       *)
(* entity_id it is the entity of the last change of all, and no other turn    *)
(* may have begun an action.                                                  *)
BeginUndo(t, x, everywhere) ==
    /\ Begin(t, IF everywhere THEN "exclusive" ELSE "shared")
    /\ everywhere => \E e \in Newest(Undoable(t)) : e.on = x
    /\ View(t)[x] # Absent
    /\ LockRows(t, {x})
    /\ pc' = [pc EXCEPT ![t] = "undoing"]
    /\ \E e \in Newest({e \in Undoable(t) : e.on = x}) :
           work' = [work EXCEPT ![t].undoes = e,
                                ![t].everywhere = everywhere,
                                ![t].took = {x} \ {r \in Rows : owner[r] = t}]
    /\ UNCHANGED <<rows, history, sharers>>

(* The row (a criterion is locked only now) gets back the old values, and the *)
(* inverse event is prepared.                                                 *)
Restore(t) ==
    LET e == work[t].undoes
        old == View(t)[e.row]
        parent == IF "parent" \in DOMAIN e.old THEN {e.old.parent} \ {None} ELSE {}
        inverse == [Event("undone", e.on, e.row, Pick(old, DOMAIN e.old), e.old)
                       EXCEPT !.reverses = e.at, !.everywhere = work[t].everywhere]
    IN  /\ pc[t] = "undoing"
        /\ old # Absent
        /\ LockRows(t, {e.row})
        /\ "parent" \in DOMAIN e.old => ValidParent(View(t), e.row, e.old.parent)
        /\ draft' = [draft EXCEPT ![e.row] = [f \in DOMAIN old |->
                                                 IF f \in DOMAIN e.old THEN e.old[f] ELSE old[f]]]
        /\ Write(t, <<inverse>>, parent)
        /\ UNCHANGED mode

(* There is no such row (_active_task), or the old parent has come to be below*)
(* the task: the action is rolled back, and with it the lock it took.         *)
RefuseUndo(t) ==
    /\ pc[t] = "undoing"
    /\ LET e == work[t].undoes
       IN  \/ View(t)[e.row] = Absent
           \/ "parent" \in DOMAIN e.old /\ ~ValidParent(View(t), e.row, e.old.parent)
    /\ owner' = [r \in Rows |-> IF r \in work[t].took THEN None ELSE owner[r]]
    /\ pc' = [pc EXCEPT ![t] = "idle"]
    /\ work' = [work EXCEPT ![t] = NoWork]
    /\ UNCHANGED <<rows, history, sharers, mode>>

(***************************************************************************)
(* Events and the end of a turn                                            *)
(***************************************************************************)

(* Variant of Projects: the cache is not cleared.                             *)
NoProject(t) == IF View(t)[Project] = Absent THEN {} ELSE {}

Projects(t) == IF View(t)[Project] = Absent THEN {} ELSE {Project}

(* _event and _append_event: the flush checks the foreign keys, the summary   *)
(* of every Project is cleared, the events are appended.                      *)
Flush(t) ==
    LET events == work[t].events
    IN  /\ pc[t] = "flushing"
        /\ \A r \in work[t].keys : owner[r] \in {None, t}
        /\ LockRows(t, Projects(t))
        /\ draft' = [r \in Rows |-> IF r \in Projects(t) THEN None ELSE draft[r]]
        /\ clock + Len(events) <= MaxEvents
        /\ own' = [own EXCEPT ![t] = @ \cup {[events[i] EXCEPT !.at = clock + i] :
                                                 i \in DOMAIN events}]
        /\ clock' = clock + Len(events)
        /\ sharers' = [sharers EXCEPT ![t] = @ \cup work[t].keys]
        /\ pc' = [pc EXCEPT ![t] = "idle"]
        /\ work' = [work EXCEPT ![t] = NoWork]
        /\ UNCHANGED <<saved, log, mode>>

(* The locks of a turn that ends.                                             *)
Release(t) ==
    /\ owner' = [r \in Rows |-> IF owner[r] = t THEN None ELSE owner[r]]
    /\ sharers' = [sharers EXCEPT ![t] = {}]
    /\ mode' = [mode EXCEPT ![t] = "none"]
    /\ own' = [own EXCEPT ![t] = {}]
    /\ UNCHANGED clock

Commit(t) ==
    /\ pc[t] = "idle" /\ mode[t] # "none"
    /\ saved' = View(t)
    /\ log' = log \cup own[t]
    /\ Release(t)
    /\ UNCHANGED <<draft, pc, work>>

Abort(t) ==
    /\ mode[t] # "none"
    /\ draft' = [r \in Rows |-> IF owner[r] = t THEN saved[r] ELSE draft[r]]
    /\ Release(t)
    /\ pc' = [pc EXCEPT ![t] = "idle"]
    /\ work' = [work EXCEPT ![t] = NoWork]
    /\ UNCHANGED <<saved, log>>

Asked(command) == command \in Commands

Next ==
    \E t \in Turns :
        \/ Asked("task") /\ \E x \in Tasks, row \in NewTasks : CreateTask(t, x, row)
        \/ Asked("task") /\ \E x \in Tasks, values \in TaskUpdates : UpdateTask(t, x, values)
        \/ Asked("goal") /\ \E done \in BOOLEAN : UpdateGoal(t, done)
        \/ Asked("goal") /\ \E c \in Criteria, mark \in Marks : UpdateCriterion(t, c, mark)
        \/ Asked("link") /\ \E x \in Tasks : LinkTaskGoal(t, x)
        \/ Asked("link") /\ \E x, y \in Tasks : AddDependency(t, x, y)
        \/ \E d \in Decisions : CreateDecision(t, d)
        \/ \E d, e \in Decisions : SupersedeDecision(t, d, e)
        \/ \E d \in Decisions : RevokeDecision(t, d)
        \/ Asked("summary") /\ CacheSummary(t)
        \/ Asked("undo") /\ \E x \in Tasks \cup {Goal}, everywhere \in BOOLEAN :
                                BeginUndo(t, x, everywhere)
        \/ Restore(t)
        \/ RefuseUndo(t)
        \/ Refused(t)
        \/ Flush(t)
        \/ Commit(t)
        \/ Abort(t)

Spec == Init /\ [][Next]_vars

(***************************************************************************)
(* Properties                                                              *)
(***************************************************************************)

FieldType ==
    [parent |-> Tasks \cup {None}, done |-> BOOLEAN, needs |-> SUBSET Tasks, linked |-> BOOLEAN,
     mark |-> Marks, status |-> Statuses,
     supersedes |-> Decisions \cup {None}, successor |-> Decisions \cup {None}]
IsChange(c) == DOMAIN c \subseteq DOMAIN FieldType /\ \A f \in DOMAIN c : c[f] \in FieldType[f]
IsEvent(e) ==
    /\ e.at \in 0 .. MaxEvents /\ e.reverses \in 0 .. MaxEvents
    /\ e.kind \in {"recorded", "changed", "undone"}
    /\ e.on \in Entities /\ e.row \in Entities \cup Criteria
    /\ IsChange(e.old) /\ IsChange(e.new)
    /\ e.everywhere \in BOOLEAN

RowsTyped(row) ==
    /\ \A x \in Tasks : row[x] \in TaskRow \cup {Absent}
    /\ \A d \in Decisions : row[d] \in DecisionRow \cup {Absent}
    /\ \A c \in Criteria : row[c] \in CriterionRow
    /\ row[Goal] \in GoalRow
    /\ row[Project] \in {None, Absent} \cup SUBSET (1 .. MaxEvents)

(* Type of the tables, of the locks and of the turns.                         *)
TypeOK ==
    /\ DOMAIN saved = Rows /\ RowsTyped(saved)
    /\ DOMAIN draft = Rows /\ RowsTyped(draft)
    /\ \A e \in log : IsEvent(e)
    /\ \A t \in Turns : \A e \in own[t] : IsEvent(e)
    /\ clock \in 0 .. MaxEvents
    /\ owner \in [Rows -> Turns \cup {None}]
    /\ sharers \in [Turns -> SUBSET Rows]
    /\ mode \in [Turns -> {"none", "shared", "exclusive"}]
    /\ pc \in [Turns -> {"idle", "undoing", "flushing"}]
    /\ \A t \in Turns : \A i \in DOMAIN work[t].events : IsEvent(work[t].events[i])
    /\ \A t \in Turns : work[t].keys \subseteq Rows /\ work[t].took \subseteq Rows

(* Committed events on a field of a row, and those no committed event         *)
(* reverses.                                                                  *)
Touching(r, f) == {e \in log : e.row = r /\ f \in DOMAIN e.new}
Standing(r, f) ==
    {e \in Touching(r, f) : e.kind # "undone" /\ \A u \in log : u.reverses # e.at}
Latest(S) == CHOOSE e \in S : \A f \in S : f.at <= e.at
ValueAfter(S, r, f) == IF S = {} THEN FirstRows(None)[r][f] ELSE Latest(S).new[f]
Described == {r \in Rows \ {Project} : saved[r] # Absent}

(* What is stored is what the changes that stand say, the last one for each   *)
(* field: reversed changes have left no trace, and no change of another turn  *)
(* was lost or restored on the way.                                           *)
HistoryExplains ==
    \A r \in Described : \A f \in DOMAIN saved[r] :
        saved[r][f] = ValueAfter(Standing(r, f), r, f)

(* The history has no gaps: the old value of each event is the value the      *)
(* event before it has left.                                                  *)
HistoryGapless ==
    \A e \in log : \A f \in DOMAIN e.old :
        e.old[f] = ValueAfter({d \in Touching(e.row, f) : d.at < e.at}, e.row, f)

(* An undo reverses what was the last change when it was recorded, of its     *)
(* entity or, without an entity, of all; and never one that is reversed.      *)
UndoesTheLast ==
    /\ \A u, e \in log :
           /\ u.kind = "undone" /\ e.kind = "changed"
           /\ u.reverses < e.at /\ e.at < u.at
           /\ u.everywhere \/ e.on = u.on
           => \E v \in log : v.reverses = e.at /\ v.at < u.at
    /\ \A u, v \in log : u.reverses = v.reverses /\ u.reverses # 0 => u = v

(* Task dependencies have no cycle, although two turns add to them at once.   *)
DependenciesAcyclic == NeedsAcyclicIn(saved)

(* Tasks whose parent is one an undo has put back.                            *)
Restored == {x \in Tasks : \E e \in Touching(x, "parent") :
                 e = Latest(Touching(x, "parent")) /\ e.kind = "undone"}
(* No reparenting closes a cycle of parents, not even with one restored edge: *)
(* in a cycle at least two of the edges were put back by undos.               *)
CyclesTakeTwoUndos ==
    \A C \in (SUBSET {x \in Tasks : saved[x] # Absent}) \ {{}} :
        (\A x \in C : saved[x].parent \in C) => \E x, y \in C \cap Restored : x # y

(* A cached summary does not outlive an event: every event recorded since it  *)
(* was written has cleared it.                                                *)
SummaryCurrent ==
    saved[Project] \notin {None, Absent} => \A e \in log : e.at \in saved[Project]

(* DATA_INVARIANT_AUDIT_V0_1.md: "parent cycles ... validated".               *)
ParentsAcyclic == ParentsAcyclicIn(saved)
=============================================================================
