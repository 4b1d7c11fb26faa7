----------------------------- MODULE WorldAudit -----------------------------
(***************************************************************************)
(* The audit of the tables of WorldState (support/consistency.py): typed   *)
(* rows, history, relations, supersede chains and cycles.                  *)
(*                                                                         *)
(* As in PlanAudit it reads one table after the other at READ COMMITTED,   *)
(* and an audit that one commit interrupts is the step of that commit with *)
(* the number of tables read by then.  Provenance is not modelled.         *)
(***************************************************************************)
EXTENDS WorldState, FiniteSets

(* The tables are finite.                                                     *)
ASSUME AuditAssumption == IsFiniteSet(Rows)

(* Tables in the order they are read.                                         *)
Tables == <<"entities", "tasks", "decisions", "events", "links", "dependencies">>

(* What each read finds when the first n of them precede the commit; before   *)
(* and after are the rows and the events on either side of it.                *)
Look(n, before, after) ==
    [t \in {Tables[i] : i \in DOMAIN Tables} |->
        IF \E i \in 1 .. n : Tables[i] = t THEN before ELSE after]

(***************************************************************************)
(* _verify_directed_cycles: a depth-first search that reports the nodes it *)
(* comes back to while it is still visiting them.  path is the stack of the*)
(* calls of visit that have not returned, and its nodes are the set        *)
(* visiting; calls are those still to be made, by the node on top or, from *)
(* None, by the loop over all nodes.  They come in any order.              *)
(***************************************************************************)

Calls(graph) ==
    (UNION {{node} \X graph[node] : node \in DOMAIN graph}) \cup ({None} \X DOMAIN graph)
Visiting(path) == {path[i] : i \in DOMAIN path}
Top(path) == IF path = <<>> THEN None ELSE path[Len(path)]

(* Variant of Visit: one set of nodes seen instead of two.                    *)
SeenBefore(search, node) ==
    IF node \in Visiting(search.path) \cup search.visited
    THEN [search EXCEPT !.reported = @ \cup {node}]
    ELSE [search EXCEPT !.path = Append(@, node)]

Visit(search, node) ==
    IF node \in Visiting(search.path) THEN [search EXCEPT !.reported = @ \cup {node}]
    ELSE IF node \in search.visited THEN search
    ELSE [search EXCEPT !.path = Append(@, node)]

Leave(search) ==
    IF search.path = <<>> THEN search
    ELSE [search EXCEPT !.path = SubSeq(@, 1, Len(@) - 1),
                        !.visited = @ \cup {Top(search.path)}]

Advance(search) ==
    LET due == {call \in search.calls : call[1] = Top(search.path)}
        call == CHOOSE c \in due : TRUE
    IN  IF due = {} THEN Leave(search)
        ELSE Visit([search EXCEPT !.calls = @ \ {call}], call[2])

(* Each call is made once, and returns once if it enters a node.              *)
Rounds(graph) == 2 * Cardinality(Calls(graph))
Search(graph) ==
    LET search[n \in 0 .. Rounds(graph)] ==
            IF n = 0 THEN [path |-> <<>>, calls |-> Calls(graph), visited |-> {}, reported |-> {}]
            ELSE Advance(search[n - 1])
    IN  search
DirectedCycles(graph) == Search(graph)[Rounds(graph)].reported

(***************************************************************************)
(* The graphs, and the issues                                              *)
(***************************************************************************)

Found(issues) == {code \in DOMAIN issues : issues[code]}
Exist(row, S) == {x \in S : row[x] # Absent}
ParentGraph(row) == [x \in {y \in Exist(row, Tasks) : row[y].parent # None} |-> {row[x].parent}]
SuccessorGraph(row) ==
    [d \in {e \in Exist(row, Decisions) : row[e].successor # None} |-> {row[d].successor}]
(* From a prerequisite to its dependents.                                     *)
Dependents(row, x) == {y \in Exist(row, Tasks) : x \in row[y].needs}
DependencyGraph(row) == [x \in {y \in Tasks : Dependents(row, y) # {}} |-> Dependents(row, x)]

Entity(look) == look["entities"].rows
Task(look) == look["tasks"].rows
Decision(look) == look["decisions"].rows
(* There is a Goal (nothing creates or deletes it).                           *)
Identities(look) == Exist(Entity(look), Tasks \cup Decisions) \cup {Goal}

TypedRowIssues(look) ==
    LET typed == Exist(Task(look), Tasks) \cup Exist(Decision(look), Decisions) \cup {Goal}
    IN  Found([PHYSICAL_TYPED_ROW_MISSING |-> Identities(look) \ typed # {},
               TYPED_ROW_WITHOUT_ENTITY |-> typed \ Identities(look) # {}])

HistoryIssues(look) ==
    LET events == look["events"].log
    IN  Found([EVENT_ENTITY_MISSING |-> \E e \in events : e.on \notin Identities(look),
               EVENT_REVERSE_TARGET_MISSING |->
                   \E e \in events : e.reverses # 0 /\ \A f \in events : f.at # e.reverses])

RelationIssues(look) ==
    LET link == look["links"].rows
        dependency == look["dependencies"].rows
    IN  Found([DANGLING_TASK_GOAL_LINK |->
                   \E x \in Exist(link, Tasks) : link[x].linked /\ x \notin Exist(Task(look), Tasks),
               DANGLING_TASK_DEPENDENCY |->
                   \E x \in Exist(dependency, Tasks) :
                       /\ dependency[x].needs # {}
                       /\ ~({x} \cup dependency[x].needs \subseteq Exist(Task(look), Tasks)),
               TASK_DEPENDENCY_CYCLE |-> DirectedCycles(DependencyGraph(dependency)) # {}])

(* The Entity holds the successor, the Decision what it supersedes.           *)
WrongPredecessor(look, d) ==
    LET old == Decision(look)[d].supersedes
    IN  /\ old # None
        /\ \/ old \notin Exist(Decision(look), Decisions) \cap Identities(look)
           \/ Decision(look)[old].status # "SUPERSEDED"
           \/ Entity(look)[old].successor # d
SupersedeIssues(look) ==
    Found([INVALID_SUPERSEDE_CHAIN |->
               \/ \E d \in Exist(Decision(look), Decisions) : WrongPredecessor(look, d)
               \/ \E d \in Identities(look) \cap Decisions :
                      Entity(look)[d].successor \notin Identities(look) \cup {None},
           SUPERSEDE_CYCLE |-> DirectedCycles(SuccessorGraph(Entity(look))) # {}])

ParentIssues(look) ==
    Found([TASK_PARENT_CYCLE |-> DirectedCycles(ParentGraph(Task(look))) # {}])

Issues(look) ==
    TypedRowIssues(look) \cup HistoryIssues(look) \cup RelationIssues(look)
        \cup SupersedeIssues(look) \cup ParentIssues(look)

Committed == [rows |-> saved, log |-> log]

(***************************************************************************)
(* Properties                                                              *)
(***************************************************************************)

(* What an audit may report of sound tables when a turn commits meanwhile.    *)
TornIssues ==
    {"TYPED_ROW_WITHOUT_ENTITY", "EVENT_ENTITY_MISSING", "DANGLING_TASK_GOAL_LINK",
     "DANGLING_TASK_DEPENDENCY", "INVALID_SUPERSEDE_CHAIN"}

(* An audit that no commit interrupts finds nothing, and one that a commit    *)
(* interrupts nothing else than rows whose counterpart it had read before:    *)
(* undone events that are missing and cycles are reported only if they are    *)
(* real, and there are none but of parents.                                   *)
WorldAuditTrusted ==
    [][\A n \in 0 .. Len(Tables) :
           saved' # saved =>
               Issues(Look(n, Committed, Committed'))
                   \subseteq (IF n \in {0, Len(Tables)} THEN {} ELSE TornIssues)
                       \cup (IF ParentsAcyclicIn(saved) /\ ParentsAcyclicIn(saved') THEN {}
                             ELSE {"TASK_PARENT_CYCLE"})]_vars

(* The audit reports a node of every cycle of parents there is, and only      *)
(* nodes that are on one.                                                     *)
CyclesReported ==
    LET reported == DirectedCycles(ParentGraph(saved))
        cyclic == {C \in SUBSET Exist(saved, Tasks) : \A x \in C : saved[x].parent \in C}
    IN  /\ \A C \in cyclic \ {{}} : C \cap reported # {}
        /\ \A x \in reported : \E C \in cyclic :
               x \in C /\ \A y \in C : \E z \in C : saved[z].parent = y
=============================================================================
