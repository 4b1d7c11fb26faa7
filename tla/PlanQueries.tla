---------------------------- MODULE PlanQueries ----------------------------
(***************************************************************************)
(* What PlanningQueryService (services/planning_query.py) computes about   *)
(* one Plan: whether a version is stale, and the next action; with the     *)
(* part of planning.py that prepares it: the basis of a version and the    *)
(* check of its dependencies.                                              *)
(*                                                                         *)
(* Two clocks matter.  An event is stamped when it is appended; a version  *)
(* and a link are stamped with now() of the database, which is the start of*)
(* their transaction.  Turns run concurrently at READ COMMITTED and hold   *)
(* the Plan's row lock from the first planning action; a change of a Goal  *)
(* holds its row, one of a success criterion shares it (the foreign key of *)
(* the event), and both update the Projects (WorldState).                  *)
(* Approval and progress over time are in PlanLineage.                     *)
(***************************************************************************)
EXTENDS Integers, FiniteSets, Sequences

CONSTANTS
    Goals,
    Turns,
    None,
    Contents,        \* of a Candidate: its items by ordinal, prerequisite before dependent
    HasProject,      \* there is a Project, whose row every change of a Goal updates
    MaxClock,        \* bound: the clock
    MaxVersions      \* bound: versions

Progress == {"NOT_STARTED", "IN_PROGRESS", "WAITING", "BLOCKED", "DONE", "SKIPPED"}

ItemsOf(content) == {content.order[i] : i \in DOMAIN content.order}

ASSUME QueriesAssumption ==
    /\ \A c \in Contents : /\ c.order \in Seq(ItemsOf(c))
                           /\ c.edges \subseteq ItemsOf(c) \X ItemsOf(c)
                           /\ None \notin ItemsOf(c)
    /\ None \notin Goals \cup Turns
    /\ HasProject \in BOOLEAN
    /\ MaxClock \in Nat /\ MaxVersions \in Nat

VARIABLES
    clock,
    began,           \* of a turn: now() of its transaction, 0 outside one
    events, own,     \* Goal events: committed, and of each open turn
    links, ownLinks, \* PlanGoalLinks, in the same way
    versions, ownVersions,
    planLock,        \* who holds the Plan's row,
    projectLock,     \* the Projects' rows
    goalLock,        \* of a turn: Goals it holds, and
    goalShare        \* Goals it shares

locks == <<planLock, projectLock, goalLock, goalShare>>
vars == <<clock, began, events, own, links, ownLinks, versions, ownVersions, locks>>

Init ==
    /\ clock = 0
    /\ began = [t \in Turns |-> 0]
    /\ events = {[on |-> g, at |-> 0] : g \in Goals}       \* GOAL_CREATED
    /\ own = [t \in Turns |-> {}]
    /\ links = {} /\ ownLinks = [t \in Turns |-> {}]
    /\ versions = {} /\ ownVersions = [t \in Turns |-> {}]
    /\ planLock = None /\ projectLock = None
    /\ goalLock = [t \in Turns |-> {}] /\ goalShare = [t \in Turns |-> {}]

(***************************************************************************)
(* Dependencies of the items of a version                                  *)
(***************************************************************************)

Prerequisites(content, i) == {e[1] : e \in {d \in content.edges : d[2] = i}}

(* Variant of Settled: an item waits for one of its prerequisites.            *)
SettledByOne(content, done) ==
    {i \in ItemsOf(content) : LET P == Prerequisites(content, i) IN P = {} \/ P \cap done # {}}

(* The items whose indegree is 0 once the items of done have been taken out.  *)
Settled(content, done) == {i \in ItemsOf(content) : Prerequisites(content, i) \subseteq done}

(* _assert_acyclic, also the loop of the audit's _verify_planning: items are  *)
(* taken out as their indegree comes to 0, one round per item at most (in     *)
(* which order they leave the frontier makes no difference to what leaves it).*)
Visited(content) ==
    LET visited[n \in 0 .. Cardinality(ItemsOf(content))] ==
            IF n = 0 THEN {} ELSE Settled(content, visited[n - 1])
    IN  visited
Accepted(content) == Visited(content)[Cardinality(ItemsOf(content))] = ItemsOf(content)

(* The first of the items S by ordinal.                                       *)
First(content, S) ==
    IF S = {} THEN None
    ELSE LET i == CHOOSE i \in DOMAIN content.order :
                      /\ content.order[i] \in S
                      /\ \A j \in 1 .. i - 1 : content.order[j] \notin S
         IN  content.order[i]

(* Variant of NextAction: prerequisites are not looked at.                    *)
NextNotStarted(content, progress) ==
    LET with(status) == {i \in ItemsOf(content) : progress[i] = status}
    IN  IF with("IN_PROGRESS") # {} THEN First(content, with("IN_PROGRESS"))
        ELSE First(content, with("NOT_STARTED"))

(* get_next_action on the Approved version.                                   *)
NextAction(content, progress) ==
    LET with(status) == {i \in ItemsOf(content) : progress[i] = status}
        ready == {i \in with("NOT_STARTED") : Prerequisites(content, i) \subseteq with("DONE")}
    IN  First(content, IF with("IN_PROGRESS") # {} THEN with("IN_PROGRESS") ELSE ready)

(***************************************************************************)
(* Turns                                                                   *)
(***************************************************************************)

EventsSeen(t, g) == {e.at : e \in {d \in events \cup own[t] : d.on = g}}
LinksSeen(t) == links \cup ownLinks[t]
Latest(S) == CHOOSE n \in S : \A m \in S : m <= n
Open(t) == began[t] # 0

BeginTurn(t) ==
    /\ ~Open(t) /\ clock < MaxClock
    /\ clock' = clock + 1
    /\ began' = [began EXCEPT ![t] = clock + 1]
    /\ UNCHANGED <<events, own, links, ownLinks, versions, ownVersions, locks>>

(* A canonical change of a Goal, or of one of its criteria, and its event.    *)
ChangeGoal(t, g, criterion) ==
    /\ Open(t) /\ clock < MaxClock
    /\ \A u \in Turns \ {t} : g \notin goalLock[u] /\ (criterion \/ g \notin goalShare[u])
    /\ HasProject => projectLock \in {None, t}
    /\ clock' = clock + 1
    /\ own' = [own EXCEPT ![t] = @ \cup {[on |-> g, at |-> clock + 1]}]
    /\ goalLock' = [goalLock EXCEPT ![t] = IF criterion THEN @ ELSE @ \cup {g}]
    /\ goalShare' = [goalShare EXCEPT ![t] = @ \cup {g}]
    /\ projectLock' = IF HasProject THEN t ELSE None
    /\ UNCHANGED <<began, events, links, ownLinks, versions, ownVersions, planLock>>

(* link_goal.                                                                 *)
LinkGoal(t, g) ==
    /\ Open(t) /\ planLock \in {None, t}
    /\ \A l \in LinksSeen(t) : l.goal # g
    /\ ownLinks' = [ownLinks EXCEPT ![t] = @ \cup {[goal |-> g, at |-> began[t]]}]
    /\ planLock' = t
    /\ UNCHANGED <<clock, began, events, own, links, versions, ownVersions, projectLock, goalLock, goalShare>>

(* Variant of Baseline: the first event there is.                             *)
OldestEvent(t, g) == CHOOSE n \in EventsSeen(t, g) : \A m \in EventsSeen(t, g) : n <= m
(* What is recorded of a linked Goal that the command does not name.          *)
Baseline(t, g) == Latest(EventsSeen(t, g))

(* create_candidate_version, as far as basis and items go.  stated is the     *)
(* basis in the command; seen is not stored: the events of each Goal that the *)
(* version was built on.                                                      *)
CreateCandidate(t, content, stated) ==
    LET added == {l.goal : l \in LinksSeen(t)} \ DOMAIN stated
        basis == [g \in DOMAIN stated \cup added |->
                     IF g \in added THEN Baseline(t, g) ELSE stated[g]]
    IN  /\ Open(t) /\ planLock \in {None, t}
        /\ Cardinality(versions) + Cardinality(ownVersions[t]) < MaxVersions
        /\ \A g \in DOMAIN stated : stated[g] \in EventsSeen(t, g)
        /\ Accepted(content)
        /\ ownVersions' = [ownVersions EXCEPT ![t] = @ \cup
               {[at |-> began[t], basis |-> basis, content |-> content, committed |-> 0,
                 seen |-> [g \in Goals |->
                              IF g \in DOMAIN stated
                              THEN {n \in EventsSeen(t, g) : n <= stated[g]}
                              ELSE EventsSeen(t, g)]]}]
        /\ planLock' = t
        /\ UNCHANGED <<clock, began, events, own, links, ownLinks, versions, projectLock,
                       goalLock, goalShare>>

Ended(t) ==
    /\ began' = [began EXCEPT ![t] = 0]
    /\ own' = [own EXCEPT ![t] = {}]
    /\ ownLinks' = [ownLinks EXCEPT ![t] = {}]
    /\ ownVersions' = [ownVersions EXCEPT ![t] = {}]
    /\ planLock' = IF planLock = t THEN None ELSE planLock
    /\ projectLock' = IF projectLock = t THEN None ELSE projectLock
    /\ goalLock' = [goalLock EXCEPT ![t] = {}]
    /\ goalShare' = [goalShare EXCEPT ![t] = {}]

Commit(t) ==
    /\ Open(t) /\ clock < MaxClock
    /\ clock' = clock + 1
    /\ events' = events \cup own[t]
    /\ links' = links \cup ownLinks[t]
    /\ versions' = versions \cup {[v EXCEPT !.committed = clock + 1] : v \in ownVersions[t]}
    /\ Ended(t)

Abort(t) ==
    /\ Open(t)
    /\ Ended(t)
    /\ UNCHANGED <<clock, events, links, versions>>

(* What a command may state of the Goals.                                     *)
Stated == UNION {[G -> 0 .. MaxClock] : G \in SUBSET Goals}

Next ==
    \E t \in Turns :
        \/ BeginTurn(t)
        \/ \E g \in Goals, criterion \in BOOLEAN : ChangeGoal(t, g, criterion)
        \/ \E g \in Goals : LinkGoal(t, g)
        \/ \E content \in Contents, stated \in Stated : CreateCandidate(t, content, stated)
        \/ Commit(t)
        \/ Abort(t)

Spec == Init /\ [][Next]_vars

(***************************************************************************)
(* assess_plan_staleness, in a transaction of its own                      *)
(***************************************************************************)

EventsOf(g) == {e.at : e \in {d \in events : d.on = g}}

(* An event that is later than the recorded one.                              *)
ChangedBasis(v) == {g \in DOMAIN v.basis : \E n \in EventsOf(g) : n > v.basis[g]}

(* Variant of ChangedLinks: only what happened to the Goal counts.            *)
ChangedOnly(v) ==
    {l.goal : l \in {k \in links : /\ k.goal \notin DOMAIN v.basis
                                   /\ \E n \in EventsOf(k.goal) : n > v.at}}
(* Linked Goals that are not in the basis: the link is later than the         *)
(* version, or so is an event.                                                *)
ChangedLinks(v) ==
    {l.goal : l \in {k \in links : /\ k.goal \notin DOMAIN v.basis
                                   /\ k.at > v.at \/ \E n \in EventsOf(k.goal) : n > v.at}}

Changed(v) == ChangedBasis(v) \cup ChangedLinks(v)

(***************************************************************************)
(* Properties                                                              *)
(***************************************************************************)

(* Type of the tables and of the open turns.                                  *)
TypeOK ==
    /\ clock \in 0 .. MaxClock
    /\ began \in [Turns -> 0 .. MaxClock]
    /\ \A e \in events \cup UNION {own[t] : t \in Turns} : e.on \in Goals /\ e.at \in 0 .. MaxClock
    /\ \A l \in links \cup UNION {ownLinks[t] : t \in Turns} :
           l.goal \in Goals /\ l.at \in 1 .. MaxClock
    /\ \A v \in versions \cup UNION {ownVersions[t] : t \in Turns} :
           /\ v.at \in 1 .. MaxClock
           /\ v.basis \in Stated
           /\ v.content \in Contents
    /\ planLock \in Turns \cup {None} /\ projectLock \in Turns \cup {None}
    /\ goalLock \in [Turns -> SUBSET Goals] /\ goalShare \in [Turns -> SUBSET Goals]

(* A version is reported stale for a Goal of its basis if and only if a       *)
(* change of the Goal was committed that it was not built on, whatever the    *)
(* order in which the changes were stamped and committed.                     *)
StaleExactly ==
    \A v \in versions : \A g \in DOMAIN v.basis :
        g \in ChangedBasis(v) <=> EventsOf(g) \ v.seen[g] # {}

(* A Goal that the version does not know and a later turn links to the Plan   *)
(* makes it stale, and so does every later change of a linked Goal.           *)
LateGoalsReported ==
    \A v \in versions : \A l \in links :
        \/ l.at > v.committed /\ l.goal \notin DOMAIN v.basis
        \/ \E n \in EventsOf(l.goal) : n > v.committed
        => l.goal \in Changed(v)

(* No set of items in which each waits for one of the set; and whatever has   *)
(* none is accepted.                                                          *)
Circular(content) ==
    \E C \in (SUBSET ItemsOf(content)) \ {{}} : \A i \in C : Prerequisites(content, i) \cap C # {}
DependenciesChecked ==
    /\ \A v \in versions : ~Circular(v.content)
    /\ \A c \in Contents : Accepted(c) \/ Circular(c)

(* PLANNING_V0_3 section 11, for every progress: what is proposed can be done *)
(* now, and nothing is proposed only if every item left is set aside or waits *)
(* for one that is.                                                           *)
SetAside == {"WAITING", "BLOCKED", "SKIPPED"}
NextActionSound ==
    \A v \in versions : \A progress \in [ItemsOf(v.content) -> Progress] :
        LET i == NextAction(v.content, progress)
        IN  IF i = None
            THEN (\E j \in ItemsOf(v.content) : progress[j] # "DONE")
                     => \E j \in ItemsOf(v.content) : progress[j] \in SetAside
            ELSE \/ progress[i] = "IN_PROGRESS"
                 \/ /\ progress[i] = "NOT_STARTED"
                    /\ \A j \in Prerequisites(v.content, i) : progress[j] = "DONE"
                    /\ \A j \in ItemsOf(v.content) : progress[j] # "IN_PROGRESS"
=============================================================================
