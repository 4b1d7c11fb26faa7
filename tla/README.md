# Elowyn: a TLA+ verification project

Elowyn is a personal assistant: a Telegram bot whose turns are transactions on
a PostgreSQL database, with a language-model agent that edits canonical state
only through validated domain services, and a background pipeline that copies
the raw conversation archive into a semantic memory backend (Hindsight). The
modules here are translated from the Python source (paths below are relative to
the repository), checked by TLC on small instances and, for the core of planning,
planning queries, the world state, memory ingestion, memory generations and
observations, proved by TLAPS for every value of the constants.

## 1. Inventory

| Component | State it keeps | Operations | What is hard |
|---|---|---|---|
| Runtime turn (`src/elowyn/runtime.py`, `services/conversation.py`) | Conversation, Message, Source rows; one open transaction per turn | store and commit the user message; answer unless answered; rollback on any error | retry of an answered or half-done turn; answer committed but not sent; wake-up sent before commit |
| Telegram transport (`transport/telegram.py`, `app.py`) | none (polling offset at Telegram) | allow one user; split and send the answer | serial polling is the only protection against concurrent turns; whole-second dates; a chunk fails after others were sent |
| Planning service (`services/planning.py`) | Plan, PlanVersion, items and dependencies, Strategy, PlanItemProgress, PlanVersionPresentation | create plan and candidate, present, approve, reject, reactivate, progress, link goals | one current Candidate and Approved version under concurrent turns; atomic Strategy switch; append-only history |
| Planning resolvers and tools (`assistant/planning_*.py`) | PlanningTurnState (ephemeral placeholders) | resolve the target of a yes or no; register renders; gate replanning | reads before the lock, times of different clocks |
| Planning queries (`services/planning_query.py`) | none | next action, staleness, comparison, history | order over an item graph that must be acyclic; staleness against later Events |
| World state (`services/world_state.py`, `services/domain_mutation.py`) | Entity, Task, Project, Goal, Decision, links, relations; Operation and Event history | create, update, assess, revoke, link, undo | graph acyclicity under concurrent edits, undo as compensation, advisory and row locks |
| Memory ingestion (`services/memory_ingestion.py`, `memory_pipeline.py`) | MemoryIngestionState (lease, attempts, dirty cursor), receipts | claim, retain, receipt, finish, fail, reconcile derived state | expired leases, crash between retain and receipt, poison messages, lost wake-ups |
| Memory generations (`services/memory_rebuild.py`, `memory/generation.py`) | MemoryGeneration journal, registry pointer, backend banks | bootstrap, rebuild, switch, cleanup; route retain to the active bank | switch racing ingestion, recovery of interrupted rebuilds, cleanup racing both |
| Observations and pages (`services/memory_consolidation.py`) | observations, evidence, pages | consolidate, refresh, rebuild | two transactions that insert the same claim; a rebuild beside refreshes; pages are copies |
| Hindsight client (`memory/hindsight.py`) | none | retain and wait, recall, reflect, create and delete banks | a timeout racing a late completion |
| Context composer, deep memory (`services/context_composer.py`, `deep_memory.py`) | none | bounded selection of memories | budgets |
| Consistency verifier, digest, error classes (`support/`) | none | audit of the tables | reads table after table while turns commit |
| Schema, migrations, roles, scripts (`db/`, `alembic/`, `scripts/`, `build/`) | the schema's constraints | provisioning | none modelled; constraints are read as facts about the tables |

How they interact: a Telegram update calls `ElowynRuntime.handle_message`,
which stores the message in one transaction and answers it in a second; the
agent's tools call the planning and world-state services on that second
session, so they share its fate; the commit wakes the ingestion worker (an
asyncio task of the same process) which reads committed messages only; a
rebuild runs in a process of its own and meets the worker at the registry row
lock.

What makes each one correct:

* turns: a committed turn is never run again, a failed one leaves nothing;
* planning: section 3; audits: a sound database is not reported as broken, and
  every parent cycle is reported;
* world state: no parent or dependency cycle is ever committed; every change
  has an event; undo restores exactly what the undone event changed;
* ingestion: a receipt only for what the backend stored; no stored message is
  skipped for ever; derived state catches up;
* generations: whatever has a receipt is in the active bank; the active bank is
  never deleted; one rebuild at a time;
* queries: the next action is an unfinished item whose prerequisites are done,
  and there is one unless the plan is finished or blocked.

## 2. Plan

Done, in this order:

1. `PlanLineage`, `PlanningTurns`, `PlanAuthority` with `MCPlanningTurns`: the
   lifecycle of plans under concurrent, failing and retried turns.
2. `PlanningTurnsProofs`: its invariants for every value of the constants.
3. `MemoryIngestion` with `MCMemoryIngestion`, `MemoryIngestionProofs`: leases,
   receipts, retries and the derived refresh, with liveness.
4. `MemoryGenerations` with `MCMemoryGenerations`, `MemoryGenerationsProofs`:
   rebuild, switch, recovery and cleanup, with the retain of ingestion under
   the registry lock; the theorems: a switch forgets nothing, and all of it is
   one `SemanticMemory` that only grows.
5. `WorldState` with `MCWorldState`: the graphs, the history and the undo under
   row and advisory locks; `WorldStateProofs`: the dependencies stay acyclic;
   `WorldHistoryProofs`: the history, undo and the summary; `WorldCycleProofs`:
   cycles of parents, supersede chains and the audit.
6. `PlanQueries` with `MCPlanQueries`: staleness under two clocks, the check of
   dependencies, the next action.
7. `Observations` with `MCObservations`: refresh and rebuild side by side.
8. `PlanAudit`, `WorldAudit`: the consistency verifier over the states of
   `PlanningTurns` and `WorldState`, with a commit in its middle.
9. `PlanningTurnsProofs`, second part: `PlanningTurns` implements `PlanAuthority`;
   third part: the audit of plans.
10. `PlanQueriesProofs`: staleness is exact, dependencies are checked, the next
    action is right; `ObservationsProofs`: where twins
    come from, summaries, evidence and pages.

Left:

11. `TurnDelivery`: polling, redelivery, chunked sending, against "each message
    is answered in full at most once".

## 3. Planning

### Modules

`PlanLineage` is one plan as a record. Each operation of
`services/planning.py` is an operator from record to record plus its guard:

| Code | Operator |
|---|---|
| `create_plan` | `EmptyPlan` |
| `create_candidate_version` | `CreateCandidateVersion` |
| `record_version_presentation` | `RecordPresentations` |
| `reject_candidate_version` | `CanReject`, `Reject` |
| `approve_plan_version`, `_accept_strategy` | `CanApprove`, `Approve` |
| `reactivate_historical_plan_version` | `CanReactivate`, `Reactivate` |
| `update_plan_item_progress` | `CanUpdateProgress`, `UpdateProgress` |

The content of a version (strategy text, items, dependencies, basis) never
changes after its creation in the code, so only its number and statuses are
kept. All versions of a plan have the same items in the model.

`PlanningTurns` is `ElowynRuntime.handle_message` around it. A message is
stored (`Send`), its turn begins (`Begin`, again after a failure when Telegram
delivers the update again), makes tool calls and ends with `Finish` (the answer,
the presentations, the commit) or `Abort` (rollback, for whatever reason). `db`
is what is committed; `draft[p]` is what the transaction holding the row lock
of plan p sees, and `holder[p]` is its message. A tool that approves, rejects,
reactivates or reports progress first resolves a target without a lock
(`Resolve...`, which fills `target`) and then applies it under the lock with
the checks repeated (`ApprovePlanVersion` and so on); other turns may commit
in between. The fixed routes of `handle_message` (compact plan, explicit
rejection) make the same calls as the tools, so they are sequences of the same
actions. Read-only routes change nothing that is modelled.

Who wrote what is abstracted to messages: a message is a model value that also
names its turn, its source and its answer. Whether its text asks for
replanning is the constant `ReplanIntent`; which tool the agent calls, and
which version it names, is nondeterministic.

Time is a clock of ticks. `sentTick` is when the user sent the message and
`SentAt` its Telegram date, rounded down to a second; `startedAt` is the start
of the turn's transaction, which PostgreSQL's `now()` gives to `presented_at`
and `created_at` of the answer; `repliedAt` is `sent_at` of the answer.

`PlanAuthority` is the promise without the machinery: answers offer versions,
a message grants one offered version, one granted version is the working one.

### Runs

| Run | Instance | Shows |
|---|---|---|
| `planning_lifecycle` | 4 messages, 1 plan, 3 versions, serial turns, symmetry | `LineageSound`, `StrategyAndPlanAgree`, `AppendOnly`, `AuditTrusted`, and that the commits implement `PlanAuthority` |
| `planning_concurrent` | 3 messages (one asks for replanning), 2 conversations, 2 plans of 2 versions, concurrent turns, clock of 2 values | `TypeOK`, `AuthorityPresented`, `UnaskedPlanIsFirst`, `EveryVersionShown`, `FailedTurnLeavesNoTrace` |
| `approval_before_answer` | 2 messages, serial | a finding, below |

The bounds: four messages are what propose, approve, propose, approve needs,
and the return of the first version fits into three versions when the last two
share a turn's tool calls; three concurrent turns are one holding the lock, one
with a stale target and one committing in between. `MaxTools` is the number of
resolutions and renders of a turn, two to create and resolve in one turn, three
to also show. No run needs progress: the system may stop at any time (a user
need not write), so deadlock checking is off and no fairness is assumed.

`UnaskedPlanIsFirst` is about the gate in front of new plans
(`implicit_replanning_result`): without a message that asks for replanning a
plan may only be the first one. Whether there is one already is a SELECT without
a lock (`NoPlanYet`), so that two turns nobody asked may each make a plan, which
TLC reaches. What remains is that they ran side by side: the turn behind a plan
nobody asked for began no later than the first answer about any other plan was
given, and no turn makes two.

`planning_lifecycle` runs its turns one after the other: there the lineage meets
long histories and retries, while the interleavings are those of
`planning_concurrent` and, for every instance, of the theorems.

`PlanAudit` is `_verify_planning` of `support/consistency.py` over these plans.
It reads seven tables one after the other at READ COMMITTED, so that a commit
between two reads is seen by the later ones only; `Look(n, before, after)` is
what it finds when the commit comes after the n-th read, and `Issues` what it
reports of that. Since one commit is one step of `PlanningTurns`, the audit has
no state of its own. `AuditTrusted`: a sound database is reported as sound, and
a commit in the middle can only produce the issues `TornIssues` lists (each of
them does occur), which name rows whose counterpart was read too early. Two
current versions, a Strategy that names no version and an approval by nobody
are never reported in error.

The violation, `approval_before_answer`, is a disagreement between the documents
and the code: `presented_at` is the *start* of the presenting turn, which runs
for as long as the model does. A message the user sends meanwhile is answered
after it and may approve a Candidate that was not readable when it was written.
`docs/specs/PLANNING_V0_3.md` section 9 asks for a pre-existing presentation.

A known limit of the same kind, read from the code and not checked: an answer
stored within the second in which the user replies is "later" than the reply,
since Telegram dates are whole seconds (`TicksPerSecond`), and
`resolve_immediate` then binds a bare yes to the answer before it, if that one
shows an eligible version.

### Proofs

`PlanningTurnsProofs` first proves that each operator of `PlanLineage` keeps
`PlanStates` and `PlanOK` (one Candidate and one Approved version, dense numbers,
approval metadata, Strategy, progress), and then lifts them:

1. `StepShape`: in every step each plan either stays, is edited by the turn
   that holds its lock through one operator, is committed, or is rolled back.
   Everything else is a case distinction over this shape, not over `Next`.
2. `Base` = `TypeOK`, locks are held by running turns only, every copy of every
   plan is `PlanOK`. It is inductive (`BaseInit`, `BaseStep`), and gives
   `TypeCorrect`, `LineageIsSound`, `StrategyAndPlanAlwaysAgree`,
   `ProgressIsKept`.
3. `AuthorityPresented`, `EveryVersionShown` and `FailedTurnLeavesNoTrace` are
   not inductive with `Base` alone: a draft may already name its own running
   turn, and a version is unshown until its turn ends. `Provenance` says so: a
   draft names only answered messages and its holder, an unshown version of it
   has a placeholder registered by the holder, and what gave authority was
   presented by an answered turn. `Full` = `Base` and `Provenance` is inductive
   (`FullStep`), and also gives `HistoryIsAppendOnly`.

The second part of the module proves the refinement and two more invariants over
`Full`:

1. `Grants(s, t, m)` relates what is committed of a plan (s) and what the turn
   of m sees of it (t): t has the approvals of s and, at most, one more, by m,
   of a version newer than all that were approved before. It is kept by every
   tool because of `Spent`: once m has approved, no Candidate that was shown is
   left in its draft, and a new Candidate has a number of which nothing was
   shown (`ShownThere`). `ToolGrants` collects the tools, `GrantsTransitive`
   puts several calls of one turn together.
2. `Known`: the placeholders of a turn name versions it sees, although other
   turns commit and roll back in between (`ViewGrows`), so a commit shows only
   versions that exist.
3. `Granting` = `Full`, `Known`, and `ShownThere`, `Once`, `Spent`
   and `Grants` of every plan, is inductive (`KnownStep`, `GrantsStep`) and
   gives `OneApprovalEach` (`OneApprovalPerMessage`, which the runs check as
   part of `PlanAuthority`).
4. `Origins` adds to `Full` where a plan comes from: the message that made its
   first version (`OriginStays`), which is the holder of the lock while the
   plan is not committed (`OriginKnown`). A plan nobody asked for was made
   when its turn saw no other (`FirstPlan`), so every other one was, or will
   be, committed after that turn began; until then nothing but the clock and
   the lock of the other plan say so. It is inductive (`OriginsOldStep` for
   plans there already, `OriginsNewStep` for a new one) and gives
   `UnaskedPlansComeFirst`.
5. `CommitIsAnswer`: the commit of a plan is `Offer`, `Grant` and `Work` of
   `PlanAuthority`; the working version there is that of the Strategy here
   (`WorkingIsStrategy`). Every other step leaves the mapped variables alone,
   which gives `TurnsImplementAuthority`.

The assumptions are `LineageAssumption` and `TurnsAssumption`, which only fix
the kinds of the constants; nothing is assumed about how many messages, plans
or versions there are, about `SerialTurns` or about the clock.

`ProgressIsKept` states `ProgressKept`, which no run repeats.

The third part proves `AuditTrusted` (`AuditsAreTrusted`). An audit that a commit
interrupts has read each table before or after it (`Torn`), and the order of the
tables says which may come from after while an earlier one is from before. Three
facts are enough for every issue, one lemma per group of issues (`VersionsTorn`,
`PresentationsTorn`, `ApprovalsTorn`, `ProgressTorn`): what is committed is sound
(`Sound`, from `Granting`), a commit only adds to it (`Follows`, from
`HistoryIsAppendOnly` and `StoredStays`), and the tables that an issue compares
are read in the order they are. Every property
that a passing run of this section checks is a theorem.

### Not modelled here

The text of messages and the regular expressions that classify it; the content
of versions (the basis and the dependencies of items are in `PlanQueries`, with
`link_goal`); the deadline-basis route; the search
window of 100 answers in `has_assistant_reply`; two deliveries of the same
message at once, which the serial polling of `app.py` excludes even where the
runs let turns of different messages overlap; the early return of
`approve_plan_version` for a version the same message already approved, which
no resolver leads to, since they return Candidates only. A return needs that
some earlier answer showed the version; an answer that showed it as a Candidate
counts, in the code and in the model.

## 4. Planning queries

### Module

`PlanQueries` is what `services/planning_query.py` computes about one plan,
with the writers whose order matters to it:

| Code | Definition |
|---|---|
| `create_candidate_version` (basis, dependencies) | `CreateCandidate`, `Baseline`, `Accepted` |
| `link_goal` | `LinkGoal` |
| canonical changes of a Goal or of a success criterion (`world_state.py`) | `ChangeGoal` |
| `assess_plan_staleness`, `get_staleness_details` | `ChangedBasis`, `ChangedLinks` |
| `get_next_action` | `NextAction` |
| a turn's transaction | `BeginTurn`, `Commit`, `Abort` |

Staleness compares dates of two clocks. An event is stamped when it is
appended, a version and a link with `now()` of the database, which is the start
of their transaction. A version may so be older than changes that it was built
on, and a change older than a version that was committed before it. `seen` is a
history variable: what a version was really built on.

### Run

The run `plan_queries` (2 concurrent turns, 1 Goal, 1 version, clock up to 6,
five graphs over 3 items, two of them with a cycle) shows `StaleExactly` (stale
for a Goal of the basis exactly when a change was committed that the version did
not see), `LateGoalsReported` (a Goal linked or changed after the version's
commit is reported), `DependenciesChecked` (what is accepted is acyclic, what is
refused is circular) and `NextActionSound` (for every progress of the items: what
is proposed can be done, and nothing is proposed only if something is set
aside). Six ticks are begin, change and commit of two turns. A version's basis
needs only one Goal to be wrong, and versions do not see each other. There is no
fairness: staleness is a state, and a user need not ask.

`StaleExactly` rests on a side effect. Every change of a Goal clears the summary
of every Project (section 5), so with any Project in the database
(`HasProject`) two changes of one Goal are serialised from stamp to commit.
Without a Project, two turns that change two *criteria* of one Goal only share
the Goal's row; the one with the earlier stamp may commit last, a version
between them records the later stamp, and the earlier change is never seen as
new. With `HasProject = FALSE` TLC finds that; the run states the property for
a database with a Project.

### Proofs

`PlanQueriesProofs` proves `StaleExactly` and `LateGoalsReported` for any turns,
Goals, versions and clock. Both compare dates, so the invariant is about dates:

1. `Dated`: no date is ahead of the clock, and what a version records of a Goal
   is the latest change it was built on. That the changes of a Goal have a
   latest one is part of it (`Latests`), since it would otherwise need an
   induction over finite sets; one more change keeps it.
2. `Serialised`: with a Project, only the turn that holds the Projects' rows has
   uncommitted changes of Goals.
3. `OwnIsLater`: they are later than all that is committed. It is what fails
   without a Project, when two turns change two criteria of one Goal.
4. `UnseenLater`: a change of the basis that a version did not see is later than
   the one it records.

`DependenciesChecked` and `NextActionSound` are proved for any items, edges and
progress. `Accepted` is a loop, so its proof is an induction over rounds. The
library's induction takes an operator and cannot be used here, but `WFMin` with
`NatLessThanWellFounded` takes sets: `Least` (every set of numbers has a least
one) and `UpTo` follow, and with them

1. `Rounds`: the recursive function of the rounds exists and does what it says;
2. `AcceptedIsAcyclic`: no round takes an item of a circular set;
3. `AcyclicIsAccepted`: a round that leaves items and takes none has left a
   circular set, so each takes at least one and as many rounds as items are
   enough;
4. `NextActionIsSound`: when all items are done or not started, those not
   started are no circular set, so one of them is ready, and it is proposed.

The assumptions are `QueriesAssumption`, on the kinds of the constants, and
`HasProject`, which the first two theorems state; the last two need no Project.

### Not modelled here

Listings and labels; bases that are not Goals (they follow the
same comparison of dates); the comparison of versions, which loads 50 items and
labels every dependency, so that more items than that raise a `KeyError`. `TypeOK` of
`PlanQueries`, `WorldState` and `Observations` documents the types of their
variables and is in no run.

## 5. World state

### Module

`WorldState` is `services/world_state.py` over the primitives of
`services/domain_mutation.py`. A turn is a transaction at READ COMMITTED and its
domain actions are savepoints:

| Code | Action |
|---|---|
| `atomic_domain_action`, `_lock_world_state` | `Begin`, `Advisory` |
| `create_task`, `update_task` | `CreateTask`, `UpdateTask` |
| `update_goal`, `update_success_criterion`, the `assess_...` commands | `UpdateGoal`, `UpdateCriterion` |
| `link_task_goal`, `link_project_goal` | `LinkTaskGoal` |
| `add_task_dependency`, `_dependency_would_cycle` | `AddDependency`, `WouldCycle` |
| `_validate_parent_chain` | `ValidParent` |
| `create_decision`, with `supersedes_decision_id`, `revoke_decision` | `CreateDecision`, `SupersedeDecision`, `RevokeDecision` |
| `cache_project_summary` | `CacheSummary` |
| `undo_last_change` | `BeginUndo`, then `Restore` or `RefuseUndo` |
| `_event`, `_append_event` | `Flush` |
| an action that raises before it writes | `Refused` |
| commit; rollback, deadlock, crash | `Commit`, `Abort` |

`saved` and `log` are committed; `draft[r]` is row r as its owner has written it
and `own[t]` the events turn t has appended. `owner` are rows held FOR UPDATE or
inserted, `sharers` rows held FOR KEY SHARE by a foreign key, `mode` the
advisory lock. A turn that waits is one whose action is disabled, so a deadlock
is two disabled turns and its end an `Abort`.

An action that writes has two steps, since other turns run between the statement
that reads and the flush that takes the key-share locks and clears the
summaries; an undo has three, since it locks the entity before it knows which
row the event is about.

Projects, Goals and Tasks have the same hierarchy and actions, and Tasks stand
for the three; one Goal is there for its criteria, one Project, or none, for the
summaries that every event clears.

### Runs

| Run | Instance | Shows |
|---|---|---|
| `world_state` | 2 turns, 2 Tasks (one not yet created), 1 criterion, 2 Decisions, 3 events, symmetry | `HistoryGapless`, `UndoesTheLast`, `DependenciesAcyclic`, `SummaryCurrent`, `WorldAuditTrusted` |
| `world_undo` | 2 turns, 3 Tasks on three levels, reparenting and undo, 5 events | `HistoryExplains`, `CyclesTakeTwoUndos`, `CyclesReported` |
| `undo_cycle` | the same | a finding, below |

Three events are a change, its undo and a third one that either of them meets;
two concurrent turns are what a check-then-write race needs, and a cycle of two
dependencies needs two of them. Five events on three levels are two moves, two
undos and one more. No fairness is assumed.

The violation, `undo_cycle`: `docs/DATA_INVARIANT_AUDIT_V0_1.md` says that parent
cycles are validated. A reparenting command locks every row of its type before it
follows the chain; `undo_last_change` locks only its own row before it validates
the parent it restores. Two turns that undo two moves at once both find their
chain in order, and together they close a cycle. `CyclesTakeTwoUndos` shows that
this is the only way to one, and `CyclesReported` that the audit reports every
such cycle and nothing that is not on one. `app.py` polls serially, so turns meet only where two processes
run; the locks of the other commands are there for that case.

`WorldAudit` is the verifier over these tables, as `PlanAudit` in section 3,
with the depth-first search of `_verify_directed_cycles`. The recursion of its
inner function `visit` is a stack of calls here: `path` are the nodes whose call
has not returned (the set `visiting` of the code), `calls` the pairs of a caller
and a node still to be visited, `visited` and `reported` as in the code. `Advance`
is the next call of the caller on top or its return, and `DirectedCycles` is what
is reported after as many of them as there can be. `WorldAuditTrusted` allows a
`TASK_PARENT_CYCLE` only when there is a cycle before or after the commit, and any
other issue only as a torn one; `AuditAssumption` says that the tables are finite.

### Proofs

`WorldStateProofs` proves `DependenciesAcyclic` for any Tasks, turns, commands
and events. It is not inductive: a turn checks the graph it sees, which others
change until it commits. `IInv` adds:

1. `GInv`: every view is closed (a Task that is seen has its prerequisites
   seen) and acyclic, and of two open turns at most one has changed the
   dependencies of a committed Task (`OneChanger`), because `AddDependency`
   locks every Task it sees. Tasks created meanwhile by others are not locked,
   but no visible row needs them, so adding them to the graph adds no cycle.
2. `EInv`: an event that can be undone never has dependencies among its old
   values, so `Restore` adds no edge.
3. `TookInv`: what a refused undo unlocks has not been written.

`OneTurnChangesDependencies` states `OneChanger` on its own. The assumption is
`WorldAssumption`: kinds of the constants, and that the rows there are at the
start are closed and acyclic.

`WorldHistoryProofs` proves the history: `HistoryGapless`, `HistoryExplains`,
`UndoesTheLast` and `SummaryCurrent`. The dates of events are those of the
statements, but an event is seen when its turn commits, so the committed events
alone say nothing about the order of changes. `HInv` therefore is about one row
at a time, twice: what is committed of its history explains what is stored of it,
and what its holder sees of its history explains the draft (`RowHistory`,
`RowValue`). It adds:

1. `Locks`: a turn with an uncommitted event of a row holds the row, one that
   undoes across entities holds the advisory lock exclusively, and every turn
   with an event holds the Project. So the holder sees all there is of the row.
2. `Kept`: the value an undo would put back is what the changes before it have
   left that stand. With the last-in-first-out order of undos (`LastOK`,
   `Target`: what an undo is about is still the last when it is flushed), a
   reversed change leaves no trace.
3. `PendingOK`, `UndoOK`: what a turn between its read and its flush is about to
   write agrees with the history of the row it holds.
4. `Sets`: the dates of what anybody sees are distinct, and what is undone is
   there.

`WorldCycleProofs` proves `CyclesTakeTwoUndos`, over `HInv`. A command that moves a
Task locks every Task it sees and checks the graph it sees; an undo does the
second only. Cycles are what two turns close together, when the second of them
commits, so the invariant, `Cycles`, says of what is committed and of what every
turn sees that a cycle has two edges put back (`TwoBacks`), and adds what a merge
of two views needs:

1. `Explained`: where what a turn sees of the parents of committed Tasks differs
   from what is committed, it has moved the Task or put its parent back.
2. `Hold`: what a turn has moved lies in a set of Tasks it has locked that is
   closed under their parents, and under the old parents an undo could put
   back. A moved edge of t that meets an edge put back by u would be a cycle with
   one edge put back; it cannot be, since all that is above a moved Task is
   locked by t.
3. `MergedCycles`: a cycle in the merge of two views meets the hold of one of them
   and then lies in it, or has edges put back of one turn only and is one that
   the other sees, or has an edge put back by each.

That old parents are still there (`OldParentsIn`) and that parents are seen
(`ParentsIn`) is part of it, because no Task is ever deleted.

The audit is proved in the same module.

`CyclesReported` (`CyclesAreReported`) is a fact about a depth-first search of any
finite graph, `SearchFinds`: it reports a node of every nonempty set in which each node
has an edge into the set, and only nodes that are on a cycle. The invariant of the
search, `SearchOK`: the path is one in the graph, without repetition; what the loop
has called is on the path or visited (`Started`); as long as no node of a circular
set is reported the search has left none of its nodes, and the calls made inside the
set lead from a node of the path to a later one (`Open`), so that the search cannot end there; what
is reported is on a cycle, the path from the node to the top of the stack when the
search came back to it (`ComesBack`). Each step makes a call or returns
(`AdvanceOK`), so the search has ended after `Rounds` steps.

`WorldAuditTrusted` (`WorldAuditsAreTrusted`) follows as in section 3 from what is
sound in every snapshot (`Sound`), from rows never being deleted (`Follows`,
`OnlyCommits`) and from one lemma per group of issues. Of what is sound, the Tasks
and events are in `HInv`; the supersede chains need an invariant of their own,
`Chains`. That the committed chains are sound is not inductive, nor with it those
a turn sees: a commit puts the rows of one turn under the view of another. `Chains`
says it of the rows of any set of turns taken together (`Together`), so that a
commit or an abort only changes which set is meant, and a command of one turn, which
holds the Decisions it writes, changes every such set alike. `SupersedeChainsSound`
states what follows for the committed rows.

### Not modelled here

Relations between entities and their removal, the sources of inferences, checks
of provenance, the lifecycle timestamps of Tasks (`completed_at` and the like
follow the status), and the text of the fields.

## 6. Memory ingestion

### Module

`MemoryIngestion` is the loop of `MemoryIngestionWorker.run` around
`process_once`, over the tables of `services/memory_ingestion.py`. Each action
is one transaction or one call of the backend:

| Code | Action |
|---|---|
| `claim_next_batch` | `Claim`, `NothingToClaim` (both also make caught-up conversations IDLE) |
| `renew_lease` | `RenewLease`, which fails if the row is not PROCESSING |
| `record_message_ignored`, `record_message_succeeded` | `RecordIgnored`, `RecordReceipt` |
| `health`, `retain` with `_wait_for_retain` | `Retain`, `RetainFails` (the message may have been stored all the same) |
| `mark_succeeded`, `mark_failed` | `Finish`, `MarkFailed` |
| `claim_derived_refresh`, `_refresh_derived` | `ClaimRefresh`, `NothingToRefresh`, `RefreshRead`, `RefreshWrite` |
| `mark_derived_succeeded`, `mark_derived_failed` | `MarkRefreshed`, `RefreshFails` |
| the two `except Exception` | `BatchFails` (ends in `mark_failed`), `Crash` (ends the iteration) |
| cancellation, death of the process | `Crash`, which leaves lease and rows as they are |
| `wake`, the idle poll | `Wake` |
| a turn's commit | `Store`, of any message at any time |

`pc[w]` is the point between two transactions where worker `w` is; `conv`,
`batch`, `todo`, `cur`, `target` and `snap` are the locals of `process_once`
and end with it (`Return`). `status`, `lease`, `retryLater`, `dirty` and
`refreshLater` are the columns of `MemoryIngestionState`; of the derived state
(`summary`) only the set of messages it covers is kept. Times are reduced to
whether they are still ahead: a lease may expire and a retry become due at any
moment, and `MarkFailed` may set a retry that is already due, since `retry_at`
counts from the start of the attempt and a retain alone may take 300 seconds.
The attempt counters and `retry_delay` are therefore not kept.

### Runs

| Run | Instance | Shows |
|---|---|---|
| `ingestion_restarts` | 2 conversations, 4 messages (one blank), 1 worker, 2 failures, fairness | `TypeOK`, `RetainsOnlyNew`, `SummaryCurrent`, `CatchesUp`, `DerivedCatchesUp` |
| `ingestion_two_workers` | 1 conversation, 3 messages (one blank, one that the backend never completes), 2 workers, 2 failures | `ReceiptsHonest` |

`app.py` starts one worker. Two exist while a new process starts before the old
one has gone, or when someone runs the bot twice; the leases and
`SKIP LOCKED` are there for that case. A batch of two out of three messages
makes both a partly done batch and a second batch happen; two failures are a
crash and a failure of the recovery.

`ExpireLease` needs no crash: a lease may expire under a living worker that
waits for the backend, so that both workers hold the same batch. Nothing fences
off the first. `ReceiptsHonest` (and `RowsConsistent`, which is proved and in no
run) hold all the same, since a
batch is only finished when each of its messages has its receipt and receipts
are never changed. What two workers may do is retain a message twice (the same
operation identity makes that harmless) and save an older summary over a newer
one after the dirty mark was cleared, so `RetainsOnlyNew` and `SummaryCurrent`
are stated for one worker.

Fairness: the event loop keeps running the worker's task and the poll of 30
seconds wakes it without any turn (`WF` of `Step(w)`), and clocks advance (`WF`
of the three timeouts). No fairness is put on failures, and there are finitely
many of them. Deadlock checking is off where nothing need happen once no
message comes.

A known limit, which `CatchesUp` leaves out (`Poison = {}` in its run): a retain
whose operation hangs is given up after 300 seconds; the longest delay is 300
seconds from the *start* of the attempt; so the retry is due at once, the claim
takes the oldest conversation first, and a failed batch skips the derived
refresh. One such message in the first conversation stops the ingestion of all
others.

### Proofs

`MemoryIngestionProofs` has no bound on workers, messages or failures.

1. `Monotone`: no step takes back a stored message, a bank entry, a receipt or
   a row (`StepMonotone`).
2. `WorkerOK`: what a worker holds between two transactions. Its batch is
   stored messages of its conversation, what is no longer to do has a receipt,
   the message it calls retained is in the bank. All of that is about things
   that `Monotone` keeps, so another worker's steps cannot break it
   (`UnmovedOK`), and its own do not (`MoverOK`).
3. `Inv` = `TypeOK`, `ReceiptsHonest`, `RowsConsistent`, `WorkerOK` is
   inductive (`InvStep`). The properties are not inductive alone: without
   `WorkerOK`, `RecordReceipt` could record a message that is not in the bank,
   and `Finish` one of its batch that was never retained.
4. With `OneWorker`, `Sole` adds that what a worker has still to do has no
   receipt and what a refresh has read is all that was recorded. It gives
   `OnlyNewIsRetained` and `SummariesAreCurrent`.

The assumption is `IngestionAssumption`, on the kinds of the constants. Liveness
(`CatchesUp`, `DerivedCatchesUp`) is model-checked only; TLAPS does not reach it.

### Not modelled here

The observations and pages a refresh writes (section 8), the generation the
active bank belongs to (section 7), and what Hindsight extracts from a
message. A state row locked by another transaction is skipped by the claim and
then inserted again, which its unique constraint refuses; that is a `Crash` of
the iteration.

## 7. Memory generations

### Module

`MemoryGenerations` is `services/memory_rebuild.py` with the one writer it
competes with, `ActiveGenerationMemoryService.retain`. A maintainer is one run
of `memory/rebuild_cli.py`, a process of its own:

| Code | Action |
|---|---|
| `bootstrap_existing` | `Bootstrap` |
| `recover_interrupted`, the rest of `_start` | `RecoverInterrupted`, then `StartRebuild` or `RebuildRefused` |
| `create_clean`, `health` | `CreateClean` |
| `_message_batch`, in the replay and in the catch-up | `ReadPage` |
| `_retain_message` | `RetainNext`, `RetainRefused` (the adapter raises) |
| `_record_progress` | `RecordProgress` |
| the registry lock and the status check | `LockRegistry` |
| `session.flush` in the catch-up | `Flush`, which locks the row until the commit |
| `_verify_index`, `_rebuild_derived`, the commit | `Switch` |
| `except Exception`, `_mark_failed` | `RebuildFails`, `MarkFailed` |
| cancellation, death of the process | `Crash` |
| `cleanup_candidates`, `cleanup_orphans` | `ListCandidate`, `LockForCleanup`, `DeleteBank`, `DeleteRow` |
| `retain` through the pointer, the receipt | `BeginRetain`, `Confirm`, `RecordReceipt`, `WorkerFails` |

`status`, `overdue` (the lease has expired), `replayed` and `active` are the
journal and the pointer, `banks` and `bank` what the backend has.
`registryLock` and `rowLock` are PostgreSQL row locks; reads without
`FOR UPDATE` do not wait for them, which is what `recover_interrupted` and the
status check make use of. Messages are numbers in the order of `created_at`,
so that `Rank` is a row's place under `ORDER BY`, and `Page(n)` the page at
offset n. Generations are numbered in the order they are journaled; the first
one is bootstrapped. `Whitespace` are messages that are blank to Python but not
to SQL.

Two facts of the schema shape the actions: `ck_memory_generation_lease` refuses
a lease in a row that is not BUILDING, so `Flush` fails after a recovery, and
the switch, which clears the lease, does not.

### Runs

| Run | Instance | Shows |
|---|---|---|
| `generations_safety` | 2 messages, 3 generations, 2 maintainers, pages of 2, 2 failures, symmetry | `TypeOK`, `PointerSound`, `ActiveComplete`, `DeletesRetiredOnly`, and that the active bank is a `SemanticMemory` |
| `generations_progress` | 2 messages (one refused by the adapter), 2 generations, 2 maintainers, 1 failure, fairness | `IngestedAfterAll`, `CommandsEnd` |

Three generations are the first, one that fails or is overtaken, and one more
that supersedes; with pages of 2, two messages make a full page, or a short one
and a message that arrives before the next page, the catch-up or the switch; with
two failures a command dies and so does the one that recovers it. Two maintainers are the one
that is slow and the one that recovers, starts another rebuild or cleans up.

`SemanticMemory` is the promise to ingestion and to readers without the
machinery: one memory of committed messages that never loses what it has held,
and receipts only for what it holds. It maps to what `_with_active` leads a
reader to (`Recallable`: the bank of the active generation, nothing before the
bootstrap). It says more than `ActiveComplete`: a message that the backend has
and that got no receipt, because the worker died in between, must survive the
switch too; a rebuild that replayed only messages with a receipt would keep
`ActiveComplete` up to that switch and lose such a message.

`ActiveComplete` and the refinement assume `InOrder`: messages are committed in the order of
their `created_at`, which the serial polling of `app.py` gives. Without it an
earlier message that is committed late moves the rows behind it by one, the
offset passes over it, and TLC finds it missing from the new bank although it
has a receipt.

Fairness: the application starts and its worker runs on (`WF` of `Bootstrap`
and `IngestionStep`), and a command that was started goes on unless it dies
(`WF` of `Proceed(r)`). Nobody has to start a command, so `RecoverInterrupted`
and `ListCandidate` have none. Waiting for a row lock is fair in PostgreSQL (a
queue); in the instance weak fairness is enough, since messages and
generations are finite.

Two known limits, both states of the model that no property excludes:

* A rebuild that is marked FAILED becomes the active one. The row of the
  rebuild is not locked between the status check and the first flush; when its
  lease runs out there (30 minutes; waiting for the lock, then up to six recalls
  of 300 seconds), `recover_interrupted` of another command marks it FAILED
  and the switch overwrites that. `PointerSound` still holds: the bank cannot be
  deleted meanwhile, since a cleanup needs the registry lock. The recovered
  command may have started a rebuild of its own by then.
* `trim` of SQL removes spaces, `strip` of Python all white space. A message of
  newlines is ignored by ingestion, but a rebuild replays it, the adapter
  refuses it, and every rebuild fails. `generations_progress` has such a message:
  ingestion and commands go on without the rebuild.

### Proofs

`MemoryGenerationsProofs` has no bound on maintainers, generations, messages or
failures. `PointerSound` is not inductive: `Switch` could make a bank active
that a cleanup has deleted, and a cleanup could delete the active one. `IInv`
adds what a command knows of its generation between two transactions:

1. `CommandOK(r)`: a rebuild's generation is not the active one and its row is
   BUILDING, FAILED or gone; while it holds the registry lock its bank exists
   and its row is not gone; a cleanup that deletes holds the lock, over a
   retired generation.
2. `OwnGenerations`: two rebuilds never have the same generation, so that a
   switch cannot take another command's generation from under it.
3. `BootstrappedFirst` and `WorkerOK`: no command runs before the pointer is
   set, and the worker gives back only the lock it took.

Most steps are `Quiet` (no row, no pointer and no deletion), and one lemma
covers them (`QuietSteps`, `QuietKeeps`); recovery, start, switch, failure and
deletion have a lemma each. `OneRebuildRuns` (`OneRebuild`, in no run) is inductive with the types:
no step but `StartRebuild` adds to `Building`. The assumption is
`GenerationsAssumption`; none of these uses `InOrder` or the page size.

`SwitchForgetsNothing` is `ActiveComplete` under the hypothesis `InOrder`, for
every archive and every page size. Its invariant, `CInv`, beside `IInv`:

1. `Archive`: the ranks of the stored messages have no gap, so an empty page
   means that the offset is beyond the last message (`PageIs`). A message that
   is stored in order gets the last rank and moves no other (`StoreRanks`); this
   is where `InOrder` is used, and the only place.
2. `Copied(r)`: while the bank of a rebuild is safe from deletion (`BankSafe`:
   its row is BUILDING, or it holds the registry lock), every message below its
   offset is in the bank, except those of the page it still retains (`Kept`).
   Once it is verified, the bank has every message that is remembered.
3. `Journaled`: the same of `messages_replayed` of a BUILDING row, from where the
   catch-up goes on.
4. `Receipts`: what has a receipt, and what the backend has confirmed and gets
   one next (`Remembered`), is in the active bank. That message is the reason
   why the catch-up and `Confirm` exclude each other by the registry lock:
   between the last page and the switch nothing new can be confirmed, and what
   was confirmed before is stored, hence copied.

A rebuild whose row was marked FAILED before it took the lock may lose its bank
to a cleanup; `BankSafe` ends there, and `LockRegistry` or `RecordProgress`
send it to `failing`.

`GenerationsImplementMemory` is the refinement, under the same hypothesis. Two
facts are missing in `IInv` and `CInv`, and `SInv` adds them: banks and pages
hold only committed messages (`CommittedOnly`), and the bank of a verified
rebuild has all that readers find so far. The second holds when the last page
is empty, since the whole archive is in the bank then (`LastPage`), and stays
until the switch, since whoever holds the registry lock keeps the pointer and
the active bank as they are (`HeldStays`). `MaintainerLosesNothing` and
`MemoryStep` then map every step: `Store` is `Archive`, `RecordReceipt` is
`Receipt`, and everything else, switches and deletions too, is `Learn` or nothing.

Only model-checked: the liveness of `generations_progress`.

### Not modelled here

The summaries, observations and pages a rebuild writes again (section 8); the
queries of `_verify_index`, which succeed or fail; recall
and reflect through the pointer; a retain that the backend completes after the
worker gave up and the lock was released.

## 8. Observations and pages

### Module

`Observations` is what is derived from the archive: summaries, observations
with their evidence, pages. Two writers, each one transaction at READ COMMITTED:

| Code | Action |
|---|---|
| `claim_derived_refresh`, `_refresh_derived` | `BeginRefresh`, `SaveSummary`, then the consolidations and pages |
| `_rebuild_derived`, `MemoryDerivedRebuilder.rebuild` | `BeginRebuild`, `StartDelete`, `DeletePages`, `DeleteRows`, then the same |
| `consolidate`, `_add_evidence`, `_refresh_observation` | `FindRows`, `Consolidate` |
| `MemoryPageService.refresh` | `ReadPage`, `WritePage` |
| the commit, `mark_derived_succeeded` | `Commit`, `MarkSucceeded` |
| an error, a deadlock, a crash | `Abort` |
| a stored message, its retain, its receipt | `Arrive`, `Retain`, `Mark` |

`rows` are the committed observations, by claim and by the transaction that
inserted them; `tx[w]` is the transaction of worker w with what it has written,
`log` the transactions that were begun and `overlap` the pairs of them that were
open at once. A statement that waits for row locks has two steps, since the rows
it found may be deleted, and others inserted, while it waits.

No constraint makes an observation unique, so two transactions that find no row
insert one each: *twins*, of which the later one is contested by every further
message.

A text is its claim (what is left when case and spaces do not count) and its
form. Collapsing spaces is modelled, as `Collapse`: a refresh looks the
collapsed text up among the raw ones, so that it does not find texts with
ragged spaces again, while a rebuild counts them.

`Scope` gives the page of a *text*, not of a claim. `consolidate` looks rows up
by claim and page (`Subjects`, `ClaimRows`), and the two writers do not classify
the same string: a refresh the collapsed text (`Subject`), a rebuild the raw
text of the first message of a group (`Candidate`). The phrases of
`memory/semantics.py` contain spaces, so `what if I like tea` is an IDEA on the
page of a topic, and the same with a line break after `what` a PREFERENCE on the
user profile: one claim, two pages, and a second row that no search finds, with
no overlap at all. Case does not matter (the patterns ignore it): that much is
assumed of `Scope` in `ObservationsAssumption`.

`explicit_correction` is never set outside tests, so nothing is SUPERSEDED.

### Run

`observations`: 2 conversations, 2 claims, plain texts on one page and ragged
ones on another, of 1 entry each, 2 workers, 2 messages, 3 transactions,
symmetry.

* `TwinsExplained`: a claim has two observations on one page only if the
  transactions that inserted them ran at the same time; on two pages only if a
  message of it is ragged and one of the two comes from a rebuild. Two refreshes
  never disagree on the page.
* `ContestedByTwin`: only a twin on the same page is ever contradicted, and only
  by messages of its own claim.
* `IngestedIsEvidence`: an ingested message of a clean conversation is evidence
  of its claim (ragged texts aside), although a rebuild may delete what a
  refresh has just written and its dirty mark is cleared all the same. What
  saves it is the registry lock: a message the rebuild has not read cannot be
  retained, and so not be marked, before the rebuild ends.
* `SummaryCovers`: the summary of a clean conversation covers what was
  ingested, unless two refreshes of that conversation overlapped. Receipts come
  in the order of a conversation (`Mark`), as with the one ingestion worker the
  app starts: a second one that marks an older message again is left out here.
* `PagesCurrent`: without overlaps, pages are what the observations say.

Three transactions are two that make twins and one that meets them, or a
refresh beside a rebuild and one more. The following instances were checked as
well: three messages with one claim in two conversations; three messages with
two claims, or plain and ragged texts, in one conversation; cased texts; four
transactions. There is no fairness here: that a dirty conversation is refreshed
is in section 6.

### Proofs

`ObservationsProofs` proves `TwinsExplained` and `ContestedByTwin` for any
conversations, claims, pages, workers, messages and transactions. What is committed is
not inductive alone, since a transaction decides on what it found and commits
later. `IInv` adds, of each open transaction:

1. `Began`: whatever began after it, began while it was open, and nobody has
   inserted a row in its name.
2. `Searched` and `Inserted`: a row of the subject that its search did not find
   and that it sees now came from a transaction that was open when it began;
   likewise for a row it has inserted. This is what a commit of another one
   must not break (`OthersKeep`).
3. `Written`, `Waiting`: it has written only rows that are committed or its own,
   the evidence of a candidate says what the candidate says, and what a refresh
   is still to look up is not ragged.
4. `Apart`: two open transactions have written different rows (the row locks).

Every row, and every subject and candidate on the way to one, is `Derived`: some
message has its claim and its page, and a ragged one only if the transaction is
a rebuild. Messages and transactions are only added (`Longer`), so this stays
(`StaysOK`). Two rows of a claim on two pages then have two such messages, not
both without ragged spaces, since those share their page.

The rows of a subject have an earliest one (`WellOrdered`) and the messages of a
group a first one (`HasFirst`), which is said as an invariant for the reason
given for `Latests` in section 4; it makes `Earliest` a row and `First` a message
that exists. The assumption is `ObservationsAssumption`.

Three invariants over `IInv` give the other properties:

1. `SInv` for `SummaryCovers`. The dirty mark is cleared by a transaction of its
   own, so it must be known from the commit of a summary on that nobody who
   commits later has read less: `Summarised` says what the summaries of a
   transaction have, `Beside` that another one running has no older summary,
   or that two refreshes of the conversation overlapped.
2. `DInv` for `IngestedIsEvidence`. `Covers` is the promise of a transaction about
   a message: it is to be looked up, is being consolidated, or is evidence of a
   row it has written. A refresh promises what was ingested when it began, and
   only adds to rows (`Derives`); a rebuild promises all that is retained, which
   does not grow while it runs (`RegistryFree`). That is why it may delete what a
   refresh beside it has written.
3. `PInv` for `PagesCurrent`, while nothing overlapped: there is one open
   transaction at most, and each page it sees is current unless it is still to be
   refreshed, or has been read and not yet written (`Refreshing`). It rests on
   `OfItsScope`: a page is about the rows of its scope only.

All five properties of the run are proved.

### Not modelled here

How a message is chosen as durable and put in a category (a claim
is in the same one for ever), the text of pages, explicit corrections.

## 9. Not modelled

* `transport/telegram.py`: chunks and their sending have no state in the
  database; an answer counts as shown from its commit on, in the code and here.
* `services/context_composer.py`, `deep_memory.py`: they read and select, and
  write nothing.
* The model provider and the assembly of prompts: whatever the agent asks for is
  nondeterministic in the modules.
* The digest, the error classes, diagnostics and the command lines.
* The schema, its migrations, roles and scripts: executed once, by hand, without
  the program running. Constraints that shape an action are in that action.
* What Hindsight extracts from a message, and its own failures beyond refusing,
  timing out and completing late.
