---------------------------- MODULE PlanningTurns ----------------------------
(***************************************************************************)
(* The runtime turn around the Planning service.  Every user message is    *)
(* first stored and committed, then answered by one turn: a database       *)
(* transaction in which the agent's tools create, show, approve, reject    *)
(* and reactivate PlanVersions, and which ends by storing the assistant    *)
(* answer and the record of what it showed.  A tool finds its target       *)
(* without a lock; the service then locks the Plan row, which it keeps to  *)
(* the end of the transaction, and checks the version again.               *)
(*                                                                         *)
(* Time is a clock of ticks, TicksPerSecond of them per second: the send   *)
(* time Telegram gives a user message is a whole second, while presented_at*)
(* (the start of the presenting transaction) and an answer's sent_at are   *)
(* not rounded.                                                            *)
(***************************************************************************)
EXTENDS PlanLineage

CONSTANTS
    Plans,            \* plan identities
    Conversation,     \* the conversation of each message
    ReplanIntent,     \* messages whose text asks for a new or revised plan
    SerialTurns,      \* TRUE: one process polls and answers one update at a time
    TicksPerSecond,   \* resolution of the server's clocks against Telegram's
    MaxClock,         \* bound: ticks
    MaxTools          \* bound: tool calls that change or resolve something per turn

ASSUME TurnsAssumption ==
    /\ ReplanIntent \subseteq Messages
    /\ SerialTurns \in BOOLEAN
    /\ TicksPerSecond \in Nat \ {0}
    /\ MaxClock \in Nat
    /\ MaxTools \in Nat

VARIABLES
    clock,
    phase,      \* of a message: is it stored, is its turn running, how did it end
    sentTick,   \* when the user sent the message
    startedAt,  \* start of the turn's transaction, presented_at of what it shows
    repliedAt,  \* Message.sent_at of the answer
    tools,      \* tool calls made by the running turn
    pending,    \* PlanningTurnState: the renders the answer must contain
    target,     \* a resolved tool target not yet applied
    db,         \* committed plans
    draft,      \* the plan as the transaction holding its row lock sees it
    holder      \* that transaction's message

vars == <<clock, phase, sentTick, startedAt, repliedAt, tools, pending, target,
          db, draft, holder>>

Ticks == 0 .. MaxClock
Phases == {"unsent", "stored", "running", "replied", "failed"}

Targets ==
    [op : {"approve", "reject", "reactivate", "progress"},
     plan : Plans, version : Versions]
NoTarget == [op |-> "none", plan |-> NoMessage, version |-> 0]

Running(m) == phase[m] = "running"
Replied == {m \in Messages : phase[m] = "replied"}

(* Message.sent_at of a user message: the tick, rounded down to a second. *)
SentAt(m) == (sentTick[m] \div TicksPerSecond) * TicksPerSecond

(* What the transaction of turn m reads: its own writes, else what is committed. *)
View(m, p) == IF holder[p] = m THEN draft[p] ELSE db[p]

(* The answer of turn k shows v in m's conversation by m's sent_at: the    *)
(* query approve_plan_version, reactivation and resolve_explicit share.    *)
AnyConversation(s, v, m) ==                         \* variant: shown in whatever chat
    \E k \in Messages : <<v, k>> \in s.shown /\ startedAt[k] <= SentAt(m)
PresentedBefore(s, v, m) ==
    \E k \in Messages : /\ <<v, k>> \in s.shown
                        /\ Conversation[k] = Conversation[m]
                        /\ startedAt[k] <= SentAt(m)

(* The answers resolve_immediate may take for the previous one: latest      *)
(* sent_at not after m's, then latest created_at (the transaction's start). *)
Later(j, k) ==
    \/ repliedAt[j] > repliedAt[k]
    \/ repliedAt[j] = repliedAt[k] /\ startedAt[j] > startedAt[k]
PreviousAnswers(m) ==
    LET seen == {k \in Replied : /\ Conversation[k] = Conversation[m]
                                 /\ repliedAt[k] <= SentAt(m)}
    IN  {k \in seen : \A j \in seen : ~Later(j, k)}

-----------------------------------------------------------------------------
Init ==
    /\ clock = 0
    /\ phase = [m \in Messages |-> "unsent"]
    /\ sentTick = [m \in Messages |-> 0]
    /\ startedAt = [m \in Messages |-> 0]
    /\ repliedAt = [m \in Messages |-> 0]
    /\ tools = [m \in Messages |-> 0]
    /\ pending = [m \in Messages |-> {}]
    /\ target = [m \in Messages |-> NoTarget]
    /\ db = [p \in Plans |-> EmptyPlan]
    /\ draft = [p \in Plans |-> EmptyPlan]
    /\ holder = [p \in Plans |-> NoMessage]

Tick ==
    /\ clock < MaxClock
    /\ clock' = clock + 1
    /\ UNCHANGED <<phase, sentTick, startedAt, repliedAt, tools, pending, target,
                   db, draft, holder>>

(* ingest_user_message, committed before the turn starts. *)
Send(m) ==
    /\ phase[m] = "unsent"
    /\ phase' = [phase EXCEPT ![m] = "stored"]
    /\ sentTick' = [sentTick EXCEPT ![m] = clock]
    /\ UNCHANGED <<clock, startedAt, repliedAt, tools, pending, target, db, draft, holder>>

(* A delivered update is answered unless its message already has an answer *)
(* (has_assistant_reply).                                                  *)
Unchecked(m) == phase[m] \in {"stored", "failed", "replied"}   \* variant: no such check
Unanswered(m) == phase[m] \in {"stored", "failed"}

(* The turn's transaction begins: the first time, or again when the update *)
(* is delivered again.                                                     *)
Begin(m) ==
    /\ Unanswered(m)
    /\ SerialTurns => \A k \in Messages : ~Running(k)
    /\ phase' = [phase EXCEPT ![m] = "running"]
    /\ startedAt' = [startedAt EXCEPT ![m] = clock]
    /\ tools' = [tools EXCEPT ![m] = 0]
    /\ UNCHANGED <<clock, sentTick, repliedAt, pending, target, db, draft, holder>>

(* A tool call of turn m outside a resolved but unapplied target. *)
ToolCall(m) ==
    /\ Running(m)
    /\ target[m] = NoTarget
    /\ tools[m] < MaxTools
    /\ tools' = [tools EXCEPT ![m] = @ + 1]

(* The Plan row lock (SELECT ... FOR UPDATE), held until commit or rollback. *)
Lock(m, p) ==
    /\ holder[p] \in {NoMessage, m}
    /\ holder' = [holder EXCEPT ![p] = m]

NotRegistered(m, p, v) == UNCHANGED pending         \* variant: no placeholder
Register(m, p, v) == pending' = [pending EXCEPT ![m] = @ \cup {<<p, v>>}]

(* implicit_replanning_result: the text of the message asks for it. *)
AsksToReplan(m) == m \in ReplanIntent

(* list_plans, without a lock: every plan the turn sees, of whatever status. *)
NoneApproved(m) == \A q \in Plans : Approved(View(m, q)) = {}    \* variant: a Candidate is no plan yet
NoPlanYet(m) == \A q \in Plans : ~Exists(View(m, q))

(* create_plan_with_candidate: needs replanning intent unless no plan is   *)
(* visible to the turn; the new plan is nobody else's until commit.  An    *)
(* identity never used still holds EmptyPlan.                              *)
CreatePlanWithCandidate(m, p) ==
    /\ ToolCall(m)
    /\ AsksToReplan(m) \/ NoPlanYet(m)
    /\ holder[p] = NoMessage /\ ~Exists(db[p])
    /\ MaxVersions > 0
    /\ Lock(m, p)
    /\ draft' = [draft EXCEPT ![p] = CreateCandidateVersion(draft[p], m)]
    /\ Register(m, p, 1)
    /\ UNCHANGED <<clock, phase, sentTick, startedAt, repliedAt, target, db>>

(* present_candidate_plan: always needs replanning intent. *)
PresentCandidatePlan(m, p) ==
    /\ ToolCall(m)
    /\ AsksToReplan(m)
    /\ Exists(View(m, p))
    /\ Lock(m, p)
    /\ draft[p].last < MaxVersions
    /\ draft' = [draft EXCEPT ![p] = CreateCandidateVersion(draft[p], m)]
    /\ Register(m, p, draft[p].last + 1)
    /\ UNCHANGED <<clock, phase, sentTick, startedAt, repliedAt, target, db>>

(* show_current_candidate and the compact answer: no lock until the end. *)
ShowCurrentCandidate(m, p) ==
    /\ ToolCall(m)
    /\ \E v \in Candidates(View(m, p)) : Register(m, p, v)
    /\ UNCHANGED <<clock, phase, sentTick, startedAt, repliedAt, target, db, draft, holder>>

(* show_historical_plan_for_return *)
ShowHistoricalPlanForReturn(m, p) ==
    /\ ToolCall(m)
    /\ \E v \in Historical(View(m, p)) : Register(m, p, v)
    /\ UNCHANGED <<clock, phase, sentTick, startedAt, repliedAt, target, db, draft, holder>>

-----------------------------------------------------------------------------
(* Resolving a target.  A resolver that finds none or several leaves the   *)
(* turn as it is: the tool tells the model to ask the user.                *)

Resolve(m, t) ==
    /\ target' = [target EXCEPT ![m] = t]
    /\ UNCHANGED <<clock, phase, sentTick, startedAt, repliedAt, pending, db, draft, holder>>

(* The versions an operation may be resolved to. *)
Eligible(op, s) == IF op = "reactivate" THEN Historical(s) ELSE Candidates(s)

(* resolve_immediate: exactly one eligible version shown by the previous answer. *)
ResolveImmediate(m, op) ==
    /\ ToolCall(m)
    /\ \E k \in PreviousAnswers(m), p \in Plans, v \in Versions :
          /\ {t \in Plans \X Versions : /\ t[2] \in Eligible(op, View(m, t[1]))
                                        /\ <<t[2], k>> \in View(m, t[1]).shown} = {<<p, v>>}
          /\ Resolve(m, [op |-> op, plan |-> p, version |-> v])

(* resolve_explicit: the version the agent names, eligible and shown before. *)
ResolveExplicit(m, op) ==
    /\ ToolCall(m)
    /\ \E p \in Plans, v \in Versions :
          /\ v \in Eligible(op, View(m, p))
          /\ PresentedBefore(View(m, p), v, m)
          /\ Resolve(m, [op |-> op, plan |-> p, version |-> v])

(* approve_presented_candidate, reject_presented_candidate *)
ResolveCandidate(m) ==
    \E op \in {"approve", "reject"} :
        ResolveImmediate(m, op) \/ ResolveExplicit(m, op)

(* resolve_current, for an explicit rejection: the only Candidate there is, *)
(* in any conversation, shown or not.                                       *)
ResolveCurrent(m) ==
    /\ ToolCall(m)
    /\ \E p \in Plans, v \in Versions :
          /\ {t \in Plans \X Versions : t[2] \in Candidates(View(m, t[1]))} = {<<p, v>>}
          /\ Resolve(m, [op |-> "reject", plan |-> p, version |-> v])

(* reactivate_presented_historical_plan *)
ResolveHistorical(m) ==
    ResolveImmediate(m, "reactivate") \/ ResolveExplicit(m, "reactivate")

(* ApprovedPlanItemResolver.resolve_item: an item of the Approved version   *)
(* of the plan named, or of the only plan that has one.                     *)
ResolveApprovedItem(m) ==
    /\ ToolCall(m)
    /\ \E p \in Plans, v \in Versions :
          /\ v \in Approved(View(m, p))
          /\ Resolve(m, [op |-> "progress", plan |-> p, version |-> v])

-----------------------------------------------------------------------------
(* Applying it: the service locks the plan, reads the version again and    *)
(* raises, which ends the turn (Abort), if it is no longer eligible.       *)

Apply(m, op) ==
    /\ Running(m)
    /\ target[m].op = op
    /\ Lock(m, target[m].plan)
    /\ target' = [target EXCEPT ![m] = NoTarget]
    /\ UNCHANGED <<clock, phase, sentTick, startedAt, repliedAt, tools, pending, db>>

(* (No target leads to its early return for a version m itself approved.)  *)
ApprovePlanVersion(m) ==
    LET p == target[m].plan  v == target[m].version IN
    /\ Apply(m, "approve")
    /\ CanApprove(draft[p], v)
    /\ PresentedBefore(draft[p], v, m)
    /\ draft' = [draft EXCEPT ![p] = Approve(draft[p], v, m)]

RejectCandidateVersion(m) ==
    LET p == target[m].plan  v == target[m].version IN
    /\ Apply(m, "reject")
    /\ CanReject(draft[p], v)
    /\ draft' = [draft EXCEPT ![p] = Reject(draft[p], v)]

(* Returns at once if another turn already made v the Approved version. *)
ReactivateHistoricalPlanVersion(m) ==
    LET p == target[m].plan  v == target[m].version IN
    /\ Apply(m, "reactivate")
    /\ \/ /\ v \in Approved(draft[p])
          /\ draft' = draft
       \/ /\ CanReactivate(draft[p], v)
          /\ PresentedBefore(draft[p], v, m)
          /\ draft' = [draft EXCEPT ![p] = Reactivate(draft[p], v, m)]

UpdatePlanItemProgress(m) ==
    LET p == target[m].plan  v == target[m].version IN
    /\ Apply(m, "progress")
    /\ \E i \in Items, st \in ProgressStates :
          /\ CanUpdateProgress(draft[p], v, i)
          /\ draft' = [draft EXCEPT ![p] = UpdateProgress(draft[p], v, i, st)]

-----------------------------------------------------------------------------
PendingOf(m, p) == {v \in Versions : <<p, v>> \in pending[m]}

(* The end of the turn: the answer is stored, each registered render       *)
(* becomes a presentation (under its plan's lock) and the transaction      *)
(* commits.                                                                *)
Finish(m) ==
    /\ Running(m)
    /\ target[m] = NoTarget
    /\ \A p \in Plans : PendingOf(m, p) # {} => holder[p] \in {NoMessage, m}
    /\ LET Mine(p) == holder[p] = m \/ PendingOf(m, p) # {}
           committed == [p \in Plans |->
                            IF Mine(p)
                            THEN RecordPresentations(draft[p], PendingOf(m, p), m)
                            ELSE db[p]]
       IN  /\ db' = committed
           /\ draft' = [p \in Plans |-> IF Mine(p) THEN committed[p] ELSE draft[p]]
    /\ holder' = [p \in Plans |-> IF holder[p] = m THEN NoMessage ELSE holder[p]]
    /\ phase' = [phase EXCEPT ![m] = "replied"]
    /\ repliedAt' = [repliedAt EXCEPT ![m] = clock]
    /\ pending' = [pending EXCEPT ![m] = {}]
    /\ UNCHANGED <<clock, sentTick, startedAt, tools, target>>

(* What the plan's next reader finds after a rollback. *)
Kept(m, p) == draft[p]                              \* variant: nothing is rolled back
RolledBack(m, p) == IF holder[p] = m THEN db[p] ELSE draft[p]

(* Anything goes wrong: a refused operation, a placeholder missing from    *)
(* the answer, a model error, a lost connection, a process crash, or being *)
(* the victim of a lock deadlock.  The transaction is rolled back.         *)
Abort(m) ==
    /\ Running(m)
    /\ phase' = [phase EXCEPT ![m] = "failed"]
    /\ draft' = [p \in Plans |-> RolledBack(m, p)]
    /\ holder' = [p \in Plans |-> IF holder[p] = m THEN NoMessage ELSE holder[p]]
    /\ pending' = [pending EXCEPT ![m] = {}]
    /\ target' = [target EXCEPT ![m] = NoTarget]
    /\ UNCHANGED <<clock, sentTick, startedAt, repliedAt, tools, db>>

Next ==
    \/ Tick
    \/ \E m \in Messages :
          \/ Send(m)
          \/ Begin(m)
          \/ \E p \in Plans : \/ CreatePlanWithCandidate(m, p)
                              \/ PresentCandidatePlan(m, p)
                              \/ ShowCurrentCandidate(m, p)
                              \/ ShowHistoricalPlanForReturn(m, p)
          \/ ResolveCandidate(m)
          \/ ResolveCurrent(m)
          \/ ResolveHistorical(m)
          \/ ResolveApprovedItem(m)
          \/ ApprovePlanVersion(m)
          \/ RejectCandidateVersion(m)
          \/ ReactivateHistoricalPlanVersion(m)
          \/ UpdatePlanItemProgress(m)
          \/ Finish(m)
          \/ Abort(m)

Spec == Init /\ [][Next]_vars

-----------------------------------------------------------------------------
(***************************************************************************)
(* Properties                                                              *)
(***************************************************************************)

(* Type of the state; pending and target only exist inside a running turn. *)
TypeOK ==
    /\ clock \in Ticks
    /\ phase \in [Messages -> Phases]
    /\ sentTick \in [Messages -> Ticks]
    /\ startedAt \in [Messages -> Ticks]
    /\ repliedAt \in [Messages -> Ticks]
    /\ tools \in [Messages -> 0 .. MaxTools]
    /\ pending \in [Messages -> SUBSET (Plans \X Versions)]
    /\ target \in [Messages -> Targets \cup {NoTarget}]
    /\ db \in [Plans -> PlanStates]
    /\ draft \in [Plans -> PlanStates]
    /\ holder \in [Plans -> MaybeMessage]

(* Every copy of a plan, also one in the middle of a transaction, has one   *)
(* Candidate and one Approved version at most, numbers without a gap and    *)
(* approval metadata that agree with the statuses: no flush can hit the     *)
(* unique indexes and checks of plan_versions.                              *)
LineageSound ==
    \A p \in Plans : \A s \in {db[p], draft[p]} :
        OneCurrent(s) /\ Dense(s) /\ ApprovalRecorded(s)

(* The accepted Strategy and the Approved version change together: nobody   *)
(* reads one without the other, and neither is lost once there is one       *)
(* (_accept_strategy in approval and in reactivation).                      *)
StrategyAndPlanAgree ==
    \A p \in Plans : StrategyFollowsApproved(db[p]) /\ StrategyFollowsApproved(draft[p])

(* Progress rows of a version are written by its one approval and survive   *)
(* replacement and reactivation (a second insert would break the key).      *)
ProgressKept ==
    \A p \in Plans : ProgressSinceApproval(db[p]) /\ ProgressSinceApproval(draft[p])

(* Presented to m's conversation by another turn that began by the time     *)
(* Telegram says m was sent.                                                *)
ShownTo(s, v, m) ==
    \E k \in Messages \ {m} :
        /\ <<v, k>> \in s.shown
        /\ Conversation[k] = Conversation[m]
        /\ startedAt[k] <= SentAt(m)

(* Whoever's message approved a version, or made it current again, had been *)
(* shown that very version before, by another turn: a turn cannot approve   *)
(* what it proposes itself, whatever the interleaving of turns and retries. *)
AuthorityPresented ==
    \A p \in Plans : \A s \in {db[p], draft[p]} :
        /\ \A v \in EverApproved(s) : ShownTo(s, v, s.approvedBy[v])
        /\ s.strategy # 0 => ShownTo(s, s.strategy, s.strategyBy)

(* One message approves at most one version of a plan. *)
OneApprovalPerMessage ==
    \A p \in Plans : \A v, w \in EverApproved(db[p]) :
        db[p].approvedBy[v] = db[p].approvedBy[w] => v = w

(* A committed version was shown in the answer of the turn that created it: *)
(* the lineage holds no proposal the user has never been able to read.      *)
EveryVersionShown ==
    \A p \in Plans, v \in Versions :
        db[p].status[v] # "ABSENT" => <<v, db[p].createdBy[v]>> \in db[p].shown

(* Committed plans name only answered messages, an uncommitted copy only    *)
(* those and the turn that holds it: a failed turn leaves no trace.         *)
NamedIn(s) ==
    ({s.createdBy[v] : v \in Versions} \cup {s.approvedBy[v] : v \in Versions}
        \cup {s.strategyBy} \cup {vk[2] : vk \in s.shown}) \ {NoMessage}
FailedTurnLeavesNoTrace ==
    \A p \in Plans : /\ NamedIn(db[p]) \subseteq Replied
                     /\ NamedIn(draft[p]) \subseteq Replied \cup {holder[p]}

(* A plan nobody asked for is the first one.  Beside another plan it is     *)
(* only found when two turns ran side by side: whether there is a plan      *)
(* (list_plans) is decided on what is committed and without a lock, and     *)
(* until the commit the plan is nobody else's.  One turn never makes two.   *)
Origin(s) == s.createdBy[1]
UnaskedPlanIsFirst ==
    \A p, q \in Plans :
        /\ p # q /\ Exists(db[p]) /\ Exists(db[q])
        /\ Origin(db[p]) \notin ReplanIntent
        => /\ Origin(db[p]) # Origin(db[q])
           /\ startedAt[Origin(db[p])] <= repliedAt[Origin(db[q])]

(* History is append-only: a commit never renumbers a version, never takes  *)
(* back a rejection, revives a version that was replaced unapproved, loses  *)
(* a presentation or rewrites who approved what.                            *)
Ended(s, v) ==
    \/ s.status[v] = "REJECTED"
    \/ s.status[v] = "SUPERSEDED" /\ s.approvedBy[v] = NoMessage
Continues(s, t) ==
    /\ t.last >= s.last
    /\ s.shown \subseteq t.shown
    /\ \A v \in Versions :
          /\ s.approvedBy[v] # NoMessage => t.approvedBy[v] = s.approvedBy[v]
          /\ Ended(s, v) => t.status[v] = s.status[v] /\ t.approvedBy[v] = NoMessage
HistoryKept == \A p \in Plans : Continues(db[p], db'[p])
AppendOnly == [][HistoryKept]_vars

(* Seen from outside, committed turns are a PlanAuthority: offers, grants   *)
(* and one working version per plan, changed once per message.              *)
WorkingVersion(s) == IF Approved(s) = {} THEN 0 ELSE CHOOSE v \in Approved(s) : TRUE
Authority == INSTANCE PlanAuthority WITH
    answered <- Replied,
    offered <- [p \in Plans |-> db[p].shown],
    granted <- [p \in Plans |-> db[p].approvedBy],
    working <- [p \in Plans |-> WorkingVersion(db[p])]
ImplementsAuthority == Authority!Spec

-----------------------------------------------------------------------------
(* What the documents say and the code does not quite do.                   *)

(* PLANNING_V0_3 9: "a pre-existing Presentation of the exact Candidate     *)
(* being approved", and RELEASE_NOTES_V0_3_0: "exact PlanVersionPresentation*)
(* -> assistant Message -> approval USER_MESSAGE binding": when the         *)
(* approving message was sent, an answer showing the version existed.       *)
ApprovalAnswersPresentation ==
    \A p \in Plans : \A v \in EverApproved(db[p]) :
        \E k \in Messages : /\ <<v, k>> \in db[p].shown
                            /\ repliedAt[k] <= sentTick[db[p].approvedBy[v]]
=============================================================================
