------------------------- MODULE PlanningTurnsProofs -------------------------
(***************************************************************************)
(* Safety of PlanningTurns, for every set of messages, plans and items and *)
(* every bound.  StepShape reduces a step of the system to what it does to *)
(* one plan: nothing, an edit under the row lock, a commit or a rollback.  *)
(* The invariants then follow from the lemmas on plan operations: each one,*)
(* applied where its guard holds, keeps the record well formed (PlanStates)*)
(* and lawful (PlanOK).                                                    *)
(***************************************************************************)
EXTENDS PlanAudit, FiniteSetTheorems, TLAPS

(* The plan a create_plan call starts from. *)
LEMMA EmptyPlanOK ==
    /\ EmptyPlan \in PlanStates
    /\ PlanOK(EmptyPlan)
BY LineageAssumption
   DEF EmptyPlan, PlanStates, Versions, Statuses, MaybeMessage, MaybeProgress, PlanOK,
       OneCurrent, Dense, ApprovalRecorded, StrategyFollowsApproved, ProgressSinceApproval,
       EverApproved

(* create_candidate_version supersedes the old Candidate and numbers the   *)
(* new one next.                                                           *)
LEMMA CreateCandidateVersionOK ==
    ASSUME NEW s \in PlanStates, PlanOK(s), s.last < MaxVersions, NEW m \in Messages
    PROVE  /\ CreateCandidateVersion(s, m) \in PlanStates
           /\ PlanOK(CreateCandidateVersion(s, m))
<1> DEFINE t == CreateCandidateVersion(s, m)
<1>1. s.last + 1 \in Versions
  BY LineageAssumption DEF PlanStates, Versions
<1>2. t \in PlanStates
  <2>1. [v \in Versions |-> IF v = s.last + 1 THEN "CANDIDATE"
                            ELSE IF s.status[v] = "CANDIDATE" THEN "SUPERSEDED"
                            ELSE s.status[v]] \in [Versions -> Statuses]
    BY DEF PlanStates, Statuses
  <2>2. [s.createdBy EXCEPT ![s.last + 1] = m] \in [Versions -> MaybeMessage]
    BY <1>1 DEF PlanStates, MaybeMessage
  <2>3. s.last + 1 \in 0 .. MaxVersions
    BY <1>1 DEF Versions
  <2> QED
    BY <2>1, <2>2, <2>3 DEF CreateCandidateVersion, PlanStates
<1>3. OneCurrent(t)
  BY <1>1, LineageAssumption
     DEF PlanOK, CreateCandidateVersion, PlanStates, OneCurrent
<1>4. Dense(t)
  BY <1>1, LineageAssumption
     DEF PlanOK, CreateCandidateVersion, PlanStates, Dense, Versions
<1>5. ApprovalRecorded(t)
  BY <1>1, LineageAssumption
     DEF PlanOK, CreateCandidateVersion, PlanStates, Dense, ApprovalRecorded, Versions
<1>6. StrategyFollowsApproved(t)
  <2>1. EverApproved(t) = EverApproved(s)
    BY DEF CreateCandidateVersion, EverApproved, PlanStates
  <2>2. s.strategy # 0 => s.strategy # s.last + 1
    BY <1>1, LineageAssumption
       DEF PlanOK, StrategyFollowsApproved, Dense, PlanStates, Versions
  <2> QED
    <3>1. t.strategy = s.strategy /\ t.strategyBy = s.strategyBy
      BY DEF CreateCandidateVersion, PlanStates
    <3>2. ASSUME s.strategy # 0
          PROVE  t.status[s.strategy] = s.status[s.strategy]
      <4>1. s.strategy \in Versions /\ s.status[s.strategy] = "APPROVED"
        BY <3>2, LineageAssumption DEF PlanOK, StrategyFollowsApproved, PlanStates, Versions
      <4> QED
        BY <4>1, <2>2, <3>2 DEF CreateCandidateVersion, PlanStates
    <3> QED
      BY <2>1, <3>1, <3>2 DEF PlanOK, StrategyFollowsApproved
<1>7. ProgressSinceApproval(t)
  BY DEF PlanOK, CreateCandidateVersion, PlanStates, ProgressSinceApproval
<1> QED
  BY <1>2, <1>3, <1>4, <1>5, <1>6, <1>7 DEF PlanOK

(* record_version_presentation changes nothing the laws speak of. *)
LEMMA RecordPresentationsOK ==
    ASSUME NEW s \in PlanStates, PlanOK(s), NEW vs \in SUBSET Versions, NEW m \in Messages
    PROVE  /\ RecordPresentations(s, vs, m) \in PlanStates
           /\ PlanOK(RecordPresentations(s, vs, m))
<1>1. RecordPresentations(s, vs, m) \in PlanStates
  BY DEF RecordPresentations, PlanStates
<1>2. PlanOK(RecordPresentations(s, vs, m))
  BY DEF RecordPresentations, PlanStates, PlanOK, OneCurrent, Dense, ApprovalRecorded,
         StrategyFollowsApproved, ProgressSinceApproval, EverApproved
<1> QED
  BY <1>1, <1>2

(* reject_candidate_version takes only a Candidate. *)
LEMMA RejectOK ==
    ASSUME NEW s \in PlanStates, PlanOK(s), NEW v \in Versions, CanReject(s, v)
    PROVE  /\ Reject(s, v) \in PlanStates
           /\ PlanOK(Reject(s, v))
<1> DEFINE t == Reject(s, v)
<1>1. t \in PlanStates
  BY DEF Reject, PlanStates, Statuses
<1>2. OneCurrent(t) /\ Dense(t) /\ ApprovalRecorded(t) /\ ProgressSinceApproval(t)
  BY LineageAssumption
     DEF CanReject, Reject, PlanStates, PlanOK, OneCurrent, Dense, ApprovalRecorded,
         ProgressSinceApproval
<1>3. StrategyFollowsApproved(t)
  BY LineageAssumption
     DEF CanReject, Reject, PlanStates, PlanOK, StrategyFollowsApproved, EverApproved, Versions
<1> QED
  BY <1>1, <1>2, <1>3 DEF PlanOK

(* approve_plan_version: the swap of Approved versions, the Strategy and   *)
(* the progress rows together.                                             *)
LEMMA ApproveOK ==
    ASSUME NEW s \in PlanStates, PlanOK(s), NEW v \in Versions, NEW m \in Messages,
           CanApprove(s, v)
    PROVE  /\ Approve(s, v, m) \in PlanStates
           /\ PlanOK(Approve(s, v, m))
<1> DEFINE t == Approve(s, v, m)
<1>0. m # NoMessage
  BY LineageAssumption
<1>1. t \in PlanStates
  <2>1. SwitchApproved(s.status, v) \in [Versions -> Statuses]
    BY DEF SwitchApproved, PlanStates, Statuses
  <2>2. [s.approvedBy EXCEPT ![v] = m] \in [Versions -> MaybeMessage]
    BY DEF PlanStates, MaybeMessage
  <2>3. [s.progress EXCEPT ![v] = [i \in Items |-> "NOT_STARTED"]]
            \in [Versions -> [Items -> MaybeProgress]]
    BY LineageAssumption DEF PlanStates, MaybeProgress
  <2>4. v \in 0 .. MaxVersions /\ m \in MaybeMessage
    BY LineageAssumption DEF Versions, MaybeMessage
  <2> QED
    BY <2>1, <2>2, <2>3, <2>4 DEF Approve, PlanStates
<1>2. OneCurrent(t)
  BY DEF CanApprove, Approve, SwitchApproved, PlanStates, PlanOK, OneCurrent
<1>3. Dense(t)
  BY DEF CanApprove, Approve, SwitchApproved, PlanStates, PlanOK, Dense
<1>4. ApprovalRecorded(t)
  BY <1>0 DEF CanApprove, Approve, SwitchApproved, PlanStates, PlanOK, ApprovalRecorded
<1>5. StrategyFollowsApproved(t)
  <2>1. t.strategy = v /\ t.strategyBy = m /\ t.status[v] = "APPROVED"
    BY DEF Approve, SwitchApproved, PlanStates
  <2>2. v # 0
    BY DEF Versions
  <2> QED
    BY <1>0, <2>1, <2>2 DEF StrategyFollowsApproved
<1>6. ProgressSinceApproval(t)
  BY <1>0, LineageAssumption
     DEF Approve, PlanStates, PlanOK, ProgressSinceApproval
<1> QED
  BY <1>1, <1>2, <1>3, <1>4, <1>5, <1>6 DEF PlanOK

(* reactivate_historical_plan_version: as approval, with the metadata and  *)
(* progress the version already has.                                       *)
LEMMA ReactivateOK ==
    ASSUME NEW s \in PlanStates, PlanOK(s), NEW v \in Versions, NEW m \in Messages,
           CanReactivate(s, v)
    PROVE  /\ Reactivate(s, v, m) \in PlanStates
           /\ PlanOK(Reactivate(s, v, m))
<1> DEFINE t == Reactivate(s, v, m)
<1>0. m # NoMessage /\ s.status[v] = "SUPERSEDED" /\ s.approvedBy[v] # NoMessage
  BY LineageAssumption DEF CanReactivate, Historical, WithStatus, EverApproved
<1>1. t \in PlanStates
  <2>1. SwitchApproved(s.status, v) \in [Versions -> Statuses]
    BY DEF SwitchApproved, PlanStates, Statuses
  <2>2. v \in 0 .. MaxVersions /\ m \in MaybeMessage
    BY LineageAssumption DEF Versions, MaybeMessage
  <2> QED
    BY <2>1, <2>2 DEF Reactivate, PlanStates
<1>2. OneCurrent(t)
  BY <1>0 DEF Reactivate, SwitchApproved, PlanStates, PlanOK, OneCurrent
<1>3. Dense(t)
  BY <1>0 DEF Reactivate, SwitchApproved, PlanStates, PlanOK, Dense
<1>4. ApprovalRecorded(t)
  BY <1>0 DEF Reactivate, SwitchApproved, PlanStates, PlanOK, ApprovalRecorded
<1>5. StrategyFollowsApproved(t)
  <2>1. t.strategy = v /\ t.strategyBy = m /\ t.status[v] = "APPROVED"
    BY DEF Reactivate, SwitchApproved, PlanStates
  <2>2. v # 0
    BY DEF Versions
  <2> QED
    BY <1>0, <2>1, <2>2 DEF StrategyFollowsApproved
<1>6. ProgressSinceApproval(t)
  BY DEF Reactivate, PlanStates, PlanOK, ProgressSinceApproval
<1> QED
  BY <1>1, <1>2, <1>3, <1>4, <1>5, <1>6 DEF PlanOK

(* update_plan_item_progress only overwrites a row that exists. *)
LEMMA UpdateProgressOK ==
    ASSUME NEW s \in PlanStates, PlanOK(s), NEW v \in Versions, NEW i \in Items,
           NEW st \in ProgressStates, CanUpdateProgress(s, v, i)
    PROVE  /\ UpdateProgress(s, v, i, st) \in PlanStates
           /\ PlanOK(UpdateProgress(s, v, i, st))
<1> DEFINE t == UpdateProgress(s, v, i, st)
<1>1. t \in PlanStates
  BY DEF UpdateProgress, PlanStates, MaybeProgress
<1>2. OneCurrent(t) /\ Dense(t) /\ ApprovalRecorded(t)
  BY DEF UpdateProgress, PlanStates, PlanOK, OneCurrent, Dense, ApprovalRecorded
<1>3. StrategyFollowsApproved(t)
  BY DEF UpdateProgress, PlanStates, PlanOK, StrategyFollowsApproved, EverApproved
<1>4. ProgressSinceApproval(t)
  <2>1. ASSUME NEW w \in Versions, NEW j \in Items
        PROVE  t.progress[w][j] = IF w = v /\ j = i THEN st ELSE s.progress[w][j]
    BY DEF UpdateProgress, PlanStates
  <2>2. t.approvedBy = s.approvedBy
    BY DEF UpdateProgress, PlanStates
  <2> QED
    BY <2>1, <2>2, LineageAssumption
       DEF CanUpdateProgress, PlanOK, ProgressSinceApproval
<1> QED
  BY <1>1, <1>2, <1>3, <1>4 DEF PlanOK

-----------------------------------------------------------------------------

(* A row lock is held by a running turn; without one nothing is uncommitted. *)
HolderRuns ==
    \A p \in Plans : IF holder[p] = NoMessage THEN draft[p] = db[p] ELSE Running(holder[p])

Lawful == \A p \in Plans : PlanOK(db[p]) /\ PlanOK(draft[p])

Base == TypeOK /\ HolderRuns /\ Lawful

(* t is s after one tool of turn m, or s itself. *)
ToolEffect(s, t, m) ==
    \/ t = s
    \/ /\ s.last < MaxVersions
       /\ t = CreateCandidateVersion(s, m)
    \/ \E v \in Versions :
          \/ CanApprove(s, v) /\ PresentedBefore(s, v, m) /\ t = Approve(s, v, m)
          \/ CanReject(s, v) /\ t = Reject(s, v)
          \/ CanReactivate(s, v) /\ PresentedBefore(s, v, m) /\ t = Reactivate(s, v, m)
          \/ \E i \in Items, st \in ProgressStates :
                CanUpdateProgress(s, v, i) /\ t = UpdateProgress(s, v, i, st)

(* What a step may do to plan p. *)
Untouched(p) ==
    /\ db'[p] = db[p] /\ draft'[p] = draft[p] /\ holder'[p] = holder[p]
    /\ holder[p] # NoMessage => /\ phase'[holder[p]] = phase[holder[p]]
                                /\ pending[holder[p]] \subseteq pending'[holder[p]]
Edited(p, m) ==
    /\ Running(m) /\ phase' = phase
    /\ holder[p] \in {NoMessage, m} /\ holder'[p] = m
    /\ db'[p] = db[p]
    /\ ToolEffect(draft[p], draft'[p], m)
    /\ pending[m] \subseteq pending'[m]
    /\ draft'[p].last > draft[p].last => <<p, draft'[p].last>> \in pending'[m]
CommittedStep(p, m) ==
    /\ Running(m) /\ phase' = [phase EXCEPT ![m] = "replied"]
    /\ holder[p] \in {NoMessage, m} /\ holder'[p] = NoMessage
    /\ db'[p] = RecordPresentations(draft[p], PendingOf(m, p), m)
    /\ draft'[p] = db'[p]
    /\ pending'[m] = {}
RolledBackStep(p, m) ==
    /\ Running(m) /\ phase' = [phase EXCEPT ![m] = "failed"] /\ pending'[m] = {}
    /\ holder[p] = m /\ holder'[p] = NoMessage
    /\ db'[p] = db[p] /\ draft'[p] = db[p]
PlanStep(p) ==
    \/ Untouched(p)
    \/ \E m \in Messages : Edited(p, m) \/ CommittedStep(p, m) \/ RolledBackStep(p, m)

-----------------------------------------------------------------------------
(* Only create_candidate_version takes a new number. *)
LEMMA LastNumber ==
    ASSUME NEW s \in PlanStates, NEW v, NEW m, NEW i, NEW st
    PROVE  /\ CreateCandidateVersion(s, m).last = s.last + 1
           /\ ~(Approve(s, v, m).last > s.last)
           /\ ~(Reject(s, v).last > s.last)
           /\ ~(Reactivate(s, v, m).last > s.last)
           /\ ~(UpdateProgress(s, v, i, st).last > s.last)
           /\ ~(s.last > s.last)
BY LineageAssumption
   DEF CreateCandidateVersion, Approve, Reject, Reactivate, UpdateProgress, PlanStates

(* A placeholder registered by a turn joins those it had, for its plan only. *)
LEMMA RegisterGrows ==
    ASSUME TypeOK, NEW m \in Messages, NEW p, NEW v, Register(m, p, v)
    PROVE  /\ \A k \in Messages : pending[k] \subseteq pending'[k]
           /\ <<p, v>> \in pending'[m]
BY DEF TypeOK, Register

(* A step that leaves pending alone registers nothing. *)
LEMMA NothingRegistered ==
    ASSUME pending' = pending
    PROVE  \A k \in Messages : pending[k] \subseteq pending'[k]
OBVIOUS

(* A step that leaves the plans and every running turn alone. *)
LEMMA IdleStep ==
    ASSUME Base, UNCHANGED <<db, draft, holder>>,
           \A k \in Messages : Running(k) => /\ phase'[k] = phase[k]
                                             /\ pending[k] \subseteq pending'[k]
    PROVE  \A p \in Plans : PlanStep(p)
BY DEF Base, TypeOK, HolderRuns, MaybeMessage, PlanStep, Untouched

(* A step in which turn m edits plan p under its lock. *)
LEMMA EditStep ==
    ASSUME Base, NEW m \in Messages, NEW p \in Plans, NEW t,
           Running(m), phase' = phase, db' = db, Lock(m, p),
           draft' = [draft EXCEPT ![p] = t], ToolEffect(draft[p], t, m),
           \A k \in Messages : pending[k] \subseteq pending'[k],
           t.last > draft[p].last => <<p, t.last>> \in pending'[m]
    PROVE  \A q \in Plans : PlanStep(q)
<1>1. Edited(p, m)
  BY DEF Base, TypeOK, Lock, Edited
<1>2. ASSUME NEW q \in Plans, q # p PROVE Untouched(q)
  BY <1>2 DEF Base, TypeOK, Lock, HolderRuns, MaybeMessage, Untouched
<1> QED
  BY <1>1, <1>2 DEF PlanStep

(* The commit of a turn: one presentation record per render, locks released. *)
LEMMA FinishStep ==
    ASSUME Base, NEW m \in Messages, Finish(m)
    PROVE  \A p \in Plans : PlanStep(p)
<1> SUFFICES ASSUME NEW p \in Plans PROVE PlanStep(p)
  OBVIOUS
<1>0. m # NoMessage
  BY LineageAssumption
<1>1. CASE holder[p] = m \/ PendingOf(m, p) # {}
  <2>1. CommittedStep(p, m)
    BY <1>0, <1>1 DEF Base, TypeOK, Finish, CommittedStep
  <2> QED
    BY <2>1 DEF PlanStep
<1>2. CASE ~(holder[p] = m \/ PendingOf(m, p) # {})
  <2>1. Untouched(p)
    BY <1>2 DEF Base, TypeOK, Finish, Untouched
  <2> QED
    BY <2>1 DEF PlanStep
<1> QED
  BY <1>1, <1>2

(* The rollback of a turn: drafts it held go back to what is committed. *)
LEMMA AbortStep ==
    ASSUME Base, NEW m \in Messages, Abort(m)
    PROVE  \A p \in Plans : PlanStep(p)
<1> SUFFICES ASSUME NEW p \in Plans PROVE PlanStep(p)
  OBVIOUS
<1>1. CASE holder[p] = m
  <2>1. RolledBackStep(p, m)
    BY <1>1 DEF Base, TypeOK, Abort, RolledBack, RolledBackStep
  <2> QED
    BY <2>1 DEF PlanStep
<1>2. CASE holder[p] # m
  <2>1. Untouched(p)
    BY <1>2 DEF Base, TypeOK, Abort, RolledBack, Untouched
  <2> QED
    BY <2>1 DEF PlanStep
<1> QED
  BY <1>1, <1>2

(* A resolved target is a well-formed one whenever its op is a real one. *)
LEMMA TargetTyped ==
    ASSUME TypeOK, NEW m \in Messages,
           target[m].op \in {"approve", "reject", "reactivate", "progress"}
    PROVE  target[m].plan \in Plans /\ target[m].version \in Versions
BY DEF TypeOK, Targets, NoTarget

(* What each action of the system does to a plan. *)
LEMMA StepShape ==
    ASSUME Base, [Next]_vars
    PROVE  \A p \in Plans : PlanStep(p)
<1>0. ASSUME NEW p \in Plans PROVE draft[p] \in PlanStates
  BY DEF Base, TypeOK
<1>1. CASE Tick
  BY <1>1, IdleStep DEF Tick
<1>2. ASSUME NEW m \in Messages, Send(m) PROVE \A p \in Plans : PlanStep(p)
  BY <1>2, IdleStep DEF Send, Base, TypeOK, Running
<1>3. ASSUME NEW m \in Messages, Begin(m) PROVE \A p \in Plans : PlanStep(p)
  BY <1>3, IdleStep DEF Begin, Unanswered, Base, TypeOK, Running
<1>4. ASSUME NEW m \in Messages, NEW p \in Plans, CreatePlanWithCandidate(m, p)
      PROVE  \A q \in Plans : PlanStep(q)
  <2>1. draft[p].last < MaxVersions
    BY <1>4, LineageAssumption
       DEF CreatePlanWithCandidate, Exists, Base, HolderRuns, TypeOK, PlanStates
  <2>2. draft[p].last = 0 /\ draft[p].last + 1 = 1
    BY <1>4 DEF CreatePlanWithCandidate, Exists, Base, HolderRuns, TypeOK, PlanStates
  <2>3. ToolEffect(draft[p], CreateCandidateVersion(draft[p], m), m)
    BY <2>1, <2>2 DEF ToolEffect
  <2> QED
    BY <1>0, <1>4, <2>2, <2>3, EditStep, LastNumber, RegisterGrows
       DEF CreatePlanWithCandidate, ToolCall, Base
<1>5. ASSUME NEW m \in Messages, NEW p \in Plans, PresentCandidatePlan(m, p)
      PROVE  \A q \in Plans : PlanStep(q)
  <2>1. ToolEffect(draft[p], CreateCandidateVersion(draft[p], m), m)
    BY <1>5 DEF ToolEffect, PresentCandidatePlan, AsksToReplan
  <2> QED
    BY <1>0, <1>5, <2>1, EditStep, LastNumber, RegisterGrows
       DEF PresentCandidatePlan, ToolCall, Base
<1>6. ASSUME NEW m \in Messages, NEW p \in Plans,
             ShowCurrentCandidate(m, p) \/ ShowHistoricalPlanForReturn(m, p)
      PROVE  \A q \in Plans : PlanStep(q)
  BY <1>6, IdleStep, RegisterGrows
     DEF ShowCurrentCandidate, ShowHistoricalPlanForReturn, Base
<1>7. ASSUME NEW m \in Messages,
             \/ ResolveCandidate(m) \/ ResolveCurrent(m)
             \/ ResolveHistorical(m) \/ ResolveApprovedItem(m)
      PROVE  \A q \in Plans : PlanStep(q)
  <2>1. db' = db /\ draft' = draft /\ holder' = holder /\ phase' = phase /\ pending' = pending
    BY <1>7 DEF ResolveCandidate, ResolveCurrent, ResolveHistorical, ResolveApprovedItem,
                ResolveImmediate, ResolveExplicit, Resolve
  <2> QED
    BY <2>1, IdleStep
<1>8. ASSUME NEW m \in Messages, ApprovePlanVersion(m)
      PROVE  \A q \in Plans : PlanStep(q)
  <2> DEFINE p == target[m].plan
             v == target[m].version
  <2>1. p \in Plans /\ v \in Versions
    BY <1>8, TargetTyped DEF ApprovePlanVersion, Apply, Base
  <2>2. ToolEffect(draft[p], Approve(draft[p], v, m), m)
    BY <1>8, <2>1 DEF ApprovePlanVersion, ToolEffect
  <2>4. ~(Approve(draft[p], v, m).last > draft[p].last)
    BY <1>0, <2>1, LastNumber
  <2> QED
    BY <1>8, <2>1, <2>2, <2>4, EditStep, NothingRegistered DEF ApprovePlanVersion, Apply
<1>9. ASSUME NEW m \in Messages, RejectCandidateVersion(m)
      PROVE  \A q \in Plans : PlanStep(q)
  <2> DEFINE p == target[m].plan
             v == target[m].version
  <2>1. p \in Plans /\ v \in Versions
    BY <1>9, TargetTyped DEF RejectCandidateVersion, Apply, Base
  <2>2. ToolEffect(draft[p], Reject(draft[p], v), m)
    BY <1>9, <2>1 DEF RejectCandidateVersion, ToolEffect
  <2>4. ~(Reject(draft[p], v).last > draft[p].last)
    BY <1>0, <2>1, LastNumber
  <2> QED
    BY <1>9, <2>1, <2>2, <2>4, EditStep, NothingRegistered DEF RejectCandidateVersion, Apply
<1>10. ASSUME NEW m \in Messages, ReactivateHistoricalPlanVersion(m)
       PROVE  \A q \in Plans : PlanStep(q)
  <2> DEFINE p == target[m].plan
             v == target[m].version
  <2>1. p \in Plans /\ v \in Versions
    BY <1>10, TargetTyped DEF ReactivateHistoricalPlanVersion, Apply, Base
  <2>2. CASE draft' = draft
    <3>1. draft' = [draft EXCEPT ![p] = draft[p]]
      BY <2>1, <2>2 DEF Base, TypeOK
    <3>2. ToolEffect(draft[p], draft[p], m)
      BY DEF ToolEffect
    <3> QED
      BY <1>10, <2>1, <3>1, <3>2, <1>0, EditStep, LastNumber, NothingRegistered
         DEF ReactivateHistoricalPlanVersion, Apply
  <2>3. CASE /\ CanReactivate(draft[p], v)
             /\ PresentedBefore(draft[p], v, m)
             /\ draft' = [draft EXCEPT ![p] = Reactivate(draft[p], v, m)]
    <3>1. ToolEffect(draft[p], Reactivate(draft[p], v, m), m)
      BY <2>1, <2>3 DEF ToolEffect
    <3>2. ~(Reactivate(draft[p], v, m).last > draft[p].last)
      BY <1>0, <2>1, LastNumber
    <3> QED
      BY <1>10, <2>1, <2>3, <3>1, <3>2, EditStep, NothingRegistered
         DEF ReactivateHistoricalPlanVersion, Apply
  <2> QED
    BY <1>10, <2>2, <2>3 DEF ReactivateHistoricalPlanVersion
<1>11. ASSUME NEW m \in Messages, UpdatePlanItemProgress(m)
       PROVE  \A q \in Plans : PlanStep(q)
  <2> DEFINE p == target[m].plan
             v == target[m].version
  <2>1. p \in Plans /\ v \in Versions
    BY <1>11, TargetTyped DEF UpdatePlanItemProgress, Apply, Base
  <2>2. PICK i \in Items, st \in ProgressStates :
            /\ CanUpdateProgress(draft[p], v, i)
            /\ draft' = [draft EXCEPT ![p] = UpdateProgress(draft[p], v, i, st)]
    BY <1>11 DEF UpdatePlanItemProgress
  <2>3. ToolEffect(draft[p], UpdateProgress(draft[p], v, i, st), m)
    BY <2>1, <2>2 DEF ToolEffect
  <2>4. ~(UpdateProgress(draft[p], v, i, st).last > draft[p].last)
    BY <1>0, <2>1, LastNumber
  <2> QED
    BY <1>11, <2>1, <2>2, <2>3, <2>4, EditStep, NothingRegistered DEF UpdatePlanItemProgress, Apply
<1>12. CASE UNCHANGED vars
  BY <1>12, IdleStep DEF vars
<1> QED
  BY <1>1, <1>2, <1>3, <1>4, <1>5, <1>6, <1>7, <1>8, <1>9, <1>10, <1>11, <1>12,
     FinishStep, AbortStep DEF Next

-----------------------------------------------------------------------------
(* Whatever a tool does to a plan keeps the plan well formed and lawful. *)
LEMMA ToolEffectOK ==
    ASSUME NEW s \in PlanStates, PlanOK(s), NEW m \in Messages, NEW t, ToolEffect(s, t, m)
    PROVE  t \in PlanStates /\ PlanOK(t)
BY CreateCandidateVersionOK, ApproveOK, RejectOK, ReactivateOK, UpdateProgressOK DEF ToolEffect

(* The plans stay well formed and lawful, and locks stay with running turns. *)
LEMMA PlansStep ==
    ASSUME Base, [Next]_vars, NEW p \in Plans
    PROVE  /\ db'[p] \in PlanStates /\ PlanOK(db'[p])
           /\ draft'[p] \in PlanStates /\ PlanOK(draft'[p])
           /\ holder'[p] \in MaybeMessage
           /\ IF holder'[p] = NoMessage THEN draft'[p] = db'[p]
              ELSE phase'[holder'[p]] = "running"
<1>0. /\ db[p] \in PlanStates /\ PlanOK(db[p])
      /\ draft[p] \in PlanStates /\ PlanOK(draft[p])
      /\ holder[p] \in MaybeMessage
  BY DEF Base, TypeOK, Lawful
<1>1. PlanStep(p)
  BY StepShape
<1>2. CASE Untouched(p)
  BY <1>0, <1>2 DEF Untouched, Base, HolderRuns, Running
<1>3. ASSUME NEW m \in Messages, Edited(p, m)
      PROVE  /\ db'[p] \in PlanStates /\ PlanOK(db'[p])
             /\ draft'[p] \in PlanStates /\ PlanOK(draft'[p])
             /\ holder'[p] \in MaybeMessage
             /\ holder'[p] = m /\ phase'[m] = "running" /\ m # NoMessage
  BY <1>0, <1>3, ToolEffectOK, LineageAssumption DEF Edited, Running, MaybeMessage
<1>4. ASSUME NEW m \in Messages, CommittedStep(p, m)
      PROVE  /\ db'[p] \in PlanStates /\ PlanOK(db'[p]) /\ draft'[p] = db'[p]
             /\ holder'[p] = NoMessage /\ holder'[p] \in MaybeMessage
  <2>1. PendingOf(m, p) \in SUBSET Versions
    BY DEF PendingOf
  <2> QED
    BY <1>0, <1>4, <2>1, RecordPresentationsOK DEF CommittedStep, MaybeMessage
<1>5. ASSUME NEW m \in Messages, RolledBackStep(p, m)
      PROVE  /\ db'[p] \in PlanStates /\ PlanOK(db'[p]) /\ draft'[p] = db'[p]
             /\ holder'[p] = NoMessage /\ holder'[p] \in MaybeMessage
  BY <1>0, <1>5 DEF RolledBackStep, MaybeMessage
<1> QED
  BY <1>1, <1>2, <1>3, <1>4, <1>5 DEF PlanStep

(* The bookkeeping of turns stays in its type. *)
TurnsTyped ==
    /\ clock \in Ticks
    /\ phase \in [Messages -> Phases]
    /\ sentTick \in [Messages -> Ticks]
    /\ startedAt \in [Messages -> Ticks]
    /\ repliedAt \in [Messages -> Ticks]
    /\ tools \in [Messages -> 0 .. MaxTools]
    /\ pending \in [Messages -> SUBSET (Plans \X Versions)]
    /\ target \in [Messages -> Targets \cup {NoTarget}]
    /\ DOMAIN db = Plans /\ DOMAIN draft = Plans /\ DOMAIN holder = Plans
    /\ db = [p \in Plans |-> db[p]]
    /\ draft = [p \in Plans |-> draft[p]]
    /\ holder = [p \in Plans |-> holder[p]]

(* The per-message state keeps its type. *)
LEMMA TurnsTypedStep ==
    ASSUME Base, [Next]_vars
    PROVE  TurnsTyped'
<1> USE TurnsAssumption, LineageAssumption DEF TurnsTyped
<1>0. TurnsTyped
  BY DEF Base, TypeOK
<1>1. CASE Tick
  BY <1>0, <1>1 DEF Tick, Ticks
<1>2. ASSUME NEW m \in Messages, Send(m) PROVE TurnsTyped'
  BY <1>0, <1>2 DEF Send, Phases
<1>3. ASSUME NEW m \in Messages, Begin(m) PROVE TurnsTyped'
  BY <1>0, <1>3 DEF Begin, Phases
<1>4. ASSUME NEW m \in Messages, ToolCall(m) PROVE tools' \in [Messages -> 0 .. MaxTools]
  BY <1>0, <1>4 DEF ToolCall
<1>5. ASSUME NEW m \in Messages, NEW p \in Plans, NEW v \in Versions, Register(m, p, v)
      PROVE  pending' \in [Messages -> SUBSET (Plans \X Versions)]
  BY <1>0, <1>5 DEF Register
<1>6. ASSUME NEW m \in Messages, NEW p \in Plans, CreatePlanWithCandidate(m, p)
      PROVE  TurnsTyped'
  <2>1. 1 \in Versions
    BY <1>6 DEF CreatePlanWithCandidate, Versions
  <2> QED
    BY <1>0, <1>4, <1>5, <1>6, <2>1 DEF CreatePlanWithCandidate, Lock
<1>7. ASSUME NEW m \in Messages, NEW p \in Plans, PresentCandidatePlan(m, p)
      PROVE  TurnsTyped'
  <2>1. draft[p].last + 1 \in Versions
    BY <1>7 DEF PresentCandidatePlan, Versions, Base, TypeOK, PlanStates
  <2> QED
    BY <1>0, <1>4, <1>5, <1>7, <2>1 DEF PresentCandidatePlan, Lock
<1>8. ASSUME NEW m \in Messages, NEW p \in Plans,
             ShowCurrentCandidate(m, p) \/ ShowHistoricalPlanForReturn(m, p)
      PROVE  TurnsTyped'
  BY <1>0, <1>4, <1>5, <1>8
     DEF ShowCurrentCandidate, ShowHistoricalPlanForReturn, Candidates, Historical,
         WithStatus
<1>9. ASSUME NEW m \in Messages, NEW t \in Targets, ToolCall(m), Resolve(m, t)
      PROVE  TurnsTyped'
  BY <1>0, <1>4, <1>9 DEF Resolve
<1>10. ASSUME NEW m \in Messages, NEW op \in {"approve", "reject", "reactivate"},
              \/ ResolveImmediate(m, op)
              \/ ResolveExplicit(m, op)
       PROVE  TurnsTyped'
  BY <1>9, <1>10 DEF ResolveImmediate, ResolveExplicit, Targets
<1>11. ASSUME NEW m \in Messages,
              \/ ResolveCandidate(m) \/ ResolveCurrent(m)
              \/ ResolveHistorical(m) \/ ResolveApprovedItem(m)
       PROVE  TurnsTyped'
  <2>1. CASE ResolveCandidate(m) \/ ResolveHistorical(m)
    BY <1>10, <2>1 DEF ResolveCandidate, ResolveHistorical
  <2>2. CASE ResolveCurrent(m)
    BY <1>9, <2>2 DEF ResolveCurrent, Targets
  <2>3. CASE ResolveApprovedItem(m)
    BY <1>9, <2>3 DEF ResolveApprovedItem, Targets
  <2> QED
    BY <1>11, <2>1, <2>2, <2>3
<1>13. ASSUME NEW m \in Messages,
              \/ ApprovePlanVersion(m) \/ RejectCandidateVersion(m)
              \/ ReactivateHistoricalPlanVersion(m) \/ UpdatePlanItemProgress(m)
       PROVE  TurnsTyped'
  <2>1. PICK op : Apply(m, op)
    BY <1>13 DEF ApprovePlanVersion, RejectCandidateVersion, ReactivateHistoricalPlanVersion,
                 UpdatePlanItemProgress
  <2>2. DOMAIN draft' = Plans /\ draft' = [p \in Plans |-> draft'[p]]
    BY <1>0, <1>13 DEF ApprovePlanVersion, RejectCandidateVersion,
                       ReactivateHistoricalPlanVersion, UpdatePlanItemProgress
  <2> QED
    BY <1>0, <2>1, <2>2 DEF Apply, Lock
<1>14. ASSUME NEW m \in Messages, Finish(m) PROVE TurnsTyped'
  BY <1>0, <1>14 DEF Finish, Phases
<1>15. ASSUME NEW m \in Messages, Abort(m) PROVE TurnsTyped'
  BY <1>0, <1>15 DEF Abort, Phases
<1>16. CASE UNCHANGED vars
  BY <1>0, <1>16 DEF vars
<1> QED
  BY <1>1, <1>2, <1>3, <1>6, <1>7, <1>8, <1>11, <1>13, <1>14, <1>15, <1>16 DEF Next

(* The empty database satisfies the inductive invariant. *)
LEMMA BaseInit == Init => Base
BY EmptyPlanOK, TurnsAssumption, LineageAssumption
   DEF Init, Base, TypeOK, HolderRuns, Lawful, Ticks, Phases, Targets, MaybeMessage

(* Every step of every turn preserves the inductive invariant. *)
LEMMA BaseStep == Base /\ [Next]_vars => Base'
<1> SUFFICES ASSUME Base, [Next]_vars PROVE Base'
  OBVIOUS
<1>1. TurnsTyped'
  BY TurnsTypedStep
<1>2. ASSUME NEW p \in Plans
      PROVE  /\ db'[p] \in PlanStates /\ PlanOK(db'[p])
             /\ draft'[p] \in PlanStates /\ PlanOK(draft'[p])
             /\ holder'[p] \in MaybeMessage
             /\ IF holder'[p] = NoMessage THEN draft'[p] = db'[p]
                ELSE phase'[holder'[p]] = "running"
  BY PlansStep
<1>3. TypeOK'
  BY <1>1, <1>2 DEF TurnsTyped, TypeOK
<1>4. HolderRuns' /\ Lawful'
  BY <1>2 DEF HolderRuns, Lawful, Running
<1> QED
  BY <1>3, <1>4 DEF Base

(* The inductive invariant holds: types, locks held by running turns only, *)
(* and every copy of a plan lawful. *)
THEOREM BaseInvariant == Spec => []Base
BY BaseInit, BaseStep, PTL DEF Spec

(* The plan records are well formed in every reachable state. *)
THEOREM TypeCorrect == Spec => []TypeOK
BY BaseInvariant, PTL DEF Base

(* No interleaving of turns brings a plan to two Candidates, two Approved  *)
(* versions, a numbering gap or approval metadata on the wrong version.    *)
THEOREM LineageIsSound == Spec => []LineageSound
<1>1. Base => LineageSound
  BY DEF Base, Lawful, PlanOK, LineageSound
<1> QED
  BY <1>1, BaseInvariant, PTL

(* Strategy and Approved version never disagree, committed or not. *)
THEOREM StrategyAndPlanAlwaysAgree == Spec => []StrategyAndPlanAgree
<1>1. Base => StrategyAndPlanAgree
  BY DEF Base, Lawful, PlanOK, StrategyAndPlanAgree
<1> QED
  BY <1>1, BaseInvariant, PTL

(* A version has progress rows exactly since its one approval. *)
THEOREM ProgressIsKept == Spec => []ProgressKept
<1>1. Base => ProgressKept
  BY DEF Base, Lawful, PlanOK, ProgressKept
<1> QED
  BY <1>1, BaseInvariant, PTL

-----------------------------------------------------------------------------
(***************************************************************************)
(* Provenance: who is named in a plan, and what was shown to whom.  The    *)
(* predicates are on one plan record; R is the set of answered messages, h *)
(* the turn that holds the record, st and sent the start times of turns    *)
(* and the send times of messages.                                         *)
(***************************************************************************)
Traced(s, R, h) ==
    /\ \A v \in Versions : s.createdBy[v] \in R \cup {h, NoMessage}
    /\ \A v \in Versions : s.approvedBy[v] \in R \cup {h, NoMessage}
    /\ s.strategyBy \in R \cup {h, NoMessage}
    /\ \A v \in Versions, k \in Messages : <<v, k>> \in s.shown => k \in R

SeenBy(s, v, m, st, sent) ==
    \E k \in Messages \ {m} : /\ <<v, k>> \in s.shown
                              /\ Conversation[k] = Conversation[m]
                              /\ st[k] <= sent[m]
Presented(s, st, sent) ==
    /\ \A v \in Versions :
          s.approvedBy[v] # NoMessage => SeenBy(s, v, s.approvedBy[v], st, sent)
    /\ s.strategy # 0 => SeenBy(s, s.strategy, s.strategyBy, st, sent)

(* Every version was shown, or is registered for the answer of turn h. *)
Announced(s, h, registered) ==
    \A v \in Versions : s.status[v] # "ABSENT" =>
        \/ <<v, s.createdBy[v]>> \in s.shown
        \/ s.createdBy[v] = h /\ v \in registered

SentTimes == [m \in Messages |-> SentAt(m)]
Registered(p) == IF holder[p] = NoMessage THEN {} ELSE PendingOf(holder[p], p)

Provenance ==
    \A p \in Plans :
        /\ Traced(db[p], Replied, NoMessage) /\ Traced(draft[p], Replied, holder[p])
        /\ Presented(db[p], startedAt, SentTimes) /\ Presented(draft[p], startedAt, SentTimes)
        /\ Announced(db[p], NoMessage, {}) /\ Announced(draft[p], holder[p], Registered(p))
        /\ Continues(db[p], draft[p])

Full == Base /\ Provenance

-----------------------------------------------------------------------------
(* Lemmas on one record: what a tool and a commit do to each part. *)

(* A plan continues itself. *)
LEMMA ContinuesReflexive ==
    ASSUME NEW s \in PlanStates, PlanOK(s)
    PROVE  Continues(s, s)
BY LineageAssumption DEF Continues, Ended, PlanStates, PlanOK, ApprovalRecorded

(* Continuing is transitive, so a turn of many tools continues what it read. *)
LEMMA ContinuesTransitive ==
    ASSUME NEW s \in PlanStates, NEW t \in PlanStates, NEW u \in PlanStates,
           Continues(s, t), Continues(t, u)
    PROVE  Continues(s, u)
<1>1. u.last >= s.last /\ s.shown \subseteq u.shown
  BY LineageAssumption DEF Continues, PlanStates
<1>2. ASSUME NEW v \in Versions, s.approvedBy[v] # NoMessage
      PROVE  u.approvedBy[v] = s.approvedBy[v]
  BY <1>2 DEF Continues
<1>3. ASSUME NEW v \in Versions, Ended(s, v)
      PROVE  u.status[v] = s.status[v] /\ u.approvedBy[v] = NoMessage
  <2>1. t.status[v] = s.status[v] /\ t.approvedBy[v] = NoMessage
    BY <1>3 DEF Continues
  <2>2. Ended(t, v)
    BY <1>3, <2>1 DEF Ended
  <2> QED
    BY <2>1, <2>2 DEF Continues
<1> QED
  BY <1>1, <1>2, <1>3 DEF Continues

(* create_candidate_version ends no other version than the old Candidate. *)
LEMMA CreateContinues ==
    ASSUME NEW s \in PlanStates, PlanOK(s), s.last < MaxVersions, NEW m \in Messages
    PROVE  Continues(s, CreateCandidateVersion(s, m))
<1> DEFINE t == CreateCandidateVersion(s, m)
<1>1. t.last >= s.last /\ t.shown = s.shown /\ t.approvedBy = s.approvedBy
  BY LineageAssumption DEF CreateCandidateVersion, PlanStates
<1>2. ASSUME NEW v \in Versions, Ended(s, v)
      PROVE  t.status[v] = s.status[v] /\ t.approvedBy[v] = NoMessage
  <2>1. s.approvedBy[v] = NoMessage
    BY <1>2 DEF Ended, PlanOK, ApprovalRecorded
  <2>2. v # s.last + 1
    BY <1>2, LineageAssumption DEF Ended, PlanOK, Dense, PlanStates, Versions
  <2> QED
    BY <1>1, <1>2, <2>1, <2>2 DEF Ended, CreateCandidateVersion, PlanStates
<1> QED
  BY <1>1, <1>2 DEF Continues

(* approve_plan_version writes approval metadata where there was none. *)
LEMMA ApproveContinues ==
    ASSUME NEW s \in PlanStates, PlanOK(s), NEW m \in Messages, NEW v \in Versions,
           CanApprove(s, v)
    PROVE  Continues(s, Approve(s, v, m))
<1> DEFINE t == Approve(s, v, m)
<1>1. t.last >= s.last /\ t.shown = s.shown
  BY LineageAssumption DEF Approve, PlanStates
<1>2. s.approvedBy[v] = NoMessage /\ ~Ended(s, v)
  BY DEF CanApprove, PlanOK, ApprovalRecorded, Ended
<1>3. \A w \in Versions : w # v => t.approvedBy[w] = s.approvedBy[w]
  BY DEF Approve, PlanStates
<1>4. ASSUME NEW w \in Versions, Ended(s, w)
      PROVE  t.status[w] = s.status[w] /\ t.approvedBy[w] = NoMessage
  <2>1. s.approvedBy[w] = NoMessage
    BY <1>4 DEF Ended, PlanOK, ApprovalRecorded
  <2> QED
    BY <1>2, <1>3, <1>4, <2>1 DEF Ended, Approve, SwitchApproved, PlanStates
<1> QED
  BY <1>1, <1>2, <1>3, <1>4 DEF Continues

(* reactivate_historical_plan_version leaves approval metadata alone. *)
LEMMA ReactivateContinues ==
    ASSUME NEW s \in PlanStates, PlanOK(s), NEW m \in Messages, NEW v \in Versions,
           CanReactivate(s, v)
    PROVE  Continues(s, Reactivate(s, v, m))
<1> DEFINE t == Reactivate(s, v, m)
<1>1. t.last >= s.last /\ t.shown = s.shown /\ t.approvedBy = s.approvedBy
  BY LineageAssumption DEF Reactivate, PlanStates
<1>2. ~Ended(s, v)
  BY DEF CanReactivate, Historical, EverApproved, WithStatus, Ended
<1>3. ASSUME NEW w \in Versions, Ended(s, w)
      PROVE  t.status[w] = s.status[w] /\ t.approvedBy[w] = NoMessage
  <2>1. s.approvedBy[w] = NoMessage
    BY <1>3 DEF Ended, PlanOK, ApprovalRecorded
  <2> QED
    BY <1>1, <1>2, <1>3, <2>1 DEF Ended, Reactivate, SwitchApproved, PlanStates
<1> QED
  BY <1>1, <1>3 DEF Continues

(* reject_candidate_version ends the Candidate and nothing else. *)
LEMMA RejectContinues ==
    ASSUME NEW s \in PlanStates, PlanOK(s), NEW v \in Versions, CanReject(s, v)
    PROVE  Continues(s, Reject(s, v))
<1> DEFINE t == Reject(s, v)
<1>1. t.last >= s.last /\ t.shown = s.shown /\ t.approvedBy = s.approvedBy
  BY LineageAssumption DEF Reject, PlanStates
<1>2. ASSUME NEW w \in Versions, Ended(s, w)
      PROVE  t.status[w] = s.status[w] /\ t.approvedBy[w] = NoMessage
  <2>1. s.approvedBy[w] = NoMessage
    BY <1>2 DEF Ended, PlanOK, ApprovalRecorded
  <2> QED
    BY <1>1, <1>2, <2>1 DEF Ended, CanReject, Reject, PlanStates
<1> QED
  BY <1>1, <1>2 DEF Continues

(* update_plan_item_progress touches no version. *)
LEMMA ProgressContinues ==
    ASSUME NEW s \in PlanStates, PlanOK(s), NEW v, NEW i, NEW st
    PROVE  Continues(s, UpdateProgress(s, v, i, st))
BY LineageAssumption DEF Continues, Ended, UpdateProgress, PlanStates, PlanOK, ApprovalRecorded

(* Every tool only continues the history of the plan. *)
LEMMA ToolContinues ==
    ASSUME NEW s \in PlanStates, PlanOK(s), NEW m \in Messages, NEW t, ToolEffect(s, t, m)
    PROVE  Continues(s, t)
BY ContinuesReflexive, CreateContinues, ApproveContinues, RejectContinues, ReactivateContinues,
   ProgressContinues DEF ToolEffect

(* Recording presentations only continues the history of the plan. *)
LEMMA CommitContinues ==
    ASSUME NEW s \in PlanStates, PlanOK(s), NEW vs, NEW m
    PROVE  Continues(s, RecordPresentations(s, vs, m))
BY LineageAssumption DEF Continues, Ended, RecordPresentations, PlanStates, PlanOK, ApprovalRecorded

(* A tool names no message in a plan but the one its turn answers. *)
LEMMA ToolTraced ==
    ASSUME NEW s \in PlanStates, NEW m \in Messages, NEW t, ToolEffect(s, t, m),
           NEW R, Traced(s, R, m)
    PROVE  Traced(t, R, m)
<1>1. ASSUME s.last < MaxVersions, t = CreateCandidateVersion(s, m)
      PROVE  Traced(t, R, m)
  BY <1>1, LineageAssumption DEF CreateCandidateVersion, Traced, PlanStates
<1>2. ASSUME NEW v \in Versions, t = Approve(s, v, m)
      PROVE  Traced(t, R, m)
  BY <1>2 DEF Approve, Traced, PlanStates
<1>3. ASSUME NEW v \in Versions, t = Reject(s, v) \/ t = Reactivate(s, v, m)
      PROVE  Traced(t, R, m)
  BY <1>3 DEF Reject, Reactivate, Traced, PlanStates
<1>4. ASSUME NEW v, NEW i, NEW st, t = UpdateProgress(s, v, i, st)
      PROVE  Traced(t, R, m)
  BY <1>4 DEF UpdateProgress, Traced, PlanStates
<1> QED
  BY <1>1, <1>2, <1>3, <1>4 DEF ToolEffect

(* A plan that names answered messages still does when more are answered. *)
LEMMA TracedWiden ==
    ASSUME NEW s, NEW R, NEW R2, NEW h, NEW h2, Traced(s, R, h),
           R \subseteq R2, h \in R2 \cup {h2, NoMessage}
    PROVE  Traced(s, R2, h2)
BY DEF Traced

(* Recording presentations names no message but the one answered. *)
LEMMA CommitTraced ==
    ASSUME NEW s \in PlanStates, NEW m \in Messages, NEW vs \in SUBSET Versions,
           NEW R, m \in R, Traced(s, R, m)
    PROVE  Traced(RecordPresentations(s, vs, m), R, NoMessage)
BY DEF RecordPresentations, Traced, PlanStates

(* What was presented stays presented when more is shown and more is answered. *)
LEMMA PresentedWiden ==
    ASSUME NEW s, NEW t, NEW st, NEW st2, NEW sent, NEW sent2, NEW R, NEW h,
           Traced(s, R, h), Presented(s, st, sent),
           t.approvedBy = s.approvedBy, t.strategy = s.strategy, t.strategyBy = s.strategyBy,
           s.shown \subseteq t.shown,
           s.strategy # 0 => s.strategy \in Versions /\ s.strategyBy # NoMessage,
           \A k \in R : st2[k] = st[k],
           \A k \in (R \cup {h}) \ {NoMessage} : sent2[k] = sent[k]
    PROVE  Presented(t, st2, sent2)
<1>1. ASSUME NEW v \in Versions, NEW m \in (R \cup {h}) \ {NoMessage},
             SeenBy(s, v, m, st, sent)
      PROVE  SeenBy(t, v, m, st2, sent2)
  BY <1>1 DEF SeenBy, Traced
<1>2. ASSUME NEW v \in Versions, s.approvedBy[v] # NoMessage
      PROVE  SeenBy(t, v, s.approvedBy[v], st2, sent2)
  BY <1>1, <1>2 DEF Traced, Presented
<1>3. ASSUME s.strategy # 0
      PROVE  SeenBy(t, s.strategy, s.strategyBy, st2, sent2)
  BY <1>1, <1>3 DEF Traced, Presented
<1> QED
  BY <1>2, <1>3 DEF Presented

(* What the service checked under the lock, PresentedBefore, is SeenBy for a *)
(* turn that is still running: its own answer cannot be among those shown.   *)
LEMMA PresentedBeforeSeen ==
    ASSUME NEW s, NEW v \in Versions, NEW m \in Messages, NEW h, Running(m),
           Traced(s, Replied, h), PresentedBefore(s, v, m)
    PROVE  SeenBy(s, v, m, startedAt, SentTimes)
BY DEF PresentedBefore, SeenBy, Traced, Replied, Running, SentTimes

(* A tool gives authority only to versions shown before its message. *)
LEMMA ToolPresented ==
    ASSUME NEW s \in PlanStates, PlanOK(s), NEW m \in Messages, NEW t, ToolEffect(s, t, m),
           Running(m), Traced(s, Replied, m), Presented(s, startedAt, SentTimes)
    PROVE  Presented(t, startedAt, SentTimes)
<1>1. CASE t = s
  BY <1>1
<1>2. ASSUME s.last < MaxVersions, t = CreateCandidateVersion(s, m)
      PROVE  Presented(t, startedAt, SentTimes)
  BY <1>2 DEF CreateCandidateVersion, Presented, SeenBy, PlanStates
<1>3. ASSUME NEW v \in Versions, PresentedBefore(s, v, m), t = Approve(s, v, m)
      PROVE  Presented(t, startedAt, SentTimes)
  <2>1. SeenBy(s, v, m, startedAt, SentTimes)
    BY <1>3, PresentedBeforeSeen
  <2>2. /\ t.shown = s.shown /\ t.strategy = v /\ t.strategyBy = m
        /\ \A w \in Versions : t.approvedBy[w] = IF w = v THEN m ELSE s.approvedBy[w]
    BY <1>3 DEF Approve, PlanStates
  <2> QED
    BY <2>1, <2>2, SMTT(30) DEF Presented, SeenBy
<1>4. ASSUME NEW v \in Versions, PresentedBefore(s, v, m), t = Reactivate(s, v, m)
      PROVE  Presented(t, startedAt, SentTimes)
  <2>1. SeenBy(s, v, m, startedAt, SentTimes)
    BY <1>4, PresentedBeforeSeen
  <2>2. /\ t.shown = s.shown /\ t.strategy = v /\ t.strategyBy = m
        /\ t.approvedBy = s.approvedBy
    BY <1>4 DEF Reactivate, PlanStates
  <2> QED
    BY <2>1, <2>2 DEF Presented, SeenBy
<1>5. ASSUME NEW v \in Versions, t = Reject(s, v)
      PROVE  Presented(t, startedAt, SentTimes)
  BY <1>5 DEF Reject, Presented, SeenBy, PlanStates
<1>6. ASSUME NEW v, NEW i, NEW st, t = UpdateProgress(s, v, i, st)
      PROVE  Presented(t, startedAt, SentTimes)
  BY <1>6 DEF UpdateProgress, Presented, SeenBy, PlanStates
<1> QED
  BY <1>1, <1>2, <1>3, <1>4, <1>5, <1>6 DEF ToolEffect

(* A version a tool creates has its placeholder in the answer to come. *)
LEMMA ToolAnnounced ==
    ASSUME NEW s \in PlanStates, PlanOK(s), NEW m \in Messages, NEW t, ToolEffect(s, t, m),
           NEW h \in {NoMessage, m}, NEW reg, NEW reg2, reg \subseteq reg2,
           h = NoMessage => reg = {}, Announced(s, h, reg),
           t.last > s.last => t.last \in reg2
    PROVE  Announced(t, m, reg2)
<1>1. ASSUME s.last < MaxVersions, t = CreateCandidateVersion(s, m)
      PROVE  Announced(t, m, reg2)
  <2>1. /\ t.last = s.last + 1 /\ t.shown = s.shown
        /\ t.createdBy = [s.createdBy EXCEPT ![s.last + 1] = m]
    BY <1>1, LineageAssumption DEF CreateCandidateVersion, PlanStates
  <2>2. s.last + 1 \in reg2
    BY <2>1, LineageAssumption DEF PlanStates
  <2>3. ASSUME NEW v \in Versions, v # s.last + 1, t.status[v] # "ABSENT"
        PROVE  s.status[v] # "ABSENT"
    BY <1>1, <2>3 DEF CreateCandidateVersion, PlanStates
  <2>4. ASSUME NEW v \in Versions, v # s.last + 1
        PROVE  t.createdBy[v] = s.createdBy[v]
    BY <2>1, <2>4 DEF PlanStates
  <2>5. s.last + 1 \in Versions => t.createdBy[s.last + 1] = m
    BY <2>1 DEF PlanStates
  <2> QED
    BY <2>1, <2>2, <2>3, <2>4, <2>5 DEF Announced
<1>2. ASSUME t.createdBy = s.createdBy, t.shown = s.shown,
             \A v \in Versions : t.status[v] # "ABSENT" => s.status[v] # "ABSENT"
      PROVE  Announced(t, m, reg2)
  BY <1>2 DEF Announced
<1>3. ASSUME NEW v \in Versions,
             \/ CanApprove(s, v) /\ t = Approve(s, v, m)
             \/ CanReject(s, v) /\ t = Reject(s, v)
             \/ CanReactivate(s, v) /\ t = Reactivate(s, v, m)
      PROVE  Announced(t, m, reg2)
  <2>1. s.status[v] # "ABSENT"
    BY <1>3 DEF CanApprove, CanReject, CanReactivate, Historical, WithStatus
  <2>2. t.createdBy = s.createdBy /\ t.shown = s.shown
    BY <1>3 DEF Approve, Reject, Reactivate, PlanStates
  <2>3. \A w \in Versions : w # v /\ t.status[w] # "ABSENT" => s.status[w] # "ABSENT"
    <3>1. CASE t = Reject(s, v)
      BY <3>1 DEF Reject, PlanStates
    <3>2. CASE t.status = SwitchApproved(s.status, v)
      BY <3>2 DEF SwitchApproved
    <3>3. t = Reject(s, v) \/ t.status = SwitchApproved(s.status, v)
      BY <1>3 DEF Approve, Reactivate, PlanStates
    <3> QED
      BY <3>1, <3>2, <3>3
  <2> QED
    BY <1>2, <2>1, <2>2, <2>3
<1>4. ASSUME NEW v, NEW i, NEW st, t = UpdateProgress(s, v, i, st)
      PROVE  Announced(t, m, reg2)
  BY <1>2, <1>4 DEF UpdateProgress, PlanStates
<1>5. CASE t = s
  BY <1>2, <1>5
<1> QED
  BY <1>1, <1>3, <1>4, <1>5 DEF ToolEffect

(* The commit turns the placeholders of a turn into presentations. *)
LEMMA CommitAnnounced ==
    ASSUME NEW s \in PlanStates, NEW m \in Messages, NEW h \in {NoMessage, m},
           NEW reg, NEW vs, reg \subseteq vs, h = NoMessage => reg = {}, Announced(s, h, reg)
    PROVE  Announced(RecordPresentations(s, vs, m), NoMessage, {})
<1> DEFINE t == RecordPresentations(s, vs, m)
<1>1. /\ t.status = s.status /\ t.createdBy = s.createdBy
      /\ t.shown = s.shown \cup (vs \X {m})
  BY DEF RecordPresentations, PlanStates
<1> QED
  BY <1>1 DEF Announced

-----------------------------------------------------------------------------
(* An answered turn stays answered; its times, and the send time of every  *)
(* stored message, are never written again.                                *)
LEMMA TimesKept ==
    ASSUME TypeOK, [Next]_vars
    PROVE  /\ Replied \subseteq Replied'
           /\ \A k \in Replied : startedAt'[k] = startedAt[k]
           /\ \A k \in Messages : Running(k) => startedAt'[k] = startedAt[k]
           /\ \A k \in Messages : phase[k] # "unsent" => SentTimes'[k] = SentTimes[k]
<1> DEFINE Goal ==
        /\ Replied \subseteq Replied'
        /\ \A k \in Replied : startedAt'[k] = startedAt[k]
        /\ \A k \in Messages : Running(k) => startedAt'[k] = startedAt[k]
        /\ \A k \in Messages : phase[k] # "unsent" => sentTick'[k] = sentTick[k]
<1> USE DEF TypeOK, Replied, Running
<1>1. ASSUME phase' = phase, startedAt' = startedAt, sentTick' = sentTick
      PROVE  Goal
  BY <1>1
<1>2. ASSUME NEW m \in Messages, Send(m) PROVE Goal
  BY <1>2 DEF Send
<1>3. ASSUME NEW m \in Messages, Begin(m) PROVE Goal
  BY <1>3 DEF Begin, Unanswered
<1>4. ASSUME NEW m \in Messages, Finish(m) \/ Abort(m) PROVE Goal
  BY <1>4 DEF Finish, Abort
<1>5. ASSUME NEW m \in Messages, NEW p \in Plans,
             \/ CreatePlanWithCandidate(m, p) \/ PresentCandidatePlan(m, p)
             \/ ShowCurrentCandidate(m, p) \/ ShowHistoricalPlanForReturn(m, p)
      PROVE  Goal
  BY <1>1, <1>5 DEF CreatePlanWithCandidate, PresentCandidatePlan, ShowCurrentCandidate,
                    ShowHistoricalPlanForReturn
<1>6. ASSUME NEW m \in Messages,
             \/ ResolveCandidate(m) \/ ResolveCurrent(m)
             \/ ResolveHistorical(m) \/ ResolveApprovedItem(m)
      PROVE  Goal
  BY <1>1, <1>6 DEF ResolveCandidate, ResolveCurrent, ResolveHistorical, ResolveApprovedItem,
                    ResolveImmediate, ResolveExplicit, Resolve
<1>7. ASSUME NEW m \in Messages,
             \/ ApprovePlanVersion(m) \/ RejectCandidateVersion(m)
             \/ ReactivateHistoricalPlanVersion(m) \/ UpdatePlanItemProgress(m)
      PROVE  Goal
  BY <1>1, <1>7 DEF ApprovePlanVersion, RejectCandidateVersion,
                    ReactivateHistoricalPlanVersion, UpdatePlanItemProgress, Apply
<1>8. Goal
  BY <1>1, <1>2, <1>3, <1>4, <1>5, <1>6, <1>7 DEF Next, vars, Tick
<1>9. \A k \in Messages : sentTick'[k] = sentTick[k] => SentTimes'[k] = SentTimes[k]
  BY DEF SentTimes, SentAt
<1> QED
  BY <1>8, <1>9

(* What the provenance of a plan says after a step, from what it said      *)
(* before and what the step did to the plan.                               *)
ProvenanceOf(p) ==
    /\ Traced(db[p], Replied, NoMessage) /\ Traced(draft[p], Replied, holder[p])
    /\ Presented(db[p], startedAt, SentTimes) /\ Presented(draft[p], startedAt, SentTimes)
    /\ Announced(db[p], NoMessage, {}) /\ Announced(draft[p], holder[p], Registered(p))
    /\ Continues(db[p], draft[p])

(* Messages named in a plan are stored ones. *)
LEMMA NamedSent ==
    ASSUME Base, NEW p \in Plans
    PROVE  /\ \A k \in Replied : phase[k] # "unsent"
           /\ holder[p] # NoMessage => holder[p] \in Messages /\ phase[holder[p]] # "unsent"
BY DEF Base, TypeOK, HolderRuns, Running, Replied, MaybeMessage

(* More placeholders announce no less. *)
LEMMA AnnouncedWiden ==
    ASSUME NEW s, NEW h, NEW reg, NEW reg2, reg \subseteq reg2, Announced(s, h, reg)
    PROVE  Announced(s, h, reg2)
BY DEF Announced

(* An accepted Strategy names a version and a message. *)
LEMMA StrategyTyped ==
    ASSUME NEW s \in PlanStates, PlanOK(s), s.strategy # 0
    PROVE  s.strategy \in Versions /\ s.strategyBy # NoMessage
BY LineageAssumption DEF PlanOK, StrategyFollowsApproved, PlanStates, Versions

(* Every step preserves provenance: traces, presentations, announcements. *)
LEMMA ProvenanceStep ==
    ASSUME Base, Base', [Next]_vars, NEW p \in Plans, ProvenanceOf(p)
    PROVE  /\ Traced(db'[p], Replied', NoMessage) /\ Traced(draft'[p], Replied', holder'[p])
           /\ Presented(db'[p], startedAt', SentTimes')
           /\ Presented(draft'[p], startedAt', SentTimes')
           /\ Announced(db'[p], NoMessage, {})
           /\ Announced(draft'[p], holder'[p], Registered(p)')
           /\ Continues(db'[p], draft'[p])
<1>1. /\ db[p] \in PlanStates /\ PlanOK(db[p]) /\ draft[p] \in PlanStates /\ PlanOK(draft[p])
      /\ db'[p] \in PlanStates /\ PlanOK(db'[p])
      /\ draft'[p] \in PlanStates /\ PlanOK(draft'[p])
      /\ holder[p] \in MaybeMessage
  BY DEF Base, TypeOK, Lawful
<1>2. /\ Replied \subseteq Replied'
      /\ \A k \in Replied : startedAt'[k] = startedAt[k]
      /\ \A k \in (Replied \cup {holder[p]}) \ {NoMessage} : SentTimes'[k] = SentTimes[k]
      /\ \A k \in Replied \ {NoMessage} : SentTimes'[k] = SentTimes[k]
      /\ \A m \in Messages : Running(m) =>
            \A k \in (Replied \cup {m}) \ {NoMessage} : SentTimes'[k] = SentTimes[k]
  BY TimesKept, NamedSent DEF Base, Running, Replied
<1>3. /\ Traced(db[p], Replied, NoMessage) /\ Traced(draft[p], Replied, holder[p])
      /\ Presented(db[p], startedAt, SentTimes) /\ Presented(draft[p], startedAt, SentTimes)
      /\ Announced(db[p], NoMessage, {}) /\ Announced(draft[p], holder[p], Registered(p))
      /\ Continues(db[p], draft[p])
  BY DEF ProvenanceOf
<1>4. /\ Traced(db[p], Replied', NoMessage)
      /\ Presented(db[p], startedAt', SentTimes')
  <2>1. Traced(db[p], Replied', NoMessage)
    BY <1>2, <1>3, TracedWiden
  <2>2. db[p].strategy # 0 => db[p].strategy \in Versions /\ db[p].strategyBy # NoMessage
    BY <1>1, StrategyTyped
  <2>3. \A k \in (Replied \cup {NoMessage}) \ {NoMessage} : SentTimes'[k] = SentTimes[k]
    BY <1>2
  <2>4. Presented(db[p], startedAt', SentTimes')
    BY <1>2, <1>3, <2>2, <2>3, PresentedWiden
  <2> QED
    BY <2>1, <2>4
<1>5. CASE Untouched(p)
  <2>1. Traced(draft[p], Replied', holder[p])
    BY <1>2, <1>3, TracedWiden
  <2>2. draft[p].strategy # 0 => draft[p].strategy \in Versions /\ draft[p].strategyBy # NoMessage
    BY <1>1, StrategyTyped
  <2>3. Presented(draft[p], startedAt', SentTimes')
    BY <1>2, <1>3, <2>2, PresentedWiden
  <2>4. Registered(p) \subseteq Registered(p)'
    BY <1>5 DEF Untouched, Registered, PendingOf
  <2>5. Announced(draft[p], holder[p], Registered(p)')
    BY <1>3, <2>4, AnnouncedWiden
  <2> QED
    BY <1>3, <1>4, <1>5, <2>1, <2>3, <2>5 DEF Untouched
<1>6. ASSUME NEW m \in Messages, Edited(p, m)
      PROVE  /\ db'[p] = db[p] /\ holder'[p] = m
             /\ Traced(draft'[p], Replied', m)
             /\ Presented(draft'[p], startedAt', SentTimes')
             /\ Announced(draft'[p], m, Registered(p)')
             /\ Continues(db[p], draft'[p])
  <2>1. /\ Running(m) /\ holder[p] \in {NoMessage, m} /\ holder'[p] = m /\ db'[p] = db[p]
        /\ ToolEffect(draft[p], draft'[p], m)
        /\ m # NoMessage
    BY <1>6, LineageAssumption DEF Edited
  <2>2. Traced(draft[p], Replied, m)
    BY <1>3, <2>1, TracedWiden
  <2>3. Traced(draft'[p], Replied, m)
    BY <1>1, <2>1, <2>2, ToolTraced
  <2>4. Traced(draft'[p], Replied', m)
    BY <1>2, <2>3, TracedWiden
  <2>5. Presented(draft'[p], startedAt, SentTimes)
    BY <1>1, <1>3, <2>1, <2>2, ToolPresented
  <2>6. draft'[p].strategy # 0 =>
            draft'[p].strategy \in Versions /\ draft'[p].strategyBy # NoMessage
    BY <1>1, StrategyTyped
  <2>7. Presented(draft'[p], startedAt', SentTimes')
    BY <1>2, <2>1, <2>3, <2>5, <2>6, PresentedWiden
  <2>8. /\ Registered(p) \subseteq Registered(p)'
        /\ holder[p] = NoMessage => Registered(p) = {}
    BY <1>6, <2>1 DEF Edited, Registered, PendingOf
  <2>9. draft'[p].last > draft[p].last => draft'[p].last \in Registered(p)'
    <3>1. SUFFICES ASSUME draft'[p].last > draft[p].last
                   PROVE  draft'[p].last \in Registered(p)'
      OBVIOUS
    <3>2. draft'[p].last \in Versions
      <4>1. draft'[p].last \in 0 .. MaxVersions /\ draft[p].last \in 0 .. MaxVersions
        BY <1>1 DEF PlanStates
      <4> QED
        BY <3>1, <4>1, LineageAssumption DEF Versions
    <3>3. <<p, draft'[p].last>> \in pending'[m]
      BY <1>6, <3>1 DEF Edited
    <3> QED
      BY <2>1, <3>2, <3>3 DEF Registered, PendingOf
  <2>10. Announced(draft'[p], m, Registered(p)')
    BY <1>1, <1>3, <2>1, <2>8, <2>9, ToolAnnounced
  <2>11. Continues(db[p], draft'[p])
    BY <1>1, <1>3, <2>1, ToolContinues, ContinuesTransitive
  <2> QED
    BY <2>1, <2>4, <2>7, <2>10, <2>11
<1>7. ASSUME NEW m \in Messages, CommittedStep(p, m)
      PROVE  /\ draft'[p] = db'[p] /\ holder'[p] = NoMessage
             /\ Traced(db'[p], Replied', NoMessage)
             /\ Presented(db'[p], startedAt', SentTimes')
             /\ Announced(db'[p], NoMessage, {})
  <2> DEFINE vs == PendingOf(m, p)
  <2>1. /\ Running(m) /\ holder[p] \in {NoMessage, m} /\ holder'[p] = NoMessage
        /\ draft'[p] = db'[p] /\ db'[p] = RecordPresentations(draft[p], vs, m)
        /\ m # NoMessage
    BY <1>7, LineageAssumption DEF CommittedStep
  <2>2. vs \in SUBSET Versions /\ (holder[p] = NoMessage => Registered(p) = {})
        /\ Registered(p) \subseteq vs
    BY <2>1 DEF PendingOf, Registered
  <2>3. m \in Replied'
    BY <1>7 DEF CommittedStep, Replied, Base, TypeOK
  <2>4. Traced(draft[p], Replied', m)
    BY <1>2, <1>3, <2>1, TracedWiden
  <2>5. Traced(db'[p], Replied', NoMessage)
    BY <1>1, <2>1, <2>2, <2>3, <2>4, CommitTraced
  <2>6. Traced(draft[p], Replied, m)
    BY <1>3, <2>1, TracedWiden
  <2>7. /\ db'[p].approvedBy = draft[p].approvedBy
        /\ db'[p].strategy = draft[p].strategy
        /\ db'[p].strategyBy = draft[p].strategyBy
        /\ draft[p].shown \subseteq db'[p].shown
    BY <1>1, <2>1 DEF RecordPresentations, PlanStates
  <2>8. draft[p].strategy # 0 => draft[p].strategy \in Versions /\ draft[p].strategyBy # NoMessage
    BY <1>1, StrategyTyped
  <2>9. Presented(db'[p], startedAt', SentTimes')
    BY <1>2, <1>3, <2>1, <2>6, <2>7, <2>8, PresentedWiden
  <2>10. Announced(db'[p], NoMessage, {})
    BY <1>1, <1>3, <2>1, <2>2, CommitAnnounced
  <2> QED
    BY <2>1, <2>5, <2>9, <2>10
<1>8. Continues(db'[p], db'[p])
  BY <1>1, ContinuesReflexive
<1>9. ASSUME holder'[p] = NoMessage, draft'[p] = db'[p], Announced(db'[p], NoMessage, {})
      PROVE  Announced(draft'[p], holder'[p], Registered(p)')
  BY <1>9 DEF Registered
<1>10. ASSUME NEW m \in Messages, RolledBackStep(p, m)
       PROVE  db'[p] = db[p] /\ draft'[p] = db[p] /\ holder'[p] = NoMessage
  BY <1>10 DEF RolledBackStep
<1>11. PlanStep(p)
  BY StepShape
<1> QED
  BY <1>3, <1>4, <1>5, <1>6, <1>7, <1>8, <1>9, <1>10, <1>11 DEF PlanStep

-----------------------------------------------------------------------------
(* The empty database names nobody. *)
LEMMA ProvenanceInit == Init => Provenance
<1> SUFFICES ASSUME Init PROVE Provenance
  OBVIOUS
<1>1. ASSUME NEW p \in Plans
      PROVE  /\ db[p] = EmptyPlan /\ draft[p] = EmptyPlan /\ holder[p] = NoMessage
             /\ Registered(p) = {}
  BY DEF Init, Registered
<1>2. Traced(EmptyPlan, Replied, NoMessage)
  BY DEF Traced, EmptyPlan
<1>3. Presented(EmptyPlan, startedAt, SentTimes)
  BY DEF Presented, EmptyPlan
<1>4. Announced(EmptyPlan, NoMessage, {})
  BY DEF Announced, EmptyPlan
<1>5. Continues(EmptyPlan, EmptyPlan)
  BY EmptyPlanOK, ContinuesReflexive
<1> QED
  BY <1>1, <1>2, <1>3, <1>4, <1>5 DEF Provenance

(* The strengthened invariant is inductive, and its steps keep the history. *)
LEMMA FullStep == Full /\ [Next]_vars => Full' /\ HistoryKept
<1> SUFFICES ASSUME Full, [Next]_vars PROVE Full' /\ HistoryKept
  OBVIOUS
<1>1. Base /\ Base' /\ Provenance
  BY BaseStep DEF Full
<1>2. Provenance'
  BY <1>1, ProvenanceStep DEF Provenance, ProvenanceOf
<1>3. ASSUME NEW p \in Plans PROVE Continues(db[p], db'[p])
  <2>1. /\ db[p] \in PlanStates /\ PlanOK(db[p]) /\ draft[p] \in PlanStates /\ PlanOK(draft[p])
        /\ db'[p] \in PlanStates
    BY <1>1 DEF Base, TypeOK, Lawful
  <2>2. db'[p] = db[p]
        \/ \E m \in Messages : db'[p] = RecordPresentations(draft[p], PendingOf(m, p), m)
    BY <1>1, StepShape DEF PlanStep, Untouched, Edited, CommittedStep, RolledBackStep
  <2>3. CASE db'[p] = db[p]
    BY <2>1, <2>3, ContinuesReflexive
  <2>4. ASSUME NEW m \in Messages, db'[p] = RecordPresentations(draft[p], PendingOf(m, p), m)
        PROVE  Continues(db[p], db'[p])
    <3>1. Continues(db[p], draft[p])
      BY <1>1 DEF Provenance
    <3>2. Continues(draft[p], db'[p])
      BY <2>1, <2>4, CommitContinues
    <3> QED
      BY <2>1, <3>1, <3>2, ContinuesTransitive
  <2> QED
    BY <2>2, <2>3, <2>4
<1> QED
  BY <1>1, <1>2, <1>3 DEF Full, HistoryKept

(* The strengthened inductive invariant holds. *)
THEOREM FullInvariant == Spec => []Full
<1>1. Init => Full
  BY BaseInit, ProvenanceInit DEF Full
<1>2. Full /\ [Next]_vars => Full'
  BY FullStep
<1> QED
  BY <1>1, <1>2, PTL DEF Spec

(* The message that approved a version, or made it current again, had been *)
(* shown it by the answer of another turn that began no later than the     *)
(* message's send time.                                                    *)
THEOREM AuthorityWasPresented == Spec => []AuthorityPresented
<1>1. ASSUME Full, NEW p \in Plans, NEW s \in {db[p], draft[p]}
      PROVE  /\ \A v \in EverApproved(s) : ShownTo(s, v, s.approvedBy[v])
             /\ s.strategy # 0 => ShownTo(s, s.strategy, s.strategyBy)
  <2>1. /\ s \in PlanStates /\ PlanOK(s) /\ Presented(s, startedAt, SentTimes)
    BY <1>1 DEF Full, Base, TypeOK, Lawful, Provenance
  <2>2. ASSUME NEW v, NEW m \in MaybeMessage, m # NoMessage, SeenBy(s, v, m, startedAt, SentTimes)
        PROVE  ShownTo(s, v, m)
    BY <2>2 DEF SeenBy, ShownTo, SentTimes, MaybeMessage
  <2>3. s.strategy # 0 => s.strategy \in Versions /\ s.strategyBy # NoMessage
    BY <2>1, StrategyTyped
  <2> QED
    BY <2>1, <2>2, <2>3 DEF Presented, EverApproved, PlanStates
<1>2. Full => AuthorityPresented
  BY <1>1 DEF AuthorityPresented
<1> QED
  BY <1>2, FullInvariant, PTL

(* Every committed version was shown by the turn that created it. *)
THEOREM EveryVersionWasShown == Spec => []EveryVersionShown
<1>1. Full => EveryVersionShown
  BY DEF Full, Provenance, Announced, EveryVersionShown
<1> QED
  BY <1>1, FullInvariant, PTL

(* No turn that failed is named in a plan. *)
THEOREM NoTraceOfFailedTurns == Spec => []FailedTurnLeavesNoTrace
<1>1. ASSUME NEW s \in PlanStates, NEW R, NEW h, Traced(s, R, h)
      PROVE  NamedIn(s) \subseteq R \cup {h}
  BY <1>1 DEF Traced, NamedIn, PlanStates
<1>2. ASSUME NEW s \in PlanStates, NEW R, Traced(s, R, NoMessage)
      PROVE  NamedIn(s) \subseteq R
  BY <1>1, <1>2 DEF NamedIn
<1>3. Full => FailedTurnLeavesNoTrace
  BY <1>1, <1>2 DEF Full, Base, TypeOK, Provenance, FailedTurnLeavesNoTrace
<1> QED
  BY <1>3, FullInvariant, PTL

(* The committed history of every plan is append-only. *)
THEOREM HistoryIsAppendOnly == Spec => AppendOnly
<1>1. Full /\ [Next]_vars => [HistoryKept]_vars
  BY FullStep
<1> QED
  BY <1>1, FullInvariant, PTL DEF Spec, AppendOnly

-----------------------------------------------------------------------------
(***************************************************************************)
(* Plans nobody asked for.  The message that made a plan (its Origin) never*)
(* changes.  A turn that nobody asked for a plan sees none when it makes   *)
(* one, so that every other plan there is commits after the turn began.    *)
(***************************************************************************)
Unasked(s) == Exists(s) /\ Origin(s) \notin ReplanIntent

(* Where plan p comes from, and which plans there are beside it. *)
OriginsOf(p) ==
    /\ Exists(draft[p]) => Origin(draft[p]) \in Messages
    /\ Exists(db[p]) => Exists(draft[p]) /\ Origin(draft[p]) = Origin(db[p])
    /\ Exists(draft[p]) /\ ~Exists(db[p]) => Origin(draft[p]) = holder[p]
    /\ Unasked(draft[p]) => \A q \in Plans \ {p} :
          /\ Exists(draft[q]) => Origin(draft[p]) # Origin(draft[q])
          /\ Exists(db[q]) => startedAt[Origin(draft[p])] <= repliedAt[Origin(db[q])]

Begun == \A m \in Messages : startedAt[m] <= clock

Origins == Full /\ Begun /\ \A p \in Plans : OriginsOf(p)

(* A tool leaves the origin of a plan alone. *)
LEMMA OriginKept ==
    ASSUME NEW s \in PlanStates, NEW m, NEW t, ToolEffect(s, t, m), Exists(s)
    PROVE  Exists(t) /\ Origin(t) = Origin(s)
<1>1. 1 \in Versions /\ s.last \in Nat \ {0}
  BY LineageAssumption DEF Exists, PlanStates, Versions
<1>2. ASSUME t = CreateCandidateVersion(s, m)
      PROVE  Exists(t) /\ Origin(t) = Origin(s)
  BY <1>1, <1>2 DEF CreateCandidateVersion, Exists, Origin, PlanStates
<1>3. ASSUME NEW v, t = Approve(s, v, m) \/ t = Reject(s, v) \/ t = Reactivate(s, v, m)
      PROVE  Exists(t) /\ Origin(t) = Origin(s)
  BY <1>1, <1>3 DEF Approve, Reject, Reactivate, Exists, Origin, PlanStates
<1>4. ASSUME NEW v, NEW i, NEW st, t = UpdateProgress(s, v, i, st)
      PROVE  Exists(t) /\ Origin(t) = Origin(s)
  BY <1>1, <1>4 DEF UpdateProgress, Exists, Origin, PlanStates
<1> QED
  BY <1>2, <1>3, <1>4 DEF ToolEffect

(* Turn m makes plan p, and does nothing else. *)
MadeFirst(p, m) ==
    /\ Running(m) /\ (m \in ReplanIntent \/ NoPlanYet(m))
    /\ Exists(draft'[p]) /\ Origin(draft'[p]) = m /\ holder'[p] = m
    /\ holder[p] = NoMessage /\ db' = db
    /\ startedAt' = startedAt /\ repliedAt' = repliedAt
    /\ \A q \in Plans \ {p} : draft'[q] = draft[q] /\ holder'[q] = holder[q]

(* Only create_plan_with_candidate makes a plan. *)
LEMMA FirstPlan ==
    ASSUME Base, [Next]_vars, NEW p \in Plans, OriginsOf(p),
           ~Exists(draft[p]), Exists(draft'[p])
    PROVE  \E m \in Messages : MadeFirst(p, m)
<1> USE DEF Base, TypeOK
<1>0. draft[p] \in PlanStates /\ draft[p].last = 0
  BY LineageAssumption DEF Exists, PlanStates
<1>1. ASSUME NEW m \in Messages, NEW q \in Plans, CreatePlanWithCandidate(m, q)
      PROVE  MadeFirst(p, m)
  <2>1. q = p
    BY <1>1 DEF CreatePlanWithCandidate
  <2>2. draft'[p] = CreateCandidateVersion(draft[p], m) /\ MaxVersions > 0
    BY <1>1, <2>1 DEF CreatePlanWithCandidate
  <2>3. Origin(draft'[p]) = m
    BY <1>0, <2>2, LineageAssumption
       DEF CreateCandidateVersion, Origin, PlanStates, Versions
  <2> QED
    BY <1>1, <2>1, <2>3
       DEF CreatePlanWithCandidate, ToolCall, Lock, AsksToReplan, MadeFirst
<1>2. ASSUME NEW m \in Messages, NEW q \in Plans, PresentCandidatePlan(m, q)
      PROVE  FALSE
  <2>1. q = p
    BY <1>2 DEF PresentCandidatePlan
  <2>2. View(m, p) = draft[p]
    BY <1>2, <2>1 DEF PresentCandidatePlan, Lock, View, HolderRuns
  <2> QED
    BY <1>2, <2>1, <2>2 DEF PresentCandidatePlan
<1>3. ASSUME NEW m \in Messages,
             \/ ApprovePlanVersion(m) \/ RejectCandidateVersion(m)
             \/ ReactivateHistoricalPlanVersion(m) \/ UpdatePlanItemProgress(m)
      PROVE  FALSE
  <2>1. PICK q \in Plans, v \in Versions :
            \/ draft' = [draft EXCEPT ![q] = Approve(draft[q], v, m)]
            \/ draft' = [draft EXCEPT ![q] = Reject(draft[q], v)]
            \/ draft' = [draft EXCEPT ![q] = Reactivate(draft[q], v, m)]
            \/ \E i \in Items, st \in ProgressStates :
                  draft' = [draft EXCEPT ![q] = UpdateProgress(draft[q], v, i, st)]
            \/ draft' = draft
    BY <1>3, TargetTyped
       DEF ApprovePlanVersion, RejectCandidateVersion, ReactivateHistoricalPlanVersion,
           UpdatePlanItemProgress, Apply
  <2>2. CASE q # p \/ draft' = draft
    BY <1>0, <2>1, <2>2 DEF Exists
  <2>3. CASE q = p /\ draft' # draft
    <3>1. PICK i, st :
              draft'[p] \in {Approve(draft[p], v, m), Reject(draft[p], v),
                            Reactivate(draft[p], v, m), UpdateProgress(draft[p], v, i, st)}
      BY <2>1, <2>3
    <3>2. ~(draft'[p].last > draft[p].last)
      BY <1>0, <3>1, LastNumber
    <3> QED
      BY <1>0, <3>2 DEF Exists
  <2> QED
    BY <2>2, <2>3
<1>4. ASSUME NEW m \in Messages, Finish(m)
      PROVE  FALSE
  <2>1. draft'[p] = draft[p] \/ draft'[p] = RecordPresentations(draft[p], PendingOf(m, p), m)
    BY <1>4 DEF Finish
  <2> QED
    BY <1>0, <2>1 DEF RecordPresentations, Exists, PlanStates
<1>5. ASSUME NEW m \in Messages, Abort(m)
      PROVE  FALSE
  BY <1>5 DEF Abort, RolledBack, OriginsOf
<1>6. draft' # draft
  OBVIOUS
<1> QED
  BY <1>1, <1>2, <1>3, <1>4, <1>5, <1>6, ZenonT(60)
     DEF Next, vars, Tick, Send, Begin, ShowCurrentCandidate, ShowHistoricalPlanForReturn,
         ResolveCandidate, ResolveCurrent, ResolveHistorical, ResolveApprovedItem,
         ResolveImmediate, ResolveExplicit, Resolve

(* The dates of turns: an answer is dated when it is stored, and once only. *)
LEMMA DatesKept ==
    ASSUME TypeOK, Begun, [Next]_vars
    PROVE  /\ Begun'
           /\ \A k \in Replied : repliedAt'[k] = repliedAt[k]
           /\ \A k \in Messages :
                 Running(k) /\ phase' = [phase EXCEPT ![k] = "replied"] => repliedAt'[k] = clock
<1> DEFINE Goal ==
        /\ \A m \in Messages : startedAt'[m] <= clock'
        /\ \A k \in Replied : repliedAt'[k] = repliedAt[k]
        /\ \A k \in Messages :
              Running(k) /\ phase' = [phase EXCEPT ![k] = "replied"] => repliedAt'[k] = clock
<1> USE TurnsAssumption DEF TypeOK, Replied, Running, Begun, Ticks
<1>1. ASSUME phase' = phase, startedAt' = startedAt, repliedAt' = repliedAt, clock' = clock
      PROVE  Goal
  BY <1>1
<1>2. ASSUME NEW m \in Messages, Send(m) PROVE Goal
  BY <1>2 DEF Send
<1>3. ASSUME NEW m \in Messages, Begin(m) PROVE Goal
  BY <1>3 DEF Begin, Unanswered
<1>4. ASSUME NEW m \in Messages, Finish(m) PROVE Goal
  BY <1>4 DEF Finish
<1>5. ASSUME NEW m \in Messages, Abort(m) PROVE Goal
  BY <1>5 DEF Abort
<1>6. CASE Tick
  BY <1>6 DEF Tick
<1>7. ASSUME NEW m \in Messages, NEW p \in Plans,
             \/ CreatePlanWithCandidate(m, p) \/ PresentCandidatePlan(m, p)
             \/ ShowCurrentCandidate(m, p) \/ ShowHistoricalPlanForReturn(m, p)
      PROVE  Goal
  BY <1>1, <1>7 DEF CreatePlanWithCandidate, PresentCandidatePlan, ShowCurrentCandidate,
                    ShowHistoricalPlanForReturn
<1>8. ASSUME NEW m \in Messages,
             \/ ResolveCandidate(m) \/ ResolveCurrent(m)
             \/ ResolveHistorical(m) \/ ResolveApprovedItem(m)
      PROVE  Goal
  BY <1>1, <1>8 DEF ResolveCandidate, ResolveCurrent, ResolveHistorical, ResolveApprovedItem,
                    ResolveImmediate, ResolveExplicit, Resolve
<1>9. ASSUME NEW m \in Messages,
             \/ ApprovePlanVersion(m) \/ RejectCandidateVersion(m)
             \/ ReactivateHistoricalPlanVersion(m) \/ UpdatePlanItemProgress(m)
      PROVE  Goal
  BY <1>1, <1>9 DEF ApprovePlanVersion, RejectCandidateVersion,
                    ReactivateHistoricalPlanVersion, UpdatePlanItemProgress, Apply
<1> QED
  BY <1>1, <1>2, <1>3, <1>4, <1>5, <1>6, <1>7, <1>8, <1>9 DEF Next, vars

(* What a step that makes no plan does to the origins of one: the plan     *)
(* keeps its origin, and what it commits for the first time is dated now.  *)
LEMMA OriginStays ==
    ASSUME Origins, [Next]_vars, NEW p \in Plans,
           Exists(draft'[p]) => Exists(draft[p])
    PROVE  /\ Exists(draft'[p]) => Origin(draft'[p]) = Origin(draft[p])
           /\ Exists(db'[p]) => Exists(draft'[p]) /\ Origin(draft'[p]) = Origin(db'[p])
           /\ Exists(draft'[p]) /\ ~Exists(db'[p]) => Origin(draft'[p]) = holder'[p]
           /\ Exists(db'[p]) =>
                 \/ Exists(db[p]) /\ Origin(db'[p]) = Origin(db[p])
                 \/ repliedAt'[Origin(db'[p])] = clock
<1>0. /\ db[p] \in PlanStates /\ draft[p] \in PlanStates
      /\ OriginsOf(p) /\ TypeOK /\ Begun
      /\ holder[p] = NoMessage => draft[p] = db[p]
  BY DEF Origins, Full, Base, TypeOK, HolderRuns
<1>1. CASE Untouched(p)
  BY <1>0, <1>1 DEF Untouched, OriginsOf
<1>2. ASSUME NEW m \in Messages, Edited(p, m)
      PROVE  /\ Exists(draft'[p]) => Origin(draft'[p]) = Origin(draft[p])
             /\ Exists(db[p]) => Exists(draft'[p])
             /\ Exists(draft'[p]) /\ ~Exists(db[p]) => Origin(draft[p]) = m
  BY <1>0, <1>2, OriginKept DEF Edited, OriginsOf
<1>3. ASSUME NEW m \in Messages, CommittedStep(p, m)
      PROVE  /\ draft'[p] = db'[p]
             /\ Exists(db'[p]) => Exists(draft[p]) /\ Origin(db'[p]) = Origin(draft[p])
             /\ repliedAt'[m] = clock
  <2>1. db'[p] = RecordPresentations(draft[p], PendingOf(m, p), m) /\ draft'[p] = db'[p]
    BY <1>3 DEF CommittedStep
  <2>2. db'[p].last = draft[p].last /\ db'[p].createdBy = draft[p].createdBy
    BY <1>0, <2>1 DEF RecordPresentations, PlanStates
  <2>3. repliedAt'[m] = clock
    BY <1>0, <1>3, DatesKept DEF CommittedStep
  <2> QED
    BY <2>1, <2>2, <2>3 DEF Exists, Origin
<1>4. ASSUME NEW m \in Messages, RolledBackStep(p, m)
      PROVE  db'[p] = db[p] /\ draft'[p] = db[p]
  BY <1>4 DEF RolledBackStep
<1>5. CASE \E m \in Messages : Edited(p, m)
  BY <1>0, <1>2, <1>5 DEF Edited, OriginsOf
<1>6. CASE \E m \in Messages : CommittedStep(p, m)
  BY <1>0, <1>3, <1>6 DEF CommittedStep, OriginsOf
<1>7. CASE \E m \in Messages : RolledBackStep(p, m)
  BY <1>0, <1>4, <1>7 DEF OriginsOf
<1> QED
  BY <1>1, <1>5, <1>6, <1>7, StepShape DEF Origins, Full, PlanStep

(* The origin of a plan is a turn that is answered or holds its lock. *)
LEMMA OriginKnown ==
    ASSUME Origins, NEW p \in Plans
    PROVE  /\ Exists(draft[p]) => /\ Origin(draft[p]) \in Messages
                                  /\ Origin(draft[p]) \in Replied \cup {holder[p]}
           /\ Exists(db[p]) => Origin(db[p]) \in Replied
<1>1. /\ db[p] \in PlanStates /\ draft[p] \in PlanStates /\ OriginsOf(p)
      /\ Traced(db[p], Replied, NoMessage) /\ Traced(draft[p], Replied, holder[p])
  BY DEF Origins, Full, Base, TypeOK, Provenance
<1>2. Exists(draft[p]) \/ Exists(db[p]) => 1 \in Versions
  BY <1>1, LineageAssumption DEF Exists, PlanStates, Versions
<1> QED
  BY <1>1, <1>2, LineageAssumption DEF OriginsOf, Traced, Origin

(* A step that makes no plan. *)
LEMMA OriginsOldStep ==
    ASSUME Origins, Full', [Next]_vars,
           \A p \in Plans : Exists(draft'[p]) => Exists(draft[p])
    PROVE  \A p \in Plans : OriginsOf(p)'
<1> SUFFICES ASSUME NEW p \in Plans PROVE OriginsOf(p)'
  OBVIOUS
<1>0. TypeOK /\ Begun /\ OriginsOf(p) /\ HolderRuns
  BY DEF Origins, Full, Base
<1>1. /\ Exists(draft'[p]) => Origin(draft'[p]) \in Messages
      /\ Exists(db'[p]) => Exists(draft'[p]) /\ Origin(draft'[p]) = Origin(db'[p])
      /\ Exists(draft'[p]) /\ ~Exists(db'[p]) => Origin(draft'[p]) = holder'[p]
  BY OriginStays, OriginKnown
<1>2. ASSUME Unasked(draft'[p]), NEW q \in Plans \ {p}
      PROVE  /\ Exists(draft'[q]) => Origin(draft'[p]) # Origin(draft'[q])
             /\ Exists(db'[q]) => startedAt'[Origin(draft'[p])] <= repliedAt'[Origin(db'[q])]
  <2> DEFINE m == Origin(draft[p])
  <2>1. Unasked(draft[p]) /\ Origin(draft'[p]) = m
    BY <1>2, OriginStays DEF Unasked
  <2>2. m \in Messages /\ startedAt'[m] = startedAt[m] /\ startedAt[m] <= clock
    <3>1. m \in Messages /\ (m \in Replied \/ Running(m))
      BY <1>0, <2>1, OriginKnown, LineageAssumption DEF Unasked, HolderRuns
    <3> QED
      BY <1>0, <3>1, TimesKept DEF Begun
  <2>3. Exists(draft'[q]) => m # Origin(draft'[q])
    BY <1>0, <2>1, OriginStays DEF OriginsOf
  <2>4. ASSUME Exists(db'[q])
        PROVE  startedAt[m] <= repliedAt'[Origin(db'[q])]
    <3>1. CASE Exists(db[q]) /\ Origin(db'[q]) = Origin(db[q])
      <4>1. repliedAt'[Origin(db[q])] = repliedAt[Origin(db[q])]
        BY <1>0, <3>1, OriginKnown, DatesKept
      <4> QED
        BY <1>0, <2>1, <3>1, <4>1 DEF OriginsOf
    <3>2. CASE repliedAt'[Origin(db'[q])] = clock
      BY <2>2, <3>2
    <3> QED
      BY <2>4, <3>1, <3>2, OriginStays
  <2> QED
    BY <2>1, <2>2, <2>3, <2>4
<1> QED
  BY <1>1, <1>2 DEF OriginsOf, Unasked

(* A step that makes a plan. *)
LEMMA OriginsNewStep ==
    ASSUME Origins, NEW n \in Plans, ~Exists(draft[n]), NEW m \in Messages, MadeFirst(n, m)
    PROVE  \A p \in Plans : OriginsOf(p)'
<1>0. /\ TypeOK /\ HolderRuns /\ \A p \in Plans : OriginsOf(p)
      /\ m # NoMessage /\ m \notin Replied /\ ~Exists(db[n])
  BY LineageAssumption DEF Origins, Full, Base, MadeFirst, Running, Replied, OriginsOf
<1>1. ASSUME NEW q \in Plans \ {n}, Exists(draft[q]), m \notin ReplanIntent
      PROVE  m # Origin(draft[q]) /\ ~Exists(db[q])
  <2>1. ~Exists(View(m, q))
    BY <1>1 DEF MadeFirst, NoPlanYet
  <2>2. holder[q] # m /\ ~Exists(db[q])
    BY <1>0, <1>1, <2>1 DEF View, OriginsOf, HolderRuns
  <2> QED
    BY <1>0, <1>1, <2>2 DEF OriginsOf
<1>2. ASSUME NEW q \in Plans \ {n}, Unasked(draft[q])
      PROVE  m # Origin(draft[q])
  BY <1>1, <1>2 DEF Unasked
<1>3. OriginsOf(n)'
  <2>1. \A q \in Plans \ {n} :
          /\ draft'[q] = draft[q] /\ db'[q] = db[q]
          /\ Exists(db[q]) => Exists(draft[q])
    BY <1>0 DEF MadeFirst, OriginsOf
  <2> QED
    BY <1>0, <1>1, <2>1 DEF MadeFirst, OriginsOf, Unasked
<1>4. ASSUME NEW p \in Plans \ {n} PROVE OriginsOf(p)'
  <2>1. /\ draft'[p] = draft[p] /\ db' = db /\ holder'[p] = holder[p]
        /\ startedAt' = startedAt /\ repliedAt' = repliedAt
        /\ Origin(draft'[n]) = m
        /\ \A q \in Plans \ {n} : draft'[q] = draft[q]
    BY DEF MadeFirst
  <2>2. OriginsOf(p)
    BY <1>0
  <2> QED
    BY <1>0, <1>2, <2>1, <2>2 DEF OriginsOf, Unasked
<1> QED
  BY <1>3, <1>4

(* The invariant of the origins holds. *)
THEOREM OriginsInvariant == Spec => []Origins
<1>1. Init => Origins
  <2> SUFFICES ASSUME Init PROVE Origins
    OBVIOUS
  <2>1. Full
    BY BaseInit, ProvenanceInit DEF Full
  <2>2. Begun /\ \A p \in Plans : ~Exists(db[p]) /\ ~Exists(draft[p])
    BY DEF Init, Begun, Exists, EmptyPlan
  <2> QED
    BY <2>1, <2>2 DEF Origins, OriginsOf, Unasked
<1>2. Origins /\ [Next]_vars => Origins'
  <2> SUFFICES ASSUME Origins, [Next]_vars PROVE Origins'
    OBVIOUS
  <2>1. Full' /\ Begun'
    BY FullStep, DatesKept DEF Origins, Full, Base
  <2>2. CASE \A p \in Plans : Exists(draft'[p]) => Exists(draft[p])
    BY <2>1, <2>2, OriginsOldStep DEF Origins
  <2>3. ASSUME NEW p \in Plans, Exists(draft'[p]), ~Exists(draft[p])
        PROVE  Origins'
    <3>1. PICK m \in Messages : MadeFirst(p, m)
      BY <2>3, FirstPlan DEF Origins, Full
    <3> QED
      BY <2>1, <2>3, <3>1, OriginsNewStep DEF Origins
  <2> QED
    BY <2>2, <2>3
<1> QED
  BY <1>1, <1>2, PTL DEF Spec

(* A plan nobody asked for has another beside it only when the two turns   *)
(* ran side by side, whatever plans other turns commit meanwhile.          *)
THEOREM UnaskedPlansComeFirst == Spec => []UnaskedPlanIsFirst
<1>1. Origins => UnaskedPlanIsFirst
  BY DEF Origins, OriginsOf, Unasked, UnaskedPlanIsFirst
<1> QED
  BY <1>1, OriginsInvariant, PTL

-----------------------------------------------------------------------------
(***************************************************************************)
(* PlanningTurns implements PlanAuthority, and one message approves at most*)
(* one version.                                                            *)
(*                                                                         *)
(* A message that has approved a version in its turn cannot approve the    *)
(* next one, since its turn would have to create it, and no answer has     *)
(* shown what a turn creates (Spent).  For that the placeholders of turns  *)
(* must name versions there are (Known), or a new number might come shown. *)
(***************************************************************************)

(* What is shown is there. *)
ShownThere(s) == \A v \in Versions, k \in Messages : <<v, k>> \in s.shown => v <= s.last
Once(s) ==
    \A v, w \in EverApproved(s) : s.approvedBy[v] = s.approvedBy[w] => v = w
(* A turn that has approved a version has no Candidate it could approve. *)
Spent(s, h) ==
    (\E v \in Versions : s.approvedBy[v] = h)
        => \A w \in Candidates(s), k \in Messages : <<w, k>> \notin s.shown
(* What turn h grants in t is newer than all that was granted in s. *)
Grants(s, t, h) ==
    /\ t.shown = s.shown
    /\ \A v \in Versions : t.approvedBy[v] # s.approvedBy[v] =>
          /\ t.approvedBy[v] = h
          /\ \A w \in Versions : s.approvedBy[w] # NoMessage => w < v

GrantsOf(p) ==
    /\ ShownThere(db[p]) /\ ShownThere(draft[p])
    /\ Once(db[p]) /\ Once(draft[p])
    /\ Grants(db[p], draft[p], holder[p])
    /\ holder[p] # NoMessage => Spent(draft[p], holder[p])

Known ==
    \A m \in Messages, p \in Plans : \A v \in PendingOf(m, p) : v <= View(m, p).last

Granting == Full /\ Known /\ \A p \in Plans : GrantsOf(p)

-----------------------------------------------------------------------------
(* Lemmas on one record: what a tool of turn m does to grants. *)

(* A new Candidate has a number nothing was shown of. *)
LEMMA CreateGrants ==
    ASSUME NEW s \in PlanStates, PlanOK(s), NEW m \in Messages, s.last < MaxVersions,
           ShownThere(s), Once(s), Spent(s, m)
    PROVE  LET t == CreateCandidateVersion(s, m)
           IN  ShownThere(t) /\ Once(t) /\ Spent(t, m) /\ Grants(s, t, m)
<1> DEFINE n == s.last + 1
           t == CreateCandidateVersion(s, m)
<1>1. /\ n \in Versions /\ s.last \in Nat
      /\ t.last = n /\ t.shown = s.shown /\ t.approvedBy = s.approvedBy
      /\ t.status = [v \in Versions |-> IF v = n THEN "CANDIDATE"
                                        ELSE IF s.status[v] = "CANDIDATE" THEN "SUPERSEDED"
                                        ELSE s.status[v]]
      /\ t.createdBy = [s.createdBy EXCEPT ![n] = m]
  BY LineageAssumption DEF CreateCandidateVersion, PlanStates, Versions
<1>2. ShownThere(t)
  BY <1>1 DEF ShownThere, Versions
<1>3. Once(t) /\ Grants(s, t, m)
  BY <1>1 DEF Once, EverApproved, Grants
<1>4. Spent(t, m)
  <2>1. Candidates(t) = {n}
    BY <1>1, LineageAssumption DEF Candidates, WithStatus
  <2>2. \A k \in Messages : <<n, k>> \notin t.shown
    BY <1>1 DEF ShownThere
  <2> QED
    BY <2>1, <2>2 DEF Spent
<1> QED
  BY <1>2, <1>3, <1>4

(* Approval takes the Candidate, which somebody was shown. *)
LEMMA ApproveGrants ==
    ASSUME NEW s \in PlanStates, PlanOK(s), NEW m \in Messages, NEW v \in Versions,
           CanApprove(s, v), PresentedBefore(s, v, m),
           ShownThere(s), Once(s), Spent(s, m)
    PROVE  LET t == Approve(s, v, m)
           IN  ShownThere(t) /\ Once(t) /\ Spent(t, m) /\ Grants(s, t, m)
<1> DEFINE t == Approve(s, v, m)
<1>1. /\ t.last = s.last /\ t.shown = s.shown /\ t.createdBy = s.createdBy
      /\ t.approvedBy = [s.approvedBy EXCEPT ![v] = m]
      /\ t.status = SwitchApproved(s.status, v)
  BY DEF Approve, PlanStates
<1>2. \A w \in Versions : s.approvedBy[w] # m
  <2>1. v \in Candidates(s)
    BY DEF CanApprove, Candidates, WithStatus
  <2> QED
    BY <2>1 DEF Spent, PresentedBefore
<1>3. ShownThere(t)
  BY <1>1 DEF ShownThere, SwitchApproved, CanApprove, PlanStates
<1>4. Once(t)
  BY <1>1, <1>2 DEF Once, EverApproved, PlanStates
<1>5. Spent(t, m)
  <2>1. \A w \in Candidates(t) : w \in Candidates(s) /\ w # v
    BY <1>1 DEF Candidates, WithStatus, SwitchApproved
  <2>2. Candidates(t) = {}
    BY <2>1 DEF Candidates, WithStatus, CanApprove, PlanOK, OneCurrent
  <2> QED
    BY <2>2 DEF Spent
<1>6. Grants(s, t, m)
  <2>1. v = s.last /\ s.approvedBy[v] = NoMessage
    BY DEF CanApprove, PlanOK, OneCurrent, ApprovalRecorded
  <2>2. ASSUME NEW w \in Versions, s.approvedBy[w] # NoMessage
        PROVE  w < v
    <3>1. s.status[w] # "ABSENT" /\ w # v
      BY <2>1, <2>2 DEF PlanOK, ApprovalRecorded
    <3>2. ~(w > s.last)
      BY <3>1 DEF PlanOK, Dense
    <3> QED
      BY <2>1, <3>1, <3>2 DEF Versions
  <2> QED
    BY <1>1, <2>2 DEF Grants, PlanStates
<1> QED
  BY <1>3, <1>4, <1>5, <1>6

(* The other tools approve nothing and make no Candidate. *)
LEMMA OtherGrants ==
    ASSUME NEW s \in PlanStates, NEW m \in Messages, NEW t,
           t.last = s.last, t.shown = s.shown, t.createdBy = s.createdBy,
           t.approvedBy = s.approvedBy,
           \A w \in Versions : /\ t.status[w] = "CANDIDATE" => s.status[w] = "CANDIDATE"
                               /\ t.status[w] # "ABSENT" => s.status[w] # "ABSENT",
           ShownThere(s), Once(s), Spent(s, m)
    PROVE  ShownThere(t) /\ Once(t) /\ Spent(t, m) /\ Grants(s, t, m)
<1>1. ShownThere(t) /\ Once(t) /\ Grants(s, t, m)
  BY DEF ShownThere, Once, EverApproved, Grants
<1>2. Spent(t, m)
  BY DEF Spent, Candidates, WithStatus
<1> QED
  BY <1>1, <1>2

(* Every tool. *)
LEMMA ToolGrants ==
    ASSUME NEW s \in PlanStates, PlanOK(s), NEW m \in Messages, NEW t, ToolEffect(s, t, m),
           ShownThere(s), Once(s), Spent(s, m)
    PROVE  ShownThere(t) /\ Once(t) /\ Spent(t, m) /\ Grants(s, t, m)
<1>1. ASSUME NEW v \in Versions, CanReject(s, v), t = Reject(s, v)
      PROVE  ShownThere(t) /\ Once(t) /\ Spent(t, m) /\ Grants(s, t, m)
  BY <1>1, OtherGrants, ZenonT(60) DEF Reject, CanReject, PlanStates
<1>2. ASSUME NEW v \in Versions, CanReactivate(s, v), t = Reactivate(s, v, m)
      PROVE  ShownThere(t) /\ Once(t) /\ Spent(t, m) /\ Grants(s, t, m)
  BY <1>2, OtherGrants, ZenonT(60)
     DEF Reactivate, CanReactivate, Historical, WithStatus, SwitchApproved, PlanStates
<1>3. ASSUME NEW v \in Versions, NEW i, NEW st, t = UpdateProgress(s, v, i, st)
      PROVE  ShownThere(t) /\ Once(t) /\ Spent(t, m) /\ Grants(s, t, m)
  BY <1>3, OtherGrants, ZenonT(60) DEF UpdateProgress, PlanStates
<1>4. ASSUME t = s
      PROVE  ShownThere(t) /\ Once(t) /\ Spent(t, m) /\ Grants(s, t, m)
  BY <1>4, OtherGrants
<1> QED
  BY <1>1, <1>2, <1>3, <1>4, CreateGrants, ApproveGrants DEF ToolEffect

(* The grants of a turn are those of its tools. *)
LEMMA GrantsTransitive ==
    ASSUME NEW s \in PlanStates, NEW t \in PlanStates, NEW u, NEW m \in Messages,
           NEW h, h = m \/ (h = NoMessage /\ t = s),
           Continues(s, t), Grants(s, t, h), Grants(t, u, m)
    PROVE  Grants(s, u, m)
<1>1. u.shown = s.shown
  BY DEF Grants
<1>2. ASSUME NEW v \in Versions, u.approvedBy[v] # s.approvedBy[v]
      PROVE  u.approvedBy[v] = m /\ \A w \in Versions : s.approvedBy[w] # NoMessage => w < v
  <2>1. CASE u.approvedBy[v] # t.approvedBy[v]
    <3>1. \A w \in Versions : s.approvedBy[w] # NoMessage => t.approvedBy[w] # NoMessage
      BY DEF Continues
    <3> QED
      BY <2>1, <3>1 DEF Grants
  <2>2. CASE u.approvedBy[v] = t.approvedBy[v]
    BY <1>2, <2>2 DEF Grants
  <2> QED
    BY <2>1, <2>2
<1> QED
  BY <1>1, <1>2 DEF Grants

-----------------------------------------------------------------------------
(* The commit shows what is there. *)
LEMMA CommitGrants ==
    ASSUME NEW s \in PlanStates, NEW vs \in SUBSET Versions, NEW m \in Messages,
           ShownThere(s), Once(s), \A v \in vs : v <= s.last
    PROVE  LET t == RecordPresentations(s, vs, m)
           IN  ShownThere(t) /\ Once(t) /\ t.last = s.last
<1> DEFINE t == RecordPresentations(s, vs, m)
<1>1. /\ t.last = s.last /\ t.status = s.status /\ t.createdBy = s.createdBy
      /\ t.approvedBy = s.approvedBy /\ t.shown = s.shown \cup (vs \X {m})
  BY DEF RecordPresentations, PlanStates
<1> HIDE DEF t
<1>2. ShownThere(t)
  BY <1>1 DEF ShownThere
<1>3. Once(t)
  BY <1>1 DEF Once, EverApproved
<1> QED
  BY <1>1, <1>2, <1>3 DEF t

(* A turn registers versions it sees. *)
LEMMA RegisteredSeen ==
    ASSUME Base, [Next]_vars, NEW m \in Messages, NEW p \in Plans, NEW v \in Versions,
           <<p, v>> \in pending'[m]
    PROVE  <<p, v>> \in pending[m] \/ v <= View(m, p)'.last
<1> SUFFICES ASSUME <<p, v>> \notin pending[m]
             PROVE  v <= View(m, p)'.last
  OBVIOUS
<1> USE DEF Base, TypeOK
<1>1. pending' # pending
  OBVIOUS
<1>2. ASSUME NEW k \in Messages, NEW q \in Plans, NEW w \in Versions, Register(k, q, w)
      PROVE  k = m /\ q = p /\ w = v
  BY <1>2 DEF Register
<1>3. ASSUME NEW s \in PlanStates, PlanOK(s), v \in Candidates(s) \cup Historical(s)
      PROVE  v <= s.last
  BY <1>3, LineageAssumption
     DEF Candidates, Historical, WithStatus, PlanOK, Dense, PlanStates, Versions
<1>4. View(m, p) \in PlanStates /\ PlanOK(View(m, p))
  BY DEF View, Lawful
<1>5. ASSUME NEW k \in Messages, NEW q \in Plans, CreatePlanWithCandidate(k, q)
      PROVE  v <= View(m, p)'.last
  <2>1. 1 \in Versions
    BY <1>5, LineageAssumption DEF CreatePlanWithCandidate, Versions
  <2>2. k = m /\ q = p /\ v = 1
    BY <1>2, <1>5, <2>1 DEF CreatePlanWithCandidate
  <2>3. draft[p].last = 0
    BY <1>5, <2>2 DEF CreatePlanWithCandidate, Exists, HolderRuns, PlanStates
  <2>4. View(m, p)' = CreateCandidateVersion(draft[p], m)
    BY <1>5, <2>2 DEF CreatePlanWithCandidate, Lock, View
  <2> QED
    BY <2>2, <2>3, <2>4, LastNumber, SMTT(30)
<1>6. ASSUME NEW k \in Messages, NEW q \in Plans, PresentCandidatePlan(k, q)
      PROVE  v <= View(m, p)'.last
  <2>1. draft[q].last + 1 \in Versions
    BY <1>6, LineageAssumption, SMTT(30) DEF PresentCandidatePlan, Versions, PlanStates
  <2>2. k = m /\ q = p /\ v = draft[p].last + 1
    BY <1>2, <1>6, <2>1 DEF PresentCandidatePlan
  <2>3. View(m, p)' = CreateCandidateVersion(draft[p], m)
    BY <1>6, <2>2 DEF PresentCandidatePlan, Lock, View
  <2>4. View(m, p)'.last = v
    BY <2>2, <2>3, LastNumber
  <2> QED
    BY <2>4 DEF Versions
<1>7. ASSUME NEW k \in Messages, NEW q \in Plans,
             ShowCurrentCandidate(k, q) \/ ShowHistoricalPlanForReturn(k, q)
      PROVE  v <= View(m, p)'.last
  <2>1. PICK w \in Candidates(View(k, q)) \cup Historical(View(k, q)) : Register(k, q, w)
    BY <1>7 DEF ShowCurrentCandidate, ShowHistoricalPlanForReturn
  <2>2. k = m /\ q = p /\ w = v
    BY <1>2, <2>1 DEF Candidates, Historical, WithStatus
  <2>3. View(m, p)' = View(m, p)
    BY <1>7 DEF ShowCurrentCandidate, ShowHistoricalPlanForReturn, View
  <2> QED
    BY <1>3, <1>4, <2>1, <2>2, <2>3
<1>8. ASSUME NEW k \in Messages, Finish(k) \/ Abort(k)
      PROVE  FALSE
  BY <1>8 DEF Finish, Abort
<1> QED
  BY <1>1, <1>5, <1>6, <1>7, <1>8, ZenonT(60)
     DEF Next, vars, Tick, Send, Begin, ResolveCandidate, ResolveCurrent, ResolveHistorical,
         ResolveApprovedItem, ResolveImmediate, ResolveExplicit, Resolve, ApprovePlanVersion,
         RejectCandidateVersion, ReactivateHistoricalPlanVersion, UpdatePlanItemProgress, Apply

(* What turn m sees of a plan never gets shorter before it ends. *)
LEMMA ViewGrows ==
    ASSUME Full, Full', [Next]_vars, NEW m \in Messages, NEW p \in Plans, pending'[m] # {}
    PROVE  View(m, p)'.last >= View(m, p).last
<1>0. /\ db[p] \in PlanStates /\ PlanOK(db[p]) /\ draft[p] \in PlanStates /\ PlanOK(draft[p])
      /\ Continues(db[p], draft[p])
      /\ holder[p] = NoMessage => draft[p] = db[p]
  BY DEF Full, Base, TypeOK, Lawful, Provenance, HolderRuns
<1>1. CASE Untouched(p)
  BY <1>0, <1>1 DEF Untouched, View, PlanStates
<1>2. ASSUME NEW k \in Messages, Edited(p, k)
      PROVE  View(m, p)'.last >= View(m, p).last
  <2>1. Continues(draft[p], draft'[p])
    BY <1>0, <1>2, ToolContinues DEF Edited
  <2>2. k # NoMessage /\ m # NoMessage
    BY LineageAssumption
  <2> QED
    BY <1>0, <1>2, <2>1, <2>2 DEF Edited, View, Continues, PlanStates
<1>3. ASSUME NEW k \in Messages, CommittedStep(p, k)
      PROVE  View(m, p)'.last >= View(m, p).last
  <2>1. db'[p].last = draft[p].last
    BY <1>0, <1>3 DEF CommittedStep, RecordPresentations, PlanStates
  <2>2. k # m /\ k # NoMessage /\ m # NoMessage
    BY <1>3, LineageAssumption DEF CommittedStep
  <2> QED
    BY <1>0, <1>3, <2>1, <2>2 DEF CommittedStep, View, Continues
<1>4. ASSUME NEW k \in Messages, RolledBackStep(p, k)
      PROVE  View(m, p)'.last >= View(m, p).last
  <2>1. k # m /\ k # NoMessage /\ m # NoMessage
    BY <1>4, LineageAssumption DEF RolledBackStep
  <2> QED
    BY <1>0, <1>4, <2>1 DEF RolledBackStep, View, PlanStates
<1> QED
  BY <1>1, <1>2, <1>3, <1>4, StepShape DEF Full, PlanStep

(* Placeholders name versions there are. *)
LEMMA KnownStep ==
    ASSUME Full, Full', [Next]_vars, Known
    PROVE  Known'
<1> SUFFICES ASSUME NEW m \in Messages, NEW p \in Plans, NEW v \in Versions,
                    <<p, v>> \in pending'[m]
             PROVE  v <= View(m, p)'.last
  BY DEF Known, PendingOf
<1>1. CASE <<p, v>> \in pending[m]
  <2>1. v <= View(m, p).last
    BY <1>1 DEF Known, PendingOf
  <2>2. View(m, p)'.last >= View(m, p).last
    BY ViewGrows
  <2>3. View(m, p).last \in Nat /\ View(m, p)'.last \in Nat /\ v \in Nat
    BY LineageAssumption DEF Full, Base, TypeOK, View, PlanStates, Versions
  <2> QED
    BY <2>1, <2>2, <2>3
<1>2. CASE <<p, v>> \notin pending[m]
  BY <1>2, RegisteredSeen DEF Full
<1> QED
  BY <1>1, <1>2

(* The grants of every plan stay in order. *)
LEMMA GrantsStep ==
    ASSUME Granting, Full', [Next]_vars, NEW p \in Plans
    PROVE  GrantsOf(p)'
<1>0. /\ db[p] \in PlanStates /\ PlanOK(db[p]) /\ draft[p] \in PlanStates /\ PlanOK(draft[p])
      /\ holder[p] \in MaybeMessage
      /\ holder[p] = NoMessage => draft[p] = db[p]
      /\ Traced(draft[p], Replied, holder[p]) /\ Continues(db[p], draft[p])
      /\ GrantsOf(p)
  BY DEF Granting, Full, Base, TypeOK, Lawful, Provenance, HolderRuns
<1>1. CASE Untouched(p)
  BY <1>0, <1>1 DEF Untouched, GrantsOf
<1>2. ASSUME NEW m \in Messages, Edited(p, m)
      PROVE  GrantsOf(p)'
  <2>1. /\ m # NoMessage /\ m \notin Replied
        /\ holder[p] \in {NoMessage, m} /\ holder'[p] = m /\ db'[p] = db[p]
        /\ ToolEffect(draft[p], draft'[p], m)
    BY <1>2, LineageAssumption DEF Edited, Running, Replied
  <2>2. Spent(draft[p], m)
    <3>1. CASE holder[p] = m
      BY <1>0, <2>1, <3>1 DEF GrantsOf
    <3>2. CASE holder[p] = NoMessage
      BY <1>0, <2>1, <3>2 DEF Spent, Traced
    <3> QED
      BY <2>1, <3>1, <3>2
  <2>3. /\ ShownThere(draft'[p]) /\ Once(draft'[p])
        /\ Spent(draft'[p], m) /\ Grants(draft[p], draft'[p], m)
    BY <1>0, <2>1, <2>2, ToolGrants DEF GrantsOf
  <2>4. Grants(db[p], draft'[p], m)
    BY <1>0, <2>1, <2>3, GrantsTransitive DEF GrantsOf
  <2> QED
    BY <1>0, <2>1, <2>3, <2>4 DEF GrantsOf
<1>3. ASSUME NEW s, ShownThere(s), Once(s),
             db'[p] = s, draft'[p] = s, holder'[p] = NoMessage
      PROVE  GrantsOf(p)'
  BY <1>3 DEF GrantsOf, Grants
<1>4. ASSUME NEW m \in Messages, CommittedStep(p, m)
      PROVE  GrantsOf(p)'
  <2>1. View(m, p) = draft[p]
    BY <1>0, <1>4 DEF CommittedStep, View
  <2>2. \A v \in PendingOf(m, p) : v <= draft[p].last
    BY <2>1 DEF Granting, Known
  <2>3. PendingOf(m, p) \in SUBSET Versions
    BY DEF PendingOf
  <2> QED
    BY <1>0, <1>3, <1>4, <2>2, <2>3, CommitGrants DEF CommittedStep, GrantsOf
<1>5. ASSUME NEW m \in Messages, RolledBackStep(p, m)
      PROVE  GrantsOf(p)'
  BY <1>0, <1>3, <1>5 DEF RolledBackStep, GrantsOf
<1> QED
  BY <1>1, <1>2, <1>4, <1>5, StepShape DEF Granting, Full, PlanStep

(* Nothing is granted in the empty database. *)
LEMMA GrantingInit == Init => Granting
<1> SUFFICES ASSUME Init PROVE Granting
  OBVIOUS
<1>1. Full
  BY BaseInit, ProvenanceInit DEF Full
<1>2. Known
  BY DEF Init, Known, PendingOf
<1>3. ASSUME NEW p \in Plans PROVE GrantsOf(p)
  <2>1. db[p] = EmptyPlan /\ draft[p] = EmptyPlan /\ holder[p] = NoMessage
    BY DEF Init
  <2>2. ShownThere(EmptyPlan) /\ Once(EmptyPlan)
    BY DEF ShownThere, Once, EverApproved, EmptyPlan
  <2>3. Grants(EmptyPlan, EmptyPlan, NoMessage)
    BY DEF Grants
  <2> QED
    BY <2>1, <2>2, <2>3 DEF GrantsOf
<1> QED
  BY <1>1, <1>2, <1>3 DEF Granting

(* The invariant of the refinement. *)
THEOREM GrantingInvariant == Spec => []Granting
<1>1. Granting /\ [Next]_vars => Granting'
  <2> SUFFICES ASSUME Granting, [Next]_vars PROVE Granting'
    OBVIOUS
  <2>1. Full'
    BY FullStep DEF Granting
  <2> QED
    BY <2>1, KnownStep, GrantsStep DEF Granting
<1> QED
  BY <1>1, GrantingInit, PTL DEF Spec

(* One message approves at most one version of a plan, however its turn is *)
(* retried and whatever its tools create and approve.                      *)
THEOREM OneApprovalEach == Spec => []OneApprovalPerMessage
<1>1. Granting => OneApprovalPerMessage
  BY DEF Granting, GrantsOf, Once, OneApprovalPerMessage
<1> QED
  BY <1>1, GrantingInvariant, PTL

-----------------------------------------------------------------------------
(***************************************************************************)
(* The refinement                                                          *)
(***************************************************************************)

(* The working version of PlanAuthority is that of the Strategy. *)
LEMMA WorkingIsStrategy ==
    ASSUME NEW s \in PlanStates, PlanOK(s)
    PROVE  /\ WorkingVersion(s) = s.strategy
           /\ s.strategy = 0 <=> EverApproved(s) = {}
           /\ s.strategy # 0 => s.strategy \in EverApproved(s)
<1>1. CASE s.strategy = 0
  <2>1. EverApproved(s) = {}
    BY <1>1 DEF PlanOK, StrategyFollowsApproved
  <2>2. Approved(s) = {}
    BY <2>1 DEF PlanOK, ApprovalRecorded, EverApproved, Approved, WithStatus
  <2> QED
    BY <1>1, <2>1, <2>2 DEF WorkingVersion
<1>2. CASE s.strategy # 0
  <2>1. s.strategy \in Versions /\ s.status[s.strategy] = "APPROVED"
    BY <1>2, StrategyTyped DEF PlanOK, StrategyFollowsApproved
  <2>2. Approved(s) = {s.strategy}
    BY <2>1 DEF PlanOK, OneCurrent, Approved, WithStatus
  <2>3. s.strategy \in EverApproved(s)
    BY <2>1 DEF PlanOK, ApprovalRecorded, EverApproved
  <2> QED
    BY <1>2, <2>2, <2>3 DEF WorkingVersion
<1> QED
  BY <1>1, <1>2

(* A step answers one message or none. *)
LEMMA AnswersOne ==
    ASSUME TypeOK, [Next]_vars
    PROVE  \/ phase' # phase /\ Replied' = Replied
           \/ phase' = phase
           \/ \E m \in Messages : Running(m) /\ phase' = [phase EXCEPT ![m] = "replied"]
<1> USE DEF TypeOK
<1>1. ASSUME NEW m \in Messages, Send(m) \/ Begin(m) \/ Abort(m)
      PROVE  Replied' = Replied
  BY <1>1 DEF Send, Begin, Abort, Running, Unanswered, Replied
<1>2. ASSUME NEW m \in Messages, Finish(m)
      PROVE  Running(m) /\ phase' = [phase EXCEPT ![m] = "replied"]
  BY <1>2 DEF Finish
<1> QED
  BY <1>1, <1>2, ZenonT(60)
     DEF Next, vars, Tick, CreatePlanWithCandidate, PresentCandidatePlan, ShowCurrentCandidate,
         ShowHistoricalPlanForReturn, ResolveCandidate, ResolveCurrent, ResolveHistorical,
         ResolveApprovedItem, ResolveImmediate, ResolveExplicit, Resolve, ApprovePlanVersion,
         RejectCandidateVersion, ReactivateHistoricalPlanVersion, UpdatePlanItemProgress, Apply

(* What a plan's commit by the turn of m does, in the terms of PlanAuthority. *)
LEMMA CommitIsAnswer ==
    ASSUME Granting, Full', NEW p \in Plans, NEW m \in Messages, CommittedStep(p, m)
    PROVE  /\ db[p].shown \subseteq db'[p].shown
           /\ db'[p].shown \subseteq db[p].shown \cup (Versions \X {m})
           /\ \/ db'[p].approvedBy = db[p].approvedBy
              \/ \E v \in Versions :
                    /\ \E k \in Replied : <<v, k>> \in db[p].shown
                    /\ \A w \in EverApproved(db[p]) : w < v
                    /\ db'[p].approvedBy = [db[p].approvedBy EXCEPT ![v] = m]
           /\ db'[p].strategy # 0 => \E k \in Replied : <<db'[p].strategy, k>> \in db[p].shown
<1> DEFINE s == draft[p]
<1>0. /\ db[p] \in PlanStates /\ s \in PlanStates /\ PlanOK(s)
      /\ holder[p] \in {NoMessage, m} /\ m # NoMessage
      /\ Continues(db[p], s) /\ Traced(s, Replied, holder[p])
      /\ Presented(s, startedAt, SentTimes)
      /\ Grants(db[p], s, holder[p]) /\ Once(s)
  BY LineageAssumption
     DEF Granting, Full, Base, TypeOK, Lawful, Provenance, GrantsOf, CommittedStep
<1>1. /\ db'[p].shown = db[p].shown \cup (PendingOf(m, p) \X {m})
      /\ db'[p].approvedBy = s.approvedBy /\ db'[p].strategy = s.strategy
  BY <1>0 DEF CommittedStep, RecordPresentations, PlanStates, Grants
<1> HIDE DEF s
<1>2. ASSUME NEW v, NEW k, SeenBy(s, v, k, startedAt, SentTimes), v \in Versions
      PROVE  \E j \in Replied : <<v, j>> \in db[p].shown
  BY <1>0, <1>2 DEF SeenBy, Traced, Grants
<1>3. ASSUME s.approvedBy # db[p].approvedBy
      PROVE  \E v \in Versions :
                /\ \E k \in Replied : <<v, k>> \in db[p].shown
                /\ \A w \in EverApproved(db[p]) : w < v
                /\ s.approvedBy = [db[p].approvedBy EXCEPT ![v] = m]
  <2>1. PICK v \in Versions : s.approvedBy[v] # db[p].approvedBy[v]
    BY <1>0, <1>3 DEF PlanStates
  <2>2. s.approvedBy[v] # NoMessage
    BY <1>0, <2>1 DEF Continues
  <2>3. s.approvedBy[v] = m /\ holder[p] = m
    BY <1>0, <2>1, <2>2 DEF Grants
  <2>4. \A w \in EverApproved(db[p]) : w < v
    BY <1>0, <2>1 DEF Grants, EverApproved
  <2>5. \E k \in Replied : <<v, k>> \in db[p].shown
    BY <1>0, <1>2, <2>2 DEF Presented
  <2>6. ASSUME NEW w \in Versions, w # v
        PROVE  s.approvedBy[w] = db[p].approvedBy[w]
    BY <1>0, <2>2, <2>3, <2>6 DEF Grants, Once, EverApproved
  <2>7. s.approvedBy = [db[p].approvedBy EXCEPT ![v] = m]
    BY <1>0, <2>3, <2>6 DEF PlanStates
  <2> QED
    BY <2>4, <2>5, <2>7
<1>4. ASSUME s.strategy # 0
      PROVE  \E k \in Replied : <<s.strategy, k>> \in db[p].shown
  BY <1>0, <1>2, <1>4, StrategyTyped DEF Presented
<1>5. PendingOf(m, p) \subseteq Versions
  BY DEF PendingOf
<1> QED
  BY <1>1, <1>3, <1>4, <1>5

(* The empty database offers and grants nothing. *)
LEMMA AuthorityInit == Init => Authority!Init
<1> SUFFICES ASSUME Init PROVE Authority!Init
  OBVIOUS
<1>1. Replied = {}
  BY DEF Init, Replied
<1>2. \A p \in Plans : db[p] = EmptyPlan
  BY DEF Init
<1>3. EmptyPlan.shown = {} /\ EmptyPlan.approvedBy = [v \in Versions |-> NoMessage]
  BY DEF EmptyPlan
<1>4. WorkingVersion(EmptyPlan) = 0
  <2>1. EmptyPlan.strategy = 0
    BY DEF EmptyPlan
  <2> QED
    BY <2>1, EmptyPlanOK, WorkingIsStrategy
<1> QED
  BY <1>1, <1>2, <1>3, <1>4 DEF Authority!Init, Authority!Versions, Versions

(* Every step answers a message as PlanAuthority allows, or is none. *)
LEMMA AuthorityStep ==
    ASSUME Granting, Full', [Next]_vars
    PROVE  [Authority!Next]_(Authority!avars)
<1>0. /\ \A p \in Plans : /\ db[p] \in PlanStates /\ PlanOK(db[p])
                          /\ db'[p] \in PlanStates /\ PlanOK(db'[p])
      /\ db \in [Plans -> PlanStates] /\ db' \in [Plans -> PlanStates]
      /\ TypeOK
  BY DEF Granting, Full, Base, TypeOK, Lawful
<1>1. \A p \in Plans : db'[p] = db[p] \/ \E m \in Messages : CommittedStep(p, m)
  BY StepShape DEF Granting, Full, PlanStep, Untouched, Edited, RolledBackStep
<1>2. ASSUME NEW p \in Plans, NEW m \in Messages, CommittedStep(p, m)
      PROVE  m \in Replied' /\ m \notin Replied
  BY <1>0, <1>2 DEF CommittedStep, Replied, Running, TypeOK
<1>3. CASE Replied' = Replied
  <2>1. db' = db
    BY <1>0, <1>1, <1>2, <1>3
  <2> QED
    BY <1>3, <2>1 DEF Authority!avars
<1>4. ASSUME NEW m \in Messages, Running(m), phase' = [phase EXCEPT ![m] = "replied"]
      PROVE  Authority!Answer(m)
  <2>1. m \notin Replied /\ Replied' = Replied \cup {m}
    BY <1>0, <1>4 DEF Replied, Running, TypeOK
  <2>2. ASSUME NEW p \in Plans
        PROVE  db'[p] = db[p] \/ CommittedStep(p, m)
    BY <1>1, <1>2, <2>1
  <2>3. ASSUME NEW p \in Plans
        PROVE  /\ WorkingVersion(db[p]) = db[p].strategy
               /\ WorkingVersion(db'[p]) = db'[p].strategy
               /\ db'[p].strategy = 0 <=> EverApproved(db'[p]) = {}
               /\ db'[p].strategy # 0 => db'[p].strategy \in EverApproved(db'[p])
    BY <1>0, WorkingIsStrategy
  <2>4. ASSUME NEW p \in Plans
        PROVE  Authority!Offer(p, m)
    <3>1. /\ db[p].shown \subseteq db'[p].shown
          /\ db'[p].shown \subseteq db[p].shown \cup (Versions \X {m})
      BY <2>2, CommitIsAnswer
    <3> QED
      BY <3>1 DEF Authority!Offer, Authority!Versions, Versions
  <2>5. ASSUME NEW p \in Plans
        PROVE  Authority!Grant(p, m)
    <3>1. \/ db'[p].approvedBy = db[p].approvedBy
          \/ \E v \in Versions :
                /\ \E k \in Replied : <<v, k>> \in db[p].shown
                /\ \A w \in EverApproved(db[p]) : w < v
                /\ db'[p].approvedBy = [db[p].approvedBy EXCEPT ![v] = m]
      BY <2>2, CommitIsAnswer
    <3> QED
      BY <3>1 DEF Authority!Grant, Authority!Granted, Authority!OfferedBefore,
                  Authority!Versions, Versions, EverApproved
  <2>6. ASSUME NEW p \in Plans
        PROVE  Authority!Work(p)
    <3>1. \/ db'[p].strategy = db[p].strategy
          \/ db'[p].strategy # 0 /\ \E k \in Replied : <<db'[p].strategy, k>> \in db[p].shown
          \/ db'[p].strategy = 0 /\ CommittedStep(p, m)
      BY <2>2, CommitIsAnswer
    <3>2. ASSUME db'[p].strategy = 0
          PROVE  db[p].strategy = 0
      <4>1. EverApproved(db'[p]) = {}
        BY <2>3, <3>2
      <4>2. Continues(db[p], db'[p])
        BY FullStep DEF Granting, HistoryKept
      <4>3. EverApproved(db[p]) = {}
        BY <4>1, <4>2 DEF Continues, EverApproved
      <4> QED
        BY <1>0, <4>3, WorkingIsStrategy
    <3> QED
      BY <2>3, <3>1, <3>2
         DEF Authority!Work, Authority!Granted, Authority!OfferedBefore, Authority!Versions,
             Versions, EverApproved
  <2> QED
    BY <2>1, <2>4, <2>5, <2>6 DEF Authority!Answer
<1> QED
  BY <1>0, <1>3, <1>4, AnswersOne DEF Authority!Next, Replied

(* Turns with their transactions, locks, retries and failures implement    *)
(* what PlanAuthority promises the user.                                   *)
THEOREM TurnsImplementAuthority == Spec => ImplementsAuthority
<1>1. Granting /\ [Next]_vars => [Authority!Next]_(Authority!avars)
  <2> SUFFICES ASSUME Granting, [Next]_vars PROVE [Authority!Next]_(Authority!avars)
    OBVIOUS
  <2>1. Full'
    BY FullStep DEF Granting
  <2> QED
    BY <2>1, AuthorityStep
<1> QED
  BY <1>1, AuthorityInit, GrantingInvariant, PTL DEF Spec, ImplementsAuthority, Authority!Spec

-----------------------------------------------------------------------------
(***************************************************************************)
(* The audit (PlanAudit).  An audit that a commit interrupts has read some *)
(* tables before it and the rest after it: what each snapshot satisfies,   *)
(* and that the second continues the first, leave only the torn issues.    *)
(***************************************************************************)

(* A snapshot: a plan with the messages stored and those answered.         *)
Sound(c) ==
    /\ c.plan \in PlanStates /\ PlanOK(c.plan)
    /\ Traced(c.plan, c.answered, NoMessage) /\ Announced(c.plan, NoMessage, {})
    /\ ShownThere(c.plan)
    /\ c.answered \subseteq c.received

Follows(b, a) ==
    /\ Continues(b.plan, a.plan)
    /\ b.answered \subseteq a.answered /\ b.received \subseteq a.received

(* Every table is of one of the snapshots, and a table read after one of   *)
(* the second is of the second.                                            *)
Torn(look, b, a) ==
    /\ \A t \in {"plans", "strategies", "versions", "items", "messages", "presentations", "progress"} :
           look[t] \in {b, a}
    /\ look["strategies"] = b \/ look["versions"] = a
    /\ look["versions"] = b \/ (look["messages"] = a /\ look["presentations"] = a)
Whole(look, c) ==
    \A t \in {"plans", "strategies", "versions", "items", "messages", "presentations", "progress"} :
        look[t] = c

LEMMA LookIs ==
    ASSUME NEW n \in 0 .. Len(Tables), NEW b, NEW a
    PROVE  /\ Torn(Look(n, b, a), b, a)
           /\ n = 0 => Whole(Look(n, b, a), a)
           /\ n = Len(Tables) => Whole(Look(n, b, a), b)
<1>1. /\ Len(Tables) = 7 /\ DOMAIN Tables = 1 .. 7
      /\ Tables[1] = "plans" /\ Tables[2] = "strategies" /\ Tables[3] = "versions"
      /\ Tables[4] = "items" /\ Tables[5] = "messages" /\ Tables[6] = "presentations"
      /\ Tables[7] = "progress"
  BY DEF Tables
<1>2. \A i \in 1 .. 7 : Look(n, b, a)[Tables[i]] = IF \E j \in 1 .. n : Tables[j] = Tables[i] THEN b ELSE a
  BY <1>1 DEF Look
<1>3. \A i, j \in 1 .. 7 : Tables[i] = Tables[j] => i = j
  BY <1>1
<1>4. ASSUME NEW i \in 1 .. 7
      PROVE  Look(n, b, a)[Tables[i]] = IF i <= n THEN b ELSE a
  <2>1. (\E j \in 1 .. n : Tables[j] = Tables[i]) <=> i <= n
    BY <1>1, <1>3
  <2> QED
    BY <1>2, <2>1
<1>5. /\ Look(n, b, a)["plans"] = IF 1 <= n THEN b ELSE a
      /\ Look(n, b, a)["strategies"] = IF 2 <= n THEN b ELSE a
      /\ Look(n, b, a)["versions"] = IF 3 <= n THEN b ELSE a
      /\ Look(n, b, a)["items"] = IF 4 <= n THEN b ELSE a
      /\ Look(n, b, a)["messages"] = IF 5 <= n THEN b ELSE a
      /\ Look(n, b, a)["presentations"] = IF 6 <= n THEN b ELSE a
      /\ Look(n, b, a)["progress"] = IF 7 <= n THEN b ELSE a
  BY <1>1, <1>4
<1> QED
  BY <1>1, <1>5 DEF Torn, Whole

(* A set of which any two elements are equal has at most one.              *)
LEMMA AtMostOne ==
    ASSUME NEW S, \A x, y \in S : x = y
    PROVE  ~(Cardinality(S) > 1)
<1>1. CASE S = {}
  BY <1>1, FS_EmptySet
<1>2. ASSUME NEW x \in S PROVE ~(Cardinality(S) > 1)
  <2>1. S = {x}
    OBVIOUS
  <2> QED
    BY <2>1, FS_Singleton
<1> QED
  BY <1>1, <1>2

(* Two current versions are never seen, since the versions are read once.  *)
LEMMA NeverTwoCurrent ==
    ASSUME NEW s \in PlanStates, PlanOK(s)
    PROVE  /\ ~(Cardinality(Candidates(s)) > 1) /\ ~(Cardinality(Approved(s)) > 1)
<1>1. \A v, w \in Candidates(s) : v = w
  BY DEF PlanOK, OneCurrent, Candidates, WithStatus
<1>2. \A v, w \in Approved(s) : v = w
  BY DEF PlanOK, OneCurrent, Approved, WithStatus
<1> QED
  BY <1>1, <1>2, AtMostOne

(* A version that is there stays, and its approval was shown before it.    *)
LEMMA StaysThere ==
    ASSUME NEW b, NEW a, Sound(b), Sound(a), Follows(b, a)
    PROVE  There(b.plan) \subseteq There(a.plan) /\ b.plan.shown \subseteq a.plan.shown
BY LineageAssumption
   DEF Sound, Follows, Continues, PlanOK, Dense, There, Versions, PlanStates

LEMMA ApprovedIsSound ==
    ASSUME NEW c, Sound(c), NEW v \in Approved(c.plan)
    PROVE  /\ c.plan.approvedBy[v] \in c.received
           /\ \E vk \in c.plan.shown : vk[1] = v
<1>1. v \in Versions /\ c.plan.status[v] = "APPROVED"
  BY DEF Approved, WithStatus
<1>2. c.plan.approvedBy[v] # NoMessage
  BY <1>1 DEF Sound, PlanOK, ApprovalRecorded
<1>3. c.plan.approvedBy[v] \in c.received
  BY <1>1, <1>2 DEF Sound, Traced
<1>4. <<v, c.plan.createdBy[v]>> \in c.plan.shown
  BY <1>1 DEF Sound, Announced
<1> QED
  BY <1>3, <1>4

(* An accepted version is there.                                           *)
LEMMA StrategyIsThere ==
    ASSUME NEW c, Sound(c), c.plan.strategy # 0
    PROVE  c.plan.strategy \in There(c.plan)
BY LineageAssumption
   DEF Sound, PlanOK, StrategyFollowsApproved, PlanStates, There, Versions

(* What a table of the audit can report, and what it reports of one        *)
(* snapshot.                                                               *)
LEMMA VersionsTorn ==
    ASSUME NEW b, NEW a, Sound(b), Sound(a), Follows(b, a), NEW look, Torn(look, b, a)
    PROVE  /\ VersionIssues(look) \subseteq TornIssues
           /\ \A c \in {b, a} : Whole(look, c) => VersionIssues(look) = {}
<1>1. PICK two, missing, differ, orphan, stray \in BOOLEAN :
          /\ two = (\/ Cardinality(Candidates(Version(look))) > 1
                    \/ Cardinality(Approved(Version(look))) > 1)
          /\ missing = (/\ look["strategies"].plan.strategy # 0
                        /\ look["strategies"].plan.strategy \notin There(Version(look)))
          /\ differ = (/\ look["strategies"].plan.strategy \in There(Version(look))
                       /\ PlanRow(look).strategy = 0)
          /\ orphan = (There(Version(look)) # {} /\ ~Exists(PlanRow(look)))
          /\ stray = (ItemVersions(look) \ There(Version(look)) # {})
  OBVIOUS
<1>2. VersionIssues(look) =
          Found([PLAN_CURRENT_VERSION_CARDINALITY |-> two, STRATEGY_ACCEPTED_VERSION_MISSING |-> missing,
                 STRATEGY_PLAN_MISMATCH |-> differ, PLAN_VERSION_PLAN_MISSING |-> orphan,
                 PLAN_ITEM_VERSION_MISSING |-> stray])
  BY <1>1, Zenon DEF VersionIssues
<1>3. ~two
  BY <1>1, NeverTwoCurrent DEF Torn, Version, Sound
<1>4. ~missing
  <2>1. There(b.plan) \subseteq There(a.plan)
    BY StaysThere
  <2>2. \A c \in {b, a} : c.plan.strategy # 0 => c.plan.strategy \in There(c.plan)
    BY StrategyIsThere
  <2> QED
    BY <1>1, <2>1, <2>2 DEF Torn, Version
<1>5. VersionIssues(look) \subseteq TornIssues
  BY <1>2, <1>3, <1>4 DEF Found, TornIssues
<1>6. ASSUME NEW c \in {b, a}, Whole(look, c) PROVE VersionIssues(look) = {}
  <2>1. /\ Version(look) = c.plan /\ PlanRow(look) = c.plan
        /\ look["strategies"].plan = c.plan /\ ItemVersions(look) = There(c.plan)
    BY <1>6 DEF Whole, Version, PlanRow, ItemVersions
  <2>2. 0 \notin There(c.plan)
    BY LineageAssumption DEF There, Versions
  <2>3. There(c.plan) # {} => Exists(c.plan)
    BY LineageAssumption DEF Sound, PlanOK, Dense, There, Versions, Exists, PlanStates
  <2>4. ~differ /\ ~orphan /\ ~stray
    BY <1>1, <2>1, <2>2, <2>3
  <2> QED
    BY <1>2, <1>3, <1>4, <2>4 DEF Found
<1> QED
  BY <1>5, <1>6

LEMMA PresentationsTorn ==
    ASSUME NEW b, NEW a, Sound(b), Sound(a), NEW look, Torn(look, b, a)
    PROVE  /\ PresentationIssues(look) \subseteq TornIssues
           /\ \A c \in {b, a} : Whole(look, c) => PresentationIssues(look) = {}
<1>1. PICK missing, invalid \in BOOLEAN :
          /\ missing = (\E vk \in Shown(look) : vk[1] \notin There(Version(look)))
          /\ invalid = (\E vk \in Shown(look) : vk[2] \notin look["messages"].answered)
  OBVIOUS
<1>2. PresentationIssues(look) =
          Found([PLAN_PRESENTATION_VERSION_MISSING |-> missing,
                 PLAN_PRESENTATION_MESSAGE_INVALID |-> invalid])
  BY <1>1, Zenon DEF PresentationIssues
<1>3. PresentationIssues(look) \subseteq TornIssues
  BY <1>2 DEF Found, TornIssues
<1>4. ASSUME NEW c \in {b, a}, Whole(look, c) PROVE PresentationIssues(look) = {}
  <2>1. Shown(look) = c.plan.shown /\ Version(look) = c.plan /\ look["messages"] = c
    BY <1>4 DEF Whole, Shown, Version
  <2>2. ASSUME NEW vk \in c.plan.shown
        PROVE  vk[1] \in There(c.plan) /\ vk[2] \in c.answered
    <3>1. vk \in Versions \X Messages /\ vk = <<vk[1], vk[2]>>
      BY DEF Sound, PlanStates
    <3>2. vk[1] <= c.plan.last /\ vk[2] \in c.answered
      BY <3>1 DEF Sound, ShownThere, Traced
    <3> QED
      BY <3>1, <3>2, LineageAssumption DEF Sound, PlanOK, Dense, There, Versions, PlanStates
  <2>3. ~missing /\ ~invalid
    BY <1>1, <2>1, <2>2
  <2> QED
    BY <1>2, <2>3 DEF Found
<1> QED
  BY <1>3, <1>4

LEMMA ApprovalsTorn ==
    ASSUME NEW b, NEW a, Sound(b), Sound(a), Follows(b, a), NEW look, Torn(look, b, a)
    PROVE  ApprovalIssues(look) = {}
<1>1. PICK nobody, unseen \in BOOLEAN :
          /\ nobody = (\E v \in Approved(Version(look)) :
                           Version(look).approvedBy[v] \notin look["messages"].received)
          /\ unseen = (\E v \in Approved(Version(look)) : \A vk \in Shown(look) : vk[1] # v)
  OBVIOUS
<1>2. ApprovalIssues(look) =
          Found([PLAN_APPROVAL_SOURCE_INVALID |-> nobody,
                 PLAN_APPROVED_WITHOUT_PRESENTATION |-> unseen])
  BY <1>1, Zenon DEF ApprovalIssues
<1>3. PICK c \in {b, a} : look["versions"] = c
  BY DEF Torn
<1>4. c.received \subseteq look["messages"].received /\ c.plan.shown \subseteq Shown(look)
  <2>1. /\ look["messages"] \in {b, a} /\ look["presentations"] \in {b, a}
        /\ c = b \/ (look["messages"] = a /\ look["presentations"] = a)
    BY <1>3 DEF Torn
  <2>2. b.received \subseteq a.received /\ b.plan.shown \subseteq a.plan.shown
    BY StaysThere DEF Follows
  <2>3. CASE c = a /\ look["messages"] = a /\ look["presentations"] = a
    BY <2>3 DEF Shown
  <2>4. CASE c = b
    BY <2>1, <2>2, <2>4 DEF Shown
  <2> QED
    BY <1>3, <2>1, <2>3, <2>4
<1>5. ~nobody /\ ~unseen
  BY <1>1, <1>3, <1>4, ApprovedIsSound DEF Version
<1> QED
  BY <1>2, <1>5 DEF Found

LEMMA ProgressTorn ==
    ASSUME NEW b, NEW a, Sound(b), Sound(a), NEW look, Torn(look, b, a)
    PROVE  /\ ProgressIssues(look) \subseteq TornIssues
           /\ \A c \in {b, a} : Whole(look, c) => ProgressIssues(look) = {}
<1>1. PICK early \in BOOLEAN :
          early = (\E v \in ItemVersions(look), i \in Items :
                       /\ look["progress"].plan.progress[v][i] # "ABSENT"
                       /\ Version(look).approvedBy[v] = NoMessage)
  OBVIOUS
<1>2. ProgressIssues(look) = Found([PLAN_PROGRESS_WITHOUT_APPROVAL |-> early])
  BY <1>1, Zenon DEF ProgressIssues
<1>3. ProgressIssues(look) \subseteq TornIssues
  BY <1>2 DEF Found, TornIssues
<1>4. ASSUME NEW c \in {b, a}, Whole(look, c) PROVE ProgressIssues(look) = {}
  <2>1. /\ look["progress"].plan = c.plan /\ Version(look) = c.plan
        /\ ItemVersions(look) \subseteq Versions
    BY <1>4 DEF Whole, Version, ItemVersions, There
  <2>2. ~early
    BY <1>1, <2>1 DEF Sound, PlanOK, ProgressSinceApproval
  <2> QED
    BY <1>2, <2>2 DEF Found
<1> QED
  BY <1>3, <1>4

LEMMA IssuesTorn ==
    ASSUME NEW b, NEW a, Sound(b), Sound(a), Follows(b, a), NEW n \in 0 .. Len(Tables)
    PROVE  Issues(Look(n, b, a)) \subseteq IF n \in {0, Len(Tables)} THEN {} ELSE TornIssues
<1>1. PICK look : look = Look(n, b, a)
  OBVIOUS
<1>2. /\ Torn(look, b, a)
      /\ n = 0 => Whole(look, a)
      /\ n = Len(Tables) => Whole(look, b)
  BY <1>1, LookIs
<1>3. Issues(look) \subseteq TornIssues
  BY <1>2, VersionsTorn, PresentationsTorn, ApprovalsTorn, ProgressTorn DEF Issues
<1>4. ASSUME NEW c \in {b, a}, Whole(look, c) PROVE Issues(look) = {}
  BY <1>2, <1>4, VersionsTorn, PresentationsTorn, ApprovalsTorn, ProgressTorn DEF Issues
<1> QED
  BY <1>1, <1>2, <1>3, <1>4

(* What is committed is sound.                                             *)
AllSound == \A p \in Plans : Sound(Committed(p))
LEMMA SnapshotSound == Granting => AllSound
<1> SUFFICES ASSUME Granting, NEW p \in Plans PROVE Sound(Committed(p))
  BY DEF AllSound
<1>1. PICK c : c = Committed(p)
  OBVIOUS
<1>2. c.plan = db[p] /\ c.answered = Replied /\ c.received = Received
  BY <1>1 DEF Committed
<1>3. Replied \subseteq Received
  BY DEF Replied, Received
<1>4. Sound(c)
  BY <1>2, <1>3 DEF Sound, Granting, GrantsOf, Full, Base, TypeOK, Lawful, Provenance
<1> QED
  BY <1>1, <1>4

(* A message once stored stays stored.                                     *)
LEMMA StoredStays ==
    ASSUME TypeOK, [Next]_vars
    PROVE  Received \subseteq Received'
<1> SUFFICES ASSUME NEW k \in Messages, phase[k] # "unsent" PROVE phase'[k] # "unsent"
  BY DEF Received
<1>1. CASE phase' = phase
  BY <1>1
<1>2. ASSUME NEW m \in Messages, Send(m) \/ Begin(m) \/ Finish(m) \/ Abort(m)
      PROVE  phase'[k] # "unsent"
  BY <1>2 DEF TypeOK, Send, Begin, Finish, Abort
<1>3. ASSUME NEW m \in Messages, NEW p \in Plans,
             \/ CreatePlanWithCandidate(m, p) \/ PresentCandidatePlan(m, p)
             \/ ShowCurrentCandidate(m, p) \/ ShowHistoricalPlanForReturn(m, p)
      PROVE  phase' = phase
  BY <1>3 DEF CreatePlanWithCandidate, PresentCandidatePlan, ShowCurrentCandidate,
              ShowHistoricalPlanForReturn
<1>4. ASSUME NEW m \in Messages,
             \/ ResolveCandidate(m) \/ ResolveCurrent(m)
             \/ ResolveHistorical(m) \/ ResolveApprovedItem(m)
      PROVE  phase' = phase
  BY <1>4 DEF ResolveCandidate, ResolveCurrent, ResolveHistorical, ResolveApprovedItem,
              ResolveImmediate, ResolveExplicit, Resolve
<1>5. ASSUME NEW m \in Messages,
             \/ ApprovePlanVersion(m) \/ RejectCandidateVersion(m)
             \/ ReactivateHistoricalPlanVersion(m) \/ UpdatePlanItemProgress(m)
      PROVE  phase' = phase
  BY <1>5 DEF ApprovePlanVersion, RejectCandidateVersion, ReactivateHistoricalPlanVersion,
              UpdatePlanItemProgress, Apply
<1>6. Tick \/ UNCHANGED vars => phase' = phase
  BY DEF Tick, vars
<1> QED
  BY <1>1, <1>2, <1>3, <1>4, <1>5, <1>6 DEF Next

(* An audit may be trusted: of what is committed it reports nothing, and   *)
(* when a turn commits meanwhile it reports no issue but the torn ones.    *)
THEOREM AuditsAreTrusted == Spec => AuditTrusted
<1>1. ASSUME Granting, AllSound', [Next]_vars,
             NEW p \in Plans, NEW n \in 0 .. Len(Tables)
      PROVE  Issues(Look(n, Committed(p), Committed(p)'))
                 \subseteq IF n \in {0, Len(Tables)} THEN {} ELSE TornIssues
  <2>1. PICK b, a : b = Committed(p) /\ a = Committed(p)'
    OBVIOUS
  <2>2. Sound(b)
    BY <1>1, <2>1, SnapshotSound DEF AllSound
  <2>3. Sound(a)
    BY <1>1, <2>1 DEF AllSound
  <2>4. Continues(db[p], db'[p])
    BY <1>1, FullStep DEF Granting, HistoryKept
  <2>5. Received \subseteq Received' /\ Replied \subseteq Replied'
    BY <1>1, StoredStays, TimesKept DEF Granting, Full, Base
  <2>6. Follows(b, a)
    BY <2>1, <2>4, <2>5 DEF Follows, Committed
  <2>7. Issues(Look(n, b, a)) \subseteq IF n \in {0, Len(Tables)} THEN {} ELSE TornIssues
    BY <2>2, <2>3, <2>6, IssuesTorn
  <2> QED
    BY <2>1, <2>7
<1>2. Granting /\ AllSound' /\ [Next]_vars =>
          [\A p \in {q \in Plans : db'[q] # db[q]}, n \in 0 .. Len(Tables) :
               Issues(Look(n, Committed(p), Committed(p)'))
                   \subseteq IF n \in {0, Len(Tables)} THEN {} ELSE TornIssues]_vars
  BY <1>1
<1>3. Spec => [](Granting /\ AllSound)
  BY SnapshotSound, GrantingInvariant, PTL
<1> QED
  BY <1>2, <1>3, PTL DEF Spec, AuditTrusted
=============================================================================
