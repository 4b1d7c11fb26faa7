----------------------------- MODULE PlanLineage -----------------------------
(***************************************************************************)
(* One Plan of the Planning service: its numbered PlanVersions, the        *)
(* Strategy accepted from them, the execution progress of their items and  *)
(* the record of which assistant answers showed which version.             *)
(*                                                                         *)
(* The module has no variables.  A plan is a record and every operation of *)
(* services/planning.py is an operator from the old record to the new one, *)
(* with its validation as a separate predicate.  PlanningTurns keeps the   *)
(* committed and the uncommitted copy of every plan and applies these      *)
(* operators; PlanningTurnsProofs proves what they preserve.               *)
(***************************************************************************)
EXTENDS Naturals

CONSTANTS
    Messages,         \* user messages; a message also names the turn answering it
    NoMessage,        \* NULL in a source or message column
    Items,            \* items of a version (every version has the same ones here)
    ProgressStates,   \* values of PlanItemProgressStatus
    MaxVersions       \* bound: versions of one plan

ASSUME LineageAssumption ==
    /\ NoMessage \notin Messages
    /\ "NOT_STARTED" \in ProgressStates
    /\ "ABSENT" \notin ProgressStates
    /\ MaxVersions \in Nat

(* PlanVersion.version_number, 1 for the first version of the plan. *)
Versions == 1 .. MaxVersions

(* PlanVersionStatus; "ABSENT" stands for a version that has no row yet. *)
Statuses == {"ABSENT", "CANDIDATE", "APPROVED", "SUPERSEDED", "REJECTED"}

MaybeMessage == Messages \cup {NoMessage}
MaybeProgress == ProgressStates \cup {"ABSENT"}

(***************************************************************************)
(* last        the highest version_number, 0 before the first version      *)
(* status      PlanVersion.status                                          *)
(* createdBy   the message whose turn synthesised the version              *)
(* approvedBy  PlanVersion.approval_source_id (set with approved_at)       *)
(* strategy    Strategy.accepted_from_plan_version_id, 0 if no Strategy    *)
(* strategyBy  Strategy.accepted_source_id                                 *)
(* progress    PlanItemProgress.status, "ABSENT" if the item has no row    *)
(* shown       PlanVersionPresentation: <<version, turn of the answer>>    *)
(***************************************************************************)
PlanStates ==
    [last : 0 .. MaxVersions,
     status : [Versions -> Statuses],
     createdBy : [Versions -> MaybeMessage],
     approvedBy : [Versions -> MaybeMessage],
     strategy : 0 .. MaxVersions,
     strategyBy : MaybeMessage,
     progress : [Versions -> [Items -> MaybeProgress]],
     shown : SUBSET (Versions \X Messages)]

EmptyPlan ==
    [last |-> 0,
     status |-> [v \in Versions |-> "ABSENT"],
     createdBy |-> [v \in Versions |-> NoMessage],
     approvedBy |-> [v \in Versions |-> NoMessage],
     strategy |-> 0,
     strategyBy |-> NoMessage,
     progress |-> [v \in Versions |-> [i \in Items |-> "ABSENT"]],
     shown |-> {}]

Exists(s) == s.last > 0
WithStatus(s, st) == {v \in Versions : s.status[v] = st}
Candidates(s) == WithStatus(s, "CANDIDATE")
Approved(s) == WithStatus(s, "APPROVED")
(* Versions the user approved at some time: approval metadata is never cleared. *)
EverApproved(s) == {v \in Versions : s.approvedBy[v] # NoMessage}
(* What may be returned to: SUPERSEDED with approval metadata. *)
AnySuperseded(s) == WithStatus(s, "SUPERSEDED")              \* variant: any replaced version
Historical(s) == WithStatus(s, "SUPERSEDED") \cap EverApproved(s)

-----------------------------------------------------------------------------
(* Operators marked "variant" are the definition after them with one         *)
(* mistake; the mutant runs substitute them.                                *)
TwoCandidates(s, m) ==                              \* variant: nothing is superseded
    [s EXCEPT !.last = s.last + 1,
              !.status = [s.status EXCEPT ![s.last + 1] = "CANDIDATE"],
              !.createdBy = [s.createdBy EXCEPT ![s.last + 1] = m]]

(* create_candidate_version: the current Candidate, if any, is superseded  *)
(* and flushed before the new row takes max(version_number) + 1.           *)
CreateCandidateVersion(s, m) ==
    LET n == s.last + 1 IN
    [s EXCEPT !.last = n,
              !.status = [v \in Versions |->
                             IF v = n THEN "CANDIDATE"
                             ELSE IF s.status[v] = "CANDIDATE" THEN "SUPERSEDED"
                             ELSE s.status[v]],
              !.createdBy = [s.createdBy EXCEPT ![n] = m]]

(* record_version_presentation, for every version one answer showed.  It   *)
(* accepts any status and is idempotent for a (version, answer) pair.      *)
RecordPresentations(s, vs, m) ==
    [s EXCEPT !.shown = @ \cup (vs \X {m})]

(* reject_candidate_version *)
CanReject(s, v) == s.status[v] = "CANDIDATE"
Reject(s, v) == [s EXCEPT !.status = [s.status EXCEPT ![v] = "REJECTED"]]

(* The status change approval and reactivation share: the old current      *)
(* Approved version becomes SUPERSEDED, v becomes APPROVED.                *)
StaysApproved(status, v) ==                         \* variant: the old one is not replaced
    [status EXCEPT ![v] = "APPROVED"]
SwitchApproved(status, v) ==
    [w \in Versions |-> IF w = v THEN "APPROVED"
                        ELSE IF status[w] = "APPROVED" THEN "SUPERSEDED"
                        ELSE status[w]]

(* approve_plan_version with _accept_strategy: the Strategy follows the    *)
(* version and every item gets a NOT_STARTED progress row.                 *)
NoProgressRows(s, v, m) ==                          \* variant: progress not initialised
    [s EXCEPT !.status = SwitchApproved(s.status, v),
              !.approvedBy = [s.approvedBy EXCEPT ![v] = m],
              !.strategy = v,
              !.strategyBy = m]
WrongEnum(s, v, m) ==                               \* variant: rows start with the version's status
    [NoProgressRows(s, v, m) EXCEPT
        !.progress = [s.progress EXCEPT ![v] = [i \in Items |-> "APPROVED"]]]
CanApprove(s, v) == s.status[v] = "CANDIDATE"
Approve(s, v, m) ==
    [s EXCEPT !.status = SwitchApproved(s.status, v),
              !.approvedBy = [s.approvedBy EXCEPT ![v] = m],
              !.strategy = v,
              !.strategyBy = m,
              !.progress = [s.progress EXCEPT ![v] = [i \in Items |-> "NOT_STARTED"]]]

(* reactivate_historical_plan_version: only a formerly Approved version,   *)
(* and only to replace a current Approved one; its approval metadata and   *)
(* its progress rows are those of its first approval.                      *)
CanReactivate(s, v) == v \in Historical(s) /\ Approved(s) # {}
OldStrategy(s, v, m) ==                             \* variant: Strategy not accepted again
    [s EXCEPT !.status = SwitchApproved(s.status, v)]
Reactivate(s, v, m) ==
    [s EXCEPT !.status = SwitchApproved(s.status, v),
              !.strategy = v,
              !.strategyBy = m]

(* update_plan_item_progress: any status may follow any other. *)
CanUpdateProgress(s, v, i) ==
    s.status[v] = "APPROVED" /\ s.progress[v][i] # "ABSENT"
UpdateProgress(s, v, i, st) ==
    [s EXCEPT !.progress = [s.progress EXCEPT ![v] = [s.progress[v] EXCEPT ![i] = st]]]

-----------------------------------------------------------------------------
(***************************************************************************)
(* What every copy of a plan satisfies.                                    *)
(***************************************************************************)

(* A plan has at most one CANDIDATE and one APPROVED version (the partial  *)
(* unique indexes of plan_versions), and the Candidate is the newest one.  *)
OneCurrent(s) ==
    /\ \A v, w \in Versions :
          /\ s.status[v] = "APPROVED" /\ s.status[w] = "APPROVED" => v = w
    /\ \A v \in Versions : s.status[v] = "CANDIDATE" => v = s.last

(* Versions are numbered without a gap. *)
Dense(s) == \A v \in Versions : s.status[v] = "ABSENT" <=> v > s.last

(* Approval metadata is there exactly for versions that are, or were, the  *)
(* Approved one.                                                           *)
ApprovalRecorded(s) ==
    \A v \in Versions :
        /\ s.status[v] = "APPROVED" => s.approvedBy[v] # NoMessage
        /\ s.approvedBy[v] # NoMessage => s.status[v] \in {"APPROVED", "SUPERSEDED"}

(* The Strategy is the one of the current Approved version, and once any   *)
(* version was approved the plan always has both.                          *)
StrategyFollowsApproved(s) ==
    /\ s.strategy = 0 => EverApproved(s) = {} /\ s.strategyBy = NoMessage
    /\ s.strategy # 0 => s.status[s.strategy] = "APPROVED" /\ s.strategyBy # NoMessage

(* An item has a progress row exactly when its version was once approved.  *)
ProgressSinceApproval(s) ==
    \A v \in Versions, i \in Items :
        s.progress[v][i] # "ABSENT" <=> s.approvedBy[v] # NoMessage

PlanOK(s) ==
    /\ OneCurrent(s)
    /\ Dense(s)
    /\ ApprovalRecorded(s)
    /\ StrategyFollowsApproved(s)
    /\ ProgressSinceApproval(s)
=============================================================================
