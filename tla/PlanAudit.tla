------------------------------ MODULE PlanAudit ------------------------------
(***************************************************************************)
(* The audit of the planning tables (_verify_planning of                   *)
(* support/consistency.py) over the plans of PlanningTurns.                *)
(*                                                                         *)
(* The audit reads one table after the other, at READ COMMITTED: a turn    *)
(* that commits meanwhile is seen by the later reads only.  An audit that  *)
(* meets one commit is described by the commit's step and the number of    *)
(* tables it had read by then, so it needs no state of its own.  The bases,*)
(* Goal links and item dependencies of versions are not in PlanningTurns.  *)
(***************************************************************************)
EXTENDS PlanningTurns, Sequences, FiniteSets

(* Tables in the order they are read.  A Plan keeps the columns verify      *)
(* itself has read before; the second read of it only adds new rows.        *)
Tables == <<"plans", "strategies", "versions", "items", "messages", "presentations", "progress">>

(* What each read finds when the first n of them precede the commit; before  *)
(* and after are a plan's rows and the messages on either side of it.        *)
Look(n, before, after) ==
    [t \in {Tables[i] : i \in DOMAIN Tables} |->
        IF \E i \in 1 .. n : Tables[i] = t THEN before ELSE after]

Found(issues) == {code \in DOMAIN issues : issues[code]}
There(s) == {v \in Versions : s.status[v] # "ABSENT"}
PlanRow(look) == look["plans"].plan
Version(look) == look["versions"].plan
ItemVersions(look) == There(look["items"].plan)
Shown(look) == look["presentations"].plan.shown

VersionIssues(look) ==
    LET strategy == look["strategies"].plan.strategy IN
    Found([PLAN_CURRENT_VERSION_CARDINALITY |->
               \/ Cardinality(Candidates(Version(look))) > 1
               \/ Cardinality(Approved(Version(look))) > 1,
           STRATEGY_ACCEPTED_VERSION_MISSING |->
               strategy # 0 /\ strategy \notin There(Version(look)),
           STRATEGY_PLAN_MISMATCH |->
               strategy \in There(Version(look)) /\ PlanRow(look).strategy = 0,
           PLAN_VERSION_PLAN_MISSING |->
               There(Version(look)) # {} /\ ~Exists(PlanRow(look)),
           PLAN_ITEM_VERSION_MISSING |->
               ItemVersions(look) \ There(Version(look)) # {}])

PresentationIssues(look) ==
    Found([PLAN_PRESENTATION_VERSION_MISSING |->
               \E vk \in Shown(look) : vk[1] \notin There(Version(look)),
           PLAN_PRESENTATION_MESSAGE_INVALID |->
               \E vk \in Shown(look) : vk[2] \notin look["messages"].answered])

ApprovalIssues(look) ==
    Found([PLAN_APPROVAL_SOURCE_INVALID |->
               \E v \in Approved(Version(look)) :
                   Version(look).approvedBy[v] \notin look["messages"].received,
           PLAN_APPROVED_WITHOUT_PRESENTATION |->
               \E v \in Approved(Version(look)) : \A vk \in Shown(look) : vk[1] # v])

ProgressIssues(look) ==
    Found([PLAN_PROGRESS_WITHOUT_APPROVAL |->
               \E v \in ItemVersions(look), i \in Items :
                   /\ look["progress"].plan.progress[v][i] # "ABSENT"
                   /\ Version(look).approvedBy[v] = NoMessage])

Issues(look) ==
    VersionIssues(look) \cup PresentationIssues(look) \cup ApprovalIssues(look)
        \cup ProgressIssues(look)

(* The committed rows of a plan with the messages.                          *)
Received == {m \in Messages : phase[m] # "unsent"}
Committed(p) == [plan |-> db[p], answered |-> Replied, received |-> Received]

-----------------------------------------------------------------------------
(* A commit between two reads shows the audit later rows without the        *)
(* earlier ones they belong to.                                             *)
TornIssues ==
    {"STRATEGY_PLAN_MISMATCH", "PLAN_VERSION_PLAN_MISSING", "PLAN_ITEM_VERSION_MISSING",
     "PLAN_PRESENTATION_VERSION_MISSING", "PLAN_PRESENTATION_MESSAGE_INVALID",
     "PLAN_PROGRESS_WITHOUT_APPROVAL"}

(* An audit that no commit interrupts finds nothing.  One that a commit does*)
(* interrupt may report the issues above of a sound database, and no others:*)
(* two current versions, a Strategy without its version, an approval by     *)
(* nobody or of a version never shown are there when they are reported.     *)
AuditTrusted ==
    [][\A p \in {q \in Plans : db'[q] # db[q]}, n \in 0 .. Len(Tables) :
           Issues(Look(n, Committed(p), Committed(p)'))
               \subseteq IF n \in {0, Len(Tables)} THEN {} ELSE TornIssues]_vars
=============================================================================
