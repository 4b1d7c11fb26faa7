---------------------------- MODULE PlanAuthority ----------------------------
(***************************************************************************)
(* What the Planning lifecycle promises the user, without transactions,    *)
(* locks, drafts or statuses.  The assistant offers versions in its        *)
(* answers; the user grants one by a message; one granted version per plan *)
(* is the working one.  Each message is answered at most once, and its     *)
(* answer is the only thing that changes anything:                         *)
(*   - a plan that has a working version never is without one again;       *)
(*   - a version is granted once, by one message, after another answered   *)
(*     message's answer offered it, and grants of one plan go upwards;     *)
(*   - the working version changes only to one that is, or was, granted,   *)
(*     and only if it was offered before.                                  *)
(* PlanningTurns implements this module.                                   *)
(***************************************************************************)
EXTENDS Naturals

CONSTANTS Messages, NoMessage, Plans, MaxVersions

VARIABLES
    answered,   \* messages whose turn was committed
    offered,    \* [Plans -> set of <<version, message whose answer showed it>>]
    granted,    \* [Plans -> [Versions -> the approving message, or NoMessage]]
    working     \* [Plans -> the working version, or 0]

avars == <<answered, offered, granted, working>>

Versions == 1 .. MaxVersions
Granted(g) == {v \in Versions : g[v] # NoMessage}
OfferedBefore(p, v) == \E k \in answered : <<v, k>> \in offered[p]

Init ==
    /\ answered = {}
    /\ offered = [p \in Plans |-> {}]
    /\ granted = [p \in Plans |-> [v \in Versions |-> NoMessage]]
    /\ working = [p \in Plans |-> 0]

(* The answer to m offers some versions of p. *)
Offer(p, m) ==
    /\ offered[p] \subseteq offered'[p]
    /\ offered'[p] \subseteq offered[p] \cup (Versions \X {m})

(* Message m grants nothing of p, or one version newer than all before. *)
Grant(p, m) ==
    \/ granted'[p] = granted[p]
    \/ \E v \in Versions :
          /\ OfferedBefore(p, v)
          /\ \A w \in Granted(granted[p]) : w < v
          /\ granted'[p] = [granted[p] EXCEPT ![v] = m]

(* The working version stays or becomes one that is granted. *)
Work(p) ==
    /\ \/ working'[p] = working[p]
       \/ /\ working'[p] \in Granted(granted'[p])
          /\ OfferedBefore(p, working'[p])
    /\ working'[p] = 0 <=> Granted(granted'[p]) = {}

Answer(m) ==
    /\ m \notin answered
    /\ answered' = answered \cup {m}
    /\ \A p \in Plans : Offer(p, m) /\ Grant(p, m) /\ Work(p)

Next == \E m \in Messages : Answer(m)

Spec == Init /\ [][Next]_avars
=============================================================================
