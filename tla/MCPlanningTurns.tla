--------------------------- MODULE MCPlanningTurns ---------------------------
(***************************************************************************)
(* Small instances of PlanningTurns: three or four messages, one or two    *)
(* conversations, one or two plans with up to three versions of one item.  *)
(***************************************************************************)
EXTENDS PlanAudit, TLC

CONSTANTS m1, m2, m3, m4, p1, p2, chat, other

OneChat == [m \in Messages |-> chat]
(* The last message comes from a different conversation. *)
TwoChats == [m \in Messages |-> IF m = m3 THEN other ELSE chat]

(* Sound only where every message is alike: one chat, ReplanIntent = Messages. *)
MessageSymmetry == Permutations(Messages)
=============================================================================
