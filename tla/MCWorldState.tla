---------------------------- MODULE MCWorldState ----------------------------
(* WorldState on small instances. *)
EXTENDS WorldAudit, TLC

CONSTANTS t1, t2, t3

Row(parent) == [parent |-> parent, done |-> FALSE, needs |-> {}, linked |-> FALSE]
(* One Task, the others still to be created. *)
OneTask == [x \in Tasks |-> IF x = t1 THEN Row(None) ELSE Absent]
(* t3 is under t1, t1 under t2. *)
ThreeLevels == [x \in Tasks |-> Row(IF x = t1 THEN t2 ELSE IF x = t3 THEN t1 ELSE None)]

Moves == [parent : {None, t3}]
Created == [parent : {None, t1}, done : {FALSE}, needs : {{}, {t1}}, linked : {FALSE}]
Updates == [done : BOOLEAN] \cup [parent : Tasks \cup {None}]

TurnSymmetry == Permutations(Turns)
=============================================================================
