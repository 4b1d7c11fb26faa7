---------------------------- MODULE MCPlanQueries ----------------------------
(* PlanQueries on small instances. *)
EXTENDS PlanQueries, TLC

CONSTANTS i1, i2, i3

(* No edge, a chain against the ordinals, two prerequisites, two cycles.       *)
Graphs == {{}, {<<i3, i2>>, <<i2, i1>>}, {<<i1, i3>>, <<i2, i3>>},
           {<<i1, i2>>, <<i2, i1>>}, {<<i1, i2>>, <<i2, i3>>, <<i3, i2>>}}
ThreeItems == {[order |-> <<i1, i2, i3>>, edges |-> G] : G \in Graphs}
TurnSymmetry == Permutations(Turns)
=============================================================================
