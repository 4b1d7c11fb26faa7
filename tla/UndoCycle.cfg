SPECIFICATION Spec
CONSTANTS
    t1 = t1
    t2 = t2
    t3 = t3
    Tasks = {t1, t2, t3}
    Criteria = {}
    Goal = goal
    Decisions = {}
    Project = project
    Turns = {u1, u2}
    None = None
    Absent = Absent
    FirstTasks <- ThreeLevels
    FirstDecisions = {}
    Marks = {"UNKNOWN"}
    Commands = {"task", "undo"}
    NewTasks = {}
    TaskUpdates <- Moves
    MaxEvents = 5
SYMMETRY TurnSymmetry
INVARIANTS
    ParentsAcyclic
CHECK_DEADLOCK FALSE
