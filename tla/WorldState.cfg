SPECIFICATION Spec
CONSTANTS
    t1 = t1
    t2 = t2
    t3 = t3
    Tasks = {t1, t2}
    Criteria = {c1}
    Goal = goal
    Decisions = {d1, d2}
    Project = project
    Turns = {u1, u2}
    None = None
    Absent = Absent
    FirstTasks <- OneTask
    FirstDecisions = {d1}
    Marks = {"UNKNOWN", "MET"}
    Commands = {"task", "goal", "link", "summary", "undo"}
    NewTasks <- Created
    TaskUpdates <- Updates
    MaxEvents = 3
SYMMETRY TurnSymmetry
INVARIANTS
    HistoryGapless
    UndoesTheLast
    DependenciesAcyclic
    SummaryCurrent
PROPERTIES
    WorldAuditTrusted
CHECK_DEADLOCK FALSE
