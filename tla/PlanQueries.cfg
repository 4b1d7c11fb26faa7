SPECIFICATION Spec
CONSTANTS
    i1 = i1
    i2 = i2
    i3 = i3
    Goals = {g1}
    Turns = {u1, u2}
    None = None
    Contents <- ThreeItems
    HasProject = TRUE
    MaxClock = 6
    MaxVersions = 1
SYMMETRY TurnSymmetry
INVARIANTS
    StaleExactly
    LateGoalsReported
    DependenciesChecked
    NextActionSound
CHECK_DEADLOCK FALSE
