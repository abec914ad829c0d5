SPECIFICATION FairSpec
CONSTANTS
    None = None
    Managers = {m1, m2}
    Pods = {p1}
    Labels = {"low", "team-a"}
    Configs <- AnyWindow
    Peaks <- PeakOrNone
    Slots = {1, 2}
    MaxEdits = 3
    MaxFaults = 1
\* A run may end: every replica up, all changes of the bound made.
CHECK_DEADLOCK FALSE
INVARIANT TypeOK
INVARIANT ClientBeforeQuery
PROPERTY StaysUp
