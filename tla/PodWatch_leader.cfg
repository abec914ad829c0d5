SPECIFICATION Spec
CONSTANTS
    None = None
    Managers = {m1, m2}
    Pods = {p1}
    Labels = {"low"}
    Configs <- GoodConfigs
    Peaks <- Peak
    Slots = {1}
    MaxEdits = 2
    MaxFaults = 0
\* A run may end: every replica up, all changes of the bound made.
CHECK_DEADLOCK FALSE
PROPERTY OnlyLeaderAlerts
