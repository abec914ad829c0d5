SPECIFICATION FairSpec
CONSTANTS
    None = None
    c1 = c1
    o1 = o1
    o2 = o2
    d1 = d1
    d2 = d2
    d3 = d3
    Configs = {c1}
    Objects = {o1, o2}
    Deployments = {d1, d2}
    Specs <- OneLimit
    Readings <- IdleOrBusy
    Present = {d1, d2}
    InitialMax = 10
    InitialTarget <- TwoTargets
    MaxEdits = 1
    MaxFaults = 0
\* A run may end: every config deleted, all changes of the bound made.
CHECK_DEADLOCK FALSE
PROPERTY CapEventuallyInForce
