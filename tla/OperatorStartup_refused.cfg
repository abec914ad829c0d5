SPECIFICATION FairSpec
CONSTANTS
    Pods = {p1}
    MaxKills = 0
\* A run may end: the operator serves.
CHECK_DEADLOCK FALSE
PROPERTY OperatorServes
