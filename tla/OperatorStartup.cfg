SPECIFICATION FairSpec
CONSTANTS
    Pods = {p1}
    MaxKills = 2
\* A run may end: the operator serves.
CHECK_DEADLOCK FALSE
INVARIANT TypeOK
INVARIANT RaisedNeverServes
INVARIANT CopiedInOnePass
PROPERTY ServesUnlessRaised
