SPECIFICATION FairSpec
CONSTANTS
    None = None
    Users = {u1, u2}
    Requests = {r1, r2}
    Levels = {high, low}
    MaxEdits = 2
    MaxFaults = 1
INVARIANT TypeOK
PROPERTY SubmissionsAnswered
