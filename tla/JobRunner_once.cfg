SPECIFICATION Spec
CONSTANTS
    None = None
    r1 = r1
    r2 = r2
    r3 = r3
    r4 = r4
    Runs = {r1, r2}
    Namespaced = {r1, r2}
    Retrying = {}
    MaxFaults = 0
\* A run may end: every run over, the last job finished.
CHECK_DEADLOCK FALSE
INVARIANT JobAfterRuns
