SPECIFICATION FairSpec
CONSTANTS
    None = None
    a1 = a1
    a2 = a2
    p1 = p1
    p2 = p2
    Channels = {"prometheus", "gitops", "slack"}
    Answering <- NoneHangs
    Alerts = {a1, a2}
    Pods = {p1, p2}
    PodOf <- Pod
    MaxFaults = 0
\* A run may end: every alert sent and handled.
CHECK_DEADLOCK FALSE
PROPERTY EverySubscriberGetsIt
