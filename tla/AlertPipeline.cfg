SPECIFICATION FairPipeline
CONSTANTS
    None = None
    a1 = a1
    a2 = a2
    p1 = p1
    p2 = p2
    Channels = {"prometheus", "gitops"}
    Answering <- OneHangs
    Alerts = {a1, a2}
    Pods = {p1, p2}
    PodOf <- Pod
    Replica = m1
    Labels = {"team-a"}
    Configs <- Windows
    Peaks <- Peak
    Slots = {1, 2}
    MaxEdits = 3
    MaxFaults = 1
\* A run may end: every change made, every alert handled.
CHECK_DEADLOCK FALSE
INVARIANT PipelineTypeOK
PROPERTY ChannelsIndependent
PROPERTY ShownOnce
PROPERTY ImplementsAlertBoard
PROPERTY EventReachesChannels
