SPECIFICATION TaskFairSpec
CONSTANTS
    Pages = {p1}
    Cfgs = {c1}
    Ops = {o1}
    Workers = {w1}
    None = None
    Origin = Origin
    Revs = {1,2,3,4,5,6,7,8,9}
    Images = FALSE
    MaxFaults = 0
    MaxCrashes = 2
CHECK_DEADLOCK FALSE
PROPERTIES
    ConfirmedTasksEnd
    WorkSettles
    QueuedTasksEnd
