SPECIFICATION RequestFairSpec
CONSTANTS
    Pages = {p1, p2}
    Cfgs = {c1}
    Ops = {o1, o2}
    Workers = {}
    None = None
    Origin = Origin
    Revs = {1,2,3,4,5,6,7,8,9,10,11,12,13,14}
    Images = TRUE
    MaxFaults = 1
    MaxCrashes = 1
CHECK_DEADLOCK FALSE
INVARIANTS
    RowsDoNotMove
    CancelSticks
    YieldsOnlyToRequests
PROPERTIES
    RequestsEnd
