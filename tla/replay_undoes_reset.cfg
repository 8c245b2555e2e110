SPECIFICATION RequestSpec
CONSTANTS
    Pages = {p1}
    Cfgs = {c1}
    Ops = {o1, o2}
    Workers = {}
    None = None
    Origin = Origin
    Revs = {1,2,3,4,5,6,7,8,9,10,11,12,13,14}
    Images = TRUE
    MaxFaults = 0
    MaxCrashes = 0
CHECK_DEADLOCK FALSE
INVARIANTS
    ConfirmedIsKept
SYMMETRY Symmetry
