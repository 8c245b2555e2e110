SPECIFICATION SequentialSpec
CONSTANTS
    Pages = {p1, p2}
    Cfgs = {c1, c2}
    Ops = {o1, o2, o3}
    Workers = {}
    None = None
    Origin = Origin
    Revs = {1,2,3,4,5,6,7,8,9,10,11,12,13,14,15,16,17,18,19}
    Images = TRUE
    MaxFaults = 1
    MaxCrashes = 3
CHECK_DEADLOCK FALSE
INVARIANTS
    HistoryRecoverable
    ConfirmedIsKept
    ErrorMeansUndone
SYMMETRY Symmetry
