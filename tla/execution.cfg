SPECIFICATION Spec
CONSTANTS
    Pages = {p1, p2}
    Cfgs = {c1, c2}
    Ops = {o1}
    Workers = {w1}
    None = None
    Origin = Origin
    Revs = {1,2,3,4,5,6,7,8,9}
    Images = FALSE
    MaxFaults = 0
    MaxCrashes = 0
CHECK_DEADLOCK FALSE
INVARIANTS
    TypeOK
    LedgerAgrees
    DoneIsStored
    ConfirmedWorkWaits
SYMMETRY Symmetry
