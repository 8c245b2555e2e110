SPECIFICATION Spec
CONSTANTS
    Pages = {p1}
    Cfgs = {c1}
    Ops = {o1}
    Workers = {w1, w2}
    None = None
    Origin = Origin
    Revs = {1,2,3,4,5,6,7,8,9}
    Images = TRUE
    MaxFaults = 0
    MaxCrashes = 1
CHECK_DEADLOCK FALSE
INVARIANTS
    FencedWrites
    CancelSticks
PROPERTIES
    DoneIsFinal
SYMMETRY Symmetry
