CONSTANTS
    a = a
    b = b
    c = c
    d = d
    e = e
    Newest <- FiveByAge
    Graphs <- FiveGraphs
    Requests <- NarrowWalks
    FetchLimit = 5
    PageSize = 1
    MaxScan = 4
SPECIFICATION Spec
CHECK_DEADLOCK FALSE
INVARIANTS
    CompleteUnlessTold
