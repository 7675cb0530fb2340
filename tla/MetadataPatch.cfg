SPECIFICATION Spec
CONSTANTS
    w1 = w1
    w2 = w2
    p1 = p1
    p2 = p2
    Host = Host
    Bytes = {0, 1, 2}
    Escape <- MCEscape
    Illegal = {0}
    Workers = {w1, w2}
    Plans = {p1, p2}
    Radix = 4
    MaxHandles = 2
    EpochSpan = 3
    HostValues <- MCValues
    BorrowedKinds = {"Text"}
    Layouts <- MCLayouts
    MaxPlanId = 2
    MaxSlots = 2
    MaxBatch = 2
SYMMETRY MCSymmetry
INVARIANTS HandlesJudgedRight PayloadsKeepTheirShape
PROPERTY ImplementsForms
