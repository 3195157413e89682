\* The lifecycle of one market with two bettors and two windows.  A disputed
\* market at the last timestamp is a state in which nothing more happens.
CONSTANTS
    a1 = a1
    a2 = a2
    Actors = {a1, a2}
    Markets = {m1}
    Windows = {1, 2}
    Validators = {0}
    DisputeIndex = 99
    Orders = {o1, o2}
    Shares = {s1}
    Bonds = {0, 1, 2}
    OutcomeCounts = {1, 2, 3}
    InitialBalance = 2
    MaxTime = 2
SPECIFICATION MarketSpec
SYMMETRY MCSymmetry
CHECK_DEADLOCK FALSE
INVARIANTS
    DisputeRecordKept
PROPERTIES
    MarketLifecycle
    EvidenceFrozen
