\* Room for two of three windows, so that windows are evicted and come back.
CONSTANTS
    Keys = {k1, k2, k3}
    Times = {1, 2}
    CloseTimes = {0, 2}
    MaxWindows = 2
    MaxCalls = 3
    MaxObserved = 4
SPECIFICATION MetricsSpec
INVARIANTS
    QueueMatchesMap
    SummaryAgrees
    CommitTimesOrdered
    SnapshotIsComplete
