SPECIFICATION Spec
CONSTANTS
    w1 = w1
    w2 = w2
    p1 = p1
    p2 = p2
    plain = plain
    fickle = fickle
    blank = blank
    broken = broken
    gone = gone
    lost = lost
    Workers = {w1, w2}
    Partitions = {p1}
    Documents = {plain, fickle, blank, broken, gone, lost}
    Log <- RowLog
    Source <- MixedSource
    Unversioned = {gone}
    Release <- OneRelease
    MaxConcurrency = 2
    NoWorker = NoWorker
    NoRelease = NoRelease
    MaxFaults = 1
    FaultKinds <- CrashOnly
CHECK_DEADLOCK FALSE
INVARIANT
    AcknowledgedIsProcessed
