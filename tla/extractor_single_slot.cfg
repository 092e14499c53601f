SPECIFICATION FairSpec
CONSTANTS
    w1 = w1
    w2 = w2
    p1 = p1
    p2 = p2
    plain = plain
    fickle = fickle
    blank = blank
    broken = broken
    gone = gone
    lost = lost
    Workers = {w1}
    Partitions = {p1, p2}
    Documents = {plain, fickle, blank, broken, gone, lost}
    Log <- PairLog
    Source <- MixedSource
    Unversioned = {gone}
    Release <- OneRelease
    MaxConcurrency = 1
    NoWorker = NoWorker
    NoRelease = NoRelease
    MaxFaults = 1
    FaultKinds <- EveryFault
CHECK_DEADLOCK FALSE
INVARIANTS
    HeldOnlyWhilePaused
    AcknowledgedIsProcessed
PROPERTIES
    EveryRecordIsProcessed
    PauseEnds
