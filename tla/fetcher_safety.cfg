SPECIFICATION FairSpec
CONSTANTS
    f1 = f1
    f2 = f2
    good = good
    bad = bad
    odd = odd
    gone = gone
    lost = lost
    Fetchers = {f1, f2}
    Documents = {good, bad, odd, gone, lost}
    Log <- MixedLog
    Source <- MixedSource
    Unversioned = {gone}
    NoFetcher = NoFetcher
    NoDocument = NoDocument
    MaxFaults = 3
    FaultKinds <- EveryFault
CHECK_DEADLOCK FALSE
INVARIANTS
    TypeOK
    AcknowledgedIsProcessed
    HandoffAgreesWithTables
    OneHandoff
PROPERTIES
    StatusNeverRegresses
    DecidesEachEventOnce
    EveryRecordIsProcessed
