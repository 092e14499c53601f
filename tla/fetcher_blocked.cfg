SPECIFICATION FairSpec
CONSTANTS
    f1 = f1
    f2 = f2
    good = good
    bad = bad
    odd = odd
    gone = gone
    lost = lost
    Fetchers = {f1, f2}
    Documents = {good, bad, odd, gone, lost}
    Log <- BlockedLog
    Source <- MixedSource
    Unversioned = {gone}
    NoFetcher = NoFetcher
    NoDocument = NoDocument
    MaxFaults = 0
    FaultKinds <- NoFaults
CHECK_DEADLOCK FALSE
PROPERTY
    UnreadableIsDeadLettered
