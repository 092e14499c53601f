SPECIFICATION FairSpec
CONSTANTS
    p1 = p1
    p2 = p2
    e1 = e1
    e2 = e2
    e3 = e3
    Publishers = {p1, p2}
    Events = {e1, e2, e3}
    Flaky = {e2, e3}
    BatchSize = 2
    NoWorker = NoWorker
    NoEvent = NoEvent
    MaxFaults = 2
    Workers <- Names
    WorkerName <- SharedName
    FaultKinds <- EveryFault
CHECK_DEADLOCK FALSE
INVARIANTS
    TypeOK
    ClaimsAreExclusive
    HeldRowsAreLocked
    OrphansComeFromDeaths
    DuplicatesNeedFaults
    PublishedHasLeftTheProducer
PROPERTIES
    PublishedIsFinal
    DeliversAtLeastOnce
    PublishedOrLeftBehind
