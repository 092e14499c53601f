SPECIFICATION Spec
CONSTANTS
    p1 = p1
    p2 = p2
    e1 = e1
    e2 = e2
    e3 = e3
    Publishers = {p1, p2}
    Events = {e1, e2, e3}
    Flaky = {e3}
    BatchSize = 1
    NoWorker = NoWorker
    NoEvent = NoEvent
    MaxFaults = 1
    Workers <- Names
    WorkerName <- SharedName
    FaultKinds <- RefusedOnly
CHECK_DEADLOCK FALSE
INVARIANT
    PublishedIsInKafka
