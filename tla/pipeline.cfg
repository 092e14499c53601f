SPECIFICATION FairSpec
CONSTANTS
    exact = exact
    full = full
    long = long
    huge = huge
    Documents = {exact, full, long, huge}
    Content <- Boundary
    ApiLimit = 5
    FetchLimit = 4
    ExtractLimit = 3
    Chunk = 2
    Framing = 1
    MaxFaults = 2
    FaultKinds <- EveryFault
CHECK_DEADLOCK FALSE
INVARIANTS
    TypeOK
    EndIsDeserved
PROPERTIES
    FollowsLifecycle
    
