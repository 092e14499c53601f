SPECIFICATION Spec
CONSTANTS
    original = original
    retry = retry
    copy = copy
    update = update
    stranger = stranger
    oversized = oversized
    Requests <- AllRequests
    Tenant <- RequestTenant
    KnownTenants = {"acme"}
    ExternalId <- RequestExternalId
    Sha256 <- RequestSha
    FileName <- RequestFile
    Oversized = {oversized}
    Unnamed = {oversized}
    MaxFaults = 1
    FaultKinds <- EveryFault
CHECK_DEADLOCK FALSE
INVARIANT
    CommittedKeepsSource
