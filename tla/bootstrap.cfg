SPECIFICATION FairSpec
CONSTANTS
    initialiser = initialiser
    operator = operator
    kafkaOperator = kafkaOperator
    Runs = {initialiser, operator, kafkaOperator}
    KafkaOnly = {kafkaOperator}
    Topics = {"document.submitted", "document.fetched"}
    Fields <- TwoFields
    Attempts = 2
    MaxFaults = 1
    FaultKinds <- EveryFault
CHECK_DEADLOCK FALSE
INVARIANTS
    TypeOK
    SuccessMeansReady
    UnreadyNeedsFaults
PROPERTIES
    EveryRunEnds
