SPECIFICATION PublicationFairSpec
CONSTANTS
    incident = incident
    s1 = s1
    s2 = s2
    s3 = s3
    s4 = s4
    None = None
    MaxDay = 2
    Policies <- OnePolicy
    Stamps <- FourStamps
INVARIANTS
    PublicationTypeOK
    PublishedPairMatches
    RecoveryKnowsTheBytes
    HistoryIsKept
    CleanExitIsClean
PROPERTIES
    QuarantineIsEarned
    AtomicPublication
    PendingIsDischarged
CHECK_DEADLOCK FALSE
