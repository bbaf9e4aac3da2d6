SPECIFICATION FairJobSpec
CONSTANTS
    stop1 = stop1
    poll1 = poll1
    delete1 = delete1
    Nobody = Nobody
    Stops <- OneStop
    Polls <- OnePoll
    Deletes <- OneDelete
INVARIANTS
    JobTypeOK
    SuccessIsReal
PROPERTIES
    CasNeverClobbers
    NoLostMerge
    HealthyRunIsNotFailed
    ZombieIsReconciled
CHECK_DEADLOCK FALSE
