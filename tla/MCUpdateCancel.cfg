SPECIFICATION CancelSpec
CONSTANTS
    ui1 = ui1
    ui2 = ui2
    night = night
    None = None
    UiRuns <- TwoLaunches
    Scheduled <- OneNight
INVARIANTS
    CancelTypeOK
    EvidenceHidesOnlyTheDead
    AnswersAreEarned
CHECK_DEADLOCK FALSE
