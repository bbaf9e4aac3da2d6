SPECIFICATION ResumeSpec
CONSTANTS
    wide = wide
    narrow = narrow
    None = None
    Failed = Failed
    Configs <- TwoConfigs
    LastFold = 2
    Window = 2
    MaxChanges = 1
    MaxRuns = 3
INVARIANTS
    PriorsAreOwn
SYMMETRY Either
CHECK_DEADLOCK FALSE
