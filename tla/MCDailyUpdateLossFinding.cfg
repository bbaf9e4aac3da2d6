SPECIFICATION LossSpec
CONSTANTS
    a = a
    b = b
    NoRun = NoRun
    Runs <- LossRuns
    Needs <- LossNeeds
    Providers <- LossProviders
    ProviderOf <- LossProviderOf
    DumpOf <- LossDumpOf
    RegistryOf <- LossRegistryOf
    AllowHoley <- NoRuns
    Quarantine <- NoRuns
    Backfill <- NoRuns
    Fallible <- LossRuns
PROPERTIES
    CompletionProvesValidation
CHECK_DEADLOCK FALSE
