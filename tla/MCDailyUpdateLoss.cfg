SPECIFICATION FairLossSpec
CONSTANTS
    a = a
    b = b
    NoRun = NoRun
    Runs <- LossRuns
    Needs <- LossNeeds
    Providers <- LossProviders
    ProviderOf <- LossProviderOf
    DumpOf <- LossDumpOf
    RegistryOf <- LossRegistryOf
    AllowHoley <- NoRuns
    Quarantine <- NoRuns
    Backfill <- NoRuns
    Fallible <- LossFallible
PROPERTIES
    ServiceRestored
    EveryRunEnds
CHECK_DEADLOCK FALSE
