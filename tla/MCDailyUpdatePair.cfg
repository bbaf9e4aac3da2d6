SPECIFICATION Spec
CONSTANTS
    a = a
    b = b
    NoRun = NoRun
    Runs <- PairRuns
    Needs <- PairNeeds
    Providers <- PairProviders
    ProviderOf <- PairProviderOf
    DumpOf <- PairDumpOf
    RegistryOf <- PairRegistryOf
    AllowHoley <- PairHoley
    Quarantine <- PairQuarantine
    Backfill <- PairBackfill
    Fallible <- PairFallible
INVARIANTS
    TypeOK
    LiveServable
    HolesAreSanctioned
    SuccessIsServed
    RecordsNotAheadOfDisk
PROPERTIES
    ReadersPromise
CHECK_DEADLOCK FALSE
