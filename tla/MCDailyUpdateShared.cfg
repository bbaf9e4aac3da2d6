SPECIFICATION Spec
CONSTANTS
    a = a
    b = b
    NoRun = NoRun
    Runs <- SharedRuns
    Needs <- SharedNeeds
    Providers <- SharedProviders
    ProviderOf <- SharedProviderOf
    DumpOf <- SharedDumpOf
    RegistryOf <- SharedRegistryOf
    AllowHoley <- NoRuns
    Quarantine <- NoRuns
    Backfill <- SharedBackfill
    Fallible <- PairFallible
INVARIANTS
    BuiltFromOwnInputs
CHECK_DEADLOCK FALSE
