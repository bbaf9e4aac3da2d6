SPECIFICATION LedgerFairSpec
CONSTANTS
    Tickers <- TwoTickers
    Window <- ListedFrom
    YearLength = 2
    LastYear = 2
    Trading <- Sessions
    Ranges <- SomeRanges
    MinShort = 1
INVARIANTS
    LedgerTypeOK
    CoverageIsTrue
PROPERTIES
    HistorySurvives
    CoveredHolesAreRetried
    LedgerHeals
CHECK_DEADLOCK FALSE
