CONSTANTS
    v1 = v1
    v2 = v2
    v3 = v3
    p1 = p1
    s1 = s1
    s2 = s2
    Event = {v1, v2, v3}
    App = {p1}
    AppOf <- OneApp
    DayOf <- Days001
    MonthDays = 1
    LastDay = 2
    Exec = {s1, s2}
    MaxManual = 1
    MaxMishaps = 1
    TimeOf <- Ticks012
    TicksPerDay = 1
    RefreshInterval = 1
    Freshness = 1
    ReportDays = 1
    Reports = 2
    LastTick = 1
    Execution = {s1, s2}
    MaxManualRuns = 1
    MaxFailures = 1
SPECIFICATION AfterSpec
CHECK_DEADLOCK FALSE
INVARIANTS
    ScanTypeOK
    OneScan
    NothingSkipped
    LatestIsNewest
    RefreshTypeOK
    OneRefresh
PROPERTIES
    MetadataStays
    EventuallyScanned
    ReportsComplete
    EventuallyReported
