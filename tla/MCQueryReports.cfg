SPECIFICATION ReportSpec
CONSTANTS
    Value <- MCValue
    Beacon <- MCBeacon
    Time <- MCTime
    TimeRange <- MCTimeRange
    FilterParam <- MCFilterParam
    ListRequest <- MCListRequest
    MAX_FILTERS = 2
    EXPORT_MAX_ROWS = 3
    DayLength = 2
    MaxEvents = 3
    MaxRows = 4
INVARIANT ReportsAgree
INVARIANT TilesAgree
INVARIANT TrendsMatchRows
INVARIANT RestrictionsAgree
PROPERTY ReplayKeepsSessions
