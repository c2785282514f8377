SPECIFICATION DashSpec
CONSTANTS
    Sites = {s1, s2}
    Org = org
    Fields = {a, b}
    Visited = {"SitesIndex", "SiteOverview", "Funnels", "FunnelDetail", "DigestCard", "GeneralCard"}
    Intervals <- MCIntervals
    Latency = 1
    MaxEdits = 2
    MaxMoves = 2
    MaxFaults = 1
INVARIANT RefreshFollowsChoice
INVARIANT SettledIsFresh
INVARIANT CalmChangesAreExact
PROPERTY LivePagesKeepUp
CHECK_DEADLOCK FALSE
