SPECIFICATION MetaSpec
CONSTANTS
    SiteId <- MCSiteId
    MaxFaults = 1
    MaxEdits = 3
INVARIANT NoStatementIsRefused
INVARIANT StartersAreThere
INVARIANT DeletedStartersStayAway
