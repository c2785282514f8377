SPECIFICATION Spec
CONSTANTS
    s1 = s1
    k1 = k1
    r1 = r1
    r2 = r2
    a1 = a1
    a2 = a2
    None = None
    SiteKey <- MCSiteKey
    ApiKey <- MCApiKey
    Request <- MCRequest
    Admin <- MCAdmin
    HangUps = TRUE
SYMMETRY Symmetry
INVARIANT RevokedStaysOut
