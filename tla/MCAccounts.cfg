SPECIFICATION AccountsSpec
CONSTANTS
    h1 = h1
    h2 = h2
    Handler <- MCHandler
    LOGIN_MAX_FAILURES = 2
    LOGIN_WINDOW = 2
    SESSION_TTL = 1
    MaxHashes = 3
    MaxMishaps = 2
INVARIANT FailuresBounded
INVARIANT SessionsFollowThePassword
INVARIANT ServingHasOwner
PROPERTY LimitLifts
