SPECIFICATION DigestSpec
CONSTANTS
    Subscriber <- MCSubscriber
    HoursPerDay = 2
    DueHour = 1
    DaysPerWeek = 1
    DaysPerMonth = 2
    Days = 2
    BounceDisableThreshold = 2
    MaxSlow = 1
    MaxMishaps = 1
    MaxEdits = 2
INVARIANT DigestTypeOK
INVARIANT OneDigestPerDueHour
PROPERTY DigestsKeepComing
PROPERTY DeadSitesAreGivenUp
