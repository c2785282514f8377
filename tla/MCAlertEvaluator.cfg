SPECIFICATION FairSpec
CONSTANTS
    Alerts = 2
    Channel <- MCChannel
    Cooldown = 2
    MaxLag = 1
    MaxMishaps = 1
INVARIANT OneLateAnnouncement
PROPERTY CooldownHolds
PROPERTY AnnouncedAgain
