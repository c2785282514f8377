SPECIFICATION FairSpec
CONSTANTS
    IngestCap = 2
    BatchSize = 2
    StoreCap = 1
    MaxOffered = 7
    MayDie = TRUE
INVARIANT InOrderOnce
INVARIANT NoGapAtTheWriter
INVARIANT BacklogBound
PROPERTY EventuallyHanded
PROPERTY ShutdownDrains
CHECK_DEADLOCK FALSE
