SPECIFICATION FairSpec
CONSTANTS
    Event <- MCWideEvent
    Partition <- MCPartition
    PartitionOf <- MCWidePartitionOf
    Input <- MCWideInput
    FlushRows = 1
    ChanCap = 2
    SegMax = 2
    MaxCrashes = 1
    MaxFaults = 0
INVARIANT ExactlyOneCopy
PROPERTY ImplementsDurableLog
PROPERTY LogEventuallyEmpty
