SPECIFICATION Spec
CONSTANTS
    Event <- MCEvent
    Partition <- MCPartition
    PartitionOf <- MCPartitionOf
    Input <- MCInput
    FlushRows = 1
    ChanCap = 2
    SegMax = 2
    MaxCrashes = 2
    MaxFaults = 2
INVARIANT NoOtherGap
INVARIANT OneRowPerIncarnation
INVARIANT SurvivesOneCrash
INVARIANT BufferStaysLow
