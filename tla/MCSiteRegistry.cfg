SPECIFICATION FairSpec
CONSTANTS
    q1 = q1
    q2 = q2
    Writer = Writer
    Pruner = Pruner
    Query <- MCQuery
    Part <- MCPart
    Old <- MCOld
    Faults = TRUE
INVARIANT OnlyOverlapConfuses
PROPERTY FilesBecomeVisible
