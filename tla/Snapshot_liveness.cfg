SPECIFICATION FairSpec
CONSTANTS
    p1 = p1
    p2 = p2
    engine = engine
    ctl = ctl
    NoCaller = NoCaller
    NoPartition = NoPartition
    Partitions <- MCPartitions
    Callers <- MCCallers
    Engine = engine
    Budget <- MCBudget
    Faults <- CleanupFaults
    TornWrites = FALSE
    Crashes = 1
    FaultCount = 1
    SetActives = 0
    Flashes = 0
PROPERTY MergeEnds
