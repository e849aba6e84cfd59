SPECIFICATION Spec
CONSTANTS
    p1 = p1
    p2 = p2
    engine = engine
    ctl = ctl
    NoCaller = NoCaller
    NoPartition = NoPartition
    Partitions <- MCPartitions
    Callers <- MCCallers
    Engine = engine
    Budget <- MCBudget
    Faults <- CleanupFaults
    TornWrites = TRUE
    Crashes = 2
    FaultCount = 1
    SetActives = 0
    Flashes = 2
SYMMETRY PartitionSymmetry
CHECK_DEADLOCK FALSE
INVARIANT NeedsRebootOnlyWhenMerged
INVARIANT CompletedIsMerged
INVARIANT BootsUntilCommitted
