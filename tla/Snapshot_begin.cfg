SPECIFICATION Spec
CONSTANTS
    p1 = p1
    p2 = p2
    engine = engine
    ctl = ctl
    NoCaller = NoCaller
    NoPartition = NoPartition
    Partitions <- MCPartitions
    Callers <- MCCallers
    Engine = engine
    Budget <- MCBudget
    Faults <- NoFaults
    TornWrites = FALSE
    Crashes = 0
    FaultCount = 0
    SetActives = 0
    Flashes = 0
SYMMETRY PartitionSymmetry
PROPERTY BeginFailsUnlessNone
