SPECIFICATION Spec
CONSTANTS
    p1 = p1
    p2 = p2
    engine = engine
    ctl = ctl
    NoCaller = NoCaller
    NoPartition = NoPartition
    Partitions <- MCPartitions
    Callers <- MCCallers
    Engine = engine
    Budget <- MCBudget
    Faults <- AllFaults
    TornWrites = FALSE
    Crashes = 2
    FaultCount = 2
    SetActives = 2
    Flashes = 0
SYMMETRY PartitionSymmetry
INVARIANT DeviceBoots
INVARIANT MergeSurvivesReboot
INVARIANT NoLeakedSnapshot
INVARIANT EngineUndisturbed
PROPERTY MergesOnlyInNewSlot
PROPERTY FinishedStaysFinished
PROPERTY ImplementsVirtualAB
