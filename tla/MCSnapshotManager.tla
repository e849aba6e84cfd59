-------------------------- MODULE MCSnapshotManager --------------------------
(* Instances of SnapshotManager for TLC. *)
EXTENDS SnapshotManager, TLC

CONSTANTS p1, p2, engine, ctl,
          Crashes, FaultCount, SetActives, Flashes

MCPartitions == {p1, p2}
MCCallers == {engine, ctl}
MCBudget == [k \in {"crash", "fault", "set_active", "flash"} |->
                CASE k = "crash" -> Crashes [] k = "fault" -> FaultCount
                  [] k = "set_active" -> SetActives [] OTHER -> Flashes]
AllFaults == {"unmap", "image", "status", "indicator", "rewrite", "collapse",
              "inner", "table"}
NoFaults == {}
CleanupFaults == {"image", "collapse", "inner", "rewrite"}

PartitionSymmetry == Permutations(MCPartitions)
==============================================================================
