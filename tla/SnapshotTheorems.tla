--------------------------- MODULE SnapshotTheorems ---------------------------
(***************************************************************************)
(* What SnapshotManager promises, for any set of partitions and callers,   *)
(* any faults and any number of crashes.                                   *)
(***************************************************************************)
EXTENDS SnapshotProofs, SnapshotEngineProofs, SnapshotBootProofs

(***************************************************************************)
(* A merge that is over stays over.  AcknowledgeMergeFailure, which takes  *)
(* the lock a second time, reads the state again before it writes; every   *)
(* other writer still holds the lock under which it read the state.        *)
(***************************************************************************)
THEOREM MergeStaysFinished == Spec => FinishedStaysFinished
<1>1. Inv /\ [Next]_vars =>
         [ReadUpdateState = "none" => ReadUpdateState' \in {"none", "initiated"}]_vars
  BY Zenon, FinishedStep
<1>2. FinishedStaysFinished <=>
         [][ReadUpdateState = "none" => ReadUpdateState' \in {"none", "initiated"}]_vars
  BY DEF FinishedStaysFinished
<1> QED BY <1>1, <1>2, Invariance, PTL DEF Spec

(***************************************************************************)
(* A snapshot whose status file says merge-completed may be dropped: the   *)
(* blocks below it are new.  Nothing ever takes them back, whatever else   *)
(* the callers, the kernel and the user do, torn writes included.          *)
(***************************************************************************)
THEOREM CompletedMerged == Spec => []CompletedIsMerged
<1>1. Init => CompletedIsMerged
  BY Zenon DEF Init, CompletedIsMerged
<1>2. Inv /\ CompletedIsMerged /\ [Next]_vars => CompletedIsMerged'
  <2>1. CASE UNCHANGED vars
    BY Zenon, <2>1 DEF vars, CompletedIsMerged
  <2> QED BY <2>1, CompletedStep
<1> QED BY <1>1, <1>2, Invariance, PTL DEF Spec

LEMMA EngineInvariance == Spec => [](Inv /\ EngineInv)
<1>1. Init => Inv /\ EngineInv
  BY InitInv, EngineInitial
<1>2. Inv /\ EngineInv /\ [Next]_vars => Inv' /\ EngineInv'
  BY Zenon, NextInv, EngineNext
<1> QED BY <1>1, <1>2, PTL DEF Spec

(***************************************************************************)
(* While the engine writes its update nobody takes its snapshots away, and *)
(* each device it is given is a snapshot: the other callers only remove    *)
(* what belongs to a merge, or to an update that was finished before.      *)
(***************************************************************************)
THEOREM EngineIsUndisturbed == Spec => []EngineUndisturbed
<1>1. Inv /\ EngineInv => EngineUndisturbed
  <2> SUFFICES ASSUME Inv, EngineInv, session = "created"
               PROVE  /\ ReadUpdateState = "initiated"
                      /\ \A p \in Partitions :
                            /\ status[p] = "created" /\ updated[p]
                            /\ cow[p] \in {"zeroed", "full"}
                            /\ dm[p] \in {"none", "snapshot"}
    BY Zenon DEF EngineUndisturbed
  <2>1. ReadUpdateState = "initiated"
    BY Zenon DEF Inv, CallInv, SessionInv, ReadUpdateState
  <2>2. slot # New
    BY DEF EngineInv, Old, New
  <2> QED BY <2>1, <2>2 DEF EngineInv, DeviceInv
<1> QED BY <1>1, EngineInvariance, PTL

(***************************************************************************)
(* The old slot's blocks are safe while that slot runs: a device in merge  *)
(* mode exists in the new slot only, and a merge is only started there,    *)
(* after the slot was marked successful.                                   *)
(***************************************************************************)
THEOREM MergesInNewSlot == Spec => MergesOnlyInNewSlot
<1> DEFINE A == /\ \A p \in Partitions :
                      base'[p] \in {"mixed", "new"} /\ base'[p] # base[p] => slot = New
                /\ ReadUpdateState = "unverified" /\ ReadUpdateState' \in MergeStates
                      => slot = New /\ successful[New]
<1>1. Inv /\ EngineInv /\ [Next]_vars => [A]_vars
  <2>1. /\ ReadUpdateState = "unverified" => state \notin MergeStates
        /\ ReadUpdateState' \in MergeStates => state' \in MergeStates
    BY Zenon DEF ReadUpdateState, MergeStates
  <2> QED BY <2>1, MergingBlocks, MergeStarts
<1>2. MergesOnlyInNewSlot <=> [][A]_vars
  BY Zenon DEF MergesOnlyInNewSlot
<1> QED BY <1>1, <1>2, EngineInvariance, PTL DEF Spec

(***************************************************************************)
(* The polling loop asks for a reboot only when each snapshot it visited   *)
(* is merged or cancelled: nothing it has passed comes alive again, since  *)
(* the callers that could bring that about wait for the lock it holds.     *)
(***************************************************************************)
THEOREM NeedsRebootMerged == Spec => []NeedsRebootOnlyWhenMerged
<1>1. ASSUME Init PROVE PollInv
  <2>1. /\ \A c \in Callers : call[c].pc = "idle"
        /\ ReadUpdateState = "none"
    BY Zenon, <1>1 DEF Init, Idle, ReadUpdateState
  <2> QED BY Zenon, <2>1 DEF PollInv, PollOK, Polling, Deleting, NeedsRebootOnlyWhenMerged
<1>2. Inv /\ EngineInv /\ PollInv /\ [Next]_vars => PollInv'
  BY Zenon, PollNext
<1>3. PollInv => NeedsRebootOnlyWhenMerged
  BY Zenon DEF PollInv
<1> QED BY <1>1, <1>2, <1>3, EngineInvariance, PTL DEF Spec

(***************************************************************************)
(* Up to the moment the new slot is marked successful, the update can be   *)
(* dropped: nothing is merged, so the old slot boots.  The user must not   *)
(* fall back with fastboot set_active, which un-marks a slot.              *)
(***************************************************************************)
THEOREM BootsBeforeCommit ==
    ASSUME Budget["set_active"] = 0
    PROVE  Spec => []BootsUntilCommitted
<1>1. Init => CommitInv
  BY Zenon DEF Init, CommitInv, MergeStates, Old, New
<1>2. Inv /\ EngineInv /\ CommitInv /\ [Next]_vars => CommitInv'
  BY Zenon, CommitNext
<1>3. ASSUME Inv, CommitInv PROVE BootsUntilCommitted
  <2> SUFFICES ASSUME ~successful[New], \A p \in Partitions : base[p] # "flashed"
               PROVE  DeviceBoots
    BY Zenon DEF BootsUntilCommitted
  <2>1. \A p \in Partitions : base[p] = "old"
    BY Zenon, <1>3 DEF CommitInv, Committed
  <2>2. Boots(Old)
    BY Zenon, <2>1 DEF Boots
  <2>3. active = Old \/ active = New
    BY Zenon, <1>3 DEF Inv, CallInv, TypeOK, Slots
  <2>4. OtherSlot(New) = Old
    BY Zenon DEF OtherSlot, Old, New
  <2> QED BY Zenon, <2>2, <2>3, <2>4 DEF DeviceBoots
<1> QED BY <1>1, <1>2, <1>3, EngineInvariance, PTL DEF Spec

LEMMA MergeInvariance ==
    ASSUME TornWrites = FALSE, Budget["flash"] = 0
    PROVE  Spec => [](Inv /\ EngineInv /\ MergeInv /\ NothingFlashed)
<1>1. Init => MergeInv /\ NothingFlashed
  BY Zenon, MergeInitial DEF Init, NothingFlashed
<1>2. Inv /\ EngineInv /\ MergeInv /\ NothingFlashed /\ [Next]_vars
      => MergeInv' /\ NothingFlashed'
  BY Zenon, MergeNext
<1>3. Spec => [](Inv /\ EngineInv)
  BY Zenon, EngineInvariance
<1> QED BY <1>1, <1>2, <1>3, PTL DEF Spec

(***************************************************************************)
(* For any partitions, callers and faults, and any number of crashes and   *)
(* of fastboot set_active: as long as no write is torn and nothing is      *)
(* flashed, the device boots from whatever a power loss leaves on disk.    *)
(***************************************************************************)
THEOREM DeviceAlwaysBoots ==
    ASSUME TornWrites = FALSE, Budget["flash"] = 0
    PROVE  Spec => []DeviceBoots
<1>1. Inv /\ EngineInv /\ MergeInv => DeviceBoots
  BY Zenon, MergeInvBoots
<1> QED BY <1>1, MergeInvariance, PTL

(***************************************************************************)
(* Under the same assumptions, a partition whose blocks are partly merged  *)
(* is always found by first-stage init with a complete COW and its merge   *)
(* is taken up again.                                                      *)
(***************************************************************************)
THEOREM MergeIsResumed ==
    ASSUME TornWrites = FALSE, Budget["flash"] = 0
    PROVE  Spec => []MergeSurvivesReboot
<1>1. ASSUME Inv, EngineInv, MergeInv
      PROVE  MergeSurvivesReboot
  <2>1. /\ DiskInv /\ indicator \in {"absent", Old} /\ state \in UpdateStates \cup {""}
    BY Zenon, <1>1 DEF MergeInv, EngineInv, Inv, CallInv, TypeOK
  <2>2. ASSUME NEW p \in Partitions, base[p] = "mixed"
        PROVE  FirstStageDevice(p) = "snapshot-merge" /\ cow[p] = "full"
    <3>1. ~AllOld /\ ~Merged(p)
      BY Zenon, <2>2 DEF AllOld, Merged
    <3>2. NewOK
      BY Zenon, <2>1, <3>1, MergedIsOK
    <3> QED BY Zenon, <2>1, <2>2, <3>1, <3>2, FirstStage
  <2> QED BY Zenon, <2>2 DEF MergeSurvivesReboot
<1> QED BY <1>1, MergeInvariance, PTL

(***************************************************************************)
(* As long as no write is torn and nothing is flashed, libsnapshot and the *)
(* boot chain implement VirtualAB: writing the state file begins,          *)
(* finishes, cancels, commits and completes the update, the kernel merges  *)
(* it, and everything else an observer of the disk does not see.           *)
(***************************************************************************)
THEOREM UpdateImplementsVirtualAB ==
    ASSUME TornWrites = FALSE, Budget["flash"] = 0, Partitions # {}
    PROVE  Spec => ImplementsVirtualAB
<1>1. Init => AB!Init
  BY Zenon DEF Init, AB!Init, AB!Old, Old, Phase, ReadUpdateState
<1>2. Inv /\ EngineInv /\ MergeInv /\ NothingFlashed /\ [Next]_vars => [AB!Next]_(AB!vars)
  BY Zenon, NextRefines
<1>3. Spec => [](Inv /\ EngineInv /\ MergeInv /\ NothingFlashed)
  BY Zenon, MergeInvariance
<1>4. ImplementsVirtualAB <=> AB!Init /\ [][AB!Next]_(AB!vars)
  BY DEF ImplementsVirtualAB, AB!Spec
<1> QED BY <1>1, <1>2, <1>3, <1>4, PTL DEF Spec
===============================================================================
