-------------------------- MODULE SnapshotBootProofs --------------------------
(***************************************************************************)
(* Steps of SnapshotManager keep the device bootable, and are steps of the *)
(* abstract virtual A/B update or leave it alone.                          *)
(***************************************************************************)
EXTENDS SnapshotEffects

(***************************************************************************)
(* Without torn writes and flashing, every partition is in the new slot    *)
(* either merged or seen through a complete snapshot.                      *)
(***************************************************************************)
Merged(p) == base[p] = "new" /\ status[p] \in {"absent", "merge-completed"}

Live(p) == updated[p] /\ status[p] \in {"created", "merging"} /\ cow[p] = "full"

AllOld == \A p \in Partitions : base[p] = "old"

AllMerged == \A p \in Partitions : Merged(p)

(* The new slot boots. *)
NewOK ==
    /\ state \notin MergeStates \cup {"unverified"} => AllMerged
    /\ state = "unverified" =>
          (indicator = Old \/ AllMerged) /\ \A p \in Partitions : Live(p)

HolderMergeOK(r) ==
    /\ Removing(r) => AllMerged \/ (slot = Old /\ state \notin MergeStates)
    /\ Polling(r) => /\ \A p \in Dropped(r) : Merged(p)
                     /\ r.pc # "CheckTargetMergeState" => Merged(r.cur)

DiskInv ==
    /\ state \notin MergeStates => AllOld \/ AllMerged
    /\ state = "unverified" => AllOld
    /\ state \in {"merging", "merge-failed"} =>
          /\ indicator = Old \/ AllMerged
          /\ \A p \in Partitions : Merged(p) \/ Live(p)
    /\ state = "merge-needs-reboot" => AllMerged

SlotInv ==
    /\ slot = Old => AllOld
    /\ slot = New => active = New /\ NewOK
    /\ slot = Old /\ active = New => ~successful[New]
    /\ active = Old /\ ~AllOld => ~successful[Old]
    /\ active = New /\ successful[New] => NewOK

NewDeviceInv ==
    slot = New => \A p \in Partitions :
        /\ dm[p] \in {"linear", "collapsed"} => base[p] = "new"
        /\ dm[p] = "snapshot" => base[p] = "old"
        /\ dm[p] = "snapshot-merge" => state \in MergeStates \/ AllMerged

MergeInv ==
    /\ DiskInv /\ SlotInv /\ NewDeviceInv
    /\ \A c \in Callers : HolderMergeOK(call[c])

(* MergeInv is inductive. *)

(* A caller that takes a step holds the lock, or nobody does. *)
LEMMA StepLock ==
    ASSUME Inv, NEW c \in Callers, Step(c)
    PROVE  lock \in {c, NoCaller}
<1>1. ASSUME call[c].pc \in LockedLabels
      PROVE  lock \in {c, NoCaller}
  BY <1>1 DEF Inv, CallInv, LockInv
<1>2. ASSUME call[c].pc \notin LockedLabels
      PROVE  LockedBriefly \/ Locked(c)
  <2>1. CASE TryCancelUpdate(c) \/ CheckMergeState(c) \/ InitiateMerge(c)
    BY <2>1 DEF TryCancelUpdate, CheckMergeState, InitiateMerge
  <2>2. CASE WriteInitiated(c) \/ AcknowledgeMergeFailure(c)
    BY <2>2 DEF WriteInitiated, AcknowledgeMergeFailure
  <2>3. CASE ~(\/ TryCancelUpdate(c) \/ CheckMergeState(c) \/ InitiateMerge(c)
               \/ WriteInitiated(c) \/ AcknowledgeMergeFailure(c))
    <3>1. call[c].pc \in LockedLabels
      BY Zenon, <2>3 DEF Step, RemoveSnapshotBootIndicator, WriteNone, DeleteBackingImage,
         RemoveStatusFile, OnSnapshotMergeComplete, MergeDecision, WriteMerging,
         MergeInitiated, WriteIndicator, WriteUnverified, CreateSnapshot, CreateCowImage,
         ZeroFillCows, UpdatePartitionTable, AutoDeleteSnapshot, RemoveSnapshot,
         CheckTargetMergeState, SwitchSnapshotToMerge, DeleteExistingSnapshot,
         InitializeCow, At, LockedLabels, Deleting
    <3> QED BY <1>2, <3>1
  <2> QED BY <2>1, <2>2, <2>3
<1> QED BY <1>1, <1>2 DEF LockedBriefly, Locked

(* So nobody else is in the middle of removing or polling snapshots. *)
LEMMA StepMerges ==
    ASSUME Inv, NEW c \in Callers, Step(c), NEW r, Become(c, r),
           HolderMergeOK(r)', DiskInv', SlotInv', NewDeviceInv'
    PROVE  MergeInv'
<1>1. lock \in {c, NoCaller} /\ LockInv /\ NoCaller \notin Callers
  BY StepLock, SnapshotAssumption DEF Inv, CallInv
<1>2. call'[c] = r /\ \A d \in Callers \ {c} : call'[d] = call[d]
  BY OtherCalls
<1>3. ASSUME NEW d \in Callers, d # c
      PROVE  HolderMergeOK(call[d])'
  <2>1. call'[d].pc \notin LockedLabels
    BY Zenon, <1>1, <1>2, <1>3 DEF LockInv
  <2>2. ~Removing(call'[d]) /\ ~Polling(call'[d])
    BY <2>1 DEF Removing, Polling, LockedLabels, Deleting
  <2> QED BY <2>2 DEF HolderMergeOK
<1>4. HolderMergeOK(call[c])'
  BY <1>2 DEF HolderMergeOK, Dropped
<1> QED BY <1>3, <1>4 DEF MergeInv

(* The variables that MergeInv speaks of, but for the calls. *)
mergeVars == <<state, indicator, status, cow, base, updated, active, successful, slot, dm>>

LEMMA SameMerge ==
    ASSUME UNCHANGED mergeVars, DiskInv, SlotInv, NewDeviceInv
    PROVE  DiskInv' /\ SlotInv' /\ NewDeviceInv'
<1>1. DiskInv'
  BY DEF mergeVars, DiskInv, AllOld, AllMerged, Merged, Live
<1>2. SlotInv'
  BY DEF mergeVars, SlotInv, NewOK, AllOld, AllMerged, Merged, Live
<1>3. NewDeviceInv'
  BY DEF mergeVars, NewDeviceInv, AllMerged, Merged
<1> QED BY Zenon, <1>1, <1>2, <1>3

LEMMA QuietMerge ==
    ASSUME Inv, MergeInv, NEW c \in Callers, NEW r, Become(c, r), UNCHANGED mergeVars,
           HolderMergeOK(r)
    PROVE  MergeInv'
<1>1. call'[c] = r /\ \A d \in Callers \ {c} : call'[d] = call[d]
  BY OtherCalls
<1>2. UNCHANGED <<state, status, base, slot>>
  BY Zenon DEF mergeVars
<1>3. ASSUME NEW d \in Callers
      PROVE  HolderMergeOK(call[d])'
  <2>1. HolderMergeOK(call'[d])
    BY <1>1 DEF MergeInv
  <2> QED BY Zenon, <1>2, <2>1 DEF HolderMergeOK, AllMerged, Merged, Dropped
<1>4. DiskInv' /\ SlotInv' /\ NewDeviceInv'
  BY SameMerge DEF MergeInv
<1> QED BY <1>3, <1>4 DEF MergeInv

(* A step in the old slot, before any merge, that leaves the blocks alone. *)
LEMMA OldSlotMerge ==
    ASSUME Inv, MergeInv, slot = Old, slot' = Old, base' = base,
           UNCHANGED <<active, successful>>,
           state' \notin MergeStates
    PROVE  DiskInv' /\ SlotInv' /\ NewDeviceInv'
<1>1. AllOld /\ SlotInv /\ (active = New => ~successful[New])
  BY DEF MergeInv, SlotInv
<1>2. AllOld'
  BY <1>1 DEF AllOld
<1>3. DiskInv'
  BY <1>2 DEF DiskInv, MergeStates
<1>4. SlotInv'
  BY <1>1, <1>2 DEF SlotInv, Old, New
<1>5. NewDeviceInv'
  BY DEF NewDeviceInv, Old, New
<1> QED BY Zenon, <1>3, <1>4, <1>5

(* The caller of a step runs in one of the two slots. *)
LEMMA StepAwake ==
    ASSUME Inv, NEW c \in Callers, Step(c)
    PROVE  slot = Old \/ slot = New
<1>1. call[c].pc # "idle"
  BY Zenon DEF Step, At, TryCancelUpdate, RemoveSnapshotBootIndicator, WriteNone,
     WriteInitiated, DeleteBackingImage, RemoveStatusFile, CheckMergeState,
     OnSnapshotMergeComplete, MergeDecision, AcknowledgeMergeFailure, InitiateMerge,
     WriteMerging, MergeInitiated, WriteIndicator, WriteUnverified, CreateSnapshot,
     CreateCowImage, ZeroFillCows, UpdatePartitionTable, AutoDeleteSnapshot,
     RemoveSnapshot, CheckTargetMergeState, SwitchSnapshotToMerge,
     DeleteExistingSnapshot, InitializeCow
<1>2. slot \in Slots \cup {Off}
  BY Zenon, CallerFacts DEF RestTypeOK
<1> QED BY Zenon, <1>1, <1>2 DEF Inv, OffInv, Slots

(* What is known of a caller that takes a step. *)
LEMMA MergeFacts ==
    ASSUME Inv, EngineInv, MergeInv, NEW c \in Callers, Step(c)
    PROVE  /\ slot = Old \/ slot = New
           /\ DiskInv /\ SlotInv /\ NewDeviceInv /\ HolderMergeOK(call[c])
           /\ call[c] \in Calls /\ call[c].todo \in SUBSET Partitions
           /\ HolderOK(c, call[c], state, session)
           /\ indicator \in {"absent", Old}
           /\ DOMAIN status = Partitions /\ DOMAIN cow = Partitions /\ DOMAIN dm = Partitions
           /\ (call[c].pc \in Deleting => call[c].deleter \in Deleters)
           /\ call[c].pc \in Deleting \cup {"OnSnapshotMergeComplete", "CreateSnapshot",
                                            "CreateCowImage"} => call[c].cur \in Partitions
<1>1. slot = Old \/ slot = New
  BY Zenon, StepAwake
<1>2. /\ call[c] \in Calls /\ call[c].todo \in SUBSET Partitions
      /\ DOMAIN status = Partitions /\ DOMAIN cow = Partitions /\ DOMAIN dm = Partitions
      /\ (call[c].pc \in Deleting => call[c].deleter \in Deleters)
      /\ call[c].pc \in Deleting \cup {"OnSnapshotMergeComplete", "CreateSnapshot",
                                       "CreateCowImage"} => call[c].cur \in Partitions
  BY CallFacts
<1>3. HolderOK(c, call[c], state, session)
  BY CallerFacts
<1> QED BY <1>1, <1>2, <1>3 DEF MergeInv, EngineInv

(* The first step of a removal: what is removed is merged, or never was used. *)
LEMMA RemovalStarts ==
    ASSUME Inv, MergeInv, indicator \in {"absent", Old}, slot = Old \/ slot = New,
           \/ state \in {"initiated", "none", ""}
           \/ state = "unverified" /\ indicator \in {"absent", slot}
    PROVE  AllMerged \/ (slot = Old /\ state \notin MergeStates)
  BY Zenon DEF MergeInv, SlotInv, NewOK, MergeStates, Old, New

LEMMA StartingMerge ==
    ASSUME Inv, EngineInv, MergeInv, NEW c \in Callers, Step(c),
           TryCancelUpdate(c) \/ CheckMergeState(c) \/ InitiateMerge(c)
    PROVE  MergeInv'
<1>1. /\ slot = Old \/ slot = New
      /\ call[c] \in Calls /\ indicator \in {"absent", Old} /\ DiskInv
  BY Zenon, MergeFacts
<1>2. UNCHANGED mergeVars
  BY Zenon, <1>1, TryCancelEffect, CheckMergeStateEffect, InitiateMergeEffect DEF mergeVars, disk
<1>3. CASE TryCancelUpdate(c)
  <2>1. PICK r : /\ Become(c, r)
                 /\ \/ r.pc \in {"idle", "WriteInitiated", "CheckMergeState"}
                    \/ CanCancel /\ r.pc = "RemoveAllSnapshots"
    BY <1>1, <1>3, TryCancelEffect
  <2>2. CanCancel => AllMerged \/ (slot = Old /\ state \notin MergeStates)
    BY Zenon, <1>1, RemovalStarts DEF CanCancel, ReadUpdateState
  <2>3. HolderMergeOK(r)
    BY <2>1, <2>2 DEF HolderMergeOK, Removing, Polling, Deleting
  <2> QED BY Zenon, <1>2, <2>1, <2>3, QuietMerge
<1>4. CASE CheckMergeState(c)
  <2>1. PICK r : /\ Become(c, r)
                 /\ \/ r.pc \in {"idle", "WriteInitiated"}
                    \/ /\ state = "unverified" /\ indicator = slot
                       /\ r.pc = "RemoveAllSnapshots"
                    \/ /\ state \in MergeStates /\ r.pc = "CheckTargetMergeState"
                       /\ r.todo = ListSnapshots /\ r.seen = {}
    BY Zenon, <1>1, <1>4, CheckMergeStateEffect
  <2>2. CASE r.pc # "CheckTargetMergeState"
    <3>1. r.pc = "RemoveAllSnapshots" => AllMerged \/ (slot = Old /\ state \notin MergeStates)
      BY Zenon, <1>1, <2>1, RemovalStarts
    <3>2. HolderMergeOK(r)
      BY Zenon, <2>1, <2>2, <3>1 DEF HolderMergeOK, Removing, Polling, Deleting
    <3> QED BY Zenon, <1>2, <2>1, <3>2, QuietMerge
  <2>3. CASE r.pc = "CheckTargetMergeState"
    <3>1. \A p \in Partitions : status[p] = "absent" => Merged(p)
      BY Zenon, <1>1, <2>1, <2>3 DEF DiskInv, AllMerged, Live, MergeStates
    <3>2. \A p \in Dropped(r) : Merged(p)
      BY Zenon, <2>1, <2>3, <3>1 DEF Dropped, ListSnapshots
    <3>3. HolderMergeOK(r)
      BY Zenon, <2>3, <3>2 DEF HolderMergeOK, Removing, Deleting
    <3> QED BY Zenon, <1>2, <2>1, <3>3, QuietMerge
  <2> QED BY Zenon, <2>2, <2>3
<1>5. CASE InitiateMerge(c)
  <2>1. PICK r : Become(c, r) /\ r.pc \in {"idle", "WriteMerging"}
    BY Zenon, <1>1, <1>5, InitiateMergeEffect
  <2>2. HolderMergeOK(r)
    BY <2>1 DEF HolderMergeOK, Removing, Polling, Deleting
  <2> QED BY Zenon, <1>2, <2>1, <2>2, QuietMerge
<1> QED BY Zenon, <1>3, <1>4, <1>5

(* Once everything is merged, neither the indicator nor the state matters. *)
LEMMA AllMergedMerge ==
    ASSUME AllMerged, UNCHANGED <<status, cow, base, updated, active, successful, slot>>,
           DiskInv, SlotInv, NewDeviceInv,
           state' \in {state, "none"} \cup MergeStates,
           slot = New => \A p \in Partitions : dm'[p] = dm[p] \/ dm'[p] \in {"none", "linear", "collapsed"}
    PROVE  AllMerged' /\ DiskInv' /\ SlotInv' /\ NewDeviceInv'
<1>1. AllMerged'
  BY Zenon DEF AllMerged, Merged
<1>2. DiskInv'
  BY Zenon, <1>1 DEF DiskInv, AllMerged, AllOld, MergeStates
<1>3. NewOK => NewOK'
  BY Zenon, <1>1 DEF NewOK, MergeStates, Live
<1>4. SlotInv'
  BY Zenon, <1>3 DEF SlotInv, AllOld
<1>5. NewDeviceInv'
  BY Zenon, <1>1 DEF NewDeviceInv, AllMerged, Merged
<1> QED BY Zenon, <1>1, <1>2, <1>4, <1>5

LEMMA RemovingMerge ==
    ASSUME Inv, EngineInv, MergeInv, NEW c \in Callers, Step(c),
           \/ RemoveSnapshotBootIndicator(c) \/ WriteNone(c)
           \/ \E p \in Partitions : RemoveSnapshot(c, p)
    PROVE  MergeInv'
<1>1. /\ slot = Old \/ slot = New
      /\ call[c] \in Calls /\ HolderMergeOK(call[c]) /\ DOMAIN dm = Partitions
      /\ DiskInv /\ SlotInv /\ NewDeviceInv
  BY Zenon, MergeFacts
<1>2. /\ UNCHANGED <<status, cow, base, updated, active, successful, slot>>
      /\ state' \in {state, "none"} /\ Removing(call[c])
      /\ slot = New => dm' = dm
  <2>1. CASE RemoveSnapshotBootIndicator(c)
    BY Zenon, <1>1, <2>1, RemoveIndicatorEffect DEF Removing
  <2>2. CASE WriteNone(c)
    BY Zenon, <1>1, <2>2, WriteNoneEffect DEF Removing
  <2>3. ASSUME NEW p \in Partitions, RemoveSnapshot(c, p)
        PROVE  /\ UNCHANGED <<status, cow, base, updated, active, successful, slot>>
               /\ state' \in {state, "none"} /\ Removing(call[c])
               /\ slot = New => dm' = dm
    <3>1. dm' = dm \/ (CanUnmapSnapshot(p) /\ dm' = [dm EXCEPT ![p] = "none"])
      BY Zenon, <1>1, <2>3, RemoveSnapshotEffect
    <3>2. slot = New => dm' = dm
      <4>1. dm = [q \in Partitions |-> dm[q]]
        BY Zenon DEF Inv, CallInv, TypeOK
      <4> QED BY Zenon, <3>1, <4>1 DEF CanUnmapSnapshot
    <3> QED BY Zenon, <1>1, <2>3, <3>2, RemoveSnapshotEffect DEF disk, Removing
  <2> QED BY Zenon, <2>1, <2>2, <2>3
<1>3. PICK r : Become(c, r) /\ (r.pc \in {"idle", "WriteInitiated"} \/ Removing(r))
  <2>1. CASE RemoveSnapshotBootIndicator(c) \/ WriteNone(c)
    BY Zenon, <1>1, <2>1, RemoveIndicatorEffect, WriteNoneEffect DEF Removing
  <2>2. CASE \E p \in Partitions : RemoveSnapshot(c, p)
    BY <1>1, <2>2, RemoveSnapshotEffect DEF Removing, Deleting
  <2> QED BY Zenon, <2>1, <2>2
<1>4. ~Polling(r)
  BY <1>3 DEF Polling, Removing, Deleting
<1>5. CASE AllMerged
  <2>1. AllMerged' /\ DiskInv' /\ SlotInv' /\ NewDeviceInv'
    BY Zenon, <1>1, <1>2, <1>5, AllMergedMerge
  <2>2. HolderMergeOK(r)'
    BY Zenon, <1>4, <2>1 DEF HolderMergeOK
  <2> QED BY Zenon, <1>3, <2>1, <2>2, StepMerges
<1>6. CASE slot = Old /\ state \notin MergeStates
  <2>1. state' \notin MergeStates /\ slot' = Old
    BY Zenon, <1>2, <1>6 DEF MergeStates
  <2>2. DiskInv' /\ SlotInv' /\ NewDeviceInv'
    BY Zenon, <1>2, <1>6, <2>1, OldSlotMerge
  <2>3. HolderMergeOK(r)'
    BY Zenon, <1>4, <2>1 DEF HolderMergeOK
  <2> QED BY Zenon, <1>3, <2>2, <2>3, StepMerges
<1> QED BY Zenon, <1>1, <1>2, <1>5, <1>6 DEF HolderMergeOK

(* Deleting the snapshot of a partition that is merged. *)
LEMMA MergedDeletion ==
    ASSUME DiskInv, SlotInv, NewDeviceInv, NEW p \in Partitions, Merged(p),
           DOMAIN status = Partitions, DOMAIN cow = Partitions,
           AllMerged \/ state \in MergeStates,
           UNCHANGED <<state, indicator, base, updated, active, successful, slot, dm>>,
           \/ cow' = cow /\ \E s \in {status[p], "absent", "merge-completed"} :
                               status' = [status EXCEPT ![p] = s]
           \/ status' = status /\ cow' = [cow EXCEPT ![p] = "absent"]
           \/ status' = status /\ cow' = cow
    PROVE  /\ DiskInv' /\ SlotInv' /\ NewDeviceInv'
           /\ \A q \in Partitions : Merged(q) => Merged(q)'
<1>1. /\ \A q \in Partitions : Merged(q) => Merged(q)'
      /\ \A q \in Partitions \ {p} : Live(q) => Live(q)'
  BY DEF Merged, Live
<1>2. Merged(p)' /\ ~Live(p)
  BY Zenon, <1>1 DEF Merged, Live
<1>3. AllMerged => AllMerged'
  BY Zenon, <1>1 DEF AllMerged
<1>4. DiskInv'
  BY Zenon, <1>1, <1>2, <1>3 DEF DiskInv, AllOld
<1>5. NewOK => NewOK'
  BY Zenon, <1>2, <1>3 DEF NewOK
<1>6. SlotInv'
  BY Zenon, <1>5 DEF SlotInv, AllOld
<1>7. NewDeviceInv'
  BY <1>3 DEF NewDeviceInv
<1> QED BY Zenon, <1>1, <1>4, <1>6, <1>7

LEMMA DeletingMerge ==
    ASSUME Inv, EngineInv, MergeInv, NEW c \in Callers, Step(c),
           DeleteBackingImage(c) \/ RemoveStatusFile(c)
    PROVE  MergeInv'
<1>1. call[c].pc \in Deleting
  BY Zenon DEF DeleteBackingImage, RemoveStatusFile, At, Deleting
<1>2. /\ slot = Old \/ slot = New
      /\ DiskInv /\ SlotInv /\ NewDeviceInv /\ HolderMergeOK(call[c])
      /\ call[c] \in Calls /\ DOMAIN status = Partitions /\ DOMAIN cow = Partitions
      /\ HolderOK(c, call[c], state, session)
      /\ call[c].deleter \in Deleters /\ call[c].cur \in Partitions
  BY Zenon, <1>1, MergeFacts
<1>3. /\ UNCHANGED <<state, indicator, base, updated, active, successful, slot, dm>>
      /\ \/ cow' = cow /\ status' = [status EXCEPT ![call[c].cur] = "absent"]
         \/ status' = status /\ cow' = [cow EXCEPT ![call[c].cur] = "absent"]
         \/ status' = status /\ cow' = cow
      /\ \E r : Become(c, r) /\ DeletesOn(c, r)
                /\ (Removing(call[c]) \/ Polling(call[c]) \/ Creating(call[c]))
  <2>1. CASE DeleteBackingImage(c)
    BY Zenon, <1>2, <2>1, DeleteBackingImageEffect
  <2>2. CASE RemoveStatusFile(c)
    BY Zenon, <1>2, <2>2, RemoveStatusFileEffect
  <2> QED BY Zenon, <2>1, <2>2
<1>4. PICK r : Become(c, r) /\ DeletesOn(c, r)
               /\ (Removing(call[c]) \/ Polling(call[c]) \/ Creating(call[c]))
  BY Zenon, <1>3
<1>5. ASSUME Merged(call[c].cur), AllMerged \/ state \in MergeStates
      PROVE  /\ DiskInv' /\ SlotInv' /\ NewDeviceInv'
             /\ \A q \in Partitions : Merged(q) => Merged(q)'
  BY Zenon, <1>2, <1>3, <1>5, MergedDeletion
<1>6. ASSUME slot = Old, state \notin MergeStates
      PROVE  DiskInv' /\ SlotInv' /\ NewDeviceInv' /\ slot' = Old /\ state' \notin MergeStates
  BY Zenon, <1>3, <1>6, OldSlotMerge
<1>7. CASE Removing(call[c])
  <2>1. ~Polling(r)
    BY Zenon, <1>4, <1>7 DEF DeletesOn, Removing, Polling, Deleting
  <2>2. CASE AllMerged
    <3>1. DiskInv' /\ SlotInv' /\ NewDeviceInv' /\ \A q \in Partitions : Merged(q)'
      BY Zenon, <1>2, <1>5, <2>2 DEF AllMerged
    <3>2. HolderMergeOK(r)'
      BY Zenon, <2>1, <3>1 DEF HolderMergeOK, AllMerged
    <3> QED BY Zenon, <1>4, <3>1, <3>2, StepMerges
  <2>3. CASE slot = Old /\ state \notin MergeStates
    <3>1. HolderMergeOK(r)'
      BY Zenon, <1>6, <2>1, <2>3 DEF HolderMergeOK
    <3> QED BY Zenon, <1>4, <1>6, <2>3, <3>1, StepMerges
  <2> QED BY Zenon, <1>2, <1>7, <2>2, <2>3 DEF HolderMergeOK
<1>8. CASE Polling(call[c])
  <2>1. state \in MergeStates
    BY Zenon, <1>2, <1>8 DEF HolderOK
  <2>2. Merged(call[c].cur) /\ \A p \in Dropped(call[c]) : Merged(p)
    BY Zenon, <1>1, <1>2, <1>8 DEF HolderMergeOK, Deleting
  <2>3. /\ DiskInv' /\ SlotInv' /\ NewDeviceInv'
        /\ \A q \in Partitions : Merged(q) => Merged(q)'
    BY Zenon, <1>5, <2>1, <2>2
  <2>4. /\ \A p \in Dropped(r) : p \in Partitions /\ (p \in Dropped(call[c]) \/ p = call[c].cur)
        /\ r.pc # "CheckTargetMergeState" => r.cur = call[c].cur
        /\ ~Removing(r)
    BY Zenon, <1>4, <1>8 DEF DeletesOn, Dropped, Removing, Polling, Deleting
  <2>5. \A p \in Dropped(r) : Merged(p)'
    BY Zenon, <2>2, <2>3, <2>4
  <2>6. r.pc # "CheckTargetMergeState" => Merged(r.cur)'
    BY Zenon, <1>2, <2>2, <2>3, <2>4
  <2>7. HolderMergeOK(r)'
    BY Zenon, <2>4, <2>5, <2>6 DEF HolderMergeOK, Dropped
  <2> QED BY Zenon, <1>4, <2>3, <2>7, StepMerges
<1>9. CASE Creating(call[c])
  <2>1. slot = Old /\ state \notin MergeStates
    BY Zenon, <1>2, <1>9 DEF EngineInv, CreationOK, HolderOK, MergeStates
  <2>2. ~Removing(r) /\ ~Polling(r)
    BY Zenon, <1>4, <1>9 DEF DeletesOn, Removing, Polling, Deleting
  <2>3. HolderMergeOK(r)'
    BY <2>2 DEF HolderMergeOK
  <2> QED BY Zenon, <1>4, <1>6, <2>1, <2>3, StepMerges
<1> QED BY Zenon, <1>4, <1>7, <1>8, <1>9

LEMMA PollingMerge ==
    ASSUME Inv, EngineInv, MergeInv, NEW c \in Callers, Step(c),
           NEW p \in Partitions, CheckTargetMergeState(c, p)
    PROVE  MergeInv'
<1>1. /\ DiskInv /\ SlotInv /\ NewDeviceInv /\ HolderMergeOK(call[c])
      /\ call[c] \in Calls /\ DOMAIN status = Partitions /\ DOMAIN cow = Partitions
      /\ HolderOK(c, call[c], state, session)
  BY Zenon, MergeFacts
<1>2. /\ UNCHANGED <<state, indicator, cow, base, updated, active, successful, slot, dm>>
      /\ call[c].pc = "CheckTargetMergeState" /\ p \in call[c].todo
  BY Zenon, <1>1, CheckTargetEffect
<1>3. PICK r : /\ Become(c, r)
               /\ \/ /\ UNCHANGED status /\ r.pc = "CheckTargetMergeState"
                     /\ r.todo = call[c].todo \ {p}
                     /\ {"merging", "failed"} \cap r.seen # {}
                  \/ /\ UNCHANGED status /\ r.pc = "DeleteBackingImage"
                     /\ r.cur = p /\ r.deleter \in {"Cancelled", "MergedBefore"}
                     /\ r.todo = call[c].todo /\ r.seen = call[c].seen
                     /\ IsCancelledSnapshot(p) \/ status[p] = "merge-completed"
                  \/ /\ WriteSnapshotStatus(p, "merge-completed")
                     /\ base[p] = "new" /\ r.pc = "OnSnapshotMergeComplete"
                     /\ r.cur = p /\ r.todo = call[c].todo /\ r.seen = call[c].seen
  BY Zenon, <1>1, CheckTargetEffect
<1>4. state \in MergeStates /\ \A q \in Dropped(call[c]) : Merged(q)
  BY Zenon, <1>1, <1>2 DEF HolderOK, HolderMergeOK, Polling
<1>5. ~Removing(r)
  BY Zenon, <1>3 DEF Removing, Deleting
<1>6. CASE status' = status
  <2>1. UNCHANGED mergeVars
    BY Zenon, <1>2, <1>6 DEF mergeVars
  <2>2. IsCancelledSnapshot(p) \/ status[p] = "merge-completed" => Merged(p)
    BY Zenon, <1>1, <1>4
       DEF DiskInv, MergeStates, AllMerged, Live, IsCancelledSnapshot
  <2>3. HolderMergeOK(r)
    <3>1. CASE r.pc = "CheckTargetMergeState"
      <4>1. Dropped(r) = {}
        BY Zenon, <1>3, <3>1 DEF Dropped
      <4> QED BY Zenon, <1>5, <3>1, <4>1 DEF HolderMergeOK
    <3>2. CASE r.pc # "CheckTargetMergeState"
      <4>1. Dropped(r) = Dropped(call[c])
        BY Zenon, <1>3, <3>2 DEF Dropped
      <4>2. r.cur = p /\ (IsCancelledSnapshot(p) \/ status[p] = "merge-completed"
                          \/ Merged(p))
        <5>1. CASE UNCHANGED status /\ r.pc = "DeleteBackingImage"
          BY Zenon, <1>3, <5>1
        <5>2. CASE WriteSnapshotStatus(p, "merge-completed")
          <6>1. status'[p] = "merge-completed"
            BY Zenon, <1>1, <5>2 DEF WriteSnapshotStatus
          <6> QED BY Zenon, <1>3, <1>6, <3>2, <6>1
        <5> QED BY Zenon, <1>3, <3>2, <5>1, <5>2
      <4> QED BY Zenon, <1>4, <1>5, <2>2, <4>1, <4>2 DEF HolderMergeOK
    <3> QED BY Zenon, <3>1, <3>2
  <2> QED BY Zenon, <1>3, <2>1, <2>3, QuietMerge
<1>7. CASE status' # status
  <2>1. /\ status' = [status EXCEPT ![p] = "merge-completed"] /\ base[p] = "new"
        /\ r.cur = p /\ Dropped(r) = Dropped(call[c])
    BY Zenon, <1>3, <1>7 DEF WriteSnapshotStatus, Dropped
  <2>2. /\ \A q \in Partitions : Merged(q) => Merged(q)'
        /\ \A q \in Partitions \ {p} : Live(q) => Live(q)'
        /\ Merged(p)'
    BY Zenon, <1>1, <1>2, <2>1 DEF Merged, Live
  <2>3. AllMerged => AllMerged'
    BY Zenon, <2>2 DEF AllMerged
  <2>4. DiskInv'
    BY Zenon, <1>1, <1>2, <2>2, <2>3 DEF DiskInv, AllOld
  <2>5. SlotInv'
    BY Zenon, <1>1, <1>2, <1>4 DEF SlotInv, NewOK, AllOld, MergeStates
  <2>6. NewDeviceInv'
    BY Zenon, <1>1, <1>2, <2>3 DEF NewDeviceInv
  <2>7. Dropped(r) \subseteq Partitions
    BY Zenon DEF Dropped
  <2>8. \A q \in Dropped(r) : Merged(q)'
    BY Zenon, <1>4, <2>1, <2>2, <2>7
  <2>9. HolderMergeOK(r)'
    BY Zenon, <1>5, <2>1, <2>2, <2>8 DEF HolderMergeOK, Dropped
  <2> QED BY Zenon, <1>3, <2>4, <2>5, <2>6, <2>9, StepMerges
<1> QED BY Zenon, <1>6, <1>7

(* A merge goes on, fails or ends with a reboot to come. *)
LEMMA StillMerging ==
    ASSUME DiskInv, SlotInv, NewDeviceInv, state \in MergeStates,
           UNCHANGED <<indicator, status, cow, base, updated, active, successful, slot>>,
           \/ state' = state
           \/ state' = "merge-failed"
           \/ state' = "merge-needs-reboot" /\ AllMerged,
           slot = New => \A p \in Partitions :
                            dm'[p] = dm[p] \/ (dm'[p] \in {"linear", "collapsed"} /\ base[p] = "new")
    PROVE  DiskInv' /\ SlotInv' /\ NewDeviceInv' /\ \A p \in Partitions : Merged(p) => Merged(p)'
<1>1. /\ \A p \in Partitions : Merged(p) => Merged(p)'
      /\ \A p \in Partitions : Live(p) => Live(p)'
      /\ AllMerged => AllMerged'
  BY Zenon DEF Merged, Live, AllMerged
<1>2. state' \in MergeStates
  BY Zenon DEF MergeStates
<1>3. /\ indicator = Old \/ AllMerged
      /\ \A p \in Partitions : Merged(p) \/ Live(p)
      /\ state = "merge-needs-reboot" => AllMerged
  BY Zenon DEF DiskInv, MergeStates, AllMerged
<1>4. DiskInv'
  BY Zenon, <1>1, <1>2, <1>3 DEF DiskInv, MergeStates
<1>5. SlotInv'
  BY Zenon, <1>2 DEF SlotInv, NewOK, AllOld, MergeStates
<1>6. NewDeviceInv'
  BY Zenon, <1>2 DEF NewDeviceInv
<1> QED BY Zenon, <1>1, <1>4, <1>5, <1>6

LEMMA CollapsingMerge ==
    ASSUME Inv, EngineInv, MergeInv, NEW c \in Callers, Step(c), OnSnapshotMergeComplete(c)
    PROVE  MergeInv'
<1>1. /\ DiskInv /\ SlotInv /\ NewDeviceInv /\ HolderMergeOK(call[c])
      /\ call[c] \in Calls /\ DOMAIN dm = Partitions
      /\ HolderOK(c, call[c], state, session)
  BY Zenon, MergeFacts
<1>2. /\ UNCHANGED <<state, indicator, status, cow, base, updated, active, successful, slot>>
      /\ call[c].pc = "OnSnapshotMergeComplete"
      /\ \/ dm' = dm
         \/ \E d \in {"linear", "collapsed"} : dm' = [dm EXCEPT ![call[c].cur] = d]
  BY Zenon, <1>1, MergeCompleteEffect DEF disk
<1>3. PICK r : Become(c, r) /\ DeletesOn(c, r)
  BY Zenon, <1>1, MergeCompleteEffect
<1>4. /\ Polling(call[c]) /\ state \in MergeStates /\ Merged(call[c].cur)
      /\ \A p \in Dropped(call[c]) : Merged(p)
  BY <1>1, <1>2 DEF Polling, HolderOK, HolderMergeOK
<1>5. \A p \in Partitions : dm'[p] = dm[p]
                            \/ (dm'[p] \in {"linear", "collapsed"} /\ base[p] = "new")
  BY Zenon, <1>1, <1>2, <1>4 DEF Merged
<1>6. DiskInv' /\ SlotInv' /\ NewDeviceInv' /\ \A p \in Partitions : Merged(p) => Merged(p)'
  BY Zenon, <1>1, <1>2, <1>4, <1>5, StillMerging
<1>7. /\ \A p \in Dropped(r) : p \in Partitions /\ (p \in Dropped(call[c]) \/ p = call[c].cur)
      /\ r.pc # "CheckTargetMergeState" => r.cur = call[c].cur
      /\ ~Removing(r)
  BY Zenon, <1>3, <1>4 DEF DeletesOn, Dropped, Removing, Polling, Deleting
<1>8. call[c].cur \in Partitions
  BY Zenon, <1>2, MergeFacts
<1>9. (\A p \in Dropped(r) : Merged(p)') /\ (r.pc # "CheckTargetMergeState" => Merged(r.cur)')
  BY Zenon, <1>4, <1>6, <1>7, <1>8
<1>10. HolderMergeOK(r)'
  BY Zenon, <1>7, <1>9 DEF HolderMergeOK, Dropped
<1> QED BY Zenon, <1>3, <1>6, <1>10, StepMerges

LEMMA DecisionMerge ==
    ASSUME Inv, EngineInv, MergeInv, NEW c \in Callers, Step(c), MergeDecision(c)
    PROVE  MergeInv'
<1>1. /\ DiskInv /\ SlotInv /\ NewDeviceInv /\ HolderMergeOK(call[c])
      /\ call[c] \in Calls /\ HolderOK(c, call[c], state, session)
  BY Zenon, MergeFacts
<1>2. /\ UNCHANGED <<indicator, status, cow, base, updated, active, successful, slot, dm>>
      /\ call[c].pc = "CheckTargetMergeState"
  BY Zenon, <1>1, MergeDecisionEffect
<1>3. PICK r : /\ Become(c, r)
               /\ \/ /\ UNCHANGED state
                     /\ r.pc \in {"CheckMergeState", "AcknowledgeMergeFailure"}
                  \/ /\ call[c].todo = {}
                     /\ {"merging", "failed"} \cap call[c].seen = {}
                     /\ \/ /\ state' = "merge-needs-reboot"
                           /\ r.pc \in {"idle", "WriteInitiated"}
                        \/ UNCHANGED state /\ r.pc = "RemoveAllSnapshots"
  BY Zenon, <1>1, MergeDecisionEffect
<1>4. state \in MergeStates /\ \A p \in Dropped(call[c]) : Merged(p)
  BY Zenon, <1>1, <1>2 DEF Polling, HolderOK, HolderMergeOK
<1>5. call[c].todo = {} /\ {"merging", "failed"} \cap call[c].seen = {} => AllMerged
  BY Zenon, <1>4 DEF Dropped, AllMerged
<1>6. DiskInv' /\ SlotInv' /\ NewDeviceInv' /\ \A p \in Partitions : Merged(p) => Merged(p)'
  BY Zenon, <1>1, <1>2, <1>3, <1>4, <1>5, StillMerging
<1>7. AllMerged => AllMerged'
  BY Zenon, <1>6 DEF AllMerged
<1>8. HolderMergeOK(r)'
  BY Zenon, <1>3, <1>5, <1>7 DEF HolderMergeOK, Removing, Polling, Deleting
<1> QED BY Zenon, <1>3, <1>6, <1>8, StepMerges

(* A call that neither removes nor polls snapshots. *)
LEMMA OtherMergeOK ==
    ASSUME NEW r, ~Removing(r), ~Polling(r)
    PROVE  HolderMergeOK(r)'
  BY DEF HolderMergeOK

LEMMA FailingMerge ==
    ASSUME Inv, EngineInv, MergeInv, NEW c \in Callers, Step(c),
           AcknowledgeMergeFailure(c) \/ MergeInitiated(c)
    PROVE  MergeInv'
<1>1. /\ DiskInv /\ SlotInv /\ NewDeviceInv
      /\ call[c] \in Calls /\ HolderOK(c, call[c], state, session)
  BY Zenon, MergeFacts
<1>2. UNCHANGED <<indicator, status, cow, base, updated, active, successful, slot, dm>>
  BY Zenon, AcknowledgeEffect, MergeInitiatedEffect
<1>3. PICK r : Become(c, r) /\ r.pc \in {"idle", "WriteInitiated", "CheckMergeState"}
  BY Zenon, AcknowledgeEffect, MergeInitiatedEffect
<1>4. ~Removing(r) /\ ~Polling(r)
  BY <1>3 DEF Removing, Polling, Deleting
<1>5. state' = state \/ (state \in MergeStates /\ state' = "merge-failed")
  <2>1. CASE AcknowledgeMergeFailure(c)
    BY Zenon, <2>1, AcknowledgeEffect DEF MergeStates
  <2>2. CASE MergeInitiated(c)
    BY Zenon, <1>1, <2>2, MergeInitiatedEffect DEF HolderOK, MergeStates
  <2> QED BY Zenon, <2>1, <2>2
<1>6. CASE state' = state
  <2>1. UNCHANGED mergeVars
    BY Zenon, <1>2, <1>6 DEF mergeVars
  <2>2. HolderMergeOK(r)
    BY Zenon, <1>4 DEF HolderMergeOK
  <2> QED BY Zenon, <1>3, <2>1, <2>2, QuietMerge
<1>7. CASE state \in MergeStates /\ state' = "merge-failed"
  <2>1. DiskInv' /\ SlotInv' /\ NewDeviceInv'
    BY Zenon, <1>1, <1>2, <1>7, StillMerging
  <2> QED BY Zenon, <1>3, <1>4, <2>1, OtherMergeOK, StepMerges
<1> QED BY Zenon, <1>5, <1>6, <1>7

LEMMA BeginningMerge ==
    ASSUME Inv, EngineInv, MergeInv, NEW c \in Callers, Step(c), WriteInitiated(c)
    PROVE  MergeInv'
<1>1. DiskInv /\ SlotInv /\ NewDeviceInv
  BY Zenon, MergeFacts
<1>2. UNCHANGED <<indicator, status, cow, base, updated, active, successful, slot, dm>>
  BY DEF WriteInitiated, system
<1>3. state' = state \/ (state \in {"", "none"} /\ state' = "initiated")
  BY Zenon DEF WriteInitiated, ReadUpdateState
<1>4. PICK r : Become(c, r) /\ r.pc = "idle"
  BY Zenon, IdleResult DEF WriteInitiated
<1>5. ~Removing(r) /\ ~Polling(r)
  BY <1>4 DEF Removing, Polling, Deleting
<1>6. CASE state' = state
  <2>1. UNCHANGED mergeVars
    BY Zenon, <1>2, <1>6 DEF mergeVars
  <2>2. HolderMergeOK(r)
    BY Zenon, <1>5 DEF HolderMergeOK
  <2> QED BY Zenon, <1>4, <2>1, <2>2, QuietMerge
<1>7. CASE state \in {"", "none"} /\ state' = "initiated"
  <2>1. (AllMerged => AllMerged') /\ (AllOld => AllOld')
    BY <1>2 DEF AllMerged, AllOld, Merged
  <2>2. DiskInv'
    BY Zenon, <1>1, <1>7, <2>1 DEF DiskInv, MergeStates
  <2>3. NewOK => NewOK'
    BY Zenon, <1>7, <2>1 DEF NewOK, MergeStates
  <2>4. SlotInv'
    BY Zenon, <1>1, <1>2, <2>1, <2>3 DEF SlotInv
  <2>5. NewDeviceInv'
    BY Zenon, <1>1, <1>2, <1>7, <2>1 DEF NewDeviceInv, MergeStates
  <2> QED BY Zenon, <1>4, <1>5, <2>2, <2>4, <2>5, OtherMergeOK, StepMerges
<1> QED BY Zenon, <1>3, <1>6, <1>7

LEMMA CommittingMerge ==
    ASSUME Inv, EngineInv, MergeInv, NEW c \in Callers, Step(c), WriteMerging(c)
    PROVE  MergeInv'
<1>1. /\ DiskInv /\ SlotInv /\ NewDeviceInv
      /\ call[c] \in Calls /\ HolderOK(c, call[c], state, session)
  BY Zenon, MergeFacts
<1>2. /\ UNCHANGED <<indicator, status, cow, base, updated, active, successful, slot, dm>>
      /\ call[c].pc = "WriteMerging" /\ state' = "merging"
  BY Zenon, <1>1, WriteMergingEffect
<1>3. PICK r : Become(c, r) /\ r.pc = "SwitchSnapshotToMerge"
  BY Zenon, <1>1, WriteMergingEffect
<1>4. ~Removing(r) /\ ~Polling(r)
  BY Zenon, <1>3 DEF Removing, Polling, Deleting
<1>5. slot = New /\ state = "unverified" /\ state' \in MergeStates
  BY Zenon, <1>1, <1>2 DEF EngineInv, StarterOK, HolderOK, MergeStates
<1>6. (indicator = Old \/ AllMerged) /\ \A p \in Partitions : Live(p)
  BY Zenon, <1>1, <1>5 DEF SlotInv, NewOK
<1>7. /\ AllMerged => AllMerged'
      /\ \A p \in Partitions : Live(p)'
      /\ AllOld => AllOld'
  BY Zenon, <1>2, <1>6 DEF AllMerged, AllOld, Merged, Live
<1>8. DiskInv'
  BY Zenon, <1>2, <1>6, <1>7 DEF DiskInv, MergeStates
<1>9. SlotInv'
  BY Zenon, <1>1, <1>2, <1>5, <1>7 DEF SlotInv, NewOK, MergeStates
<1>10. NewDeviceInv'
  BY Zenon, <1>1, <1>2, <1>5 DEF NewDeviceInv
<1> QED BY Zenon, <1>3, <1>4, <1>8, <1>9, <1>10, OtherMergeOK, StepMerges

LEMMA SwitchingMerge ==
    ASSUME Inv, EngineInv, MergeInv, NEW c \in Callers, Step(c),
           NEW p \in Partitions, SwitchSnapshotToMerge(c, p)
    PROVE  MergeInv'
<1>1. /\ DiskInv /\ SlotInv /\ NewDeviceInv
      /\ DOMAIN status = Partitions /\ DOMAIN dm = Partitions
      /\ call[c] \in Calls /\ HolderOK(c, call[c], state, session)
  BY Zenon, MergeFacts
<1>2. /\ UNCHANGED <<state, indicator, cow, base, updated, active, successful, slot>>
      /\ call[c].pc = "SwitchSnapshotToMerge"
      /\ \/ UNCHANGED <<dm, status>>
         \/ /\ dm[p] = "snapshot" /\ dm' = [dm EXCEPT ![p] = "snapshot-merge"]
            /\ status' = status \/ status' = [status EXCEPT ![p] = "merging"]
  BY Zenon, <1>1, SwitchEffect DEF WriteSnapshotStatus
<1>3. PICK r : Become(c, r) /\ r.pc = "SwitchSnapshotToMerge"
  BY Zenon, <1>1, SwitchEffect
<1>4. ~Removing(r) /\ ~Polling(r)
  BY <1>3 DEF Removing, Polling, Deleting
<1>5. slot = New /\ state = "merging" /\ state' = "merging"
  BY Zenon, <1>1, <1>2 DEF EngineInv, StarterOK, HolderOK
<1>6. CASE UNCHANGED <<dm, status>>
  <2>1. UNCHANGED mergeVars
    BY Zenon, <1>2, <1>6 DEF mergeVars
  <2>2. HolderMergeOK(r)
    BY Zenon, <1>4 DEF HolderMergeOK
  <2> QED BY Zenon, <1>3, <2>1, <2>2, QuietMerge
<1>7. CASE /\ dm[p] = "snapshot" /\ dm' = [dm EXCEPT ![p] = "snapshot-merge"]
           /\ status' = status \/ status' = [status EXCEPT ![p] = "merging"]
  <2>1. base[p] = "old"
    BY Zenon, <1>1, <1>5, <1>7 DEF NewDeviceInv
  <2>2. ~Merged(p) /\ ~AllMerged
    BY Zenon, <2>1 DEF Merged, AllMerged
  <2>3. indicator = Old /\ \A q \in Partitions : Merged(q) \/ Live(q)
    BY Zenon, <1>1, <1>5, <2>2 DEF DiskInv
  <2>4. \A q \in Partitions : Merged(q)' \/ Live(q)'
    BY Zenon, <1>1, <1>2, <1>7, <2>2, <2>3 DEF Merged, Live
  <2>5. DiskInv'
    BY Zenon, <1>2, <1>5, <2>3, <2>4 DEF DiskInv, MergeStates
  <2>6. SlotInv'
    BY Zenon, <1>1, <1>2, <1>5 DEF SlotInv, NewOK, AllOld, MergeStates
  <2>7. NewDeviceInv'
    BY Zenon, <1>1, <1>2, <1>5, <1>7 DEF NewDeviceInv, MergeStates
  <2> QED BY Zenon, <1>3, <1>4, <2>5, <2>6, <2>7, OtherMergeOK, StepMerges
<1> QED BY Zenon, <1>2, <1>6, <1>7

LEMMA PreparingMerge ==
    ASSUME Inv, EngineInv, MergeInv, NEW c \in Callers, Step(c),
           \/ WriteIndicator(c) \/ WriteUnverified(c) \/ CreateSnapshot(c)
           \/ CreateCowImage(c) \/ ZeroFillCows(c) \/ UpdatePartitionTable(c)
           \/ AutoDeleteSnapshot(c)
           \/ \E p \in Partitions : DeleteExistingSnapshot(c, p) \/ InitializeCow(c, p)
    PROVE  MergeInv'
<1>1. /\ call[c] \in Calls /\ HolderOK(c, call[c], state, session)
      /\ call[c].todo \in SUBSET Partitions
  BY Zenon, MergeFacts
<1>2. \/ Creating(call[c])
      \/ call[c].pc \in {"WriteIndicator", "WriteUnverified"}
  BY Zenon DEF WriteIndicator, WriteUnverified, CreateSnapshot, CreateCowImage, ZeroFillCows,
         UpdatePartitionTable, AutoDeleteSnapshot, DeleteExistingSnapshot, InitializeCow, At,
         Creating, Looping
<1>3. slot = Old /\ state = "initiated"
  BY Zenon, <1>1, <1>2 DEF EngineInv, CreationOK, HolderOK
<1>4. UNCHANGED <<base, active, successful, slot>> /\ state' \in {state, "unverified"}
  BY Zenon DEF WriteIndicator, WriteUnverified, CreateSnapshot, CreateCowImage, ZeroFillCows,
         UpdatePartitionTable, AutoDeleteSnapshot, DeleteExistingSnapshot, InitializeCow,
         system, disk
<1>5. DiskInv' /\ SlotInv' /\ NewDeviceInv'
  BY Zenon, <1>3, <1>4, OldSlotMerge DEF MergeStates
<1>6. PICK r : Become(c, r) /\ ~Removing(r) /\ ~Polling(r)
  <2>1. CASE WriteIndicator(c)
    <3>1. Goto(c, "WriteUnverified")
      BY <2>1 DEF WriteIndicator
    <3> QED BY <1>1, <3>1, GotoResult DEF Removing, Polling, Deleting
  <2>2. CASE WriteUnverified(c)
    BY <2>2, IdleResult DEF WriteUnverified, Removing, Polling, Deleting
  <2>3. CASE CreateSnapshot(c)
    BY Zenon, <1>1, <2>3, CreateSnapshotEffect DEF Removing, Polling, Deleting
  <2>4. CASE CreateCowImage(c)
    BY Zenon, <1>1, <2>4, CreateCowEffect DEF Removing, Polling, Deleting
  <2>5. CASE ZeroFillCows(c) \/ UpdatePartitionTable(c)
    BY Zenon, <1>1, <2>5, ZeroFillEffect, UpdateTableEffect DEF Removing, Polling, Deleting
  <2>6. CASE AutoDeleteSnapshot(c)
    BY Zenon, <1>1, <2>6, AutoDeleteEffect DEF Removing, Polling, Deleting
  <2>7. ASSUME NEW p \in Partitions, DeleteExistingSnapshot(c, p)
        PROVE  \E r : Become(c, r) /\ ~Removing(r) /\ ~Polling(r)
    BY Zenon, <1>1, <2>7, DeleteExistingEffect DEF Removing, Polling, Deleting
  <2>8. ASSUME NEW p \in Partitions, InitializeCow(c, p)
        PROVE  \E r : Become(c, r) /\ ~Removing(r) /\ ~Polling(r)
    BY Zenon, <1>1, <2>8, InitializeCowEffect DEF Removing, Polling, Deleting
  <2> QED BY Zenon, <2>1, <2>2, <2>3, <2>4, <2>5, <2>6, <2>7, <2>8
<1> QED BY Zenon, <1>5, <1>6, OtherMergeOK, StepMerges

LEMMA StepMerge ==
    ASSUME Inv, EngineInv, MergeInv, NEW c \in Callers, Step(c)
    PROVE  MergeInv'
  BY Zenon, StartingMerge, RemovingMerge, DeletingMerge, PollingMerge, CollapsingMerge,
     DecisionMerge, FailingMerge, BeginningMerge, CommittingMerge, SwitchingMerge,
     PreparingMerge DEF Step

LEMMA RequestMerge ==
    ASSUME Inv, EngineInv, MergeInv, NEW c \in Callers, Request(c)
    PROVE  MergeInv'
<1>1. UNCHANGED mergeVars
  BY Zenon, RequestEffect DEF mergeVars, disk
<1>2. PICK r : /\ Become(c, r)
               /\ r.pc \in {"idle", "TryCancelUpdate", "ForEachPartition",
                            "WriteIndicator", "InitiateMerge", "CheckMergeState"}
  BY Zenon, RequestEffect
<1>3. HolderMergeOK(r)
  BY <1>2 DEF HolderMergeOK, Removing, Polling, Deleting
<1> QED BY Zenon, <1>1, <1>2, <1>3, QuietMerge

(* The callers' part of MergeInv, when the calls stay as they are. *)
LEMMA SameCallers ==
    ASSUME MergeInv, UNCHANGED <<call, state, status, base, slot>>
    PROVE  \A c \in Callers : HolderMergeOK(call[c])'
<1>1. (AllMerged <=> AllMerged') /\ \A p : Merged(p) <=> Merged(p)'
  BY DEF AllMerged, Merged
<1>2. ASSUME NEW c \in Callers
      PROVE  HolderMergeOK(call[c])'
  <2>1. HolderMergeOK(call[c])
    BY DEF MergeInv
  <2> QED BY Zenon, <1>1, <2>1 DEF HolderMergeOK, Dropped
<1> QED BY Zenon, <1>2

(* Outside the new slot, only slots and COWs of an update that is not used. *)
LEMMA WorkMerge ==
    ASSUME Inv, EngineInv, MergeInv, EngineWork
    PROVE  MergeInv'
<1>1. /\ slot = Old /\ UNCHANGED <<call, state, status, base, slot, indicator, updated>>
      /\ DiskInv /\ SlotInv
  BY Zenon DEF EngineWork, SetActiveBootSlot, MapUpdateSnapshot, UnmapUpdateSnapshot, WriteUpdate,
         EngineInv, system, disk, MergeInv
<1>2. AllOld /\ AllOld'
  BY Zenon, <1>1 DEF SlotInv, AllOld
<1>3. NewDeviceInv'
  BY Zenon, <1>1 DEF NewDeviceInv, Old, New
<1>4. CASE SetActiveBootSlot
  <2>1. /\ active' = New /\ successful'[New] = FALSE /\ cow' = cow
    <3>1. DOMAIN successful = Slots
      BY Zenon DEF Inv, CallInv, TypeOK
    <3> QED BY Zenon, <1>4, <3>1 DEF SetActiveBootSlot, Slots, disk
  <2>2. DiskInv'
    BY Zenon, <1>1, <2>1 DEF DiskInv, AllOld, AllMerged, Merged, Live
  <2>3. SlotInv'
    BY Zenon, <1>1, <1>2, <2>1 DEF SlotInv, Old, New
  <2> QED BY Zenon, <1>1, <1>3, <2>2, <2>3, SameCallers DEF MergeInv
<1>5. CASE \E p \in Partitions : MapUpdateSnapshot(p) \/ UnmapUpdateSnapshot(p)
  <2>1. UNCHANGED <<active, successful, cow>>
    BY Zenon, <1>5 DEF MapUpdateSnapshot, UnmapUpdateSnapshot, disk, system
  <2>2. DiskInv'
    BY Zenon, <1>1, <2>1 DEF DiskInv, AllOld, AllMerged, Merged, Live
  <2>3. SlotInv'
    BY Zenon, <1>1, <1>2, <2>1 DEF SlotInv, Old, New
  <2> QED BY Zenon, <1>1, <1>3, <2>2, <2>3, SameCallers DEF MergeInv
<1>6. CASE \E p \in Partitions : WriteUpdate(p)
  <2>1. UNCHANGED <<active, successful>> /\ session = "created"
    BY Zenon, <1>6 DEF WriteUpdate, system
  <2>2. state' \notin MergeStates
    BY Zenon, <1>1, <2>1 DEF Inv, CallInv, SessionInv, MergeStates
  <2>3. DiskInv' /\ SlotInv' /\ NewDeviceInv'
    BY Zenon, <1>1, <2>1, <2>2, OldSlotMerge
  <2> QED BY Zenon, <1>1, <2>3, SameCallers DEF MergeInv
<1> QED BY Zenon, <1>4, <1>5, <1>6 DEF EngineWork

(* Booting. *)

(***************************************************************************)
(* The device that first-stage init creates for a partition of the new     *)
(* slot shows the new image: the base blocks when they are merged, or the  *)
(* snapshot, in merge mode as soon as the merge has begun.                 *)
(***************************************************************************)
LEMMA FirstStage ==
    ASSUME DiskInv, NewOK, indicator \in {"absent", Old}, state \in UpdateStates \cup {""},
           NEW p \in Partitions
    PROVE  \/ FirstStageDevice(p) = "linear" /\ Merged(p)
           \/ FirstStageDevice(p) = "snapshot" /\ base[p] = "old" /\ cow[p] = "full"
           \/ /\ FirstStageDevice(p) = "snapshot-merge" /\ cow[p] = "full"
              /\ state \in MergeStates
<1>1. NeedSnapshotsInFirstStageMount(New) <=>
        indicator = Old /\ state \in {"unverified", "merging", "merge-failed"}
  BY Zenon DEF NeedSnapshotsInFirstStageMount, ReadUpdateState, Old, New
<1>2. Merged(p) => FirstStageDevice(p) = "linear"
  BY Zenon DEF FirstStageDevice, MapPartitionWithSnapshot, HasLiveSnapshot, Merged
<1>3. CASE state \notin {"unverified", "merging", "merge-failed"}
  <2>1. Merged(p)
    BY Zenon, <1>3 DEF NewOK, DiskInv, MergeStates, AllMerged
  <2> QED BY Zenon, <1>2, <2>1
<1>4. CASE state \in {"unverified", "merging", "merge-failed"} /\ ~Merged(p)
  <2>1. indicator = Old /\ Live(p)
    BY Zenon, <1>4 DEF NewOK, DiskInv, AllMerged
  <2>2. HasLiveSnapshot(p) /\ MapCowDevices(p) /\ cow[p] = "full"
    BY Zenon, <2>1 DEF Live, HasLiveSnapshot, MapCowDevices
  <2>3. FirstStageDevice(p) = SnapshotMode
    BY Zenon, <1>1, <1>4, <2>1, <2>2 DEF FirstStageDevice, MapPartitionWithSnapshot, ReadUpdateState
  <2>4. CASE state = "unverified"
    BY Zenon, <2>2, <2>3, <2>4 DEF SnapshotMode, ReadUpdateState, DiskInv, AllOld
  <2>5. CASE state # "unverified"
    BY Zenon, <1>4, <2>2, <2>3, <2>5 DEF SnapshotMode, ReadUpdateState, MergeStates
  <2> QED BY Zenon, <2>4, <2>5
<1> QED BY Zenon, <1>2, <1>3, <1>4

LEMMA NewBoots ==
    ASSUME DiskInv, NewOK, indicator \in {"absent", Old}, state \in UpdateStates \cup {""}
    PROVE  Boots(New)
<1>1. ASSUME NEW p \in Partitions
      PROVE  CASE FirstStageDevice(p) = "linear" -> base[p] \in {"new", "flashed"}
               [] FirstStageDevice(p) = "none" -> FALSE
               [] OTHER -> cow[p] = "full"
  BY Zenon, FirstStage DEF Merged
<1> QED BY Zenon, <1>1 DEF Boots, Old, New

LEMMA BootedIsOK ==
    ASSUME Inv, DiskInv, Boots(New), indicator \in {"absent", Old}
    PROVE  NewOK
<1>1. /\ state \in UpdateStates \cup {""}
      /\ \A p \in Partitions : status[p] \in StatusStates
  BY Zenon DEF Inv, CallInv, TypeOK
<1>2. \A p \in Partitions :
        CASE FirstStageDevice(p) = "linear" -> base[p] \in {"new", "flashed"}
          [] FirstStageDevice(p) = "none" -> FALSE
          [] OTHER -> cow[p] = "full"
  BY DEF Boots, Old, New
<1>3. ASSUME state \notin MergeStates \cup {"unverified"}
      PROVE  AllMerged
  <2>1. ~NeedSnapshotsInFirstStageMount(New)
    BY Zenon, <1>1, <1>3 DEF NeedSnapshotsInFirstStageMount, ReadUpdateState, MergeStates
  <2>2. \A p \in Partitions : base[p] \in {"new", "flashed"}
    BY Zenon, <1>2, <2>1 DEF FirstStageDevice
  <2> QED BY <1>3, <2>2 DEF DiskInv, AllOld, AllMerged
<1>4. ASSUME state = "unverified"
      PROVE  (indicator = Old \/ AllMerged) /\ \A p \in Partitions : Live(p)
  <2>1. ASSUME NEW p \in Partitions
        PROVE  indicator = Old /\ Live(p)
    <3>1. base[p] = "old" /\ status[p] \in StatusStates
      BY Zenon, <1>1, <1>4 DEF DiskInv, AllOld
    <3>2. FirstStageDevice(p) # "linear"
      BY <1>2, <3>1
    <3>3. NeedSnapshotsInFirstStageMount(New) /\ HasLiveSnapshot(p)
      BY <3>2 DEF FirstStageDevice, MapPartitionWithSnapshot
    <3>4. cow[p] = "full"
      BY Zenon, <1>2, <3>2
    <3> QED BY Zenon, <3>1, <3>3, <3>4
            DEF NeedSnapshotsInFirstStageMount, HasLiveSnapshot, Live, StatusStates
  <2> QED BY Zenon, <2>1 DEF AllMerged
<1> QED BY Zenon, <1>3, <1>4 DEF NewOK

(* A device with some merged block boots the new slot, any other the old. *)
LEMMA MergedIsOK ==
    ASSUME DiskInv, ~AllOld
    PROVE  NewOK
  BY Zenon DEF DiskInv, NewOK

(* Callers that all are idle hold nothing. *)
LEMMA IdleMerge ==
    ASSUME \A c \in Callers : call'[c].pc = "idle", DiskInv', SlotInv', NewDeviceInv'
    PROVE  MergeInv'
  BY Zenon DEF MergeInv, HolderMergeOK, Removing, Polling, Deleting

LEMMA BootMerge ==
    ASSUME Inv, EngineInv, MergeInv, Boot
    PROVE  MergeInv'
<1>1. /\ slot = Off /\ UNCHANGED <<state, indicator, status, cow, base, updated, call,
                                   successful>>
      /\ DiskInv /\ SlotInv /\ indicator \in {"absent", Old}
      /\ state \in UpdateStates \cup {""} /\ active \in Slots
  BY Zenon DEF Boot, disk, MergeInv, EngineInv, Inv, CallInv, TypeOK
<1>2. \A c \in Callers : call'[c].pc = "idle"
  BY Zenon, <1>1 DEF Inv, OffInv
<1>3. (NewOK => NewOK') /\ (AllOld <=> AllOld') /\ (AllMerged => AllMerged')
  BY Zenon, <1>1 DEF NewOK, AllOld, AllMerged, Merged, Live
<1>4. DiskInv'
  BY Zenon, <1>1 DEF DiskInv, AllOld, AllMerged, Merged, Live
<1>5. CASE /\ Boots(active) /\ slot' = active /\ active' = active
           /\ dm' = [p \in Partitions |->
                        IF active = New THEN FirstStageDevice(p) ELSE "none"]
  <2>1. active = Old => AllOld
    BY <1>5 DEF Boots, AllOld
  <2>2. active = New => NewOK
    BY Zenon, <1>1, <1>5, BootedIsOK
  <2>3. SlotInv'
    BY Zenon, <1>1, <1>3, <1>5, <2>1, <2>2 DEF SlotInv, Slots, Old, New
  <2>4. ASSUME active = New, NEW p \in Partitions
        PROVE  /\ dm'[p] \in {"linear", "collapsed"} => base'[p] = "new"
               /\ dm'[p] = "snapshot" => base'[p] = "old"
               /\ dm'[p] = "snapshot-merge" => state' \in MergeStates
    <3>1. dm'[p] = FirstStageDevice(p)
      BY <1>5, <2>4
    <3>2. \/ FirstStageDevice(p) = "linear" /\ Merged(p)
          \/ FirstStageDevice(p) = "snapshot" /\ base[p] = "old"
          \/ FirstStageDevice(p) = "snapshot-merge" /\ state \in MergeStates
      BY Zenon, <1>1, <2>2, <2>4, FirstStage
    <3> QED BY Zenon, <1>1, <3>1, <3>2 DEF Merged
  <2>5. NewDeviceInv'
    BY Zenon, <1>5, <2>4 DEF NewDeviceInv
  <2> QED BY Zenon, <1>2, <1>4, <2>3, <2>5, IdleMerge
<1>6. CASE /\ ~Boots(active) /\ ~successful[active]
           /\ active' = OtherSlot(active) /\ slot' = slot
  <2>1. active = Old => ~AllOld
    BY <1>6 DEF Boots, AllOld
  <2>2. active = New => AllOld
    BY Zenon, <1>1, <1>6, MergedIsOK, NewBoots
  <2>3. active = Old => NewOK
    BY Zenon, <1>1, <2>1, MergedIsOK
  <2>4. SlotInv'
    BY Zenon, <1>1, <1>3, <1>6, <2>2, <2>3 DEF SlotInv, Slots, OtherSlot, Old, New, Off
  <2>5. NewDeviceInv'
    BY Zenon, <1>1, <1>6 DEF NewDeviceInv, Off, New
  <2> QED BY Zenon, <1>2, <1>4, <2>4, <2>5, IdleMerge
<1> QED BY Zenon, <1>5, <1>6 DEF Boot

LEMMA MarkedMerge ==
    ASSUME Inv, EngineInv, MergeInv, MarkBootSuccessful
    PROVE  MergeInv'
<1>1. /\ UNCHANGED <<state, indicator, status, cow, base, updated, active, slot, dm, call>>
      /\ slot \in Slots /\ DOMAIN successful = Slots
      /\ successful' = [successful EXCEPT ![slot] = TRUE]
      /\ DiskInv /\ SlotInv /\ NewDeviceInv
  BY Zenon DEF MarkBootSuccessful, disk, MergeInv, Inv, CallInv, TypeOK
<1>2. (NewOK => NewOK') /\ (AllOld <=> AllOld')
  BY Zenon, <1>1 DEF NewOK, AllOld, AllMerged, Merged, Live
<1>3. DiskInv'
  BY Zenon, <1>1 DEF DiskInv, AllOld, AllMerged, Merged, Live
<1>4. SlotInv'
  BY Zenon, <1>1, <1>2 DEF SlotInv, Slots, Old, New
<1>5. NewDeviceInv'
  BY Zenon, <1>1 DEF NewDeviceInv, AllMerged, Merged
<1> QED BY Zenon, <1>1, <1>3, <1>4, <1>5, SameCallers DEF MergeInv

LEMMA SetActiveMerge ==
    ASSUME Inv, EngineInv, MergeInv, NEW s \in Slots, SetActive(s)
    PROVE  MergeInv'
<1>1. /\ UNCHANGED <<state, indicator, status, cow, base, updated, slot, dm, call>>
      /\ slot = Off /\ DOMAIN successful = Slots
      /\ active' = s /\ successful' = [successful EXCEPT ![s] = FALSE]
      /\ DiskInv
  BY Zenon DEF SetActive, disk, MergeInv, Inv, CallInv, TypeOK
<1>2. DiskInv'
  BY Zenon, <1>1 DEF DiskInv, AllOld, AllMerged, Merged, Live
<1>3. successful'[s] = FALSE
  BY Zenon, <1>1
<1>4. SlotInv'
  BY Zenon, <1>1, <1>3 DEF SlotInv, Off, Old, New
<1>5. NewDeviceInv'
  BY Zenon, <1>1 DEF NewDeviceInv, Off, New
<1> QED BY Zenon, <1>1, <1>2, <1>4, <1>5, SameCallers DEF MergeInv

LEMMA ShutdownMerge ==
    ASSUME Inv, EngineInv, MergeInv, Shutdown, UNCHANGED disk
    PROVE  MergeInv'
<1>1. /\ UNCHANGED <<state, indicator, status, cow, base, updated, active, successful>>
      /\ slot' = Off /\ call' = [c \in Callers |-> Idle] /\ DiskInv /\ SlotInv
  BY Zenon DEF Shutdown, disk, bootControl, MergeInv
<1>2. \A c \in Callers : call'[c].pc = "idle"
  BY Zenon, <1>1 DEF Idle
<1>3. DiskInv'
  BY Zenon, <1>1 DEF DiskInv, AllOld, AllMerged, Merged, Live
<1>4. (NewOK => NewOK') /\ (AllOld <=> AllOld')
  BY Zenon, <1>1 DEF NewOK, AllOld, AllMerged, Merged, Live
<1>5. SlotInv'
  BY Zenon, <1>1, <1>4 DEF SlotInv, Off, Old, New
<1>6. NewDeviceInv'
  BY Zenon, <1>1 DEF NewDeviceInv, Off, New
<1> QED BY Zenon, <1>2, <1>3, <1>5, <1>6, IdleMerge

(* The kernel merges only a partition that has a live snapshot. *)
LEMMA MergedPartition ==
    ASSUME Inv, EngineInv, MergeInv, NEW p \in Partitions, MergeBlocks(p)
    PROVE  /\ slot = New /\ active = New /\ indicator = Old
           /\ state \in {"merging", "merge-failed"} /\ ~Merged(p) /\ ~AllMerged /\ Live(p)
<1>1. dm[p] = "snapshot-merge" /\ base[p] \in {"old", "mixed"}
  BY Zenon DEF MergeBlocks
<1>2. slot = New
  BY Zenon, <1>1 DEF EngineInv, DeviceInv
<1>3. ~Merged(p) /\ ~AllMerged
  BY Zenon, <1>1 DEF Merged, AllMerged
<1>4. state \in MergeStates /\ active = New
  BY Zenon, <1>1, <1>2, <1>3 DEF MergeInv, NewDeviceInv, SlotInv
<1> QED BY Zenon, <1>2, <1>3, <1>4 DEF MergeInv, DiskInv, MergeStates

LEMMA BlocksMerge ==
    ASSUME Inv, EngineInv, MergeInv, NEW p \in Partitions, MergeBlocks(p)
    PROVE  MergeInv'
<1>1. /\ slot = New /\ active = New /\ indicator = Old
      /\ state \in {"merging", "merge-failed"} /\ ~Merged(p) /\ ~AllMerged /\ Live(p)
  BY Zenon, MergedPartition
<1>2. /\ UNCHANGED <<state, indicator, status, cow, updated, active, successful, slot, dm,
                     call>>
      /\ dm[p] = "snapshot-merge" /\ DOMAIN base = Partitions
      /\ \E b : base' = [base EXCEPT ![p] = b]
      /\ DiskInv /\ SlotInv /\ NewDeviceInv
  BY Zenon DEF MergeBlocks, system, Inv, CallInv, TypeOK, MergeInv
<1>3. /\ \A q \in Partitions : Live(q) => Live(q)'
      /\ \A q \in Partitions \ {p} : base'[q] = base[q] /\ (Merged(q) => Merged(q)')
  BY Zenon, <1>2 DEF Live, Merged
<1>4. \A q \in Partitions : Merged(q)' \/ Live(q)'
  BY Zenon, <1>1, <1>2, <1>3 DEF DiskInv
<1>5. DiskInv'
  BY Zenon, <1>1, <1>2, <1>4 DEF DiskInv, MergeStates
<1>6. SlotInv'
  BY Zenon, <1>1, <1>2 DEF SlotInv, NewOK, MergeStates, Old, New
<1>7. NewDeviceInv'
  BY Zenon, <1>1, <1>2, <1>3 DEF NewDeviceInv, MergeStates
<1>8. ASSUME NEW c \in Callers
      PROVE  HolderMergeOK(call[c])'
  <2>1. HolderMergeOK(call[c]) /\ call'[c] = call[c]
    BY Zenon, <1>2 DEF MergeInv
  <2>2. ~Removing(call[c])
    BY Zenon, <1>1, <2>1 DEF HolderMergeOK, MergeStates
  <2>3. ASSUME Polling(call[c])
        PROVE  /\ \A q \in Dropped(call[c]) : Merged(q)'
               /\ call[c].pc # "CheckTargetMergeState" => Merged(call[c].cur)'
    <3>1. /\ \A q \in Dropped(call[c]) : q \in Partitions /\ Merged(q)
          /\ call[c].pc # "CheckTargetMergeState" => Merged(call[c].cur)
      BY Zenon, <2>1, <2>3 DEF HolderMergeOK, Dropped
    <3>2. call[c].pc # "CheckTargetMergeState" => call[c].cur \in Partitions
      BY Zenon, <2>3, CallFacts DEF Polling
    <3> QED BY Zenon, <1>1, <1>3, <2>1, <3>1, <3>2 DEF Dropped
  <2> QED BY Zenon, <2>1, <2>2, <2>3 DEF HolderMergeOK, Dropped
<1> QED BY Zenon, <1>5, <1>6, <1>7, <1>8 DEF MergeInv

(* Without torn writes, and as long as nothing is flashed. *)
NothingFlashed == budget["flash"] = 0

LEMMA MergeNext ==
    ASSUME TornWrites = FALSE
    PROVE  Inv /\ EngineInv /\ MergeInv /\ NothingFlashed /\ [Next]_vars
           => MergeInv' /\ NothingFlashed'
<1> SUFFICES ASSUME Inv, EngineInv, MergeInv, NothingFlashed, [Next]_vars
             PROVE  MergeInv' /\ NothingFlashed'
  BY Zenon
<1>1. CASE UNCHANGED vars
  <2>1. UNCHANGED mergeVars /\ call' = call /\ budget' = budget
    BY Zenon, <1>1 DEF vars, mergeVars
  <2>2. DiskInv' /\ SlotInv' /\ NewDeviceInv'
    BY Zenon, <2>1, SameMerge DEF MergeInv
  <2>3. UNCHANGED <<call, state, status, base, slot>>
    BY Zenon, <2>1 DEF mergeVars
  <2> QED BY Zenon, <2>1, <2>2, <2>3, SameCallers DEF MergeInv, NothingFlashed
<1>2. CASE Next
  <2>1. ASSUME NEW p \in Partitions
        PROVE  ~FlashHandler(p)
    BY DEF FlashHandler, Spend, NothingFlashed
  <2>2. NothingFlashed'
    BY Zenon, <1>2, <2>1, BudgetWriters DEF NothingFlashed
  <2>3. ASSUME NEW c \in Callers, CallerDies(c)
        PROVE  MergeInv'
    <3>1. UNCHANGED mergeVars /\ Become(c, Idle)
      BY Zenon, <2>3 DEF CallerDies, mergeVars, disk, system
    <3>2. HolderMergeOK(Idle)
      BY DEF HolderMergeOK, Idle, Removing, Polling, Deleting
    <3> QED BY Zenon, <2>3, <3>1, <3>2, QuietMerge
  <2>4. CASE \E c \in Callers : Step(c) \/ Request(c)
    BY Zenon, <2>2, <2>4, StepMerge, RequestMerge
  <2>5. CASE EngineWork
    BY Zenon, <2>2, <2>5, WorkMerge
  <2>6. CASE Environment
    <3>1. CASE Boot \/ MarkBootSuccessful
      BY Zenon, <2>2, <3>1, BootMerge, MarkedMerge
    <3>2. CASE Reboot \/ PowerLoss
      BY Zenon, <2>2, <3>2, ShutdownMerge DEF Reboot, PowerLoss
    <3>3. CASE \E c \in Callers : PowerLossInWrite(c) \/ CallerDies(c)
      BY Zenon, <2>2, <2>3, <3>3 DEF PowerLossInWrite
    <3>4. CASE \E s \in Slots : SetActive(s)
      BY Zenon, <2>2, <3>4, SetActiveMerge
    <3>5. CASE \E p \in Partitions : MergeBlocks(p) \/ FlashHandler(p)
      BY Zenon, <2>1, <2>2, <3>5, BlocksMerge
    <3> QED BY Zenon, <2>6, <3>1, <3>2, <3>3, <3>4, <3>5 DEF Environment
  <2> QED BY Zenon, <1>2, <2>2, <2>4, <2>5, <2>6 DEF Next
<1> QED BY Zenon, <1>1, <1>2

LEMMA MergeInitial ==
    ASSUME Init
    PROVE  MergeInv
<1>1. /\ state = "" /\ AllOld /\ slot = Old /\ active = Old
      /\ \A c \in Callers : call[c].pc = "idle"
  BY Zenon DEF Init, AllOld, Idle
<1>2. DiskInv
  BY Zenon, <1>1 DEF DiskInv, MergeStates
<1>3. SlotInv
  BY Zenon, <1>1 DEF SlotInv, Old, New
<1>4. NewDeviceInv
  BY Zenon, <1>1 DEF NewDeviceInv, Old, New
<1>5. \A c \in Callers : HolderMergeOK(call[c])
  BY Zenon, <1>1 DEF HolderMergeOK, Removing, Polling, Deleting
<1> QED BY Zenon, <1>2, <1>3, <1>4, <1>5 DEF MergeInv

(* The active slot boots, or may be given up for the other, which boots. *)
LEMMA MergeInvBoots ==
    ASSUME Inv, EngineInv, MergeInv
    PROVE  DeviceBoots
<1>1. /\ DiskInv /\ SlotInv /\ indicator \in {"absent", Old}
      /\ state \in UpdateStates \cup {""} /\ active \in Slots
  BY Zenon DEF MergeInv, EngineInv, Inv, CallInv, TypeOK
<1>2. ~AllOld => Boots(New)
  BY Zenon, <1>1, MergedIsOK, NewBoots
<1>3. AllOld => Boots(Old)
  BY DEF AllOld, Boots
<1>4. CASE active = Old
  BY Zenon, <1>1, <1>2, <1>3, <1>4 DEF DeviceBoots, OtherSlot, SlotInv
<1>5. CASE active = New
  <2>1. CASE Boots(New)
    BY Zenon, <1>5, <2>1 DEF DeviceBoots
  <2>2. CASE ~Boots(New)
    <3>1. AllOld /\ ~successful[New]
      BY Zenon, <1>1, <1>2, <1>5, <2>2, NewBoots DEF SlotInv
    <3> QED BY Zenon, <1>3, <1>5, <3>1 DEF DeviceBoots, OtherSlot, Old, New
  <2> QED BY Zenon, <2>1, <2>2
<1> QED BY Zenon, <1>1, <1>4, <1>5 DEF Slots

(* The update implements VirtualAB. *)

LEMMA PhaseValues ==
    ASSUME state \in UpdateStates \cup {""}
    PROVE  /\ state \in {"", "none"} => Phase = "none"
           /\ state = "initiated" => Phase = "applying"
           /\ state = "unverified" => Phase = "pending"
           /\ state \in MergeStates => Phase = "merging"
  BY Zenon DEF Phase, ReadUpdateState, UpdateStates, MergeStates

(* The observer sees a change of the state file only. *)
LEMMA SamePhase ==
    ASSUME UNCHANGED state
    PROVE  UNCHANGED Phase
  BY Zenon DEF Phase, ReadUpdateState

(* A write of the state file by a running caller. *)
LEMMA WriterRefines ==
    ASSUME Inv, EngineInv, MergeInv, Partitions # {}, NEW c \in Callers,
           \/ WriteNone(c) \/ WriteInitiated(c) \/ MergeDecision(c)
           \/ AcknowledgeMergeFailure(c) \/ WriteMerging(c)
           \/ MergeInitiated(c) \/ WriteUnverified(c)
    PROVE  [AB!Next]_(AB!vars)
<1>1. /\ call[c] \in Calls /\ HolderOK(c, call[c], state, session)
      /\ state \in UpdateStates \cup {""}
      /\ DiskInv /\ SlotInv /\ HolderMergeOK(call[c])
      /\ CreationOK(call[c]) /\ StarterOK(call[c])
  BY Zenon, CallFacts, CallerFacts DEF Inv, CallInv, TypeOK, MergeInv, EngineInv
<1>2. UNCHANGED <<slot, base>> /\ call[c].pc # "idle"
  BY Zenon DEF WriteNone, WriteInitiated, MergeDecision, AcknowledgeMergeFailure, WriteMerging,
         MergeInitiated, WriteUnverified, system, At
<1>3. slot \in Slots
  BY Zenon, <1>2 DEF Inv, OffInv, CallInv, TypeOK
<1>4. ASSUME UNCHANGED Phase
      PROVE  [AB!Next]_(AB!vars)
  BY Zenon, <1>2, <1>4 DEF AB!vars
<1>5. CASE WriteNone(c)
  <2>1. state' = "none" /\ Removing(call[c])
    BY Zenon, <1>1, <1>5, WriteNoneEffect DEF Removing
  <2>2. Phase' = "none"
    BY <2>1 DEF Phase, ReadUpdateState
  <2>3. AllMerged \/ (slot = Old /\ state \notin MergeStates)
    BY Zenon, <1>1, <2>1 DEF HolderMergeOK
  <2>4. CASE state \in {"", "none"}
    BY Zenon, <1>1, <1>4, <2>2, <2>4, PhaseValues
  <2>5. CASE state = "initiated"
    <3>1. AB!Cancel
      BY Zenon, <1>1, <1>2, <1>3, <2>2, <2>5, PhaseValues DEF AB!Cancel, AB!Old, AB!Off, Slots, Old, New
    <3> QED BY <3>1 DEF AB!Next
  <2>6. CASE state = "unverified"
    <3>1. slot = Old
      BY Zenon, <1>1, <2>3, <2>6 DEF DiskInv, AllOld, AllMerged, Merged
    <3>2. AB!Cancel
      BY Zenon, <1>1, <1>2, <2>2, <2>6, <3>1, PhaseValues DEF AB!Cancel, AB!Old, Old
    <3> QED BY <3>2 DEF AB!Next
  <2>7. CASE state \in MergeStates
    <3>1. AllMerged
      BY Zenon, <2>3, <2>7
    <3>2. slot = New
      BY Zenon, <1>1, <1>3, <3>1 DEF SlotInv, AllOld, AllMerged, Merged, Slots
    <3>3. AB!AllNew
      BY Zenon, <3>1 DEF AB!AllNew, AllMerged, Merged
    <3>4. AB!Complete
      BY Zenon, <1>1, <1>2, <2>2, <2>7, <3>2, <3>3, PhaseValues DEF AB!Complete, AB!New, New
    <3> QED BY Zenon, <3>4 DEF AB!Next
  <2> QED BY Zenon, <1>1, <2>4, <2>5, <2>6, <2>7 DEF UpdateStates
<1>6. CASE WriteInitiated(c)
  <2>1. CASE UNCHANGED state
    BY Zenon, <1>4, <2>1, SamePhase
  <2>2. CASE state \in {"", "none"} /\ state' = "initiated"
    <3>1. Phase = "none" /\ Phase' = "applying"
      BY Zenon, <1>1, <2>2, PhaseValues DEF Phase, ReadUpdateState
    <3>2. AB!Begin
      BY Zenon, <1>2, <1>3, <3>1 DEF AB!Begin, AB!Off, Slots, Old, New
    <3> QED BY <3>2 DEF AB!Next
  <2> QED BY Zenon, <1>6, <2>1, <2>2, WriteInitiatedEffect
<1>7. CASE MergeDecision(c) \/ MergeInitiated(c) \/ AcknowledgeMergeFailure(c)
  <2>1. UNCHANGED state \/ (state \in MergeStates /\ state' \in MergeStates)
    <3>1. CASE MergeDecision(c)
      BY Zenon, <1>1, <3>1, MergeDecisionEffect DEF HolderOK, Polling, MergeStates
    <3>2. CASE MergeInitiated(c)
      BY Zenon, <1>1, <3>2, MergeInitiatedEffect DEF HolderOK, MergeStates
    <3>3. CASE AcknowledgeMergeFailure(c)
      BY Zenon, <3>3, AcknowledgeEffect DEF MergeStates
    <3> QED BY Zenon, <1>7, <3>1, <3>2, <3>3
  <2>2. UNCHANGED Phase
    <3>1. CASE UNCHANGED state
      BY Zenon, <3>1, SamePhase
    <3>2. CASE state \in MergeStates /\ state' \in MergeStates
      BY Zenon, <3>2 DEF Phase, ReadUpdateState, MergeStates
    <3> QED BY Zenon, <2>1, <3>1, <3>2
  <2> QED BY Zenon, <1>4, <2>2
<1>8. CASE WriteMerging(c)
  <2>1. state = "unverified" /\ state' = "merging" /\ slot = New
    BY Zenon, <1>1, <1>8, WriteMergingEffect DEF HolderOK, StarterOK
  <2>2. Phase = "pending" /\ Phase' = "merging"
    BY <2>1 DEF Phase, ReadUpdateState
  <2>3. AB!Commit
    BY Zenon, <1>2, <2>1, <2>2 DEF AB!Commit, AB!New, New
  <2> QED BY <2>3 DEF AB!Next
<1>9. CASE WriteUnverified(c)
  <2>1. call[c].pc = "WriteUnverified" /\ state' = "unverified"
    BY Zenon, <1>9 DEF WriteUnverified, At
  <2>2. state = "initiated" /\ slot = Old
    BY Zenon, <1>1, <2>1 DEF HolderOK, CreationOK, EngineInv
  <2>3. Phase = "applying" /\ Phase' = "pending"
    BY Zenon, <2>1, <2>2 DEF Phase, ReadUpdateState
  <2>4. AB!Finish
    BY Zenon, <1>2, <2>2, <2>3 DEF AB!Finish, AB!Old, Old
  <2> QED BY <2>4 DEF AB!Next
<1> QED BY Zenon, <1>5, <1>6, <1>7, <1>8, <1>9

(* The new slot is only booted when it shows the new image. *)
LEMMA BootRefines ==
    ASSUME Inv, EngineInv, MergeInv, Boot
    PROVE  [AB!Next]_(AB!vars)
<1>1. /\ slot = Off /\ UNCHANGED <<state, base>> /\ active \in Slots
      /\ DiskInv /\ indicator \in {"absent", Old} /\ state \in UpdateStates \cup {""}
  BY Zenon DEF Boot, disk, Inv, CallInv, TypeOK, MergeInv, EngineInv
<1>2. UNCHANGED Phase
  BY Zenon, <1>1, SamePhase
<1>3. CASE UNCHANGED slot
  BY Zenon, <1>1, <1>2, <1>3 DEF AB!vars
<1>4. CASE slot' = Old /\ Boots(Old)
  <2>1. AB!AllOld
    BY <1>4 DEF Boots, AB!AllOld
  <2>2. AB!TurnOn
    BY Zenon, <1>1, <1>2, <1>4, <2>1 DEF AB!TurnOn, AB!Old, AB!Off, Old, Off
  <2> QED BY <2>2 DEF AB!Next
<1>5. CASE slot' = New /\ Boots(New)
  <2>1. NewOK
    BY Zenon, <1>1, <1>5, BootedIsOK
  <2>2. Phase \in {"pending", "merging"} \/ AB!AllNew
    BY Zenon, <1>1, <2>1, PhaseValues DEF NewOK, AllMerged, Merged, AB!AllNew
  <2>3. AB!TurnOn
    BY Zenon, <1>1, <1>2, <1>5, <2>2 DEF AB!TurnOn, AB!New, AB!Off, New, Off
  <2> QED BY <2>3 DEF AB!Next
<1> QED BY Zenon, <1>1, <1>3, <1>4, <1>5 DEF Boot, Slots

LEMMA NextRefines ==
    ASSUME TornWrites = FALSE, Partitions # {}, NothingFlashed,
           Inv, EngineInv, MergeInv, [Next]_vars
    PROVE  [AB!Next]_(AB!vars)
<1>1. CASE UNCHANGED <<state, slot, base>>
  BY Zenon, <1>1, SamePhase DEF AB!vars
<1>2. CASE Next /\ ~UNCHANGED state
  <2>1. ASSUME NEW c \in Callers
        PROVE  ~PowerLossInWrite(c)
    BY Zenon DEF PowerLossInWrite
  <2> QED BY Zenon, <1>2, <2>1, StateWriters, WriterRefines
<1>3. CASE Next /\ UNCHANGED state /\ ~UNCHANGED slot
  <2>1. Phase' = Phase
    BY Zenon, <1>3, SamePhase
  <2>2. Boot \/ (Shutdown /\ base' = base)
    <3>1. ASSUME NEW s \in Slots, SetActive(s)
          PROVE  slot' = slot
      BY Zenon, <3>1 DEF SetActive
    <3>2. ASSUME SetActiveBootSlot \/ MarkBootSuccessful
          PROVE  slot' = slot
      BY Zenon, <3>2 DEF SetActiveBootSlot, MarkBootSuccessful
    <3>3. ASSUME NEW p \in Partitions, MergeBlocks(p) \/ FlashHandler(p)
          PROVE  slot' = slot
      BY Zenon, <3>3 DEF MergeBlocks, FlashHandler, system
    <3>4. base' = base
      BY Zenon, <1>3, <3>3, BaseWriters
    <3> QED BY Zenon, <1>3, <3>1, <3>2, <3>4, SlotWriters
  <2>3. CASE Boot
    BY Zenon, <2>3, BootRefines
  <2>4. CASE Shutdown /\ base' = base
    <3>1. slot' = Off
      BY Zenon, <2>4 DEF Shutdown
    <3>2. AB!TurnOff
      BY Zenon, <1>3, <2>1, <2>4, <3>1 DEF AB!TurnOff, AB!Off, Off
    <3> QED BY Zenon, <3>2 DEF AB!Next
  <2> QED BY Zenon, <2>2, <2>3, <2>4
<1>4. CASE Next /\ UNCHANGED <<state, slot>> /\ ~UNCHANGED base
  <2>1. PICK p \in Partitions : MergeBlocks(p) \/ FlashHandler(p)
    BY Zenon, <1>4, BaseWriters
  <2>2. MergeBlocks(p)
    BY <2>1 DEF FlashHandler, Spend, NothingFlashed
  <2>3. slot = New /\ state \in MergeStates
    BY Zenon, <2>2, MergedPartition DEF MergeStates
  <2>4. Phase = "merging" /\ Phase' = Phase
    BY Zenon, <1>4, <2>3, SamePhase, PhaseValues DEF Inv, CallInv, TypeOK
  <2>5. AB!Merge(p)
    BY Zenon, <1>4, <2>2, <2>3, <2>4 DEF MergeBlocks, AB!Merge, AB!New, New
  <2> QED BY Zenon, <2>5 DEF AB!Next
<1> QED BY Zenon, <1>1, <1>2, <1>3, <1>4 DEF vars
===============================================================================
