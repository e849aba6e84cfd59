------------------------- MODULE SnapshotEngineProofs -------------------------
(***************************************************************************)
(* Steps of SnapshotManager preserve what the update engine relies on, what *)
(* the polling loop reports, and that nothing is merged before the new slot *)
(* is committed to.                                                        *)
(***************************************************************************)
EXTENDS SnapshotEffects

LEMMA FinishedStep ==
    ASSUME Inv, Next, ReadUpdateState = "none"
    PROVE  ReadUpdateState' \in {"none", "initiated"}
<1>1. state \in {"none", ""} /\ CallInv
  BY Zenon DEF ReadUpdateState, Inv
<1>2. CASE state' = state
  BY Zenon, <1>1, <1>2 DEF ReadUpdateState
<1>3. ASSUME NEW c \in Callers, WriteNone(c) \/ WriteInitiated(c) \/ PowerLossInWrite(c)
      PROVE  state' \in {"none", "initiated", ""}
  BY Zenon, <1>1, <1>3 DEF WriteNone, WriteInitiated, PowerLossInWrite
<1>4. ASSUME NEW c \in Callers, AcknowledgeMergeFailure(c)
      PROVE  state' = state
  BY <1>4 DEF AcknowledgeMergeFailure
<1>5. ASSUME NEW c \in Callers,
             MergeDecision(c) \/ WriteMerging(c) \/ MergeInitiated(c) \/ WriteUnverified(c)
      PROVE  FALSE
  <2>1. HolderOK(c, call[c], state, session)
    BY CallerFacts
  <2>2. call[c].pc \in {"CheckTargetMergeState", "WriteMerging", "SwitchSnapshotToMerge",
                        "WriteUnverified"}
    BY <1>5 DEF MergeDecision, WriteMerging, MergeInitiated, WriteUnverified, At
  <2> QED BY Zenon, <1>1, <2>1, <2>2 DEF HolderOK, Polling, MergeStates
<1> QED BY Zenon, <1>1, <1>2, <1>3, <1>4, <1>5, StateWriters DEF ReadUpdateState

LEMMA CompletedStep ==
    ASSUME Inv, CompletedIsMerged, Next
    PROVE  CompletedIsMerged'
<1>1. RestTypeOK
  BY SnapshotAssumption, CallerFacts
<1>2. status \in [Partitions -> StatusStates] /\ DOMAIN base = Partitions
  BY Zenon, <1>1 DEF RestTypeOK
<1>3. CASE status' = status /\ base' = base
  BY <1>3 DEF CompletedIsMerged
<1>4. ASSUME NEW c \in Callers, CreateSnapshot(c) \/ RemoveStatusFile(c)
      PROVE  CompletedIsMerged'
  BY Zenon, <1>2, <1>4 DEF CreateSnapshot, WriteSnapshotStatus, RemoveStatusFile, CompletedIsMerged
<1>5. ASSUME NEW c \in Callers, NEW p \in Partitions,
             CheckTargetMergeState(c, p) \/ SwitchSnapshotToMerge(c, p)
      PROVE  CompletedIsMerged'
  <2>1. base' = base
    BY <1>5 DEF CheckTargetMergeState, SwitchSnapshotToMerge
  <2>2. \/ status' = status
        \/ status' = [status EXCEPT ![p] = "merging"]
        \/ status' = [status EXCEPT ![p] = "merge-completed"] /\ base[p] = "new"
    BY <1>5 DEF CheckTargetMergeState, SwitchSnapshotToMerge, WriteSnapshotStatus, MergeIsDone
  <2> QED BY Zenon, <1>2, <2>1, <2>2 DEF CompletedIsMerged
<1>6. ASSUME NEW p \in Partitions, MergeBlocks(p) \/ FlashHandler(p)
      PROVE  CompletedIsMerged'
  <2>1. status' = status
    BY Zenon, <1>6 DEF MergeBlocks, FlashHandler
  <2>2. \/ base[p] \in {"old", "mixed"} /\ \E b : base' = [base EXCEPT ![p] = b]
        \/ base' = [base EXCEPT ![p] = "flashed"]
    BY <1>6 DEF MergeBlocks, FlashHandler
  <2> QED BY Zenon, <1>2, <2>1, <2>2 DEF CompletedIsMerged
<1> QED BY <1>3, <1>4, <1>5, <1>6, StatusWriters

(* EngineInv is inductive. *)

(* A call that neither prepares an update nor starts a merge. *)
Ordinary(r) ==
    \/ r.pc \in {"idle", "TryCancelUpdate", "WriteInitiated", "CheckMergeState",
                 "AcknowledgeMergeFailure"}
    \/ Removing(r) \/ Polling(r)

LEMMA OrdinaryOK ==
    ASSUME NEW r, Ordinary(r)
    PROVE  CreationOK(r)' /\ StarterOK(r)'
  BY DEF Ordinary, CreationOK, StarterOK, Removing, Polling, Creating, Looping, Deleting

(* Who holds the lock, and is not finishing the update, finds no snapshots created. *)
LEMMA NotCreated ==
    ASSUME Inv, NEW c \in Callers, call[c].pc \in LockedLabels,
           call[c].pc \notin {"WriteIndicator", "WriteUnverified"}
    PROVE  session # "created"
<1>1. /\ HolderOK(c, call[c], state, session) /\ EngineOK(c, call[c], session)
      /\ SessionInv
  BY CallerFacts
<1>2. CASE Removing(call[c])
  BY Zenon, <1>1, <1>2 DEF HolderOK, EngineOK, SessionInv
<1>3. CASE Polling(call[c])
  BY <1>1, <1>3 DEF HolderOK, SessionInv, MergeStates
<1>4. CASE Creating(call[c])
  BY <1>1, <1>4 DEF HolderOK
<1>5. CASE call[c].pc \in {"WriteMerging", "SwitchSnapshotToMerge"}
  BY Zenon, <1>1, <1>5 DEF HolderOK, SessionInv
<1>6. \/ Removing(call[c]) \/ Polling(call[c]) \/ Creating(call[c])
      \/ call[c].pc \in {"WriteMerging", "SwitchSnapshotToMerge"}
  BY Zenon, <1>1 DEF HolderOK, LockedLabels, Removing, Polling, Creating, Looping, Deleters
<1> QED BY Zenon, <1>2, <1>3, <1>4, <1>5, <1>6

(* A step under the lock. *)
LEMMA HeldEngine ==
    ASSUME Inv, EngineInv, NEW c \in Callers, NEW r, Become(c, r),
           call[c].pc \in LockedLabels, UNCHANGED <<slot, successful>>,
           session' = "created" =>
              \A p \in Partitions : /\ status'[p] = "created" /\ updated'[p]
                                    /\ cow'[p] \in {"zeroed", "full"},
           session' \in {"created", "finished"} => slot = Old,
           session' = "finished" => state' # "initiated",
           indicator' \in {"absent", Old},
           CreationOK(r)', StarterOK(r)', DeviceInv'
    PROVE  EngineInv'
<1>1. /\ call'[c] = r
      /\ \A d \in Callers \ {c} : call'[d] = call[d] /\ call[d].pc \notin LockedLabels
  BY OtherCalls
<1>2. ASSUME NEW d \in Callers
      PROVE  CreationOK(call[d])' /\ StarterOK(call[d])'
  <2>1. CASE d = c
    BY Zenon, <1>1, <2>1 DEF CreationOK, StarterOK
  <2>2. CASE d # c
    <3>1. call'[d].pc \notin LockedLabels /\ call'[d] = call[d]
      BY Zenon, <1>1, <2>2
    <3>2. CreationOK(call[d])'
      BY <3>1 DEF CreationOK, Creating, Looping, LockedLabels, Deleting
    <3>3. StarterOK(call[d])
      BY DEF EngineInv
    <3>4. StarterOK(call[d])'
      BY Zenon, <3>1, <3>3 DEF StarterOK, LockedLabels
    <3> QED BY <3>2, <3>4
  <2> QED BY Zenon, <2>1, <2>2
<1> QED BY Zenon, <1>2 DEF EngineInv

(* A step of a caller that leaves the snapshots alone. *)
LEMMA FreeEngine ==
    ASSUME Inv, EngineInv, NEW c \in Callers, NEW r, Become(c, r),
           UNCHANGED <<indicator, status, cow, updated, dm, slot, successful>>,
           c = Engine \/ session' = session,
           session' = "created" => session = "created",
           session' = "finished" => slot = Old /\ state' # "initiated",
           CreationOK(r)', StarterOK(r)'
    PROVE  EngineInv'
<1>1. call'[c] = r /\ \A d \in Callers \ {c} : call'[d] = call[d]
  BY OtherCalls
<1>2. ASSUME NEW d \in Callers
      PROVE  CreationOK(call[d])' /\ StarterOK(call[d])'
  <2>1. CASE d = c
    BY <1>1, <2>1 DEF CreationOK, StarterOK
  <2>2. CASE d # c
    <3>1. call'[d] = call[d]
      BY Zenon, <1>1, <2>2
    <3>2. CreationOK(call[d]) /\ StarterOK(call[d])
      BY Zenon DEF EngineInv
    <3>3. call[d].pc \in {"WriteIndicator", "WriteUnverified"} => session' = session
      BY Zenon, <2>2, CallerFacts DEF HolderOK
    <3>4. CreationOK(call[d])'
      BY <3>1, <3>2, <3>3 DEF CreationOK
    <3>5. StarterOK(call[d])'
      BY Zenon, <3>1, <3>2 DEF StarterOK
    <3> QED BY <3>4, <3>5
  <2> QED BY Zenon, <2>1, <2>2
<1>3. DeviceInv'
  BY DEF EngineInv, DeviceInv
<1> QED BY Zenon, <1>2, <1>3 DEF EngineInv

(* A step of a caller that ends in an ordinary place. *)
LEMMA OrdinaryEngine ==
    ASSUME Inv, EngineInv, NEW c \in Callers, NEW r, Become(c, r), Ordinary(r),
           UNCHANGED <<slot, successful, session>>,
           state' = state \/ state' # "initiated",
           \/ UNCHANGED <<indicator, status, cow, updated, dm>>
           \/ /\ call[c].pc \in LockedLabels \ {"WriteIndicator", "WriteUnverified"}
              /\ indicator' \in {indicator, "absent"}
              /\ \A p \in Partitions : dm'[p] \in {dm[p], "none"} \/ slot = New
    PROVE  EngineInv'
<1>1. CreationOK(r)' /\ StarterOK(r)'
  BY Zenon, OrdinaryOK
<1>2. session' = "finished" => slot = Old /\ state' # "initiated"
  BY DEF EngineInv
<1>3. CASE UNCHANGED <<indicator, status, cow, updated, dm>>
  BY Zenon, <1>1, <1>2, <1>3, FreeEngine
<1>4. CASE /\ call[c].pc \in LockedLabels \ {"WriteIndicator", "WriteUnverified"}
           /\ indicator' \in {indicator, "absent"}
           /\ \A p \in Partitions : dm'[p] \in {dm[p], "none"} \/ slot = New
  <2>1. session' # "created"
    BY Zenon, <1>4, NotCreated
  <2>2. DeviceInv'
    BY Zenon, <1>4 DEF EngineInv, DeviceInv
  <2>3. indicator' \in {"absent", Old}
    BY <1>4 DEF EngineInv
  <2> QED BY <1>1, <1>2, <1>4, <2>1, <2>2, <2>3, HeldEngine
<1> QED BY <1>3, <1>4

LEMMA UnlockedEngine ==
    ASSUME Inv, EngineInv, NEW c \in Callers,
           TryCancelUpdate(c) \/ CheckMergeState(c) \/ AcknowledgeMergeFailure(c)
    PROVE  EngineInv'
<1>1. call[c] \in Calls
  BY CallFacts
<1>2. PICK r : Become(c, r) /\ Ordinary(r)
  <2>1. CASE TryCancelUpdate(c)
    BY Zenon, <1>1, <2>1, TryCancelEffect DEF Ordinary, Removing
  <2>2. CASE CheckMergeState(c)
    BY Zenon, <1>1, <2>2, CheckMergeStateEffect DEF Ordinary, Removing, Polling
  <2>3. CASE AcknowledgeMergeFailure(c)
    BY Zenon, <2>3, AcknowledgeEffect DEF Ordinary
  <2> QED BY Zenon, <2>1, <2>2, <2>3
<1>3. /\ UNCHANGED <<slot, successful, session, indicator, status, cow, updated, dm>>
      /\ state' = state \/ state' # "initiated"
  BY Zenon, <1>1, TryCancelEffect, CheckMergeStateEffect, AcknowledgeEffect DEF disk
<1> QED BY Zenon, <1>2, <1>3, OrdinaryEngine

LEMMA RemovingEngine ==
    ASSUME Inv, EngineInv, NEW c \in Callers,
           \/ RemoveSnapshotBootIndicator(c) \/ WriteNone(c)
           \/ \E p \in Partitions : RemoveSnapshot(c, p)
    PROVE  EngineInv'
<1>1. call[c] \in Calls /\ DOMAIN dm = Partitions
  BY Zenon, CallFacts
<1>2. CASE RemoveSnapshotBootIndicator(c) \/ WriteNone(c)
  <2>1. PICK r : Become(c, r) /\ Ordinary(r)
    BY Zenon, <1>1, <1>2, RemoveIndicatorEffect, WriteNoneEffect DEF Ordinary, Removing
  <2>2. /\ UNCHANGED <<slot, successful, session, dm>>
        /\ state' = state \/ state' # "initiated"
        /\ indicator' \in {indicator, "absent"}
        /\ call[c].pc \in {"RemoveAllSnapshots", "WriteNone"}
    BY Zenon, <1>1, <1>2, RemoveIndicatorEffect, WriteNoneEffect
  <2> QED BY Zenon, <2>1, <2>2, OrdinaryEngine DEF LockedLabels
<1>3. ASSUME NEW p \in Partitions, RemoveSnapshot(c, p)
      PROVE  EngineInv'
  <2>1. PICK r : Become(c, r) /\ Ordinary(r)
    BY <1>1, <1>3, RemoveSnapshotEffect DEF Ordinary, Removing, Deleting
  <2>2. /\ UNCHANGED <<slot, successful, session, indicator, state>>
        /\ call[c].pc = "RemoveAllSnapshots"
        /\ dm' = dm \/ dm' = [dm EXCEPT ![p] = "none"]
    BY Zenon, <1>1, <1>3, RemoveSnapshotEffect DEF disk
  <2>3. \A q \in Partitions : dm'[q] \in {dm[q], "none"}
    BY Zenon, <1>1, <2>2
  <2> QED BY Zenon, <2>1, <2>2, <2>3, OrdinaryEngine DEF LockedLabels
<1> QED BY Zenon, <1>2, <1>3

LEMMA DeletingEngine ==
    ASSUME Inv, EngineInv, NEW c \in Callers, DeleteBackingImage(c) \/ RemoveStatusFile(c)
    PROVE  EngineInv'
<1>1. call[c].pc \in Deleting
  BY Zenon DEF DeleteBackingImage, RemoveStatusFile, At, Deleting
<1>2. /\ call[c] \in Calls /\ call[c].deleter \in Deleters /\ call[c].cur \in Partitions
      /\ status \in [Partitions -> StatusStates] /\ DOMAIN cow = Partitions
  BY Zenon, <1>1, CallFacts
<1>3. /\ UNCHANGED <<state, indicator, updated, slot, successful, dm, session>>
      /\ status' = status \/ status' = [status EXCEPT ![call[c].cur] = "absent"]
      /\ \E r : Become(c, r) /\ DeletesOn(c, r)
                /\ (Removing(call[c]) \/ Polling(call[c]) \/ Creating(call[c]))
  <2>1. CASE DeleteBackingImage(c)
    BY Zenon, <1>2, <2>1, DeleteBackingImageEffect
  <2>2. CASE RemoveStatusFile(c)
    BY Zenon, <1>2, <2>2, RemoveStatusFileEffect
  <2> QED BY Zenon, <2>1, <2>2
<1>4. PICK r : Become(c, r) /\ DeletesOn(c, r)
               /\ (Removing(call[c]) \/ Polling(call[c]) \/ Creating(call[c]))
  BY Zenon, <1>3
<1>5. call[c].pc \in LockedLabels \ {"WriteIndicator", "WriteUnverified"}
  BY Zenon, <1>1 DEF LockedLabels, Deleting
<1>6. CASE Removing(call[c]) \/ Polling(call[c])
  <2>1. Ordinary(r)
    BY <1>4, <1>6 DEF DeletesOn, Ordinary, Polling
  <2> QED BY Zenon, <1>3, <1>4, <1>5, <2>1, OrdinaryEngine
<1>7. CASE Creating(call[c])
  <2>1. /\ CreationOK(call[c]) /\ DeviceInv /\ indicator \in {"absent", Old}
        /\ session \in {"created", "finished"} => slot = Old
        /\ session = "finished" => state # "initiated"
    BY DEF EngineInv
  <2>2. session' # "created"
    BY Zenon, <1>3, <1>5, NotCreated
  <2>3. /\ slot = Old
        /\ Looping(call[c]) =>
              /\ call[c].cur \in call[c].todo
              /\ \A p \in Partitions \ call[c].todo : status[p] = "created"
    BY Zenon, <1>1, <1>7, <2>1 DEF CreationOK, Deleting
  <2>4. Looping(call[c]) => \A p \in Partitions \ call[c].todo : status'[p] = "created"
    BY Zenon, <1>2, <1>3, <2>3
  <2>5. \/ r.pc = "AutoDeleteSnapshot"
        \/ r.pc \in Deleting /\ r.deleter = "AutoDeleteSnapshot"
        \/ /\ Looping(call[c]) /\ r.cur = call[c].cur /\ r.todo = call[c].todo
           /\ \/ r.pc = "CreateSnapshot"
              \/ r.pc \in Deleting /\ r.deleter = "CreateUpdateSnapshots"
    BY Zenon, <1>4, <1>7 DEF DeletesOn
  <2>6. CreationOK(r)'
    BY Zenon, <1>3, <2>3, <2>4, <2>5 DEF CreationOK, Creating, Looping, Deleting
  <2>7. StarterOK(r)'
    BY Zenon, <2>5 DEF StarterOK, Deleting
  <2>8. DeviceInv'
    BY <1>3, <2>1 DEF DeviceInv
  <2> QED BY Zenon, <1>3, <1>4, <1>5, <2>1, <2>2, <2>6, <2>7, <2>8, HeldEngine
<1> QED BY Zenon, <1>4, <1>6, <1>7

LEMMA PollingEngine ==
    ASSUME Inv, EngineInv, NEW c \in Callers,
           \/ OnSnapshotMergeComplete(c) \/ MergeDecision(c) \/ MergeInitiated(c)
           \/ \E p \in Partitions : CheckTargetMergeState(c, p)
    PROVE  EngineInv'
<1>1. call[c] \in Calls /\ DOMAIN dm = Partitions
  BY Zenon, CallFacts
<1>2. CASE MergeDecision(c) \/ MergeInitiated(c)
  <2>1. PICK r : Become(c, r) /\ Ordinary(r)
    BY Zenon, <1>1, <1>2, MergeDecisionEffect, MergeInitiatedEffect DEF Ordinary, Removing
  <2>2. /\ UNCHANGED <<slot, successful, session, dm, indicator, status, cow, updated>>
        /\ state' = state \/ state' # "initiated"
    BY Zenon, <1>1, <1>2, MergeDecisionEffect, MergeInitiatedEffect
  <2> QED BY Zenon, <2>1, <2>2, OrdinaryEngine
<1>3. ASSUME NEW p \in Partitions, CheckTargetMergeState(c, p)
      PROVE  EngineInv'
  <2>1. PICK r : Become(c, r) /\ Ordinary(r)
    BY <1>1, <1>3, CheckTargetEffect DEF Ordinary, Polling, Deleting
  <2>2. /\ UNCHANGED <<state, indicator, slot, successful, dm, session>>
        /\ call[c].pc = "CheckTargetMergeState"
    BY Zenon, <1>1, <1>3, CheckTargetEffect
  <2> QED BY Zenon, <2>1, <2>2, OrdinaryEngine DEF LockedLabels
<1>4. CASE OnSnapshotMergeComplete(c)
  <2>1. /\ UNCHANGED <<state, indicator, slot, successful, session>>
        /\ call[c].pc = "OnSnapshotMergeComplete"
        /\ \/ dm' = dm
           \/ /\ dm[call[c].cur] = "snapshot-merge"
              /\ \E d \in {"linear", "collapsed"} : dm' = [dm EXCEPT ![call[c].cur] = d]
    BY Zenon, <1>1, <1>4, MergeCompleteEffect DEF disk
  <2>2. PICK r : Become(c, r) /\ DeletesOn(c, r)
    BY Zenon, <1>1, <1>4, MergeCompleteEffect
  <2>3. Ordinary(r)
    BY Zenon, <2>1, <2>2 DEF DeletesOn, Ordinary, Polling
  <2>4. call[c].cur \in Partitions
    BY Zenon, <2>1, CallFacts
  <2>5. \A p \in Partitions : dm'[p] \in {dm[p], "none"} \/ slot = New
    BY Zenon, <1>1, <2>1, <2>4 DEF EngineInv, DeviceInv
  <2> QED BY Zenon, <2>1, <2>2, <2>3, <2>5, OrdinaryEngine DEF LockedLabels
<1> QED BY Zenon, <1>2, <1>3, <1>4

LEMMA MergingEngine ==
    ASSUME Inv, EngineInv, NEW c \in Callers,
           \/ InitiateMerge(c) \/ WriteMerging(c)
           \/ \E p \in Partitions : SwitchSnapshotToMerge(c, p)
    PROVE  EngineInv'
<1>1. call[c] \in Calls /\ DOMAIN dm = Partitions
  BY Zenon, CallFacts
<1>2. /\ StarterOK(call[c]) /\ DeviceInv /\ indicator \in {"absent", Old}
      /\ session \in {"created", "finished"} => slot = Old
      /\ session = "finished" => state # "initiated"
  BY DEF EngineInv
<1>3. slot = Old \/ slot = New \/ slot = Off
  BY Zenon DEF Inv, CallInv, TypeOK, Slots
<1>4. CASE InitiateMerge(c)
  <2>1. PICK r : Become(c, r) /\ (r.pc = "idle" \/ (CanMerge /\ r.pc = "WriteMerging"))
    BY Zenon, <1>1, <1>4, InitiateMergeEffect
  <2>2. /\ UNCHANGED <<state, indicator, status, cow, updated, dm, slot, successful,
                       session>>
        /\ call[c].pc = "InitiateMerge"
    BY Zenon, <1>1, <1>4, InitiateMergeEffect DEF disk
  <2>3. slot # Off
    BY <2>2 DEF Inv, OffInv
  <2>4. CanMerge => slot = New
    BY Zenon, <1>2, <1>3, <2>3 DEF CanMerge
  <2>5. CreationOK(r)'
    BY Zenon, <2>1 DEF CreationOK, Creating, Looping, Deleting
  <2>6. StarterOK(r)'
    BY Zenon, <1>2, <2>1, <2>2, <2>4 DEF StarterOK
  <2> QED BY Zenon, <1>2, <2>1, <2>2, <2>5, <2>6, FreeEngine
<1>5. CASE WriteMerging(c)
  <2>1. PICK r : Become(c, r) /\ r.pc = "SwitchSnapshotToMerge"
    BY Zenon, <1>1, <1>5, WriteMergingEffect
  <2>2. /\ UNCHANGED <<indicator, status, cow, updated, dm, slot, successful, session>>
        /\ call[c].pc = "WriteMerging" /\ state' = "merging"
    BY Zenon, <1>1, <1>5, WriteMergingEffect
  <2>3. CreationOK(r)'
    BY Zenon, <2>1 DEF CreationOK, Creating, Looping, Deleting
  <2>4. StarterOK(r)'
    BY Zenon, <1>2, <2>1, <2>2 DEF StarterOK
  <2> QED BY Zenon, <1>2, <2>1, <2>2, <2>3, <2>4, FreeEngine
<1>6. ASSUME NEW p \in Partitions, SwitchSnapshotToMerge(c, p)
      PROVE  EngineInv'
  <2>1. PICK r : Become(c, r) /\ r.pc = "SwitchSnapshotToMerge"
    BY Zenon, <1>1, <1>6, SwitchEffect
  <2>2. /\ UNCHANGED <<state, indicator, slot, successful, session>>
        /\ call[c].pc = "SwitchSnapshotToMerge"
    BY Zenon, <1>1, <1>6, SwitchEffect
  <2>3. slot = New
    BY Zenon, <1>2, <2>2 DEF StarterOK
  <2>4. CreationOK(r)'
    BY Zenon, <2>1 DEF CreationOK, Creating, Looping, Deleting
  <2>5. StarterOK(r)' /\ DeviceInv'
    BY Zenon, <1>2, <2>1, <2>2, <2>3 DEF StarterOK, DeviceInv
  <2>6. session # "created" /\ call[c].pc \in LockedLabels
    BY Zenon, <2>2, NotCreated DEF LockedLabels
  <2> QED BY Zenon, <1>2, <2>1, <2>2, <2>4, <2>5, <2>6, HeldEngine
<1> QED BY Zenon, <1>4, <1>5, <1>6

LEMMA RequestEngine ==
    ASSUME Inv, EngineInv, NEW c \in Callers, WriteInitiated(c) \/ Request(c)
    PROVE  EngineInv'
<1>1. call \in [Callers -> Calls] /\ call[c] \in Calls
  BY Zenon, CallFacts
<1>2. /\ session \in {"created", "finished"} => slot = Old
      /\ session = "finished" => state # "initiated"
  BY DEF EngineInv
<1>3. CASE WriteInitiated(c)
  <2>1. PICK r : Become(c, r) /\ r.pc = "idle"
    BY Zenon, <1>3, WriteInitiatedEffect
  <2>2. CreationOK(r)' /\ StarterOK(r)'
    BY Zenon, <2>1, OrdinaryOK DEF Ordinary
  <2>3. c = Engine
    BY <1>3, CallerFacts DEF EngineOK, WriteInitiated, At
  <2>4. /\ UNCHANGED <<indicator, status, cow, updated, dm, slot, successful>>
        /\ UNCHANGED <<state, session>> \/ session' = "begun"
    BY Zenon, <1>3, WriteInitiatedEffect
  <2> QED BY Zenon, <1>2, <2>1, <2>2, <2>3, <2>4, FreeEngine
<1>4. CASE BeginUpdate(c) \/ CancelUpdate(c)
  <2>1. PICK r : Become(c, r) /\ r.pc = "TryCancelUpdate"
    BY Zenon, <1>4, StartResult DEF BeginUpdate, CancelUpdate
  <2>2. CreationOK(r)' /\ StarterOK(r)'
    BY Zenon, <2>1, OrdinaryOK DEF Ordinary
  <2>3. /\ UNCHANGED <<indicator, status, cow, updated, dm, slot, successful>>
        /\ c = Engine /\ session' = "none"
    BY Zenon, <1>4 DEF BeginUpdate, CancelUpdate, disk, system
  <2> QED BY Zenon, <2>1, <2>2, <2>3, FreeEngine
<1>5. CASE CreateUpdateSnapshots(c)
  <2> DEFINE r == [Idle EXCEPT !.op = "CreateUpdateSnapshots",
                               !.pc = "ForEachPartition", !.todo = Partitions]
  <2>1. Become(c, r)
    BY Zenon, <1>5 DEF CreateUpdateSnapshots
  <2>2. r.pc = "ForEachPartition" /\ r.todo = Partitions
    BY DEF Idle
  <2> HIDE DEF r
  <2>3. PICK q : q = r
    OBVIOUS
  <2>4. /\ UNCHANGED <<indicator, status, cow, updated, dm, slot, successful>>
        /\ c = Engine /\ session' = "begun" /\ slot = Old
    BY Zenon, <1>5 DEF CreateUpdateSnapshots, disk, system
  <2>5. CreationOK(q)' /\ StarterOK(q)'
    BY Zenon, <2>2, <2>3, <2>4 DEF CreationOK, StarterOK, Creating, Looping, Deleting
  <2> QED BY Zenon, <2>1, <2>3, <2>4, <2>5, FreeEngine
<1>6. CASE FinishedSnapshotWrites(c)
  <2>1. /\ UNCHANGED <<state, indicator, status, cow, updated, dm, slot, successful>>
        /\ c = Engine
    BY Zenon, <1>1, <1>2, <1>6, FinishedWritesEffect DEF disk
  <2>2. PICK r : /\ Become(c, r)
                 /\ \/ /\ UNCHANGED session
                       /\ session = "created" /\ \A p \in Partitions : cow[p] = "full"
                       /\ r.pc = "WriteIndicator"
                    \/ /\ session' = "finished" /\ session \in {"created", "finished"}
                       /\ state = "unverified" /\ r.pc = "idle"
                    \/ session' = "none" /\ r.pc = "idle"
    BY Zenon, <1>1, <1>2, <1>6, FinishedWritesEffect
  <2>3. CreationOK(r)' /\ StarterOK(r)'
    BY Zenon, <2>1, <2>2 DEF CreationOK, StarterOK, Creating, Looping, Deleting
  <2>4. /\ session' = "created" => session = "created"
        /\ session' = "finished" => slot = Old /\ state' # "initiated"
    BY Zenon, <1>2, <2>1, <2>2
  <2> QED BY Zenon, <2>1, <2>2, <2>3, <2>4, FreeEngine
<1>7. CASE MergeCmdHandler(c)
  <2>1. /\ UNCHANGED <<state, indicator, status, cow, updated, dm, slot, successful,
                       session>>
        /\ successful[slot] /\ call[c].pc = "idle"
    BY <1>7 DEF MergeCmdHandler, disk, At
  <2>2. \/ UNCHANGED call
        \/ \E l \in {"InitiateMerge", "CheckMergeState"} : Start(c, "MergeCmdHandler", l)
    BY Zenon, <1>7 DEF MergeCmdHandler
  <2>3. CASE UNCHANGED call
    BY <2>1, <2>3 DEF EngineInv, CreationOK, StarterOK, DeviceInv
  <2>4. ASSUME NEW l \in {"InitiateMerge", "CheckMergeState"},
               Start(c, "MergeCmdHandler", l)
        PROVE  EngineInv'
    <3>1. PICK r : Become(c, r) /\ r.pc = l
      BY Zenon, <2>4, StartResult
    <3>2. CreationOK(r)'
      BY Zenon, <3>1 DEF CreationOK, Creating, Looping, Deleting
    <3>3. StarterOK(r)'
      BY Zenon, <2>1, <3>1 DEF StarterOK
    <3> QED BY Zenon, <1>2, <2>1, <3>1, <3>2, <3>3, FreeEngine
  <2> QED BY <2>2, <2>3, <2>4
<1> QED BY Zenon, <1>3, <1>4, <1>5, <1>6, <1>7 DEF Request

(* A step of CreateUpdateSnapshots. *)
LEMMA CreatingHeld ==
    ASSUME Inv, EngineInv, NEW c \in Callers, NEW r, Become(c, r), Creating(call[c]),
           UNCHANGED <<state, indicator, slot, successful, session>>,
           \A p \in Partitions : dm'[p] \in {dm[p], "none"},
           CreationOK(r)', r.pc \notin {"InitiateMerge", "WriteMerging",
                                        "SwitchSnapshotToMerge"}
    PROVE  EngineInv'
<1>1. call[c].pc \in LockedLabels \ {"WriteIndicator", "WriteUnverified"}
  BY Zenon DEF Creating, Looping, LockedLabels, Deleting
<1>2. /\ session \in {"created", "finished"} => slot = Old
      /\ session = "finished" => state # "initiated"
      /\ indicator \in {"absent", Old} /\ DeviceInv
  BY Zenon DEF EngineInv
<1>3. session # "created"
  BY Zenon, <1>1, NotCreated
<1>4. StarterOK(r)'
  BY Zenon DEF StarterOK
<1>5. DeviceInv'
  BY <1>2 DEF DeviceInv
<1> QED BY Zenon, <1>1, <1>2, <1>3, <1>4, <1>5, HeldEngine

LEMMA CreatingEngine ==
    ASSUME Inv, EngineInv, NEW c \in Callers,
           \/ CreateSnapshot(c) \/ CreateCowImage(c) \/ ZeroFillCows(c)
           \/ AutoDeleteSnapshot(c)
           \/ \E p \in Partitions : DeleteExistingSnapshot(c, p) \/ InitializeCow(c, p)
    PROVE  EngineInv'
<1>1. /\ call[c] \in Calls /\ call[c].todo \in SUBSET Partitions
      /\ status \in [Partitions -> StatusStates] /\ DOMAIN cow = Partitions
      /\ DOMAIN dm = Partitions /\ CreationOK(call[c])
      /\ call[c].pc \in {"CreateSnapshot", "CreateCowImage"} => call[c].cur \in Partitions
  BY Zenon, CallFacts DEF EngineInv
<1>2. CASE CreateSnapshot(c)
  <2>1. /\ UNCHANGED <<state, indicator, slot, successful, session, dm>>
        /\ call[c].pc = "CreateSnapshot"
    BY Zenon, <1>1, <1>2, CreateSnapshotEffect
  <2>2. PICK r : /\ Become(c, r)
                 /\ \/ UNCHANGED status /\ r.pc = "AutoDeleteSnapshot"
                    \/ /\ WriteSnapshotStatus(call[c].cur, "created")
                       /\ r.pc = "CreateCowImage" /\ r.cur = call[c].cur
                       /\ r.todo = call[c].todo
    BY Zenon, <1>1, <1>2, CreateSnapshotEffect
  <2>3. /\ slot = Old /\ call[c].cur \in call[c].todo /\ call[c].cur \in Partitions
        /\ \A p \in Partitions \ call[c].todo : status[p] = "created"
    BY Zenon, <1>1, <2>1 DEF CreationOK, Creating, Looping
  <2>4. CreationOK(r)'
    BY <1>1, <2>1, <2>2, <2>3
       DEF CreationOK, Creating, Looping, Deleting, WriteSnapshotStatus
  <2> QED BY Zenon, <2>1, <2>2, <2>4, CreatingHeld DEF Creating, Looping
<1>3. CASE CreateCowImage(c)
  <2>1. /\ UNCHANGED <<state, indicator, slot, successful, session, dm, status>>
        /\ call[c].pc = "CreateCowImage"
    BY Zenon, <1>1, <1>3, CreateCowEffect
  <2>2. PICK r : /\ Become(c, r)
                 /\ \/ r.pc = "AutoDeleteSnapshot"
                    \/ /\ r.pc = "ForEachPartition"
                       /\ r.todo = call[c].todo \ {call[c].cur}
    BY Zenon, <1>1, <1>3, CreateCowEffect
  <2>3. /\ slot = Old /\ status[call[c].cur] = "created"
        /\ \A p \in Partitions \ call[c].todo : status[p] = "created"
    BY Zenon, <1>1, <2>1 DEF CreationOK, Creating, Looping
  <2>4. CreationOK(r)'
    BY Zenon, <2>1, <2>2, <2>3 DEF CreationOK, Creating, Looping, Deleting
  <2> QED BY Zenon, <2>1, <2>2, <2>4, CreatingHeld DEF Creating, Looping
<1>4. CASE ZeroFillCows(c)
  <2>1. /\ UNCHANGED <<state, indicator, slot, successful, session, dm, status>>
        /\ call[c].pc = "ForEachPartition" /\ call[c].todo = {}
    BY Zenon, <1>1, <1>4, ZeroFillEffect DEF disk
  <2>2. PICK r : Become(c, r) /\ r.pc = "InitializeCow" /\ r.todo = Partitions
    BY Zenon, <1>1, <1>4, ZeroFillEffect
  <2>3. slot = Old /\ \A p \in Partitions : status[p] = "created"
    BY Zenon, <1>1, <2>1 DEF CreationOK, Creating, Looping
  <2>4. CreationOK(r)'
    BY Zenon, <2>1, <2>2, <2>3 DEF CreationOK, Creating, Looping, Deleting
  <2> QED BY Zenon, <2>1, <2>2, <2>4, CreatingHeld DEF Creating, Looping
<1>5. CASE AutoDeleteSnapshot(c)
  <2>1. /\ UNCHANGED <<state, indicator, slot, successful, session, dm, status>>
        /\ call[c].pc = "AutoDeleteSnapshot"
    BY Zenon, <1>1, <1>5, AutoDeleteEffect DEF disk
  <2>2. PICK r : /\ Become(c, r)
                 /\ \/ r.pc = "idle"
                    \/ r.pc = "DeleteBackingImage" /\ r.deleter = "AutoDeleteSnapshot"
    BY Zenon, <1>1, <1>5, AutoDeleteEffect
  <2>3. slot = Old
    BY Zenon, <1>1, <2>1 DEF CreationOK, Creating
  <2>4. CreationOK(r)'
    BY Zenon, <2>1, <2>2, <2>3 DEF CreationOK, Creating, Looping, Deleting
  <2> QED BY Zenon, <2>1, <2>2, <2>4, CreatingHeld DEF Creating
<1>6. ASSUME NEW p \in Partitions, DeleteExistingSnapshot(c, p)
      PROVE  EngineInv'
  <2>1. /\ UNCHANGED <<state, indicator, slot, successful, session, dm, status>>
        /\ call[c].pc = "ForEachPartition" /\ p \in call[c].todo
    BY Zenon, <1>1, <1>6, DeleteExistingEffect DEF disk
  <2>2. PICK r : /\ Become(c, r) /\ r.pc = "DeleteBackingImage" /\ r.cur = p
                 /\ r.deleter = "CreateUpdateSnapshots" /\ r.todo = call[c].todo
    BY <1>1, <1>6, DeleteExistingEffect
  <2>3. slot = Old /\ \A q \in Partitions \ call[c].todo : status[q] = "created"
    BY Zenon, <1>1, <2>1 DEF CreationOK, Creating, Looping
  <2>4. CreationOK(r)'
    BY Zenon, <2>1, <2>2, <2>3 DEF CreationOK, Creating, Looping, Deleting
  <2> QED BY Zenon, <2>1, <2>2, <2>4, CreatingHeld DEF Creating, Looping
<1>7. ASSUME NEW p \in Partitions, InitializeCow(c, p)
      PROVE  EngineInv'
  <2>1. /\ UNCHANGED <<state, indicator, slot, successful, session, status>>
        /\ call[c].pc = "InitializeCow"
    BY Zenon, <1>1, <1>7, InitializeCowEffect
  <2>2. PICK r : /\ Become(c, r)
                 /\ \/ UNCHANGED <<dm, cow>> /\ r.pc = "AutoDeleteSnapshot"
                    \/ /\ dm' = [dm EXCEPT ![p] = "none"]
                       /\ cow' = [cow EXCEPT ![p] = "zeroed"]
                       /\ r.pc = "InitializeCow" /\ r.todo = call[c].todo \ {p}
    BY Zenon, <1>1, <1>7, InitializeCowEffect
  <2>3. /\ slot = Old /\ \A q \in Partitions : status[q] = "created"
        /\ \A q \in Partitions \ call[c].todo : cow[q] = "zeroed" /\ dm[q] = "none"
    BY Zenon, <1>1, <2>1 DEF CreationOK, Creating
  <2>4. CreationOK(r)'
    BY <1>1, <2>1, <2>2, <2>3 DEF CreationOK, Creating, Looping, Deleting
  <2>5. \A q \in Partitions : dm'[q] \in {dm[q], "none"}
    BY Zenon, <1>1, <2>2
  <2> QED BY Zenon, <2>1, <2>2, <2>4, <2>5, CreatingHeld DEF Creating
<1> QED BY Zenon, <1>2, <1>3, <1>4, <1>5, <1>6, <1>7

LEMMA FinishingEngine ==
    ASSUME Inv, EngineInv, NEW c \in Callers,
           WriteIndicator(c) \/ WriteUnverified(c) \/ UpdatePartitionTable(c)
    PROVE  EngineInv'
<1>1. /\ call[c] \in Calls /\ CreationOK(call[c])
      /\ session \in {"created", "finished"} => slot = Old
      /\ session = "finished" => state # "initiated"
      /\ session = "created" =>
            \A p \in Partitions : /\ status[p] = "created" /\ updated[p]
                                  /\ cow[p] \in {"zeroed", "full"}
      /\ indicator \in {"absent", Old} /\ DeviceInv
  BY Zenon, CallFacts DEF EngineInv
<1>2. CASE WriteIndicator(c)
  <2>1. /\ UNCHANGED <<state, status, cow, updated, slot, successful, dm, session>>
        /\ call[c].pc = "WriteIndicator" /\ indicator' = slot
        /\ Goto(c, "WriteUnverified")
    BY Zenon, <1>2 DEF WriteIndicator, system, At
  <2>2. PICK r : Become(c, r) /\ r.pc = "WriteUnverified"
    BY <1>1, <2>1, GotoResult
  <2>3. session = "created" /\ slot = Old /\ \A p \in Partitions : cow[p] = "full"
    BY Zenon, <1>1, <2>1 DEF CreationOK
  <2>4. CreationOK(r)' /\ StarterOK(r)'
    BY Zenon, <2>1, <2>2, <2>3 DEF CreationOK, StarterOK, Creating, Looping, Deleting
  <2>5. DeviceInv' /\ call[c].pc \in LockedLabels
    BY Zenon, <1>1, <2>1 DEF DeviceInv, LockedLabels
  <2>6. /\ session' = "created" =>
              \A p \in Partitions : /\ status'[p] = "created" /\ updated'[p]
                                    /\ cow'[p] \in {"zeroed", "full"}
        /\ session' # "finished" /\ indicator' \in {"absent", Old}
    BY Zenon, <1>1, <2>1, <2>3
  <2> QED BY Zenon, <2>1, <2>2, <2>3, <2>4, <2>5, <2>6, HeldEngine
<1>3. CASE WriteUnverified(c)
  <2>1. /\ UNCHANGED <<indicator, status, cow, updated, slot, successful, dm>>
        /\ call[c].pc = "WriteUnverified" /\ state' = "unverified"
        /\ session' = "finished" /\ Become(c, Idle) /\ Idle.pc = "idle"
    BY Zenon, <1>3 DEF WriteUnverified, system, At, Idle
  <2>2. slot = Old
    BY Zenon, <1>1, <2>1 DEF CreationOK
  <2>3. PICK r : Become(c, r) /\ r.pc = "idle"
    BY Zenon, <2>1
  <2>4. CreationOK(r)' /\ StarterOK(r)'
    BY Zenon, <2>3, OrdinaryOK DEF Ordinary
  <2>5. DeviceInv' /\ call[c].pc \in LockedLabels
    BY Zenon, <1>1, <2>1 DEF DeviceInv, LockedLabels
  <2> QED BY Zenon, <1>1, <2>1, <2>2, <2>3, <2>4, <2>5, HeldEngine
<1>4. CASE UpdatePartitionTable(c)
  <2>1. /\ UNCHANGED <<state, indicator, status, cow, slot, successful, dm>>
        /\ call[c].pc = "InitializeCow" /\ call[c].todo = {}
    BY ZenonT(30), <1>1, <1>4, UpdateTableEffect
  <2>2. PICK r : /\ Become(c, r)
                 /\ \/ UNCHANGED <<updated, session>> /\ r.pc = "AutoDeleteSnapshot"
                    \/ /\ updated' = [p \in Partitions |-> TRUE]
                       /\ session' = "created" /\ r.pc = "idle"
    BY <1>1, <1>4, UpdateTableEffect
  <2>3. slot = Old /\ \A p \in Partitions : status[p] = "created" /\ cow[p] = "zeroed"
    BY Zenon, <1>1, <2>1 DEF CreationOK, Creating
  <2>4. CreationOK(r)' /\ StarterOK(r)'
    BY Zenon, <2>1, <2>2, <2>3 DEF CreationOK, StarterOK, Creating, Looping, Deleting
  <2>5. DeviceInv' /\ call[c].pc \in LockedLabels
    BY Zenon, <1>1, <2>1 DEF DeviceInv, LockedLabels
  <2>6. session # "created"
    BY Zenon, <2>1, NotCreated DEF LockedLabels
  <2>7. /\ session' = "created" =>
              \A p \in Partitions : /\ status'[p] = "created" /\ updated'[p]
                                    /\ cow'[p] \in {"zeroed", "full"}
        /\ session' \in {"created", "finished"} => slot = Old
        /\ session' = "finished" => state' # "initiated"
    BY Zenon, <1>1, <2>1, <2>2, <2>3, <2>6
  <2> QED BY Zenon, <1>1, <2>1, <2>2, <2>4, <2>5, <2>7, HeldEngine
<1> QED BY <1>2, <1>3, <1>4

(* While the device is off, or goes off, nobody runs. *)
LEMMA IdleEngine ==
    ASSUME \A d \in Callers : call'[d].pc = "idle", session' = "none",
           indicator' \in {"absent", Old}, DeviceInv'
    PROVE  EngineInv'
<1>1. ASSUME NEW d \in Callers
      PROVE  CreationOK(call[d])' /\ StarterOK(call[d])'
  BY Zenon DEF CreationOK, StarterOK, Creating, Looping, Deleting
<1> QED BY Zenon, <1>1 DEF EngineInv

(* The engine between two calls, with its snapshots created: nobody else is *)
(* creating any.                                                            *)
LEMMA EngineIsIdle ==
    ASSUME Inv, EngineInv, call[Engine].pc = "idle", session # "begun", NEW d \in Callers
    PROVE  /\ ~Creating(call[d]) /\ ~Looping(call[d])
           /\ call[d].pc \notin {"InitializeCow", "WriteIndicator", "WriteUnverified"}
  BY CallerFacts DEF HolderOK, Creating

LEMMA WorkEngine ==
    ASSUME Inv, EngineInv, EngineWork
    PROVE  EngineInv'
<1>1. /\ session \in {"created", "finished"} => slot = Old
      /\ session = "finished" => state # "initiated"
      /\ session = "created" =>
            \A p \in Partitions : /\ status[p] = "created" /\ updated[p]
                                  /\ cow[p] \in {"zeroed", "full"}
      /\ indicator \in {"absent", Old} /\ DeviceInv
      /\ \A d \in Callers : StarterOK(call[d])
  BY DEF EngineInv
<1>2. /\ DOMAIN dm = Partitions /\ DOMAIN cow = Partitions
      /\ session = "created" => state = "initiated"
      /\ successful \in [Slots -> BOOLEAN]
  BY Zenon DEF Inv, CallInv, TypeOK, SessionInv
<1>3. /\ UNCHANGED <<state, indicator, status, updated, slot, call>>
      /\ call[Engine].pc = "idle" /\ session \in {"created", "finished"}
  BY Zenon DEF EngineWork, SetActiveBootSlot, MapUpdateSnapshot, UnmapUpdateSnapshot,
         WriteUpdate, disk, system, At
<1>4. slot = Old
  BY <1>1, <1>3
<1>5. ASSUME NEW d \in Callers
      PROVE  CreationOK(call[d])'
  <2>1. /\ ~Creating(call[d]) /\ ~Looping(call[d])
        /\ call[d].pc \notin {"InitializeCow", "WriteIndicator", "WriteUnverified"}
    BY <1>3, EngineIsIdle
  <2> QED BY Zenon, <1>3, <2>1 DEF CreationOK, Creating, Looping
<1>6. CASE SetActiveBootSlot
  <2>1. /\ session' = "none" /\ successful' = [successful EXCEPT ![New] = FALSE]
        /\ UNCHANGED <<cow, dm>>
    BY <1>6 DEF SetActiveBootSlot, disk
  <2>2. successful'[slot'] = successful[slot]
    BY Zenon, <1>2, <1>3, <1>4, <2>1 DEF Slots, Old, New
  <2>3. ASSUME NEW d \in Callers
        PROVE  StarterOK(call[d])'
    BY Zenon, <1>1, <1>3, <2>2 DEF StarterOK
  <2>4. DeviceInv'
    BY Zenon, <1>1, <1>3, <2>1 DEF DeviceInv
  <2> QED BY Zenon, <1>1, <1>3, <1>5, <2>1, <2>3, <2>4 DEF EngineInv
<1>7. ASSUME NEW p \in Partitions,
             MapUpdateSnapshot(p) \/ UnmapUpdateSnapshot(p) \/ WriteUpdate(p)
      PROVE  EngineInv'
  <2>1. UNCHANGED <<session, successful>>
    BY Zenon, <1>7 DEF MapUpdateSnapshot, UnmapUpdateSnapshot, WriteUpdate, system
  <2>2. ASSUME NEW d \in Callers
        PROVE  StarterOK(call[d])'
    BY Zenon, <1>1, <1>3, <2>1 DEF StarterOK
  <2>3. \/ UNCHANGED cow
        \/ UNCHANGED dm /\ cow' = [cow EXCEPT ![p] = "full"]
    BY Zenon, <1>7 DEF MapUpdateSnapshot, UnmapUpdateSnapshot, WriteUpdate, disk
  <2>4. session' = "created" => \A q \in Partitions : cow'[q] \in {"zeroed", "full"}
    BY Zenon, <1>1, <1>2, <2>1, <2>3
  <2>5. UNCHANGED dm \/ \E x \in {"none", "snapshot"} : dm' = [dm EXCEPT ![p] = x]
    <3>1. CASE MapUpdateSnapshot(p)
      <4>1. session = "created" /\ dm' = [dm EXCEPT ![p] = MapPartitionWithSnapshot(p)]
        BY Zenon, <3>1 DEF MapUpdateSnapshot
      <4>2. HasLiveSnapshot(p) /\ MapCowDevices(p) /\ ReadUpdateState = "initiated"
        BY Zenon, <1>1, <1>2, <4>1 DEF HasLiveSnapshot, MapCowDevices, ReadUpdateState
      <4>3. SnapshotMode = "snapshot"
        BY <4>2 DEF SnapshotMode
      <4>4. MapPartitionWithSnapshot(p) = "snapshot"
        BY Zenon, <4>2, <4>3 DEF MapPartitionWithSnapshot
      <4> QED BY Zenon, <4>1, <4>4
    <3>2. CASE UnmapUpdateSnapshot(p) \/ WriteUpdate(p)
      BY Zenon, <3>2 DEF UnmapUpdateSnapshot, WriteUpdate, UnmapPartitionWithSnapshot
    <3> QED BY Zenon, <1>7, <3>1, <3>2
  <2>6. DeviceInv'
    BY Zenon, <1>1, <1>2, <1>3, <2>5 DEF DeviceInv
  <2> QED BY Zenon, <1>1, <1>3, <1>5, <2>1, <2>2, <2>4, <2>6 DEF EngineInv
<1> QED BY Zenon, <1>6, <1>7 DEF EngineWork

LEMMA EnvironmentEngine ==
    ASSUME Inv, EngineInv, Environment
    PROVE  EngineInv'
<1>1. /\ indicator \in {"absent", Old} /\ DeviceInv
      /\ session \in {"created", "finished"} => slot = Old
      /\ session = "finished" => state # "initiated"
  BY DEF EngineInv
<1>2. slot = Off => session = "none" /\ \A d \in Callers : call[d].pc = "idle"
  BY Zenon DEF Inv, OffInv
<1>3. CASE Boot
  <2>1. /\ slot = Off /\ UNCHANGED <<indicator, call, session>>
        /\ \/ UNCHANGED <<slot, dm>>
           \/ /\ slot' = active
              /\ dm' = [p \in Partitions |->
                           IF active = New THEN FirstStageDevice(p) ELSE "none"]
    BY Zenon, <1>3 DEF Boot, disk
  <2>2. DeviceInv'
    BY Zenon, <1>1, <2>1 DEF DeviceInv
  <2> QED BY Zenon, <1>1, <1>2, <2>1, <2>2, IdleEngine
<1>4. CASE MarkBootSuccessful
  <2>1. /\ UNCHANGED <<state, indicator, status, cow, updated, dm, slot, call, session>>
        /\ slot # Off /\ successful' = [successful EXCEPT ![slot] = TRUE]
    BY <1>4 DEF MarkBootSuccessful, disk
  <2>2. successful'[slot] = TRUE
    BY Zenon, <2>1 DEF Inv, CallInv, TypeOK
  <2>3. ASSUME NEW d \in Callers
        PROVE  CreationOK(call[d])' /\ StarterOK(call[d])'
    <3>1. CreationOK(call[d]) /\ StarterOK(call[d])
      BY DEF EngineInv
    <3>2. CreationOK(call[d])'
      BY Zenon, <2>1, <3>1 DEF CreationOK
    <3>3. StarterOK(call[d])'
      BY Zenon, <2>1, <2>2, <3>1 DEF StarterOK
    <3> QED BY Zenon, <3>2, <3>3
  <2>4. DeviceInv'
    BY Zenon, <1>1, <2>1 DEF DeviceInv
  <2> QED BY Zenon, <2>1, <2>3, <2>4 DEF EngineInv
<1>5. CASE Shutdown /\ UNCHANGED indicator
  <2>1. /\ dm' = [p \in Partitions |-> "none"] /\ session' = "none"
        /\ call' = [d \in Callers |-> Idle] /\ Idle.pc = "idle"
    BY <1>5 DEF Shutdown, Idle
  <2>2. DeviceInv'
    BY Zenon, <2>1 DEF DeviceInv
  <2> QED BY Zenon, <1>1, <1>5, <2>1, <2>2, IdleEngine
<1>6. ASSUME NEW c \in Callers, CallerDies(c)
      PROVE  EngineInv'
  <2>1. /\ UNCHANGED <<state, indicator, status, cow, updated, dm, slot, successful>>
        /\ Become(c, Idle) /\ session' = IF c = Engine THEN "none" ELSE session
        /\ Idle.pc = "idle"
    BY Zenon, <1>6 DEF CallerDies, disk, system, Idle
  <2>2. PICK r : Become(c, r) /\ r.pc = "idle"
    BY <2>1
  <2>3. CreationOK(r)' /\ StarterOK(r)'
    BY Zenon, <2>2, OrdinaryOK DEF Ordinary
  <2> QED BY Zenon, <1>1, <2>1, <2>2, <2>3, FreeEngine
<1>7. CASE \/ \E s \in Slots : SetActive(s)
           \/ \E p \in Partitions : FlashHandler(p)
  <2>1. slot = Off /\ UNCHANGED <<indicator, dm, slot, call, session>>
    BY Zenon, <1>7 DEF SetActive, FlashHandler, disk, system
  <2>2. DeviceInv'
    BY Zenon, <1>1, <2>1 DEF DeviceInv
  <2> QED BY Zenon, <1>1, <1>2, <2>1, <2>2, IdleEngine
<1>8. ASSUME NEW p \in Partitions, MergeBlocks(p)
      PROVE  EngineInv'
  BY <1>8 DEF MergeBlocks, EngineInv, CreationOK, StarterOK, DeviceInv, system
<1>9. Reboot \/ PowerLoss \/ (\E c \in Callers : PowerLossInWrite(c))
         => Shutdown /\ UNCHANGED indicator
  BY Zenon DEF Reboot, PowerLoss, PowerLossInWrite, disk
<1> QED BY Zenon, <1>3, <1>4, <1>5, <1>6, <1>7, <1>8, <1>9 DEF Environment

LEMMA EngineInitial ==
    ASSUME Init
    PROVE  EngineInv
<1>1. /\ \A d \in Callers : call[d].pc = "idle"
      /\ \A p \in Partitions : dm[p] = "none"
      /\ session = "none" /\ indicator = "absent"
  BY Zenon DEF Init, Idle
<1>2. ASSUME NEW d \in Callers
      PROVE  CreationOK(call[d]) /\ StarterOK(call[d])
  BY Zenon, <1>1 DEF CreationOK, StarterOK, Creating, Looping, Deleting
<1> QED BY <1>1, <1>2 DEF EngineInv, DeviceInv

LEMMA EngineNext ==
    ASSUME Inv, EngineInv, [Next]_vars
    PROVE  EngineInv'
<1>1. ASSUME NEW c \in Callers, Step(c)
      PROVE  EngineInv'
  BY Zenon, <1>1, UnlockedEngine, RemovingEngine, DeletingEngine, PollingEngine, MergingEngine,
     RequestEngine, CreatingEngine, FinishingEngine DEF Step
<1>2. ASSUME NEW c \in Callers, Request(c)
      PROVE  EngineInv'
  BY Zenon, <1>2, RequestEngine
<1>3. CASE UNCHANGED vars
  BY ZenonT(30), <1>3 DEF vars, EngineInv, CreationOK, StarterOK, DeviceInv
<1> QED BY Zenon, <1>1, <1>2, <1>3, WorkEngine, EnvironmentEngine DEF Next

(* Blocks are only merged through a device in merge mode. *)
LEMMA MergingBlocks ==
    ASSUME Inv, EngineInv, Next, NEW p \in Partitions,
           base'[p] \in {"mixed", "new"}, base'[p] # base[p]
    PROVE  slot = New
<1>1. DOMAIN base = Partitions
  BY Zenon DEF Inv, CallInv, TypeOK
<1>2. PICK q \in Partitions : MergeBlocks(q) \/ FlashHandler(q)
  BY Zenon, BaseWriters
<1>3. ~FlashHandler(q)
  BY Zenon, <1>1 DEF FlashHandler
<1>4. dm[q] = "snapshot-merge"
  BY Zenon, <1>2, <1>3 DEF MergeBlocks
<1> QED BY Zenon, <1>4 DEF EngineInv, DeviceInv

LEMMA MergeStarts ==
    ASSUME Inv, EngineInv, Next, state \notin MergeStates, state' \in MergeStates
    PROVE  slot = New /\ successful[New]
<1>1. ASSUME NEW c \in Callers, WriteMerging(c)
      PROVE  slot = New /\ successful[New]
  <2>1. call[c].pc = "WriteMerging" /\ StarterOK(call[c])
    BY <1>1 DEF WriteMerging, At, EngineInv
  <2> QED BY <2>1 DEF StarterOK
<1>2. ASSUME NEW c \in Callers, \/ WriteNone(c) \/ WriteInitiated(c) \/ WriteUnverified(c)
                                \/ PowerLossInWrite(c) \/ AcknowledgeMergeFailure(c)
      PROVE  FALSE
  BY Zenon, <1>2 DEF WriteNone, WriteInitiated, WriteUnverified, PowerLossInWrite,
     AcknowledgeMergeFailure, ReadUpdateState, MergeStates
<1>3. ASSUME NEW c \in Callers, MergeDecision(c) \/ MergeInitiated(c)
      PROVE  FALSE
  <2>1. HolderOK(c, call[c], state, session)
    BY Zenon, CallerFacts
  <2>2. call[c].pc \in {"CheckTargetMergeState", "SwitchSnapshotToMerge"}
    BY Zenon, <1>3 DEF MergeDecision, MergeInitiated, At
  <2> QED BY Zenon, <2>1, <2>2 DEF HolderOK, Polling, MergeStates
<1> QED BY Zenon, <1>1, <1>2, <1>3, StateWriters

PollOK(r) ==
    Polling(r) =>
        /\ \A p \in Dropped(r) : ~HasLiveSnapshot(p)
        /\ r.pc # "CheckTargetMergeState" => ~HasLiveSnapshot(r.cur)

PollInv == NeedsRebootOnlyWhenMerged /\ \A c \in Callers : PollOK(call[c])

(***************************************************************************)
(* Without fastboot set_active, whatever has been merged or can be was     *)
(* committed to: the new slot is active and successful.                    *)
(***************************************************************************)
Committed == active = New /\ successful[New] /\ slot # Old

CommitInv ==
    /\ budget["set_active"] = 0
    /\ slot = New => active = New
    /\ (\A p \in Partitions : base[p] # "flashed")
       => \/ Committed
          \/ /\ state \notin MergeStates
             /\ \A p \in Partitions : base[p] = "old" /\ dm[p] # "snapshot-merge"

(* PollInv is inductive. *)

(* No partition gets a live snapshot. *)
NoneComesAlive == \A p \in Partitions : ~HasLiveSnapshot(p) => ~HasLiveSnapshot(p)'

LEMMA PollBecomes ==
    ASSUME Inv, PollInv, NEW c \in Callers, NEW r, Become(c, r), PollOK(r)',
           \/ NoneComesAlive /\ state' \in {state, "none", "initiated", "merging",
                                            "merge-failed", "unverified"}
           \/ NoneComesAlive /\ \A p \in Partitions : ~HasLiveSnapshot(p)
           \/ call[c].pc \in LockedLabels /\ state' # "merge-needs-reboot"
    PROVE  PollInv'
<1>1. call'[c] = r /\ \A d \in Callers \ {c} :
         /\ call'[d] = call[d]
         /\ call[c].pc \in LockedLabels => call[d].pc \notin LockedLabels
  BY Zenon, OtherCalls
<1>2. ASSUME NEW d \in Callers
      PROVE  PollOK(call[d])'
  <2>1. CASE d = c
    BY Zenon, <1>1, <2>1 DEF PollOK, Dropped
  <2>2. CASE d # c /\ NoneComesAlive
    <3>1. PollOK(call[d]) /\ call'[d] = call[d]
      BY Zenon, <1>1, <2>2 DEF PollInv
    <3>2. Polling(call[d]) => /\ Dropped(call[d]) \subseteq Partitions
                              /\ call[d].pc # "CheckTargetMergeState" =>
                                    call[d].cur \in Partitions
      BY Zenon, CallFacts DEF Polling, Dropped
    <3> QED BY Zenon, <2>2, <3>1, <3>2 DEF PollOK, NoneComesAlive, Dropped
  <2>3. CASE d # c /\ call[c].pc \in LockedLabels
    <3>1. call'[d] = call[d] /\ call[d].pc \notin LockedLabels
      BY Zenon, <1>1, <2>3
    <3>2. ~Polling(call'[d])
      BY <3>1 DEF Polling, LockedLabels, Deleting
    <3> QED BY Zenon, <3>2 DEF PollOK
  <2> QED BY Zenon, <2>1, <2>2, <2>3
<1>3. NeedsRebootOnlyWhenMerged'
  BY Zenon DEF PollInv, NeedsRebootOnlyWhenMerged, ReadUpdateState, NoneComesAlive
<1> QED BY Zenon, <1>2, <1>3 DEF PollInv

(* A step to a place outside the polling loop that writes no status file. *)
LEMMA QuietPoll ==
    ASSUME Inv, PollInv, NEW c \in Callers, NEW r, Become(c, r), ~Polling(r),
           UNCHANGED <<status, updated>>,
           state' \in {state, "none", "initiated", "merging", "merge-failed", "unverified"}
    PROVE  PollInv'
<1>1. PollOK(r)' /\ NoneComesAlive
  BY DEF PollOK, NoneComesAlive, HasLiveSnapshot
<1> QED BY Zenon, <1>1, PollBecomes

LEMMA UnlockedPoll ==
    ASSUME Inv, PollInv, NEW c \in Callers,
           \/ TryCancelUpdate(c) \/ CheckMergeState(c) \/ AcknowledgeMergeFailure(c)
           \/ WriteInitiated(c) \/ InitiateMerge(c) \/ WriteMerging(c) \/ MergeInitiated(c)
    PROVE  PollInv'
<1>1. call[c] \in Calls
  BY CallFacts
<1>2. /\ UNCHANGED <<status, updated>>
      /\ state' \in {state, "none", "initiated", "merging", "merge-failed", "unverified"}
  BY Zenon, <1>1, TryCancelEffect, CheckMergeStateEffect, AcknowledgeEffect, WriteInitiatedEffect,
     InitiateMergeEffect, WriteMergingEffect, MergeInitiatedEffect DEF disk
<1>3. CASE ~CheckMergeState(c)
  <2>1. PICK r : /\ Become(c, r)
                 /\ r.pc \in {"idle", "WriteInitiated", "CheckMergeState",
                              "RemoveAllSnapshots", "WriteMerging", "SwitchSnapshotToMerge"}
    <3>1. CASE TryCancelUpdate(c)
      BY <1>1, <3>1, TryCancelEffect
    <3>2. CASE AcknowledgeMergeFailure(c) \/ WriteInitiated(c) \/ MergeInitiated(c)
      BY Zenon, <3>2, AcknowledgeEffect, WriteInitiatedEffect, MergeInitiatedEffect
    <3>3. CASE InitiateMerge(c) \/ WriteMerging(c)
      BY Zenon, <1>1, <3>3, InitiateMergeEffect, WriteMergingEffect
    <3> QED BY Zenon, <1>3, <3>1, <3>2, <3>3
  <2> QED BY Zenon, <1>2, <2>1, QuietPoll DEF Polling, Deleting
<1>4. CASE CheckMergeState(c)
  <2>1. PICK r : /\ Become(c, r)
                 /\ \/ r.pc \in {"idle", "WriteInitiated", "RemoveAllSnapshots"}
                    \/ /\ r.pc = "CheckTargetMergeState"
                       /\ r.todo = ListSnapshots /\ r.seen = {}
    BY Zenon, <1>1, <1>4, CheckMergeStateEffect
  <2>2. \A p \in Partitions : p \notin ListSnapshots => ~HasLiveSnapshot(p)
    BY Zenon DEF ListSnapshots, HasLiveSnapshot
  <2>3. PollOK(r)'
    BY Zenon, <1>2, <2>1, <2>2 DEF PollOK, Polling, Deleting, Dropped, HasLiveSnapshot
  <2>4. NoneComesAlive
    BY Zenon, <1>2 DEF NoneComesAlive, HasLiveSnapshot
  <2> QED BY Zenon, <1>2, <2>1, <2>3, <2>4, PollBecomes
<1> QED BY Zenon, <1>3, <1>4

LEMMA DroppedMore ==
    ASSUME NEW q, NEW r, call[q].cur \in Partitions, DeletesOn(q, r), Polling(call[q]),
           PollOK(call[q]), call[q].pc # "CheckTargetMergeState", NoneComesAlive
    PROVE  PollOK(r)'
<1>1. \A p \in Dropped(r) : p \in Dropped(call[q]) \/ p = call[q].cur
  BY Zenon DEF DeletesOn, Dropped
<1>2. Dropped(r) \subseteq Partitions
  BY Zenon DEF Dropped
<1>3. \A p \in Dropped(r) : ~HasLiveSnapshot(p)
  BY Zenon, <1>1, <1>2 DEF PollOK
<1>4. r.pc # "CheckTargetMergeState" => r.cur = call[q].cur
  BY Zenon DEF DeletesOn
<1>5. ~HasLiveSnapshot(call[q].cur)
  BY Zenon DEF PollOK
<1>6. \A p \in Dropped(r) : ~HasLiveSnapshot(p)'
  BY Zenon, <1>2, <1>3 DEF NoneComesAlive
<1>7. r.pc # "CheckTargetMergeState" => ~HasLiveSnapshot(r.cur)'
  BY Zenon, <1>4, <1>5 DEF NoneComesAlive
<1> QED BY Zenon, <1>6, <1>7 DEF PollOK, Dropped

LEMMA DeletingPoll ==
    ASSUME Inv, PollInv, NEW c \in Callers,
           DeleteBackingImage(c) \/ RemoveStatusFile(c) \/ OnSnapshotMergeComplete(c)
    PROVE  PollInv'
<1>1. /\ call[c].pc \in Deleting \cup {"OnSnapshotMergeComplete"}
      /\ DeleteBackingImage(c) \/ RemoveStatusFile(c) => call[c].pc \in Deleting
  BY Zenon DEF DeleteBackingImage, RemoveStatusFile, OnSnapshotMergeComplete, At, Deleting
<1>2. /\ call[c] \in Calls /\ call[c].cur \in Partitions
      /\ call[c].pc \in Deleting => call[c].deleter \in Deleters
      /\ status \in [Partitions -> StatusStates]
  BY Zenon, <1>1, CallFacts
<1>3. /\ UNCHANGED <<state, updated>>
      /\ status' = status \/ status' = [status EXCEPT ![call[c].cur] = "absent"]
      /\ \E r : Become(c, r) /\ DeletesOn(c, r)
                /\ (Removing(call[c]) \/ Polling(call[c]) \/ Creating(call[c]))
  <2>1. CASE DeleteBackingImage(c)
    BY Zenon, <1>1, <1>2, <2>1, DeleteBackingImageEffect
  <2>2. CASE RemoveStatusFile(c)
    BY Zenon, <1>1, <1>2, <2>2, RemoveStatusFileEffect
  <2>3. CASE OnSnapshotMergeComplete(c)
    BY Zenon, <1>2, <2>3, MergeCompleteEffect DEF disk, Polling
  <2> QED BY Zenon, <2>1, <2>2, <2>3
<1>4. PICK r : Become(c, r) /\ DeletesOn(c, r)
               /\ (Removing(call[c]) \/ Polling(call[c]) \/ Creating(call[c]))
  BY Zenon, <1>3
<1>5. NoneComesAlive
  BY Zenon, <1>2, <1>3 DEF NoneComesAlive, HasLiveSnapshot
<1>6. CASE Polling(call[c])
  <2>1. PollOK(call[c]) /\ call[c].pc # "CheckTargetMergeState"
    BY Zenon, <1>1 DEF PollInv, Deleting
  <2>2. PollOK(r)'
    BY Zenon, <1>2, <1>4, <1>5, <1>6, <2>1, DroppedMore
  <2> QED BY Zenon, <1>3, <1>4, <1>5, <2>2, PollBecomes
<1>7. CASE ~Polling(call[c])
  <2>1. ~Polling(r)
    BY Zenon, <1>4, <1>7 DEF DeletesOn, Removing, Polling, Creating, Looping, Deleting
  <2>2. PollOK(r)'
    BY <2>1 DEF PollOK
  <2> QED BY Zenon, <1>3, <1>4, <1>5, <2>2, PollBecomes
<1> QED BY <1>6, <1>7

LEMMA RemovingPoll ==
    ASSUME Inv, PollInv, NEW c \in Callers,
           \/ RemoveSnapshotBootIndicator(c) \/ WriteNone(c)
           \/ \E p \in Partitions : RemoveSnapshot(c, p)
    PROVE  PollInv'
<1>1. call[c] \in Calls
  BY Zenon, CallFacts
<1>2. CASE RemoveSnapshotBootIndicator(c) \/ WriteNone(c)
  <2>1. PICK r : /\ Become(c, r)
                 /\ r.pc \in {"idle", "WriteInitiated", "RemoveAllSnapshots", "WriteNone"}
    BY Zenon, <1>1, <1>2, RemoveIndicatorEffect, WriteNoneEffect
  <2>2. UNCHANGED <<status, updated>> /\ state' \in {state, "none"}
    BY Zenon, <1>1, <1>2, RemoveIndicatorEffect, WriteNoneEffect
  <2> QED BY Zenon, <2>1, <2>2, QuietPoll DEF Polling, Deleting
<1>3. ASSUME NEW p \in Partitions, RemoveSnapshot(c, p)
      PROVE  PollInv'
  <2>1. PICK r : /\ Become(c, r)
                 /\ \/ r.pc = "RemoveAllSnapshots"
                    \/ r.pc = "DeleteBackingImage" /\ r.deleter = "RemoveAllSnapshots"
    BY Zenon, <1>1, <1>3, RemoveSnapshotEffect
  <2>2. UNCHANGED <<status, updated, state>>
    BY Zenon, <1>1, <1>3, RemoveSnapshotEffect DEF disk
  <2> QED BY Zenon, <2>1, <2>2, QuietPoll DEF Polling, Deleting
<1> QED BY Zenon, <1>2, <1>3

LEMMA PollingPoll ==
    ASSUME Inv, PollInv, NEW c \in Callers,
           MergeDecision(c) \/ \E p \in Partitions : CheckTargetMergeState(c, p)
    PROVE  PollInv'
<1>1. /\ call[c] \in Calls /\ call[c].todo \in SUBSET Partitions /\ PollOK(call[c])
      /\ status \in [Partitions -> StatusStates]
  BY CallFacts DEF PollInv
<1>2. CASE MergeDecision(c)
  <2>1. UNCHANGED <<status, updated>> /\ call[c].pc = "CheckTargetMergeState"
    BY Zenon, <1>1, <1>2, MergeDecisionEffect
  <2>2. PICK r : /\ Become(c, r)
                 /\ \/ /\ UNCHANGED state
                       /\ r.pc \in {"CheckMergeState", "AcknowledgeMergeFailure",
                                    "RemoveAllSnapshots"}
                    \/ /\ call[c].todo = {}
                       /\ {"merging", "failed"} \cap call[c].seen = {}
                       /\ r.pc \in {"idle", "WriteInitiated"}
    BY Zenon, <1>1, <1>2, MergeDecisionEffect
  <2>3. CASE state' = state
    BY Zenon, <2>1, <2>2, <2>3, QuietPoll DEF Polling, Deleting
  <2>4. CASE state' # state
    <3>1. \A p \in Partitions : ~HasLiveSnapshot(p)
      BY Zenon, <1>1, <2>1, <2>2, <2>4 DEF PollOK, Polling, Dropped
    <3>2. NoneComesAlive
      BY Zenon, <2>1 DEF NoneComesAlive, HasLiveSnapshot
    <3>3. PollOK(r)'
      BY Zenon, <2>2, <2>4 DEF PollOK, Polling, Deleting
    <3> QED BY Zenon, <2>2, <3>1, <3>2, <3>3, PollBecomes
  <2> QED BY Zenon, <2>3, <2>4
<1>3. ASSUME NEW p \in Partitions, CheckTargetMergeState(c, p)
      PROVE  PollInv'
  <2>1. /\ UNCHANGED <<state, updated>>
        /\ call[c].pc = "CheckTargetMergeState" /\ p \in call[c].todo
    BY ZenonT(30), <1>1, <1>3, CheckTargetEffect
  <2>2. PICK r :
          /\ Become(c, r)
          /\ \/ /\ UNCHANGED status /\ r.pc = "CheckTargetMergeState"
                /\ {"merging", "failed"} \cap r.seen # {}
             \/ /\ UNCHANGED status /\ r.pc = "DeleteBackingImage" /\ r.cur = p
                /\ r.todo = call[c].todo /\ r.seen = call[c].seen
                /\ IsCancelledSnapshot(p) \/ status[p] = "merge-completed"
             \/ /\ WriteSnapshotStatus(p, "merge-completed")
                /\ r.pc = "OnSnapshotMergeComplete" /\ r.cur = p
                /\ r.todo = call[c].todo /\ r.seen = call[c].seen
    BY <1>1, <1>3, CheckTargetEffect
  <2>3. NoneComesAlive
    BY Zenon, <1>1, <2>1, <2>2 DEF NoneComesAlive, HasLiveSnapshot, WriteSnapshotStatus
  <2>4. CASE r.pc = "CheckTargetMergeState"
    <3>1. Dropped(r) = {}
      BY Zenon, <2>2, <2>4 DEF Dropped
    <3>2. PollOK(r)'
      BY Zenon, <2>4, <3>1 DEF PollOK, Dropped
    <3> QED BY Zenon, <2>1, <2>2, <2>3, <3>2, PollBecomes
  <2>5. CASE r.pc # "CheckTargetMergeState"
    <3>1. Dropped(r) = Dropped(call[c]) /\ r.cur = p /\ Dropped(r) \subseteq Partitions
      BY Zenon, <2>2, <2>5 DEF Dropped
    <3>2. ~HasLiveSnapshot(p)'
      BY Zenon, <1>1, <2>1, <2>2, <2>5
         DEF HasLiveSnapshot, IsCancelledSnapshot, WriteSnapshotStatus
    <3>3. \A q \in Dropped(r) : ~HasLiveSnapshot(q)
      BY Zenon, <1>1, <2>1, <3>1 DEF PollOK, Polling
    <3>4. \A q \in Dropped(r) : ~HasLiveSnapshot(q)'
      BY Zenon, <2>3, <3>1, <3>3 DEF NoneComesAlive
    <3>5. PollOK(r)'
      BY Zenon, <3>1, <3>2, <3>4 DEF PollOK, Dropped
    <3> QED BY Zenon, <2>1, <2>2, <2>3, <3>5, PollBecomes
  <2> QED BY Zenon, <2>4, <2>5
<1> QED BY Zenon, <1>2, <1>3

(* The steps that bring a snapshot to life hold the lock, in another state. *)
LEMMA HeldPoll ==
    ASSUME Inv, PollInv, NEW c \in Callers, NEW r, Become(c, r), ~Polling(r),
           Creating(call[c]) \/ call[c].pc \in {"WriteIndicator", "WriteUnverified",
                                                "SwitchSnapshotToMerge"},
           state' \in {state, "unverified"}
    PROVE  PollInv'
<1>1. HolderOK(c, call[c], state, session)
  BY Zenon, CallerFacts
<1>2. state # "merge-needs-reboot"
  BY Zenon, <1>1 DEF HolderOK
<1>3. call[c].pc \in LockedLabels
  BY Zenon DEF Creating, Looping, LockedLabels, Deleting
<1>4. PollOK(r)'
  BY Zenon DEF PollOK
<1> QED BY Zenon, <1>2, <1>3, <1>4, PollBecomes

LEMMA CreatingPoll ==
    ASSUME Inv, PollInv, NEW c \in Callers,
           \/ CreateSnapshot(c) \/ CreateCowImage(c) \/ ZeroFillCows(c)
           \/ AutoDeleteSnapshot(c) \/ UpdatePartitionTable(c)
           \/ WriteIndicator(c) \/ WriteUnverified(c)
           \/ \E p \in Partitions : \/ DeleteExistingSnapshot(c, p) \/ InitializeCow(c, p)
                                    \/ SwitchSnapshotToMerge(c, p)
    PROVE  PollInv'
<1>1. call[c] \in Calls
  BY Zenon, CallFacts
<1>2. CASE CreateSnapshot(c) \/ CreateCowImage(c)
  <2>1. /\ UNCHANGED state /\ call[c].pc \in {"CreateSnapshot", "CreateCowImage"}
        /\ \E r : /\ Become(c, r)
                  /\ r.pc \in {"AutoDeleteSnapshot", "CreateCowImage", "ForEachPartition"}
    BY Zenon, <1>1, <1>2, CreateSnapshotEffect, CreateCowEffect
  <2> QED BY Zenon, <2>1, HeldPoll DEF Creating, Looping, Polling, Deleting
<1>3. CASE ZeroFillCows(c) \/ UpdatePartitionTable(c)
  <2>1. /\ UNCHANGED state /\ call[c].pc \in {"ForEachPartition", "InitializeCow"}
        /\ \E r : /\ Become(c, r)
                  /\ r.pc \in {"AutoDeleteSnapshot", "InitializeCow", "idle"}
    BY Zenon, <1>1, <1>3, ZeroFillEffect, UpdateTableEffect DEF disk
  <2> QED BY Zenon, <2>1, HeldPoll DEF Creating, Looping, Polling, Deleting
<1>4. CASE AutoDeleteSnapshot(c)
  <2>1. /\ UNCHANGED state /\ call[c].pc = "AutoDeleteSnapshot"
        /\ \E r : /\ Become(c, r)
                  /\ r.pc = "idle" \/ (/\ r.pc = "DeleteBackingImage"
                                       /\ r.deleter = "AutoDeleteSnapshot")
    BY Zenon, <1>1, <1>4, AutoDeleteEffect DEF disk
  <2> QED BY Zenon, <2>1, HeldPoll DEF Creating, Polling, Deleting
<1>5. CASE WriteIndicator(c)
  <2>1. UNCHANGED state /\ call[c].pc = "WriteIndicator" /\ Goto(c, "WriteUnverified")
    BY ZenonT(30), <1>5 DEF WriteIndicator, At
  <2>2. PICK r : Become(c, r) /\ r.pc = "WriteUnverified"
    BY <1>1, <2>1, GotoResult
  <2> QED BY Zenon, <2>1, <2>2, HeldPoll DEF Polling, Deleting
<1>6. CASE WriteUnverified(c)
  <2>1. state' = "unverified" /\ call[c].pc = "WriteUnverified" /\ Become(c, Idle)
    BY Zenon, <1>6 DEF WriteUnverified, At
  <2>2. PICK r : Become(c, r) /\ r.pc = "idle"
    BY Zenon, <2>1, IdleResult
  <2> QED BY Zenon, <2>1, <2>2, HeldPoll DEF Polling, Deleting
<1>7. ASSUME NEW p \in Partitions, DeleteExistingSnapshot(c, p)
      PROVE  PollInv'
  <2>1. /\ UNCHANGED state /\ call[c].pc = "ForEachPartition"
        /\ \E r : /\ Become(c, r) /\ r.pc = "DeleteBackingImage"
                  /\ r.deleter = "CreateUpdateSnapshots"
    BY ZenonT(30), <1>1, <1>7, DeleteExistingEffect DEF disk
  <2> QED BY Zenon, <2>1, HeldPoll DEF Creating, Looping, Polling, Deleting
<1>8. ASSUME NEW p \in Partitions, InitializeCow(c, p) \/ SwitchSnapshotToMerge(c, p)
      PROVE  PollInv'
  <2>1. /\ UNCHANGED state /\ call[c].pc \in {"InitializeCow", "SwitchSnapshotToMerge"}
        /\ \E r : /\ Become(c, r) /\ r.pc \in {"AutoDeleteSnapshot", "InitializeCow",
                                               "SwitchSnapshotToMerge"}
    BY Zenon, <1>1, <1>8, InitializeCowEffect, SwitchEffect
  <2> QED BY Zenon, <2>1, HeldPoll DEF Creating, Polling, Deleting
<1> QED BY Zenon, <1>2, <1>3, <1>4, <1>5, <1>6, <1>7, <1>8

LEMMA IdlePoll ==
    ASSUME \A d \in Callers : call'[d].pc = "idle", NeedsRebootOnlyWhenMerged'
    PROVE  PollInv'
  BY Zenon DEF PollInv, PollOK, Polling, Deleting

LEMMA PollNext ==
    ASSUME Inv, EngineInv, PollInv, [Next]_vars
    PROVE  PollInv'
<1>1. ASSUME NEW c \in Callers, Step(c)
      PROVE  PollInv'
  BY Zenon, <1>1, UnlockedPoll, DeletingPoll, RemovingPoll, PollingPoll, CreatingPoll DEF Step
<1>2. ASSUME NEW c \in Callers, Request(c)
      PROVE  PollInv'
  <2>1. UNCHANGED <<state, status, updated>>
    BY Zenon, <1>2, RequestEffect DEF disk
  <2>2. PICK r : /\ Become(c, r)
                 /\ r.pc \in {"idle", "TryCancelUpdate", "ForEachPartition",
                              "WriteIndicator", "InitiateMerge", "CheckMergeState"}
    BY <1>2, RequestEffect
  <2> QED BY Zenon, <2>1, <2>2, QuietPoll DEF Polling, Deleting
<1>3. CASE UNCHANGED <<state, status, updated, call>>
  BY Zenon, <1>3 DEF PollInv, PollOK, Dropped, NeedsRebootOnlyWhenMerged, ReadUpdateState,
              HasLiveSnapshot
<1>4. ASSUME NEW c \in Callers, CallerDies(c)
      PROVE  PollInv'
  <2>1. UNCHANGED <<state, status, updated>>
    BY Zenon, <1>4 DEF CallerDies, disk
  <2>2. PICK r : Become(c, r) /\ r.pc = "idle"
    BY Zenon, <1>4, IdleResult DEF CallerDies
  <2> QED BY Zenon, <2>1, <2>2, QuietPoll DEF Polling, Deleting
<1>5. ASSUME Shutdown, UNCHANGED <<status, updated>>, state' \in {state, ""}
      PROVE  PollInv'
  <2>1. \A d \in Callers : call'[d].pc = "idle"
    BY Zenon, <1>5 DEF Shutdown, Idle
  <2>2. NeedsRebootOnlyWhenMerged'
    BY Zenon, <1>5 DEF PollInv, NeedsRebootOnlyWhenMerged, ReadUpdateState, HasLiveSnapshot
  <2> QED BY Zenon, <2>1, <2>2, IdlePoll
<1>6. ASSUME NEW p \in Partitions, FlashHandler(p)
      PROVE  PollInv'
  <2>1. /\ slot = Off /\ UNCHANGED <<state, status, call>>
        /\ updated' = [updated EXCEPT ![p] = FALSE]
    BY Zenon, <1>6 DEF FlashHandler
  <2>2. \A d \in Callers : call'[d].pc = "idle"
    BY Zenon, <2>1 DEF Inv, OffInv
  <2>3. DOMAIN updated = Partitions
    BY Zenon DEF Inv, CallInv, TypeOK
  <2>4. NeedsRebootOnlyWhenMerged'
    BY Zenon, <2>1, <2>3 DEF PollInv, NeedsRebootOnlyWhenMerged, ReadUpdateState, HasLiveSnapshot
  <2> QED BY Zenon, <2>2, <2>4, IdlePoll
<1>7. CASE EngineWork
  <2>1. UNCHANGED <<state, status, updated, call>>
    BY Zenon, <1>7 DEF EngineWork, SetActiveBootSlot, MapUpdateSnapshot, UnmapUpdateSnapshot,
       WriteUpdate, disk
  <2> QED BY Zenon, <1>3, <2>1
<1>8. CASE Environment
  <2>1. CASE \/ Boot \/ MarkBootSuccessful \/ \E s \in Slots : SetActive(s)
             \/ \E p \in Partitions : MergeBlocks(p)
    BY Zenon, <1>3, <2>1 DEF Boot, MarkBootSuccessful, SetActive, MergeBlocks, disk
  <2>2. CASE Reboot \/ PowerLoss \/ \E c \in Callers : PowerLossInWrite(c)
    BY Zenon, <1>5, <2>2 DEF Reboot, PowerLoss, PowerLossInWrite, disk
  <2> QED BY Zenon, <1>4, <1>6, <1>8, <2>1, <2>2 DEF Environment
<1> QED BY Zenon, <1>1, <1>2, <1>3, <1>7, <1>8 DEF Next, vars

(* CommitInv is inductive. *)

(* What a step of a caller does to the devices. *)
LEMMA StepDevices ==
    ASSUME Inv, NEW c \in Callers, Step(c)
    PROVE  \/ dm' = dm
           \/ \E p \in Partitions :
                 RemoveSnapshot(c, p) \/ SwitchSnapshotToMerge(c, p) \/ InitializeCow(c, p)
           \/ OnSnapshotMergeComplete(c)
  BY Zenon DEF Step, TryCancelUpdate, RemoveSnapshotBootIndicator, WriteNone, WriteInitiated,
     DeleteBackingImage, RemoveStatusFile, CheckMergeState, MergeDecision,
     AcknowledgeMergeFailure, InitiateMerge, WriteMerging, MergeInitiated, WriteIndicator,
     WriteUnverified, CreateSnapshot, CreateCowImage, ZeroFillCows, UpdatePartitionTable,
     AutoDeleteSnapshot, CheckTargetMergeState, DeleteExistingSnapshot

(* The device that the engine maps is a snapshot. *)
LEMMA MapGivesSnapshot ==
    ASSUME Inv, EngineInv, NEW p \in Partitions, MapUpdateSnapshot(p)
    PROVE  dm' = [dm EXCEPT ![p] = "snapshot"]
<1>1. session = "created" /\ dm' = [dm EXCEPT ![p] = MapPartitionWithSnapshot(p)]
  BY Zenon DEF MapUpdateSnapshot
<1>2. HasLiveSnapshot(p) /\ MapCowDevices(p) /\ ReadUpdateState = "initiated"
  BY Zenon, <1>1 DEF Inv, CallInv, SessionInv, EngineInv, HasLiveSnapshot, MapCowDevices,
              ReadUpdateState
<1>3. SnapshotMode = "snapshot"
  BY <1>2 DEF SnapshotMode
<1>4. MapPartitionWithSnapshot(p) = "snapshot"
  BY Zenon, <1>2, <1>3 DEF MapPartitionWithSnapshot
<1> QED BY Zenon, <1>1, <1>4

(* No device gets into merge mode outside a merge. *)
LEMMA MergeDevices ==
    ASSUME Inv, EngineInv, Next, state \notin MergeStates,
           \A p \in Partitions : dm[p] # "snapshot-merge"
    PROVE  \A p \in Partitions : dm'[p] # "snapshot-merge"
<1>1. DOMAIN dm = Partitions
  BY Zenon DEF Inv, CallInv, TypeOK
<1>2. ASSUME NEW c \in Callers, Step(c)
      PROVE  \A p \in Partitions : dm'[p] # "snapshot-merge"
  <2>0. call[c] \in Calls
    BY Zenon, CallFacts
  <2>1. ASSUME NEW p \in Partitions, RemoveSnapshot(c, p) \/ InitializeCow(c, p)
        PROVE  dm' = dm \/ dm' = [dm EXCEPT ![p] = "none"]
    BY Zenon, <2>0, <2>1, RemoveSnapshotEffect, InitializeCowEffect
  <2>2. ASSUME NEW p \in Partitions, SwitchSnapshotToMerge(c, p)
        PROVE  FALSE
    <3>1. HolderOK(c, call[c], state, session) /\ call[c].pc = "SwitchSnapshotToMerge"
      BY Zenon, <2>2, CallerFacts DEF SwitchSnapshotToMerge, At
    <3> QED BY Zenon, <3>1 DEF HolderOK, MergeStates
  <2>3. OnSnapshotMergeComplete(c) => FALSE
    <3>1. ASSUME OnSnapshotMergeComplete(c) PROVE FALSE
      <4>1. HolderOK(c, call[c], state, session) /\ call[c].pc = "OnSnapshotMergeComplete"
        BY Zenon, <3>1, CallerFacts DEF OnSnapshotMergeComplete, At
      <4> QED BY Zenon, <4>1 DEF HolderOK, Polling
    <3> QED BY Zenon, <3>1
  <2>4. dm' = dm \/ \E p \in Partitions : dm' = [dm EXCEPT ![p] = "none"]
    BY Zenon, <1>2, <2>1, <2>2, <2>3, StepDevices
  <2> QED BY Zenon, <1>1, <2>4
<1>3. ASSUME NEW c \in Callers, Request(c)
      PROVE  dm' = dm
  BY Zenon, <1>3, RequestEffect
<1>4. CASE EngineWork
  <2>1. \/ dm' = dm
        \/ \E p \in Partitions, x \in {"none", "snapshot"} : dm' = [dm EXCEPT ![p] = x]
    BY Zenon, <1>4, MapGivesSnapshot DEF EngineWork, SetActiveBootSlot, UnmapUpdateSnapshot,
       WriteUpdate, UnmapPartitionWithSnapshot
  <2> QED BY Zenon, <1>1, <2>1
<1>5. CASE Environment
  <2>1. CASE Boot
    <3>1. ReadUpdateState \notin {"merging", "merge-failed"}
      BY Zenon DEF ReadUpdateState, MergeStates
    <3>2. \A p \in Partitions : FirstStageDevice(p) # "snapshot-merge"
      BY Zenon, <3>1 DEF FirstStageDevice, MapPartitionWithSnapshot, SnapshotMode
    <3>3. dm' = dm \/ dm' = [p \in Partitions |->
                                IF active = New THEN FirstStageDevice(p) ELSE "none"]
      BY <2>1 DEF Boot
    <3> QED BY Zenon, <3>2, <3>3
  <2>2. ASSUME NEW c \in Callers, Reboot \/ PowerLoss \/ PowerLossInWrite(c)
        PROVE  dm' = [p \in Partitions |-> "none"]
    BY Zenon, <2>2 DEF Reboot, PowerLoss, PowerLossInWrite, Shutdown
  <2>3. CASE \/ MarkBootSuccessful \/ \E s \in Slots : SetActive(s)
             \/ \E c \in Callers : CallerDies(c)
             \/ \E p \in Partitions : MergeBlocks(p) \/ FlashHandler(p)
    BY Zenon, <2>3 DEF MarkBootSuccessful, SetActive, CallerDies, MergeBlocks, FlashHandler
  <2> QED BY Zenon, <1>5, <2>1, <2>2, <2>3, SnapshotAssumption DEF Environment
<1> QED BY Zenon, <1>2, <1>3, <1>4, <1>5 DEF Next

LEMMA StaysCommitted ==
    ASSUME Inv, EngineInv, CommitInv, Next, Committed
    PROVE  Committed'
<1>1. /\ active = New /\ successful[New] = TRUE /\ slot # Old /\ budget["set_active"] = 0
      /\ successful \in [Slots -> BOOLEAN] /\ slot \in Slots \cup {Off}
  BY Zenon DEF Committed, CommitInv, Inv, CallInv, TypeOK
<1>2. ~SetActiveBootSlot
  BY Zenon, <1>1 DEF SetActiveBootSlot, EngineInv
<1>3. \A s \in Slots : ~SetActive(s)
  BY <1>1 DEF SetActive, Spend
<1>4. CASE UNCHANGED <<active, successful, slot>>
  BY Zenon, <1>4 DEF Committed
<1>5. CASE Boot
  BY Zenon, <1>1, <1>5 DEF Boot, Committed, Old, New
<1>6. CASE MarkBootSuccessful
  BY Zenon, <1>1, <1>6 DEF MarkBootSuccessful, Committed, Slots
<1>7. CASE Shutdown
  BY Zenon, <1>1, <1>7 DEF Shutdown, bootControl, Committed, Off, Old
<1> QED BY Zenon, <1>2, <1>3, <1>4, <1>5, <1>6, <1>7, SlotWriters

LEMMA CommitNext ==
    ASSUME Inv, EngineInv, CommitInv, [Next]_vars
    PROVE  CommitInv'
<1>1. /\ budget["set_active"] = 0 /\ (slot = New => active = New)
      /\ DOMAIN base = Partitions /\ slot \in Slots \cup {Off} /\ active \in Slots
  BY Zenon DEF CommitInv, Inv, CallInv, TypeOK
<1>2. CASE UNCHANGED vars
  BY Zenon, <1>2 DEF vars, CommitInv, Committed
<1>3. CASE Next
  <2>1. \A s \in Slots : ~SetActive(s)
    BY <1>1 DEF SetActive, Spend
  <2>2. budget'["set_active"] = 0
    BY Zenon, <1>1, <1>3, <2>1, BudgetWriters
  <2>3. slot' = New => active' = New
    BY Zenon, <1>1, <1>3, <2>1, SlotWriters
       DEF SetActiveBootSlot, Boot, MarkBootSuccessful, Shutdown, Off, New
  <2>4. CASE Committed
    BY Zenon, <1>3, <2>2, <2>3, <2>4, StaysCommitted DEF CommitInv
  <2>5. ASSUME ~Committed, \A p \in Partitions : base'[p] # "flashed"
        PROVE  /\ state' \notin MergeStates
               /\ \A p \in Partitions : base'[p] = "old" /\ dm'[p] # "snapshot-merge"
    <3>1. \A p \in Partitions : ~FlashHandler(p)
      BY Zenon, <1>1, <2>5 DEF FlashHandler
    <3>2. \A p \in Partitions : base[p] # "flashed"
      BY <1>1, <1>3, <2>5, <3>1, BaseWriters DEF MergeBlocks
    <3>3. /\ state \notin MergeStates
          /\ \A p \in Partitions : base[p] = "old" /\ dm[p] # "snapshot-merge"
      BY Zenon, <2>5, <3>2 DEF CommitInv
    <3>4. base' = base
      BY Zenon, <1>3, <3>1, <3>3, BaseWriters DEF MergeBlocks
    <3>5. state' \notin MergeStates
      BY Zenon, <1>1, <1>3, <2>5, <3>3, MergeStarts DEF Committed, Old, New
    <3> QED BY Zenon, <1>3, <3>3, <3>4, <3>5, MergeDevices
  <2> QED BY Zenon, <2>2, <2>3, <2>4, <2>5 DEF CommitInv
<1> QED BY Zenon, <1>2, <1>3
===============================================================================
