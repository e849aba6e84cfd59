--------------------------- MODULE SnapshotEffects ----------------------------
(***************************************************************************)
(* What each step of SnapshotManager does, in the terms that the proofs    *)
(* about it need: the call that its caller becomes, and what it writes.    *)
(***************************************************************************)
EXTENDS SnapshotInvariants, TLAPS

LEMMA CallerFacts ==
    ASSUME Inv, NEW c \in Callers
    PROVE  /\ RestTypeOK
           /\ call \in [Callers -> Calls]
           /\ call[c] \in Calls
           /\ lock = c <=> call[c].pc \in LockedLabels
           /\ HolderOK(c, call[c], state, session)
           /\ EngineOK(c, call[c], session)
           /\ SessionInv
  BY Zenon DEF Inv, CallInv, TypeOK, RestTypeOK, LockInv

LEMMA CallFacts ==
    ASSUME Inv, NEW c \in Callers
    PROVE  /\ call \in [Callers -> Calls] /\ call[c] \in Calls
           /\ call[c].todo \in SUBSET Partitions
           /\ status \in [Partitions -> StatusStates] /\ DOMAIN cow = Partitions
           /\ DOMAIN dm = Partitions
           /\ call[c].pc \in Deleting => call[c].deleter \in Deleters
           /\ call[c].pc \in Deleting \cup {"OnSnapshotMergeComplete", "CreateSnapshot",
                                            "CreateCowImage"} => call[c].cur \in Partitions
<1>1. /\ call \in [Callers -> Calls] /\ call[c] \in Calls /\ RestTypeOK
      /\ HolderOK(c, call[c], state, session)
  BY CallerFacts
<1>2. call[c].todo \in SUBSET Partitions
  BY <1>1 DEF Calls
<1> QED BY Zenon, <1>1, <1>2 DEF HolderOK, RestTypeOK

LEMMA OtherCalls ==
    ASSUME Inv, NEW c \in Callers, NEW r, Become(c, r)
    PROVE  /\ call'[c] = r
           /\ \A d \in Callers \ {c} :
                 /\ call'[d] = call[d]
                 /\ call[c].pc \in LockedLabels => call[d].pc \notin LockedLabels
<1>1. call \in [Callers -> Calls] /\ LockInv
  BY Zenon DEF Inv, CallInv, TypeOK
<1> QED BY <1>1 DEF Become, LockInv

(* The actions that write the state file. *)
LEMMA StateWriters ==
    ASSUME Next
    PROVE  \/ state' = state
           \/ \E c \in Callers :
                 \/ WriteNone(c) \/ WriteInitiated(c) \/ MergeDecision(c)
                 \/ AcknowledgeMergeFailure(c) \/ WriteMerging(c)
                 \/ MergeInitiated(c) \/ WriteUnverified(c) \/ PowerLossInWrite(c)
<1>1. ASSUME NEW c \in Callers, Step(c),
             ~(\/ WriteNone(c) \/ WriteInitiated(c) \/ MergeDecision(c)
               \/ AcknowledgeMergeFailure(c) \/ WriteMerging(c)
               \/ MergeInitiated(c) \/ WriteUnverified(c))
      PROVE  state' = state
  BY Zenon, <1>1 DEF Step, TryCancelUpdate, RemoveSnapshotBootIndicator, DeleteBackingImage,
     RemoveStatusFile, CheckMergeState, OnSnapshotMergeComplete, InitiateMerge,
     WriteIndicator, CreateSnapshot, CreateCowImage, ZeroFillCows, UpdatePartitionTable,
     AutoDeleteSnapshot, RemoveSnapshot, CheckTargetMergeState, SwitchSnapshotToMerge,
     DeleteExistingSnapshot, InitializeCow, disk
<1>2. ASSUME NEW c \in Callers, Request(c)
      PROVE  state' = state
  BY <1>2 DEF Request, BeginUpdate, CancelUpdate, CreateUpdateSnapshots,
     FinishedSnapshotWrites, MergeCmdHandler, disk
<1>3. CASE EngineWork
  BY <1>3 DEF EngineWork, SetActiveBootSlot, MapUpdateSnapshot, UnmapUpdateSnapshot,
     WriteUpdate, disk
<1>4. ASSUME Environment, \A c \in Callers : ~PowerLossInWrite(c)
      PROVE  state' = state
  BY Zenon, <1>4 DEF Environment, Boot, MarkBootSuccessful, Reboot, PowerLoss, CallerDies,
     SetActive, MergeBlocks, FlashHandler, disk
<1> QED BY <1>1, <1>2, <1>3, <1>4 DEF Next

(* The actions that write a status file or the blocks of a partition. *)
LEMMA StatusWriters ==
    ASSUME Next
    PROVE  \/ status' = status /\ base' = base
           \/ \E c \in Callers : CreateSnapshot(c) \/ RemoveStatusFile(c)
           \/ \E c \in Callers, p \in Partitions :
                 CheckTargetMergeState(c, p) \/ SwitchSnapshotToMerge(c, p)
           \/ \E p \in Partitions : MergeBlocks(p) \/ FlashHandler(p)
<1>1. ASSUME NEW c \in Callers, Step(c),
             ~(CreateSnapshot(c) \/ RemoveStatusFile(c)),
             ~\E p \in Partitions : CheckTargetMergeState(c, p) \/ SwitchSnapshotToMerge(c, p)
      PROVE  status' = status /\ base' = base
  BY Zenon, <1>1 DEF Step, TryCancelUpdate, RemoveSnapshotBootIndicator, WriteNone,
     WriteInitiated, DeleteBackingImage, CheckMergeState, OnSnapshotMergeComplete,
     MergeDecision, AcknowledgeMergeFailure, InitiateMerge, WriteMerging,
     MergeInitiated, WriteIndicator, WriteUnverified, CreateCowImage, ZeroFillCows,
     UpdatePartitionTable, AutoDeleteSnapshot, RemoveSnapshot, DeleteExistingSnapshot,
     InitializeCow, disk
<1>2. ASSUME NEW c \in Callers, Request(c)
      PROVE  status' = status /\ base' = base
  BY <1>2 DEF Request, BeginUpdate, CancelUpdate, CreateUpdateSnapshots,
     FinishedSnapshotWrites, MergeCmdHandler, disk
<1>3. CASE EngineWork
  BY <1>3 DEF EngineWork, SetActiveBootSlot, MapUpdateSnapshot, UnmapUpdateSnapshot,
     WriteUpdate, disk
<1>4. ASSUME Environment, ~\E p \in Partitions : MergeBlocks(p) \/ FlashHandler(p)
      PROVE  status' = status /\ base' = base
  BY Zenon, <1>4 DEF Environment, Boot, MarkBootSuccessful, Reboot, PowerLoss,
     PowerLossInWrite, CallerDies, SetActive, disk
<1> QED BY <1>1, <1>2, <1>3, <1>4 DEF Next

(* The call r that each of the operators on call leaves behind. *)

LEMMA IdleResult ==
    ASSUME NEW c, Become(c, Idle)
    PROVE  \E r : Become(c, r) /\ r.pc = "idle"
  BY DEF Idle

LEMMA StartResult ==
    ASSUME NEW c, NEW op, NEW label, Start(c, op, label)
    PROVE  \E r : Become(c, r) /\ r.pc = label
<1> DEFINE r == [Idle EXCEPT !.op = op, !.pc = label]
<1>1. r.pc = label
  BY DEF Idle
<1> QED BY Zenon, <1>1 DEF Start

LEMMA ProceedResult ==
    ASSUME NEW c, Proceed(c)
    PROVE  \E r : Become(c, r) /\ r.pc \in {"idle", "WriteInitiated"}
  BY IdleResult, StartResult DEF Proceed

LEMMA GotoResult ==
    ASSUME NEW c, call[c] \in Calls, NEW label, Goto(c, label)
    PROVE  \E r : /\ Become(c, r) /\ r.pc = label /\ r.todo = call[c].todo
                  /\ r.cur = call[c].cur /\ r.seen = call[c].seen
                  /\ r.deleter = call[c].deleter
<1> DEFINE r == [call[c] EXCEPT !.pc = label]
<1>1. /\ r.pc = label /\ r.todo = call[c].todo /\ r.cur = call[c].cur
      /\ r.seen = call[c].seen /\ r.deleter = call[c].deleter
  BY DEF Calls
<1> QED BY Zenon, <1>1 DEF Goto, Become

LEMMA RemoveAllResult ==
    ASSUME NEW c, call[c] \in Calls, NEW rem, RemoveAllUpdateState(c, rem)
    PROVE  \E r : Become(c, r) /\ r.pc = "RemoveAllSnapshots"
<1> DEFINE r == [call[c] EXCEPT !.pc = "RemoveAllSnapshots", !.todo = ListSnapshots,
                              !.cur = NoPartition, !.seen = {},
                              !.deleter = "none", !.remover = rem]
<1>1. r.pc = "RemoveAllSnapshots"
  BY DEF Calls
<1> QED BY Zenon, <1>1 DEF RemoveAllUpdateState

LEMMA RemoveReturnsResult ==
    ASSUME NEW c, call[c] \in Calls, NEW ok, RemoveReturns(c, ok)
    PROVE  \E r : /\ Become(c, r)
                  /\ r.pc \in {"idle", "WriteInitiated", "RemoveAllSnapshots"}
<1>1. CASE call[c].remover = "TryCancelUpdate"
  BY <1>1, ProceedResult, IdleResult DEF RemoveReturns
<1>2. CASE call[c].remover = "HandleCancelledUpdate"
  BY <1>2, RemoveAllResult DEF RemoveReturns
<1>3. CASE call[c].remover \notin {"TryCancelUpdate", "HandleCancelledUpdate"}
  BY <1>3, ProceedResult DEF RemoveReturns
<1> QED BY <1>1, <1>2, <1>3

LEMMA PolledResult ==
    ASSUME NEW c, call[c] \in Calls, NEW p, NEW flags, Polled(c, p, flags)
    PROVE  \E r : /\ Become(c, r) /\ r.pc = "CheckTargetMergeState"
                  /\ r.todo = call[c].todo \ {p} /\ r.seen = call[c].seen \cup flags
<1> DEFINE r == [call[c] EXCEPT !.pc = "CheckTargetMergeState", !.todo = @ \ {p},
                              !.cur = NoPartition, !.seen = @ \cup flags,
                              !.deleter = "none"]
<1>1. /\ r.pc = "CheckTargetMergeState" /\ r.todo = call[c].todo \ {p}
      /\ r.seen = call[c].seen \cup flags
  BY DEF Calls
<1> QED BY Zenon, <1>1 DEF Polled

LEMMA DeleteResult ==
    ASSUME NEW c, call[c] \in Calls, NEW p, NEW d, DeleteSnapshot(c, p, d)
    PROVE  \E r : /\ Become(c, r) /\ r.pc = "DeleteBackingImage" /\ r.cur = p
                  /\ r.deleter = d /\ r.todo = call[c].todo /\ r.seen = call[c].seen
<1> DEFINE r == [call[c] EXCEPT !.pc = "DeleteBackingImage", !.cur = p, !.deleter = d]
<1>1. /\ r.pc = "DeleteBackingImage" /\ r.cur = p
      /\ r.deleter = d /\ r.todo = call[c].todo /\ r.seen = call[c].seen
  BY DEF Calls
<1> QED BY Zenon, <1>1 DEF DeleteSnapshot

LEMMA UnwindResult ==
    ASSUME NEW c, call[c] \in Calls, NEW created, Unwind(c, created)
    PROVE  \E r : Become(c, r) /\ r.pc = "AutoDeleteSnapshot"
<1> DEFINE r == [call[c] EXCEPT !.pc = "AutoDeleteSnapshot", !.todo = created,
                              !.cur = NoPartition, !.deleter = "none"]
<1>1. r.pc = "AutoDeleteSnapshot"
  BY DEF Calls
<1> QED BY Zenon, <1>1 DEF Unwind

(***************************************************************************)
(* DeleteSnapshot returns.  Whoever polls has no more to do with the       *)
(* snapshot, and flags no merge in progress.                               *)
(***************************************************************************)
LEMMA DeletedResult ==
    ASSUME NEW c, call[c] \in Calls, NEW ok \in BOOLEAN, Deleted(c, ok),
           call[c].pc \in Deleting, call[c].deleter \in Deleters
    PROVE  \E r : /\ Become(c, r)
                  /\ Removing(call[c]) => r.pc = "RemoveAllSnapshots"
                  /\ Polling(call[c]) =>
                        /\ r.pc = "CheckTargetMergeState"
                        /\ r.todo = call[c].todo \ {call[c].cur}
                        /\ call[c].seen \subseteq r.seen
                  /\ Creating(call[c]) =>
                        \/ r.pc = "AutoDeleteSnapshot"
                        \/ /\ Looping(call[c]) /\ r.pc = "CreateSnapshot"
                           /\ r.cur = call[c].cur /\ r.todo = call[c].todo
<1>1. CASE call[c].deleter = "RemoveAllSnapshots"
  <2> DEFINE r == [call[c] EXCEPT !.pc = "RemoveAllSnapshots",
                        !.todo = @ \ {call[c].cur}, !.cur = NoPartition,
                        !.seen = @ \cup (IF ok THEN {} ELSE {"failed"}),
                        !.deleter = "none"]
  <2>1. r.pc = "RemoveAllSnapshots"
    BY DEF Calls
  <2>2. Become(c, r)
    BY <1>1 DEF Deleted
  <2>3. ~Polling(call[c]) /\ ~Creating(call[c])
    BY <1>1 DEF Polling, Creating, Looping, Deleting
  <2> HIDE DEF r
  <2> QED BY <2>1, <2>2, <2>3
<1>2. CASE call[c].deleter \in {"Cancelled", "MergedBefore", "Collapsed"}
  <2>1. PICK flags : Polled(c, call[c].cur, flags)
    BY <1>2 DEF Deleted
  <2>2. ~Removing(call[c]) /\ ~Creating(call[c])
    BY <1>2 DEF Removing, Creating, Looping, Deleting
  <2> QED BY <2>1, <2>2, PolledResult
<1>3. CASE call[c].deleter = "CreateUpdateSnapshots" /\ ok
  <2> DEFINE r == [call[c] EXCEPT !.pc = "CreateSnapshot", !.deleter = "none"]
  <2>1. r.pc = "CreateSnapshot" /\ r.cur = call[c].cur /\ r.todo = call[c].todo
    BY DEF Calls
  <2>2. Become(c, r)
    BY <1>3 DEF Deleted
  <2>3. ~Polling(call[c]) /\ ~Removing(call[c]) /\ Looping(call[c])
    BY <1>3 DEF Polling, Removing, Looping, Deleting
  <2> HIDE DEF r
  <2> QED BY <2>1, <2>2, <2>3
<1>4. CASE \/ call[c].deleter = "CreateUpdateSnapshots" /\ ~ok
           \/ call[c].deleter = "AutoDeleteSnapshot"
  <2>1. PICK created : Unwind(c, created)
    BY <1>4 DEF Deleted
  <2>2. ~Polling(call[c]) /\ ~Removing(call[c])
    BY <1>4 DEF Polling, Removing, Deleting
  <2> QED BY <2>1, <2>2, UnwindResult
<1> QED BY <1>1, <1>2, <1>3, <1>4 DEF Deleters

(* What each step of a call does to the disk, the devices and the call. *)

LEMMA TryCancelEffect ==
    ASSUME NEW c, call[c] \in Calls, TryCancelUpdate(c)
    PROVE  /\ UNCHANGED <<disk, active, successful, slot, dm, session>>
           /\ \E r : /\ Become(c, r)
                     /\ \/ r.pc \in {"idle", "WriteInitiated", "CheckMergeState"}
                        \/ CanCancel /\ r.pc = "RemoveAllSnapshots"
<1>1. UNCHANGED <<disk, active, successful, slot, dm, session>>
  BY DEF TryCancelUpdate, disk, system
<1>2. CASE CanCancel /\ RemoveAllUpdateState(c, "TryCancelUpdate")
  BY <1>1, <1>2, RemoveAllResult
<1>3. CASE Proceed(c) \/ Goto(c, "CheckMergeState") \/ Become(c, Idle)
  BY <1>1, <1>3, ProceedResult, GotoResult, IdleResult
<1>4. \/ CanCancel /\ RemoveAllUpdateState(c, "TryCancelUpdate")
      \/ Proceed(c) \/ Goto(c, "CheckMergeState") \/ Become(c, Idle)
  BY Zenon DEF TryCancelUpdate
<1> QED BY <1>2, <1>3, <1>4

LEMMA RemoveSnapshotEffect ==
    ASSUME NEW c, call[c] \in Calls, NEW p, RemoveSnapshot(c, p)
    PROVE  /\ UNCHANGED <<disk, active, successful, slot, session>>
           /\ call[c].pc = "RemoveAllSnapshots"
           /\ dm' = dm \/ (CanUnmapSnapshot(p) /\ dm' = [dm EXCEPT ![p] = "none"])
           /\ \E r : /\ Become(c, r)
                     /\ \/ r.pc = "RemoveAllSnapshots"
                        \/ r.pc = "DeleteBackingImage" /\ r.deleter = "RemoveAllSnapshots"
<1>1. /\ UNCHANGED <<disk, active, successful, slot, session>>
      /\ call[c].pc = "RemoveAllSnapshots"
      /\ dm' = dm \/ (CanUnmapSnapshot(p) /\ dm' = [dm EXCEPT ![p] = "none"])
  BY DEF RemoveSnapshot, disk, system, UnmapPartitionWithSnapshot, At
<1> DEFINE r == [call[c] EXCEPT !.todo = @ \ {p}, !.seen = @ \cup {"failed"}]
<1>2. DeleteSnapshot(c, p, "RemoveAllSnapshots") \/ Become(c, r)
  BY Zenon DEF RemoveSnapshot
<1>3. r.pc = "RemoveAllSnapshots"
  BY <1>1 DEF Calls
<1> HIDE DEF r
<1>4. CASE DeleteSnapshot(c, p, "RemoveAllSnapshots")
  BY <1>1, <1>4, DeleteResult
<1>5. CASE Become(c, r)
  BY <1>1, <1>3, <1>5
<1> QED BY <1>2, <1>4, <1>5

LEMMA RemoveIndicatorEffect ==
    ASSUME NEW c, call[c] \in Calls, RemoveSnapshotBootIndicator(c)
    PROVE  /\ UNCHANGED <<state, status, cow, base, updated, active, successful, slot,
                          dm, session>>
           /\ call[c].pc = "RemoveAllSnapshots"
           /\ indicator' \in {indicator, "absent"}
           /\ \E r : /\ Become(c, r)
                     /\ r.pc \in {"idle", "WriteInitiated", "RemoveAllSnapshots",
                                  "WriteNone"}
<1>1. /\ UNCHANGED <<state, status, cow, base, updated, active, successful, slot,
                     dm, session>>
      /\ call[c].pc = "RemoveAllSnapshots"
      /\ indicator' \in {indicator, "absent"}
  BY Zenon DEF RemoveSnapshotBootIndicator, system, At
<1>2. RemoveReturns(c, FALSE) \/ Goto(c, "WriteNone")
  BY Zenon DEF RemoveSnapshotBootIndicator
<1>3. CASE RemoveReturns(c, FALSE)
  BY Zenon, <1>1, <1>3, RemoveReturnsResult
<1>4. CASE Goto(c, "WriteNone")
  BY <1>1, <1>4, GotoResult
<1> QED BY Zenon, <1>2, <1>3, <1>4

LEMMA WriteNoneEffect ==
    ASSUME NEW c, call[c] \in Calls, WriteNone(c)
    PROVE  /\ UNCHANGED <<indicator, status, cow, base, updated, active, successful,
                          slot, dm, session>>
           /\ call[c].pc = "WriteNone" /\ state' = "none"
           /\ \E r : /\ Become(c, r)
                     /\ r.pc \in {"idle", "WriteInitiated", "RemoveAllSnapshots"}
<1>1. RemoveReturns(c, TRUE)
  BY Zenon DEF WriteNone
<1> QED BY Zenon, <1>1, RemoveReturnsResult DEF WriteNone, system, At

LEMMA WriteInitiatedEffect ==
    ASSUME NEW c, WriteInitiated(c)
    PROVE  /\ UNCHANGED <<indicator, status, cow, base, updated, active, successful,
                          slot, dm>>
           /\ call[c].pc = "WriteInitiated"
           /\ \/ UNCHANGED <<state, session>>
              \/ state \in {"", "none"} /\ state' = "initiated" /\ session' = "begun"
           /\ \E r : Become(c, r) /\ r.pc = "idle"
  BY Zenon, IdleResult DEF WriteInitiated, system, At, ReadUpdateState

LEMMA GoesOn ==
    ASSUME NEW c, call[c] \in Calls, call[c].pc \in Deleting,
           call[c].deleter \in Deleters,
           Goto(c, "RemoveStatusFile") \/ \E ok \in BOOLEAN : Deleted(c, ok)
    PROVE  \E r : Become(c, r) /\ DeletesOn(c, r)
                  /\ (Removing(call[c]) \/ Polling(call[c]) \/ Creating(call[c]))
<1>1. Removing(call[c]) \/ Polling(call[c]) \/ Creating(call[c])
  BY DEF Removing, Polling, Creating, Looping, Deleters
<1>2. CASE \E ok \in BOOLEAN : Deleted(c, ok)
  <2>1. PICK ok \in BOOLEAN : Deleted(c, ok)
    BY <1>2
  <2>2. PICK r :  /\ Become(c, r)
                  /\ Removing(call[c]) => r.pc = "RemoveAllSnapshots"
                  /\ Polling(call[c]) =>
                        /\ r.pc = "CheckTargetMergeState"
                        /\ r.todo = call[c].todo \ {call[c].cur}
                        /\ call[c].seen \subseteq r.seen
                  /\ Creating(call[c]) =>
                        \/ r.pc = "AutoDeleteSnapshot"
                        \/ /\ Looping(call[c]) /\ r.pc = "CreateSnapshot"
                           /\ r.cur = call[c].cur /\ r.todo = call[c].todo
    BY <2>1, DeletedResult
  <2>3. r.pc = "RemoveAllSnapshots" => Removing(r)
    BY DEF Removing
  <2>4. DeletesOn(c, r)
    BY <2>2, <2>3 DEF DeletesOn
  <2> QED BY <1>1, <2>2, <2>4
<1>3. CASE Goto(c, "RemoveStatusFile")
  <2>1. PICK r :  /\ Become(c, r) /\ r.pc = "RemoveStatusFile" /\ r.todo = call[c].todo
                  /\ r.cur = call[c].cur /\ r.seen = call[c].seen
                  /\ r.deleter = call[c].deleter
    BY <1>3, GotoResult
  <2>2. r.pc \in Deleting
    BY <2>1 DEF Deleting
  <2>3. /\ Removing(call[c]) => Removing(r)
        /\ Polling(call[c]) => Polling(r)
        /\ Creating(call[c]) => \/ r.deleter = "AutoDeleteSnapshot"
                                \/ Looping(call[c]) /\ r.deleter = "CreateUpdateSnapshots"
    BY <2>1, <2>2 DEF Removing, Polling, Creating, Looping, Deleting
  <2>4. DeletesOn(c, r)
    BY Zenon, <2>1, <2>2, <2>3 DEF DeletesOn
  <2> QED BY <1>1, <2>1, <2>4
<1> QED BY <1>2, <1>3

LEMMA DeleteBackingImageEffect ==
    ASSUME NEW c, call[c] \in Calls, DeleteBackingImage(c), call[c].deleter \in Deleters
    PROVE  /\ UNCHANGED <<state, indicator, status, base, updated, active, successful,
                          slot, dm, session>>
           /\ call[c].pc = "DeleteBackingImage"
           /\ cow' = cow \/ cow' = [cow EXCEPT ![call[c].cur] = "absent"]
           /\ \E r : Become(c, r) /\ DeletesOn(c, r)
                     /\ (Removing(call[c]) \/ Polling(call[c]) \/ Creating(call[c]))
<1>1. /\ UNCHANGED <<state, indicator, status, base, updated, active, successful,
                     slot, dm, session>>
      /\ call[c].pc = "DeleteBackingImage"
      /\ cow' = cow \/ cow' = [cow EXCEPT ![call[c].cur] = "absent"]
  BY Zenon DEF DeleteBackingImage, system, At
<1>2. Goto(c, "RemoveStatusFile") \/ \E ok \in BOOLEAN : Deleted(c, ok)
  <2>1. Goto(c, "RemoveStatusFile") \/ Deleted(c, FALSE)
    BY Zenon DEF DeleteBackingImage
  <2> QED BY Zenon, <2>1
<1> QED BY <1>1, <1>2, GoesOn DEF Deleting

LEMMA RemoveStatusFileEffect ==
    ASSUME NEW c, call[c] \in Calls, RemoveStatusFile(c), call[c].deleter \in Deleters
    PROVE  /\ UNCHANGED <<state, indicator, cow, base, updated, active, successful,
                          slot, dm, session>>
           /\ call[c].pc = "RemoveStatusFile"
           /\ status' = status \/ status' = [status EXCEPT ![call[c].cur] = "absent"]
           /\ \E r : Become(c, r) /\ DeletesOn(c, r)
                     /\ (Removing(call[c]) \/ Polling(call[c]) \/ Creating(call[c]))
<1>1. /\ UNCHANGED <<state, indicator, cow, base, updated, active, successful,
                     slot, dm, session>>
      /\ call[c].pc = "RemoveStatusFile"
      /\ status' = status \/ status' = [status EXCEPT ![call[c].cur] = "absent"]
  BY Zenon DEF RemoveStatusFile, system, At
<1>2. \E ok \in BOOLEAN : Deleted(c, ok)
  BY Zenon DEF RemoveStatusFile
<1> QED BY <1>1, <1>2, GoesOn DEF Deleting

LEMMA CheckMergeStateEffect ==
    ASSUME NEW c, call[c] \in Calls, CheckMergeState(c)
    PROVE  /\ UNCHANGED <<disk, active, successful, slot, dm, session>>
           /\ \E r : /\ Become(c, r)
                     /\ \/ r.pc \in {"idle", "WriteInitiated"}
                        \/ /\ state = "unverified" /\ indicator = slot
                           /\ r.pc = "RemoveAllSnapshots"
                        \/ /\ state \in MergeStates /\ r.pc = "CheckTargetMergeState"
                           /\ r.todo = ListSnapshots /\ r.seen = {}
<1>1. UNCHANGED <<disk, active, successful, slot, dm, session>>
  BY DEF CheckMergeState, disk, system
<1> DEFINE q == [call[c] EXCEPT !.pc = "CheckTargetMergeState",
                                !.todo = ListSnapshots, !.seen = {}]
<1>2. \/ Proceed(c)
      \/ /\ state = "unverified" /\ indicator = slot
         /\ RemoveAllUpdateState(c, "HandleCancelledUpdate")
      \/ state \in MergeStates /\ Become(c, q)
  BY Zenon DEF CheckMergeState, ReadUpdateState, MergeStates
<1>3. q.pc = "CheckTargetMergeState" /\ q.todo = ListSnapshots /\ q.seen = {}
  BY DEF Calls
<1> HIDE DEF q
<1>4. CASE Proceed(c)
  BY <1>1, <1>4, ProceedResult
<1>5. CASE /\ state = "unverified" /\ indicator = slot
           /\ RemoveAllUpdateState(c, "HandleCancelledUpdate")
  BY <1>1, <1>5, RemoveAllResult
<1>6. CASE state \in MergeStates /\ Become(c, q)
  BY Zenon, <1>1, <1>3, <1>6
<1> QED BY <1>2, <1>4, <1>5, <1>6

LEMMA CheckTargetEffect ==
    ASSUME NEW c, call[c] \in Calls, NEW p, CheckTargetMergeState(c, p)
    PROVE  /\ UNCHANGED <<state, indicator, cow, base, updated, active, successful, slot,
                          dm, session>>
           /\ call[c].pc = "CheckTargetMergeState" /\ p \in call[c].todo
           /\ \E r : /\ Become(c, r)
                     /\ \/ /\ UNCHANGED status /\ r.pc = "CheckTargetMergeState"
                           /\ r.todo = call[c].todo \ {p}
                           /\ {"merging", "failed"} \cap r.seen # {}
                        \/ /\ UNCHANGED status /\ r.pc = "DeleteBackingImage"
                           /\ r.cur = p /\ r.deleter \in {"Cancelled", "MergedBefore"}
                           /\ r.todo = call[c].todo /\ r.seen = call[c].seen
                           /\ IsCancelledSnapshot(p) \/ status[p] = "merge-completed"
                        \/ /\ WriteSnapshotStatus(p, "merge-completed")
                           /\ base[p] = "new" /\ r.pc = "OnSnapshotMergeComplete"
                           /\ r.cur = p /\ r.todo = call[c].todo /\ r.seen = call[c].seen
<1>1. /\ UNCHANGED <<state, indicator, cow, base, updated, active, successful, slot,
                     dm, session>>
      /\ call[c].pc = "CheckTargetMergeState" /\ p \in call[c].todo
  BY DEF CheckTargetMergeState, system, At
<1> DEFINE q == [call[c] EXCEPT !.pc = "OnSnapshotMergeComplete", !.cur = p]
<1>2. \/ UNCHANGED status /\ \E f \in {"merging", "failed"} : Polled(c, p, {f})
      \/ /\ UNCHANGED status
         /\ \/ IsCancelledSnapshot(p) /\ DeleteSnapshot(c, p, "Cancelled")
            \/ status[p] = "merge-completed" /\ DeleteSnapshot(c, p, "MergedBefore")
      \/ /\ WriteSnapshotStatus(p, "merge-completed") /\ base[p] = "new" /\ Become(c, q)
  BY Zenon DEF CheckTargetMergeState, MergeIsDone
<1>3. /\ q.pc = "OnSnapshotMergeComplete" /\ q.cur = p /\ q.todo = call[c].todo
      /\ q.seen = call[c].seen
  BY Zenon DEF Calls
<1> HIDE DEF q
<1>4. CASE UNCHANGED status /\ \E f \in {"merging", "failed"} : Polled(c, p, {f})
  <2>1. PICK f \in {"merging", "failed"} : Polled(c, p, {f})
    BY <1>4
  <2>2. PICK r : /\ Become(c, r) /\ r.pc = "CheckTargetMergeState"
                 /\ r.todo = call[c].todo \ {p} /\ r.seen = call[c].seen \cup {f}
    BY <2>1, PolledResult
  <2>3. {"merging", "failed"} \cap r.seen # {}
    BY <2>2
  <2> QED BY <1>1, <1>4, <2>2, <2>3
<1>5. CASE /\ UNCHANGED status
           /\ \/ IsCancelledSnapshot(p) /\ DeleteSnapshot(c, p, "Cancelled")
              \/ status[p] = "merge-completed" /\ DeleteSnapshot(c, p, "MergedBefore")
  <2>1. PICK d \in {"Cancelled", "MergedBefore"} : DeleteSnapshot(c, p, d)
    BY <1>5
  <2> QED BY <1>1, <1>5, <2>1, DeleteResult
<1>6. CASE WriteSnapshotStatus(p, "merge-completed") /\ base[p] = "new" /\ Become(c, q)
  BY Zenon, <1>1, <1>3, <1>6
<1> QED BY <1>2, <1>4, <1>5, <1>6

LEMMA MergeCompleteEffect ==
    ASSUME NEW c, call[c] \in Calls, OnSnapshotMergeComplete(c)
    PROVE  /\ UNCHANGED <<disk, active, successful, slot, session>>
           /\ call[c].pc = "OnSnapshotMergeComplete"
           /\ \/ dm' = dm
              \/ /\ dm[call[c].cur] = "snapshot-merge"
                 /\ \E d \in {"linear", "collapsed"} : dm' = [dm EXCEPT ![call[c].cur] = d]
           /\ \E r : Become(c, r) /\ DeletesOn(c, r)
<1> DEFINE p == call[c].cur
<1>1. /\ UNCHANGED <<disk, active, successful, slot, session>>
      /\ call[c].pc = "OnSnapshotMergeComplete"
      /\ \/ dm' = dm
         \/ /\ dm[p] = "snapshot-merge"
            /\ \E d \in {"linear", "collapsed"} : dm' = [dm EXCEPT ![p] = d]
  BY DEF OnSnapshotMergeComplete, CollapseSnapshotDevice, disk, system, At
<1>2. DeleteSnapshot(c, p, "Collapsed") \/ Polled(c, p, {"needs_reboot"})
  BY Zenon DEF OnSnapshotMergeComplete
<1>3. ~Removing(call[c]) /\ ~Creating(call[c])
  BY <1>1 DEF Removing, Creating, Looping, Deleting
<1>4. CASE DeleteSnapshot(c, p, "Collapsed")
  <2>1. PICK r : /\ Become(c, r) /\ r.pc = "DeleteBackingImage" /\ r.cur = p
                 /\ r.deleter = "Collapsed" /\ r.todo = call[c].todo
                 /\ r.seen = call[c].seen
    BY <1>4, DeleteResult
  <2>2. r.pc \in Deleting /\ Polling(r)
    BY <2>1 DEF Deleting, Polling
  <2>3. DeletesOn(c, r)
    BY Zenon, <1>3, <2>1, <2>2 DEF DeletesOn
  <2> QED BY <1>1, <2>1, <2>3
<1>5. CASE Polled(c, p, {"needs_reboot"})
  <2>1. PICK r : /\ Become(c, r) /\ r.pc = "CheckTargetMergeState"
                 /\ r.todo = call[c].todo \ {p}
                 /\ r.seen = call[c].seen \cup {"needs_reboot"}
    BY <1>5, PolledResult
  <2>3. DeletesOn(c, r)
    BY Zenon, <1>3, <2>1 DEF DeletesOn
  <2> QED BY <1>1, <2>1, <2>3
<1> QED BY Zenon, <1>2, <1>4, <1>5

LEMMA MergeDecisionEffect ==
    ASSUME NEW c, call[c] \in Calls, MergeDecision(c)
    PROVE  /\ UNCHANGED <<indicator, status, cow, base, updated, active, successful,
                          slot, dm, session>>
           /\ call[c].pc = "CheckTargetMergeState"
           /\ \E r : /\ Become(c, r)
                     /\ \/ /\ UNCHANGED state
                           /\ r.pc \in {"CheckMergeState", "AcknowledgeMergeFailure"}
                        \/ /\ call[c].todo = {}
                           /\ {"merging", "failed"} \cap call[c].seen = {}
                           /\ \/ /\ state' = "merge-needs-reboot"
                                 /\ r.pc \in {"idle", "WriteInitiated"}
                              \/ UNCHANGED state /\ r.pc = "RemoveAllSnapshots"
<1>1. /\ UNCHANGED <<indicator, status, cow, base, updated, active, successful,
                     slot, dm, session>>
      /\ call[c].pc = "CheckTargetMergeState" /\ call[c].todo = {}
  BY DEF MergeDecision, system, At
<1>2. \/ /\ UNCHANGED state
         /\ \/ Start(c, call[c].op, "CheckMergeState")
            \/ Start(c, call[c].op, "AcknowledgeMergeFailure")
      \/ /\ {"merging", "failed"} \cap call[c].seen = {}
         /\ state' = "merge-needs-reboot" /\ Proceed(c)
      \/ /\ {"merging", "failed"} \cap call[c].seen = {}
         /\ UNCHANGED state /\ RemoveAllUpdateState(c, "CheckMergeState")
  BY Zenon DEF MergeDecision
<1>3. CASE /\ UNCHANGED state
           /\ \/ Start(c, call[c].op, "CheckMergeState")
              \/ Start(c, call[c].op, "AcknowledgeMergeFailure")
  <2>1. PICK r : /\ Become(c, r)
                 /\ r.pc \in {"CheckMergeState", "AcknowledgeMergeFailure"}
    BY Zenon, <1>3, StartResult
  <2> QED BY <1>1, <1>3, <2>1
<1>4. CASE /\ {"merging", "failed"} \cap call[c].seen = {}
           /\ state' = "merge-needs-reboot" /\ Proceed(c)
  BY <1>1, <1>4, ProceedResult
<1>5. CASE /\ {"merging", "failed"} \cap call[c].seen = {}
           /\ UNCHANGED state /\ RemoveAllUpdateState(c, "CheckMergeState")
  BY <1>1, <1>5, RemoveAllResult
<1> QED BY Zenon, <1>2, <1>3, <1>4, <1>5

LEMMA AcknowledgeEffect ==
    ASSUME NEW c, AcknowledgeMergeFailure(c)
    PROVE  /\ UNCHANGED <<indicator, status, cow, base, updated, active, successful,
                          slot, dm, session>>
           /\ \/ UNCHANGED state
              \/ /\ state \in {"merging", "merge-needs-reboot"}
                 /\ state' = "merge-failed"
           /\ \E r : Become(c, r) /\ r.pc \in {"idle", "WriteInitiated"}
<1>1. Proceed(c)
  BY DEF AcknowledgeMergeFailure
<1>2. PICK r : Become(c, r) /\ r.pc \in {"idle", "WriteInitiated"}
  BY <1>1, ProceedResult
<1> QED BY Zenon, <1>2 DEF AcknowledgeMergeFailure, system, ReadUpdateState

LEMMA InitiateMergeEffect ==
    ASSUME NEW c, call[c] \in Calls, InitiateMerge(c)
    PROVE  /\ UNCHANGED <<disk, active, successful, slot, dm, session>>
           /\ call[c].pc = "InitiateMerge"
           /\ \E r : /\ Become(c, r)
                     /\ r.pc = "idle" \/ (CanMerge /\ r.pc = "WriteMerging")
<1>1. /\ UNCHANGED <<disk, active, successful, slot, dm, session>>
      /\ call[c].pc = "InitiateMerge"
  BY DEF InitiateMerge, disk, system, At
<1>2. (CanMerge /\ Goto(c, "WriteMerging")) \/ Become(c, Idle)
  BY Zenon DEF InitiateMerge
<1>3. CASE CanMerge /\ Goto(c, "WriteMerging")
  BY <1>1, <1>3, GotoResult
<1>4. CASE Become(c, Idle)
  BY <1>1, <1>4, IdleResult
<1> QED BY Zenon, <1>2, <1>3, <1>4

LEMMA WriteMergingEffect ==
    ASSUME NEW c, call[c] \in Calls, WriteMerging(c)
    PROVE  /\ UNCHANGED <<indicator, status, cow, base, updated, active, successful,
                          slot, dm, session>>
           /\ call[c].pc = "WriteMerging" /\ state' = "merging"
           /\ \E r : Become(c, r) /\ r.pc = "SwitchSnapshotToMerge"
<1> DEFINE r == [call[c] EXCEPT !.pc = "SwitchSnapshotToMerge", !.todo = ListSnapshots]
<1>1. r.pc = "SwitchSnapshotToMerge"
  BY DEF Calls
<1>2. Become(c, r)
  BY Zenon DEF WriteMerging
<1> HIDE DEF r
<1> QED BY <1>1, <1>2 DEF WriteMerging, system, At

LEMMA SwitchEffect ==
    ASSUME NEW c, call[c] \in Calls, NEW p, SwitchSnapshotToMerge(c, p)
    PROVE  /\ UNCHANGED <<state, indicator, cow, base, updated, active, successful, slot,
                          session>>
           /\ call[c].pc = "SwitchSnapshotToMerge"
           /\ \/ UNCHANGED <<dm, status>>
              \/ /\ dm[p] = "snapshot" /\ dm' = [dm EXCEPT ![p] = "snapshot-merge"]
                 /\ UNCHANGED status \/ WriteSnapshotStatus(p, "merging")
           /\ \E r : Become(c, r) /\ r.pc = "SwitchSnapshotToMerge"
<1>1. /\ UNCHANGED <<state, indicator, cow, base, updated, active, successful, slot,
                     session>>
      /\ call[c].pc = "SwitchSnapshotToMerge"
      /\ \/ UNCHANGED <<dm, status>>
         \/ /\ dm[p] = "snapshot" /\ dm' = [dm EXCEPT ![p] = "snapshot-merge"]
            /\ UNCHANGED status \/ WriteSnapshotStatus(p, "merging")
  BY DEF SwitchSnapshotToMerge, RewriteSnapshotDeviceTable, system, At
<1> DEFINE q == [call[c] EXCEPT !.todo = @ \ {p}]
           r == [call[c] EXCEPT !.todo = @ \ {p}, !.seen = @ \cup {"failed"}]
<1>2. q.pc = "SwitchSnapshotToMerge" /\ r.pc = "SwitchSnapshotToMerge"
  BY <1>1 DEF Calls
<1>3. Become(c, q) \/ Become(c, r)
  BY Zenon DEF SwitchSnapshotToMerge
<1> HIDE DEF q, r
<1> QED BY <1>1, <1>2, <1>3

LEMMA MergeInitiatedEffect ==
    ASSUME NEW c, MergeInitiated(c)
    PROVE  /\ UNCHANGED <<indicator, status, cow, base, updated, active, successful,
                          slot, dm, session>>
           /\ call[c].pc = "SwitchSnapshotToMerge" /\ state' \in {state, "merge-failed"}
           /\ \E r : Become(c, r) /\ r.pc = "CheckMergeState"
<1>1. Start(c, "MergeCmdHandler", "CheckMergeState")
  BY DEF MergeInitiated
<1> QED BY <1>1, StartResult DEF MergeInitiated, system, At

LEMMA FinishedWritesEffect ==
    ASSUME call \in [Callers -> Calls], session = "finished" => state # "initiated",
           NEW c, FinishedSnapshotWrites(c)
    PROVE  /\ UNCHANGED <<disk, active, successful, slot, dm>>
           /\ c = Engine /\ call[c].pc = "idle"
           /\ \E r : /\ Become(c, r)
                     /\ \/ /\ UNCHANGED session
                           /\ session = "created" /\ \A p \in Partitions : cow[p] = "full"
                           /\ r.pc = "WriteIndicator"
                        \/ /\ session' = "finished" /\ session \in {"created", "finished"}
                           /\ state = "unverified" /\ r.pc = "idle"
                        \/ session' = "none" /\ r.pc = "idle"
<1>1. /\ UNCHANGED <<disk, active, successful, slot, dm>>
      /\ c = Engine /\ call[c].pc = "idle"
  BY DEF FinishedSnapshotWrites, disk, system, At
<1>2. \/ /\ UNCHANGED session
         /\ session = "created" /\ \A p \in Partitions : cow[p] = "full"
         /\ Start(c, "FinishedSnapshotWrites", "WriteIndicator")
      \/ /\ UNCHANGED call
         /\ \/ /\ session' = "finished" /\ session \in {"created", "finished"}
               /\ state = "unverified"
            \/ session' = "none"
  BY Zenon DEF FinishedSnapshotWrites, ReadUpdateState
<1>3. CASE UNCHANGED call
  <2>1. Become(c, call[c])
    BY <1>3 DEF Become
  <2>2. CASE Start(c, "FinishedSnapshotWrites", "WriteIndicator")
    <3>1. PICK r : Become(c, r) /\ r.pc = "WriteIndicator"
      BY <2>2, StartResult
    <3>2. call'[c] = r
      BY <1>1, <3>1, SnapshotAssumption DEF Become
    <3> QED BY <1>1, <1>3, <3>1, <3>2
  <2> QED BY <1>1, <1>2, <2>1, <2>2
<1>4. CASE Start(c, "FinishedSnapshotWrites", "WriteIndicator") /\ ~UNCHANGED call
  BY <1>1, <1>2, <1>4, StartResult
<1> QED BY <1>2, <1>3, <1>4

LEMMA DeleteExistingEffect ==
    ASSUME NEW c, call[c] \in Calls, NEW p, DeleteExistingSnapshot(c, p)
    PROVE  /\ UNCHANGED <<disk, active, successful, slot, dm, session>>
           /\ call[c].pc = "ForEachPartition" /\ p \in call[c].todo
           /\ \E r : /\ Become(c, r) /\ r.pc = "DeleteBackingImage" /\ r.cur = p
                     /\ r.deleter = "CreateUpdateSnapshots" /\ r.todo = call[c].todo
<1>1. DeleteSnapshot(c, p, "CreateUpdateSnapshots")
  BY Zenon DEF DeleteExistingSnapshot
<1> QED BY <1>1, DeleteResult DEF DeleteExistingSnapshot, disk, system, At

LEMMA CreateSnapshotEffect ==
    ASSUME NEW c, call[c] \in Calls, CreateSnapshot(c)
    PROVE  /\ UNCHANGED <<state, indicator, cow, base, updated, active, successful, slot,
                          dm, session>>
           /\ call[c].pc = "CreateSnapshot"
           /\ \E r : /\ Become(c, r)
                     /\ \/ UNCHANGED status /\ r.pc = "AutoDeleteSnapshot"
                        \/ /\ WriteSnapshotStatus(call[c].cur, "created")
                           /\ r.pc = "CreateCowImage" /\ r.cur = call[c].cur
                           /\ r.todo = call[c].todo
<1>1. /\ UNCHANGED <<state, indicator, cow, base, updated, active, successful, slot,
                     dm, session>>
      /\ call[c].pc = "CreateSnapshot"
  BY DEF CreateSnapshot, system, At
<1>2. \/ WriteSnapshotStatus(call[c].cur, "created") /\ Goto(c, "CreateCowImage")
      \/ UNCHANGED status /\ Unwind(c, Partitions \ call[c].todo)
  BY Zenon DEF CreateSnapshot
<1>3. CASE WriteSnapshotStatus(call[c].cur, "created") /\ Goto(c, "CreateCowImage")
  BY <1>1, <1>3, GotoResult
<1>4. CASE UNCHANGED status /\ Unwind(c, Partitions \ call[c].todo)
  BY Zenon, <1>1, <1>4, UnwindResult
<1> QED BY Zenon, <1>2, <1>3, <1>4

LEMMA CreateCowEffect ==
    ASSUME NEW c, call[c] \in Calls, CreateCowImage(c)
    PROVE  /\ UNCHANGED <<state, indicator, status, base, updated, active, successful,
                          slot, dm, session>>
           /\ call[c].pc = "CreateCowImage"
           /\ cow' = cow \/ cow' = [cow EXCEPT ![call[c].cur] = "raw"]
           /\ \E r : /\ Become(c, r)
                     /\ \/ r.pc = "AutoDeleteSnapshot"
                        \/ /\ r.pc = "ForEachPartition"
                           /\ r.todo = call[c].todo \ {call[c].cur}
<1>1. /\ UNCHANGED <<state, indicator, status, base, updated, active, successful,
                     slot, dm, session>>
      /\ call[c].pc = "CreateCowImage"
      /\ cow' = cow \/ cow' = [cow EXCEPT ![call[c].cur] = "raw"]
  BY DEF CreateCowImage, system, At
<1> DEFINE r == [call[c] EXCEPT !.pc = "ForEachPartition",
                        !.todo = @ \ {call[c].cur}, !.cur = NoPartition]
<1>2. Become(c, r) \/ Unwind(c, (Partitions \ call[c].todo) \cup {call[c].cur})
  BY Zenon DEF CreateCowImage
<1>3. r.pc = "ForEachPartition" /\ r.todo = call[c].todo \ {call[c].cur}
  BY Zenon DEF Calls
<1> HIDE DEF r
<1>4. CASE Become(c, r)
  BY Zenon, <1>1, <1>3, <1>4
<1>5. CASE Unwind(c, (Partitions \ call[c].todo) \cup {call[c].cur})
  BY <1>1, <1>5, UnwindResult
<1> QED BY <1>2, <1>4, <1>5

LEMMA ZeroFillEffect ==
    ASSUME NEW c, call[c] \in Calls, ZeroFillCows(c)
    PROVE  /\ UNCHANGED <<disk, active, successful, slot, dm, session>>
           /\ call[c].pc = "ForEachPartition" /\ call[c].todo = {}
           /\ \E r : Become(c, r) /\ r.pc = "InitializeCow" /\ r.todo = Partitions
<1> DEFINE r == [call[c] EXCEPT !.pc = "InitializeCow", !.todo = Partitions]
<1>1. r.pc = "InitializeCow" /\ r.todo = Partitions
  BY DEF Calls
<1>2. Become(c, r)
  BY Zenon DEF ZeroFillCows
<1> HIDE DEF r
<1> QED BY <1>1, <1>2 DEF ZeroFillCows, disk, system, At

LEMMA InitializeCowEffect ==
    ASSUME NEW c, call[c] \in Calls, NEW p, InitializeCow(c, p)
    PROVE  /\ UNCHANGED <<state, indicator, status, base, updated, active, successful,
                          slot, session>>
           /\ call[c].pc = "InitializeCow"
           /\ \E r : /\ Become(c, r)
                     /\ \/ UNCHANGED <<dm, cow>> /\ r.pc = "AutoDeleteSnapshot"
                        \/ /\ dm' = [dm EXCEPT ![p] = "none"]
                           /\ cow' = [cow EXCEPT ![p] = "zeroed"]
                           /\ r.pc = "InitializeCow" /\ r.todo = call[c].todo \ {p}
<1>1. /\ UNCHANGED <<state, indicator, status, base, updated, active, successful,
                     slot, session>>
      /\ call[c].pc = "InitializeCow"
  BY DEF InitializeCow, system, At
<1> DEFINE r == [call[c] EXCEPT !.todo = @ \ {p}]
<1>2. r.pc = "InitializeCow" /\ r.todo = call[c].todo \ {p}
  BY <1>1 DEF Calls
<1>3. \/ UNCHANGED <<dm, cow>> /\ Unwind(c, Partitions)
      \/ /\ dm' = [dm EXCEPT ![p] = "none"] /\ cow' = [cow EXCEPT ![p] = "zeroed"]
         /\ Become(c, r)
  BY Zenon DEF InitializeCow, UnmapPartitionWithSnapshot
<1> HIDE DEF r
<1>4. CASE UNCHANGED <<dm, cow>> /\ Unwind(c, Partitions)
  BY Zenon, <1>1, <1>4, UnwindResult
<1>5. CASE /\ dm' = [dm EXCEPT ![p] = "none"] /\ cow' = [cow EXCEPT ![p] = "zeroed"]
           /\ Become(c, r)
  BY Zenon, <1>1, <1>2, <1>5
<1> QED BY <1>3, <1>4, <1>5

LEMMA UpdateTableEffect ==
    ASSUME NEW c, call[c] \in Calls, UpdatePartitionTable(c)
    PROVE  /\ UNCHANGED <<state, indicator, status, cow, base, active, successful, slot,
                          dm>>
           /\ call[c].pc = "InitializeCow" /\ call[c].todo = {}
           /\ \E r : /\ Become(c, r)
                     /\ \/ UNCHANGED <<updated, session>> /\ r.pc = "AutoDeleteSnapshot"
                        \/ /\ updated' = [p \in Partitions |-> TRUE]
                           /\ session' = "created" /\ r.pc = "idle"
<1>1. /\ UNCHANGED <<state, indicator, status, cow, base, active, successful, slot, dm>>
      /\ call[c].pc = "InitializeCow" /\ call[c].todo = {}
  BY DEF UpdatePartitionTable, system, At
<1>2. \/ UNCHANGED <<updated, session>> /\ Unwind(c, Partitions)
      \/ /\ updated' = [p \in Partitions |-> TRUE] /\ session' = "created"
         /\ Become(c, Idle)
  BY Zenon DEF UpdatePartitionTable
<1>3. CASE UNCHANGED <<updated, session>> /\ Unwind(c, Partitions)
  BY Zenon, <1>1, <1>3, UnwindResult
<1>4. CASE /\ updated' = [p \in Partitions |-> TRUE] /\ session' = "created"
           /\ Become(c, Idle)
  BY Zenon, <1>1, <1>4, IdleResult
<1> QED BY Zenon, <1>2, <1>3, <1>4

LEMMA AutoDeleteEffect ==
    ASSUME NEW c, call[c] \in Calls, AutoDeleteSnapshot(c)
    PROVE  /\ UNCHANGED <<disk, active, successful, slot, dm, session>>
           /\ call[c].pc = "AutoDeleteSnapshot"
           /\ \E r : /\ Become(c, r)
                     /\ \/ r.pc = "idle"
                        \/ r.pc = "DeleteBackingImage" /\ r.deleter = "AutoDeleteSnapshot"
<1>1. /\ UNCHANGED <<disk, active, successful, slot, dm, session>>
      /\ call[c].pc = "AutoDeleteSnapshot"
  BY DEF AutoDeleteSnapshot, disk, system, At
<1>2. Become(c, Idle) \/ \E p : DeleteSnapshot(c, p, "AutoDeleteSnapshot")
  BY DEF AutoDeleteSnapshot
<1> QED BY <1>1, <1>2, IdleResult, DeleteResult

(* The blocks of super are written by the kernel and by fastboot. *)
LEMMA BaseWriters ==
    ASSUME Next
    PROVE  base' = base \/ \E p \in Partitions : MergeBlocks(p) \/ FlashHandler(p)
<1>1. ASSUME NEW c \in Callers, CreateSnapshot(c) \/ RemoveStatusFile(c)
      PROVE  base' = base
  BY Zenon, <1>1 DEF CreateSnapshot, RemoveStatusFile
<1>2. ASSUME NEW c \in Callers, NEW p \in Partitions,
             CheckTargetMergeState(c, p) \/ SwitchSnapshotToMerge(c, p)
      PROVE  base' = base
  BY <1>2 DEF CheckTargetMergeState, SwitchSnapshotToMerge
<1> QED BY <1>1, <1>2, StatusWriters

(* Which steps write what. *)

(* A request only moves its caller to the first step of the operation. *)
LEMMA RequestEffect ==
    ASSUME Inv, EngineInv, NEW c \in Callers, Request(c)
    PROVE  /\ UNCHANGED <<disk, active, successful, slot, dm>>
           /\ \E r : /\ Become(c, r)
                     /\ r.pc \in {"idle", "TryCancelUpdate", "ForEachPartition",
                                  "WriteIndicator", "InitiateMerge", "CheckMergeState"}
<1>1. call \in [Callers -> Calls] /\ (session = "finished" => state # "initiated")
  BY CallFacts DEF EngineInv
<1>2. CASE BeginUpdate(c) \/ CancelUpdate(c)
  BY <1>2, StartResult DEF BeginUpdate, CancelUpdate, system
<1>3. CASE CreateUpdateSnapshots(c)
  <2> DEFINE r == [Idle EXCEPT !.op = "CreateUpdateSnapshots",
                               !.pc = "ForEachPartition", !.todo = Partitions]
  <2>1. Become(c, r) /\ UNCHANGED <<disk, active, successful, slot, dm>>
    BY Zenon, <1>3 DEF CreateUpdateSnapshots, system
  <2>2. r.pc = "ForEachPartition"
    BY DEF Idle
  <2> QED BY Zenon, <2>1, <2>2
<1>4. CASE FinishedSnapshotWrites(c)
  BY Zenon, <1>1, <1>4, FinishedWritesEffect
<1>5. CASE MergeCmdHandler(c)
  <2>1. UNCHANGED <<disk, active, successful, slot, dm>> /\ call[c].pc = "idle"
    BY <1>5 DEF MergeCmdHandler, At
  <2>2. \/ UNCHANGED call
        \/ \E l \in {"InitiateMerge", "CheckMergeState"} : Start(c, "MergeCmdHandler", l)
    BY Zenon, <1>5 DEF MergeCmdHandler
  <2>3. CASE UNCHANGED call
    <3>1. Become(c, call[c])
      BY <1>1, <2>3 DEF Become
    <3> QED BY Zenon, <2>1, <3>1
  <2> QED BY <2>1, <2>2, <2>3, StartResult
<1> QED BY Zenon, <1>2, <1>3, <1>4, <1>5 DEF Request

LEMMA SlotWriters ==
    ASSUME Next
    PROVE  \/ UNCHANGED <<active, successful, slot>>
           \/ SetActiveBootSlot \/ Boot \/ MarkBootSuccessful
           \/ /\ Shutdown /\ UNCHANGED <<status, indicator, cow, updated>>
              /\ state' \in {state, ""} /\ (state' = state \/ TornWrites)
           \/ \E s \in Slots : SetActive(s)
<1>1. ASSUME NEW c \in Callers, Step(c)
      PROVE  UNCHANGED <<active, successful, slot>>
  BY Zenon, <1>1 DEF Step, TryCancelUpdate, RemoveSnapshotBootIndicator, WriteNone,
     WriteInitiated, DeleteBackingImage, RemoveStatusFile, CheckMergeState,
     OnSnapshotMergeComplete, MergeDecision, AcknowledgeMergeFailure, InitiateMerge,
     WriteMerging, MergeInitiated, WriteIndicator, WriteUnverified, CreateSnapshot,
     CreateCowImage, ZeroFillCows, UpdatePartitionTable, AutoDeleteSnapshot,
     RemoveSnapshot, CheckTargetMergeState, SwitchSnapshotToMerge,
     DeleteExistingSnapshot, InitializeCow, system
<1>2. ASSUME NEW c \in Callers, Request(c)
      PROVE  UNCHANGED <<active, successful, slot>>
  BY <1>2 DEF Request, BeginUpdate, CancelUpdate, CreateUpdateSnapshots,
     FinishedSnapshotWrites, MergeCmdHandler, system
<1>3. ASSUME EngineWork, ~SetActiveBootSlot
      PROVE  UNCHANGED <<active, successful, slot>>
  BY <1>3 DEF EngineWork, MapUpdateSnapshot, UnmapUpdateSnapshot, WriteUpdate, system
<1>4. ASSUME NEW c \in Callers, Reboot \/ PowerLoss \/ PowerLossInWrite(c)
      PROVE  /\ Shutdown /\ UNCHANGED <<status, indicator, cow, updated>>
             /\ state' \in {state, ""} /\ (state' = state \/ TornWrites)
  BY Zenon, <1>4 DEF Reboot, PowerLoss, PowerLossInWrite, disk
<1>5. ASSUME NEW c \in Callers, CallerDies(c)
      PROVE  UNCHANGED <<active, successful, slot>>
  BY <1>5 DEF CallerDies, system
<1>6. ASSUME NEW p \in Partitions, MergeBlocks(p) \/ FlashHandler(p)
      PROVE  UNCHANGED <<active, successful, slot>>
  BY Zenon, <1>6 DEF MergeBlocks, FlashHandler, system
<1> QED BY Zenon, <1>1, <1>2, <1>3, <1>4, <1>5, <1>6, SnapshotAssumption DEF Next, Environment

(* Only fastboot spends what the user may do. *)
LEMMA BudgetWriters ==
    ASSUME Inv, Next
    PROVE  /\ budget'["set_active"] = budget["set_active"] \/ \E s \in Slots : SetActive(s)
           /\ budget'["flash"] = budget["flash"] \/ \E p \in Partitions : FlashHandler(p)
<1>1. DOMAIN budget = Expenses
  BY Zenon DEF Inv, CallInv, TypeOK
<1> DEFINE Same == /\ budget'["set_active"] = budget["set_active"]
                   /\ budget'["flash"] = budget["flash"]
<1>2. ASSUME NEW k \in {"fault", "crash"}, Spend(k)
      PROVE  Same
  BY <1>1, <1>2 DEF Spend, Expenses
<1>3. Works => Same
  BY DEF Works
<1>4. ASSUME NEW f, MayFail(f)
      PROVE  Same
  BY <1>2, <1>4 DEF MayFail
<1>5. UNCHANGED budget => Same
  OBVIOUS
<1>6. \A s \in Slots : SetActive(s) => budget'["flash"] = budget["flash"]
  BY <1>1 DEF SetActive, Spend, Expenses
<1>7. \A p \in Partitions : FlashHandler(p) => budget'["set_active"] = budget["set_active"]
  BY Zenon, <1>1 DEF FlashHandler, Spend, Expenses
<1> HIDE DEF Same
<1>8. ASSUME NEW c \in Callers, Step(c)
      PROVE  Same
  <2>1. CASE \/ TryCancelUpdate(c) \/ WriteNone(c) \/ WriteInitiated(c) \/ CheckMergeState(c)
             \/ MergeDecision(c) \/ AcknowledgeMergeFailure(c) \/ InitiateMerge(c)
             \/ WriteMerging(c) \/ MergeInitiated(c) \/ WriteIndicator(c)
             \/ WriteUnverified(c) \/ ZeroFillCows(c) \/ AutoDeleteSnapshot(c)
             \/ \E p \in Partitions : DeleteExistingSnapshot(c, p)
    BY Zenon, <1>5, <2>1 DEF TryCancelUpdate, WriteNone, WriteInitiated, CheckMergeState,
       MergeDecision, AcknowledgeMergeFailure, InitiateMerge, WriteMerging,
       MergeInitiated, WriteIndicator, WriteUnverified, ZeroFillCows,
       AutoDeleteSnapshot, DeleteExistingSnapshot
  <2>2. CASE \/ RemoveSnapshotBootIndicator(c) \/ DeleteBackingImage(c)
             \/ RemoveStatusFile(c) \/ OnSnapshotMergeComplete(c)
    BY Zenon, <1>3, <1>4, <2>2 DEF RemoveSnapshotBootIndicator, DeleteBackingImage,
       RemoveStatusFile, OnSnapshotMergeComplete, CollapseSnapshotDevice
  <2>3. CASE \/ CreateSnapshot(c) \/ CreateCowImage(c) \/ UpdatePartitionTable(c)
    BY Zenon, <1>3, <1>4, <2>3 DEF CreateSnapshot, CreateCowImage, UpdatePartitionTable
  <2>4. ASSUME NEW p \in Partitions,
               RemoveSnapshot(c, p) \/ CheckTargetMergeState(c, p)
        PROVE  Same
    BY Zenon, <1>3, <1>4, <2>4 DEF RemoveSnapshot, CheckTargetMergeState
  <2>5. ASSUME NEW p \in Partitions,
               SwitchSnapshotToMerge(c, p) \/ InitializeCow(c, p)
        PROVE  Same
    BY Zenon, <1>3, <1>4, <2>5 DEF SwitchSnapshotToMerge, InitializeCow
  <2> QED BY Zenon, <1>8, <2>1, <2>2, <2>3, <2>4, <2>5 DEF Step
<1>9. ASSUME NEW c \in Callers, Request(c)
      PROVE  Same
  BY Zenon, <1>5, <1>9 DEF Request, BeginUpdate, CancelUpdate, CreateUpdateSnapshots,
     FinishedSnapshotWrites, MergeCmdHandler
<1>10. CASE EngineWork
  BY <1>5, <1>10 DEF EngineWork, SetActiveBootSlot, MapUpdateSnapshot, UnmapUpdateSnapshot,
     WriteUpdate, Same
<1>11. CASE Boot \/ MarkBootSuccessful \/ Reboot \/ \E p \in Partitions : MergeBlocks(p)
  BY Zenon, <1>5, <1>11 DEF Boot, MarkBootSuccessful, Reboot, MergeBlocks, Same
<1>12. CASE PowerLoss \/ \E c \in Callers : PowerLossInWrite(c) \/ CallerDies(c)
  BY Zenon, <1>2, <1>12 DEF PowerLoss, PowerLossInWrite, CallerDies, Same
<1> QED BY Zenon, <1>6, <1>7, <1>8, <1>9, <1>10, <1>11, <1>12 DEF Next, Environment, Same
===============================================================================
