--------------------------- MODULE SnapshotManager ---------------------------
(***************************************************************************)
(* Virtual A/B updates: fs_mgr/libsnapshot.  An update of the partitions   *)
(* of the running slot Old is written to copy-on-write (COW) snapshots,    *)
(* the device boots slot New on top of them, and the kernel then merges    *)
(* the snapshots into the base blocks, which both slots share.             *)
(*                                                                         *)
(* What is on disk survives a power loss; the device-mapper tables, the    *)
(* flock and the callers do not.  A call that holds the exclusive lock     *)
(* takes one step per write to the disk, so a power loss, or the death of  *)
(* the calling process, can fall between any two of them.                  *)
(***************************************************************************)
EXTENDS Naturals, FiniteSets

CONSTANTS
    Partitions,    \* the logical partitions that the update rewrites
    Callers,       \* the processes that use the library
    Engine,        \* the caller that installs updates, update_engine
    Faults,        \* the operations that may fail, see MayFail
    Budget,        \* how many crashes, faults, set_actives and flashes happen
    TornWrites,    \* may a power loss hit between the two halves of a write?
    NoCaller,
    NoPartition

Old == "_a"
New == "_b"
Off == "off"       \* powered off, in the bootloader or in fastbootd
Slots == {Old, New}
OtherSlot(s) == IF s = Old THEN New ELSE Old

Expenses == {"crash", "fault", "set_active", "flash"}
FaultKinds == {"unmap", "image", "status", "indicator", "rewrite", "collapse",
               "inner", "table"}

ASSUME SnapshotAssumption ==
    /\ IsFiniteSet(Partitions)
    /\ Engine \in Callers
    /\ NoCaller \notin Callers
    /\ NoPartition \notin Partitions
    /\ Faults \subseteq FaultKinds
    /\ Budget \in [Expenses -> Nat]
    /\ TornWrites \in BOOLEAN

VARIABLES
    \* On the metadata partition, in super and on userdata.
    state,         \* the text of the state file; empty after a torn write
    indicator,     \* the text of the boot indicator, or "absent"
    status,        \* status[p]: the state in p's status file, or "absent"
    cow,           \* cow[p]: what p's COW device holds
    base,          \* base[p]: the blocks of super that p occupies
    updated,       \* updated[p]: LP_PARTITION_ATTR_UPDATED of p in New's table
    \* In the bootloader's control block.
    active,        \* the slot to boot next
    successful,    \* successful[s]: s was marked as successfully booted
    \* Lost with the power.
    slot,          \* the running slot, or Off
    dm,            \* dm[p]: the device-mapper device of New's partition p
    lock,          \* who holds the exclusive flock on the state file
    call,          \* call[c]: the call that c is executing
    session,       \* how far the engine is with its update
    merge_run,     \* did init already exec "snapshotctl merge" in this boot?
    budget         \* what is left of Budget

disk == <<state, indicator, status, cow, base, updated>>
bootControl == <<active, successful>>
vars == <<state, indicator, status, cow, base, updated, active, successful,
          slot, dm, lock, call, session, merge_run, budget>>

MergeStates == {"merging", "merge-needs-reboot", "merge-failed"}
UpdateStates == {"none", "initiated", "unverified"} \cup MergeStates
StatusStates == {"absent", "created", "merging", "merge-completed"}

(***************************************************************************)
(* A call in progress.  todo holds the snapshots its loop has yet to       *)
(* visit, cur the one at hand, seen the flags its loop collected, deleter  *)
(* and remover the code that DeleteSnapshot and RemoveAllUpdateState       *)
(* return to.                                                              *)
(***************************************************************************)
Operations == {"none", "BeginUpdate", "CancelUpdate", "CreateUpdateSnapshots",
               "FinishedSnapshotWrites", "MergeCmdHandler"}
Labels == {"idle", "TryCancelUpdate", "RemoveAllSnapshots", "WriteNone",
           "WriteInitiated", "CheckMergeState", "CheckTargetMergeState",
           "OnSnapshotMergeComplete", "AcknowledgeMergeFailure",
           "DeleteBackingImage", "RemoveStatusFile",
           "InitiateMerge", "WriteMerging", "SwitchSnapshotToMerge",
           "WriteIndicator", "WriteUnverified", "ForEachPartition",
           "CreateSnapshot", "CreateCowImage", "InitializeCow",
           "AutoDeleteSnapshot"}
Flags == {"failed", "merging", "needs_reboot", "cancelled"}
Deleters == {"RemoveAllSnapshots", "Cancelled", "MergedBefore", "Collapsed",
             "CreateUpdateSnapshots", "AutoDeleteSnapshot"}
Removers == {"TryCancelUpdate", "HandleCancelledUpdate", "CheckMergeState"}

Calls == [op : Operations, pc : Labels, todo : SUBSET Partitions,
          cur : Partitions \cup {NoPartition}, seen : SUBSET Flags,
          deleter : Deleters \cup {"none"}, remover : Removers \cup {"none"}]

Idle == [op |-> "none", pc |-> "idle", todo |-> {}, cur |-> NoPartition,
         seen |-> {}, deleter |-> "none", remover |-> "none"]

At(c, label) == call[c].pc = label

TypeOK ==
    /\ state \in UpdateStates \cup {""}
    /\ indicator \in Slots \cup {"absent", ""}
    /\ status \in [Partitions -> StatusStates]
    /\ cow \in [Partitions -> {"absent", "raw", "zeroed", "full"}]
    /\ base \in [Partitions -> {"old", "mixed", "new", "flashed"}]
    /\ updated \in [Partitions -> BOOLEAN]
    /\ active \in Slots
    /\ successful \in [Slots -> BOOLEAN]
    /\ slot \in Slots \cup {Off}
    /\ dm \in [Partitions ->
                  {"none", "linear", "snapshot", "snapshot-merge", "collapsed"}]
    /\ lock \in Callers \cup {NoCaller}
    /\ call \in [Callers -> Calls]
    /\ session \in {"none", "begun", "created", "finished"}
    /\ merge_run \in BOOLEAN
    /\ budget \in [Expenses -> Nat]

(* A device that runs slot Old and has never been updated. *)
Init ==
    /\ state = ""
    /\ indicator = "absent"
    /\ status = [p \in Partitions |-> "absent"]
    /\ cow = [p \in Partitions |-> "absent"]
    /\ base = [p \in Partitions |-> "old"]
    /\ updated = [p \in Partitions |-> FALSE]
    /\ active = Old
    /\ successful = [s \in Slots |-> s = Old]
    /\ slot = Old
    /\ dm = [p \in Partitions |-> "none"]
    /\ lock = NoCaller
    /\ call = [c \in Callers |-> Idle]
    /\ session = "none"
    /\ merge_run = TRUE
    /\ budget = Budget

------------------------------------------------------------------------------
(* Reading the disk. *)

ReadUpdateState == IF state = "" THEN "none" ELSE state

ListSnapshots == {p \in Partitions : status[p] # "absent"}

IsSnapshotDevice(p) == dm[p] \in {"snapshot", "snapshot-merge", "collapsed"}

MergeIsDone_Started(p) == base[p] # "old"

(* sectors_allocated = metadata_sectors in the kernel's status line. *)
MergeIsDone(p) == base[p] = "new"

(* p is in the partition table of the running slot only when that is New. *)
IsCancelledSnapshot(p) == slot = New /\ ~updated[p]

HasLiveSnapshot(p) == updated[p] /\ status[p] \notin {"absent", "merge-completed"}

SnapshotMode ==
    IF ReadUpdateState \in {"merging", "merge-failed"} THEN "snapshot-merge"
                                                       ELSE "snapshot"

NeedSnapshotsInFirstStageMount_NotWhenFailed(s) ==
    /\ indicator \notin {"absent", s}
    /\ ReadUpdateState \in {"unverified", "merging"}

NeedSnapshotsInFirstStageMount(s) ==
    /\ indicator \notin {"absent", s}
    /\ ReadUpdateState \in {"unverified", "merging", "merge-failed"}

MapCowDevices(p) == cow[p] # "absent"

(* The device that comes out, none when a step of the mapping fails. *)
MapPartitionWithSnapshot(p) ==
    CASE ~HasLiveSnapshot(p) -> "linear"
      [] HasLiveSnapshot(p) /\ MapCowDevices(p)
            /\ ReadUpdateState # "merge-needs-reboot" -> SnapshotMode
      [] OTHER -> "none"

(* The device that first-stage init creates for New's partition p. *)
FirstStageDevice(p) ==
    IF NeedSnapshotsInFirstStageMount(New) THEN MapPartitionWithSnapshot(p)
                                           ELSE "linear"

(***************************************************************************)
(* Does slot s boot from what is on disk?  Its verified boot metadata      *)
(* accepts the old image for slot Old, and for slot New the new image or   *)
(* one that the user flashed.  A snapshot shows the new image when its COW *)
(* holds the whole update, however much of it is merged already.           *)
(***************************************************************************)
Boots(s) ==
    IF s = Old
    THEN \A p \in Partitions : base[p] = "old"
    ELSE \A p \in Partitions :
            CASE FirstStageDevice(p) = "linear" -> base[p] \in {"new", "flashed"}
              [] FirstStageDevice(p) = "none" -> FALSE
              [] OTHER -> cow[p] = "full"

------------------------------------------------------------------------------
(* Steps of a call. *)

Spend(k) == budget[k] > 0 /\ budget' = [budget EXCEPT ![k] = @ - 1]
MayFail(f) == f \in Faults /\ Spend("fault")
Works == UNCHANGED budget

Become(c, r) == call' = [call EXCEPT ![c] = r]
Goto(c, label) == call' = [call EXCEPT ![c].pc = label]
Start(c, op, label) == Become(c, [Idle EXCEPT !.op = op, !.pc = label])

WriteSnapshotStatus(p, s) == status' = [status EXCEPT ![p] = s]

Locked(c) == lock = NoCaller /\ lock' = c
LockedBriefly == lock = NoCaller /\ UNCHANGED lock
Unlock == lock' = NoCaller
Holds == UNCHANGED lock

system == <<active, successful, slot, merge_run>>

(* TryCancelUpdate or ProcessUpdateState is done and its caller goes on. *)
Proceed(c) ==
    IF call[c].op = "BeginUpdate" THEN Start(c, "BeginUpdate", "WriteInitiated")
                                  ELSE Become(c, Idle)

(* RemoveAllUpdateState starts with RemoveAllSnapshots. *)
RemoveAllUpdateState(c, remover) ==
    Become(c, [call[c] EXCEPT !.pc = "RemoveAllSnapshots", !.todo = ListSnapshots,
                              !.cur = NoPartition, !.seen = {},
                              !.deleter = "none", !.remover = remover])

(***************************************************************************)
(* RemoveAllUpdateState returns.  HandleCancelledUpdate ignores the        *)
(* result, and CheckMergeState then removes everything a second time.      *)
(***************************************************************************)
RemoveReturns(c, ok) ==
    CASE call[c].remover = "TryCancelUpdate" ->
            /\ IF ok THEN Proceed(c) ELSE Become(c, Idle)
            /\ Unlock
      [] call[c].remover = "HandleCancelledUpdate" ->
            RemoveAllUpdateState(c, "CheckMergeState") /\ Holds
      [] OTHER -> Proceed(c) /\ Unlock

(* CheckTargetMergeState answers for snapshot p. *)
Polled(c, p, flags) ==
    Become(c, [call[c] EXCEPT !.pc = "CheckTargetMergeState", !.todo = @ \ {p},
                              !.cur = NoPartition, !.seen = @ \cup flags,
                              !.deleter = "none"])

DeleteSnapshot(c, p, deleter) ==
    Become(c, [call[c] EXCEPT !.pc = "DeleteBackingImage", !.cur = p,
                              !.deleter = deleter])

(* CreateUpdateSnapshots fails: the destructors delete what it created. *)
Unwind(c, created) ==
    Become(c, [call[c] EXCEPT !.pc = "AutoDeleteSnapshot", !.todo = created,
                              !.cur = NoPartition, !.deleter = "none"])

(* DeleteSnapshot returns to the code that called it. *)
Deleted(c, ok) ==
    LET p == call[c].cur
        failure == IF ok THEN {} ELSE {"failed"}
    IN  CASE call[c].deleter = "RemoveAllSnapshots" ->
               Become(c, [call[c] EXCEPT !.pc = "RemoveAllSnapshots",
                              !.todo = @ \ {p}, !.cur = NoPartition,
                              !.seen = @ \cup failure, !.deleter = "none"])
          [] call[c].deleter = "Cancelled" -> Polled(c, p, {"cancelled"})
          [] call[c].deleter = "MergedBefore" -> Polled(c, p, {})
          [] call[c].deleter = "Collapsed" ->
               Polled(c, p, IF ok THEN {} ELSE {"needs_reboot"})
          [] call[c].deleter = "CreateUpdateSnapshots" ->
               IF ok THEN Become(c, [call[c] EXCEPT !.pc = "CreateSnapshot",
                                                    !.deleter = "none"])
                     ELSE Unwind(c, Partitions \ call[c].todo)
          [] OTHER -> Unwind(c, call[c].todo \ {p})

------------------------------------------------------------------------------
(* TryCancelUpdate and RemoveAllUpdateState. *)

BeginUpdate(c) ==
    /\ c = Engine /\ At(c, "idle") /\ slot # Off
    /\ Start(c, "BeginUpdate", "TryCancelUpdate")
    /\ session' = "none"
    /\ UNCHANGED <<disk, system, dm, lock, budget>>

CancelUpdate(c) ==
    /\ c = Engine /\ At(c, "idle") /\ slot # Off
    /\ Start(c, "CancelUpdate", "TryCancelUpdate")
    /\ session' = "none"
    /\ UNCHANGED <<disk, system, dm, lock, budget>>

CanCancel ==
    \/ ReadUpdateState = "initiated"
    \/ ReadUpdateState = "unverified" /\ indicator \in {"absent", slot}

TryCancelUpdate(c) ==
    /\ At(c, "TryCancelUpdate")
    /\ \/ /\ ReadUpdateState = "none"
          /\ LockedBriefly /\ Proceed(c)
       \/ /\ CanCancel
          /\ Locked(c) /\ RemoveAllUpdateState(c, "TryCancelUpdate")
       \/ /\ ReadUpdateState # "none" /\ ~CanCancel        \* needs_merge
          /\ LockedBriefly
          /\ IF call[c].op = "BeginUpdate" THEN Goto(c, "CheckMergeState")
                                           ELSE Become(c, Idle)
    /\ UNCHANGED <<disk, system, dm, session, budget>>

(* A partition that is mounted, as those of the running slot are, stays. *)
CanUnmapSnapshot(p) == ~(slot = New /\ dm[p] # "none")

UnmapPartitionWithSnapshot(p) == dm' = [dm EXCEPT ![p] = "none"]

(* One iteration of RemoveAllSnapshots. *)
RemoveSnapshot(c, p) ==
    /\ At(c, "RemoveAllSnapshots") /\ p \in call[c].todo
    /\ \/ /\ CanUnmapSnapshot(p) /\ Works
          /\ UnmapPartitionWithSnapshot(p)
          /\ DeleteSnapshot(c, p, "RemoveAllSnapshots")
       \/ /\ \/ ~CanUnmapSnapshot(p) /\ Works
             \/ MayFail("unmap")
          /\ UNCHANGED dm
          /\ Become(c, [call[c] EXCEPT !.todo = @ \ {p}, !.seen = @ \cup {"failed"}])
    /\ UNCHANGED <<disk, system, lock, session>>

RemoveSnapshotBootIndicator_Unchecked(c) ==
    /\ At(c, "RemoveAllSnapshots") /\ call[c].todo = {}
    /\ Goto(c, "WriteNone") /\ Holds
    /\ indicator' = "absent" /\ Works
    /\ UNCHANGED <<state, status, cow, base, updated, system, dm, session>>

(* The end of the loop, and RemoveSnapshotBootIndicator after it. *)
RemoveSnapshotBootIndicator(c) ==
    /\ At(c, "RemoveAllSnapshots") /\ call[c].todo = {}
    /\ IF "failed" \in call[c].seen
       THEN RemoveReturns(c, FALSE) /\ UNCHANGED indicator /\ Works
       ELSE /\ Goto(c, "WriteNone") /\ Holds
            /\ \/ indicator' = "absent" /\ Works
               \/ UNCHANGED indicator /\ MayFail("indicator")
    /\ UNCHANGED <<state, status, cow, base, updated, system, dm, session>>

WriteNone(c) ==
    /\ At(c, "WriteNone")
    /\ state' = "none"
    /\ RemoveReturns(c, TRUE)
    /\ UNCHANGED <<indicator, status, cow, base, updated, system, dm, session,
                   budget>>

(* The second half of BeginUpdate, with the lock taken anew. *)
WriteInitiated(c) ==
    /\ At(c, "WriteInitiated") /\ LockedBriefly
    /\ IF ReadUpdateState = "none"
       THEN state' = "initiated" /\ session' = "begun"
       ELSE UNCHANGED <<state, session>>
    /\ Become(c, Idle)
    /\ UNCHANGED <<indicator, status, cow, base, updated, system, dm, budget>>

(* The COW device cannot be unmapped under a snapshot that uses it. *)
CanUnmapCowDevices(p) == ~IsSnapshotDevice(p)

(* DeleteSnapshot: unmap and delete the COW, then unlink the status file. *)
DeleteBackingImage(c) ==
    /\ At(c, "DeleteBackingImage")
    /\ LET p == call[c].cur
       IN  \/ /\ CanUnmapCowDevices(p) /\ Works
              /\ cow' = [cow EXCEPT ![p] = "absent"]
              /\ Goto(c, "RemoveStatusFile")
           \/ /\ \/ ~CanUnmapCowDevices(p) /\ Works
                 \/ MayFail("image")
              /\ UNCHANGED cow
              /\ Deleted(c, FALSE)
    /\ UNCHANGED <<state, indicator, status, base, updated, system, dm, lock,
                   session>>

RemoveStatusFile(c) ==
    /\ At(c, "RemoveStatusFile")
    /\ \/ /\ status' = [status EXCEPT ![call[c].cur] = "absent"] /\ Works
          /\ Deleted(c, TRUE)
       \/ /\ UNCHANGED status /\ MayFail("status")
          /\ Deleted(c, FALSE)
    /\ UNCHANGED <<state, indicator, cow, base, updated, system, dm, lock, session>>

------------------------------------------------------------------------------
(* ProcessUpdateState. *)

CheckMergeState_CancelsInitiated(c) ==
    /\ At(c, "CheckMergeState")
    /\ IF ReadUpdateState = "initiated"
       THEN Locked(c) /\ RemoveAllUpdateState(c, "HandleCancelledUpdate")
       ELSE LockedBriefly /\ Proceed(c)
    /\ UNCHANGED <<disk, system, dm, session, budget>>

CheckMergeState_RebootEnds(c) ==
    /\ At(c, "CheckMergeState")
    /\ \/ /\ ReadUpdateState \notin {"merging", "merge-failed"}
          /\ LockedBriefly /\ Proceed(c)
       \/ /\ ReadUpdateState \in {"merging", "merge-failed"}
          /\ Locked(c)
          /\ Become(c, [call[c] EXCEPT !.pc = "CheckTargetMergeState",
                                       !.todo = ListSnapshots, !.seen = {}])
    /\ UNCHANGED <<disk, system, dm, session, budget>>

CheckMergeState(c) ==
    /\ At(c, "CheckMergeState")
    /\ \/ /\ \/ ReadUpdateState \in {"none", "initiated"}
             \/ ReadUpdateState = "unverified" /\ indicator # slot
          /\ LockedBriefly /\ Proceed(c)
       \/ /\ ReadUpdateState = "unverified" /\ indicator = slot
          /\ Locked(c) /\ RemoveAllUpdateState(c, "HandleCancelledUpdate")
       \/ /\ ReadUpdateState \in MergeStates
          /\ Locked(c)
          /\ Become(c, [call[c] EXCEPT !.pc = "CheckTargetMergeState",
                                       !.todo = ListSnapshots, !.seen = {}])
    /\ UNCHANGED <<disk, system, dm, session, budget>>

CheckTargetMergeState(c, p) ==
    /\ At(c, "CheckTargetMergeState") /\ p \in call[c].todo
    /\ \/ /\ ~IsSnapshotDevice(p) /\ IsCancelledSnapshot(p) /\ Works
          /\ DeleteSnapshot(c, p, "Cancelled") /\ UNCHANGED status
       \/ /\ ~IsSnapshotDevice(p) /\ ~IsCancelledSnapshot(p) /\ Works
          /\ IF status[p] = "merge-completed"
             THEN DeleteSnapshot(c, p, "MergedBefore")
             ELSE Polled(c, p, {"failed"})
          /\ UNCHANGED status
       \/ /\ dm[p] = "snapshot" /\ Works
          /\ Polled(c, p, {"failed"}) /\ UNCHANGED status
       \/ /\ dm[p] \in {"snapshot-merge", "collapsed"} /\ ~MergeIsDone(p) /\ Works
          /\ Polled(c, p, IF status[p] = "merge-completed" THEN {"failed"}
                                                           ELSE {"merging"})
          /\ UNCHANGED status
       \/ /\ dm[p] \in {"snapshot-merge", "collapsed"} /\ MergeIsDone(p)
          /\ \/ /\ WriteSnapshotStatus(p, "merge-completed") /\ Works
                /\ Become(c, [call[c] EXCEPT !.pc = "OnSnapshotMergeComplete",
                                             !.cur = p])
             \/ /\ UNCHANGED status /\ MayFail("status")
                /\ Polled(c, p, {"failed"})
    /\ UNCHANGED <<state, indicator, cow, base, updated, system, dm, lock, session>>

(***************************************************************************)
(* Put a linear table in place of the snapshot.  When the inner device     *)
(* then cannot be deleted, the outer one is linear already, and every      *)
(* later attempt fails on it.                                              *)
(***************************************************************************)
CollapseSnapshotDevice(p, ok) ==
    \/ /\ ok /\ dm[p] = "snapshot-merge" /\ Works
       /\ dm' = [dm EXCEPT ![p] = "linear"]
    \/ /\ ~ok /\ UNCHANGED dm
       /\ \/ dm[p] = "collapsed" /\ Works
          \/ MayFail("collapse")
    \/ /\ ~ok /\ dm[p] = "snapshot-merge" /\ MayFail("inner")
       /\ dm' = [dm EXCEPT ![p] = "collapsed"]

OnSnapshotMergeComplete(c) ==
    /\ At(c, "OnSnapshotMergeComplete")
    /\ \E ok \in BOOLEAN :
          /\ CollapseSnapshotDevice(call[c].cur, ok)
          /\ IF ok THEN DeleteSnapshot(c, call[c].cur, "Collapsed")
                   ELSE Polled(c, call[c].cur, {"needs_reboot"})
    /\ UNCHANGED <<disk, system, lock, session>>

MergeDecision_RebootFirst(c) ==
    /\ At(c, "CheckTargetMergeState") /\ call[c].todo = {}
    /\ IF "needs_reboot" \in call[c].seen
       THEN state' = "merge-needs-reboot" /\ Proceed(c) /\ Unlock
       ELSE UNCHANGED state /\ Start(c, call[c].op, "CheckMergeState") /\ Unlock
    /\ UNCHANGED <<indicator, status, cow, base, updated, system, dm, session,
                   budget>>

MergeDecision_FailedIsDone(c) ==
    /\ At(c, "CheckTargetMergeState") /\ call[c].todo = {}
    /\ \/ /\ "merging" \in call[c].seen
          /\ Start(c, call[c].op, "CheckMergeState") /\ Unlock
          /\ UNCHANGED state
       \/ /\ "merging" \notin call[c].seen
          /\ Goto(c, "WriteNone") /\ Holds
          /\ UNCHANGED state
    /\ UNCHANGED <<indicator, status, cow, base, updated, system, dm, session,
                   budget>>

(***************************************************************************)
(* All snapshots are polled.  Merging: sleep and poll again.  Failed: the  *)
(* failure is acknowledged after the lock is released.  Cancelled and      *)
(* completed: everything is removed under the same lock.                   *)
(***************************************************************************)
MergeDecision(c) ==
    /\ At(c, "CheckTargetMergeState") /\ call[c].todo = {}
    /\ LET seen == call[c].seen
       IN  \/ /\ "merging" \in seen
              /\ Start(c, call[c].op, "CheckMergeState") /\ Unlock
              /\ UNCHANGED state
           \/ /\ "merging" \notin seen /\ "failed" \in seen
              /\ Start(c, call[c].op, "AcknowledgeMergeFailure") /\ Unlock
              /\ UNCHANGED state
           \/ /\ {"merging", "failed"} \cap seen = {} /\ "needs_reboot" \in seen
              /\ state' = "merge-needs-reboot"
              /\ Proceed(c) /\ Unlock
           \/ /\ {"merging", "failed", "needs_reboot"} \cap seen = {}
              /\ RemoveAllUpdateState(c, "CheckMergeState") /\ Holds
              /\ UNCHANGED state
    /\ UNCHANGED <<indicator, status, cow, base, updated, system, dm, session,
                   budget>>

AcknowledgeMergeFailure_NoRecheck(c) ==
    /\ At(c, "AcknowledgeMergeFailure") /\ LockedBriefly
    /\ state' = "merge-failed"
    /\ Proceed(c)
    /\ UNCHANGED <<indicator, status, cow, base, updated, system, dm, session,
                   budget>>

AcknowledgeMergeFailure(c) ==
    /\ At(c, "AcknowledgeMergeFailure") /\ LockedBriefly
    /\ state' = IF ReadUpdateState \in {"merging", "merge-needs-reboot"}
                THEN "merge-failed" ELSE state
    /\ Proceed(c)
    /\ UNCHANGED <<indicator, status, cow, base, updated, system, dm, session,
                   budget>>

------------------------------------------------------------------------------
(* InitiateMerge. *)

(***************************************************************************)
(* snapshotctl merge: init runs it once per boot, when the boot is         *)
(* complete; the engine uses the same calls whenever it likes.             *)
(***************************************************************************)
MergeCmdHandler(c) ==
    /\ At(c, "idle") /\ slot # Off /\ successful[slot]
    /\ c = Engine \/ ~merge_run
    /\ lock = NoCaller
    /\ merge_run' = (merge_run \/ c # Engine)
    /\ CASE ReadUpdateState = "none" -> UNCHANGED call
         [] ReadUpdateState = "unverified" ->
               Start(c, "MergeCmdHandler", "InitiateMerge")
         [] OTHER -> Start(c, "MergeCmdHandler", "CheckMergeState")
    /\ UNCHANGED <<disk, active, successful, slot, dm, lock, session, budget>>

CanMerge_AnySlot ==
    /\ ReadUpdateState = "unverified"
    /\ indicator # "absent"
    /\ \A p \in ListSnapshots : dm[p] # "none"

CanMerge ==
    /\ ReadUpdateState = "unverified"
    /\ indicator \notin {"absent", slot}
    /\ \A p \in ListSnapshots : dm[p] # "none"

InitiateMerge(c) ==
    /\ At(c, "InitiateMerge")
    /\ \/ CanMerge /\ Locked(c) /\ Goto(c, "WriteMerging")
       \/ ~CanMerge /\ LockedBriefly /\ Become(c, Idle)
    /\ UNCHANGED <<disk, system, dm, session, budget>>

WriteMerging_AfterSwitch(c) ==
    /\ At(c, "WriteMerging")
    /\ Become(c, [call[c] EXCEPT !.pc = "SwitchSnapshotToMerge",
                                 !.todo = ListSnapshots])
    /\ UNCHANGED <<disk, system, dm, lock, session, budget>>

WriteMerging(c) ==
    /\ At(c, "WriteMerging")
    /\ state' = "merging"
    /\ Become(c, [call[c] EXCEPT !.pc = "SwitchSnapshotToMerge",
                                 !.todo = ListSnapshots])
    /\ UNCHANGED <<indicator, status, cow, base, updated, system, dm, lock,
                   session, budget>>

RewriteSnapshotDeviceTable(p) ==
    /\ dm[p] = "snapshot"
    /\ dm' = [dm EXCEPT ![p] = "snapshot-merge"]

SwitchSnapshotToMerge(c, p) ==
    /\ At(c, "SwitchSnapshotToMerge") /\ p \in call[c].todo
    /\ \/ /\ RewriteSnapshotDeviceTable(p)
          /\ \/ WriteSnapshotStatus(p, "merging") /\ Works
             \/ UNCHANGED status /\ MayFail("status")
          /\ Become(c, [call[c] EXCEPT !.todo = @ \ {p}])
       \/ /\ \/ dm[p] # "snapshot" /\ Works
             \/ MayFail("rewrite")
          /\ UNCHANGED <<dm, status>>
          /\ Become(c, [call[c] EXCEPT !.todo = @ \ {p}, !.seen = @ \cup {"failed"}])
    /\ UNCHANGED <<state, indicator, cow, base, updated, system, lock, session>>

(* The end of InitiateMerge; the command goes on to ProcessUpdateState. *)
MergeInitiated(c) ==
    /\ At(c, "SwitchSnapshotToMerge") /\ call[c].todo = {}
    /\ state' = IF "failed" \in call[c].seen THEN "merge-failed" ELSE state
    /\ Start(c, "MergeCmdHandler", "CheckMergeState") /\ Unlock
    /\ UNCHANGED <<indicator, status, cow, base, updated, system, dm, session,
                   budget>>

------------------------------------------------------------------------------
(* FinishedSnapshotWrites, called when the engine has written all it has to. *)

FinishedSnapshotWrites(c) ==
    /\ c = Engine /\ At(c, "idle")
    /\ \/ session = "created" /\ \A p \in Partitions : cow[p] = "full"
       \/ session = "finished"
    /\ \/ /\ ReadUpdateState = "initiated"
          /\ Locked(c) /\ Start(c, "FinishedSnapshotWrites", "WriteIndicator")
          /\ UNCHANGED session
       \/ /\ ReadUpdateState = "unverified"
          /\ LockedBriefly /\ session' = "finished" /\ UNCHANGED call
       \/ /\ ReadUpdateState \notin {"initiated", "unverified"}
          /\ LockedBriefly /\ session' = "none" /\ UNCHANGED call
    /\ UNCHANGED <<disk, system, dm, budget>>

WriteIndicator(c) ==
    /\ At(c, "WriteIndicator")
    /\ indicator' = slot
    /\ Goto(c, "WriteUnverified")
    /\ UNCHANGED <<state, status, cow, base, updated, system, dm, lock, session,
                   budget>>

WriteUnverified(c) ==
    /\ At(c, "WriteUnverified")
    /\ state' = "unverified"
    /\ session' = "finished"
    /\ Become(c, Idle) /\ Unlock
    /\ UNCHANGED <<indicator, status, cow, base, updated, system, dm, budget>>

------------------------------------------------------------------------------
(***************************************************************************)
(* CreateUpdateSnapshots.  The engine calls it after BeginUpdate.  Only    *)
(* the update from Old to New is modelled, so it is called in slot Old.    *)
(***************************************************************************)
CreateUpdateSnapshots(c) ==
    /\ c = Engine /\ At(c, "idle") /\ slot = Old
    /\ session \in {"begun", "created"}
    /\ Locked(c)
    /\ Become(c, [Idle EXCEPT !.op = "CreateUpdateSnapshots",
                              !.pc = "ForEachPartition", !.todo = Partitions])
    /\ session' = "begun"
    /\ UNCHANGED <<disk, system, dm, budget>>

DeleteExistingSnapshot(c, p) ==
    /\ At(c, "ForEachPartition") /\ p \in call[c].todo
    /\ DeleteSnapshot(c, p, "CreateUpdateSnapshots")
    /\ UNCHANGED <<disk, system, dm, lock, session, budget>>

CreateSnapshot(c) ==
    /\ At(c, "CreateSnapshot")
    /\ \/ /\ WriteSnapshotStatus(call[c].cur, "created") /\ Works
          /\ Goto(c, "CreateCowImage")
       \/ /\ UNCHANGED status /\ MayFail("status")
          /\ Unwind(c, Partitions \ call[c].todo)
    /\ UNCHANGED <<state, indicator, cow, base, updated, system, dm, lock, session>>

CreateCowImage(c) ==
    /\ At(c, "CreateCowImage")
    /\ LET p == call[c].cur
       IN  \/ /\ cow' = [cow EXCEPT ![p] = "raw"] /\ Works
              /\ Become(c, [call[c] EXCEPT !.pc = "ForEachPartition",
                                    !.todo = @ \ {p}, !.cur = NoPartition])
           \/ /\ UNCHANGED cow /\ MayFail("image")
              /\ Unwind(c, (Partitions \ call[c].todo) \cup {p})
    /\ UNCHANGED <<state, indicator, status, base, updated, system, dm, lock,
                   session>>

ZeroFillCows(c) ==
    /\ At(c, "ForEachPartition") /\ call[c].todo = {}
    /\ Become(c, [call[c] EXCEPT !.pc = "InitializeCow", !.todo = Partitions])
    /\ UNCHANGED <<disk, system, dm, lock, session, budget>>

InitializeCow(c, p) ==
    /\ At(c, "InitializeCow") /\ p \in call[c].todo
    /\ \/ /\ UnmapPartitionWithSnapshot(p) /\ Works
          /\ cow' = [cow EXCEPT ![p] = "zeroed"]
          /\ Become(c, [call[c] EXCEPT !.todo = @ \ {p}])
       \/ /\ UNCHANGED <<dm, cow>> /\ MayFail("unmap")
          /\ Unwind(c, Partitions)
    /\ UNCHANGED <<state, indicator, status, base, updated, system, lock, session>>

(* The new table of slot New marks every partition as updated. *)
UpdatePartitionTable(c) ==
    /\ At(c, "InitializeCow") /\ call[c].todo = {}
    /\ \/ /\ updated' = [p \in Partitions |-> TRUE] /\ Works
          /\ session' = "created"
          /\ Become(c, Idle) /\ Unlock
       \/ /\ UNCHANGED <<updated, session>> /\ MayFail("table")
          /\ Unwind(c, Partitions) /\ Holds
    /\ UNCHANGED <<state, indicator, status, cow, base, system, dm>>

AutoDeleteSnapshot(c) ==
    /\ At(c, "AutoDeleteSnapshot")
    /\ \/ /\ \E p \in call[c].todo : DeleteSnapshot(c, p, "AutoDeleteSnapshot")
          /\ Holds
       \/ /\ call[c].todo = {}
          /\ Become(c, Idle) /\ Unlock
    /\ UNCHANGED <<disk, system, dm, session, budget>>

------------------------------------------------------------------------------
(* The engine maps a snapshot under the shared lock and writes through it. *)

MapUpdateSnapshot(p) ==
    /\ At(Engine, "idle") /\ session = "created" /\ lock = NoCaller
    /\ dm' = [dm EXCEPT ![p] = MapPartitionWithSnapshot(p)]
    /\ UNCHANGED <<disk, system, lock, call, session, budget>>

UnmapUpdateSnapshot(p) ==
    /\ At(Engine, "idle") /\ session \in {"created", "finished"} /\ lock = NoCaller
    /\ dm[p] # "none"
    /\ UnmapPartitionWithSnapshot(p)
    /\ UNCHANGED <<disk, system, lock, call, session, budget>>

WriteUpdate(p) ==
    /\ At(Engine, "idle") /\ session = "created"
    /\ dm[p] = "snapshot" /\ cow[p] = "zeroed"
    /\ cow' = [cow EXCEPT ![p] = "full"]
    /\ UNCHANGED <<state, indicator, status, base, updated, system, dm, lock, call,
                   session, budget>>

SetActiveBootSlot ==
    /\ At(Engine, "idle") /\ session = "finished"
    /\ active' = New
    /\ successful' = [successful EXCEPT ![New] = FALSE]
    /\ session' = "none"
    /\ UNCHANGED <<disk, slot, dm, lock, call, merge_run, budget>>

------------------------------------------------------------------------------
(* The kernel, the boot chain, power losses, and the user. *)

(* dm-snapshot-merge copies exceptions from the COW into the base device. *)
MergeBlocks(p) ==
    /\ dm[p] = "snapshot-merge"
    /\ \/ base[p] = "old" /\ base' = [base EXCEPT ![p] = "mixed"]
       \/ base[p] = "mixed" /\ cow[p] = "full"
          /\ base' = [base EXCEPT ![p] = "new"]
    /\ UNCHANGED <<state, indicator, status, cow, updated, system, dm, lock, call,
                   session, budget>>

(***************************************************************************)
(* The bootloader starts the active slot.  A slot that does not come up is *)
(* given up for the other one, unless it was marked successful before.     *)
(***************************************************************************)
Boot ==
    /\ slot = Off
    /\ \/ /\ Boots(active)
          /\ slot' = active
          /\ dm' = [p \in Partitions |->
                       IF active = New THEN FirstStageDevice(p) ELSE "none"]
          /\ UNCHANGED active
       \/ /\ ~Boots(active) /\ ~successful[active]
          /\ active' = OtherSlot(active)
          /\ UNCHANGED <<slot, dm>>
    /\ merge_run' = FALSE
    /\ UNCHANGED <<disk, successful, lock, call, session, budget>>

MarkBootSuccessful ==
    /\ slot # Off /\ ~successful[slot]
    /\ successful' = [successful EXCEPT ![slot] = TRUE]
    /\ UNCHANGED <<disk, active, slot, dm, lock, call, session, merge_run, budget>>

Shutdown ==
    /\ slot' = Off
    /\ dm' = [p \in Partitions |-> "none"]
    /\ lock' = NoCaller
    /\ call' = [c \in Callers |-> Idle]
    /\ session' = "none"
    /\ UNCHANGED <<bootControl, merge_run>>

(* An orderly reboot: into an update, or in the middle of a merge. *)
Reboot ==
    /\ slot # Off /\ merge_run
    /\ \A c \in Callers : At(c, "idle")
    /\ active # slot \/ ReadUpdateState \in MergeStates
    /\ Shutdown
    /\ UNCHANGED <<disk, budget>>

PowerLoss ==
    /\ slot # Off /\ Spend("crash")
    /\ Shutdown
    /\ UNCHANGED disk

(* The power goes between the truncation and the write of WriteUpdateState: *)
(* the write that call[c] is about to do leaves an empty state file.        *)
PowerLossInWrite(c) ==
    /\ TornWrites /\ Spend("crash")
    /\ \/ call[c].pc \in {"WriteNone", "WriteMerging", "WriteUnverified"}
       \/ /\ At(c, "AcknowledgeMergeFailure") /\ lock = NoCaller
          /\ ReadUpdateState \in {"merging", "merge-needs-reboot"}
       \/ /\ At(c, "SwitchSnapshotToMerge") /\ call[c].todo = {}
          /\ "failed" \in call[c].seen
       \/ /\ At(c, "CheckTargetMergeState") /\ call[c].todo = {}
          /\ {"merging", "failed"} \cap call[c].seen = {}
          /\ "needs_reboot" \in call[c].seen
    /\ state' = ""
    /\ Shutdown
    /\ UNCHANGED <<indicator, status, cow, base, updated>>

(* The process dies; flock goes with it, the device-mapper tables stay. *)
CallerDies(c) ==
    /\ ~At(c, "idle") /\ Spend("crash")
    /\ Become(c, Idle)
    /\ lock' = IF lock = c THEN NoCaller ELSE lock
    /\ session' = IF c = Engine THEN "none" ELSE session
    /\ UNCHANGED <<disk, system, dm>>

(* fastboot set_active *)
SetActive(s) ==
    /\ slot = Off /\ s # active /\ Spend("set_active")
    /\ active' = s
    /\ successful' = [successful EXCEPT ![s] = FALSE]
    /\ UNCHANGED <<disk, slot, dm, lock, call, session, merge_run>>

(* fastboot flash of partition p of the active slot, here New:             *)
(* CancelPartitionSnapshot, then Flash.                                    *)
FlashHandler(p) ==
    /\ slot = Off /\ active = New /\ Spend("flash")
    /\ updated' = [updated EXCEPT ![p] = FALSE]
    /\ base' = [base EXCEPT ![p] = "flashed"]
    /\ UNCHANGED <<state, indicator, status, cow, system, dm, lock, call, session>>

------------------------------------------------------------------------------
Step(c) ==
    \/ TryCancelUpdate(c) \/ RemoveSnapshotBootIndicator(c) \/ WriteNone(c)
    \/ WriteInitiated(c) \/ DeleteBackingImage(c) \/ RemoveStatusFile(c)
    \/ CheckMergeState(c) \/ OnSnapshotMergeComplete(c) \/ MergeDecision(c)
    \/ AcknowledgeMergeFailure(c) \/ InitiateMerge(c) \/ WriteMerging(c)
    \/ MergeInitiated(c) \/ WriteIndicator(c) \/ WriteUnverified(c)
    \/ CreateSnapshot(c) \/ CreateCowImage(c) \/ ZeroFillCows(c)
    \/ UpdatePartitionTable(c) \/ AutoDeleteSnapshot(c)
    \/ \E p \in Partitions :
          \/ RemoveSnapshot(c, p) \/ CheckTargetMergeState(c, p)
          \/ SwitchSnapshotToMerge(c, p) \/ DeleteExistingSnapshot(c, p)
          \/ InitializeCow(c, p)

Request(c) ==
    \/ BeginUpdate(c) \/ CancelUpdate(c) \/ CreateUpdateSnapshots(c)
    \/ FinishedSnapshotWrites(c) \/ MergeCmdHandler(c)

EngineWork ==
    \/ SetActiveBootSlot
    \/ \E p \in Partitions :
          MapUpdateSnapshot(p) \/ UnmapUpdateSnapshot(p) \/ WriteUpdate(p)

Environment ==
    \/ Boot \/ MarkBootSuccessful \/ Reboot \/ PowerLoss
    \/ \E c \in Callers : PowerLossInWrite(c) \/ CallerDies(c)
    \/ \E s \in Slots : SetActive(s)
    \/ \E p \in Partitions : MergeBlocks(p) \/ FlashHandler(p)

Next ==
    \/ \E c \in Callers : Step(c) \/ Request(c)
    \/ EngineWork
    \/ Environment

Spec == Init /\ [][Next]_vars

(***************************************************************************)
(* Callers keep running, and flock serves those that wait for it in turn;  *)
(* the kernel keeps merging; a device that is off is booted; init execs    *)
(* the merge command of snapshotctl.rc once the boot is complete; and a    *)
(* device whose merge is not over is rebooted some day.                    *)
(***************************************************************************)
Fairness ==
    /\ \A c \in Callers : SF_vars(Step(c))
    /\ \A c \in Callers \ {Engine} : SF_vars(MergeCmdHandler(c))
    /\ \A p \in Partitions : WF_vars(MergeBlocks(p))
    /\ WF_vars(Boot) /\ WF_vars(MarkBootSuccessful) /\ SF_vars(Reboot)

FairSpec == Spec /\ Fairness

------------------------------------------------------------------------------
(***************************************************************************)
(* Whatever is on disk, the device comes up: the active slot boots, or the *)
(* bootloader may still give it up for the other slot and that one boots.  *)
(* In particular a power loss between any two writes of a cancellation, of *)
(* the start of a merge or of its cleanup leaves a device that boots.      *)
(***************************************************************************)
DeviceBoots ==
    Boots(active) \/ (~successful[active] /\ Boots(OtherSlot(active)))

(***************************************************************************)
(* A partition that is neither all old nor all new is only ever seen       *)
(* through its snapshot: first-stage init will map it with a complete COW, *)
(* and in merge mode, so the merge is taken up again after every reboot.   *)
(***************************************************************************)
MergeSurvivesReboot ==
    \A p \in Partitions : base[p] = "mixed" =>
        FirstStageDevice(p) = "snapshot-merge" /\ cow[p] = "full"

(***************************************************************************)
(* After merge-needs-reboot first-stage init maps no snapshot at all, so   *)
(* the state is only written when each snapshot left over is merged, or    *)
(* belongs to a partition that was flashed since.                          *)
(***************************************************************************)
NeedsRebootOnlyWhenMerged ==
    ReadUpdateState = "merge-needs-reboot" =>
        \A p \in Partitions : ~HasLiveSnapshot(p)

(* A status file says merge-completed only of base blocks that are new, so *)
(* that dropping the snapshot, as the next boot will, loses nothing.       *)
CompletedIsMerged ==
    \A p \in Partitions :
        status[p] = "merge-completed" => base[p] \in {"new", "flashed"}

(***************************************************************************)
(* No COW is leaked: a COW always has a status file, by which              *)
(* RemoveAllSnapshots finds it, whichever step of CreateUpdateSnapshots or *)
(* DeleteSnapshot was the last one to happen; and once the state is none,  *)
(* and a new update may begin, no snapshot is left.                        *)
(***************************************************************************)
NoLeakedSnapshot ==
    /\ \A p \in Partitions : cow[p] # "absent" => status[p] # "absent"
    /\ ReadUpdateState = "none" => ListSnapshots = {}

(***************************************************************************)
(* While the engine writes its update, no other process cancels it: the    *)
(* snapshots it created stay, and every device it is given for a target    *)
(* partition is a snapshot, never the base blocks the running slot uses.   *)
(***************************************************************************)
EngineUndisturbed ==
    session = "created" =>
        /\ ReadUpdateState = "initiated"
        /\ \A p \in Partitions :
              /\ status[p] = "created" /\ updated[p]
              /\ cow[p] \in {"zeroed", "full"}
              /\ dm[p] \in {"none", "snapshot"}

(* The blocks the old slot boots from are never merged into while that     *)
(* slot is running, and a merge only starts from a verified new slot.      *)
MergesOnlyInNewSlot ==
    [][/\ \A p \in Partitions :
             base'[p] \in {"mixed", "new"} /\ base'[p] # base[p] => slot = New
       /\ ReadUpdateState = "unverified" /\ ReadUpdateState' \in MergeStates
             => slot = New /\ successful[New]]_vars

(***************************************************************************)
(* Once the state is none it only moves to initiated: a caller that still  *)
(* works on a merge which another caller has finished, and which re-takes  *)
(* the lock to acknowledge a failure, does not bring the merge back.       *)
(***************************************************************************)
FinishedStaysFinished ==
    [][ReadUpdateState = "none" => ReadUpdateState' \in {"none", "initiated"}]_vars

(* A merge ends: its state goes back to none, after transient failures of  *)
(* the cleanup, deaths of the merging process and power losses.            *)
MergeEnds == ReadUpdateState \in MergeStates ~> ReadUpdateState = "none"

(***************************************************************************)
(* Until the new slot has been marked successful, and unless the user      *)
(* flashes over it, not even a power loss that leaves the state file empty *)
(* keeps the device from booting.                                          *)
(***************************************************************************)
BootsUntilCommitted ==
    ~successful[New] /\ (\A p \in Partitions : base[p] # "flashed") => DeviceBoots

(* snapshot.h says of BeginUpdate that it fails when the state is not      *)
(* none: a BeginUpdate that found an update in progress never goes on.     *)
BeginFailsUnlessNone ==
    [][call[Engine].op = "BeginUpdate" /\ call[Engine].remover = "TryCancelUpdate"
          => call'[Engine].pc # "WriteInitiated"]_vars

------------------------------------------------------------------------------
(* The update as an observer of the disk sees it. *)
Phase ==
    CASE ReadUpdateState = "none" -> "none"
      [] ReadUpdateState = "initiated" -> "applying"
      [] ReadUpdateState = "unverified" -> "pending"
      [] OTHER -> "merging"

AB == INSTANCE VirtualAB WITH phase <- Phase, running <- slot, image <- base

(* As long as nobody flashes a partition and no write is torn, libsnapshot *)
(* and the boot chain implement VirtualAB: updates, merges and rollbacks   *)
(* are atomic, whatever crashes and fails in between.                      *)
ImplementsVirtualAB == AB!Spec
==============================================================================
