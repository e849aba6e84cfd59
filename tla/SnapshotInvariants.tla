-------------------------- MODULE SnapshotInvariants --------------------------
(***************************************************************************)
(* The invariants from which the properties of SnapshotManager are proved: *)
(* what each call knows while it holds the lock, and what the engine's     *)
(* session and the devices look like meanwhile.                            *)
(***************************************************************************)
EXTENDS SnapshotManager

(* The places at which a call holds the exclusive flock. *)
Deleting == {"DeleteBackingImage", "RemoveStatusFile"}

LockedLabels == Deleting \cup
    {"RemoveAllSnapshots", "WriteNone", "CheckTargetMergeState",
     "OnSnapshotMergeComplete", "WriteMerging", "SwitchSnapshotToMerge",
     "WriteIndicator", "WriteUnverified", "ForEachPartition", "CreateSnapshot",
     "CreateCowImage", "InitializeCow", "AutoDeleteSnapshot"}

(* What a lock holder r is doing. *)
Removing(r) == \/ r.pc \in {"RemoveAllSnapshots", "WriteNone"}
               \/ r.pc \in Deleting /\ r.deleter = "RemoveAllSnapshots"

Polling(r) == \/ r.pc \in {"CheckTargetMergeState", "OnSnapshotMergeComplete"}
              \/ r.pc \in Deleting /\ r.deleter \in {"Cancelled", "MergedBefore",
                                                     "Collapsed"}

Looping(r) == \/ r.pc \in {"ForEachPartition", "CreateSnapshot", "CreateCowImage"}
              \/ r.pc \in Deleting /\ r.deleter = "CreateUpdateSnapshots"

Creating(r) == \/ Looping(r)
               \/ r.pc \in {"InitializeCow", "AutoDeleteSnapshot"}
               \/ r.pc \in Deleting /\ r.deleter = "AutoDeleteSnapshot"

(* The flock is held by exactly the caller that is at such a place. *)
LockInv == \A c \in Callers : lock = c <=> call[c].pc \in LockedLabels

(***************************************************************************)
(* The update state st and the engine's session ses under caller c, whose  *)
(* call is r: a lock holder finds the state that its call was started for, *)
(* and only the engine begins, cancels, creates and finishes updates.      *)
(***************************************************************************)
HolderOK(c, r, st, ses) ==
    /\ r.pc \in Deleting => r.deleter \in Deleters
    /\ r.pc \in Deleting \cup {"OnSnapshotMergeComplete", "CreateSnapshot",
                               "CreateCowImage"} => r.cur \in Partitions
    /\ Removing(r) => /\ r.remover \in Removers
                      /\ r.remover = "TryCancelUpdate" =>
                            r.op \in {"BeginUpdate", "CancelUpdate"}
                      /\ r.remover # "TryCancelUpdate" => st # "initiated"
    /\ Polling(r) => st \in MergeStates
    /\ Creating(r) => c = Engine /\ ses = "begun" /\ st = "initiated"
    /\ r.pc = "WriteMerging" => st = "unverified"
    /\ r.pc = "SwitchSnapshotToMerge" => st = "merging"
    /\ r.pc \in {"WriteIndicator", "WriteUnverified"} =>
          c = Engine /\ st = "initiated"

EngineOK(c, r, ses) ==
    /\ r.pc = "TryCancelUpdate" => r.op \in {"BeginUpdate", "CancelUpdate"}
    /\ r.pc = "WriteInitiated" => r.op = "BeginUpdate"
    /\ r.op \in {"BeginUpdate", "CancelUpdate"} => c = Engine /\ ses = "none"

SessionInv == session \in {"begun", "created"} => state = "initiated"

(* The inductive invariant that ties the calls to the update state. *)
CallInv ==
    /\ TypeOK
    /\ LockInv
    /\ \A c \in Callers : /\ HolderOK(c, call[c], state, session)
                          /\ EngineOK(c, call[c], session)
    /\ SessionInv

(* Nobody runs while the device is off. *)
OffInv == slot = Off => session = "none" /\ \A c \in Callers : call[c].pc = "idle"

(* TypeOK without the lock and the calls. *)
RestTypeOK ==
    /\ state \in UpdateStates \cup {""}
    /\ indicator \in Slots \cup {"absent", ""}
    /\ status \in [Partitions -> StatusStates]
    /\ cow \in [Partitions -> {"absent", "raw", "zeroed", "full"}]
    /\ base \in [Partitions -> {"old", "mixed", "new", "flashed"}]
    /\ updated \in [Partitions -> BOOLEAN]
    /\ active \in Slots
    /\ successful \in [Slots -> BOOLEAN]
    /\ slot \in Slots \cup {Off}
    /\ dm \in [Partitions ->
                  {"none", "linear", "snapshot", "snapshot-merge", "collapsed"}]
    /\ session \in {"none", "begun", "created", "finished"}
    /\ merge_run \in BOOLEAN
    /\ budget \in [Expenses -> Nat]

(* The invariant, put together. *)
Inv == CallInv /\ OffInv

(***************************************************************************)
(* What the engine has prepared of its snapshots when its call is r.       *)
(***************************************************************************)
CreationOK(r) ==
    /\ Creating(r) => slot = Old
    /\ Looping(r) =>
          /\ r.pc # "ForEachPartition" => r.cur \in r.todo
          /\ r.pc = "CreateCowImage" => status[r.cur] = "created"
          /\ \A p \in Partitions \ r.todo : status[p] = "created"
    /\ r.pc = "InitializeCow" =>
          /\ \A p \in Partitions : status[p] = "created"
          /\ \A p \in Partitions \ r.todo : cow[p] = "zeroed" /\ dm[p] = "none"
    /\ r.pc \in {"WriteIndicator", "WriteUnverified"} =>
          session = "created" /\ \A p \in Partitions : cow[p] = "full"
    /\ r.pc = "WriteUnverified" => indicator = Old

(* A merge is started by a caller in the new slot, once it is successful. *)
StarterOK(r) ==
    /\ r.pc \in {"InitiateMerge", "WriteMerging"} => successful[slot]
    /\ r.pc \in {"WriteMerging", "SwitchSnapshotToMerge"} => slot = New

(* The devices that exist outside the new slot. *)
DeviceInv == \A p \in Partitions : slot # New => dm[p] \in {"none", "snapshot"}

EngineInv ==
    /\ session = "created" =>
          \A p \in Partitions : /\ status[p] = "created" /\ updated[p]
                                /\ cow[p] \in {"zeroed", "full"}
    /\ session \in {"created", "finished"} => slot = Old
    /\ session = "finished" => state # "initiated"
    /\ indicator \in {"absent", Old}
    /\ \A c \in Callers : CreationOK(call[c]) /\ StarterOK(call[c])
    /\ DeviceInv

(***************************************************************************)
(* Polling the merge: a snapshot that was visited and found neither        *)
(* merging nor failed is not mapped any more.                              *)
(***************************************************************************)
Dropped(r) ==
    IF {"merging", "failed"} \cap r.seen = {} THEN Partitions \ r.todo ELSE {}

(* A step of DeleteSnapshot: it goes on, or returns to the code that called it. *)
DeletesOn(c, r) ==
    /\ Removing(call[c]) => Removing(r)
    /\ Polling(call[c]) =>
          \/ /\ r.pc \in Deleting /\ Polling(r) /\ r.cur = call[c].cur
             /\ r.todo = call[c].todo /\ r.seen = call[c].seen
          \/ /\ r.pc = "CheckTargetMergeState"
             /\ r.todo = call[c].todo \ {call[c].cur} /\ call[c].seen \subseteq r.seen
    /\ Creating(call[c]) =>
          \/ r.pc = "AutoDeleteSnapshot"
          \/ r.pc \in Deleting /\ r.deleter = "AutoDeleteSnapshot"
          \/ /\ Looping(call[c]) /\ r.cur = call[c].cur /\ r.todo = call[c].todo
             /\ \/ r.pc = "CreateSnapshot"
                \/ r.pc \in Deleting /\ r.deleter = "CreateUpdateSnapshots"
===============================================================================
