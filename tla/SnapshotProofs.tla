---------------------------- MODULE SnapshotProofs ----------------------------
(***************************************************************************)
(* Proofs about SnapshotManager, for any set of partitions and callers,    *)
(* any faults and any number of crashes: the invariant Inv, which ties the *)
(* calls to the lock and to the update state, and the files of the         *)
(* snapshots that the calls work on.                                       *)
(***************************************************************************)
EXTENDS SnapshotInvariants, TLAPS

(* Nothing is asked of a caller that does not hold the lock. *)
LEMMA UnlockedOK ==
    ASSUME NEW c, NEW r, NEW st, NEW ses, r.pc \notin LockedLabels
    PROVE  HolderOK(c, r, st, ses)
  BY DEF HolderOK, Removing, Polling, Creating, Looping, LockedLabels, Deleting

(***************************************************************************)
(* What every step of a caller does: its call becomes r, it holds the lock *)
(* afterwards iff r.pc is a place with the lock, and before it nobody else *)
(* held it.                                                                *)
(***************************************************************************)
StepOK(c, r) ==
    /\ r \in Calls
    /\ call' = [call EXCEPT ![c] = r]
    /\ lock \in {c, NoCaller}
    /\ lock' = IF r.pc \in LockedLabels THEN c ELSE NoCaller
    /\ HolderOK(c, r, state', session')
    /\ EngineOK(c, r, session')
    /\ c = Engine \/ session' = session

LEMMA CallerStep ==
    ASSUME CallInv, NEW c \in Callers, NEW r, StepOK(c, r)
    PROVE  /\ call' \in [Callers -> Calls]
           /\ lock' \in Callers \cup {NoCaller}
           /\ LockInv'
           /\ \A d \in Callers : /\ HolderOK(d, call'[d], state', session')
                                 /\ EngineOK(d, call'[d], session')
<1>1. /\ call \in [Callers -> Calls]
      /\ LockInv
      /\ \A d \in Callers : EngineOK(d, call[d], session)
  BY Zenon DEF CallInv, TypeOK
<1>2. /\ r \in Calls
      /\ call' = [call EXCEPT ![c] = r]
      /\ lock \in {c, NoCaller}
      /\ lock' = IF r.pc \in LockedLabels THEN c ELSE NoCaller
      /\ HolderOK(c, r, state', session')
      /\ EngineOK(c, r, session')
      /\ c = Engine \/ session' = session
  BY DEF StepOK
<1>3. NoCaller \notin Callers
  BY SnapshotAssumption
<1>4. call' \in [Callers -> Calls] /\ call'[c] = r
  BY <1>1, <1>2
<1>5. lock' \in Callers \cup {NoCaller}
  BY <1>2
<1>6. ASSUME NEW d \in Callers, d # c
      PROVE  /\ call'[d] = call[d]
             /\ call[d].pc \notin LockedLabels
             /\ lock' # d
  <2>1. lock # d
    BY <1>2, <1>3, <1>6
  <2> QED BY <1>1, <1>2, <1>3, <1>6, <2>1 DEF LockInv
<1>7. LockInv'
  BY <1>2, <1>3, <1>4, <1>6 DEF LockInv
<1>8. ASSUME NEW d \in Callers
      PROVE  HolderOK(d, call'[d], state', session') /\ EngineOK(d, call'[d], session')
  <2>1. CASE d = c
    BY <1>2, <1>4, <2>1
  <2>2. CASE d # c
    <3>1. HolderOK(d, call'[d], state', session')
      BY <1>6, <2>2, UnlockedOK
    <3>2. EngineOK(d, call[d], session)
      BY <1>1
    <3>3. EngineOK(d, call'[d], session')
      BY <1>2, <1>6, <2>2, <3>2 DEF EngineOK
    <3> QED BY <3>1, <3>3
  <2> QED BY <2>1, <2>2
<1> QED BY <1>4, <1>5, <1>7, <1>8

LEMMA CallInvFacts ==
    ASSUME CallInv, NEW c \in Callers
    PROVE  /\ RestTypeOK
           /\ call \in [Callers -> Calls]
           /\ call[c] \in Calls
           /\ lock = c <=> call[c].pc \in LockedLabels
           /\ HolderOK(c, call[c], state, session)
           /\ EngineOK(c, call[c], session)
           /\ SessionInv
  BY Zenon DEF CallInv, TypeOK, RestTypeOK, LockInv

LEMMA StepCallInv ==
    ASSUME CallInv, NEW c \in Callers, \E r : StepOK(c, r), RestTypeOK', SessionInv'
    PROVE  CallInv'
<1>0. PICK r : StepOK(c, r)
  OBVIOUS
<1>1. /\ call' \in [Callers -> Calls]
      /\ lock' \in Callers \cup {NoCaller}
      /\ LockInv'
      /\ \A d \in Callers : /\ HolderOK(d, call'[d], state', session')
                            /\ EngineOK(d, call'[d], session')
  BY <1>0, CallerStep
<1>2. TypeOK'
  BY Zenon, <1>1 DEF TypeOK, RestTypeOK
<1> QED BY <1>1, <1>2 DEF CallInv

(* Idle is a call that holds no lock. *)
LEMMA IdleOK ==
    ASSUME NEW c, NEW st, NEW ses
    PROVE  /\ Idle \in Calls
           /\ Idle.pc \notin LockedLabels
           /\ HolderOK(c, Idle, st, ses)
           /\ EngineOK(c, Idle, ses)
<1>1. Idle \in Calls /\ Idle.pc = "idle" /\ Idle.op = "none"
  BY DEF Idle, Calls, Operations, Labels
<1>2. Idle.pc \notin LockedLabels
  BY <1>1 DEF LockedLabels, Deleting
<1> QED BY <1>1, <1>2, UnlockedOK DEF EngineOK

(* Start gives a call that holds no lock, unless it starts at a locked place. *)
LEMMA StartOK ==
    ASSUME NEW op \in Operations, NEW label \in Labels
    PROVE  LET r == [Idle EXCEPT !.op = op, !.pc = label]
           IN  r \in Calls /\ r.pc = label /\ r.op = op
  BY ZenonT(30) DEF Idle, Calls, Operations, Labels

LEMMA BudgetType ==
    ASSUME budget \in [Expenses -> Nat], NEW k \in Expenses, Spend(k) \/ Works
    PROVE  budget' \in [Expenses -> Nat]
<1>1. CASE Works
  BY <1>1 DEF Works
<1>2. CASE Spend(k)
  <2>1. budget[k] \in Nat /\ budget[k] > 0
    BY <1>2 DEF Spend
  <2>2. budget[k] - 1 \in Nat
    BY <2>1
  <2> QED BY <1>2, <2>2 DEF Spend
<1> QED BY <1>1, <1>2

(* How calls go on: one lemma for each of the operators that write call. *)

(* A caller goes to a place without the lock. *)
LEMMA UnlockedStep ==
    ASSUME NEW c \in Callers, NEW r \in Calls,
           call' = [call EXCEPT ![c] = r], r.pc \notin LockedLabels,
           lock \in {c, NoCaller}, lock' = NoCaller,
           EngineOK(c, r, session'), c = Engine \/ session' = session
    PROVE  StepOK(c, r)
  BY UnlockedOK DEF StepOK

LEMMA BecomeIdle ==
    ASSUME NEW c \in Callers, Become(c, Idle), lock \in {c, NoCaller}, lock' = NoCaller,
           c = Engine \/ session' = session
    PROVE  \E r : StepOK(c, r)
<1>1. call' = [call EXCEPT ![c] = Idle]
  BY DEF Become
<1>2. StepOK(c, Idle)
  BY Zenon, <1>1, IdleOK, UnlockedStep
<1> QED BY <1>2

LEMMA StartUnlocked ==
    ASSUME NEW c \in Callers, NEW op \in Operations, NEW label \in Labels \ LockedLabels,
           Start(c, op, label), lock \in {c, NoCaller}, lock' = NoCaller,
           op \in {"BeginUpdate", "CancelUpdate"} => c = Engine /\ session' = "none",
           label = "TryCancelUpdate" => op \in {"BeginUpdate", "CancelUpdate"},
           label = "WriteInitiated" => op = "BeginUpdate",
           c = Engine \/ session' = session
    PROVE  \E r : StepOK(c, r)
<1> DEFINE r == [Idle EXCEPT !.op = op, !.pc = label]
<1>1. r \in Calls /\ r.pc = label /\ r.op = op
  BY Zenon, StartOK
<1>2. call' = [call EXCEPT ![c] = r]
  BY DEF Start, Become
<1> HIDE DEF r
<1>3. EngineOK(c, r, session')
  BY <1>1 DEF EngineOK
<1>4. StepOK(c, r)
  BY Zenon, <1>1, <1>2, <1>3, UnlockedStep
<1> QED BY <1>4

LEMMA ProceedStep ==
    ASSUME CallInv, NEW c \in Callers, Proceed(c), lock \in {c, NoCaller},
           lock' = NoCaller, session' = session
    PROVE  \E r : StepOK(c, r)
<1>1. CASE call[c].op = "BeginUpdate"
  <2>1. c = Engine /\ session = "none"
    BY <1>1, CallInvFacts DEF EngineOK
  <2>2. Start(c, "BeginUpdate", "WriteInitiated")
    BY <1>1 DEF Proceed
  <2>3. "BeginUpdate" \in Operations /\ "WriteInitiated" \in Labels \ LockedLabels
    BY DEF Operations, Labels, LockedLabels, Deleting
  <2> QED BY <2>1, <2>2, <2>3, StartUnlocked
<1>2. CASE call[c].op # "BeginUpdate"
  BY <1>2, BecomeIdle DEF Proceed
<1> QED BY <1>1, <1>2

LEMMA RemoveAllStep ==
    ASSUME CallInv, NEW c \in Callers, NEW remover \in Removers,
           RemoveAllUpdateState(c, remover), lock \in {c, NoCaller}, lock' = c,
           remover = "TryCancelUpdate" => call[c].op \in {"BeginUpdate", "CancelUpdate"},
           remover # "TryCancelUpdate" => state' # "initiated",
           session' = session
    PROVE  \E r : StepOK(c, r)
<1> DEFINE r == [call[c] EXCEPT !.pc = "RemoveAllSnapshots", !.todo = ListSnapshots,
                                !.cur = NoPartition, !.seen = {},
                                !.deleter = "none", !.remover = remover]
<1>1. /\ r \in Calls /\ r.pc = "RemoveAllSnapshots" /\ r.op = call[c].op
      /\ r.remover = remover
  BY ZenonT(30), CallInvFacts DEF Calls, Labels, ListSnapshots
<1>2. call' = [call EXCEPT ![c] = r]
  BY DEF RemoveAllUpdateState, Become
<1> HIDE DEF r
<1>3. HolderOK(c, r, state', session')
  BY <1>1 DEF HolderOK, Removing, Polling, Creating, Looping, Deleting
<1>4. StepOK(c, r)
  BY <1>1, <1>2, <1>3, CallInvFacts DEF StepOK, EngineOK, LockedLabels
<1> QED BY <1>4

(* RemoveAllUpdateState is only left by a caller that removes. *)
LEMMA RemoveReturnsStep ==
    ASSUME CallInv, NEW c \in Callers, NEW ok \in BOOLEAN, RemoveReturns(c, ok),
           lock = c, call[c].pc \in {"RemoveAllSnapshots", "WriteNone"},
           state' \in {state, "none"}, session' = session
    PROVE  \E r : StepOK(c, r)
<1>1. /\ call[c].remover \in Removers
      /\ call[c].remover # "TryCancelUpdate" => state # "initiated"
  BY CallInvFacts DEF HolderOK, Removing
<1>2. CASE call[c].remover = "TryCancelUpdate"
  <2>1. lock' = NoCaller /\ (Proceed(c) \/ Become(c, Idle))
    BY <1>2 DEF RemoveReturns, Unlock
  <2> QED BY <2>1, ProceedStep, BecomeIdle
<1>3. CASE call[c].remover = "HandleCancelledUpdate"
  <2>1. RemoveAllUpdateState(c, "CheckMergeState") /\ lock' = c
    BY <1>3 DEF RemoveReturns, Holds
  <2>2. state' # "initiated"
    BY <1>1, <1>3
  <2> QED BY <2>1, <2>2, RemoveAllStep DEF Removers
<1>4. CASE call[c].remover = "CheckMergeState"
  BY <1>4, ProceedStep DEF RemoveReturns, Unlock
<1> QED BY <1>1, <1>2, <1>3, <1>4 DEF Removers

LEMMA PolledStep ==
    ASSUME CallInv, NEW c \in Callers, NEW p, NEW flags \in SUBSET Flags,
           Polled(c, p, flags), lock = c, lock' = c, state' \in MergeStates,
           session' = session
    PROVE  \E r : StepOK(c, r)
<1> DEFINE r == [call[c] EXCEPT !.pc = "CheckTargetMergeState", !.todo = @ \ {p},
                                !.cur = NoPartition, !.seen = @ \cup flags,
                                !.deleter = "none"]
<1>0. call[c] \in Calls /\ "CheckTargetMergeState" \in Labels
  BY Zenon, CallInvFacts DEF Labels
<1>1. r \in Calls /\ r.pc = "CheckTargetMergeState" /\ r.op = call[c].op
  BY Zenon, <1>0 DEF Calls
<1>2. call' = [call EXCEPT ![c] = r]
  BY DEF Polled, Become
<1> HIDE DEF r
<1>3. HolderOK(c, r, state', session')
  BY <1>1 DEF HolderOK, Removing, Polling, Creating, Looping, Deleting
<1>4. StepOK(c, r)
  BY <1>1, <1>2, <1>3, CallInvFacts DEF StepOK, EngineOK, LockedLabels
<1> QED BY <1>4

LEMMA UnwindStep ==
    ASSUME CallInv, NEW c \in Callers, NEW created \in SUBSET Partitions,
           Unwind(c, created), lock = c, lock' = c, Creating(call[c]),
           state' = state, session' = session
    PROVE  \E r : StepOK(c, r)
<1> DEFINE r == [call[c] EXCEPT !.pc = "AutoDeleteSnapshot", !.todo = created,
                                !.cur = NoPartition, !.deleter = "none"]
<1>0. call[c] \in Calls /\ "AutoDeleteSnapshot" \in Labels
  BY Zenon, CallInvFacts DEF Labels
<1>1. r \in Calls /\ r.pc = "AutoDeleteSnapshot" /\ r.op = call[c].op
  BY Zenon, <1>0 DEF Calls
<1>2. call' = [call EXCEPT ![c] = r]
  BY Zenon DEF Unwind, Become
<1>3. c = Engine /\ session = "begun" /\ state = "initiated"
  BY Zenon, CallInvFacts DEF HolderOK
<1> HIDE DEF r
<1>4. HolderOK(c, r, state', session')
  BY Zenon, <1>1, <1>3 DEF HolderOK, Removing, Polling, Creating, Looping, Deleting
<1>5. StepOK(c, r)
  BY Zenon, <1>1, <1>2, <1>3, <1>4, CallInvFacts DEF StepOK, EngineOK, LockedLabels
<1> QED BY <1>5

(* A caller stays in its call and holds the lock. *)
LEMMA HeldStep ==
    ASSUME CallInv, NEW c \in Callers, NEW r \in Calls, r.op = call[c].op,
           call' = [call EXCEPT ![c] = r], lock \in {c, NoCaller}, lock' = c,
           r.pc \in LockedLabels, HolderOK(c, r, state', session'), session' = session
    PROVE  \E rr : StepOK(c, rr)
<1>1. r.pc \notin {"TryCancelUpdate", "WriteInitiated"}
  BY DEF LockedLabels, Deleting
<1>2. EngineOK(c, r, session')
  BY <1>1, CallInvFacts DEF EngineOK
<1>3. StepOK(c, r)
  BY <1>2 DEF StepOK
<1> QED BY <1>3

LEMMA DeleteStep ==
    ASSUME CallInv, NEW c \in Callers, NEW p \in Partitions, NEW d \in Deleters,
           DeleteSnapshot(c, p, d), lock = c, lock' = c, state' = state,
           session' = session,
           d = "RemoveAllSnapshots" => Removing(call[c]),
           d \in {"Cancelled", "MergedBefore", "Collapsed"} => Polling(call[c]),
           d \in {"CreateUpdateSnapshots", "AutoDeleteSnapshot"} => Creating(call[c])
    PROVE  \E r : StepOK(c, r)
<1> DEFINE r == [call[c] EXCEPT !.pc = "DeleteBackingImage", !.cur = p, !.deleter = d]
<1>1. /\ r \in Calls /\ r.pc = "DeleteBackingImage" /\ r.op = call[c].op
      /\ r.cur = p /\ r.deleter = d /\ r.remover = call[c].remover
  BY ZenonT(30), CallInvFacts DEF Calls, Labels
<1>2. call' = [call EXCEPT ![c] = r]
  BY DEF DeleteSnapshot, Become
<1> HIDE DEF r
<1>3. HolderOK(c, call[c], state, session)
  BY CallInvFacts
<1>4. HolderOK(c, r, state', session')
  <2>1. /\ Removing(r) => Removing(call[c])
        /\ Polling(r) => Polling(call[c])
        /\ Creating(r) => Creating(call[c])
    BY <1>1 DEF Removing, Polling, Creating, Looping, Deleting
  <2> QED BY <1>1, <1>3, <2>1 DEF HolderOK, Deleting
<1> QED BY Zenon, <1>1, <1>2, <1>4, HeldStep DEF LockedLabels, Deleting

LEMMA DeletedStep ==
    ASSUME CallInv, NEW c \in Callers, NEW ok \in BOOLEAN, Deleted(c, ok),
           call[c].pc \in Deleting, lock = c, lock' = c, state' = state,
           session' = session
    PROVE  \E r : StepOK(c, r)
<1>1. HolderOK(c, call[c], state, session) /\ call[c] \in Calls
  BY CallInvFacts
<1>2. call[c].deleter \in Deleters /\ call[c].cur \in Partitions
  BY <1>1 DEF HolderOK
<1>3. CASE call[c].deleter = "RemoveAllSnapshots"
  <2> DEFINE r == [call[c] EXCEPT !.pc = "RemoveAllSnapshots",
                        !.todo = @ \ {call[c].cur}, !.cur = NoPartition,
                        !.seen = @ \cup (IF ok THEN {} ELSE {"failed"}),
                        !.deleter = "none"]
  <2>1. /\ r \in Calls /\ r.pc = "RemoveAllSnapshots" /\ r.op = call[c].op
        /\ r.remover = call[c].remover
    BY ZenonT(30), <1>1 DEF Calls, Labels, Flags
  <2>2. call' = [call EXCEPT ![c] = r]
    BY <1>3 DEF Deleted, Become
  <2> HIDE DEF r
  <2>3. HolderOK(c, r, state', session')
    BY <1>1, <1>3, <2>1 DEF HolderOK, Removing, Polling, Creating, Looping, Deleting
  <2> QED BY Zenon, <2>1, <2>2, <2>3, HeldStep DEF LockedLabels
<1>4. CASE call[c].deleter \in {"Cancelled", "MergedBefore", "Collapsed"}
  <2>1. state' \in MergeStates
    BY Zenon, <1>1, <1>4 DEF HolderOK, Polling
  <2>2. PICK flags \in SUBSET Flags : Polled(c, call[c].cur, flags)
    BY <1>4 DEF Deleted, Flags
  <2> QED BY <2>1, <2>2, PolledStep
<1>5. CASE call[c].deleter \in {"CreateUpdateSnapshots", "AutoDeleteSnapshot"}
  <2>1. Creating(call[c])
    BY <1>5 DEF Creating, Looping
  <2>2. CASE call[c].deleter = "CreateUpdateSnapshots" /\ ok
    <3> DEFINE r == [call[c] EXCEPT !.pc = "CreateSnapshot", !.deleter = "none"]
    <3>1. /\ r \in Calls /\ r.pc = "CreateSnapshot" /\ r.op = call[c].op
          /\ r.cur = call[c].cur
      BY Zenon, <1>1 DEF Calls, Labels
    <3>2. call' = [call EXCEPT ![c] = r]
      BY <2>2 DEF Deleted, Become
    <3> HIDE DEF r
    <3>3. HolderOK(c, r, state', session')
      BY Zenon, <1>1, <1>2, <2>1, <3>1
         DEF HolderOK, Removing, Polling, Creating, Looping, Deleting
    <3> QED BY Zenon, <3>1, <3>2, <3>3, HeldStep DEF LockedLabels
  <2>3. CASE call[c].deleter = "AutoDeleteSnapshot" \/ ~ok
    <3>1. PICK created : Unwind(c, created) /\ created \in SUBSET Partitions
      <4>1. call[c].todo \in SUBSET Partitions
        BY Zenon, <1>1 DEF Calls
      <4> QED BY Zenon, <1>5, <2>3, <4>1 DEF Deleted
    <3> QED BY Zenon, <2>1, <3>1, UnwindStep
  <2> QED BY Zenon, <1>5, <2>2, <2>3
<1> QED BY <1>2, <1>3, <1>4, <1>5 DEF Deleters

(* CallInv is preserved by the steps of a caller, one lemma each. *)

LEMMA TryCancelUpdateInv ==
    ASSUME CallInv, NEW c \in Callers, TryCancelUpdate(c)
    PROVE  CallInv'
<1>1. RestTypeOK' /\ SessionInv' /\ session' = session
  BY Zenon, CallInvFacts DEF TryCancelUpdate, RestTypeOK, SessionInv, disk, system
<1>2. c = Engine /\ session = "none" /\ call[c].op \in {"BeginUpdate", "CancelUpdate"}
  BY CallInvFacts DEF TryCancelUpdate, At, EngineOK
<1>3. CASE LockedBriefly /\ Proceed(c)
  BY <1>1, <1>3, ProceedStep, StepCallInv DEF LockedBriefly
<1>4. CASE Locked(c) /\ RemoveAllUpdateState(c, "TryCancelUpdate")
  <2>1. \E r : StepOK(c, r)
    BY <1>1, <1>2, <1>4, RemoveAllStep DEF Locked, Removers
  <2> QED BY <1>1, <2>1, StepCallInv
<1>5. CASE LockedBriefly /\ Goto(c, "CheckMergeState")
  <2> DEFINE r == [call[c] EXCEPT !.pc = "CheckMergeState"]
  <2>1. r \in Calls /\ r.pc = "CheckMergeState" /\ r.op = call[c].op
    BY CallInvFacts DEF Calls, Labels
  <2>2. call' = [call EXCEPT ![c] = r] /\ lock = NoCaller /\ lock' = NoCaller
    BY <1>5, CallInvFacts DEF Goto, LockedBriefly
  <2> HIDE DEF r
  <2>3. r.pc \notin LockedLabels /\ EngineOK(c, r, session')
    BY <1>1, <1>2, <2>1 DEF LockedLabels, Deleting, EngineOK
  <2>4. StepOK(c, r)
    BY Zenon, <1>1, <2>1, <2>2, <2>3, UnlockedStep
  <2> QED BY <1>1, <2>4, StepCallInv
<1>6. CASE LockedBriefly /\ Become(c, Idle)
  BY <1>1, <1>6, BecomeIdle, StepCallInv DEF LockedBriefly
<1> QED BY <1>3, <1>4, <1>5, <1>6 DEF TryCancelUpdate

LEMMA RemoveSnapshotInv ==
    ASSUME CallInv, NEW c \in Callers, NEW p \in Partitions, RemoveSnapshot(c, p)
    PROVE  CallInv'
<1>1. /\ call[c].pc = "RemoveAllSnapshots" /\ lock = c /\ lock' = c
      /\ state' = state /\ session' = session
  BY CallInvFacts DEF RemoveSnapshot, At, LockedLabels, disk
<1>2. Spend("fault") \/ Works
  BY DEF RemoveSnapshot, MayFail
<1>3. RestTypeOK' /\ SessionInv'
  <2>1. dm' \in [Partitions -> {"none", "linear", "snapshot", "snapshot-merge", "collapsed"}]
    BY Zenon, CallInvFacts DEF RemoveSnapshot, UnmapPartitionWithSnapshot, RestTypeOK
  <2>2. budget' \in [Expenses -> Nat]
    BY Zenon, <1>2, CallInvFacts, BudgetType DEF RestTypeOK, Expenses
  <2> QED BY Zenon, <1>1, <2>1, <2>2, CallInvFacts
          DEF RemoveSnapshot, RestTypeOK, SessionInv, disk, system
<1>4. CASE DeleteSnapshot(c, p, "RemoveAllSnapshots")
  <2>1. \E r : StepOK(c, r)
    BY <1>1, <1>4, DeleteStep DEF Deleters, Removing
  <2> QED BY Zenon, <1>3, <2>1, StepCallInv
<1>5. CASE Become(c, [call[c] EXCEPT !.todo = @ \ {p}, !.seen = @ \cup {"failed"}])
  <2> DEFINE r == [call[c] EXCEPT !.todo = @ \ {p}, !.seen = @ \cup {"failed"}]
  <2>1. /\ r \in Calls /\ r.pc = "RemoveAllSnapshots" /\ r.op = call[c].op
        /\ r.remover = call[c].remover
    BY ZenonT(30), <1>1, CallInvFacts DEF Calls, Flags
  <2>2. call' = [call EXCEPT ![c] = r]
    BY <1>5 DEF Become
  <2> HIDE DEF r
  <2>3. HolderOK(c, r, state', session')
    BY <1>1, <2>1, CallInvFacts
       DEF HolderOK, Removing, Polling, Creating, Looping, Deleting
  <2>4. \E rr : StepOK(c, rr)
    BY Zenon, <1>1, <2>1, <2>2, <2>3, HeldStep DEF LockedLabels
  <2> QED BY <1>3, <2>4, StepCallInv
<1> QED BY <1>4, <1>5 DEF RemoveSnapshot

LEMMA RemoveSnapshotBootIndicatorInv ==
    ASSUME CallInv, NEW c \in Callers, RemoveSnapshotBootIndicator(c)
    PROVE  CallInv'
<1>1. /\ call[c].pc = "RemoveAllSnapshots" /\ lock = c
      /\ state' = state /\ session' = session
  BY CallInvFacts DEF RemoveSnapshotBootIndicator, At, LockedLabels
<1>2. Spend("fault") \/ Works
  BY Zenon DEF RemoveSnapshotBootIndicator, MayFail
<1>3. RestTypeOK' /\ SessionInv'
  <2>1. budget' \in [Expenses -> Nat]
    BY Zenon, <1>2, CallInvFacts, BudgetType DEF RestTypeOK, Expenses
  <2> QED BY Zenon, <1>1, <2>1, CallInvFacts
          DEF RemoveSnapshotBootIndicator, RestTypeOK, SessionInv, system
<1>4. CASE RemoveReturns(c, FALSE)
  BY Zenon, <1>1, <1>3, <1>4, RemoveReturnsStep, StepCallInv
<1>5. CASE Goto(c, "WriteNone") /\ Holds
  <2> DEFINE r == [call[c] EXCEPT !.pc = "WriteNone"]
  <2>1. /\ r \in Calls /\ r.pc = "WriteNone" /\ r.op = call[c].op
        /\ r.remover = call[c].remover
    BY CallInvFacts DEF Calls, Labels
  <2>2. call' = [call EXCEPT ![c] = r] /\ lock' = c
    BY Zenon, <1>1, <1>5, CallInvFacts DEF Goto, Holds
  <2> HIDE DEF r
  <2>3. HolderOK(c, r, state', session')
    BY <1>1, <2>1, CallInvFacts
       DEF HolderOK, Removing, Polling, Creating, Looping, Deleting
  <2>4. \E rr : StepOK(c, rr)
    BY Zenon, <1>1, <2>1, <2>2, <2>3, HeldStep DEF LockedLabels
  <2> QED BY Zenon, <1>3, <2>4, StepCallInv
<1> QED BY Zenon, <1>4, <1>5 DEF RemoveSnapshotBootIndicator

LEMMA WriteNoneInv ==
    ASSUME CallInv, NEW c \in Callers, WriteNone(c)
    PROVE  CallInv'
<1>1. /\ call[c].pc = "WriteNone" /\ lock = c /\ RemoveReturns(c, TRUE)
      /\ state' = "none" /\ session' = session
  BY Zenon, CallInvFacts DEF WriteNone, At, LockedLabels
<1>2. session \notin {"begun", "created"}
  <2>1. CASE call[c].remover = "TryCancelUpdate"
    BY Zenon, <1>1, <2>1, CallInvFacts DEF HolderOK, Removing, EngineOK
  <2>2. CASE call[c].remover # "TryCancelUpdate"
    BY <1>1, <2>2, CallInvFacts DEF HolderOK, Removing, SessionInv
  <2> QED BY Zenon, <2>1, <2>2
<1>3. RestTypeOK' /\ SessionInv'
  BY Zenon, <1>1, <1>2, CallInvFacts DEF WriteNone, RestTypeOK, SessionInv, UpdateStates, system
<1> QED BY Zenon, <1>1, <1>3, RemoveReturnsStep, StepCallInv

LEMMA WriteInitiatedInv ==
    ASSUME CallInv, NEW c \in Callers, WriteInitiated(c)
    PROVE  CallInv'
<1>1. c = Engine
  BY CallInvFacts DEF EngineOK, WriteInitiated, At
<1>2. RestTypeOK' /\ SessionInv'
  BY Zenon, CallInvFacts DEF WriteInitiated, RestTypeOK, SessionInv, UpdateStates, system
<1> QED BY Zenon, <1>1, <1>2, BecomeIdle, StepCallInv DEF WriteInitiated, LockedBriefly

LEMMA DeleteBackingImageInv ==
    ASSUME CallInv, NEW c \in Callers, DeleteBackingImage(c)
    PROVE  CallInv'
<1>1. /\ call[c].pc = "DeleteBackingImage" /\ lock = c /\ lock' = c
      /\ state' = state /\ session' = session
  BY CallInvFacts DEF DeleteBackingImage, At, LockedLabels, Deleting
<1>2. Spend("fault") \/ Works
  BY Zenon DEF DeleteBackingImage, MayFail
<1>3. RestTypeOK' /\ SessionInv'
  <2>1. budget' \in [Expenses -> Nat]
    BY Zenon, <1>2, CallInvFacts, BudgetType DEF RestTypeOK, Expenses
  <2>2. cow' \in [Partitions -> {"absent", "raw", "zeroed", "full"}]
    BY Zenon, CallInvFacts DEF DeleteBackingImage, RestTypeOK
  <2> QED BY Zenon, <1>1, <2>1, <2>2, CallInvFacts
          DEF DeleteBackingImage, RestTypeOK, SessionInv, system
<1>4. CASE Deleted(c, FALSE)
  BY Zenon, <1>1, <1>3, <1>4, DeletedStep, StepCallInv DEF Deleting
<1>5. CASE Goto(c, "RemoveStatusFile")
  <2> DEFINE r == [call[c] EXCEPT !.pc = "RemoveStatusFile"]
  <2>1. /\ r \in Calls /\ r.pc = "RemoveStatusFile" /\ r.op = call[c].op
        /\ r.remover = call[c].remover /\ r.cur = call[c].cur
        /\ r.deleter = call[c].deleter
    BY CallInvFacts DEF Calls, Labels
  <2>2. call' = [call EXCEPT ![c] = r]
    BY Zenon, <1>5, CallInvFacts DEF Goto
  <2> HIDE DEF r
  <2>3. HolderOK(c, r, state', session')
    BY <1>1, <2>1, CallInvFacts
       DEF HolderOK, Removing, Polling, Creating, Looping, Deleting
  <2>4. \E rr : StepOK(c, rr)
    BY Zenon, <1>1, <2>1, <2>2, <2>3, HeldStep DEF LockedLabels, Deleting
  <2> QED BY <1>3, <2>4, StepCallInv
<1> QED BY Zenon, <1>4, <1>5 DEF DeleteBackingImage

LEMMA RemoveStatusFileInv ==
    ASSUME CallInv, NEW c \in Callers, RemoveStatusFile(c)
    PROVE  CallInv'
<1>1. /\ call[c].pc = "RemoveStatusFile" /\ lock = c /\ lock' = c
      /\ state' = state /\ session' = session
  BY CallInvFacts DEF RemoveStatusFile, At, LockedLabels, Deleting
<1>2. Spend("fault") \/ Works
  BY Zenon DEF RemoveStatusFile, MayFail
<1>3. RestTypeOK' /\ SessionInv'
  <2>1. budget' \in [Expenses -> Nat]
    BY Zenon, <1>2, CallInvFacts, BudgetType DEF RestTypeOK, Expenses
  <2>2. status' \in [Partitions -> StatusStates]
    BY Zenon, CallInvFacts DEF RemoveStatusFile, RestTypeOK, StatusStates
  <2> QED BY Zenon, <1>1, <2>1, <2>2, CallInvFacts
          DEF RemoveStatusFile, RestTypeOK, SessionInv, system
<1>4. PICK ok \in BOOLEAN : Deleted(c, ok)
  BY Zenon DEF RemoveStatusFile
<1> QED BY Zenon, <1>1, <1>3, <1>4, DeletedStep, StepCallInv DEF Deleting

LEMMA CheckMergeStateInv ==
    ASSUME CallInv, NEW c \in Callers, CheckMergeState(c)
    PROVE  CallInv'
<1>1. RestTypeOK' /\ SessionInv' /\ state' = state /\ session' = session
  BY Zenon, CallInvFacts DEF CheckMergeState, RestTypeOK, SessionInv, disk, system
<1>2. CASE LockedBriefly /\ Proceed(c)
  BY Zenon, <1>1, <1>2, ProceedStep, StepCallInv DEF LockedBriefly
<1>3. CASE /\ ReadUpdateState = "unverified" /\ Locked(c)
           /\ RemoveAllUpdateState(c, "HandleCancelledUpdate")
  <2>1. state' # "initiated"
    BY Zenon, <1>1, <1>3 DEF ReadUpdateState
  <2>2. \E r : StepOK(c, r)
    BY Zenon, <1>1, <1>3, <2>1, RemoveAllStep DEF Locked, Removers
  <2> QED BY <1>1, <2>2, StepCallInv
<1>4. CASE /\ ReadUpdateState \in MergeStates /\ Locked(c)
           /\ Become(c, [call[c] EXCEPT !.pc = "CheckTargetMergeState",
                                       !.todo = ListSnapshots, !.seen = {}])
  <2> DEFINE r == [call[c] EXCEPT !.pc = "CheckTargetMergeState",
                                  !.todo = ListSnapshots, !.seen = {}]
  <2>1. r \in Calls /\ r.pc = "CheckTargetMergeState" /\ r.op = call[c].op
    BY ZenonT(30), CallInvFacts DEF Calls, Labels, ListSnapshots
  <2>2. call' = [call EXCEPT ![c] = r] /\ lock = NoCaller /\ lock' = c
    BY <1>4 DEF Locked, Become
  <2> HIDE DEF r
  <2>3. HolderOK(c, r, state', session')
    BY Zenon, <1>1, <1>4, <2>1 DEF HolderOK, Removing, Polling, Creating, Looping, Deleting,
       ReadUpdateState, MergeStates
  <2>4. \E rr : StepOK(c, rr)
    BY Zenon, <1>1, <2>1, <2>2, <2>3, HeldStep DEF LockedLabels
  <2> QED BY <1>1, <2>4, StepCallInv
<1> QED BY <1>2, <1>3, <1>4 DEF CheckMergeState

LEMMA CheckTargetMergeStateInv ==
    ASSUME CallInv, NEW c \in Callers, NEW p \in Partitions, CheckTargetMergeState(c, p)
    PROVE  CallInv'
<1>1. /\ call[c].pc = "CheckTargetMergeState" /\ lock = c /\ lock' = c
      /\ state' = state /\ session' = session
  BY CallInvFacts DEF CheckTargetMergeState, At, LockedLabels
<1>2. state' \in MergeStates
  BY <1>1, CallInvFacts DEF HolderOK, Polling
<1>3. Spend("fault") \/ Works
  BY DEF CheckTargetMergeState, MayFail
<1>4. RestTypeOK' /\ SessionInv'
  <2>1. budget' \in [Expenses -> Nat]
    BY Zenon, <1>3, CallInvFacts, BudgetType DEF RestTypeOK, Expenses
  <2>2. status' \in [Partitions -> StatusStates]
    BY Zenon, CallInvFacts DEF CheckTargetMergeState, WriteSnapshotStatus, RestTypeOK, StatusStates
  <2> QED BY Zenon, <1>1, <2>1, <2>2, CallInvFacts
          DEF CheckTargetMergeState, RestTypeOK, SessionInv, system
<1>5. CASE \E flags \in SUBSET Flags : Polled(c, p, flags)
  BY <1>1, <1>2, <1>4, <1>5, PolledStep, StepCallInv
<1>6. CASE \E d \in {"Cancelled", "MergedBefore"} : DeleteSnapshot(c, p, d)
  <2>1. \E r : StepOK(c, r)
    BY <1>1, <1>6, DeleteStep DEF Deleters, Polling
  <2> QED BY Zenon, <1>4, <2>1, StepCallInv
<1>7. CASE Become(c, [call[c] EXCEPT !.pc = "OnSnapshotMergeComplete", !.cur = p])
  <2> DEFINE r == [call[c] EXCEPT !.pc = "OnSnapshotMergeComplete", !.cur = p]
  <2>1. /\ r \in Calls /\ r.pc = "OnSnapshotMergeComplete" /\ r.op = call[c].op
        /\ r.cur = p
    BY ZenonT(30), CallInvFacts DEF Calls, Labels
  <2>2. call' = [call EXCEPT ![c] = r]
    BY <1>7 DEF Become
  <2> HIDE DEF r
  <2>3. HolderOK(c, r, state', session')
    BY <1>2, <2>1 DEF HolderOK, Removing, Polling, Creating, Looping, Deleting
  <2>4. \E rr : StepOK(c, rr)
    BY Zenon, <1>1, <2>1, <2>2, <2>3, HeldStep DEF LockedLabels
  <2> QED BY <1>4, <2>4, StepCallInv
<1>8. \/ \E flags \in SUBSET Flags : Polled(c, p, flags)
      \/ \E d \in {"Cancelled", "MergedBefore"} : DeleteSnapshot(c, p, d)
      \/ Become(c, [call[c] EXCEPT !.pc = "OnSnapshotMergeComplete", !.cur = p])
  <2>1. {"failed"} \in SUBSET Flags /\ {"merging"} \in SUBSET Flags
    BY DEF Flags
  <2> QED BY <2>1 DEF CheckTargetMergeState
<1> QED BY <1>5, <1>6, <1>7, <1>8

LEMMA OnSnapshotMergeCompleteInv ==
    ASSUME CallInv, NEW c \in Callers, OnSnapshotMergeComplete(c)
    PROVE  CallInv'
<1>1. /\ call[c].pc = "OnSnapshotMergeComplete" /\ lock = c /\ lock' = c
      /\ state' = state /\ session' = session
  BY CallInvFacts DEF OnSnapshotMergeComplete, At, LockedLabels, disk
<1>2. state' \in MergeStates /\ call[c].cur \in Partitions
  BY Zenon, <1>1, CallInvFacts DEF HolderOK, Polling
<1>3. PICK ok \in BOOLEAN : /\ CollapseSnapshotDevice(call[c].cur, ok)
                            /\ IF ok THEN DeleteSnapshot(c, call[c].cur, "Collapsed")
                                     ELSE Polled(c, call[c].cur, {"needs_reboot"})
  BY DEF OnSnapshotMergeComplete
<1>4. RestTypeOK' /\ SessionInv'
  <2>1. Spend("fault") \/ Works
    BY <1>3 DEF CollapseSnapshotDevice, MayFail
  <2>2. budget' \in [Expenses -> Nat]
    BY Zenon, <2>1, CallInvFacts, BudgetType DEF RestTypeOK, Expenses
  <2>3. dm' \in [Partitions -> {"none", "linear", "snapshot", "snapshot-merge", "collapsed"}]
    BY Zenon, <1>3, CallInvFacts DEF CollapseSnapshotDevice, RestTypeOK
  <2> QED BY Zenon, <1>1, <2>2, <2>3, CallInvFacts
          DEF OnSnapshotMergeComplete, RestTypeOK, SessionInv, system, disk
<1>5. CASE ok
  <2>1. \E r : StepOK(c, r)
    BY Zenon, <1>1, <1>2, <1>3, <1>5, DeleteStep DEF Deleters, Polling
  <2> QED BY Zenon, <1>4, <2>1, StepCallInv
<1>6. CASE ~ok
  <2>1. {"needs_reboot"} \in SUBSET Flags
    BY Zenon DEF Flags
  <2>2. \E r : StepOK(c, r)
    BY Zenon, <1>1, <1>2, <1>3, <1>6, <2>1, PolledStep
  <2> QED BY <1>4, <2>2, StepCallInv
<1> QED BY <1>5, <1>6

LEMMA MergeDecisionInv ==
    ASSUME CallInv, NEW c \in Callers, MergeDecision(c)
    PROVE  CallInv'
<1>1. call[c].pc = "CheckTargetMergeState" /\ lock = c /\ session' = session
  BY Zenon, CallInvFacts DEF MergeDecision, At, LockedLabels
<1>2. state \in MergeStates /\ call[c].op \in Operations
  BY <1>1, CallInvFacts DEF HolderOK, Polling, Calls
<1>3. state' \in MergeStates
  BY Zenon, <1>2 DEF MergeDecision, MergeStates
<1>4. session \notin {"begun", "created"}
  BY <1>2, CallInvFacts DEF SessionInv, MergeStates
<1>5. RestTypeOK' /\ SessionInv'
  BY Zenon, <1>1, <1>3, <1>4, CallInvFacts DEF MergeDecision, RestTypeOK, SessionInv, UpdateStates, system
<1>6. CASE /\ Unlock
           /\ \/ Start(c, call[c].op, "CheckMergeState")
              \/ Start(c, call[c].op, "AcknowledgeMergeFailure")
  <2>1. {"CheckMergeState", "AcknowledgeMergeFailure"} \subseteq Labels \ LockedLabels
    BY DEF Labels, LockedLabels, Deleting
  <2>2. call[c].op \in {"BeginUpdate", "CancelUpdate"} => c = Engine /\ session' = "none"
    BY <1>1, CallInvFacts DEF EngineOK
  <2>3. \E r : StepOK(c, r)
    BY Zenon, <1>1, <1>2, <1>6, <2>1, <2>2, StartUnlocked DEF Unlock
  <2> QED BY <1>5, <2>3, StepCallInv
<1>7. CASE Proceed(c) /\ Unlock
  BY Zenon, <1>1, <1>5, <1>7, ProceedStep, StepCallInv DEF Unlock
<1>8. CASE RemoveAllUpdateState(c, "CheckMergeState") /\ Holds
  <2>1. state' # "initiated"
    BY Zenon, <1>3 DEF MergeStates
  <2>2. \E r : StepOK(c, r)
    BY Zenon, <1>1, <1>8, <2>1, RemoveAllStep DEF Holds, Removers
  <2> QED BY <1>5, <2>2, StepCallInv
<1> QED BY Zenon, <1>6, <1>7, <1>8 DEF MergeDecision

LEMMA AcknowledgeMergeFailureInv ==
    ASSUME CallInv, NEW c \in Callers, AcknowledgeMergeFailure(c)
    PROVE  CallInv'
<1>1. RestTypeOK' /\ session' = session
  BY Zenon, CallInvFacts DEF AcknowledgeMergeFailure, RestTypeOK, UpdateStates, MergeStates, system
<1>2. SessionInv'
  BY Zenon, CallInvFacts DEF AcknowledgeMergeFailure, SessionInv, ReadUpdateState
<1> QED BY <1>1, <1>2, ProceedStep, StepCallInv DEF AcknowledgeMergeFailure, LockedBriefly

LEMMA InitiateMergeInv ==
    ASSUME CallInv, NEW c \in Callers, InitiateMerge(c)
    PROVE  CallInv'
<1>1. RestTypeOK' /\ SessionInv' /\ state' = state /\ session' = session
  BY Zenon, CallInvFacts DEF InitiateMerge, RestTypeOK, SessionInv, disk, system
<1>2. CASE CanMerge /\ Locked(c) /\ Goto(c, "WriteMerging")
  <2> DEFINE r == [call[c] EXCEPT !.pc = "WriteMerging"]
  <2>1. r \in Calls /\ r.pc = "WriteMerging" /\ r.op = call[c].op
    BY CallInvFacts DEF Calls, Labels
  <2>2. call' = [call EXCEPT ![c] = r] /\ lock = NoCaller /\ lock' = c
    BY <1>2, CallInvFacts DEF Goto, Locked
  <2> HIDE DEF r
  <2>3. state' = "unverified"
    BY Zenon, <1>1, <1>2 DEF CanMerge, ReadUpdateState
  <2>4. HolderOK(c, r, state', session')
    BY <2>1, <2>3 DEF HolderOK, Removing, Polling, Creating, Looping, Deleting
  <2>5. \E rr : StepOK(c, rr)
    BY Zenon, <1>1, <2>1, <2>2, <2>4, HeldStep DEF LockedLabels
  <2> QED BY Zenon, <1>1, <2>5, StepCallInv
<1>3. CASE LockedBriefly /\ Become(c, Idle)
  BY Zenon, <1>1, <1>3, BecomeIdle, StepCallInv DEF LockedBriefly
<1> QED BY <1>2, <1>3 DEF InitiateMerge

LEMMA WriteMergingInv ==
    ASSUME CallInv, NEW c \in Callers, WriteMerging(c)
    PROVE  CallInv'
<1>1. /\ call[c].pc = "WriteMerging" /\ lock = c /\ lock' = c
      /\ state' = "merging" /\ session' = session
  BY Zenon, CallInvFacts DEF WriteMerging, At, LockedLabels
<1>2. state = "unverified"
  BY <1>1, CallInvFacts DEF HolderOK
<1>3. RestTypeOK' /\ SessionInv'
  BY Zenon, <1>1, <1>2, CallInvFacts
     DEF WriteMerging, RestTypeOK, SessionInv, UpdateStates, MergeStates, system
<1> DEFINE r == [call[c] EXCEPT !.pc = "SwitchSnapshotToMerge", !.todo = ListSnapshots]
<1>4. r \in Calls /\ r.pc = "SwitchSnapshotToMerge" /\ r.op = call[c].op
  BY ZenonT(30), CallInvFacts DEF Calls, Labels, ListSnapshots
<1>5. call' = [call EXCEPT ![c] = r]
  BY DEF WriteMerging, Become
<1> HIDE DEF r
<1>6. HolderOK(c, r, state', session')
  BY <1>1, <1>4 DEF HolderOK, Removing, Polling, Creating, Looping, Deleting
<1>7. \E rr : StepOK(c, rr)
  BY Zenon, <1>1, <1>4, <1>5, <1>6, HeldStep DEF LockedLabels
<1> QED BY Zenon, <1>3, <1>7, StepCallInv

LEMMA SwitchSnapshotToMergeInv ==
    ASSUME CallInv, NEW c \in Callers, NEW p \in Partitions, SwitchSnapshotToMerge(c, p)
    PROVE  CallInv'
<1>1. /\ call[c].pc = "SwitchSnapshotToMerge" /\ lock = c /\ lock' = c
      /\ state' = state /\ session' = session
  BY CallInvFacts DEF SwitchSnapshotToMerge, At, LockedLabels
<1>2. state = "merging"
  BY <1>1, CallInvFacts DEF HolderOK
<1>3. RestTypeOK' /\ SessionInv'
  <2>1. Spend("fault") \/ Works
    BY DEF SwitchSnapshotToMerge, MayFail
  <2>2. budget' \in [Expenses -> Nat]
    BY Zenon, <2>1, CallInvFacts, BudgetType DEF RestTypeOK, Expenses
  <2>3. dm' \in [Partitions -> {"none", "linear", "snapshot", "snapshot-merge", "collapsed"}]
    BY Zenon, CallInvFacts DEF SwitchSnapshotToMerge, RewriteSnapshotDeviceTable, RestTypeOK
  <2>4. status' \in [Partitions -> StatusStates]
    BY Zenon, CallInvFacts
       DEF SwitchSnapshotToMerge, WriteSnapshotStatus, StatusStates, RestTypeOK
  <2> QED BY Zenon, <1>1, <2>2, <2>3, <2>4, CallInvFacts
          DEF SwitchSnapshotToMerge, RestTypeOK, SessionInv, system
<1>4. PICK seen \in SUBSET Flags :
         Become(c, [call[c] EXCEPT !.todo = @ \ {p}, !.seen = @ \cup seen])
  <2>1. CASE Become(c, [call[c] EXCEPT !.todo = @ \ {p}])
    <3>1. [call[c] EXCEPT !.todo = @ \ {p}] =
             [call[c] EXCEPT !.todo = @ \ {p}, !.seen = @ \cup {}]
      BY Zenon, CallInvFacts DEF Calls
    <3> QED BY Zenon, <2>1, <3>1
  <2>2. {"failed"} \in SUBSET Flags
    BY DEF Flags
  <2> QED BY Zenon, <2>1, <2>2 DEF SwitchSnapshotToMerge
<1> DEFINE r == [call[c] EXCEPT !.todo = @ \ {p}, !.seen = @ \cup seen]
<1>5. r \in Calls /\ r.pc = "SwitchSnapshotToMerge" /\ r.op = call[c].op
  BY Zenon, <1>1, CallInvFacts DEF Calls
<1>6. call' = [call EXCEPT ![c] = r]
  BY <1>4 DEF Become
<1> HIDE DEF r
<1>7. HolderOK(c, r, state', session')
  BY Zenon, <1>1, <1>2, <1>5 DEF HolderOK, Removing, Polling, Creating, Looping, Deleting
<1>8. \E rr : StepOK(c, rr)
  BY Zenon, <1>1, <1>5, <1>6, <1>7, HeldStep DEF LockedLabels
<1> QED BY <1>3, <1>8, StepCallInv

LEMMA MergeInitiatedInv ==
    ASSUME CallInv, NEW c \in Callers, MergeInitiated(c)
    PROVE  CallInv'
<1>1. /\ call[c].pc = "SwitchSnapshotToMerge" /\ lock = c /\ lock' = NoCaller
      /\ session' = session
  BY Zenon, CallInvFacts DEF MergeInitiated, At, LockedLabels, Unlock
<1>2. state = "merging"
  BY <1>1, CallInvFacts DEF HolderOK
<1>3. RestTypeOK' /\ SessionInv'
  BY Zenon, <1>1, <1>2, CallInvFacts
     DEF MergeInitiated, RestTypeOK, SessionInv, UpdateStates, MergeStates, system
<1>4. "MergeCmdHandler" \in Operations /\ "CheckMergeState" \in Labels \ LockedLabels
  BY Zenon DEF Operations, Labels, LockedLabels, Deleting
<1>5. \E r : StepOK(c, r)
  BY <1>1, <1>4, StartUnlocked DEF MergeInitiated
<1> QED BY Zenon, <1>3, <1>5, StepCallInv

LEMMA WriteIndicatorInv ==
    ASSUME CallInv, NEW c \in Callers, WriteIndicator(c), slot # Off
    PROVE  CallInv'
<1>1. /\ call[c].pc = "WriteIndicator" /\ lock = c /\ lock' = c
      /\ state' = state /\ session' = session
  BY Zenon, CallInvFacts DEF WriteIndicator, At, LockedLabels
<1>2. c = Engine /\ state = "initiated"
  BY <1>1, CallInvFacts DEF HolderOK
<1>3. RestTypeOK' /\ SessionInv'
  BY Zenon, <1>1, CallInvFacts DEF WriteIndicator, RestTypeOK, SessionInv, system
<1> DEFINE r == [call[c] EXCEPT !.pc = "WriteUnverified"]
<1>4. r \in Calls /\ r.pc = "WriteUnverified" /\ r.op = call[c].op
  BY CallInvFacts DEF Calls, Labels
<1>5. call' = [call EXCEPT ![c] = r]
  BY Zenon, CallInvFacts DEF WriteIndicator, Goto
<1> HIDE DEF r
<1>6. HolderOK(c, r, state', session')
  BY <1>1, <1>2, <1>4 DEF HolderOK, Removing, Polling, Creating, Looping, Deleting
<1>7. \E rr : StepOK(c, rr)
  BY Zenon, <1>1, <1>4, <1>5, <1>6, HeldStep DEF LockedLabels
<1> QED BY <1>3, <1>7, StepCallInv

LEMMA WriteUnverifiedInv ==
    ASSUME CallInv, NEW c \in Callers, WriteUnverified(c)
    PROVE  CallInv'
<1>1. call[c].pc = "WriteUnverified" /\ lock = c /\ lock' = NoCaller
  BY Zenon, CallInvFacts DEF WriteUnverified, At, LockedLabels, Unlock
<1>2. c = Engine
  BY <1>1, CallInvFacts DEF HolderOK
<1>3. RestTypeOK' /\ SessionInv'
  BY Zenon, CallInvFacts DEF WriteUnverified, RestTypeOK, SessionInv, UpdateStates, system
<1> QED BY Zenon, <1>1, <1>2, <1>3, BecomeIdle, StepCallInv DEF WriteUnverified

(* The engine's record after a step of the loop of CreateUpdateSnapshots. *)
LEMMA CreatingStep ==
    ASSUME CallInv, NEW c \in Callers, NEW r \in Calls, r.op = call[c].op,
           call' = [call EXCEPT ![c] = r], lock = c, lock' = c,
           Creating(call[c]), Creating(r), ~Removing(r), ~Polling(r),
           r.pc \notin Deleting,
           r.pc \in {"CreateSnapshot", "CreateCowImage"} => r.cur \in Partitions,
           state' = state, session' = session
    PROVE  \E rr : StepOK(c, rr)
<1>1. c = Engine /\ session = "begun" /\ state = "initiated"
  BY Zenon, CallInvFacts DEF HolderOK
<1>2. r.pc \in LockedLabels /\ r.pc \notin {"OnSnapshotMergeComplete", "WriteMerging",
         "SwitchSnapshotToMerge", "WriteIndicator", "WriteUnverified"}
  BY Zenon DEF Creating, Looping, Deleting, LockedLabels
<1>3. HolderOK(c, r, state', session')
  BY <1>1, <1>2 DEF HolderOK
<1> QED BY Zenon, <1>2, <1>3, HeldStep

LEMMA DeleteExistingSnapshotInv ==
    ASSUME CallInv, NEW c \in Callers, NEW p \in Partitions, DeleteExistingSnapshot(c, p)
    PROVE  CallInv'
<1>1. /\ call[c].pc = "ForEachPartition" /\ lock = c /\ lock' = c
      /\ state' = state /\ session' = session
  BY CallInvFacts DEF DeleteExistingSnapshot, At, LockedLabels, disk
<1>2. RestTypeOK' /\ SessionInv'
  BY Zenon, CallInvFacts DEF DeleteExistingSnapshot, RestTypeOK, SessionInv, disk, system
<1>3. Creating(call[c])
  BY <1>1 DEF Creating, Looping
<1>4. \E r : StepOK(c, r)
  BY Zenon, <1>1, <1>3, DeleteStep DEF DeleteExistingSnapshot, Deleters
<1> QED BY Zenon, <1>2, <1>4, StepCallInv

LEMMA CreateSnapshotInv ==
    ASSUME CallInv, NEW c \in Callers, CreateSnapshot(c)
    PROVE  CallInv'
<1>1. /\ call[c].pc = "CreateSnapshot" /\ lock = c /\ lock' = c
      /\ state' = state /\ session' = session
  BY CallInvFacts DEF CreateSnapshot, At, LockedLabels
<1>2. RestTypeOK' /\ SessionInv'
  <2>1. Spend("fault") \/ Works
    BY Zenon DEF CreateSnapshot, MayFail
  <2>2. budget' \in [Expenses -> Nat]
    BY Zenon, <2>1, CallInvFacts, BudgetType DEF RestTypeOK, Expenses
  <2>3. status' \in [Partitions -> StatusStates]
    BY Zenon, CallInvFacts DEF CreateSnapshot, WriteSnapshotStatus, StatusStates, RestTypeOK
  <2> QED BY Zenon, <1>1, <2>2, <2>3, CallInvFacts
          DEF CreateSnapshot, RestTypeOK, SessionInv, system
<1>3. Creating(call[c]) /\ call[c].cur \in Partitions
  BY Zenon, <1>1, CallInvFacts DEF Creating, Looping, HolderOK
<1>4. CASE Goto(c, "CreateCowImage")
  <2> DEFINE r == [call[c] EXCEPT !.pc = "CreateCowImage"]
  <2>1. /\ r \in Calls /\ r.pc = "CreateCowImage" /\ r.op = call[c].op
        /\ r.cur = call[c].cur
    BY CallInvFacts DEF Calls, Labels
  <2>2. call' = [call EXCEPT ![c] = r]
    BY Zenon, <1>4, CallInvFacts DEF Goto
  <2> HIDE DEF r
  <2>3. Creating(r) /\ ~Removing(r) /\ ~Polling(r) /\ r.pc \notin Deleting
    BY <2>1 DEF Creating, Looping, Removing, Polling, Deleting
  <2>4. \E rr : StepOK(c, rr)
    BY Zenon, <1>1, <1>3, <2>1, <2>2, <2>3, CreatingStep
  <2> QED BY Zenon, <1>2, <2>4, StepCallInv
<1>5. CASE Unwind(c, Partitions \ call[c].todo)
  <2>1. Partitions \ call[c].todo \in SUBSET Partitions
    OBVIOUS
  <2> QED BY Zenon, <1>1, <1>2, <1>3, <1>5, <2>1, UnwindStep, StepCallInv
<1> QED BY Zenon, <1>4, <1>5 DEF CreateSnapshot

LEMMA CreateCowImageInv ==
    ASSUME CallInv, NEW c \in Callers, CreateCowImage(c)
    PROVE  CallInv'
<1>1. /\ call[c].pc = "CreateCowImage" /\ lock = c /\ lock' = c
      /\ state' = state /\ session' = session
  BY CallInvFacts DEF CreateCowImage, At, LockedLabels
<1>2. RestTypeOK' /\ SessionInv'
  <2>1. Spend("fault") \/ Works
    BY DEF CreateCowImage, MayFail
  <2>2. budget' \in [Expenses -> Nat]
    BY Zenon, <2>1, CallInvFacts, BudgetType DEF RestTypeOK, Expenses
  <2>3. cow' \in [Partitions -> {"absent", "raw", "zeroed", "full"}]
    BY Zenon, CallInvFacts DEF CreateCowImage, RestTypeOK
  <2> QED BY Zenon, <1>1, <2>2, <2>3, CallInvFacts
          DEF CreateCowImage, RestTypeOK, SessionInv, system
<1>3. Creating(call[c]) /\ call[c].cur \in Partitions
  BY Zenon, <1>1, CallInvFacts DEF Creating, Looping, HolderOK
<1>4. CASE Become(c, [call[c] EXCEPT !.pc = "ForEachPartition",
                          !.todo = @ \ {call[c].cur}, !.cur = NoPartition])
  <2> DEFINE r == [call[c] EXCEPT !.pc = "ForEachPartition",
                        !.todo = @ \ {call[c].cur}, !.cur = NoPartition]
  <2>1. r \in Calls /\ r.pc = "ForEachPartition" /\ r.op = call[c].op
    BY ZenonT(30), CallInvFacts DEF Calls, Labels
  <2>2. call' = [call EXCEPT ![c] = r]
    BY <1>4 DEF Become
  <2> HIDE DEF r
  <2>3. Creating(r) /\ ~Removing(r) /\ ~Polling(r) /\ r.pc \notin Deleting
    BY <2>1 DEF Creating, Looping, Removing, Polling, Deleting
  <2>4. \E rr : StepOK(c, rr)
    BY Zenon, <1>1, <1>3, <2>1, <2>2, <2>3, CreatingStep
  <2> QED BY <1>2, <2>4, StepCallInv
<1>5. CASE Unwind(c, (Partitions \ call[c].todo) \cup {call[c].cur})
  <2>1. (Partitions \ call[c].todo) \cup {call[c].cur} \in SUBSET Partitions
    BY <1>3
  <2> QED BY <1>1, <1>2, <1>3, <1>5, <2>1, UnwindStep, StepCallInv
<1> QED BY Zenon, <1>4, <1>5 DEF CreateCowImage

LEMMA ZeroFillCowsInv ==
    ASSUME CallInv, NEW c \in Callers, ZeroFillCows(c)
    PROVE  CallInv'
<1>1. /\ call[c].pc = "ForEachPartition" /\ lock = c /\ lock' = c
      /\ state' = state /\ session' = session
  BY CallInvFacts DEF ZeroFillCows, At, LockedLabels, disk
<1>2. RestTypeOK' /\ SessionInv'
  BY Zenon, CallInvFacts DEF ZeroFillCows, RestTypeOK, SessionInv, disk, system
<1>3. Creating(call[c])
  BY <1>1 DEF Creating, Looping
<1> DEFINE r == [call[c] EXCEPT !.pc = "InitializeCow", !.todo = Partitions]
<1>4. r \in Calls /\ r.pc = "InitializeCow" /\ r.op = call[c].op
  BY ZenonT(30), CallInvFacts DEF Calls, Labels
<1>5. call' = [call EXCEPT ![c] = r]
  BY DEF ZeroFillCows, Become
<1> HIDE DEF r
<1>6. Creating(r) /\ ~Removing(r) /\ ~Polling(r) /\ r.pc \notin Deleting
  BY <1>4 DEF Creating, Looping, Removing, Polling, Deleting
<1>7. \E rr : StepOK(c, rr)
  BY Zenon, <1>1, <1>3, <1>4, <1>5, <1>6, CreatingStep
<1> QED BY <1>2, <1>7, StepCallInv

LEMMA InitializeCowInv ==
    ASSUME CallInv, NEW c \in Callers, NEW p \in Partitions, InitializeCow(c, p)
    PROVE  CallInv'
<1>1. /\ call[c].pc = "InitializeCow" /\ lock = c /\ lock' = c
      /\ state' = state /\ session' = session
  BY CallInvFacts DEF InitializeCow, At, LockedLabels
<1>2. RestTypeOK' /\ SessionInv'
  <2>1. Spend("fault") \/ Works
    BY DEF InitializeCow, MayFail
  <2>2. budget' \in [Expenses -> Nat]
    BY Zenon, <2>1, CallInvFacts, BudgetType DEF RestTypeOK, Expenses
  <2>3. cow' \in [Partitions -> {"absent", "raw", "zeroed", "full"}]
    BY Zenon, CallInvFacts DEF InitializeCow, RestTypeOK
  <2>4. dm' \in [Partitions -> {"none", "linear", "snapshot", "snapshot-merge", "collapsed"}]
    BY Zenon, CallInvFacts DEF InitializeCow, UnmapPartitionWithSnapshot, RestTypeOK
  <2> QED BY Zenon, <1>1, <2>2, <2>3, <2>4, CallInvFacts
          DEF InitializeCow, RestTypeOK, SessionInv, system
<1>3. Creating(call[c])
  BY Zenon, <1>1 DEF Creating
<1>4. CASE Become(c, [call[c] EXCEPT !.todo = @ \ {p}])
  <2> DEFINE r == [call[c] EXCEPT !.todo = @ \ {p}]
  <2>1. r \in Calls /\ r.pc = "InitializeCow" /\ r.op = call[c].op
    BY <1>1, CallInvFacts DEF Calls
  <2>2. call' = [call EXCEPT ![c] = r]
    BY Zenon, <1>4 DEF Become
  <2> HIDE DEF r
  <2>3. Creating(r) /\ ~Removing(r) /\ ~Polling(r) /\ r.pc \notin Deleting
    BY <2>1 DEF Creating, Looping, Removing, Polling, Deleting
  <2>4. \E rr : StepOK(c, rr)
    BY Zenon, <1>1, <1>3, <2>1, <2>2, <2>3, CreatingStep
  <2> QED BY Zenon, <1>2, <2>4, StepCallInv
<1>5. CASE Unwind(c, Partitions)
  BY Zenon, <1>1, <1>2, <1>3, <1>5, UnwindStep, StepCallInv
<1> QED BY <1>4, <1>5 DEF InitializeCow

LEMMA UpdatePartitionTableInv ==
    ASSUME CallInv, NEW c \in Callers, UpdatePartitionTable(c)
    PROVE  CallInv'
<1>1. call[c].pc = "InitializeCow" /\ lock = c /\ state' = state
  BY Zenon, CallInvFacts DEF UpdatePartitionTable, At, LockedLabels
<1>2. Creating(call[c])
  BY Zenon, <1>1 DEF Creating
<1>3. c = Engine /\ session = "begun" /\ state = "initiated"
  BY <1>2, CallInvFacts DEF HolderOK
<1>4. RestTypeOK' /\ SessionInv'
  <2>1. Spend("fault") \/ Works
    BY DEF UpdatePartitionTable, MayFail
  <2>2. budget' \in [Expenses -> Nat]
    BY Zenon, <2>1, CallInvFacts, BudgetType DEF RestTypeOK, Expenses
  <2>3. updated' \in [Partitions -> BOOLEAN]
    BY Zenon, CallInvFacts DEF UpdatePartitionTable, RestTypeOK
  <2> QED BY Zenon, <1>1, <1>3, <2>2, <2>3, CallInvFacts
          DEF UpdatePartitionTable, RestTypeOK, SessionInv, system
<1>5. CASE Become(c, Idle) /\ Unlock
  BY Zenon, <1>1, <1>3, <1>4, <1>5, BecomeIdle, StepCallInv DEF Unlock
<1>6. CASE session' = session /\ Unwind(c, Partitions) /\ Holds
  BY Zenon, <1>1, <1>2, <1>4, <1>6, UnwindStep, StepCallInv DEF Holds
<1> QED BY Zenon, <1>5, <1>6 DEF UpdatePartitionTable

LEMMA AutoDeleteSnapshotInv ==
    ASSUME CallInv, NEW c \in Callers, AutoDeleteSnapshot(c)
    PROVE  CallInv'
<1>1. /\ call[c].pc = "AutoDeleteSnapshot" /\ lock = c
      /\ state' = state /\ session' = session
  BY CallInvFacts DEF AutoDeleteSnapshot, At, LockedLabels, disk
<1>2. RestTypeOK' /\ SessionInv'
  BY Zenon, CallInvFacts DEF AutoDeleteSnapshot, RestTypeOK, SessionInv, disk, system
<1>3. Creating(call[c]) /\ call[c].todo \in SUBSET Partitions
  BY <1>1, CallInvFacts DEF Creating, Calls
<1>4. CASE (\E p \in call[c].todo : DeleteSnapshot(c, p, "AutoDeleteSnapshot")) /\ Holds
  <2>1. \E r : StepOK(c, r)
    BY Zenon, <1>1, <1>3, <1>4, DeleteStep DEF Deleters, Holds
  <2> QED BY Zenon, <1>2, <2>1, StepCallInv
<1>5. CASE Become(c, Idle) /\ Unlock
  BY Zenon, <1>1, <1>2, <1>5, BecomeIdle, StepCallInv DEF Unlock
<1> QED BY Zenon, <1>4, <1>5 DEF AutoDeleteSnapshot

(* Requests, the engine's work and the environment. *)

(* A caller ends up without the lock; who else holds it keeps it. *)
LEMMA ReleasedCallInv ==
    ASSUME CallInv, NEW c \in Callers, NEW r \in Calls,
           call' = [call EXCEPT ![c] = r], r.pc \notin LockedLabels,
           lock' = IF lock = c THEN NoCaller ELSE lock,
           state' = state, c = Engine \/ session' = session,
           EngineOK(c, r, session'), RestTypeOK', SessionInv'
    PROVE  CallInv'
<1>1. /\ call \in [Callers -> Calls] /\ lock \in Callers \cup {NoCaller} /\ LockInv
      /\ \A d \in Callers : /\ HolderOK(d, call[d], state, session)
                            /\ EngineOK(d, call[d], session)
  BY Zenon DEF CallInv, TypeOK
<1>2. NoCaller \notin Callers
  BY SnapshotAssumption
<1>3. call' \in [Callers -> Calls] /\ call'[c] = r /\ \A d \in Callers \ {c} : call'[d] = call[d]
  BY Zenon, <1>1
<1>4. LockInv'
  BY Zenon, <1>1, <1>2, <1>3 DEF LockInv
<1>5. ASSUME NEW d \in Callers
      PROVE  HolderOK(d, call'[d], state', session') /\ EngineOK(d, call'[d], session')
  <2>1. CASE d = c
    BY Zenon, <1>3, <2>1, UnlockedOK
  <2>2. CASE d # c
    <3>1. HolderOK(d, call[d], state, session) /\ EngineOK(d, call[d], session)
      BY Zenon, <1>1
    <3>2. HolderOK(d, call[d], state', session')
      BY Zenon, <2>2, <3>1 DEF HolderOK
    <3>3. EngineOK(d, call[d], session')
      BY <2>2, <3>1 DEF EngineOK
    <3> QED BY Zenon, <1>3, <2>2, <3>2, <3>3
  <2> QED BY <2>1, <2>2
<1>6. TypeOK'
  BY Zenon, <1>1, <1>3 DEF TypeOK, RestTypeOK
<1> QED BY Zenon, <1>4, <1>5, <1>6 DEF CallInv

(* No call, no lock and no part of the update's progress changes. *)
LEMMA UnchangedCallInv ==
    ASSUME CallInv, UNCHANGED <<state, lock, call, session>>, RestTypeOK'
    PROVE  CallInv'
<1>1. TypeOK'
  BY Zenon DEF CallInv, TypeOK, RestTypeOK
<1>2. LockInv' /\ SessionInv'
  BY ZenonT(30) DEF CallInv, LockInv, SessionInv
<1>3. \A c \in Callers : HolderOK(c, call[c], state, session)' /\ EngineOK(c, call[c], session)'
  BY DEF CallInv, HolderOK, EngineOK, Removing, Polling, Creating, Looping
<1> QED BY Zenon, <1>1, <1>2, <1>3 DEF CallInv

LEMMA BeginCancelInv ==
    ASSUME CallInv, NEW c \in Callers, BeginUpdate(c) \/ CancelUpdate(c)
    PROVE  CallInv'
<1>1. PICK op \in {"BeginUpdate", "CancelUpdate"} : Start(c, op, "TryCancelUpdate")
  BY DEF BeginUpdate, CancelUpdate
<1>2. /\ c = Engine /\ call[c].pc = "idle" /\ session' = "none"
      /\ state' = state /\ lock' = lock
  BY Zenon DEF BeginUpdate, CancelUpdate, At, disk
<1>3. RestTypeOK' /\ SessionInv'
  BY Zenon, CallInvFacts DEF BeginUpdate, CancelUpdate, RestTypeOK, SessionInv, disk, system
<1> DEFINE r == [Idle EXCEPT !.op = op, !.pc = "TryCancelUpdate"]
<1>4. r \in Calls /\ r.pc = "TryCancelUpdate" /\ r.op = op
  <2>1. op \in Operations /\ "TryCancelUpdate" \in Labels
    BY DEF Operations, Labels
  <2> QED BY Zenon, <2>1, StartOK
<1>5. call' = [call EXCEPT ![c] = r]
  BY Zenon, <1>1 DEF Start, Become
<1> HIDE DEF r
<1>6. r.pc \notin LockedLabels /\ EngineOK(c, r, session')
  BY Zenon, <1>2, <1>4 DEF LockedLabels, Deleting, EngineOK
<1>7. lock # c
  BY Zenon, <1>2, CallInvFacts DEF LockedLabels, Deleting
<1> QED BY Zenon, <1>2, <1>3, <1>4, <1>5, <1>6, <1>7, ReleasedCallInv

LEMMA CreateUpdateSnapshotsInv ==
    ASSUME CallInv, NEW c \in Callers, CreateUpdateSnapshots(c)
    PROVE  CallInv'
<1>1. /\ c = Engine /\ lock = NoCaller /\ lock' = c /\ session' = "begun"
      /\ state' = "initiated"
  BY CallInvFacts DEF CreateUpdateSnapshots, Locked, SessionInv, disk
<1>2. RestTypeOK' /\ SessionInv'
  BY Zenon, <1>1, CallInvFacts DEF CreateUpdateSnapshots, RestTypeOK, SessionInv, disk, system
<1> DEFINE r == [Idle EXCEPT !.op = "CreateUpdateSnapshots",
                             !.pc = "ForEachPartition", !.todo = Partitions]
<1>3. r \in Calls /\ r.pc = "ForEachPartition" /\ r.op = "CreateUpdateSnapshots"
  BY Zenon DEF Idle, Calls, Operations, Labels
<1>4. call' = [call EXCEPT ![c] = r]
  BY Zenon DEF CreateUpdateSnapshots, Become
<1> HIDE DEF r
<1>5. HolderOK(c, r, state', session') /\ EngineOK(c, r, session')
  BY <1>1, <1>3 DEF HolderOK, EngineOK, Removing, Polling, Creating, Looping, Deleting
<1>6. StepOK(c, r)
  BY Zenon, <1>1, <1>3, <1>4, <1>5 DEF StepOK, LockedLabels
<1> QED BY Zenon, <1>2, <1>6, StepCallInv

LEMMA FinishedSnapshotWritesInv ==
    ASSUME CallInv, NEW c \in Callers, FinishedSnapshotWrites(c)
    PROVE  CallInv'
<1>1. c = Engine /\ call[c].pc = "idle" /\ state' = state
  BY DEF FinishedSnapshotWrites, At, disk
<1>2. CASE /\ ReadUpdateState = "initiated" /\ Locked(c)
           /\ Start(c, "FinishedSnapshotWrites", "WriteIndicator") /\ UNCHANGED session
  <2>1. RestTypeOK' /\ SessionInv'
    BY Zenon, <1>2, CallInvFacts DEF FinishedSnapshotWrites, RestTypeOK, SessionInv, disk, system
  <2> DEFINE r == [Idle EXCEPT !.op = "FinishedSnapshotWrites", !.pc = "WriteIndicator"]
  <2>2. r \in Calls /\ r.pc = "WriteIndicator" /\ r.op = "FinishedSnapshotWrites"
    BY Zenon DEF Idle, Calls, Operations, Labels
  <2>3. call' = [call EXCEPT ![c] = r] /\ lock = NoCaller /\ lock' = c
    BY <1>2 DEF Start, Become, Locked
  <2> HIDE DEF r
  <2>4. state' = "initiated"
    BY Zenon, <1>1, <1>2 DEF ReadUpdateState
  <2>5. HolderOK(c, r, state', session') /\ EngineOK(c, r, session')
    BY Zenon, <1>1, <2>2, <2>4
       DEF HolderOK, EngineOK, Removing, Polling, Creating, Looping, Deleting
  <2>6. StepOK(c, r)
    BY Zenon, <1>1, <2>2, <2>3, <2>5 DEF StepOK, LockedLabels
  <2> QED BY Zenon, <2>1, <2>6, StepCallInv
<1>3. CASE LockedBriefly /\ session' \in {"finished", "none"} /\ UNCHANGED call
  <2>1. RestTypeOK' /\ SessionInv'
    BY Zenon, <1>3, CallInvFacts DEF FinishedSnapshotWrites, RestTypeOK, SessionInv, disk, system
  <2>2. call' = [call EXCEPT ![c] = call[c]] /\ lock' = lock /\ lock # c
    BY Zenon, <1>3, CallInvFacts, SnapshotAssumption DEF LockedBriefly
  <2>3. call[c].pc \notin LockedLabels
    BY Zenon, <1>1 DEF LockedLabels, Deleting
  <2>4. EngineOK(c, call[c], session')
    <3>1. session \in {"created", "finished"}
      BY DEF FinishedSnapshotWrites
    <3> QED BY Zenon, <1>1, <3>1, CallInvFacts DEF EngineOK
  <2> QED BY Zenon, <1>1, <2>1, <2>2, <2>3, <2>4, CallInvFacts, ReleasedCallInv
<1> QED BY Zenon, <1>2, <1>3 DEF FinishedSnapshotWrites

LEMMA MergeCmdHandlerInv ==
    ASSUME CallInv, NEW c \in Callers, MergeCmdHandler(c)
    PROVE  CallInv'
<1>1. lock = NoCaller /\ lock' = NoCaller /\ state' = state /\ session' = session
  BY DEF MergeCmdHandler, disk
<1>2. RestTypeOK' /\ SessionInv'
  BY Zenon, <1>1, CallInvFacts DEF MergeCmdHandler, RestTypeOK, SessionInv, disk
<1>3. CASE call' = call
  BY Zenon, <1>1, <1>2, <1>3, UnchangedCallInv
<1>4. CASE \E label \in {"InitiateMerge", "CheckMergeState"} :
              Start(c, "MergeCmdHandler", label)
  <2>1. PICK label \in {"InitiateMerge", "CheckMergeState"} :
           Start(c, "MergeCmdHandler", label)
    BY Zenon, <1>4
  <2>2. label \in Labels \ LockedLabels /\ "MergeCmdHandler" \in Operations
    BY Zenon, <2>1 DEF Labels, LockedLabels, Deleting, Operations
  <2>3. \E r : StepOK(c, r)
    BY Zenon, <1>1, <2>1, <2>2, StartUnlocked
  <2> QED BY Zenon, <1>2, <2>3, StepCallInv
<1> QED BY Zenon, <1>3, <1>4 DEF MergeCmdHandler

LEMMA EngineWorkInv ==
    ASSUME CallInv, EngineWork
    PROVE  CallInv'
<1>1. Engine \in Callers
  BY SnapshotAssumption
<1>2. CASE SetActiveBootSlot
  <2>1. RestTypeOK' /\ SessionInv'
    BY Zenon, <1>1, <1>2, CallInvFacts DEF SetActiveBootSlot, RestTypeOK, SessionInv, Slots, disk
  <2>2. call' = [call EXCEPT ![Engine] = call[Engine]] /\ lock' = lock /\ state' = state
    BY Zenon, <1>1, <1>2, CallInvFacts DEF SetActiveBootSlot, disk
  <2>3. call[Engine].pc \notin LockedLabels /\ call[Engine] \in Calls
    BY Zenon, <1>1, <1>2, CallInvFacts DEF SetActiveBootSlot, At, LockedLabels, Deleting
  <2>4. lock # Engine
    BY Zenon, <1>1, <2>3, CallInvFacts
  <2>5. EngineOK(Engine, call[Engine], session')
    <3>1. session' = "none"
      BY <1>2 DEF SetActiveBootSlot
    <3> QED BY Zenon, <1>1, <3>1, CallInvFacts DEF EngineOK
  <2> QED BY Zenon, <1>1, <2>1, <2>2, <2>3, <2>4, <2>5, ReleasedCallInv
<1>3. ASSUME NEW p \in Partitions,
             MapUpdateSnapshot(p) \/ UnmapUpdateSnapshot(p) \/ WriteUpdate(p)
      PROVE  CallInv'
  <2>1. UNCHANGED <<state, lock, call, session>>
    BY <1>3 DEF MapUpdateSnapshot, UnmapUpdateSnapshot, WriteUpdate, disk
  <2>2. MapPartitionWithSnapshot(p) \in {"none", "linear", "snapshot", "snapshot-merge"}
    BY DEF MapPartitionWithSnapshot, SnapshotMode
  <2>3. dm' \in [Partitions -> {"none", "linear", "snapshot", "snapshot-merge", "collapsed"}]
    BY Zenon, <1>1, <1>3, <2>2, CallInvFacts DEF MapUpdateSnapshot, UnmapUpdateSnapshot,
       WriteUpdate, UnmapPartitionWithSnapshot, RestTypeOK
  <2>4. cow' \in [Partitions -> {"absent", "raw", "zeroed", "full"}]
    BY Zenon, <1>1, <1>3, CallInvFacts
       DEF MapUpdateSnapshot, UnmapUpdateSnapshot, WriteUpdate, RestTypeOK, disk
  <2>5. RestTypeOK'
    BY Zenon, <1>1, <1>3, <2>3, <2>4, CallInvFacts
       DEF MapUpdateSnapshot, UnmapUpdateSnapshot, WriteUpdate, RestTypeOK, disk, system
  <2> QED BY Zenon, <2>1, <2>5, UnchangedCallInv
<1> QED BY Zenon, <1>2, <1>3 DEF EngineWork

(* Nobody is left after a shutdown, however it comes about. *)
LEMMA ShutdownInv ==
    ASSUME CallInv, Shutdown, state' \in UpdateStates \cup {""},
           UNCHANGED <<indicator, status, cow, base, updated>>,
           budget' \in [Expenses -> Nat]
    PROVE  CallInv' /\ OffInv'
<1>1. Engine \in Callers /\ NoCaller \notin Callers
  BY Zenon, SnapshotAssumption
<1>2. RestTypeOK' /\ SessionInv'
  BY Zenon, <1>1, CallInvFacts DEF Shutdown, RestTypeOK, SessionInv, bootControl
<1>3. ASSUME NEW c \in Callers
      PROVE  /\ call'[c] = Idle
             /\ Idle \in Calls /\ Idle.pc = "idle" /\ Idle.pc \notin LockedLabels
             /\ HolderOK(c, call'[c], state', session')
             /\ EngineOK(c, call'[c], session')
  BY Zenon, IdleOK DEF Shutdown, Idle
<1>4. call' \in [Callers -> Calls] /\ lock' = NoCaller /\ session' = "none"
  BY Zenon, <1>1, <1>3 DEF Shutdown
<1>5. LockInv'
  BY Zenon, <1>1, <1>3, <1>4 DEF LockInv
<1>6. TypeOK'
  BY Zenon, <1>2, <1>4 DEF TypeOK, RestTypeOK
<1>7. OffInv'
  BY Zenon, <1>3, <1>4 DEF OffInv
<1> QED BY Zenon, <1>2, <1>3, <1>5, <1>6, <1>7 DEF CallInv

LEMMA BootInv ==
    ASSUME CallInv, Boot
    PROVE  CallInv'
<1>1. RestTypeOK
  BY SnapshotAssumption, CallInvFacts
<1>2. \A p \in Partitions : FirstStageDevice(p) \in {"none", "linear", "snapshot", "snapshot-merge"}
  BY DEF FirstStageDevice, MapPartitionWithSnapshot, SnapshotMode
<1>3. dm' \in [Partitions -> {"none", "linear", "snapshot", "snapshot-merge", "collapsed"}]
  <2> DEFINE D == {"none", "linear", "snapshot", "snapshot-merge", "collapsed"}
             d(p) == IF active = New THEN FirstStageDevice(p) ELSE "none"
  <2>1. \A p \in Partitions : d(p) \in D
    BY <1>2
  <2>2. dm \in [Partitions -> D]
    BY Zenon, <1>1 DEF RestTypeOK
  <2>3. dm' = [p \in Partitions |-> d(p)] \/ dm' = dm
    BY DEF Boot
  <2> HIDE DEF D, d
  <2>4. dm' \in [Partitions -> D]
    BY <2>1, <2>2, <2>3
  <2> QED BY Zenon, <2>4 DEF D
<1>4. active' \in Slots /\ slot' \in Slots \cup {Off}
  BY Zenon, <1>1 DEF Boot, RestTypeOK, Slots, OtherSlot
<1>5. RestTypeOK'
  BY Zenon, <1>1, <1>3, <1>4 DEF Boot, RestTypeOK, disk
<1> QED BY Zenon, <1>5, UnchangedCallInv DEF Boot, disk

LEMMA CallerDiesInv ==
    ASSUME CallInv, NEW c \in Callers, CallerDies(c)
    PROVE  CallInv'
<1>1. budget' \in [Expenses -> Nat]
  BY Zenon, CallInvFacts, BudgetType DEF CallerDies, RestTypeOK, Expenses
<1>2. RestTypeOK' /\ SessionInv'
  BY Zenon, <1>1, CallInvFacts DEF CallerDies, RestTypeOK, SessionInv, disk, system
<1>3. /\ call' = [call EXCEPT ![c] = Idle] /\ state' = state
      /\ lock' = IF lock = c THEN NoCaller ELSE lock
      /\ c = Engine \/ session' = session
  BY DEF CallerDies, Become, disk
<1> QED BY Zenon, <1>2, <1>3, IdleOK, ReleasedCallInv

LEMMA OtherEnvironmentInv ==
    ASSUME CallInv,
           \/ MarkBootSuccessful
           \/ \E s \in Slots : SetActive(s)
           \/ \E p \in Partitions : MergeBlocks(p) \/ FlashHandler(p)
    PROVE  CallInv'
<1>1. RestTypeOK
  BY Zenon, SnapshotAssumption, CallInvFacts
<1>2. CASE MarkBootSuccessful
  <2>1. RestTypeOK'
    BY Zenon, <1>1, <1>2 DEF MarkBootSuccessful, RestTypeOK, disk
  <2> QED BY <1>2, <2>1, UnchangedCallInv DEF MarkBootSuccessful, disk
<1>3. ASSUME NEW s \in Slots, SetActive(s)
      PROVE  CallInv'
  <2>1. budget' \in [Expenses -> Nat]
    BY Zenon, <1>1, <1>3, BudgetType DEF SetActive, RestTypeOK, Expenses
  <2>2. RestTypeOK'
    BY Zenon, <1>1, <1>3, <2>1 DEF SetActive, RestTypeOK, disk
  <2> QED BY <1>3, <2>2, UnchangedCallInv DEF SetActive, disk
<1>4. ASSUME NEW p \in Partitions, MergeBlocks(p)
      PROVE  CallInv'
  <2>1. RestTypeOK'
    BY Zenon, <1>1, <1>4 DEF MergeBlocks, RestTypeOK, system
  <2> QED BY Zenon, <1>4, <2>1, UnchangedCallInv DEF MergeBlocks
<1>5. ASSUME NEW p \in Partitions, FlashHandler(p)
      PROVE  CallInv'
  <2>1. budget' \in [Expenses -> Nat]
    BY Zenon, <1>1, <1>5, BudgetType DEF FlashHandler, RestTypeOK, Expenses
  <2>2. RestTypeOK'
    BY Zenon, <1>1, <1>5, <2>1 DEF FlashHandler, RestTypeOK, system
  <2> QED BY Zenon, <1>5, <2>2, UnchangedCallInv DEF FlashHandler
<1> QED BY <1>2, <1>3, <1>4, <1>5

(* The shutdowns, orderly or not. *)
LEMMA ShutdownsInv ==
    ASSUME CallInv, Reboot \/ PowerLoss \/ \E c \in Callers : PowerLossInWrite(c)
    PROVE  CallInv' /\ OffInv'
<1>1. RestTypeOK
  BY SnapshotAssumption, CallInvFacts
<1>2. Shutdown /\ UNCHANGED <<indicator, status, cow, base, updated>>
  BY Zenon DEF Reboot, PowerLoss, PowerLossInWrite, disk
<1>3. state' \in UpdateStates \cup {""}
  BY Zenon, <1>1 DEF Reboot, PowerLoss, PowerLossInWrite, disk, RestTypeOK
<1>4. budget' \in [Expenses -> Nat]
  <2>1. Works \/ Spend("crash")
    BY Zenon DEF Reboot, PowerLoss, PowerLossInWrite, Works
  <2> QED BY Zenon, <1>1, <2>1, BudgetType DEF RestTypeOK, Expenses
<1> QED BY Zenon, <1>2, <1>3, <1>4, ShutdownInv

LEMMA EnvironmentInv ==
    ASSUME CallInv, Environment
    PROVE  CallInv'
  BY Zenon, BootInv, CallerDiesInv, OtherEnvironmentInv, ShutdownsInv DEF Environment

(* A step of a caller is not taken while the device is off. *)
LEMMA StepRuns ==
    ASSUME CallInv, OffInv, NEW c \in Callers, Step(c) \/ Request(c)
    PROVE  slot \in Slots /\ slot' = slot
<1>1. CASE Step(c)
  <2>1. call[c].pc # "idle"
    BY Zenon, <1>1 DEF Step, At, TryCancelUpdate, RemoveSnapshotBootIndicator, WriteNone,
       WriteInitiated, DeleteBackingImage, RemoveStatusFile, CheckMergeState,
       OnSnapshotMergeComplete, MergeDecision, AcknowledgeMergeFailure, InitiateMerge,
       WriteMerging, MergeInitiated, WriteIndicator, WriteUnverified, CreateSnapshot,
       CreateCowImage, ZeroFillCows, UpdatePartitionTable, AutoDeleteSnapshot,
       RemoveSnapshot, CheckTargetMergeState, SwitchSnapshotToMerge,
       DeleteExistingSnapshot, InitializeCow
  <2>2. UNCHANGED system
    BY Zenon, <1>1 DEF Step, TryCancelUpdate, RemoveSnapshotBootIndicator, WriteNone,
       WriteInitiated, DeleteBackingImage, RemoveStatusFile, CheckMergeState,
       OnSnapshotMergeComplete, MergeDecision, AcknowledgeMergeFailure, InitiateMerge,
       WriteMerging, MergeInitiated, WriteIndicator, WriteUnverified, CreateSnapshot,
       CreateCowImage, ZeroFillCows, UpdatePartitionTable, AutoDeleteSnapshot,
       RemoveSnapshot, CheckTargetMergeState, SwitchSnapshotToMerge,
       DeleteExistingSnapshot, InitializeCow
  <2> QED BY Zenon, <2>1, <2>2, CallInvFacts DEF OffInv, RestTypeOK, system
<1>2. CASE Request(c)
  <2>1. slot # Off
    BY Zenon, <1>2 DEF Request, BeginUpdate, CancelUpdate, CreateUpdateSnapshots,
       FinishedSnapshotWrites, MergeCmdHandler, OffInv, Off, Old
  <2>2. slot' = slot
    BY Zenon, <1>2 DEF Request, BeginUpdate, CancelUpdate, CreateUpdateSnapshots,
       FinishedSnapshotWrites, MergeCmdHandler, system
  <2> QED BY Zenon, <2>1, <2>2, CallInvFacts DEF RestTypeOK
<1> QED BY <1>1, <1>2

LEMMA OffInvStep ==
    ASSUME CallInv, OffInv, Next
    PROVE  OffInv'
<1>1. Engine \in Callers /\ RestTypeOK
  BY Zenon, SnapshotAssumption, CallInvFacts
<1>2. CASE \E c \in Callers : Step(c) \/ Request(c)
  BY Zenon, <1>2, StepRuns DEF OffInv, Off, Slots, Old, New
<1>3. CASE EngineWork
  BY Zenon, <1>1, <1>3 DEF EngineWork, SetActiveBootSlot, MapUpdateSnapshot,
     UnmapUpdateSnapshot, WriteUpdate, OffInv, system
<1>4. CASE Reboot \/ PowerLoss \/ \E c \in Callers : PowerLossInWrite(c)
  BY Zenon, <1>4, ShutdownsInv
<1>5. CASE Boot \/ MarkBootSuccessful \/ \E s \in Slots : SetActive(s)
  BY Zenon, <1>5 DEF Boot, MarkBootSuccessful, SetActive, OffInv
<1>6. CASE \E p \in Partitions : MergeBlocks(p) \/ FlashHandler(p)
  BY Zenon, <1>6 DEF MergeBlocks, FlashHandler, OffInv, system
<1>7. ASSUME NEW c \in Callers, CallerDies(c)
      PROVE  OffInv'
  BY Zenon, <1>1, <1>7 DEF CallerDies, At, OffInv, system
<1> QED BY Zenon, <1>2, <1>3, <1>4, <1>5, <1>6, <1>7 DEF Next, Environment

LEMMA InitInv == Init => Inv
<1> SUFFICES ASSUME Init PROVE Inv
  OBVIOUS
<1>1. Engine \in Callers /\ NoCaller \notin Callers /\ Budget \in [Expenses -> Nat]
  BY SnapshotAssumption
<1>2. RestTypeOK /\ SessionInv
  BY Zenon, <1>1 DEF Init, RestTypeOK, SessionInv, Slots, StatusStates
<1>3. ASSUME NEW c \in Callers
      PROVE  /\ call[c] = Idle
             /\ Idle \in Calls /\ Idle.pc \notin LockedLabels
             /\ HolderOK(c, call[c], state, session)
             /\ EngineOK(c, call[c], session)
  BY Zenon, IdleOK DEF Init
<1>4. call \in [Callers -> Calls] /\ lock = NoCaller
  BY Zenon, <1>1, <1>3 DEF Init
<1>5. LockInv
  BY Zenon, <1>1, <1>3, <1>4 DEF LockInv
<1>6. TypeOK
  BY Zenon, <1>2, <1>4 DEF TypeOK, RestTypeOK
<1>7. OffInv
  BY Zenon DEF Init, OffInv, Off, Old
<1> QED BY Zenon, <1>2, <1>3, <1>5, <1>6, <1>7 DEF Inv, CallInv

LEMMA StepInv ==
    ASSUME Inv, NEW c \in Callers, Step(c) \/ Request(c)
    PROVE  CallInv'
<1>1. CallInv /\ slot \in Slots
  BY StepRuns DEF Inv
<1>2. slot # Off
  BY Zenon, <1>1 DEF Slots, Old, New, Off
<1>3. CASE Step(c)
  <2>1. CASE \E p \in Partitions :
                \/ RemoveSnapshot(c, p) \/ CheckTargetMergeState(c, p)
                \/ SwitchSnapshotToMerge(c, p) \/ DeleteExistingSnapshot(c, p)
                \/ InitializeCow(c, p)
    BY Zenon, <1>1, <2>1, RemoveSnapshotInv, CheckTargetMergeStateInv,
       SwitchSnapshotToMergeInv, DeleteExistingSnapshotInv, InitializeCowInv
  <2>2. CASE \/ TryCancelUpdate(c) \/ RemoveSnapshotBootIndicator(c) \/ WriteNone(c)
             \/ WriteInitiated(c) \/ DeleteBackingImage(c) \/ RemoveStatusFile(c)
             \/ CheckMergeState(c) \/ OnSnapshotMergeComplete(c) \/ MergeDecision(c)
             \/ AcknowledgeMergeFailure(c)
    BY Zenon, <1>1, <2>2, TryCancelUpdateInv, RemoveSnapshotBootIndicatorInv, WriteNoneInv,
       WriteInitiatedInv, DeleteBackingImageInv, RemoveStatusFileInv,
       CheckMergeStateInv, OnSnapshotMergeCompleteInv, MergeDecisionInv,
       AcknowledgeMergeFailureInv
  <2>3. CASE \/ InitiateMerge(c) \/ WriteMerging(c) \/ MergeInitiated(c)
             \/ WriteIndicator(c) \/ WriteUnverified(c) \/ CreateSnapshot(c)
             \/ CreateCowImage(c) \/ ZeroFillCows(c) \/ UpdatePartitionTable(c)
             \/ AutoDeleteSnapshot(c)
    BY Zenon, <1>1, <1>2, <2>3, InitiateMergeInv, WriteMergingInv, MergeInitiatedInv,
       WriteIndicatorInv, WriteUnverifiedInv, CreateSnapshotInv, CreateCowImageInv,
       ZeroFillCowsInv, UpdatePartitionTableInv, AutoDeleteSnapshotInv
  <2> QED BY Zenon, <1>3, <2>1, <2>2, <2>3 DEF Step
<1>4. CASE Request(c)
  BY Zenon, <1>1, <1>4, BeginCancelInv, CreateUpdateSnapshotsInv, FinishedSnapshotWritesInv,
     MergeCmdHandlerInv DEF Request
<1> QED BY Zenon, <1>3, <1>4

LEMMA NextInv == Inv /\ [Next]_vars => Inv'
<1> SUFFICES ASSUME Inv, [Next]_vars PROVE Inv'
  BY Zenon
<1>1. CASE UNCHANGED vars
  <2>1. RestTypeOK
    BY Zenon, SnapshotAssumption, CallInvFacts DEF Inv
  <2>2. RestTypeOK'
    BY Zenon, <1>1, <2>1 DEF vars, RestTypeOK
  <2>3. CallInv'
    BY Zenon, <1>1, <2>2, UnchangedCallInv DEF vars, Inv
  <2> QED BY Zenon, <1>1, <2>3 DEF Inv, OffInv, vars
<1>2. CASE Next
  <2>1. CallInv'
    BY Zenon, <1>2, StepInv, EngineWorkInv, EnvironmentInv DEF Inv, Next
  <2> QED BY Zenon, <1>2, <2>1, OffInvStep DEF Inv
<1> QED BY Zenon, <1>1, <1>2

LEMMA Invariance == Spec => []Inv
  BY InitInv, NextInv, PTL DEF Spec

(* Every variable keeps its type: among other things a call only ever is at *)
(* a place of the code, and the budgets of faults never become negative.    *)
THEOREM TypeCorrect == Spec => []TypeOK
<1>1. Inv => TypeOK
  BY Zenon DEF Inv, CallInv
<1> QED BY <1>1, Invariance, PTL

(* Which snapshots exist while the call r works on them. *)
FilesOK(r, sts, cows) ==
    /\ r.pc = "RemoveStatusFile" => cows[r.cur] = "absent"
    /\ r.pc = "CreateCowImage" => sts[r.cur] # "absent"
    /\ Looping(r) => /\ r.pc # "ForEachPartition" => r.cur \in r.todo
                     /\ \A p \in Partitions \ r.todo : sts[p] # "absent"
    /\ r.pc = "InitializeCow" => \A p \in Partitions : sts[p] # "absent"
    /\ r.pc = "WriteNone" => \A p \in Partitions : sts[p] = "absent"
    /\ Removing(r) /\ r.pc # "WriteNone" /\ "failed" \notin r.seen =>
          \A p \in Partitions \ r.todo : sts[p] = "absent"

FileInv ==
    /\ \A c \in Callers : FilesOK(call[c], status, cow)
    /\ NoLeakedSnapshot

(* FileInv: only the lock holder is between two writes of one snapshot. *)

LEMMA UnlockedFiles ==
    ASSUME NEW r, NEW sts, NEW cows, r.pc \notin LockedLabels
    PROVE  FilesOK(r, sts, cows)
  BY Zenon DEF FilesOK, Looping, Removing, LockedLabels, Deleting

(* The places at which nothing is asked of the files. *)
LEMMA OtherFiles ==
    ASSUME NEW r, NEW sts, NEW cows,
           \/ r.pc \in {"CheckTargetMergeState", "OnSnapshotMergeComplete",
                        "WriteMerging", "SwitchSnapshotToMerge", "WriteIndicator",
                        "WriteUnverified", "AutoDeleteSnapshot"}
           \/ r.pc = "DeleteBackingImage" /\
              r.deleter \notin {"RemoveAllSnapshots", "CreateUpdateSnapshots"}
    PROVE  FilesOK(r, sts, cows)
  BY DEF FilesOK, Looping, Removing, Deleting

LEMMA FreeFileInv ==
    ASSUME Inv', lock' = NoCaller, NoLeakedSnapshot'
    PROVE  FileInv'
<1>1. ASSUME NEW c \in Callers
      PROVE  FilesOK(call'[c], status', cow')
  <2>1. call'[c].pc \notin LockedLabels
    BY Zenon, SnapshotAssumption DEF Inv, CallInv, LockInv
  <2> QED BY Zenon, <2>1, UnlockedFiles
<1>2. \A c \in Callers : FilesOK(call[c], status, cow)'
  BY Zenon, <1>1 DEF FilesOK, Looping, Removing
<1> QED BY Zenon, <1>2 DEF FileInv

LEMMA HeldFileInv ==
    ASSUME Inv', NEW c \in Callers, lock' = c, FilesOK(call'[c], status', cow'),
           NoLeakedSnapshot'
    PROVE  FileInv'
<1>1. ASSUME NEW d \in Callers
      PROVE  FilesOK(call'[d], status', cow')
  <2>1. CASE d = c
    BY Zenon, <2>1
  <2>2. CASE d # c
    <3>1. call'[d].pc \notin LockedLabels
      BY ZenonT(30), <2>2 DEF Inv, CallInv, LockInv
    <3> QED BY Zenon, <3>1, UnlockedFiles
  <2> QED BY Zenon, <2>1, <2>2
<1>2. \A d \in Callers : FilesOK(call[d], status, cow)'
  BY <1>1 DEF FilesOK, Looping, Removing
<1> QED BY Zenon, <1>2 DEF FileInv

LEMMA InvFacts ==
    ASSUME Inv, FileInv, NEW c \in Callers
    PROVE  /\ CallInv /\ RestTypeOK
           /\ status \in [Partitions -> StatusStates]
           /\ cow \in [Partitions -> {"absent", "raw", "zeroed", "full"}]
           /\ call \in [Callers -> Calls] /\ call[c] \in Calls
           /\ call[c].todo \in SUBSET Partitions
           /\ lock = c <=> call[c].pc \in LockedLabels
           /\ HolderOK(c, call[c], state, session)
           /\ FilesOK(call[c], status, cow)
           /\ NoLeakedSnapshot
<1>1. CallInv
  BY DEF Inv
<1>2. call[c] \in Calls
  BY Zenon, <1>1, CallInvFacts
<1>3. call[c].todo \in SUBSET Partitions
  BY Zenon, <1>2 DEF Calls
<1> QED BY Zenon, <1>1, <1>2, <1>3, CallInvFacts DEF FileInv, RestTypeOK

LEMMA RemoveAllFiles ==
    ASSUME Inv, FileInv, NEW c \in Callers, NEW remover,
           RemoveAllUpdateState(c, remover), status' = status
    PROVE  FilesOK(call'[c], status', cow')
<1>1. call'[c].pc = "RemoveAllSnapshots" /\ call'[c].todo = ListSnapshots
  BY InvFacts DEF RemoveAllUpdateState, Become, Calls
<1>2. \A p \in Partitions \ ListSnapshots : status'[p] = "absent"
  BY Zenon DEF ListSnapshots
<1> QED BY Zenon, <1>1, <1>2 DEF FilesOK, Looping, Removing, Deleting

(* Nothing is leaked by a step that writes no snapshot, unless it writes none. *)
LEMMA SameFiles ==
    ASSUME NoLeakedSnapshot, status' = status, cow' = cow,
           ReadUpdateState' = "none" => ReadUpdateState = "none"
    PROVE  NoLeakedSnapshot'
  BY DEF NoLeakedSnapshot, ListSnapshots

LEMMA RemoveReturnsFiles ==
    ASSUME Inv, FileInv, Inv', NEW c \in Callers, NEW ok, RemoveReturns(c, ok),
           status' = status, lock = c, NoLeakedSnapshot'
    PROVE  FileInv'
<1>1. CASE Unlock
  BY <1>1, FreeFileInv DEF Unlock
<1>2. CASE RemoveAllUpdateState(c, "CheckMergeState") /\ Holds
  BY Zenon, <1>2, RemoveAllFiles, HeldFileInv DEF Holds
<1> QED BY Zenon, <1>1, <1>2 DEF RemoveReturns

LEMMA PolledFiles ==
    ASSUME Inv, FileInv, NEW c \in Callers, NEW p, NEW flags, Polled(c, p, flags)
    PROVE  FilesOK(call'[c], status', cow')
<1>1. call'[c].pc = "CheckTargetMergeState"
  BY Zenon, InvFacts DEF Polled, Become, Calls
<1> QED BY <1>1, OtherFiles

LEMMA UnwindFiles ==
    ASSUME Inv, FileInv, NEW c \in Callers, NEW created, Unwind(c, created)
    PROVE  FilesOK(call'[c], status', cow')
<1>1. call'[c].pc = "AutoDeleteSnapshot"
  BY Zenon, InvFacts DEF Unwind, Become, Calls
<1> QED BY <1>1, OtherFiles

LEMMA DeleteFiles ==
    ASSUME Inv, FileInv, NEW c \in Callers, NEW p \in Partitions, NEW d,
           DeleteSnapshot(c, p, d), status' = status,
           d = "RemoveAllSnapshots" => call[c].pc = "RemoveAllSnapshots",
           d = "CreateUpdateSnapshots" => /\ call[c].pc = "ForEachPartition"
                                          /\ p \in call[c].todo
    PROVE  FilesOK(call'[c], status', cow')
<1>1. /\ call'[c].pc = "DeleteBackingImage" /\ call'[c].deleter = d /\ call'[c].cur = p
      /\ call'[c].todo = call[c].todo /\ call'[c].seen = call[c].seen
  BY Zenon, InvFacts DEF DeleteSnapshot, Become, Calls
<1>2. CASE d \notin {"RemoveAllSnapshots", "CreateUpdateSnapshots"}
  BY Zenon, <1>1, <1>2, OtherFiles
<1>3. CASE d \in {"RemoveAllSnapshots", "CreateUpdateSnapshots"}
  BY Zenon, <1>1, <1>3, InvFacts DEF FilesOK, Looping, Removing, Deleting
<1> QED BY <1>2, <1>3

LEMMA DeletedFiles ==
    ASSUME Inv, FileInv, NEW c \in Callers, NEW ok \in BOOLEAN, Deleted(c, ok),
           call[c].pc \in Deleting,
           IF ok THEN status' = [status EXCEPT ![call[c].cur] = "absent"]
                 ELSE status' = status
    PROVE  FilesOK(call'[c], status', cow')
<1>1. /\ call[c] \in Calls /\ call \in [Callers -> Calls]
      /\ status \in [Partitions -> StatusStates]
      /\ call[c].deleter \in Deleters /\ call[c].cur \in Partitions
      /\ FilesOK(call[c], status, cow)
  BY Zenon, InvFacts DEF HolderOK
<1>2. CASE call[c].deleter = "RemoveAllSnapshots"
  <2>1. /\ call'[c].pc = "RemoveAllSnapshots"
        /\ call'[c].todo = call[c].todo \ {call[c].cur}
        /\ call'[c].seen = call[c].seen \cup (IF ok THEN {} ELSE {"failed"})
    <3> DEFINE r == [call[c] EXCEPT !.pc = "RemoveAllSnapshots",
                          !.todo = @ \ {call[c].cur}, !.cur = NoPartition,
                          !.seen = @ \cup (IF ok THEN {} ELSE {"failed"}),
                          !.deleter = "none"]
    <3>1. call' = [call EXCEPT ![c] = r]
      BY <1>2 DEF Deleted, Become
    <3>2. /\ r.pc = "RemoveAllSnapshots" /\ r.todo = call[c].todo \ {call[c].cur}
          /\ r.seen = call[c].seen \cup (IF ok THEN {} ELSE {"failed"})
      BY Zenon, <1>1 DEF Calls
    <3> HIDE DEF r
    <3> QED BY Zenon, <1>1, <3>1, <3>2
  <2>2. "failed" \notin call[c].seen =>
           \A p \in Partitions \ call[c].todo : status[p] = "absent"
    BY Zenon, <1>1, <1>2 DEF FilesOK, Removing, Deleting
  <2>3. "failed" \notin call'[c].seen =>
           \A p \in Partitions \ call'[c].todo : status'[p] = "absent"
    BY Zenon, <1>1, <2>1, <2>2
  <2> QED BY Zenon, <2>1, <2>3 DEF FilesOK, Looping, Removing, Deleting
<1>3. CASE call[c].deleter \in {"Cancelled", "MergedBefore", "Collapsed"}
  <2>1. PICK flags : Polled(c, call[c].cur, flags)
    BY Zenon, <1>3 DEF Deleted
  <2> QED BY Zenon, <2>1, PolledFiles
<1>4. CASE call[c].deleter = "CreateUpdateSnapshots" /\ ok
  <2>1. /\ call'[c].pc = "CreateSnapshot" /\ call'[c].cur = call[c].cur
        /\ call'[c].todo = call[c].todo
    <3> DEFINE r == [call[c] EXCEPT !.pc = "CreateSnapshot", !.deleter = "none"]
    <3>1. call' = [call EXCEPT ![c] = r]
      BY <1>4 DEF Deleted, Become
    <3>2. /\ r.pc = "CreateSnapshot" /\ r.cur = call[c].cur
          /\ r.todo = call[c].todo
      BY Zenon, <1>1 DEF Calls
    <3> HIDE DEF r
    <3> QED BY Zenon, <1>1, <3>1, <3>2
  <2>2. /\ call[c].cur \in call[c].todo
        /\ \A p \in Partitions \ call[c].todo : status[p] # "absent"
    BY Zenon, <1>1, <1>4 DEF FilesOK, Looping, Deleting
  <2>3. \A p \in Partitions \ call[c].todo : status'[p] # "absent"
    BY Zenon, <1>1, <1>4, <2>2
  <2> QED BY Zenon, <2>1, <2>2, <2>3 DEF FilesOK, Looping, Removing, Deleting
<1>5. CASE \/ call[c].deleter = "CreateUpdateSnapshots" /\ ~ok
           \/ call[c].deleter = "AutoDeleteSnapshot"
  <2>1. PICK created : Unwind(c, created)
    BY Zenon, <1>5 DEF Deleted
  <2> QED BY Zenon, <2>1, UnwindFiles
<1> QED BY Zenon, <1>1, <1>2, <1>3, <1>4, <1>5 DEF Deleters

(* FileInv is preserved by the steps of a caller. *)

(* A step that writes no snapshot and does not end the update. *)
Calm == /\ UNCHANGED <<status, cow>>
        /\ ReadUpdateState' = "none" => ReadUpdateState = "none"

LEMMA FreeCalm ==
    ASSUME FileInv, Inv', Calm, lock' = NoCaller
    PROVE  FileInv'
  BY Zenon, SameFiles, FreeFileInv DEF FileInv, Calm

LEMMA HeldCalm ==
    ASSUME FileInv, Inv', NEW c \in Callers, Calm, lock' = c,
           FilesOK(call'[c], status', cow')
    PROVE  FileInv'
  BY Zenon, SameFiles, HeldFileInv DEF FileInv, Calm

(* The first step of a call that takes the lock. *)
LEMMA LockingFiles ==
    ASSUME Inv, FileInv, Inv', NEW c \in Callers,
           TryCancelUpdate(c) \/ CheckMergeState(c) \/ InitiateMerge(c)
    PROVE  FileInv'
<1>1. Calm
  BY Zenon DEF TryCancelUpdate, CheckMergeState, InitiateMerge, disk, Calm, ReadUpdateState
<1>2. CASE LockedBriefly
  BY Zenon, <1>1, <1>2, FreeCalm DEF LockedBriefly
<1>3. CASE Locked(c) /\ \E remover : RemoveAllUpdateState(c, remover)
  BY Zenon, <1>1, <1>3, RemoveAllFiles, HeldCalm DEF Locked, Calm
<1>4. CASE /\ Locked(c)
           /\ Become(c, [call[c] EXCEPT !.pc = "CheckTargetMergeState",
                                       !.todo = ListSnapshots, !.seen = {}])
  <2>1. call'[c].pc = "CheckTargetMergeState"
    BY Zenon, <1>4, InvFacts DEF Become, Calls
  <2> QED BY Zenon, <1>1, <1>4, <2>1, OtherFiles, HeldCalm DEF Locked
<1>5. CASE Locked(c) /\ Goto(c, "WriteMerging")
  <2>1. call'[c].pc = "WriteMerging"
    BY <1>5, InvFacts DEF Goto, Calls
  <2> QED BY Zenon, <1>1, <1>5, <2>1, OtherFiles, HeldCalm DEF Locked
<1> QED BY Zenon, <1>2, <1>3, <1>4, <1>5 DEF TryCancelUpdate, CheckMergeState, InitiateMerge

LEMMA RemoveSnapshotFiles ==
    ASSUME Inv, FileInv, Inv', NEW c \in Callers, NEW p \in Partitions,
           RemoveSnapshot(c, p)
    PROVE  FileInv'
<1>1. Calm /\ call[c].pc = "RemoveAllSnapshots" /\ lock' = c
  BY Zenon, InvFacts DEF RemoveSnapshot, disk, Calm, ReadUpdateState, At, LockedLabels
<1>2. CASE DeleteSnapshot(c, p, "RemoveAllSnapshots")
  BY Zenon, <1>1, <1>2, DeleteFiles, HeldCalm DEF Calm
<1>3. CASE Become(c, [call[c] EXCEPT !.todo = @ \ {p}, !.seen = @ \cup {"failed"}])
  <2>1. call'[c].pc = "RemoveAllSnapshots" /\ "failed" \in call'[c].seen
    BY Zenon, <1>1, <1>3, InvFacts DEF Become, Calls
  <2>2. FilesOK(call'[c], status', cow')
    BY <2>1 DEF FilesOK, Looping, Removing, Deleting
  <2> QED BY Zenon, <1>1, <2>2, HeldCalm
<1> QED BY <1>2, <1>3 DEF RemoveSnapshot

LEMMA RemoveSnapshotBootIndicatorFiles ==
    ASSUME Inv, FileInv, Inv', NEW c \in Callers, RemoveSnapshotBootIndicator(c)
    PROVE  FileInv'
<1>1. /\ Calm /\ call[c].pc = "RemoveAllSnapshots" /\ lock = c
      /\ call[c].todo = {}
  BY Zenon, InvFacts DEF RemoveSnapshotBootIndicator, Calm, ReadUpdateState, At, LockedLabels
<1>2. NoLeakedSnapshot'
  BY <1>1, SameFiles DEF FileInv, Calm
<1>3. CASE RemoveReturns(c, FALSE)
  BY Zenon, <1>1, <1>2, <1>3, RemoveReturnsFiles DEF Calm
<1>4. CASE "failed" \notin call[c].seen /\ Goto(c, "WriteNone") /\ Holds
  <2>1. call'[c].pc = "WriteNone"
    BY Zenon, <1>4, InvFacts DEF Goto, Calls
  <2>2. \A p \in Partitions : status'[p] = "absent"
    BY Zenon, <1>1, <1>4, InvFacts DEF FilesOK, Removing, Calm
  <2>3. FilesOK(call'[c], status', cow')
    BY Zenon, <2>1, <2>2 DEF FilesOK, Looping, Removing, Deleting
  <2> QED BY Zenon, <1>1, <1>4, <2>3, HeldCalm DEF Holds
<1> QED BY Zenon, <1>3, <1>4 DEF RemoveSnapshotBootIndicator

LEMMA WriteNoneFiles ==
    ASSUME Inv, FileInv, Inv', NEW c \in Callers, WriteNone(c)
    PROVE  FileInv'
<1>1. /\ UNCHANGED <<status, cow>> /\ call[c].pc = "WriteNone" /\ lock = c
      /\ RemoveReturns(c, TRUE)
  BY Zenon, InvFacts DEF WriteNone, At, LockedLabels
<1>2. ListSnapshots' = {}
  BY Zenon, <1>1, InvFacts DEF FilesOK, ListSnapshots
<1>3. NoLeakedSnapshot'
  BY Zenon, <1>1, <1>2 DEF FileInv, NoLeakedSnapshot
<1> QED BY Zenon, <1>1, <1>3, RemoveReturnsFiles

LEMMA DeleteBackingImageFiles ==
    ASSUME Inv, FileInv, Inv', NEW c \in Callers, DeleteBackingImage(c)
    PROVE  FileInv'
<1>1. /\ call[c].pc = "DeleteBackingImage" /\ lock' = c /\ status' = status
      /\ state' = state
  BY Zenon, InvFacts DEF DeleteBackingImage, At, LockedLabels, Deleting
<1>2. call[c].cur \in Partitions
  BY Zenon, <1>1, InvFacts DEF HolderOK, Deleting
<1>3. CASE Goto(c, "RemoveStatusFile") /\ cow' = [cow EXCEPT ![call[c].cur] = "absent"]
  <2>1. /\ call'[c].pc = "RemoveStatusFile" /\ call'[c].cur = call[c].cur
        /\ call'[c].todo = call[c].todo /\ call'[c].seen = call[c].seen
        /\ call'[c].deleter = call[c].deleter
    BY Zenon, <1>3, InvFacts DEF Goto, Calls
  <2>2. cow'[call[c].cur] = "absent"
    BY Zenon, <1>2, <1>3, InvFacts
  <2>3. FilesOK(call'[c], status', cow')
    BY Zenon, <1>1, <2>1, <2>2, InvFacts DEF FilesOK, Looping, Removing, Deleting
  <2>4. NoLeakedSnapshot'
    BY Zenon, <1>1, <1>2, <1>3, InvFacts DEF NoLeakedSnapshot, ListSnapshots, ReadUpdateState
  <2> QED BY Zenon, <1>1, <2>3, <2>4, HeldFileInv
<1>4. CASE UNCHANGED cow /\ Deleted(c, FALSE)
  <2>1. FilesOK(call'[c], status', cow')
    BY Zenon, <1>1, <1>4, DeletedFiles DEF Deleting
  <2>2. Calm
    BY Zenon, <1>1, <1>4 DEF Calm, ReadUpdateState
  <2> QED BY Zenon, <1>1, <2>1, <2>2, HeldCalm
<1> QED BY Zenon, <1>3, <1>4 DEF DeleteBackingImage

LEMMA RemoveStatusFileFiles ==
    ASSUME Inv, FileInv, Inv', NEW c \in Callers, RemoveStatusFile(c)
    PROVE  FileInv'
<1>1. /\ call[c].pc = "RemoveStatusFile" /\ lock' = c /\ cow' = cow /\ state' = state
  BY Zenon, InvFacts DEF RemoveStatusFile, At, LockedLabels, Deleting
<1>2. call[c].cur \in Partitions /\ cow[call[c].cur] = "absent"
  BY Zenon, <1>1, InvFacts DEF HolderOK, FilesOK, Deleting
<1>3. CASE status' = [status EXCEPT ![call[c].cur] = "absent"] /\ Deleted(c, TRUE)
  <2>1. FilesOK(call'[c], status', cow')
    BY Zenon, <1>1, <1>3, DeletedFiles DEF Deleting
  <2>2. NoLeakedSnapshot'
    BY Zenon, <1>1, <1>2, <1>3, InvFacts DEF NoLeakedSnapshot, ListSnapshots, ReadUpdateState
  <2> QED BY Zenon, <1>1, <2>1, <2>2, HeldFileInv
<1>4. CASE UNCHANGED status /\ Deleted(c, FALSE)
  <2>1. FilesOK(call'[c], status', cow')
    BY Zenon, <1>1, <1>4, DeletedFiles DEF Deleting
  <2>2. Calm
    BY Zenon, <1>1, <1>4 DEF Calm, ReadUpdateState
  <2> QED BY Zenon, <1>1, <2>1, <2>2, HeldCalm
<1> QED BY Zenon, <1>3, <1>4 DEF RemoveStatusFile

(* The polling of a merge writes the status of snapshots that exist. *)
LEMMA CheckTargetMergeStateFiles ==
    ASSUME Inv, FileInv, Inv', NEW c \in Callers, NEW p \in Partitions,
           CheckTargetMergeState(c, p)
    PROVE  FileInv'
<1>1. /\ call[c].pc = "CheckTargetMergeState" /\ lock' = c /\ cow' = cow
      /\ state' = state
  BY Zenon, InvFacts DEF CheckTargetMergeState, At, LockedLabels
<1>2. state \in MergeStates
  BY Zenon, <1>1, InvFacts DEF HolderOK, Polling
<1>3. status' = status \/ status' = [status EXCEPT ![p] = "merge-completed"]
  BY DEF CheckTargetMergeState, WriteSnapshotStatus
<1>4. NoLeakedSnapshot'
  BY Zenon, <1>1, <1>2, <1>3, InvFacts DEF NoLeakedSnapshot, ReadUpdateState, MergeStates
<1>5. \/ \E flags : Polled(c, p, flags)
      \/ \E d \in {"Cancelled", "MergedBefore"} : DeleteSnapshot(c, p, d)
      \/ Become(c, [call[c] EXCEPT !.pc = "OnSnapshotMergeComplete", !.cur = p])
  BY DEF CheckTargetMergeState
<1>6. FilesOK(call'[c], status', cow')
  <2>1. CASE \E flags : Polled(c, p, flags)
    BY Zenon, <2>1, PolledFiles
  <2>2. ASSUME NEW d \in {"Cancelled", "MergedBefore"}, DeleteSnapshot(c, p, d)
        PROVE  FilesOK(call'[c], status', cow')
    <3>1. call'[c].pc = "DeleteBackingImage" /\ call'[c].deleter = d
      BY Zenon, <2>2, InvFacts DEF DeleteSnapshot, Become, Calls
    <3> QED BY Zenon, <2>2, <3>1, OtherFiles
  <2>3. CASE Become(c, [call[c] EXCEPT !.pc = "OnSnapshotMergeComplete", !.cur = p])
    <3>1. call'[c].pc = "OnSnapshotMergeComplete"
      BY Zenon, <2>3, InvFacts DEF Become, Calls
    <3> QED BY Zenon, <3>1, OtherFiles
  <2> QED BY Zenon, <1>5, <2>1, <2>2, <2>3
<1> QED BY Zenon, <1>1, <1>4, <1>6, HeldFileInv

LEMMA OnSnapshotMergeCompleteFiles ==
    ASSUME Inv, FileInv, Inv', NEW c \in Callers, OnSnapshotMergeComplete(c)
    PROVE  FileInv'
<1>1. /\ Calm /\ call[c].pc = "OnSnapshotMergeComplete" /\ lock' = c
  BY Zenon, InvFacts DEF OnSnapshotMergeComplete, At, LockedLabels, disk, Calm, ReadUpdateState
<1>2. call[c].cur \in Partitions
  BY Zenon, <1>1, InvFacts DEF HolderOK
<1>3. \/ Polled(c, call[c].cur, {"needs_reboot"})
      \/ DeleteSnapshot(c, call[c].cur, "Collapsed")
  BY Zenon DEF OnSnapshotMergeComplete
<1>4. FilesOK(call'[c], status', cow')
  BY Zenon, <1>1, <1>2, <1>3, PolledFiles, DeleteFiles DEF Calm
<1> QED BY Zenon, <1>1, <1>4, HeldCalm

LEMMA MergeDecisionFiles ==
    ASSUME Inv, FileInv, Inv', NEW c \in Callers, MergeDecision(c)
    PROVE  FileInv'
<1>1. Calm
  BY Zenon DEF MergeDecision, Calm, ReadUpdateState
<1>2. CASE Unlock
  BY Zenon, <1>1, <1>2, FreeCalm DEF Unlock
<1>3. CASE RemoveAllUpdateState(c, "CheckMergeState") /\ Holds
  <2>1. lock' = c
    BY Zenon, <1>3, InvFacts DEF MergeDecision, At, LockedLabels, Holds
  <2> QED BY Zenon, <1>1, <1>3, <2>1, RemoveAllFiles, HeldCalm DEF Calm
<1> QED BY Zenon, <1>2, <1>3 DEF MergeDecision

(* The steps after which the lock is free. *)
LEMMA FreeingFiles ==
    ASSUME Inv, FileInv, Inv', NEW c \in Callers,
           \/ AcknowledgeMergeFailure(c) \/ WriteInitiated(c) \/ MergeInitiated(c)
           \/ WriteUnverified(c) \/ MergeCmdHandler(c)
    PROVE  FileInv'
<1>1. Calm
  BY Zenon DEF AcknowledgeMergeFailure, WriteInitiated, MergeInitiated, WriteUnverified,
     MergeCmdHandler, disk, Calm, ReadUpdateState
<1>2. lock' = NoCaller
  BY Zenon DEF AcknowledgeMergeFailure, WriteInitiated, MergeInitiated, WriteUnverified,
     MergeCmdHandler, LockedBriefly, Unlock
<1> QED BY Zenon, <1>1, <1>2, FreeCalm

LEMMA SwitchFiles ==
    ASSUME Inv, FileInv, Inv', NEW c \in Callers,
           \/ WriteMerging(c) \/ WriteIndicator(c)
           \/ \E p \in Partitions : SwitchSnapshotToMerge(c, p)
    PROVE  FileInv'
<1>1. lock' = c
  BY Zenon, InvFacts DEF WriteMerging, WriteIndicator, SwitchSnapshotToMerge, At, LockedLabels
<1>2. call'[c].pc \in {"SwitchSnapshotToMerge", "WriteUnverified"}
  <2>1. CASE WriteMerging(c)
    BY Zenon, <2>1, InvFacts DEF WriteMerging, Become, Calls
  <2>2. CASE WriteIndicator(c)
    BY Zenon, <2>2, InvFacts DEF WriteIndicator, Goto, Calls
  <2>3. ASSUME NEW p \in Partitions, SwitchSnapshotToMerge(c, p)
        PROVE  call'[c].pc = "SwitchSnapshotToMerge"
    BY ZenonT(30), <2>3, InvFacts DEF SwitchSnapshotToMerge, At, Become, Calls
  <2> QED BY Zenon, <2>1, <2>2, <2>3
<1>3. FilesOK(call'[c], status', cow')
  BY <1>2, OtherFiles
<1>4. NoLeakedSnapshot'
  <2>1. CASE WriteMerging(c) \/ WriteIndicator(c)
    BY Zenon, <2>1, SameFiles, InvFacts DEF WriteMerging, WriteIndicator, ReadUpdateState
  <2>2. ASSUME NEW p \in Partitions, SwitchSnapshotToMerge(c, p)
        PROVE  NoLeakedSnapshot'
    <3>1. state = "merging" /\ state' = state /\ cow' = cow
      BY Zenon, <2>2, InvFacts DEF SwitchSnapshotToMerge, At, HolderOK
    <3>2. status' = status \/ status' = [status EXCEPT ![p] = "merging"]
      BY Zenon, <2>2 DEF SwitchSnapshotToMerge, WriteSnapshotStatus
    <3> QED BY Zenon, <2>2, <3>1, <3>2, InvFacts DEF NoLeakedSnapshot, ReadUpdateState
  <2> QED BY <2>1, <2>2
<1> QED BY Zenon, <1>1, <1>3, <1>4, HeldFileInv

LEMMA FinishedSnapshotWritesFiles ==
    ASSUME Inv, FileInv, Inv', NEW c \in Callers, FinishedSnapshotWrites(c)
    PROVE  FileInv'
<1>1. Calm
  BY Zenon DEF FinishedSnapshotWrites, disk, Calm, ReadUpdateState
<1>2. CASE LockedBriefly
  BY Zenon, <1>1, <1>2, FreeCalm DEF LockedBriefly
<1>3. CASE Locked(c) /\ Start(c, "FinishedSnapshotWrites", "WriteIndicator")
  <2>1. call'[c].pc = "WriteIndicator"
    BY Zenon, <1>3, InvFacts DEF Start, Become, Idle
  <2> QED BY Zenon, <1>1, <1>3, <2>1, OtherFiles, HeldCalm DEF Locked
<1> QED BY Zenon, <1>2, <1>3 DEF FinishedSnapshotWrites

(* CreateUpdateSnapshots: the status file first, then the COW. *)
LEMMA ForEachPartitionFiles ==
    ASSUME Inv, FileInv, Inv', NEW c \in Callers,
           \/ CreateUpdateSnapshots(c) \/ ZeroFillCows(c)
           \/ \E p \in Partitions : DeleteExistingSnapshot(c, p)
    PROVE  FileInv'
<1>1. Calm /\ lock' = c
  BY Zenon, InvFacts DEF CreateUpdateSnapshots, ZeroFillCows, DeleteExistingSnapshot, disk, Calm,
     ReadUpdateState, At, LockedLabels, Locked
<1>2. CASE CreateUpdateSnapshots(c)
  <2>1. call'[c].pc = "ForEachPartition" /\ call'[c].todo = Partitions
    BY Zenon, <1>2, InvFacts DEF CreateUpdateSnapshots, Become, Idle
  <2>2. FilesOK(call'[c], status', cow')
    BY Zenon, <2>1 DEF FilesOK, Looping, Removing, Deleting
  <2> QED BY Zenon, <1>1, <2>2, HeldCalm
<1>3. CASE ZeroFillCows(c)
  <2>1. call'[c].pc = "InitializeCow"
    BY Zenon, <1>3, InvFacts DEF ZeroFillCows, Become, Calls
  <2>2. \A p \in Partitions : status'[p] # "absent"
    BY Zenon, <1>1, <1>3, InvFacts DEF ZeroFillCows, At, Calm, FilesOK, Looping
  <2>3. FilesOK(call'[c], status', cow')
    BY Zenon, <2>1, <2>2 DEF FilesOK, Looping, Removing, Deleting
  <2> QED BY Zenon, <1>1, <2>3, HeldCalm
<1>4. ASSUME NEW p \in Partitions, DeleteExistingSnapshot(c, p)
      PROVE  FileInv'
  <2>1. FilesOK(call'[c], status', cow')
    BY Zenon, <1>1, <1>4, DeleteFiles DEF DeleteExistingSnapshot, At, Calm
  <2> QED BY Zenon, <1>1, <2>1, HeldCalm
<1> QED BY Zenon, <1>2, <1>3, <1>4

LEMMA CreateSnapshotFiles ==
    ASSUME Inv, FileInv, Inv', NEW c \in Callers, CreateSnapshot(c)
    PROVE  FileInv'
<1>1. /\ call[c].pc = "CreateSnapshot" /\ lock' = c /\ cow' = cow /\ state' = state
  BY Zenon, InvFacts DEF CreateSnapshot, At, LockedLabels
<1>2. call[c].cur \in Partitions /\ state = "initiated"
  BY Zenon, <1>1, InvFacts DEF HolderOK, Creating, Looping
<1>3. /\ call[c].cur \in call[c].todo
      /\ \A p \in Partitions \ call[c].todo : status[p] # "absent"
  BY ZenonT(30), <1>1, InvFacts DEF FilesOK, Looping
<1>4. CASE Goto(c, "CreateCowImage") /\ status' = [status EXCEPT ![call[c].cur] = "created"]
  <2>1. /\ call'[c].pc = "CreateCowImage" /\ call'[c].cur = call[c].cur
        /\ call'[c].todo = call[c].todo
    BY Zenon, <1>4, InvFacts DEF Goto, Calls
  <2>2. /\ status'[call[c].cur] # "absent"
        /\ \A p \in Partitions \ call[c].todo : status'[p] # "absent"
    BY Zenon, <1>2, <1>3, <1>4, InvFacts
  <2>3. FilesOK(call'[c], status', cow')
    BY ZenonT(30), <1>3, <2>1, <2>2 DEF FilesOK, Looping, Removing, Deleting
  <2>4. NoLeakedSnapshot'
    BY Zenon, <1>1, <1>2, <1>4, InvFacts DEF NoLeakedSnapshot, ReadUpdateState
  <2> QED BY Zenon, <1>1, <2>3, <2>4, HeldFileInv
<1>5. CASE Unwind(c, Partitions \ call[c].todo) /\ UNCHANGED status
  <2>1. FilesOK(call'[c], status', cow')
    BY Zenon, <1>5, UnwindFiles
  <2> QED BY Zenon, <1>1, <1>5, <2>1, HeldCalm DEF Calm, ReadUpdateState
<1> QED BY Zenon, <1>4, <1>5 DEF CreateSnapshot, WriteSnapshotStatus

LEMMA CreateCowImageFiles ==
    ASSUME Inv, FileInv, Inv', NEW c \in Callers, CreateCowImage(c)
    PROVE  FileInv'
<1>1. /\ call[c].pc = "CreateCowImage" /\ lock' = c /\ status' = status
      /\ state' = state
  BY Zenon, InvFacts DEF CreateCowImage, At, LockedLabels
<1>2. call[c].cur \in Partitions /\ status[call[c].cur] # "absent"
  BY Zenon, <1>1, InvFacts DEF HolderOK, FilesOK
<1>3. \A p \in Partitions \ call[c].todo : status[p] # "absent"
  BY Zenon, <1>1, InvFacts DEF FilesOK, Looping
<1>4. CASE /\ cow' = [cow EXCEPT ![call[c].cur] = "raw"]
           /\ Become(c, [call[c] EXCEPT !.pc = "ForEachPartition",
                            !.todo = @ \ {call[c].cur}, !.cur = NoPartition])
  <2>1. /\ call'[c].pc = "ForEachPartition"
        /\ call'[c].todo = call[c].todo \ {call[c].cur}
    BY Zenon, <1>4, InvFacts DEF Become, Calls
  <2>2. FilesOK(call'[c], status', cow')
    BY Zenon, <1>1, <1>2, <1>3, <2>1 DEF FilesOK, Looping, Removing, Deleting
  <2>3. NoLeakedSnapshot'
    BY Zenon, <1>1, <1>2, <1>4, InvFacts DEF NoLeakedSnapshot, ListSnapshots, ReadUpdateState
  <2> QED BY Zenon, <1>1, <2>2, <2>3, HeldFileInv
<1>5. CASE /\ UNCHANGED cow
           /\ Unwind(c, (Partitions \ call[c].todo) \cup {call[c].cur})
  <2>1. FilesOK(call'[c], status', cow')
    BY Zenon, <1>5, UnwindFiles
  <2> QED BY Zenon, <1>1, <1>5, <2>1, HeldCalm DEF Calm, ReadUpdateState
<1> QED BY Zenon, <1>4, <1>5 DEF CreateCowImage

LEMMA InitializeCowFiles ==
    ASSUME Inv, FileInv, Inv', NEW c \in Callers, NEW p \in Partitions,
           InitializeCow(c, p)
    PROVE  FileInv'
<1>1. /\ call[c].pc = "InitializeCow" /\ lock' = c /\ status' = status
      /\ state' = state
  BY Zenon, InvFacts DEF InitializeCow, At, LockedLabels
<1>2. \A q \in Partitions : status[q] # "absent"
  BY Zenon, <1>1, InvFacts DEF FilesOK
<1>3. FilesOK(call'[c], status', cow')
  <2>1. CASE Become(c, [call[c] EXCEPT !.todo = @ \ {p}])
    <3>1. call'[c].pc = "InitializeCow"
      BY Zenon, <1>1, <2>1, InvFacts DEF Become, Calls
    <3> QED BY Zenon, <1>1, <1>2, <3>1 DEF FilesOK, Looping, Removing, Deleting
  <2>2. CASE Unwind(c, Partitions)
    BY Zenon, <2>2, UnwindFiles
  <2> QED BY Zenon, <2>1, <2>2 DEF InitializeCow
<1>4. NoLeakedSnapshot'
  BY ZenonT(30), <1>1, <1>2, InvFacts DEF NoLeakedSnapshot, ListSnapshots, ReadUpdateState
<1> QED BY Zenon, <1>1, <1>3, <1>4, HeldFileInv

LEMMA UpdatePartitionTableFiles ==
    ASSUME Inv, FileInv, Inv', NEW c \in Callers,
           UpdatePartitionTable(c) \/ AutoDeleteSnapshot(c)
    PROVE  FileInv'
<1>1. Calm /\ lock = c
  BY Zenon, InvFacts DEF UpdatePartitionTable, AutoDeleteSnapshot, disk, Calm, ReadUpdateState,
     At, LockedLabels
<1>2. CASE Unlock
  BY Zenon, <1>1, <1>2, FreeCalm DEF Unlock
<1>3. CASE Unwind(c, Partitions) /\ Holds
  BY Zenon, <1>1, <1>3, UnwindFiles, HeldCalm DEF Holds
<1>4. ASSUME NEW p \in call[c].todo, DeleteSnapshot(c, p, "AutoDeleteSnapshot"), Holds
      PROVE  FileInv'
  <2>1. p \in Partitions
    BY Zenon, <1>4, InvFacts
  <2> QED BY Zenon, <1>1, <1>4, <2>1, DeleteFiles, HeldCalm DEF Calm, Holds
<1> QED BY Zenon, <1>2, <1>3, <1>4 DEF UpdatePartitionTable, AutoDeleteSnapshot

(* The rest of the system does not disturb the lock holder's files. *)
LEMMA OthersFiles ==
    ASSUME Inv, FileInv, NEW c \in Callers, NEW r, call' = [call EXCEPT ![c] = r],
           r.pc \notin LockedLabels, Calm
    PROVE  FileInv'
<1>1. ASSUME NEW d \in Callers
      PROVE  FilesOK(call'[d], status', cow')
  <2>1. call'[d] = IF d = c THEN r ELSE call[d]
    BY ZenonT(30), InvFacts
  <2> QED BY Zenon, <2>1, InvFacts, UnlockedFiles DEF Calm
<1>2. \A d \in Callers : FilesOK(call[d], status, cow)'
  BY Zenon, <1>1 DEF FilesOK, Looping, Removing
<1>3. NoLeakedSnapshot'
  BY SameFiles DEF FileInv, Calm
<1> QED BY Zenon, <1>2, <1>3 DEF FileInv

LEMMA SameCallsFiles ==
    ASSUME FileInv, call' = call, Calm
    PROVE  FileInv'
<1>1. \A d \in Callers : FilesOK(call[d], status, cow)'
  BY Zenon DEF FileInv, Calm, FilesOK, Looping, Removing
<1>2. NoLeakedSnapshot'
  BY Zenon, SameFiles DEF FileInv, Calm
<1> QED BY ZenonT(30), <1>1, <1>2 DEF FileInv

LEMMA BeginCancelDieFiles ==
    ASSUME Inv, FileInv, NEW c \in Callers,
           BeginUpdate(c) \/ CancelUpdate(c) \/ CallerDies(c)
    PROVE  FileInv'
<1>1. Calm
  BY Zenon DEF BeginUpdate, CancelUpdate, CallerDies, disk, Calm, ReadUpdateState
<1>2. PICK r : call' = [call EXCEPT ![c] = r] /\ r.pc \in {"TryCancelUpdate", "idle"}
  <2>1. ASSUME NEW op, Start(c, op, "TryCancelUpdate")
        PROVE  \E r : call' = [call EXCEPT ![c] = r] /\ r.pc = "TryCancelUpdate"
    <3> DEFINE r == [Idle EXCEPT !.op = op, !.pc = "TryCancelUpdate"]
    <3>1. call' = [call EXCEPT ![c] = r]
      BY <2>1 DEF Start, Become
    <3>2. r.pc = "TryCancelUpdate"
      BY Zenon DEF Idle
    <3> HIDE DEF r
    <3> QED BY Zenon, <3>1, <3>2
  <2>2. ASSUME Become(c, Idle)
        PROVE  call' = [call EXCEPT ![c] = Idle] /\ Idle.pc = "idle"
    BY Zenon, <2>2 DEF Become, Idle
  <2> QED BY Zenon, <2>1, <2>2 DEF BeginUpdate, CancelUpdate, CallerDies
<1> QED BY Zenon, <1>1, <1>2, OthersFiles DEF LockedLabels, Deleting

LEMMA WriteUpdateFiles ==
    ASSUME Inv, FileInv, NEW p \in Partitions, WriteUpdate(p)
    PROVE  FileInv'
<1>1. /\ cow' = [cow EXCEPT ![p] = "full"] /\ cow[p] = "zeroed" /\ status' = status
      /\ call' = call /\ state' = state
  BY Zenon DEF WriteUpdate
<1>2. ASSUME NEW c \in Callers
      PROVE  FilesOK(call[c], status', cow')
  <2>1. FilesOK(call[c], status, cow)
    BY Zenon, InvFacts
  <2>2. call[c].pc = "RemoveStatusFile" => cow'[call[c].cur] = "absent"
    BY ZenonT(30), <1>1, <1>2, <2>1, InvFacts DEF FilesOK, HolderOK, Deleting
  <2> QED BY Zenon, <1>1, <2>1, <2>2 DEF FilesOK
<1>3. \A c \in Callers : FilesOK(call[c], status, cow)'
  BY Zenon, <1>1, <1>2 DEF FilesOK, Looping, Removing
<1>4. Engine \in Callers
  BY Zenon, SnapshotAssumption
<1>5. NoLeakedSnapshot'
  BY Zenon, <1>1, <1>4, InvFacts DEF NoLeakedSnapshot, ListSnapshots, ReadUpdateState
<1> QED BY Zenon, <1>3, <1>5 DEF FileInv

LEMMA RestFiles ==
    ASSUME Inv, FileInv, Inv',
           \/ SetActiveBootSlot \/ Boot \/ MarkBootSuccessful
           \/ \E p \in Partitions : \/ MapUpdateSnapshot(p) \/ UnmapUpdateSnapshot(p)
                                    \/ MergeBlocks(p) \/ FlashHandler(p)
           \/ \E s \in Slots : SetActive(s)
    PROVE  FileInv'
<1>1. Calm /\ call' = call
  BY Zenon DEF SetActiveBootSlot, Boot, MarkBootSuccessful, MapUpdateSnapshot,
     UnmapUpdateSnapshot, MergeBlocks, FlashHandler, SetActive, disk, Calm, ReadUpdateState
<1> QED BY Zenon, <1>1, SameCallsFiles

LEMMA ShutdownFiles ==
    ASSUME FileInv, Inv', Reboot \/ PowerLoss
    PROVE  FileInv'
<1>1. Calm /\ lock' = NoCaller
  BY Zenon DEF Reboot, PowerLoss, Shutdown, disk, Calm, ReadUpdateState
<1> QED BY Zenon, <1>1, FreeCalm

LEMMA FileStep ==
    ASSUME ~TornWrites, Inv, FileInv, Inv', Next
    PROVE  FileInv'
<1>1. ASSUME NEW c \in Callers, Step(c)
      PROVE  FileInv'
  <2>1. CASE \/ TryCancelUpdate(c) \/ CheckMergeState(c) \/ InitiateMerge(c)
             \/ RemoveSnapshotBootIndicator(c) \/ WriteNone(c) \/ DeleteBackingImage(c)
             \/ RemoveStatusFile(c) \/ OnSnapshotMergeComplete(c) \/ MergeDecision(c)
    BY Zenon, <2>1, LockingFiles, RemoveSnapshotBootIndicatorFiles, WriteNoneFiles,
       DeleteBackingImageFiles, RemoveStatusFileFiles, OnSnapshotMergeCompleteFiles,
       MergeDecisionFiles
  <2>2. CASE \/ AcknowledgeMergeFailure(c) \/ WriteInitiated(c) \/ MergeInitiated(c)
             \/ WriteUnverified(c) \/ WriteMerging(c) \/ WriteIndicator(c)
             \/ CreateSnapshot(c) \/ CreateCowImage(c) \/ ZeroFillCows(c)
             \/ UpdatePartitionTable(c) \/ AutoDeleteSnapshot(c)
    BY Zenon, <2>2, FreeingFiles, SwitchFiles, CreateSnapshotFiles, CreateCowImageFiles,
       ForEachPartitionFiles, UpdatePartitionTableFiles
  <2>3. CASE \E p \in Partitions :
                \/ RemoveSnapshot(c, p) \/ CheckTargetMergeState(c, p)
                \/ SwitchSnapshotToMerge(c, p) \/ DeleteExistingSnapshot(c, p)
                \/ InitializeCow(c, p)
    BY Zenon, <2>3, RemoveSnapshotFiles, CheckTargetMergeStateFiles, SwitchFiles,
       ForEachPartitionFiles, InitializeCowFiles
  <2> QED BY Zenon, <1>1, <2>1, <2>2, <2>3 DEF Step
<1>2. ASSUME NEW c \in Callers, Request(c)
      PROVE  FileInv'
  BY Zenon, <1>2, BeginCancelDieFiles, ForEachPartitionFiles, FinishedSnapshotWritesFiles,
     FreeingFiles DEF Request
<1>3. CASE EngineWork
  BY Zenon, <1>3, RestFiles, WriteUpdateFiles DEF EngineWork
<1>4. CASE Environment
  <2>1. \A c \in Callers : ~PowerLossInWrite(c)
    BY Zenon DEF PowerLossInWrite
  <2> QED BY Zenon, <1>4, <2>1, RestFiles, ShutdownFiles, BeginCancelDieFiles DEF Environment
<1> QED BY Zenon, <1>1, <1>2, <1>3, <1>4 DEF Next

(***************************************************************************)
(* Whatever fails or crashes in CreateUpdateSnapshots, DeleteSnapshot and  *)
(* RemoveAllUpdateState, every COW has its status file, and none is left   *)
(* once the state is none: the status file is created before the COW and   *)
(* removed after it, and none is written only when every deletion of the   *)
(* loop before it went well.  A torn write, which reads as none while the  *)
(* snapshots are still there, is excluded.                                 *)
(***************************************************************************)
THEOREM NoSnapshotLeaked == ~TornWrites /\ Spec => []NoLeakedSnapshot
<1> SUFFICES ASSUME ~TornWrites PROVE Spec => []NoLeakedSnapshot
  BY Zenon
<1>1. Init => FileInv
  <2> SUFFICES ASSUME Init PROVE FileInv
    OBVIOUS
  <2>1. ASSUME NEW c \in Callers PROVE FilesOK(call[c], status, cow)
    BY Zenon, IdleOK, UnlockedFiles DEF Init
  <2>2. NoLeakedSnapshot
    BY Zenon DEF Init, NoLeakedSnapshot, ListSnapshots
  <2> QED BY Zenon, <2>1, <2>2 DEF FileInv
<1>2. Inv /\ Inv' /\ FileInv /\ [Next]_vars => FileInv'
  <2> SUFFICES ASSUME Inv, Inv', FileInv, [Next]_vars PROVE FileInv'
    OBVIOUS
  <2>1. CASE UNCHANGED vars
    BY Zenon, <2>1, SameCallsFiles DEF vars, Calm, ReadUpdateState
  <2> QED BY Zenon, <2>1, FileStep
<1>3. FileInv => NoLeakedSnapshot
  BY DEF FileInv
<1> QED BY <1>1, <1>2, <1>3, Invariance, PTL DEF Spec
===============================================================================
