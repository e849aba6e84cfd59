--------------------------- MODULE DebuggerdProofs ----------------------------
(***************************************************************************)
(* Proofs about Debuggerd, for any threads, signals, crash_dumps and       *)
(* descriptors: each step preserves the invariants of DebuggerdInvariants, *)
(* and what follows for the program as a whole.                            *)
(***************************************************************************)
EXTENDS DebuggerdInvariants, TLAPS

-------------------------------------------------------------------------------
(***************************************************************************)
(* The steps of the threads, of the pseudothread and of any number of      *)
(* crash_dumps at once preserve the invariants about the threads and the   *)
(* pseudothread.                                                           *)
(***************************************************************************)

LEMMA NobodyIsNone == \A x \in Threads \cup Dumps : x # Nobody /\ x # OtherDebugger /\ x \in Nat
BY TargetAssumption DEF Nobody, OtherDebugger

\* The lowest of some numbers is one of them, and no other is below it.

\* The lowest of some numbers is one of them, and no other is below it.
LEMMA LowestIsLeast ==
  ASSUME WellOrdered, NEW S, S \subseteq Nat, S # {}
  PROVE  Lowest(S) \in S /\ \A y \in S : Lowest(S) <= y
BY Zenon DEF WellOrdered, Lowest

\* Two queues of the same signals in a row are one.
LEMMA ConcatIsSeq ==
  ASSUME NEW S, NEW a \in Seq(S), NEW b \in Seq(S)
  PROVE  a \o b \in Seq(S)
<1>1. DOMAIN (a \o b) = 1 .. Len(a) + Len(b) /\ Len(a \o b) = Len(a) + Len(b)
  OBVIOUS
<1>2. ASSUME NEW i \in 1 .. Len(a) + Len(b) PROVE (a \o b)[i] \in S
  <2>1. CASE i <= Len(a)
    BY <2>1
  <2>2. CASE i > Len(a)
    <3>1. i - Len(a) \in 1 .. Len(b)
      BY <2>2
    <3> QED
      BY <2>2, <3>1
  <2> QED
    BY <2>1, <2>2
<1> QED
  BY <1>1, <1>2

LEMMA NextSignalIsPending ==
  ASSUME NEW S, NEW t, pending[t] \in Seq(S), pending[t] # <<>>
  PROVE  NextSignal(t) \in S /\ Without(pending[t], NextIndex(t)) \in Seq(S)
<1> DEFINE q == pending[t]
           n == NextIndex(t)
<1>0. q \in Seq(S) /\ q # <<>> /\ Len(q) \in Nat /\ DOMAIN q = 1 .. Len(q)
  OBVIOUS
<1>1. n \in 1 .. Len(q)
  <2>1. CASE "crash" \in Range(q)
    BY Zenon, <1>0, <2>1 DEF NextIndex, Range
  <2>2. CASE "crash" \notin Range(q)
    BY <1>0, <2>2 DEF NextIndex
  <2> QED
    BY Zenon, <2>1, <2>2
<1>2. NextSignal(t) = q[n] /\ Without(q, n) = SubSeq(q, 1, n - 1) \o SubSeq(q, n + 1, Len(q))
  BY Zenon DEF NextSignal, Without
<1> HIDE DEF q, n
<1>3. \A i \in 1 .. Len(q) : q[i] \in S
  BY <1>0
<1>4. SubSeq(q, 1, n - 1) \in Seq(S) /\ SubSeq(q, n + 1, Len(q)) \in Seq(S)
  <2>2. \A i \in 1 .. n - 1 : q[i] \in S
    BY <1>0, <1>1, <1>3
  <2>3. \A i \in n + 1 .. Len(q) : q[i] \in S
    BY <1>0, <1>1, <1>3
  <2>4. 1 \in Int /\ n - 1 \in Int /\ n + 1 \in Int /\ Len(q) \in Int
    BY <1>0, <1>1
  <2>5. SubSeq(q, 1, n - 1) \in Seq(S)
    BY ONLY <2>2, <2>4
  <2>6. SubSeq(q, n + 1, Len(q)) \in Seq(S)
    BY ONLY <2>3, <2>4
  <2> QED
    BY Zenon, <2>5, <2>6
<1>5. NextSignal(t) \in S
  BY Zenon, <1>1, <1>2, <1>3
<1>6. Without(q, n) \in Seq(S)
  BY Zenon, <1>2, <1>4, ConcatIsSeq
<1> QED
  BY Zenon, <1>5, <1>6 DEF q, n

(* What groups of steps do to the threads.                                     *)

threadVars == <<process, pc, sig, pending, ptraceVars, crashed>>

\* A fallback step moves its own thread, from one place of the fallback handler
\* to another or out of it, and may send a request to a sibling.

FallbackMove(t) ==
  /\ Runs(t) /\ pc[t] \in FallbackPlaces
  /\ \E p \in FallbackPlaces \cup {"idle", "sigpipe", "resend"} :
       /\ pc' = [pc EXCEPT ![t] = p]
       /\ p \in OwnDump \cup {"resend"} => pc[t] \in OwnDump
  /\ sig' = sig \/ sig' = [sig EXCEPT ![t] = NoSignal]
  /\ \/ pending' = pending
     \/ \E s \in Threads : Live(s) /\ pending' = [pending EXCEPT ![s] = Append(@, "request")]
  /\ Keeping

LEMMA FallbackMoves ==
  ASSUME NEW t \in Threads, FallbackStep(t), pc \in [Threads -> Places],
         pending \in [Threads -> Seq(Around)]
  PROVE  FallbackMove(t)
<1> USE DEF FallbackMove, FallbackPlaces, Tracing, Holding, OwnDump, At, GoTo, Return
<1>1. CASE trace_handler(t)
  BY Zenon, <1>1 DEF trace_handler
<1>2. ASSUME NEW b \in {"trace_self", "answer_trace", "own_dump"},
             NEW d \in {"tracing_self", "answering", "dumping"},
             NEW a \in {"trace_siblings", "answer_close", "own_unlock"},
             <<b, d, a>> \in {<<"trace_self", "tracing_self", "trace_siblings">>,
                              <<"answer_trace", "answering", "answer_close">>,
                              <<"own_dump", "dumping", "own_unlock">>},
             EnableAllocator(t, b, d, a) \/ DisableAllocator(t, d, a)
      PROVE  FallbackMove(t)
  BY Zenon, <1>2 DEF EnableAllocator, DisableAllocator
<1>3. CASE Offer(t)
  <2>1. pc' = [pc EXCEPT ![t] = pc[t]] \/ pc' = [pc EXCEPT ![t] = "trace_signal"]
    BY Zenon, <1>3 DEF Offer
  <2> QED
    BY Zenon, <1>3, <2>1 DEF Offer
<1>4. CASE SignalSibling(t)
  <2>1. sibling \notin Threads => [pending EXCEPT ![sibling] = Append(@, "request")] = pending
    OBVIOUS
  <2> QED
    BY ZenonT(30), <1>4, <2>1 DEF SignalSibling
<1>5. CASE PollOutput(t)
  BY <1>5 DEF PollOutput
<1>6. CASE ForwardOutput(t)
  BY <1>6 DEF ForwardOutput
<1>7. CASE Exchange(t)
  <2>1. /\ At(t, "trace_exchange") /\ GoTo(t, "trace_siblings")
        /\ sig' = sig /\ pending' = pending /\ Keeping
    BY <1>7, Zenon DEF Exchange, Withdraw
  <2> QED
    BY <2>1
<1>8. CASE Traced(t)
  BY <1>8 DEF Traced
<1>9. CASE Load(t)
  BY <1>9 DEF Load
<1>10. CASE Take(t)
  BY <1>10 DEF Take, TakeIf
<1>11. CASE WriteTid(t)
  BY Zenon, <1>11 DEF WriteTid
<1>12. CASE CloseTaken(t)
  BY Zenon, <1>12 DEF CloseTaken
<1>13. CASE LockCrash(t)
  BY Zenon, <1>13 DEF LockCrash
<1>14. CASE UnlockCrash(t)
  BY Zenon, <1>14 DEF UnlockCrash
<1> HIDE DEF FallbackMove, FallbackPlaces, Tracing, Holding, OwnDump, At, GoTo, Return
<1> QED
  BY Zenon, <1>1, <1>2, <1>3, <1>4, <1>5, <1>6, <1>7, <1>8, <1>9, <1>10, <1>11, <1>12,
     <1>13, <1>14 DEF FallbackStep

\* A tracer that lets a thread go leaves it where it is, delivers or drops the
\* signal it was stopped on, or has it compare the futex word again.

Restarted(from, to) ==
  \/ to = from
  \/ from = "idle" /\ to = "handler"
  \/ from \in Mortal /\ to = "idle"
  \/ from = "futex_start" /\ to = "wait_start"
  \/ from = "futex_exit" /\ to = "wait_exit"

LEMMA ResumedMoves ==
  ASSUME ThreadInv, NEW t \in Threads, NEW passed
  PROVE  /\ Restarted(pc[t], Resumed(t, passed).pc)
         /\ Resumed(t, passed).pc \in Places
         /\ Resumed(t, passed).sig \in Around \cup {NoSignal}
<1>1. /\ pc[t] \in Places /\ sig[t] \in Around \cup {NoSignal}
      /\ stop[t] = "signal" => \/ stop_sig[t] \in Around /\ pc[t] = "idle"
                               \/ stop_sig[t] = "mortal" /\ pc[t] \in Mortal
      /\ "mortal" \notin Around
  BY DEF ThreadInv, Around, Signals, DebuggerSignals
<1> QED
  BY Zenon, <1>1 DEF Resumed, Restarted, Places, Waits, Mortal

(* ThreadInv is inductive.                                                     *)

LEMMA ThreadInvInit == Init => ThreadInv
<1> SUFFICES ASSUME Init PROVE ThreadInv
  OBVIOUS
<1>1. PICK D \in SUBSET Debugged :
        tracer = [t \in Threads |-> IF t \in D THEN OtherDebugger ELSE Nobody]
  BY DEF Init, TargetInit
<1>2. pending \in [Threads -> Seq(Around)]
  BY DEF Init, TargetInit
<1> QED
  BY Zenon, <1>1, <1>2 DEF Init, TargetInit, ThreadInv, Places

LEMMA AroundUnchanged ==
  ASSUME UNCHANGED crashed
  PROVE  Around' = Around
BY Zenon DEF Around

LEMMA ThreadInvFrame ==
  ASSUME ThreadInv, UNCHANGED threadVars
  PROVE  ThreadInv'
<1>1. Around' = Around
  BY Zenon, AroundUnchanged DEF threadVars
<1> QED
  BY <1>1 DEF ThreadInv, threadVars, ptraceVars

LEMMA ThreadInvGone ==
  ASSUME ThreadInv, NEW how \in {"signal", "sigpipe", "exit", "killed"},
         TargetGone(how), how = "signal" => crashed
  PROVE  ThreadInv'
<1>1. Around' = Around
  BY Zenon, AroundUnchanged DEF TargetGone
<1>2. pending' \in [Threads -> Seq(Around')]
  BY DEF TargetGone
<1> QED
  BY Zenon, <1>1, <1>2, NobodyIsNone DEF ThreadInv, TargetGone, Places

LEMMA ThreadInvDetach ==
  ASSUME ThreadInv, NEW T, NEW passed, Detach(T, passed),
         UNCHANGED <<process, pending, crashed>>
  PROVE  ThreadInv'
<1>1. Around' = Around
  BY Zenon, AroundUnchanged
<1>2. \A t \in Threads :
        /\ Restarted(pc[t], Resumed(t, passed).pc)
        /\ Resumed(t, passed).pc \in Places
        /\ Resumed(t, passed).sig \in Around \cup {NoSignal}
  BY ResumedMoves
<1>3. \A t \in Threads : Resumed(t, passed).pc = "dying" => crashed
  BY Zenon, <1>2 DEF ThreadInv, Restarted
<1> QED
  BY Zenon, <1>1, <1>2, <1>3, NobodyIsNone DEF ThreadInv, Detach

\* Thread t moves to p and takes or drops a signal; nothing else changes.

LEMMA ThreadInvMove ==
  ASSUME ThreadInv, NEW t \in Threads, stop[t] = "run", NEW p \in Places \ {"exited"},
         pc' = [pc EXCEPT ![t] = p], p = "dying" => crashed,
         NEW s \in Around \cup {NoSignal}, sig' = [sig EXCEPT ![t] = s],
         pending' \in [Threads -> Seq(Around)], UNCHANGED <<process, ptraceVars, crashed>>
  PROVE  ThreadInv'
<1>1. Around' = Around
  BY Zenon, AroundUnchanged
<1> QED
  BY Zenon, <1>1 DEF ThreadInv, ptraceVars

LEMMA ThreadInvOutside ==
  ASSUME ThreadInv, NEW t \in Threads, Outside(t)
  PROVE  ThreadInv'
<1>1. CASE \E s \in Signals : Send(t, s)
  <2> PICK s \in Signals : Send(t, s)
    BY Zenon, <1>1
  <2>1. Around \subseteq Around' /\ s \in Around' /\ crashed' \in BOOLEAN
    BY Zenon DEF Send, Around, Signals, DebuggerSignals, ThreadInv
  <2>2. pending' \in [Threads -> Seq(Around')]
    <3>1. \A u \in Threads : pending[u] \in Seq(Around')
      BY <2>1 DEF ThreadInv
    <3>2. Append(pending[t], s) \in Seq(Around')
      BY <2>1, <3>1
    <3> QED
      BY Zenon, <3>1, <3>2 DEF Send, ThreadInv
  <2>3. /\ UNCHANGED <<process, pc, sig, tracer, stop, stop_sig>>
        /\ crashed => crashed'
    BY DEF Send, ptraceVars, ThreadInv
  <2> QED
    BY Zenon, <2>1, <2>2, <2>3 DEF ThreadInv
<1>2. CASE ThreadExit(t)
  <2>1. Around' = Around
    BY Zenon, <1>2, AroundUnchanged DEF ThreadExit
  <2>2. pending' \in [Threads -> Seq(Around)]
    BY <1>2 DEF ThreadExit, ThreadInv
  <2> QED
    BY Zenon, <1>2, <2>1, <2>2, NobodyIsNone DEF ThreadExit, ThreadInv, At, Runs, GoTo, Places
<1> QED
  BY Zenon, <1>1, <1>2 DEF Outside

LEMMA ThreadInvSignalled ==
  ASSUME ThreadInv, NEW t \in Threads, Signalled(t)
  PROVE  ThreadInv'
<1>1. CASE Deliver(t)
  <2>1. Around' = Around
    BY Zenon, <1>1, AroundUnchanged DEF Deliver
  <2>2. NextSignal(t) \in Around
    BY Zenon, <1>1, NextSignalIsPending DEF Deliver, ThreadInv
  <2>3. pending' \in [Threads -> Seq(Around)]
    BY Zenon, <1>1, NextSignalIsPending DEF Deliver, ThreadInv
  <2>4. CASE tracer[t] \in Dumps
    <3>1. /\ pc[t] = "idle" /\ stop' = [stop EXCEPT ![t] = "signal"]
          /\ stop_sig' = [stop_sig EXCEPT ![t] = NextSignal(t)]
          /\ UNCHANGED <<process, pc, sig, tracer, crashed>>
      BY <1>1, <2>4, Zenon DEF Deliver, At
    <3> QED
      BY Zenon, <2>1, <2>2, <2>3, <2>4, <3>1 DEF ThreadInv
  <2>5. CASE tracer[t] \notin Dumps
    <3>1. /\ stop[t] = "run" /\ pc' = [pc EXCEPT ![t] = "handler"]
          /\ sig' = [sig EXCEPT ![t] = NextSignal(t)]
          /\ UNCHANGED <<process, ptraceVars, crashed>>
      BY <1>1, <2>5, Zenon DEF Deliver, At, Runs, GoTo, ptraceVars
    <3>2. "handler" \in Places \ {"exited"}
      BY Zenon DEF Places
    <3> QED
      BY Zenon, <2>2, <2>3, <3>1, <3>2, ThreadInvMove
  <2> QED
    BY Zenon, <2>4, <2>5
<1>2. CASE MortalStop(t)
  <2>1. Around' = Around
    BY Zenon, <1>2, AroundUnchanged DEF MortalStop
  <2> QED
    BY Zenon, <1>2, <2>1 DEF MortalStop, ThreadInv
<1> QED
  BY Zenon, <1>1, <1>2 DEF Signalled

LEMMA ThreadInvHandler ==
  ASSUME ThreadInv, NEW t \in Threads, HandlerStep(t)
  PROVE  ThreadInv'
<1>1. /\ pc[t] \in Places /\ sig[t] \in Around \cup {NoSignal}
      /\ sig = [sig EXCEPT ![t] = sig[t]]
      /\ pending \in [Threads -> Seq(Around)]
      /\ sig[t] = "crash" => crashed
  <2>1. "crash" \in Around => crashed
    BY DEF Around, DebuggerSignals
  <2> QED
    BY Zenon, <2>1 DEF ThreadInv, NoSignal
<1>2. ASSUME NEW p \in Places \ {"exited"}, At(t, pc[t]), GoTo(t, p), p = "dying" => crashed,
             UNCHANGED sig \/ sig' = [sig EXCEPT ![t] = NoSignal],
             UNCHANGED <<process, pending, ptraceVars, crashed>>
      PROVE  ThreadInv'
  <2>1. stop[t] = "run" /\ pc' = [pc EXCEPT ![t] = p]
    BY Zenon, <1>2 DEF At, Runs, GoTo
  <2> QED
    BY Zenon, <1>1, <1>2, <2>1, ThreadInvMove
<1>3. CASE debuggerd_signal_handler(t)
  <2>1. \E p \in {"answer", "lock", "trace", "own_lock"} : GoTo(t, p)
    BY Zenon, <1>3 DEF debuggerd_signal_handler
  <2> QED
    BY Zenon, <1>2, <1>3, <2>1 DEF debuggerd_signal_handler, At, Places, FallbackPlaces, OwnDump
<1>4. CASE resend_signal(t)
  BY Zenon, <1>1, <1>2, <1>4 DEF resend_signal, Resend, Return, At, Places, Mortal
<1>5. CASE LockAndSpawn(t)
  <2>1. CASE ProcessGone("exit")
    BY Zenon, <2>1, ThreadInvGone DEF ProcessGone
  <2> QED
    BY Zenon, <1>2, <1>5, <2>1 DEF LockAndSpawn, At, Places, Waits
<1>6. CASE WaitForStart(t) \/ WaitForExit(t)
  BY Zenon, <1>2, <1>6 DEF WaitForStart, WaitForExit, futex_wait, At, Places, Waits
<1>7. CASE Restore(t)
  BY Zenon, <1>1, <1>2, <1>7 DEF Restore, Leave, Return, At, Places, Mortal
<1>8. CASE Die(t)
  <2>1. pc[t] = "dying" => crashed
    BY DEF ThreadInv
  <2> QED
    BY Zenon, <1>8, <2>1, ThreadInvGone DEF Die, ProcessGone
<1> QED
  BY Zenon, <1>3, <1>4, <1>5, <1>6, <1>7, <1>8 DEF HandlerStep

LEMMA ThreadInvFallback ==
  ASSUME ThreadInv, NEW t \in Threads, FallbackStep(t)
  PROVE  ThreadInv'
<1>1. FallbackMove(t)
  BY Zenon, FallbackMoves DEF ThreadInv
<1>2. PICK p \in FallbackPlaces \cup {"idle", "sigpipe", "resend"} :
        pc' = [pc EXCEPT ![t] = p]
  BY Zenon, <1>1 DEF FallbackMove
<1>3. p \in Places \ {"exited"} /\ p # "dying"
  BY Zenon DEF Places, FallbackPlaces, Tracing, Holding, OwnDump, Mortal
<1>4. \E s \in Around \cup {NoSignal} : sig' = [sig EXCEPT ![t] = s]
  BY <1>1 DEF FallbackMove, ThreadInv
<1>5. pending' \in [Threads -> Seq(Around)]
  <2>1. "request" \in Around
    BY DEF Around, Signals, DebuggerSignals
  <2>2. pending \in [Threads -> Seq(Around)]
    BY DEF ThreadInv
  <2>3. \A s \in Threads : Append(pending[s], "request") \in Seq(Around)
    BY <2>1, <2>2
  <2> QED
    BY Zenon, <1>1, <2>2, <2>3 DEF FallbackMove
<1> QED
  BY Zenon, <1>1, <1>2, <1>3, <1>4, <1>5, ThreadInvMove DEF FallbackMove, Runs, Keeping

LEMMA ThreadInvPseudo ==
  ASSUME ThreadInv, PseudoInv, PseudoStep
  PROVE  ThreadInv'
<1>1. CASE UNCHANGED targetVars
  BY Zenon, <1>1, ThreadInvFrame DEF targetVars, threadVars, ptraceVars
<1>2. CASE ProcessGone("exit")
  BY Zenon, <1>2, ThreadInvGone DEF ProcessGone
<1>3. CASE PseudoExit
  <2>1. owner \in Threads /\ pc[owner] \in Waits
    BY Zenon, <1>3 DEF PseudoInv, PseudoExit, PseudoAt
  <2>2. PICK p \in Waits \cup {"restore"} : pc' = [pc EXCEPT ![owner] = p]
    BY Zenon, <1>3, <2>1 DEF PseudoExit, Waits
  <2>3. p \in Places \ {"exited"} /\ p # "dying" /\ p # "idle" /\ p \notin Mortal
    BY Zenon DEF Places, Waits, Mortal
  <2>4. stop[owner] # "signal"
    BY Zenon, <2>1 DEF ThreadInv, Waits, Mortal
  <2>5. Around' = Around /\ UNCHANGED <<process, sig, pending, tracer, stop, stop_sig, crashed>>
    BY Zenon, <1>3, AroundUnchanged DEF PseudoExit, ptraceVars
  <2> QED
    BY Zenon, <2>1, <2>2, <2>3, <2>4, <2>5 DEF ThreadInv
<1> QED
  BY Zenon, <1>1, <1>2, <1>3 DEF PseudoStep, PseudoStart, PseudoRead, CreateVmProcess,
     PseudoWaitFirst, PseudoWaitDump, Reap, PseudoWaitEnd

LEMMA ThreadInvDumper ==
  ASSUME WellOrdered, ThreadInv, DumpInv, NEW d \in Dumps, DumperStep(d)
  PROVE  ThreadInv'
<1>1. CASE UNCHANGED targetVars
  BY Zenon, <1>1, ThreadInvFrame DEF targetVars, threadVars, ptraceVars
<1>2. CASE Dies(d)
  BY Zenon, <1>2, ThreadInvDetach DEF Dies, TracerGone
<1>3. CASE SeizeThread(d)
  <2>1. UNCHANGED <<process, pc, sig, pending, stop, stop_sig, crashed>>
    BY <1>3 DEF SeizeThread
  <2>2. \/ tracer' = tracer
        \/ \E t \in Threads : Live(t) /\ tracer' = [tracer EXCEPT ![t] = d]
    <3>1. dump[d].todo \subseteq Nat /\ dump[d].todo \subseteq Threads
      BY Zenon, TargetAssumption DEF DumpInv, Dumpers
    <3>2. Lowest(dump[d].todo) \in Threads
      BY Zenon, <1>3, <3>1, LowestIsLeast DEF SeizeThread
    <3> QED
      BY Zenon, <1>3, <3>2 DEF SeizeThread
  <2>3. Around' = Around
    BY Zenon, <2>1, AroundUnchanged
  <2> QED
    BY Zenon, <2>1, <2>2, <2>3 DEF ThreadInv, Live
<1>4. CASE Interrupt(d)
  <2> DEFINE t == dump[d].cur
  <2>1. UNCHANGED <<process, pc, sig, pending, tracer, stop_sig, crashed>>
    BY Zenon, <1>4 DEF Interrupt, Collect
  <2>2. /\ t \in Threads /\ Live(t) => tracer[t] = d
        /\ stop' = stop \/ (Live(t) /\ stop' = [stop EXCEPT ![t] = "event"])
    <3>1. t \in Threads
      BY <1>4 DEF DumpInv, Interrupt, Collect, ChildAt
    <3>2. stop' = [stop EXCEPT ![t] = IF Live(t) /\ @ = "run" THEN "event" ELSE @]
      BY <1>4 DEF Interrupt, Collect
    <3> QED
      BY Zenon, <3>1, <3>2 DEF DumpInv, ThreadInv
  <2>3. Around' = Around
    BY Zenon, <2>1, AroundUnchanged
  <2> QED
    BY Zenon, <2>1, <2>2, <2>3 DEF ThreadInv
<1>5. CASE DetachThread(d)
  BY Zenon, <1>5, ThreadInvDetach DEF DetachThread, DetachNext
<1> QED
  BY Zenon, <1>1, <1>2, <1>3, <1>4, <1>5 DEF DumperStep, Fork, ParentExits, SeizePseudothread,
     WaitForIntermediate, WaitForVm, Dump

(* PseudoInv is inductive.                                                     *)

lockStepVars == <<no_new_privs, crash_mutex, pseudo, owner, word>>

LEMMA PseudoInvInit == Init => PseudoInv
BY DEF Init, TargetInit, DispatchInit, PseudoInv, Waits, OwnDump

LEMMA PseudoInvFrame ==
  ASSUME PseudoInv, UNCHANGED <<pc, lockStepVars>>
  PROVE  PseudoInv'
BY DEF PseudoInv, lockStepVars

LEMMA PseudoInvGone ==
  ASSUME NEW how, ProcessGone(how)
  PROVE  PseudoInv'
BY Zenon DEF ProcessGone, TargetGone, PseudoInv, Waits, OwnDump

\* A thread that is not in the part of the handler that crash_mutex protects
\* moves without entering it.

LEMMA PseudoInvMove ==
  ASSUME PseudoInv, ThreadInv, NEW t \in Threads, pc[t] \notin Waits, NEW p,
         pc' = [pc EXCEPT ![t] = p], p \notin Waits \cup {"restore", "dying"},
         p \in OwnDump \cup {"resend"} => no_new_privs \/ pc[t] \in OwnDump,
         UNCHANGED lockStepVars
  PROVE  PseudoInv'
<1>1. /\ crash_mutex \in Threads \cup {Nobody} /\ owner \in Threads \cup {Nobody}
      /\ pseudo' \in {"none", "start", "read", "clone", "wait_first", "wait_dump",
                      "wait_end", "exit"}
      /\ word' = CASE pseudo' = "none" -> "zero" [] pseudo' = "start" -> "unset" [] OTHER -> "tid"
  BY Zenon DEF PseudoInv, lockStepVars
<1>2. pseudo' # "none" => owner' \in Threads /\ crash_mutex' = owner' /\ pc'[owner'] \in Waits
  BY Zenon DEF PseudoInv, ThreadInv, lockStepVars
<1>3. ASSUME NEW u \in Threads
      PROVE  /\ pc'[u] \in Waits \cup {"restore"} => crash_mutex' = u
             /\ pc'[u] \in {"wait_exit", "futex_exit"} => word' # "unset"
             /\ ~no_new_privs' => pc'[u] \notin OwnDump \cup {"resend"}
             /\ pc'[u] = "dying" /\ ~no_new_privs' => crash_mutex' = u
  <2>1. CASE u = t
    BY Zenon, <2>1 DEF PseudoInv, ThreadInv, lockStepVars, Waits
  <2>2. CASE u # t
    BY Zenon, <2>2 DEF PseudoInv, ThreadInv, lockStepVars
  <2> QED
    BY Zenon, <2>1, <2>2
<1> QED
  BY Zenon, <1>1, <1>2, <1>3 DEF PseudoInv, lockStepVars

LEMMA PseudoInvDetach ==
  ASSUME PseudoInv, ThreadInv, NEW T, NEW passed, Detach(T, passed), UNCHANGED lockStepVars
  PROVE  PseudoInv'
<1>1. \A t \in Threads : Restarted(pc[t], pc'[t])
  BY Zenon, ResumedMoves DEF Detach, Restarted
<1>2. \A t \in Threads :
        /\ pc[t] \in Waits => pc'[t] \in Waits
        /\ pc'[t] \in Waits \cup {"restore"} => pc[t] \in Waits \cup {"restore"}
        /\ pc'[t] \in {"wait_exit", "futex_exit"} => pc[t] \in {"wait_exit", "futex_exit"}
        /\ pc'[t] \in OwnDump \cup {"resend"} => pc[t] \in OwnDump \cup {"resend"}
        /\ pc'[t] = "dying" => pc[t] = "dying"
  BY Zenon, <1>1 DEF Restarted, Waits, OwnDump, Mortal
<1> QED
  BY Zenon, <1>2 DEF PseudoInv, lockStepVars

LEMMA PseudoInvOutside ==
  ASSUME PseudoInv, ThreadInv, NEW t \in Threads, Outside(t) \/ Signalled(t)
  PROVE  PseudoInv'
<1>1. UNCHANGED lockStepVars
  BY Zenon DEF Outside, Signalled, dispatchVars, handlerVars, pseudoVars, lockStepVars
<1>2. CASE UNCHANGED pc
  BY Zenon, <1>1, <1>2, PseudoInvFrame
<1>3. ASSUME NEW p \in {"exited", "handler"}, pc[t] = "idle", pc' = [pc EXCEPT ![t] = p]
      PROVE  PseudoInv'
  <2>1. /\ pc[t] \notin Waits
        /\ p \notin Waits \cup {"restore", "dying"}
        /\ p \notin OwnDump \cup {"resend"}
    BY Zenon, <1>3 DEF Waits, OwnDump
  <2> QED
    BY Zenon, <1>1, <1>3, <2>1, PseudoInvMove
<1>4. UNCHANGED pc \/ \E p \in {"exited", "handler"} : pc[t] = "idle" /\ pc' = [pc EXCEPT ![t] = p]
  <2>1. CASE Outside(t)
    BY Zenon, <2>1 DEF Outside, Send, ThreadExit, At, GoTo
  <2>2. CASE MortalStop(t)
    BY Zenon, <2>2 DEF MortalStop
  <2>3. CASE Deliver(t)
    BY <2>3, Zenon DEF Deliver, At, GoTo
  <2> QED
    BY Zenon, <2>1, <2>2, <2>3 DEF Signalled
<1> QED
  BY Zenon, <1>2, <1>3, <1>4

LEMMA PseudoInvFallback ==
  ASSUME PseudoInv, ThreadInv, NEW t \in Threads, FallbackStep(t), UNCHANGED dispatchVars
  PROVE  PseudoInv'
<1>1. FallbackMove(t)
  BY Zenon, FallbackMoves DEF ThreadInv
<1>2. UNCHANGED lockStepVars
  BY Zenon DEF dispatchVars, handlerVars, pseudoVars, lockStepVars
<1>3. pc[t] \notin Waits
  BY Zenon, <1>1 DEF FallbackMove, FallbackPlaces, Tracing, Holding, OwnDump, Waits
<1>4. PICK p \in FallbackPlaces \cup {"idle", "sigpipe", "resend"} :
        /\ pc' = [pc EXCEPT ![t] = p]
        /\ p \in OwnDump \cup {"resend"} => pc[t] \in OwnDump
  BY Zenon, <1>1 DEF FallbackMove
<1>5. p \notin Waits \cup {"restore", "dying"}
  BY DEF FallbackPlaces, Tracing, Holding, OwnDump, Waits
<1> QED
  BY Zenon, <1>2, <1>3, <1>4, <1>5, PseudoInvMove

LEMMA PseudoInvHandler ==
  ASSUME PseudoInv, ThreadInv, NEW t \in Threads, HandlerStep(t)
  PROVE  PseudoInv'
<1>1. /\ pc \in [Threads -> Places]
      /\ pc[t] \in Waits \cup {"restore"} => crash_mutex = t
      /\ ~no_new_privs => pc[t] \notin OwnDump \cup {"resend"}
  BY DEF PseudoInv, ThreadInv
<1>2. CASE debuggerd_signal_handler(t)
  <2>1. PICK p \in {"answer", "lock", "trace", "own_lock"} :
          GoTo(t, p) /\ (p = "own_lock" => no_new_privs)
    BY Zenon, <1>2 DEF debuggerd_signal_handler
  <2>2. UNCHANGED lockStepVars /\ pc[t] = "handler"
    BY Zenon, <1>2 DEF debuggerd_signal_handler, dispatchVars, handlerVars, pseudoVars,
                lockStepVars, At
  <2>3. /\ pc[t] \notin Waits /\ p \notin Waits \cup {"restore", "dying"}
        /\ p \in OwnDump \cup {"resend"} => no_new_privs
    BY Zenon, <2>1, <2>2 DEF Waits, OwnDump
  <2> QED
    BY Zenon, <2>1, <2>2, <2>3, PseudoInvMove DEF GoTo
<1>3. CASE resend_signal(t)
  <2>1. no_new_privs
    BY Zenon, <1>1, <1>3 DEF resend_signal, Resend, At
  <2>2. UNCHANGED lockStepVars
    BY Zenon, <1>3 DEF resend_signal, Resend, dispatchVars, handlerVars, pseudoVars, lockStepVars
  <2>3. PICK p \in {"dying", "idle"} : pc' = [pc EXCEPT ![t] = p] /\ pc[t] = "resend"
    BY Zenon, <1>3 DEF resend_signal, Resend, Return, GoTo, At
  <2> QED
    BY Zenon, <1>1, <2>1, <2>2, <2>3 DEF PseudoInv, lockStepVars, Waits, OwnDump
<1>4. CASE LockAndSpawn(t)
  <2>1. CASE ProcessGone("exit")
    BY Zenon, <2>1, PseudoInvGone
  <2>2. CASE ~ProcessGone("exit")
    <3>1. /\ crash_mutex = Nobody /\ crash_mutex' = t /\ owner' = t
          /\ pseudo' = "start" /\ word' = "unset" /\ pc' = [pc EXCEPT ![t] = "wait_start"]
          /\ UNCHANGED no_new_privs
      BY Zenon, <1>4, <2>2 DEF LockAndSpawn, GoTo
    <3>2. \A u \in Threads : u # Nobody
      BY Zenon, TargetAssumption DEF Nobody
    <3>3. \A u \in Threads \ {t} :
            /\ pc'[u] = pc[u] /\ pc[u] \notin Waits \cup {"restore"}
            /\ pc[u] = "dying" => no_new_privs
      BY Zenon, <1>1, <3>1, <3>2 DEF PseudoInv
    <3> QED
      BY Zenon, <1>1, <3>1, <3>3 DEF PseudoInv, Waits, OwnDump
  <2> QED
    BY Zenon, <2>1, <2>2
<1>5. CASE WaitForStart(t)
  <2>1. /\ UNCHANGED lockStepVars /\ pc[t] = "wait_start"
        /\ pc' = [pc EXCEPT ![t] = IF word = "unset" THEN "futex_start" ELSE "wait_exit"]
    BY <1>5 DEF WaitForStart, futex_wait, At, GoTo, lockStepVars, dispatchVars,
                handlerVars, pseudoVars
  <2> QED
    BY Zenon, <1>1, <2>1 DEF PseudoInv, lockStepVars, Waits, OwnDump
<1>6. CASE WaitForExit(t)
  <2>1. /\ UNCHANGED lockStepVars /\ pc[t] = "wait_exit"
        /\ pc' = [pc EXCEPT ![t] = IF word = "tid" THEN "futex_exit" ELSE "restore"]
    BY Zenon, <1>6 DEF WaitForExit, futex_wait, At, GoTo, lockStepVars, dispatchVars,
                handlerVars, pseudoVars
  <2>2. word # "tid" => pseudo = "none"
    BY Zenon, <2>1 DEF PseudoInv
  <2> QED
    BY Zenon, <1>1, <2>1, <2>2 DEF PseudoInv, lockStepVars, Waits, OwnDump
<1>7. CASE Restore(t)
  <2>1. /\ pc[t] = "restore"
        /\ \/ sig[t] = "crash" /\ pc' = [pc EXCEPT ![t] = "dying"] /\ UNCHANGED crash_mutex
           \/ /\ pc' = [pc EXCEPT ![t] = "idle"]
              /\ crash_mutex' \in {crash_mutex, Nobody}
        /\ UNCHANGED <<no_new_privs, pseudo, owner, word>>
    BY <1>7 DEF Restore, Leave, Return, At, GoTo, pseudoVars, DebuggerSignals
  <2>2. crash_mutex = t /\ pseudo = "none"
    BY Zenon, <1>1, <2>1 DEF PseudoInv, Waits
  <2>3. \A u \in Threads \ {t} :
          /\ pc'[u] = pc[u] /\ pc[u] \notin Waits \cup {"restore"}
          /\ pc[u] = "dying" => no_new_privs
    BY Zenon, <1>1, <2>1, <2>2 DEF PseudoInv
  <2> QED
    BY Zenon, <1>1, <2>1, <2>2, <2>3 DEF PseudoInv, Waits, OwnDump
<1>8. CASE Die(t)
  BY Zenon, <1>8, PseudoInvGone DEF Die
<1> QED
  BY Zenon, <1>2, <1>3, <1>4, <1>5, <1>6, <1>7, <1>8 DEF HandlerStep

LEMMA PseudoInvPseudo ==
  ASSUME PseudoInv, ThreadInv, PseudoStep
  PROVE  PseudoInv'
<1>1. ASSUME NEW how, ProcessGone(how) PROVE PseudoInv'
  BY Zenon, <1>1, PseudoInvGone
<1>2. ASSUME pseudo \notin {"none", "start"}, pseudo' \notin {"none", "start"},
             pseudo' \in {"read", "clone", "wait_first", "wait_dump", "wait_end", "exit"},
             UNCHANGED <<pc, no_new_privs, crash_mutex, owner, word>>
      PROVE  PseudoInv'
  BY Zenon, <1>2 DEF PseudoInv
<1>3. CASE PseudoStart
  <2>1. CASE ~\E how : ProcessGone(how)
    <3>1. /\ pseudo = "start" /\ pseudo' = "read" /\ word' = "tid"
          /\ UNCHANGED <<pc, no_new_privs, crash_mutex, owner>>
      BY Zenon, <1>3, <2>1 DEF PseudoStart, PseudoAt, PseudoGoTo, targetVars, handlerVars
    <3> QED
      BY Zenon, <3>1 DEF PseudoInv
  <2> QED
    BY Zenon, <1>1, <2>1
<1>4. CASE PseudoRead
  BY Zenon, <1>2, <1>4 DEF PseudoRead, PseudoAt, PseudoGoTo, targetVars, handlerVars
<1>5. CASE CreateVmProcess
  BY Zenon, <1>1, <1>2, <1>5 DEF CreateVmProcess, PseudoAt, targetVars, handlerVars
<1>6. CASE PseudoWaitFirst
  BY Zenon, <1>1, <1>2, <1>6 DEF PseudoWaitFirst, PseudoAt, PseudoGoTo, targetVars, handlerVars
<1>7. CASE PseudoWaitDump
  BY Zenon, <1>2, <1>7 DEF PseudoWaitDump, Reap, PseudoAt, PseudoGoTo, targetVars, handlerVars
<1>8. CASE PseudoWaitEnd
  BY Zenon, <1>2, <1>8 DEF PseudoWaitEnd, PseudoAt, PseudoGoTo, targetVars, handlerVars
<1>9. CASE PseudoExit
  <2>1. owner \in Threads /\ pc[owner] \in Waits /\ crash_mutex = owner
    BY Zenon, <1>9 DEF PseudoInv, PseudoExit, PseudoAt
  <2>2. PICK p \in Waits \cup {"restore"} : pc' = [pc EXCEPT ![owner] = p]
    BY Zenon, <1>9, <2>1 DEF PseudoExit, Waits
  <2>3. /\ pseudo' = "none" /\ word' = "zero" /\ owner' = Nobody
        /\ UNCHANGED <<no_new_privs, crash_mutex>>
    BY Zenon, <1>9 DEF PseudoExit, handlerVars
  <2>4. p \notin OwnDump \cup {"resend", "dying"}
    BY Zenon DEF Waits, OwnDump
  <2> QED
    BY Zenon, <2>1, <2>2, <2>3, <2>4 DEF PseudoInv, ThreadInv
<1> QED
  BY Zenon, <1>3, <1>4, <1>5, <1>6, <1>7, <1>8, <1>9 DEF PseudoStep

-------------------------------------------------------------------------------
(***************************************************************************)
(* The steps of the fallback handler preserve the invariant of the         *)
(* hand-over of descriptors, whoever times out and however late a sibling  *)
(* answers.                                                                *)
(***************************************************************************)

(* Steps that leave the hand-over alone.                                       *)

handVars == <<trace_mutex, trace_output, sibling, sent_fd, taken, pipe, misused>>

\* A thread that moves from p to q keeps its part in the hand-over.

SameRole(p, q) ==
  /\ p \in Tracing <=> q \in Tracing
  /\ p \in Offering <=> q \in Offering
  /\ p \in Holding <=> q \in Holding
  /\ p = "answer_take" <=> q = "answer_take"
  /\ p = "trace_exchange" => q = "trace_exchange"
  /\ p = "exited" => q = "exited"

LEMMA HandInvInit == Init => HandInv
<1> SUFFICES ASSUME Init PROVE HandInv
  BY Zenon
<1>1. \A t \in Threads : t # Nobody
  BY Zenon, NobodyIsNone
<1>2. MutexInv
  BY Zenon, <1>1 DEF Init, TargetInit, FallbackInit, MutexInv, FallbackTypeOK, ClosedPipe, Tracing, Offering
<1>3. OwnerInv
  BY Zenon, <1>1 DEF Init, TargetInit, FallbackInit, OwnerInv, ClosedPipe, Holding
<1>4. OfferInv
  BY Zenon, <1>1 DEF Init, TargetInit, FallbackInit, OfferInv, Offering
<1> QED
  BY Zenon, <1>2, <1>3, <1>4 DEF HandInv

LEMMA HandInvFrame ==
  ASSUME HandInv, UNCHANGED handVars, \A t \in Threads : SameRole(pc[t], pc'[t]),
         allocator' \in Threads \cup {Nobody}, crash_lock' \in Threads \cup {Nobody},
         broken' \subseteq Threads
  PROVE  HandInv'
<1>1. MutexInv'
  BY Zenon DEF HandInv, MutexInv, FallbackTypeOK, handVars, SameRole
<1>2. OwnerInv'
  BY Zenon DEF HandInv, OwnerInv, handVars, SameRole
<1>3. OfferInv'
  <2>1. trace_output # Empty => trace_output[1] \in Threads
    BY Zenon DEF HandInv, MutexInv, FallbackTypeOK
  <2> QED
    BY Zenon, <2>1 DEF HandInv, OfferInv, handVars, SameRole
<1> QED
  BY Zenon, <1>1, <1>2, <1>3 DEF HandInv

LEMMA HandInvGone ==
  ASSUME HandInv, NEW how, ProcessGone(how)
  PROVE  HandInv'
<1>1. \A t \in Threads : t # Nobody
  BY Zenon, NobodyIsNone
<1>2. MutexInv'
  BY Zenon, <1>1 DEF ProcessGone, TargetGone, FallbackGone, HandInv, OwnerInv, MutexInv,
     FallbackTypeOK, ClosedPipe, Tracing, Offering
<1>3. OwnerInv'
  BY Zenon, <1>1 DEF ProcessGone, TargetGone, FallbackGone, HandInv, OwnerInv, ClosedPipe, Holding
<1>4. OfferInv'
  BY Zenon, <1>1 DEF ProcessGone, TargetGone, FallbackGone, OfferInv, Offering
<1> QED
  BY Zenon, <1>2, <1>3, <1>4 DEF HandInv

\* Thread t moves, and keeps its role.

LEMMA HandInvMove ==
  ASSUME HandInv, ThreadInv, UNCHANGED handVars, NEW t \in Threads, NEW p,
         pc' = [pc EXCEPT ![t] = p], SameRole(pc[t], p),
         allocator' \in Threads \cup {Nobody}, crash_lock' \in Threads \cup {Nobody},
         broken' \subseteq Threads
  PROVE  HandInv'
<1>1. \A u \in Threads : SameRole(pc[u], pc'[u])
  <2> TAKE u \in Threads
  <2>1. pc'[u] = IF u = t THEN p ELSE pc[u]
    BY Zenon DEF ThreadInv
  <2> QED
    BY Zenon, <2>1 DEF SameRole
<1> QED
  BY Zenon, <1>1, HandInvFrame

LEMMA HandInvDetach ==
  ASSUME HandInv, ThreadInv, NEW T, NEW passed, Detach(T, passed), UNCHANGED fallbackVars
  PROVE  HandInv'
<1>1. \A t \in Threads : Restarted(pc[t], pc'[t])
  BY Zenon, ResumedMoves DEF Detach, Restarted
<1>2. \A t \in Threads : SameRole(pc[t], pc'[t])
  BY Zenon, <1>1 DEF Restarted, SameRole, Tracing, Offering, Holding, Mortal
<1>3. /\ UNCHANGED handVars /\ allocator' \in Threads \cup {Nobody}
      /\ crash_lock' \in Threads \cup {Nobody} /\ broken' \subseteq Threads
  BY Zenon DEF fallbackVars, tracerVars, lockVars, handVars, HandInv, MutexInv, FallbackTypeOK
<1> QED
  BY Zenon, <1>2, <1>3, HandInvFrame

LEMMA HandInvQuiet ==
  ASSUME HandInv, ThreadInv, NEW t \in Threads,
         \/ Outside(t) \/ Signalled(t) \/ HandlerStep(t)
  PROVE  HandInv'
<1>1. ASSUME NEW how, ProcessGone(how) PROVE HandInv'
  BY Zenon, <1>1, HandInvGone
<1>2. ASSUME UNCHANGED fallbackVars
      PROVE  /\ UNCHANGED handVars /\ allocator' \in Threads \cup {Nobody}
             /\ crash_lock' \in Threads \cup {Nobody} /\ broken' \subseteq Threads
  BY Zenon, <1>2 DEF fallbackVars, tracerVars, lockVars, handVars, HandInv, MutexInv, FallbackTypeOK
<1>3. ASSUME UNCHANGED fallbackVars, UNCHANGED pc PROVE HandInv'
  BY Zenon, <1>2, <1>3, HandInvFrame DEF SameRole
<1>4. ASSUME NEW p, UNCHANGED fallbackVars, pc' = [pc EXCEPT ![t] = p],
             pc[t] \notin FallbackPlaces \cup {"exited"},
             p \notin Tracing \cup Holding \cup {"answer_take"}
      PROVE  HandInv'
  <2>1. SameRole(pc[t], p)
    BY Zenon, <1>4 DEF SameRole, FallbackPlaces, Tracing, Holding, Offering
  <2> QED
    BY Zenon, <1>2, <1>4, <2>1, HandInvMove
<1>5. CASE Outside(t)
  <2>1. UNCHANGED pc \/ (pc[t] = "idle" /\ pc' = [pc EXCEPT ![t] = "exited"])
    BY Zenon, <1>5 DEF Outside, Send, ThreadExit, At, GoTo
  <2>2. UNCHANGED fallbackVars
    BY Zenon, <1>5 DEF Outside
  <2> QED
    BY Zenon, <1>3, <1>4, <2>1, <2>2 DEF FallbackPlaces, Tracing, Holding, OwnDump
<1>6. CASE Signalled(t)
  <2>1. UNCHANGED pc \/ (pc[t] = "idle" /\ pc' = [pc EXCEPT ![t] = "handler"])
    <3>1. CASE MortalStop(t)
      BY Zenon, <3>1 DEF MortalStop
    <3>2. CASE Deliver(t)
      BY <3>2, Zenon DEF Deliver, At, GoTo
    <3> QED
      BY Zenon, <1>6, <3>1, <3>2 DEF Signalled
  <2>2. UNCHANGED fallbackVars
    BY Zenon, <1>6 DEF Signalled
  <2> QED
    BY Zenon, <1>3, <1>4, <2>1, <2>2 DEF FallbackPlaces, Tracing, Holding, OwnDump
<1>7. CASE HandlerStep(t)
  <2>1. CASE \E how : ProcessGone(how)
    BY Zenon, <1>1, <2>1
  <2>2. CASE ~\E how : ProcessGone(how)
    <3>1. \E p \in {"answer", "lock", "trace", "own_lock", "dying", "idle", "restore"} \cup Waits :
            pc' = [pc EXCEPT ![t] = p]
      BY Zenon, <1>7, <2>2 DEF HandlerStep, debuggerd_signal_handler, resend_signal, Resend, Return,
           LockAndSpawn, WaitForStart, WaitForExit, futex_wait, Restore, Leave, Die, GoTo, Waits
    <3>2. /\ pc[t] \in {"handler", "resend", "lock", "wait_start", "wait_exit", "restore"}
          /\ UNCHANGED fallbackVars
      BY Zenon, <1>7, <2>2 DEF HandlerStep, debuggerd_signal_handler, resend_signal, Resend,
           LockAndSpawn, WaitForStart, WaitForExit, futex_wait, Restore, Leave, Die, At
    <3> QED
      BY Zenon, <1>4, <3>1, <3>2 DEF FallbackPlaces, Tracing, Holding, OwnDump, Waits
  <2> QED
    BY Zenon, <2>1, <2>2
<1> QED
  BY Zenon, <1>5, <1>6, <1>7

(* The steps of the hand-over.                                                 *)

\* What is known of thread t when it runs, and where it may go next.

LEMMA MovePointwise ==
  ASSUME ThreadInv, NEW t \in Threads, NEW p, pc' = [pc EXCEPT ![t] = p]
  PROVE  \A u \in Threads : pc'[u] = IF u = t THEN p ELSE pc[u]
BY Zenon DEF ThreadInv

LEMMA OnlyTracer ==
  ASSUME HandInv, NEW t \in Threads, pc[t] \in Tracing
  PROVE  trace_mutex = t /\ \A u \in Threads \ {t} : pc[u] \notin Tracing /\ pc[u] \notin Offering
BY Zenon DEF HandInv, MutexInv, Tracing, Offering

LEMMA HandInvLockTrace ==
  ASSUME HandInv, ThreadInv, NEW t \in Threads, trace_handler(t)
  PROVE  HandInv'
<1>1. CASE Return(t) /\ UNCHANGED trace_mutex
  <2>1. SameRole(pc[t], "idle")
    BY Zenon DEF trace_handler, At, SameRole, Tracing, Offering, Holding
  <2>2. /\ UNCHANGED handVars /\ allocator' \in Threads \cup {Nobody}
        /\ crash_lock' \in Threads \cup {Nobody} /\ broken' \subseteq Threads
    BY Zenon, <1>1 DEF trace_handler, lockVars, handVars, HandInv, MutexInv, FallbackTypeOK
  <2> QED
    BY Zenon, <1>1, <2>1, <2>2, HandInvMove DEF Return, GoTo
<1>2. CASE ~(Return(t) /\ UNCHANGED trace_mutex)
  <2>1. /\ pc[t] = "trace" /\ trace_mutex = Nobody /\ trace_mutex' = t
        /\ pc' = [pc EXCEPT ![t] = "trace_self"]
        /\ UNCHANGED <<sibling, sent_fd, trace_output, taken, pipe, allocator, crash_lock,
                       broken, misused>>
    BY Zenon, <1>2 DEF trace_handler, At, GoTo, lockVars
  <2>2. \A u \in Threads : pc'[u] = IF u = t THEN "trace_self" ELSE pc[u]
    BY ZenonT(30), <2>1, MovePointwise
  <2>3. \A u \in Threads : u # Nobody /\ pc[u] \notin Tracing /\ pc[u] \notin Offering
    BY <2>1, NobodyIsNone DEF HandInv, MutexInv, Tracing, Offering
  <2>4. MutexInv'
    BY <2>1, <2>2, <2>3 DEF HandInv, MutexInv, FallbackTypeOK, Tracing, Offering
  <2>5. OwnerInv'
    BY <2>1, <2>2 DEF HandInv, OwnerInv, Holding
  <2>6. OfferInv'
    <3>1. trace_output # Empty => pc[trace_output[1]] = "exited" /\ trace_output[1] \in Threads
      BY Zenon, <2>3 DEF HandInv, OfferInv, MutexInv, FallbackTypeOK
    <3> QED
      BY <2>1, <2>2, <2>3, <3>1 DEF OfferInv, Offering
  <2> QED
    BY Zenon, <2>4, <2>5, <2>6 DEF HandInv
<1> QED
  BY Zenon, <1>1, <1>2

\* The allocator, crash_handler, and the waits of forward_output.

LEMMA HandInvSameRole ==
  ASSUME HandInv, ThreadInv, NEW t \in Threads,
         \/ EnableAllocator(t, "trace_self", "tracing_self", "trace_siblings")
         \/ DisableAllocator(t, "tracing_self", "trace_siblings")
         \/ EnableAllocator(t, "answer_trace", "answering", "answer_close")
         \/ DisableAllocator(t, "answering", "answer_close")
         \/ EnableAllocator(t, "own_dump", "dumping", "own_unlock")
         \/ DisableAllocator(t, "dumping", "own_unlock")
         \/ LockCrash(t) \/ UnlockCrash(t) \/ ForwardOutput(t)
  PROVE  HandInv'
<1>1. \E p : pc' = [pc EXCEPT ![t] = p] /\ SameRole(pc[t], p)
  BY Zenon DEF EnableAllocator, DisableAllocator, LockCrash, UnlockCrash, ForwardOutput, At, GoTo,
     SameRole, Tracing, Offering, Holding
<1>2. /\ UNCHANGED handVars /\ allocator' \in Threads \cup {Nobody}
      /\ crash_lock' \in Threads \cup {Nobody} /\ broken' \subseteq Threads
  BY Zenon DEF EnableAllocator, DisableAllocator, LockCrash, UnlockCrash, ForwardOutput,
     fallbackVars, tracerVars, lockVars, handVars, HandInv, MutexInv, FallbackTypeOK
<1> QED
  BY Zenon, <1>1, <1>2, HandInvMove

LEMMA HandInvOffer ==
  ASSUME WellOrdered, HandInv, ThreadInv, NEW t \in Threads, Offer(t)
  PROVE  HandInv'
<1>1. /\ pc[t] = "trace_siblings" /\ trace_mutex = t
      /\ \A u \in Threads : pc[u] \notin Offering /\ (u # t => pc[u] \notin Tracing)
  BY Zenon, OnlyTracer DEF Offer, At, Tracing, Offering
<1>2. sibling' \in Threads
  <2>1. Siblings(t) \subseteq Nat /\ Siblings(t) \subseteq Threads /\ Siblings(t) # {}
    BY Zenon, TargetAssumption DEF Siblings, Offer
  <2> QED
    BY Zenon, <2>1, LowestIsLeast DEF Offer
<1>3. UNCHANGED <<trace_mutex, taken, allocator, crash_lock, broken, misused>>
  BY Zenon DEF Offer, lockVars
<1>4. trace_output # Empty => pc[trace_output[1]] = "exited" /\ trace_output[1] \in Threads
  BY Zenon, <1>1 DEF HandInv, OfferInv, MutexInv, FallbackTypeOK
<1>5. CASE FreeFds = {} \/ trace_output # Empty
  <2>1. UNCHANGED <<pc, trace_output, sent_fd, pipe>>
    BY Zenon, <1>5 DEF Offer
  <2>2. MutexInv'
    BY Zenon, <1>2, <1>3, <2>1 DEF HandInv, MutexInv, FallbackTypeOK
  <2>3. OwnerInv'
    BY Zenon, <1>3, <2>1 DEF HandInv, OwnerInv
  <2>4. OfferInv'
    BY Zenon, <1>1, <1>4, <2>1 DEF OfferInv
  <2> QED
    BY Zenon, <2>2, <2>3, <2>4 DEF HandInv
<1>6. CASE FreeFds # {} /\ trace_output = Empty
  <2> DEFINE f == Lowest(FreeFds)
  <2>1. f \in Fds /\ ~pipe[f].open /\ f # NoFd
    <3>1. FreeFds \subseteq Nat /\ FreeFds # {}
      BY Zenon, <1>6, FallbackAssumption DEF FreeFds
    <3>2. f \in FreeFds
      BY Zenon, <3>1, LowestIsLeast
    <3> QED
      BY Zenon, <3>2, FallbackAssumption DEF FreeFds, NoFd
  <2>2. /\ sent_fd' = f /\ pipe' = [pipe EXCEPT ![f] = NewPipe]
        /\ trace_output' = <<sibling', f>> /\ pc' = [pc EXCEPT ![t] = "trace_signal"]
    BY Zenon, <1>6 DEF Offer, GoTo, pack_thread_fd
  <2> HIDE DEF f
  <2>3. \A u \in Threads : pc'[u] = IF u = t THEN "trace_signal" ELSE pc[u]
    BY Zenon, <2>2, MovePointwise
  <2>4. /\ pipe' \in [Fds -> [open : BOOLEAN, reader : BOOLEAN, data : Threads \cup {Nobody}]]
        /\ \A g \in Fds : pipe'[g].open = (g = f \/ pipe[g].open)
        /\ pipe'[f].data = Nobody
    BY Zenon, <2>1, <2>2 DEF HandInv, MutexInv, FallbackTypeOK, NewPipe
  <2>5. trace_output'[1] = sibling' /\ trace_output'[2] = f /\ trace_output' \in Threads \X Fds
    BY Zenon, <1>2, <2>1, <2>2
  <2>6. MutexInv'
    <3>1. FallbackTypeOK'
      BY Zenon, <1>2, <1>3, <2>1, <2>2, <2>4, <2>5 DEF HandInv, MutexInv, FallbackTypeOK
    <3>2. \A u \in Threads : pc'[u] \in Tracing <=> trace_mutex' = u
      BY Zenon, <1>1, <1>3, <2>3 DEF Tracing
    <3> QED
      BY Zenon, <2>1, <2>2, <3>1, <3>2 DEF MutexInv
  <2>7. OwnerInv'
    <3>1. \A u \in Threads : pc[u] \in Holding => taken[u] # f
      BY Zenon, <2>1 DEF HandInv, OwnerInv
    <3>2. \A u \in Threads : /\ pc'[u] \in Holding <=> pc[u] \in Holding
                             /\ pc'[u] = "answer_take" <=> pc[u] = "answer_take"
      BY Zenon, <1>1, <2>3 DEF Holding
    <3>3. \A u \in Threads : taken[u] \in Fds \cup {NoFd}
      BY Zenon DEF HandInv, MutexInv, FallbackTypeOK
    <3>4. trace_output[2] = NoFd /\ NoFd \notin Fds
      BY Zenon, <1>6, FallbackAssumption DEF Empty, pack_thread_fd, NoFd
    <3>5. \A g \in Fds : pipe[g].open => \E u \in Threads : pc[u] \in Holding /\ taken[u] = g
      BY Zenon, <3>4 DEF HandInv, OwnerInv
    <3> QED
      BY <1>3, <2>1, <2>4, <2>5, <3>1, <3>2, <3>3, <3>5 DEF HandInv, OwnerInv
  <2>8. OfferInv'
    <3>1. \A u \in Threads : pc'[u] \in Holding => taken'[u] # sent_fd'
      BY <1>1, <1>3, <2>1, <2>2, <2>3 DEF HandInv, OwnerInv, Holding
    <3> QED
      BY Zenon, <2>2, <2>3, <2>4, <3>1 DEF OfferInv, Offering
  <2> QED
    BY Zenon, <2>6, <2>7, <2>8 DEF HandInv
<1> QED
  BY Zenon, <1>5, <1>6

LEMMA HandInvSignal ==
  ASSUME HandInv, ThreadInv, NEW t \in Threads, SignalSibling(t)
  PROVE  HandInv'
<1>1. /\ pc[t] = "trace_signal" /\ trace_mutex = t /\ Alive
      /\ \A u \in Threads \ {t} : pc[u] \notin Offering /\ pc[u] \notin Tracing
  BY OnlyTracer DEF SignalSibling, At, Runs, Live, Tracing
<1>2. UNCHANGED <<trace_mutex, sibling, trace_output, taken, allocator, crash_lock, broken, misused>>
  BY DEF SignalSibling, lockVars
<1>3. CASE Live(sibling)
  <2>1. pc' = [pc EXCEPT ![t] = "trace_poll"] /\ UNCHANGED <<sent_fd, pipe>>
    BY <1>3 DEF SignalSibling, GoTo
  <2>2. SameRole(pc[t], "trace_poll")
    BY Zenon, <1>1 DEF SameRole, Tracing, Offering, Holding
  <2>3. /\ UNCHANGED handVars /\ allocator' \in Threads \cup {Nobody}
        /\ crash_lock' \in Threads \cup {Nobody} /\ broken' \subseteq Threads
    BY <1>2, <2>1 DEF handVars, HandInv, MutexInv, FallbackTypeOK
  <2> QED
    BY Zenon, <2>1, <2>2, <2>3, HandInvMove
<1>4. CASE ~Live(sibling)
  <2>1. /\ pc' = [pc EXCEPT ![t] = "trace_siblings"] /\ sent_fd' = NoFd
        /\ pipe' = [pipe EXCEPT ![sent_fd].reader = FALSE]
    BY <1>4 DEF SignalSibling, GoTo
  <2>2. \A u \in Threads : pc'[u] = IF u = t THEN "trace_siblings" ELSE pc[u]
    BY Zenon, <2>1, MovePointwise
  <2>3. sent_fd \in Fds
    BY Zenon, <1>1 DEF HandInv, MutexInv, FallbackTypeOK, Offering
  <2>4. /\ pipe' \in [Fds -> [open : BOOLEAN, reader : BOOLEAN, data : Threads \cup {Nobody}]]
        /\ \A g \in Fds : pipe'[g].open = pipe[g].open
    BY Zenon, <2>1, <2>3 DEF HandInv, MutexInv, FallbackTypeOK
  <2>5. MutexInv'
    BY <1>1, <1>2, <2>1, <2>2, <2>4 DEF HandInv, MutexInv, FallbackTypeOK, Tracing, Offering
  <2>6. OwnerInv'
    <3>1. \A u \in Threads : /\ pc'[u] \in Holding <=> pc[u] \in Holding
                             /\ pc'[u] = "answer_take" <=> pc[u] = "answer_take"
      BY Zenon, <1>1, <2>2 DEF Holding
    <3>2. /\ \A u \in Threads : taken[u] \in Fds \cup {NoFd}
          /\ trace_output # Empty => trace_output[2] \in Fds
      BY Zenon DEF HandInv, MutexInv, FallbackTypeOK
    <3> QED
      BY Zenon, <1>2, <2>4, <3>1, <3>2 DEF HandInv, OwnerInv
  <2>7. OfferInv'
    <3>1. trace_output # Empty => trace_output[1] = sibling /\ sibling \in Threads
      BY <1>1 DEF HandInv, OfferInv, MutexInv, FallbackTypeOK, Offering
    <3>2. trace_output # Empty => pc'[trace_output[1]] = "exited"
      BY Zenon, <1>1, <1>4, <2>2, <3>1 DEF Live
    <3> QED
      BY Zenon, <1>1, <1>2, <2>2, <3>2 DEF OfferInv, Offering
  <2> QED
    BY <2>5, <2>6, <2>7 DEF HandInv
<1> QED
  BY <1>3, <1>4

LEMMA HandInvPoll ==
  ASSUME HandInv, ThreadInv, NEW t \in Threads, PollOutput(t)
  PROVE  HandInv'
<1>1. /\ pc[t] = "trace_poll" /\ trace_mutex = t
      /\ \A u \in Threads \ {t} : pc[u] \notin Offering /\ pc[u] \notin Tracing
  BY Zenon, OnlyTracer DEF PollOutput, At, Tracing
<1>2. UNCHANGED <<trace_mutex, sibling, sent_fd, trace_output, taken, allocator, crash_lock,
                  broken, misused>>
  BY Zenon DEF PollOutput, tracerVars, lockVars
<1>3. PICK p \in {"trace_forward", "trace_exchange"} : pc' = [pc EXCEPT ![t] = p]
  BY Zenon DEF PollOutput, GoTo
<1>4. SameRole(pc[t], p)
  BY Zenon, <1>1 DEF SameRole, Tracing, Offering, Holding
<1>5. CASE UNCHANGED pipe
  <2>1. /\ UNCHANGED handVars /\ allocator' \in Threads \cup {Nobody}
        /\ crash_lock' \in Threads \cup {Nobody} /\ broken' \subseteq Threads
    BY Zenon, <1>2, <1>5 DEF handVars, HandInv, MutexInv, FallbackTypeOK
  <2> QED
    BY Zenon, <1>3, <1>4, <2>1, HandInvMove
<1>6. CASE pipe' = [pipe EXCEPT ![sent_fd].data = Nobody]
  <2>1. \A u \in Threads : pc'[u] = IF u = t THEN p ELSE pc[u]
    BY Zenon, <1>3, MovePointwise
  <2>2. sent_fd \in Fds
    BY Zenon, <1>1 DEF HandInv, MutexInv, FallbackTypeOK, Offering
  <2>3. /\ pipe' \in [Fds -> [open : BOOLEAN, reader : BOOLEAN, data : Threads \cup {Nobody}]]
        /\ \A g \in Fds : pipe'[g].open = pipe[g].open
        /\ pipe'[sent_fd].data = Nobody
    BY Zenon, <1>6, <2>2 DEF HandInv, MutexInv, FallbackTypeOK
  <2>4. MutexInv'
    BY Zenon, <1>1, <1>2, <2>1, <2>2, <2>3 DEF HandInv, MutexInv, FallbackTypeOK, Tracing, Offering
  <2>5. \A u \in Threads : /\ pc'[u] \in Holding <=> pc[u] \in Holding
                           /\ pc'[u] = "answer_take" <=> pc[u] = "answer_take"
    BY Zenon, <1>1, <2>1 DEF Holding
  <2>6. OwnerInv'
    <3>1. /\ \A u \in Threads : taken[u] \in Fds \cup {NoFd}
          /\ trace_output # Empty => trace_output[2] \in Fds
      BY Zenon DEF HandInv, MutexInv, FallbackTypeOK
    <3> QED
      BY Zenon, <1>2, <2>3, <2>5, <3>1 DEF HandInv, OwnerInv
  <2>7. OfferInv'
    <3>1. pc[t] \in Offering /\ pc'[t] \in Offering
      BY Zenon, <1>1, <2>1 DEF Offering
    <3>2. \A u \in Threads \ {t} : pc'[u] \notin Offering
      BY Zenon, <1>1, <2>1
    <3> QED
      BY Zenon, <1>2, <2>3, <2>5, <3>1, <3>2 DEF HandInv, OfferInv
  <2> QED
    BY Zenon, <2>4, <2>6, <2>7 DEF HandInv
<1> QED
  BY Zenon, <1>5, <1>6 DEF PollOutput

\* What Withdraw makes of one descriptor.

LEMMA WithdrawnPipe ==
  ASSUME NEW r \in [open : BOOLEAN, reader : BOOLEAN, data : Threads \cup {Nobody}],
         NEW a \in BOOLEAN, NEW b \in BOOLEAN,
         NEW s, s = [r EXCEPT !.open = @ /\ a, !.reader = @ /\ b]
  PROVE  /\ s \in [open : BOOLEAN, reader : BOOLEAN, data : Threads \cup {Nobody}]
         /\ s.open = (r.open /\ a)
<1>1. /\ r.open \in BOOLEAN /\ r.reader \in BOOLEAN /\ r.data \in Threads \cup {Nobody}
      /\ r = [open |-> r.open, reader |-> r.reader, data |-> r.data]
  OBVIOUS
<1>2. s = [open |-> r.open /\ a, reader |-> r.reader /\ b, data |-> r.data]
  BY Zenon, <1>1
<1> QED
  BY Zenon, <1>1, <1>2

LEMMA HandInvExchange ==
  ASSUME HandInv, ThreadInv, NEW t \in Threads, Exchange(t)
  PROVE  HandInv'
<1> DEFINE closed == trace_output[2]
<1>1. /\ pc[t] = "trace_exchange" /\ pc' = [pc EXCEPT ![t] = "trace_siblings"]
      /\ trace_output' = Empty /\ sent_fd' = NoFd
      /\ UNCHANGED <<trace_mutex, sibling, taken, allocator, crash_lock, broken>>
  BY Zenon DEF Exchange, Withdraw, At, GoTo, lockVars
<1>2. misused' = (misused \/ (closed # NoFd /\ ~pipe[closed].open))
  BY Zenon DEF Exchange, Withdraw
<1>3. /\ pipe' \in [Fds -> [open : BOOLEAN, reader : BOOLEAN, data : Threads \cup {Nobody}]]
      /\ \A g \in Fds : pipe'[g].open = (pipe[g].open /\ g # closed)
  <2>1. pipe' = [f \in Fds |-> [pipe[f] EXCEPT !.open = @ /\ f # closed,
                                              !.reader = @ /\ f # sent_fd]]
    BY Zenon DEF Exchange, Withdraw
  <2>2. \A g \in Fds :
          /\ pipe'[g] \in [open : BOOLEAN, reader : BOOLEAN, data : Threads \cup {Nobody}]
          /\ pipe'[g].open = (pipe[g].open /\ g # closed)
    <3> TAKE g \in Fds
    <3>1. pipe'[g] = [pipe[g] EXCEPT !.open = @ /\ g # closed, !.reader = @ /\ g # sent_fd]
      BY <2>1, Zenon
    <3>2. pipe[g] \in [open : BOOLEAN, reader : BOOLEAN, data : Threads \cup {Nobody}]
      BY Zenon DEF HandInv, MutexInv, FallbackTypeOK
    <3>3. (g # closed) \in BOOLEAN /\ (g # sent_fd) \in BOOLEAN
      OBVIOUS
    <3> HIDE DEF closed
    <3> QED
      BY <3>1, <3>2, <3>3, WithdrawnPipe, ZenonT(30)
  <2>3. DOMAIN pipe' = Fds /\ pipe' = [g \in Fds |-> pipe'[g]]
    BY <2>1, Zenon
  <2> QED
    BY <2>2, <2>3, Zenon
<1>4. /\ trace_mutex = t
      /\ \A u \in Threads \ {t} : pc[u] \notin Offering /\ pc[u] \notin Tracing
  BY Zenon, <1>1, OnlyTracer DEF Tracing
<1>5. \A u \in Threads : pc'[u] = IF u = t THEN "trace_siblings" ELSE pc[u]
  BY Zenon, <1>1, MovePointwise
<1>6. /\ trace_output # Empty => closed \in Fds /\ pipe[closed].open
      /\ trace_output = Empty => closed = NoFd
      /\ trace_output'[2] = NoFd
  <2>1. trace_output # Empty => closed \in Fds
    BY Zenon DEF HandInv, MutexInv, FallbackTypeOK
  <2>2. trace_output # Empty => pipe[closed].open
    BY Zenon DEF HandInv, OwnerInv
  <2>3. Empty[2] = NoFd
    BY DEF Empty, pack_thread_fd
  <2> QED
    BY <1>1, <2>1, <2>2, <2>3
<1>7. \A g \in Fds : g # NoFd
  BY Zenon, FallbackAssumption DEF NoFd
<1>8. MutexInv'
  <2>1. misused' \in BOOLEAN
    BY Zenon, <1>2
  <2> HIDE DEF closed
  <2>2. FallbackTypeOK'
    BY Zenon, <1>1, <1>3, <2>1 DEF HandInv, MutexInv, FallbackTypeOK
  <2> QED
    BY <1>1, <1>4, <1>5, <2>2 DEF HandInv, MutexInv, Tracing, Offering
<1>9. OwnerInv'
  <2>1. \A u \in Threads : /\ pc'[u] \in Holding <=> pc[u] \in Holding
                           /\ pc'[u] = "answer_take" <=> pc[u] = "answer_take"
    BY <1>1, <1>5 DEF Holding
  <2>2. ~misused'
    BY Zenon, <1>2, <1>6 DEF HandInv, OwnerInv
  <2>3. \A u \in Threads : /\ taken[u] \in Fds \cup {NoFd}
                           /\ pc[u] \in Holding => taken[u] # closed
    BY Zenon DEF HandInv, MutexInv, FallbackTypeOK, OwnerInv
  <2>4. \A g \in Fds : pipe'[g].open => \E u \in Threads : pc[u] \in Holding /\ taken[u] = g
    BY Zenon, <1>3 DEF HandInv, OwnerInv
  <2> HIDE DEF closed
  <2>5. \A u \in Threads : pc'[u] \in Holding => /\ taken'[u] # NoFd /\ pipe'[taken'[u]].open
                                                /\ taken'[u] # trace_output'[2]
    BY <1>1, <1>3, <1>6, <2>1, <2>3 DEF HandInv, OwnerInv
  <2> QED
    BY Zenon, <1>1, <2>1, <2>2, <2>4, <2>5 DEF HandInv, OwnerInv
<1>10. OfferInv'
  <2>1. \A u \in Threads : pc'[u] \notin Offering
    BY Zenon, <1>4, <1>5 DEF Offering
  <2> QED
    BY Zenon, <1>1, <2>1 DEF OfferInv
<1> QED
  BY Zenon, <1>8, <1>9, <1>10 DEF HandInv

LEMMA HandInvTraced ==
  ASSUME HandInv, ThreadInv, NEW t \in Threads, Traced(t)
  PROVE  HandInv'
<1>1. /\ pc[t] = "trace_siblings" /\ pc' = [pc EXCEPT ![t] = "idle"]
      /\ trace_mutex' = Nobody /\ sibling' = Nobody
      /\ UNCHANGED <<sent_fd, trace_output, taken, pipe, allocator, crash_lock, broken, misused>>
  BY Zenon DEF Traced, At, Return, GoTo, lockVars
<1>2. /\ trace_mutex = t
      /\ \A u \in Threads \ {t} : pc[u] \notin Offering /\ pc[u] \notin Tracing
  BY Zenon, <1>1, OnlyTracer DEF Tracing
<1>3. \A u \in Threads : u # Nobody /\ pc'[u] = IF u = t THEN "idle" ELSE pc[u]
  BY Zenon, <1>1, MovePointwise, NobodyIsNone
<1>4. MutexInv'
  BY <1>1, <1>2, <1>3 DEF HandInv, MutexInv, FallbackTypeOK, Tracing, Offering
<1>5. OwnerInv'
  <2>1. \A u \in Threads : /\ pc'[u] \in Holding <=> pc[u] \in Holding
                           /\ pc'[u] = "answer_take" <=> pc[u] = "answer_take"
    BY <1>1, <1>3 DEF Holding
  <2> QED
    BY <1>1, <2>1 DEF HandInv, OwnerInv
<1>6. OfferInv'
  <2>1. trace_output # Empty => pc[trace_output[1]] = "exited" /\ trace_output[1] \in Threads
    BY Zenon, <1>1, <1>2 DEF HandInv, OfferInv, MutexInv, FallbackTypeOK, Offering
  <2> QED
    BY <1>1, <1>2, <1>3, <2>1 DEF OfferInv, Offering
<1> QED
  BY Zenon, <1>4, <1>5, <1>6 DEF HandInv

LEMMA HandInvLoad ==
  ASSUME HandInv, ThreadInv, NEW t \in Threads, Load(t)
  PROVE  HandInv'
<1>1. /\ pc[t] = "answer"
      /\ UNCHANGED <<trace_mutex, sibling, sent_fd, trace_output, pipe, allocator, crash_lock,
                     broken, misused>>
  BY Zenon DEF Load, At, tracerVars, lockVars
<1>2. CASE trace_output[1] = t
  <2>1. pc' = [pc EXCEPT ![t] = "answer_take"] /\ taken' = [taken EXCEPT ![t] = trace_output[2]]
    BY Zenon, <1>2 DEF Load, GoTo
  <2>2. \A u \in Threads : u # Nobody /\ pc'[u] = IF u = t THEN "answer_take" ELSE pc[u]
    BY Zenon, <2>1, MovePointwise, NobodyIsNone
  <2>3. trace_output # Empty
    BY <1>2, <2>2 DEF Empty, pack_thread_fd
  <2>4. trace_output[2] \in Fds
    BY Zenon, <2>3 DEF HandInv, MutexInv, FallbackTypeOK
  <2>5. /\ taken' \in [Threads -> Fds \cup {NoFd}]
        /\ \A u \in Threads \ {t} : taken'[u] = taken[u]
    BY Zenon, <2>1, <2>4 DEF HandInv, MutexInv, FallbackTypeOK
  <2>6. MutexInv'
    BY ZenonT(30), <1>1, <2>2, <2>5 DEF HandInv, MutexInv, FallbackTypeOK, Tracing, Offering
  <2>7. /\ pc[t] \notin Holding /\ pc'[t] \notin Holding /\ pc'[t] = "answer_take"
        /\ pc[t] \notin Offering /\ pc'[t] \notin Offering /\ pc[t] # "exited"
        /\ \A u \in Threads \ {t} : pc'[u] = pc[u]
    BY Zenon, <1>1, <2>2 DEF Holding, Offering
  <2>8. OwnerInv'
    BY <1>1, <2>5, <2>7 DEF HandInv, OwnerInv
  <2>9. OfferInv'
    BY ZenonT(30), <1>1, <1>2, <2>5, <2>7 DEF HandInv, OfferInv
  <2> QED
    BY Zenon, <2>6, <2>8, <2>9 DEF HandInv
<1>3. CASE trace_output[1] # t
  <2>1. pc' = [pc EXCEPT ![t] = "idle"] /\ UNCHANGED taken
    BY <1>3 DEF Load, Return, GoTo
  <2>2. SameRole(pc[t], "idle")
    BY Zenon, <1>1 DEF SameRole, Tracing, Offering, Holding
  <2>3. /\ UNCHANGED handVars /\ allocator' \in Threads \cup {Nobody}
        /\ crash_lock' \in Threads \cup {Nobody} /\ broken' \subseteq Threads
    BY Zenon, <1>1, <2>1 DEF handVars, HandInv, MutexInv, FallbackTypeOK
  <2> QED
    BY Zenon, <2>1, <2>2, <2>3, HandInvMove
<1> QED
  BY Zenon, <1>2, <1>3

LEMMA HandInvTake ==
  ASSUME HandInv, ThreadInv, NEW t \in Threads, Take(t)
  PROVE  HandInv'
<1>1. /\ pc[t] = "answer_take"
      /\ UNCHANGED <<trace_mutex, sibling, sent_fd, pipe, allocator, crash_lock, broken, misused>>
  BY Zenon DEF Take, TakeIf, At, tracerVars, lockVars
<1>2. /\ pc[t] \notin Holding /\ pc[t] \notin Offering /\ pc[t] \notin Tracing /\ pc[t] # "exited"
  BY Zenon, <1>1 DEF Holding, Offering, Tracing
<1>3. CASE trace_output = <<t, taken[t]>>
  <2>1. /\ pc' = [pc EXCEPT ![t] = "answer_write"] /\ trace_output' = Empty /\ UNCHANGED taken
    BY Zenon, <1>3 DEF Take, TakeIf, GoTo, pack_thread_fd
  <2>2. \A u \in Threads : u # Nobody /\ pc'[u] = IF u = t THEN "answer_write" ELSE pc[u]
    BY Zenon, <2>1, MovePointwise, NobodyIsNone
  <2>3. /\ trace_output # Empty /\ Empty[2] = NoFd
    BY Zenon, <1>3, <2>2 DEF Empty, pack_thread_fd
  <2>4. taken[t] \in Fds /\ trace_output[1] = t /\ trace_output[2] = taken[t] /\ taken[t] # NoFd
    BY ZenonT(30), <1>3, <2>3, FallbackAssumption DEF HandInv, MutexInv, FallbackTypeOK, NoFd
  <2>5. MutexInv'
    BY <1>1, <1>2, <2>1, <2>2 DEF HandInv, MutexInv, FallbackTypeOK, Tracing, Offering
  <2>6. /\ pc'[t] \in Holding /\ pc'[t] \notin Offering
        /\ \A u \in Threads \ {t} : pc'[u] = pc[u]
    BY Zenon, <2>2 DEF Holding, Offering
  <2>7. OwnerInv'
    <3>1. \A u \in Threads : pc'[u] \in Holding =>
            /\ taken'[u] # NoFd /\ pipe'[taken'[u]].open /\ taken'[u] # trace_output'[2]
      BY Zenon, <1>1, <2>1, <2>3, <2>4, <2>6 DEF HandInv, OwnerInv
    <3>2. \A u \in Threads : taken'[u] # NoFd => pc'[u] \in Holding \cup {"answer_take"}
      BY Zenon, <2>1, <2>6 DEF HandInv, OwnerInv
    <3>3. \A u \in Threads : \A v \in Threads \ {u} :
            pc'[u] \in Holding /\ pc'[v] \in Holding => taken'[u] # taken'[v]
      BY <1>2, <2>1, <2>4, <2>6 DEF HandInv, OwnerInv
    <3>4. \A f \in Fds : pipe'[f].open => \E u \in Threads : pc'[u] \in Holding /\ taken'[u] = f
      BY <1>1, <1>2, <2>1, <2>4, <2>6 DEF HandInv, OwnerInv
    <3> QED
      BY Zenon, <1>1, <2>1, <3>1, <3>2, <3>3, <3>4 DEF HandInv, OwnerInv
  <2>8. OfferInv'
    <3>1. \A u \in Threads : pc[u] \in Offering =>
            trace_output = <<sibling, sent_fd>>
      BY Zenon, <2>3 DEF HandInv, OfferInv
    <3>2. \A u \in Threads : pc[u] \in Offering => sibling = t
      BY Zenon, <1>3, <3>1
    <3> QED
      BY Zenon, <1>1, <1>2, <2>1, <2>6, <3>2 DEF HandInv, OfferInv
  <2> QED
    BY Zenon, <2>5, <2>7, <2>8 DEF HandInv
<1>4. CASE trace_output # <<t, taken[t]>>
  <2>1. /\ pc' = [pc EXCEPT ![t] = "idle"] /\ taken' = [taken EXCEPT ![t] = NoFd]
        /\ UNCHANGED trace_output
    BY Zenon, <1>4 DEF Take, TakeIf, Return, GoTo, pack_thread_fd
  <2>2. \A u \in Threads : pc'[u] = IF u = t THEN "idle" ELSE pc[u]
    BY Zenon, <2>1, MovePointwise
  <2>3. /\ taken' \in [Threads -> Fds \cup {NoFd}] /\ taken'[t] = NoFd
        /\ \A u \in Threads \ {t} : taken'[u] = taken[u]
    BY Zenon, <2>1 DEF HandInv, MutexInv, FallbackTypeOK
  <2>4. MutexInv'
    BY <1>1, <1>2, <2>1, <2>2, <2>3 DEF HandInv, MutexInv, FallbackTypeOK, Tracing, Offering
  <2>5. /\ pc'[t] \notin Holding /\ pc'[t] \notin Offering
        /\ \A u \in Threads \ {t} : pc'[u] = pc[u]
    BY ZenonT(30), <2>2 DEF Holding, Offering
  <2>6. OwnerInv'
    BY <1>1, <1>2, <2>1, <2>3, <2>5 DEF HandInv, OwnerInv
  <2>7. OfferInv'
    <3>1. trace_output # Empty => trace_output[1] \in Threads
      BY Zenon DEF HandInv, MutexInv, FallbackTypeOK
    <3> QED
      BY ZenonT(30), <1>1, <1>2, <2>1, <2>3, <2>5, <3>1 DEF HandInv, OfferInv
  <2> QED
    BY Zenon, <2>4, <2>6, <2>7 DEF HandInv
<1> QED
  BY Zenon, <1>3, <1>4

LEMMA HandInvWrite ==
  ASSUME HandInv, ThreadInv, NEW t \in Threads, WriteTid(t)
  PROVE  HandInv'
<1>1. /\ pc[t] = "answer_write"
      /\ UNCHANGED <<trace_mutex, sibling, sent_fd, trace_output, taken, allocator, crash_lock>>
  BY Zenon DEF WriteTid, At, tracerVars, lockVars
<1>2. misused' = (misused \/ ~pipe[taken[t]].open)
  BY Zenon DEF WriteTid
<1>3. taken[t] \in Fds /\ pipe[taken[t]].open /\ taken[t] # trace_output[2]
  BY <1>1 DEF HandInv, OwnerInv, MutexInv, FallbackTypeOK, Holding
<1>4. UNCHANGED misused
  <2>1. misused = FALSE
    BY Zenon DEF HandInv, OwnerInv, MutexInv, FallbackTypeOK
  <2> QED
    BY Zenon, <1>2, <1>3, <2>1
<1>5. CASE pipe[taken[t]].reader
  <2>1. /\ pc' = [pc EXCEPT ![t] = "answer_trace"] /\ UNCHANGED broken
        /\ pipe' = [pipe EXCEPT ![taken[t]].data = t]
    BY <1>5, Zenon DEF WriteTid, GoTo
  <2>2. \A u \in Threads : pc'[u] = IF u = t THEN "answer_trace" ELSE pc[u]
    BY Zenon, <2>1, MovePointwise
  <2>3. /\ pipe' \in [Fds -> [open : BOOLEAN, reader : BOOLEAN, data : Threads \cup {Nobody}]]
        /\ \A g \in Fds : pipe'[g].open = pipe[g].open
        /\ \A g \in Fds : pipe'[g].data = IF g = taken[t] THEN t ELSE pipe[g].data
    BY Zenon, <1>3, <2>1 DEF HandInv, MutexInv, FallbackTypeOK
  <2>4. MutexInv'
    BY <1>1, <1>4, <2>1, <2>2, <2>3 DEF HandInv, MutexInv, FallbackTypeOK, Tracing, Offering
  <2>5. /\ pc[t] \in Holding /\ pc'[t] \in Holding /\ pc[t] # "answer_take" /\ pc'[t] # "answer_take"
        /\ pc[t] \notin Offering /\ pc'[t] \notin Offering /\ pc[t] # "exited"
        /\ \A u \in Threads \ {t} : pc'[u] = pc[u]
    BY ZenonT(30), <1>1, <2>2 DEF Holding, Offering
  <2>6. OwnerInv'
    <3>1. /\ \A u \in Threads : taken[u] \in Fds \cup {NoFd}
          /\ trace_output # Empty => trace_output[2] \in Fds
      BY Zenon DEF HandInv, MutexInv, FallbackTypeOK
    <3> QED
      BY <1>1, <1>4, <2>3, <2>5, <3>1 DEF HandInv, OwnerInv
  <2>7. OfferInv'
    <3>1. \A u \in Threads : pc[u] \in Offering => sent_fd \in Fds /\ (taken[t] = sent_fd => t = sibling)
      BY Zenon, <2>5 DEF HandInv, MutexInv, FallbackTypeOK, OfferInv
    <3>2. \A u \in Threads : pc'[u] \in Offering => pc[u] \in Offering /\ pc'[u] = pc[u]
      BY Zenon, <2>5
    <3>3. \A u \in Threads : pc'[u] \in Holding <=> pc[u] \in Holding
      BY Zenon, <2>5
    <3>4. trace_output # Empty => trace_output[1] \in Threads
      BY DEF HandInv, MutexInv, FallbackTypeOK
    <3> QED
      BY Zenon, <1>1, <2>3, <2>5, <3>1, <3>2, <3>3, <3>4 DEF HandInv, OfferInv
  <2> QED
    BY Zenon, <2>4, <2>6, <2>7 DEF HandInv
<1>6. CASE ~pipe[taken[t]].reader
  <2>1. /\ pc' = [pc EXCEPT ![t] = "answer_close"] /\ broken' = broken \cup {t} /\ UNCHANGED pipe
    BY <1>6, Zenon DEF WriteTid, GoTo
  <2>2. SameRole(pc[t], "answer_close")
    BY Zenon, <1>1 DEF SameRole, Tracing, Offering, Holding
  <2>3. /\ UNCHANGED handVars /\ allocator' \in Threads \cup {Nobody}
        /\ crash_lock' \in Threads \cup {Nobody} /\ broken' \subseteq Threads
    BY Zenon, <1>1, <1>4, <2>1 DEF handVars, HandInv, MutexInv, FallbackTypeOK
  <2> QED
    BY Zenon, <2>1, <2>2, <2>3, HandInvMove
<1> QED
  BY Zenon, <1>5, <1>6

LEMMA HandInvClose ==
  ASSUME HandInv, ThreadInv, NEW t \in Threads, CloseTaken(t)
  PROVE  HandInv'
<1>1. /\ pc[t] = "answer_close" /\ taken' = [taken EXCEPT ![t] = NoFd]
      /\ pipe' = [pipe EXCEPT ![taken[t]].open = FALSE] /\ broken' = broken \ {t}
      /\ UNCHANGED <<trace_mutex, sibling, sent_fd, trace_output, allocator, crash_lock>>
  BY Zenon DEF CloseTaken, At, tracerVars, lockVars
<1>2. misused' = (misused \/ ~pipe[taken[t]].open)
  BY Zenon DEF CloseTaken
<1>3. taken[t] \in Fds /\ pipe[taken[t]].open /\ taken[t] # trace_output[2] /\ taken[t] # NoFd
  BY <1>1 DEF HandInv, OwnerInv, MutexInv, FallbackTypeOK, Holding
<1>4. UNCHANGED misused
  <2>1. misused = FALSE
    BY Zenon DEF HandInv, OwnerInv, MutexInv, FallbackTypeOK
  <2> QED
    BY Zenon, <1>2, <1>3, <2>1
<1>5. PICK p \in {"idle", "sigpipe"} : pc' = [pc EXCEPT ![t] = p]
  BY Zenon DEF CloseTaken, Return, GoTo
<1>6. \A u \in Threads : pc'[u] = IF u = t THEN p ELSE pc[u]
  BY Zenon, <1>5, MovePointwise
<1>7. /\ pipe' \in [Fds -> [open : BOOLEAN, reader : BOOLEAN, data : Threads \cup {Nobody}]]
      /\ \A g \in Fds : pipe'[g].open = (pipe[g].open /\ g # taken[t])
      /\ \A g \in Fds : pipe'[g].data = pipe[g].data
  BY ZenonT(30), <1>1, <1>3 DEF HandInv, MutexInv, FallbackTypeOK
<1>8. /\ taken' \in [Threads -> Fds \cup {NoFd}] /\ taken'[t] = NoFd
      /\ \A u \in Threads \ {t} : taken'[u] = taken[u]
  BY <1>1 DEF HandInv, MutexInv, FallbackTypeOK
<1>9. MutexInv'
  <2>1. \A u \in Threads : /\ pc'[u] \in Tracing <=> pc[u] \in Tracing
                           /\ pc'[u] \in Offering <=> pc[u] \in Offering
    BY Zenon, <1>1, <1>6 DEF Tracing, Offering
  <2> QED
    BY Zenon, <1>1, <1>4, <1>7, <1>8, <2>1 DEF HandInv, MutexInv, FallbackTypeOK
<1>10. /\ pc[t] \in Holding /\ pc'[t] \notin Holding
       /\ pc[t] \notin Offering /\ pc'[t] \notin Offering /\ pc[t] # "exited"
       /\ \A u \in Threads \ {t} : pc'[u] = pc[u]
  BY Zenon, <1>1, <1>6 DEF Holding, Offering
<1>11. OwnerInv'
  <2>1. /\ \A u \in Threads : taken[u] \in Fds \cup {NoFd}
        /\ trace_output # Empty => trace_output[2] \in Fds
    BY Zenon DEF HandInv, MutexInv, FallbackTypeOK
  <2>2. \A u \in Threads \ {t} : pc[u] \in Holding => taken[u] # taken[t]
    BY Zenon, <1>10 DEF HandInv, OwnerInv
  <2>3. \A f \in Fds : pipe'[f].open => \/ trace_output'[2] = f
                                        \/ \E u \in Threads : pc'[u] \in Holding /\ taken'[u] = f
    BY <1>1, <1>7, <1>8, <1>10 DEF HandInv, OwnerInv
  <2> QED
    BY <1>1, <1>3, <1>4, <1>7, <1>8, <1>10, <2>1, <2>2, <2>3 DEF HandInv, OwnerInv
<1>12. OfferInv'
  <2>1. trace_output # Empty => trace_output[1] \in Threads
    BY Zenon DEF HandInv, MutexInv, FallbackTypeOK
  <2>2. \A u \in Threads : pc[u] \in Offering => sent_fd \in Fds
    BY Zenon DEF HandInv, MutexInv, FallbackTypeOK
  <2> QED
    BY <1>1, <1>7, <1>8, <1>10, <2>1, <2>2 DEF HandInv, OfferInv
<1> QED
  BY Zenon, <1>9, <1>11, <1>12 DEF HandInv

LEMMA HandInvFallback ==
  ASSUME WellOrdered, HandInv, ThreadInv, NEW t \in Threads, FallbackStep(t)
  PROVE  HandInv'
BY Zenon, HandInvLockTrace, HandInvSameRole, HandInvOffer, HandInvSignal, HandInvPoll,
   HandInvExchange, HandInvTraced, HandInvLoad, HandInvTake, HandInvWrite, HandInvClose
   DEF FallbackStep

(* The other steps, and the theorem.                                           *)

\* Threads stay where they are, and the hand-over as it is.

LEMMA HandInvStays ==
  ASSUME HandInv, UNCHANGED <<pc, fallbackVars>>
  PROVE  HandInv'
<1>1. /\ UNCHANGED handVars /\ allocator' \in Threads \cup {Nobody}
      /\ crash_lock' \in Threads \cup {Nobody} /\ broken' \subseteq Threads
  BY Zenon DEF fallbackVars, tracerVars, lockVars, handVars, HandInv, MutexInv, FallbackTypeOK
<1>2. \A t \in Threads : SameRole(pc[t], pc'[t])
  BY Zenon DEF SameRole
<1> QED
  BY Zenon, <1>1, <1>2, HandInvFrame

\* The pseudothread moves no thread but its owner, whose wait it ends.

LEMMA HandInvPseudo ==
  ASSUME HandInv, ThreadInv, PseudoInv, PseudoStep
  PROVE  HandInv'
<1>1. CASE UNCHANGED targetVars /\ UNCHANGED fallbackVars
  BY Zenon, <1>1, HandInvStays DEF targetVars
<1>2. CASE ProcessGone("exit")
  BY Zenon, <1>2, HandInvGone
<1>3. CASE PseudoExit
  <2>1. owner \in Threads /\ pc[owner] \in Waits
    BY Zenon, <1>3 DEF PseudoInv, PseudoExit, PseudoAt
  <2>2. PICK p \in Waits \cup {"restore"} : pc' = [pc EXCEPT ![owner] = p]
    BY Zenon, <1>3, <2>1 DEF PseudoExit, Waits
  <2>3. SameRole(pc[owner], p)
    BY Zenon, <2>1 DEF SameRole, Waits, Tracing, Offering, Holding
  <2>4. /\ UNCHANGED handVars /\ allocator' \in Threads \cup {Nobody}
        /\ crash_lock' \in Threads \cup {Nobody} /\ broken' \subseteq Threads
    BY Zenon, <1>3 DEF PseudoExit, fallbackVars, tracerVars, lockVars, handVars, HandInv, MutexInv,
       FallbackTypeOK
  <2> QED
    BY Zenon, <2>1, <2>2, <2>3, <2>4, HandInvMove
<1> QED
  BY Zenon, <1>1, <1>2, <1>3 DEF PseudoStep, PseudoStart, PseudoRead, CreateVmProcess,
     PseudoWaitFirst, PseudoWaitDump, Reap, PseudoWaitEnd

\* crash_dump moves threads only by letting go of them.

LEMMA HandInvDumper ==
  ASSUME HandInv, ThreadInv, NEW d \in Dumps, FirstClones(d) \/ DumperStep(d)
  PROVE  HandInv'
<1>1. CASE UNCHANGED <<pc, fallbackVars>>
  BY Zenon, <1>1, HandInvStays
<1>2. CASE Dies(d)
  BY Zenon, <1>2, HandInvDetach DEF Dies, TracerGone, Unchanged
<1>3. CASE DetachThread(d)
  BY Zenon, <1>3, HandInvDetach DEF DetachThread, DetachNext, Unchanged
<1> QED
  BY Zenon, <1>1, <1>2, <1>3 DEF DumperStep, FirstClones, Fork, ParentExits, SeizePseudothread, SeizeThread,
     Interrupt, Collect, WaitForIntermediate, WaitForVm, Dump, targetVars, Unchanged

-------------------------------------------------------------------------------
(***************************************************************************)
(* The steps of the crash_dumps preserve the invariants about them.        *)
(***************************************************************************)

Kept(r, s) ==
  /\ s.child = r.child /\ s.cur = r.cur /\ s.info = r.info
  /\ s.target = Nobody => r.target = Nobody
  /\ s.parent = r.parent \/ (s.target # Nobody /\ (r.parent = "none" \/ s.parent \notin {"none", "exec"}))

LEMMA DumpInvInit == Init => DumpInv
<1> SUFFICES ASSUME Init PROVE DumpInv
  BY Zenon
<1>1. dump = [d \in Dumps |-> NoDump] /\ NoDump \in Dumpers
  BY Zenon DEF Init, DispatchInit, NoDump, Dumpers, Processes, DumperSteps
<1>2. \A t \in Threads : tracer[t] \in {OtherDebugger, Nobody}
  BY ZenonT(30) DEF Init, TargetInit
<1> QED
  BY Zenon, <1>1, <1>2, NobodyIsNone DEF DumpInv, NoDump

\* Threads may stop, and move without exiting or coming back.

LEMMA DumpInvFrame ==
  ASSUME DumpInv, dump' \in [Dumps -> Dumpers],
         \A d \in Dumps : Kept(dump[d], dump'[d]),
         UNCHANGED <<process, tracer>>,
         \A t \in Threads : stop'[t] = "run" => stop[t] = "run",
         \A t \in Threads : pc'[t] # "exited" => pc[t] # "exited"
  PROVE  DumpInv'
<1>1. \A d \in Dumps :
        /\ dump'[d].child = dump[d].child /\ dump'[d].cur = dump[d].cur
        /\ dump'[d].info = dump[d].info
        /\ dump'[d].target = Nobody => dump'[d].parent = "none"
        /\ dump'[d].parent \in {"none", "exec"} => dump'[d].child = "none"
  BY DEF Kept, DumpInv
<1>2. (Alive' => Alive) /\ \A t \in Threads : Live(t)' => Live(t)
  BY DEF Alive, Live
<1> QED
  BY <1>1, <1>2 DEF DumpInv

LEMMA DumpInvGone ==
  ASSUME DumpInv, NEW how, how # "alive", ProcessGone(how)
  PROVE  DumpInv'
<1>1. ~Alive' /\ tracer' = [t \in Threads |-> Nobody] /\ dump' = dump
  BY Zenon DEF ProcessGone, TargetGone, Alive
<1>2. \A d \in Dumps, t \in Threads : tracer'[t] # d
  BY Zenon, <1>1, NobodyIsNone
<1>3. \A t \in Threads : ~Live(t)'
  BY Zenon, <1>1 DEF Live
<1> QED
  BY Zenon, <1>1, <1>2, <1>3 DEF DumpInv

\* A thread keeps its place among the living whenever a tracer lets go of it.

LEMMA DetachKeepsLiving ==
  ASSUME ThreadInv, NEW T, NEW passed, Detach(T, passed)
  PROVE  \A t \in Threads : pc'[t] # "exited" => pc[t] # "exited"
<1>1. \A t \in Threads : Restarted(pc[t], pc'[t])
  BY ZenonT(30), ResumedMoves DEF Detach, Restarted
<1> QED
  BY Zenon, <1>1 DEF Restarted, Mortal

LEMMA DumpInvThread ==
  ASSUME DumpInv, ThreadInv, NEW t \in Threads, Outside(t) \/ ThreadStep(t)
  PROVE  DumpInv'
<1>1. CASE ThreadExit(t) /\ UNCHANGED dispatchVars
  <2>1. /\ pc[t] # "exited" /\ stop[t] = "run" /\ pc' = [pc EXCEPT ![t] = "exited"]
        /\ tracer' = [tracer EXCEPT ![t] = Nobody]
        /\ UNCHANGED <<process, stop, dump>>
    BY <1>1 DEF ThreadExit, At, Runs, Live, GoTo, dispatchVars
  <2>2. /\ Alive' = Alive /\ ~Live(t)' /\ tracer'[t] = Nobody
        /\ \A u \in Threads \ {t} : Live(u)' = Live(u) /\ tracer'[u] = tracer[u]
    BY Zenon, <2>1 DEF Alive, Live, ThreadInv
  <2>3. \A d \in Dumps : Alive => t \notin dump[d].info
    BY <2>1 DEF DumpInv
  <2> QED
    BY <2>1, <2>2, <2>3, NobodyIsNone DEF DumpInv
<1>2. ASSUME NEW how, how # "alive", ProcessGone(how) PROVE DumpInv'
  BY Zenon, <1>2, DumpInvGone
<1>3. ASSUME NEW p \in Places \ {"exited"}, pc[t] # "exited", pc' = [pc EXCEPT ![t] = p],
             UNCHANGED <<process, ptraceVars, dump>>
      PROVE  DumpInv'
  BY Zenon, <1>3, DumpInvFrame DEF ptraceVars, ThreadInv, DumpInv, Kept
<1>4. CASE (\E s \in Signals : Send(t, s)) /\ UNCHANGED dispatchVars
  BY Zenon, <1>4, DumpInvFrame DEF Send, ptraceVars, dispatchVars, DumpInv, Kept
<1>5. CASE MortalStop(t) /\ UNCHANGED dispatchVars
  BY ZenonT(30), <1>5, DumpInvFrame DEF MortalStop, dispatchVars, DumpInv, ThreadInv, Kept
<1>6. CASE Deliver(t) /\ UNCHANGED dispatchVars
  <2>1. CASE tracer[t] \in Dumps
    <3>1. /\ stop' = [stop EXCEPT ![t] = "signal"]
          /\ UNCHANGED <<process, pc, tracer, dump>>
      BY <1>6, <2>1, Zenon DEF Deliver, dispatchVars
    <3> QED
      BY Zenon, <3>1, DumpInvFrame DEF DumpInv, ThreadInv, Kept
  <2>2. CASE tracer[t] \notin Dumps
    <3>1. /\ pc[t] = "idle" /\ pc' = [pc EXCEPT ![t] = "handler"]
          /\ UNCHANGED <<process, ptraceVars, dump>>
      BY <1>6, <2>2, Zenon DEF Deliver, At, GoTo, ptraceVars, dispatchVars
    <3> QED
      BY Zenon, <1>3, <3>1 DEF Places
  <2> QED
    BY Zenon, <2>1, <2>2
<1>7. CASE FallbackStep(t) /\ UNCHANGED dispatchVars
  <2>1. FallbackMove(t)
    BY Zenon, <1>7, FallbackMoves DEF ThreadInv
  <2>2. PICK p \in FallbackPlaces \cup {"idle", "sigpipe", "resend"} :
          pc' = [pc EXCEPT ![t] = p]
    BY Zenon, <2>1 DEF FallbackMove
  <2>3. p \in Places \ {"exited"} /\ pc[t] # "exited"
    BY <2>1 DEF FallbackMove, Places, FallbackPlaces, Tracing, Holding, OwnDump, Mortal
  <2> QED
    BY Zenon, <1>3, <1>7, <2>1, <2>2, <2>3 DEF FallbackMove, Keeping, dispatchVars
<1>8. CASE HandlerStep(t)
  <2>1. CASE \E how : how # "alive" /\ ProcessGone(how)
    BY Zenon, <1>2, <2>1
  <2>2. CASE ~\E how : how # "alive" /\ ProcessGone(how)
    <3>1. \E p : GoTo(t, p) /\ p \in Places \ {"exited"}
      BY <1>8, <2>2 DEF HandlerStep, debuggerd_signal_handler, resend_signal, Resend, Return,
           LockAndSpawn, WaitForStart, WaitForExit, futex_wait, Restore, Leave, Die,
           Places, Waits, Mortal, FallbackPlaces, OwnDump
    <3>2. pc[t] # "exited" /\ UNCHANGED <<process, ptraceVars, dump>>
      BY Zenon, <1>8, <2>2 DEF HandlerStep, debuggerd_signal_handler, resend_signal, Resend, Return,
           LockAndSpawn, WaitForStart, WaitForExit, futex_wait, Restore, Leave, Die,
           At, dispatchVars
    <3> QED
      BY Zenon, <1>3, <3>1, <3>2 DEF GoTo
  <2> QED
    BY Zenon, <2>1, <2>2
<1> QED
  BY Zenon, <1>1, <1>4, <1>5, <1>6, <1>7, <1>8 DEF Outside, ThreadStep, Signalled

LEMMA DumpUpdate ==
  ASSUME dump \in [Dumps -> Dumpers], NEW x, NEW r, dump' = [dump EXCEPT ![x] = r],
         x \in Dumps => r \in Dumpers
  PROVE  /\ dump' \in [Dumps -> Dumpers]
         /\ \A e \in Dumps : dump'[e] = IF e = x THEN r ELSE dump[e]
BY Zenon

LEMMA DumpInvPseudo ==
  ASSUME WellOrdered, DumpInv, ThreadInv, PseudoInv, PseudoStep
  PROVE  DumpInv'
<1>1. ASSUME NEW how, how # "alive", ProcessGone(how) PROVE DumpInv'
  BY Zenon, <1>1, DumpInvGone
<1>2. ASSUME NEW x, NEW r, dump' = [dump EXCEPT ![x] = r],
             x \in Dumps => r \in Dumpers /\ Kept(dump[x], r), UNCHANGED targetVars
      PROVE  DumpInv'
  <2>1. dump \in [Dumps -> Dumpers]
    BY Zenon DEF DumpInv
  <2>2. /\ dump' \in [Dumps -> Dumpers]
        /\ \A e \in Dumps : dump'[e] = IF e = x THEN r ELSE dump[e]
    BY Zenon, <1>2, <2>1, DumpUpdate
  <2>3. \A e \in Dumps : Kept(dump[e], dump'[e])
    BY Zenon, <1>2, <2>2 DEF Kept
  <2> QED
    BY Zenon, <1>2, <2>2, <2>3, DumpInvFrame DEF targetVars, ptraceVars
<1>3. ASSUME UNCHANGED <<targetVars, dump>> PROVE DumpInv'
  BY Zenon, <1>3, DumpInvFrame DEF targetVars, ptraceVars, DumpInv, Kept
<1>4. CASE PseudoStart
  <2> DEFINE x == Lowest(Dumps \ Forked)
             r(forked) == [dump[x] EXCEPT !.target = owner, !.sig = sig[owner],
                                          !.parent = forked]
  <2>1. CASE \E how : how # "alive" /\ ProcessGone(how)
    BY Zenon, <1>1, <2>1
  <2>2. CASE ~\E how : how # "alive" /\ ProcessGone(how)
    <3>1. UNCHANGED targetVars /\ \E forked \in {"exec", "none"} : dump' = [dump EXCEPT ![x] = r(forked)]
      BY Zenon, <1>4, <2>2 DEF PseudoStart
    <3>2. owner \in Threads /\ owner # Nobody
      BY Zenon, <1>4, NobodyIsNone DEF PseudoInv, PseudoStart, PseudoAt
    <3>3. sig[owner] \in Signals \cup {NoSignal}
      BY Zenon, <3>2 DEF ThreadInv, Around, Signals
    <3>4. x \in Dumps \ Forked
      <4>1. Dumps \ Forked # {} /\ Dumps \ Forked \subseteq Nat
        BY Zenon, <1>4, TargetAssumption DEF PseudoStart, Forked
      <4> QED
        BY Zenon, <4>1, LowestIsLeast
    <3>5. dump[x] \in Dumpers /\ dump[x].parent = "none"
      BY Zenon, <3>4 DEF DumpInv, Forked
    <3>6. \A forked \in {"exec", "none"} : r(forked) \in Dumpers /\ Kept(dump[x], r(forked))
      BY Zenon, <3>2, <3>3, <3>5 DEF Dumpers, Kept, Processes
    <3> HIDE DEF r, x
    <3> QED
      BY Zenon, <1>2, <3>1, <3>6
  <2> QED
    BY Zenon, <2>1, <2>2
<1>5. ASSUME Current \in Dumps
      PROVE  /\ dump[Current] \in Dumpers
             /\ dump[Current].parent = "zombie" => dump[Current].target # Nobody
  BY Zenon, <1>5 DEF DumpInv
<1>6. CASE PseudoRead
  <2> DEFINE r == [dump[Current] EXCEPT !.byte = "read"]
  <2>1. Current \in Dumps => r \in Dumpers /\ Kept(dump[Current], r)
    BY Zenon, <1>5 DEF Dumpers, Kept
  <2> QED
    BY Zenon, <1>2, <1>3, <1>6, <2>1 DEF PseudoRead
<1>7. CASE CreateVmProcess
  <2> DEFINE r(f) == [dump[Current] EXCEPT !.first = f]
  <2>1. \A f \in {"stopped", "running"} :
          Current \in Dumps => r(f) \in Dumpers /\ Kept(dump[Current], r(f))
    BY Zenon, <1>5 DEF Dumpers, Kept
  <2>2. \/ ProcessGone("exit")
        \/ UNCHANGED targetVars /\ \E f \in {"stopped", "running"} : dump' = [dump EXCEPT ![Current] = r(f)]
    BY Zenon, <1>7 DEF CreateVmProcess
  <2> HIDE DEF r
  <2> QED
    BY Zenon, <1>1, <1>2, <2>1, <2>2
<1>8. CASE PseudoWaitFirst
  BY Zenon, <1>1, <1>3, <1>8 DEF PseudoWaitFirst
<1>9. CASE PseudoWaitDump
  <2> DEFINE r == [dump[Current] EXCEPT !.parent = "reaped"]
  <2>1. /\ UNCHANGED targetVars /\ dump' = [dump EXCEPT ![Current] = r]
        /\ dump[Current].parent = "zombie"
    BY Zenon, <1>9 DEF PseudoWaitDump, Reap
  <2>2. Current \in Dumps => r \in Dumpers /\ Kept(dump[Current], r)
    BY Zenon, <1>5, <2>1 DEF Dumpers, Kept, Processes
  <2> HIDE DEF r
  <2> QED
    BY Zenon, <1>2, <2>1, <2>2
<1>10. CASE PseudoWaitEnd
  BY Zenon, <1>3, <1>10 DEF PseudoWaitEnd
<1>11. CASE PseudoExit
  <2>1. owner \in Threads /\ pc[owner] \in Waits
    BY Zenon, <1>11 DEF PseudoInv, PseudoExit, PseudoAt
  <2>2. PICK p \in Waits \cup {"restore"} : pc' = [pc EXCEPT ![owner] = p]
    BY Zenon, <1>11, <2>1 DEF PseudoExit, Waits
  <2>3. \A t \in Threads : pc'[t] # "exited" => pc[t] # "exited"
    BY Zenon, <2>1, <2>2 DEF ThreadInv, Waits
  <2>4. UNCHANGED <<process, tracer, stop, dump>>
    BY Zenon, <1>11 DEF PseudoExit, ptraceVars
  <2> QED
    BY Zenon, <2>3, <2>4, DumpInvFrame DEF DumpInv, Kept
<1> QED
  BY Zenon, <1>4, <1>6, <1>7, <1>8, <1>9, <1>10, <1>11 DEF PseudoStep

\* A step of crash_dump d that lets its threads be.

LEMMA DumpInvAdvance ==
  ASSUME DumpInv, NEW d \in Dumps, NEW r \in Dumpers, dump' = [dump EXCEPT ![d] = r],
         UNCHANGED targetVars, r.target = dump[d].target, r.target # Nobody,
         r.parent \notin {"none", "exec"}, r.child # "interrupt", r.cur = dump[d].cur,
         r.child \in {"none", "dump", "done", "dead"} => r.info = {},
         r.info = dump[d].info, dump[d].child # "interrupt"
  PROVE  DumpInv'
<1>1. (Alive' = Alive) /\ \A t \in Threads : Live(t)' = Live(t)
  BY DEF targetVars, Alive, Live
<1>2. UNCHANGED <<tracer, stop>>
  BY Zenon DEF targetVars, ptraceVars
<1>3. /\ dump' \in [Dumps -> Dumpers]
      /\ \A e \in Dumps : dump'[e] = IF e = d THEN r ELSE dump[e]
  BY Zenon, DumpUpdate DEF DumpInv
<1>4. dump[d].cur = Nobody
  BY Zenon DEF DumpInv
<1> QED
  BY <1>1, <1>2, <1>3, <1>4 DEF DumpInv

LEMMA DumperFacts ==
  ASSUME DumpInv, NEW d \in Dumps
  PROVE  /\ dump \in [Dumps -> Dumpers] /\ dump[d] \in Dumpers
         /\ dump[d].child # "interrupt" => dump[d].cur = Nobody
         /\ dump[d].todo \subseteq Threads /\ dump[d].info \subseteq Threads
         /\ dump[d].child # "none" => dump[d].parent \notin {"none", "exec"}
         /\ dump[d].parent # "none" => dump[d].target # Nobody
BY Zenon DEF DumpInv, Dumpers

LEMMA DumpInvKept ==
  ASSUME DumpInv, NEW d \in Dumps, NEW r \in Dumpers, dump' = [dump EXCEPT ![d] = r],
         Kept(dump[d], r), UNCHANGED targetVars
  PROVE  DumpInv'
<1>1. /\ dump' \in [Dumps -> Dumpers]
      /\ \A e \in Dumps : dump'[e] = IF e = d THEN r ELSE dump[e]
  BY Zenon, DumperFacts, DumpUpdate
<1>2. \A e \in Dumps : Kept(dump[e], dump'[e])
  BY Zenon, <1>1 DEF Kept
<1> QED
  BY Zenon, <1>1, <1>2, DumpInvFrame DEF targetVars, ptraceVars

LEMMA DumpInvFirstClones ==
  ASSUME DumpInv, ThreadInv, NEW d \in Dumps, FirstClones(d)
  PROVE  DumpInv'
<1>0. /\ dump \in [Dumps -> Dumpers] /\ dump[d] \in Dumpers
      /\ dump[d].child # "interrupt" => dump[d].cur = Nobody
      /\ dump[d].todo \subseteq Threads /\ dump[d].info \subseteq Threads
      /\ dump[d].child # "none" => dump[d].parent \notin {"none", "exec"}
      /\ dump[d].parent # "none" => dump[d].target # Nobody
  BY Zenon, DumperFacts
<1> DEFINE r(f) == [dump[d] EXCEPT !.first = f]
<1>1. \E f \in {"cloned", "exited", "failed"} : dump' = [dump EXCEPT ![d] = r(f)]
  BY Zenon DEF FirstClones
<1>2. \A f \in {"cloned", "exited", "failed"} : r(f) \in Dumpers /\ Kept(dump[d], r(f))
  BY Zenon, <1>0 DEF Dumpers, Kept
<1> HIDE DEF r
<1> QED
  BY Zenon, DumpInvKept, <1>1, <1>2 DEF FirstClones

LEMMA DumpInvFork ==
  ASSUME DumpInv, ThreadInv, NEW d \in Dumps, Fork(d)
  PROVE  DumpInv'
<1>0. /\ dump \in [Dumps -> Dumpers] /\ dump[d] \in Dumpers
      /\ dump[d].child # "interrupt" => dump[d].cur = Nobody
      /\ dump[d].todo \subseteq Threads /\ dump[d].info \subseteq Threads
      /\ dump[d].child # "none" => dump[d].parent \notin {"none", "exec"}
      /\ dump[d].parent # "none" => dump[d].target # Nobody
  BY Zenon, DumperFacts
<1>1. CASE dump' = [dump EXCEPT ![d].parent = "zombie"]
  <2> DEFINE r == [dump[d] EXCEPT !.parent = "zombie"]
  <2>1. r \in Dumpers /\ Kept(dump[d], r)
    BY Zenon, <1>0 DEF Dumpers, Kept, Processes, Fork
  <2> QED
    BY Zenon, DumpInvKept, <1>1, <2>1 DEF Fork
<1>2. CASE dump' = [dump EXCEPT ![d].parent = "wait", ![d].child = "seize",
                                ![d].todo = {t \in Threads : Live(t)}]
  <2> DEFINE r == [dump[d] EXCEPT !.parent = "wait", !.child = "seize",
                                  !.todo = {t \in Threads : Live(t)}]
  <2>1. dump' = [dump EXCEPT ![d] = r]
    BY Zenon, <1>0, <1>2
  <2>2. /\ r \in Dumpers /\ r.target = dump[d].target /\ r.parent = "wait"
        /\ r.child = "seize" /\ r.cur = dump[d].cur /\ r.info = dump[d].info
    BY Zenon, <1>0 DEF Dumpers, Processes, DumperSteps
  <2>3. dump[d].target # Nobody /\ dump[d].child = "none"
    BY <1>0 DEF Fork
  <2> HIDE DEF r
  <2> QED
    BY Zenon, <2>1, <2>2, <2>3, DumpInvAdvance DEF Fork
<1> QED
  BY Zenon, <1>1, <1>2 DEF Fork

LEMMA DumpInvParentExits ==
  ASSUME DumpInv, ThreadInv, NEW d \in Dumps, ParentExits(d)
  PROVE  DumpInv'
<1>0. /\ dump \in [Dumps -> Dumpers] /\ dump[d] \in Dumpers
      /\ dump[d].child # "interrupt" => dump[d].cur = Nobody
      /\ dump[d].todo \subseteq Threads /\ dump[d].info \subseteq Threads
      /\ dump[d].child # "none" => dump[d].parent \notin {"none", "exec"}
      /\ dump[d].parent # "none" => dump[d].target # Nobody
  BY Zenon, DumperFacts
<1> DEFINE r == [dump[d] EXCEPT !.parent = "zombie"]
<1>1. r \in Dumpers /\ Kept(dump[d], r)
  BY ZenonT(30), <1>0 DEF Dumpers, Kept, Processes, ParentExits
<1> QED
  BY Zenon, DumpInvKept, <1>1 DEF ParentExits

LEMMA DumpInvDies ==
  ASSUME DumpInv, ThreadInv, NEW d \in Dumps, Dies(d)
  PROVE  DumpInv'
<1>0. /\ dump \in [Dumps -> Dumpers] /\ dump[d] \in Dumpers
      /\ dump[d].child # "interrupt" => dump[d].cur = Nobody
      /\ dump[d].todo \subseteq Threads /\ dump[d].info \subseteq Threads
      /\ dump[d].child # "none" => dump[d].parent \notin {"none", "exec"}
      /\ dump[d].parent # "none" => dump[d].target # Nobody
  BY Zenon, DumperFacts
<1>1. /\ dump' \in [Dumps -> Dumpers] /\ \A e \in Dumps \ {d} : dump'[e] = dump[e]
      /\ dump'[d].target = dump[d].target /\ dump'[d].parent = dump[d].parent
      /\ dump'[d].child = "dead" /\ dump'[d].info = {} /\ dump'[d].cur = Nobody
  <2> DEFINE Firsts == {"none", "stopped", "running", "cloned", "exited", "failed"}
             s(f) == [dump[d] EXCEPT !.child = "dead", !.seized = FALSE,
                        !.todo = {}, !.info = {}, !.cur = Nobody, !.first = f]
  <2>1. \E f \in Firsts : dump' = [dump EXCEPT ![d] = s(f)]
    <3>1. Untraced(dump[d].first) \in Firsts
      BY <1>0 DEF Dumpers, Untraced
    <3>2. dump' = [dump EXCEPT ![d] = s(Untraced(dump[d].first))]
      BY DEF Dies
    <3> QED
      BY Zenon, <3>1, <3>2
  <2>2. \A f \in Firsts :
          /\ s(f) \in Dumpers /\ s(f).target = dump[d].target /\ s(f).parent = dump[d].parent
          /\ s(f).child = "dead" /\ s(f).info = {} /\ s(f).cur = Nobody
    BY Zenon, <1>0 DEF Dumpers, DumperSteps
  <2> HIDE DEF s
  <2> QED
    BY <1>0, <2>1, <2>2
<1>2. \A t \in Threads :
        /\ pc'[t] # "exited" => pc[t] # "exited"
        /\ tracer'[t] = IF tracer[t] = d THEN Nobody ELSE tracer[t]
        /\ tracer[t] # d => stop'[t] = stop[t]
  BY Zenon, DetachKeepsLiving DEF Dies, TracerGone, Detach
<1>3. (Alive' = Alive) /\ \A t \in Threads : Live(t)' => Live(t)
  BY <1>2 DEF Dies, Alive, Live
<1>4. dump[d].parent \notin {"none", "exec"} /\ dump[d].target # Nobody
  BY Zenon, <1>0 DEF Dies, Running
<1> QED
  BY <1>1, <1>2, <1>3, <1>4, NobodyIsNone DEF DumpInv

LEMMA DumpInvSeizePseudothread ==
  ASSUME DumpInv, ThreadInv, NEW d \in Dumps, SeizePseudothread(d)
  PROVE  DumpInv'
<1>0. /\ dump \in [Dumps -> Dumpers] /\ dump[d] \in Dumpers
      /\ dump[d].child # "interrupt" => dump[d].cur = Nobody
      /\ dump[d].todo \subseteq Threads /\ dump[d].info \subseteq Threads
      /\ dump[d].child # "none" => dump[d].parent \notin {"none", "exec"}
      /\ dump[d].parent # "none" => dump[d].target # Nobody
  BY Zenon, DumperFacts
<1> DEFINE r == [dump[d] EXCEPT !.child = "clone", !.seized = TRUE, !.byte = "sent"]
<1>1. dump' = [dump EXCEPT ![d] = r]
  BY Zenon, <1>0 DEF SeizePseudothread
<1>2. /\ r \in Dumpers /\ r.target = dump[d].target /\ r.parent = dump[d].parent
      /\ r.child = "clone" /\ r.cur = dump[d].cur /\ r.info = dump[d].info
  BY Zenon, <1>0 DEF Dumpers, DumperSteps
<1> HIDE DEF r
<1> QED
  BY Zenon, <1>0, <1>1, <1>2, DumpInvAdvance DEF SeizePseudothread, ChildAt

LEMMA DumpInvWaitForIntermediate ==
  ASSUME DumpInv, ThreadInv, NEW d \in Dumps, WaitForIntermediate(d)
  PROVE  DumpInv'
<1>0. /\ dump \in [Dumps -> Dumpers] /\ dump[d] \in Dumpers
      /\ dump[d].child # "interrupt" => dump[d].cur = Nobody
      /\ dump[d].todo \subseteq Threads /\ dump[d].info \subseteq Threads
      /\ dump[d].child # "none" => dump[d].parent \notin {"none", "exec"}
      /\ dump[d].parent # "none" => dump[d].target # Nobody
  BY Zenon, DumperFacts
<1> DEFINE r == [dump[d] EXCEPT !.child = "vm", !.first = "running"]
<1>1. dump' = [dump EXCEPT ![d] = r]
  BY Zenon, <1>0 DEF WaitForIntermediate
<1>2. /\ r \in Dumpers /\ r.target = dump[d].target /\ r.parent = dump[d].parent
      /\ r.child = "vm" /\ r.cur = dump[d].cur /\ r.info = dump[d].info
  BY Zenon, <1>0 DEF Dumpers, DumperSteps
<1> HIDE DEF r
<1> QED
  BY Zenon, <1>0, <1>1, <1>2, DumpInvAdvance DEF WaitForIntermediate, ChildAt

LEMMA DumpInvWaitForVm ==
  ASSUME DumpInv, ThreadInv, NEW d \in Dumps, WaitForVm(d)
  PROVE  DumpInv'
<1>0. /\ dump \in [Dumps -> Dumpers] /\ dump[d] \in Dumpers
      /\ dump[d].child # "interrupt" => dump[d].cur = Nobody
      /\ dump[d].todo \subseteq Threads /\ dump[d].info \subseteq Threads
      /\ dump[d].child # "none" => dump[d].parent \notin {"none", "exec"}
      /\ dump[d].parent # "none" => dump[d].target # Nobody
  BY Zenon, DumperFacts
<1> DEFINE r(gdb) == [dump[d] EXCEPT !.child = "detach", !.first = "exited",
                                     !.seized = FALSE, !.gdb = gdb]
<1>1. \E gdb \in BOOLEAN : dump' = [dump EXCEPT ![d] = r(gdb)]
  BY Zenon DEF WaitForVm
<1>2. \A gdb \in BOOLEAN :
        /\ r(gdb) \in Dumpers /\ r(gdb).target = dump[d].target
        /\ r(gdb).parent = dump[d].parent /\ r(gdb).child = "detach"
        /\ r(gdb).cur = dump[d].cur /\ r(gdb).info = dump[d].info
  BY Zenon, <1>0 DEF Dumpers, DumperSteps
<1> HIDE DEF r
<1> QED
  BY Zenon, <1>0, <1>1, <1>2, DumpInvAdvance DEF WaitForVm, ChildAt

LEMMA DumpInvDump ==
  ASSUME DumpInv, ThreadInv, NEW d \in Dumps, Dump(d)
  PROVE  DumpInv'
<1>0. /\ dump \in [Dumps -> Dumpers] /\ dump[d] \in Dumpers
      /\ dump[d].child # "interrupt" => dump[d].cur = Nobody
      /\ dump[d].todo \subseteq Threads /\ dump[d].info \subseteq Threads
      /\ dump[d].child # "none" => dump[d].parent \notin {"none", "exec"}
      /\ dump[d].parent # "none" => dump[d].target # Nobody
  BY Zenon, DumperFacts
<1> DEFINE r == [dump[d] EXCEPT !.child = "done"]
<1>1. dump' = [dump EXCEPT ![d] = r]
  BY Zenon, <1>0 DEF Dump
<1>2. /\ r \in Dumpers /\ r.target = dump[d].target /\ r.parent = dump[d].parent
      /\ r.child = "done" /\ r.cur = dump[d].cur /\ r.info = dump[d].info
  BY Zenon, <1>0 DEF Dumpers, DumperSteps
<1>3. dump[d].info = {}
  BY DEF Dump, ChildAt, DumpInv
<1> HIDE DEF r
<1> QED
  BY Zenon, <1>0, <1>1, <1>2, <1>3, DumpInvAdvance DEF Dump, ChildAt

LEMMA DumpInvSeizeThread ==
  ASSUME WellOrdered, DumpInv, ThreadInv, NEW d \in Dumps, SeizeThread(d)
  PROVE  DumpInv'
<1>0. /\ dump \in [Dumps -> Dumpers] /\ dump[d] \in Dumpers
      /\ dump[d].child # "interrupt" => dump[d].cur = Nobody
      /\ dump[d].todo \subseteq Threads /\ dump[d].info \subseteq Threads
      /\ dump[d].child # "none" => dump[d].parent \notin {"none", "exec"}
      /\ dump[d].parent # "none" => dump[d].target # Nobody
  BY Zenon, DumperFacts
<1> DEFINE t == Lowest(dump[d].todo)
           r == [dump[d] EXCEPT !.child = "interrupt", !.cur = t, !.todo = @ \ {t}]
           s == [dump[d] EXCEPT !.todo = @ \ {t}]
<1>1. t \in Threads
  <2>1. dump[d].todo \subseteq Nat /\ dump[d].todo # {}
    BY Zenon, <1>0, TargetAssumption DEF SeizeThread
  <2> QED
    BY Zenon, <1>0, <2>1, LowestIsLeast
<1>2. /\ r \in Dumpers /\ r.target = dump[d].target /\ r.parent = dump[d].parent
      /\ r.child = "interrupt" /\ r.cur = t /\ r.info = dump[d].info
      /\ s \in Dumpers /\ s.target = dump[d].target /\ s.parent = dump[d].parent
      /\ s.child = dump[d].child /\ s.cur = dump[d].cur /\ s.info = dump[d].info
  BY Zenon, <1>0, <1>1 DEF Dumpers, DumperSteps
<1>3. \/ /\ Live(t) /\ tracer[t] = Nobody /\ tracer' = [tracer EXCEPT ![t] = d]
         /\ dump' = [dump EXCEPT ![d] = r]
      \/ dump' = [dump EXCEPT ![d] = s] /\ UNCHANGED tracer
  BY Zenon, <1>0 DEF SeizeThread
<1>4. UNCHANGED <<process, pc, stop>> /\ dump[d].child = "seize"
  BY Zenon DEF SeizeThread, ChildAt
<1>5. (Alive' = Alive) /\ \A u \in Threads : Live(u)' = Live(u)
  BY ZenonT(30), <1>4 DEF Alive, Live
<1> HIDE DEF r, s, t
<1>6. CASE dump' = [dump EXCEPT ![d] = s] /\ UNCHANGED tracer
  <2>1. /\ dump' \in [Dumps -> Dumpers]
        /\ \A e \in Dumps : dump'[e] = IF e = d THEN s ELSE dump[e]
    BY ZenonT(30), <1>0, <1>2, <1>6, DumpUpdate
  <2> QED
    BY <1>2, <1>4, <1>5, <1>6, <2>1 DEF DumpInv
<1>7. CASE /\ Live(t) /\ tracer[t] = Nobody /\ tracer' = [tracer EXCEPT ![t] = d]
           /\ dump' = [dump EXCEPT ![d] = r]
  <2>1. /\ dump' \in [Dumps -> Dumpers]
        /\ \A e \in Dumps : dump'[e] = IF e = d THEN r ELSE dump[e]
    BY ZenonT(30), <1>0, <1>2, <1>7, DumpUpdate
  <2>2. /\ tracer'[t] = d /\ \A u \in Threads \ {t} : tracer'[u] = tracer[u]
        /\ \A e \in Dumps : t \notin dump[e].info /\ t # dump[e].cur
    BY <1>1, <1>7, NobodyIsNone DEF DumpInv, ThreadInv, Live
  <2>3. dump[d].parent \notin {"none", "exec"} /\ dump[d].target # Nobody /\ dump[d].cur = Nobody
    BY ZenonT(30), <1>0, <1>4
  <2> QED
    BY <1>1, <1>2, <1>4, <1>5, <2>1, <2>2, <2>3, NobodyIsNone DEF DumpInv
<1> QED
  BY Zenon, <1>3, <1>6, <1>7

LEMMA DumpInvInterrupt ==
  ASSUME DumpInv, ThreadInv, NEW d \in Dumps, Interrupt(d)
  PROVE  DumpInv'
<1>0. /\ dump \in [Dumps -> Dumpers] /\ dump[d] \in Dumpers
      /\ dump[d].child # "interrupt" => dump[d].cur = Nobody
      /\ dump[d].todo \subseteq Threads /\ dump[d].info \subseteq Threads
      /\ dump[d].child # "none" => dump[d].parent \notin {"none", "exec"}
      /\ dump[d].parent # "none" => dump[d].target # Nobody
  BY Zenon, DumperFacts
<1> DEFINE t == dump[d].cur
           i == IF Live(t) THEN dump[d].info \cup {t} ELSE dump[d].info
           r == [dump[d] EXCEPT !.child = "seize", !.cur = Nobody, !.info = i]
<1>1. t \in Threads /\ Alive /\ dump[d].child = "interrupt"
  BY DEF Interrupt, Collect, ChildAt, DumpInv
<1>2. /\ r \in Dumpers /\ r.target = dump[d].target /\ r.parent = dump[d].parent
      /\ r.child = "seize" /\ r.cur = Nobody /\ r.info = i
  BY Zenon, <1>0, <1>1 DEF Dumpers, DumperSteps
<1>3. dump' = [dump EXCEPT ![d] = r]
  BY Zenon, <1>0 DEF Interrupt, Collect
<1>4. /\ UNCHANGED <<process, pc, tracer>>
      /\ stop' = [stop EXCEPT ![t] = IF Live(t) /\ @ = "run" THEN "event" ELSE @]
  BY Zenon DEF Interrupt, Collect
<1>5. (Alive' = Alive) /\ \A u \in Threads : Live(u)' = Live(u)
  BY Zenon, <1>4 DEF Alive, Live
<1>6. /\ dump' \in [Dumps -> Dumpers]
      /\ \A e \in Dumps : dump'[e] = IF e = d THEN r ELSE dump[e]
  BY Zenon, <1>0, <1>2, <1>3, DumpUpdate
<1>7. /\ \A u \in Threads : stop'[u] = "run" => stop[u] = "run"
      /\ Live(t) => stop'[t] # "run" /\ tracer[t] = d
      /\ tracer[t] = d => Live(t)
  <2>1. tracer[t] = d => Live(t)
    BY Zenon, <1>1 DEF ThreadInv, Live
  <2> QED
    BY ZenonT(30), <1>1, <1>4, <2>1 DEF DumpInv, ThreadInv
<1>8. dump[d].parent \notin {"none", "exec"} /\ dump[d].target # Nobody
  BY ZenonT(30), <1>0, <1>1
<1> HIDE DEF r
<1> QED
  BY <1>1, <1>2, <1>4, <1>5, <1>6, <1>7, <1>8, NobodyIsNone DEF DumpInv

LEMMA DumpInvDetachThread ==
  ASSUME DumpInv, ThreadInv, NEW d \in Dumps, DetachThread(d)
  PROVE  DumpInv'
<1>0. /\ dump \in [Dumps -> Dumpers] /\ dump[d] \in Dumpers
      /\ dump[d].child # "interrupt" => dump[d].cur = Nobody
      /\ dump[d].todo \subseteq Threads /\ dump[d].info \subseteq Threads
      /\ dump[d].child # "none" => dump[d].parent \notin {"none", "exec"}
      /\ dump[d].parent # "none" => dump[d].target # Nobody
  BY DumperFacts
<1> DEFINE t == Lowest(dump[d].info)
           T == {t} \cap {u \in Threads : tracer[u] = d}
           r == [dump[d] EXCEPT !.info = @ \ {t},
                                !.child = IF dump[d].info = {t} THEN "dump" ELSE @]
<1>1. dump' = [dump EXCEPT ![d] = r] /\ dump[d].child = "detach"
  BY Zenon, <1>0 DEF DetachThread, DetachNext, ChildAt
<1>2. /\ r \in Dumpers /\ r.target = dump[d].target /\ r.parent = dump[d].parent
      /\ r.child \in {"dump", "detach"} /\ r.cur = dump[d].cur
      /\ r.info = dump[d].info \ {t}
      /\ r.child = "dump" => dump[d].info = {t}
  BY Zenon, <1>0, <1>1 DEF Dumpers, DumperSteps
<1>3. /\ dump' \in [Dumps -> Dumpers]
      /\ \A e \in Dumps : dump'[e] = IF e = d THEN r ELSE dump[e]
  BY Zenon, <1>0, <1>1, <1>2, DumpUpdate
<1>4. Detach(T, ~dump[d].gdb /\ stop_sig[t] \notin DebuggerSignals) /\ process' = process
  BY Zenon DEF DetachThread, DetachNext
<1> HIDE DEF t, r
<1>5. \A u \in Threads :
        /\ pc'[u] # "exited" => pc[u] # "exited"
        /\ tracer'[u] = IF u \in T THEN Nobody ELSE tracer[u]
        /\ u \notin T => stop'[u] = stop[u]
  BY ZenonT(30), <1>4, DetachKeepsLiving DEF Detach
<1>6. (Alive' = Alive) /\ \A u \in Threads : Live(u)' => Live(u)
  BY <1>4, <1>5 DEF Alive, Live
<1>7. dump[d].parent \notin {"none", "exec"} /\ dump[d].target # Nobody /\ dump[d].cur = Nobody
  BY Zenon, <1>0, <1>1
<1>8. \A u \in Threads \cup Dumps : u # Nobody
  BY Zenon, NobodyIsNone
<1>9. \A u \in Threads : u \in T <=> u = t /\ tracer[u] = d
  BY Zenon
<1> HIDE DEF T
<1>10. \A e \in Dumps : \A u \in Threads :
         /\ tracer'[u] = e => tracer[u] = e /\ (e = d => u # t)
         /\ tracer[u] = e /\ (e # d \/ u # t) => tracer'[u] = e /\ stop'[u] = stop[u]
  BY Zenon, <1>5, <1>8, <1>9
<1>11. ASSUME NEW e \in Dumps, e # d PROVE dump'[e] = dump[e]
  BY Zenon, <1>3, <1>11
<1>12. dump'[d] = r
  BY Zenon, <1>3
<1>13. ASSUME NEW e \in Dumps
       PROVE  /\ dump'[e].target = Nobody => dump'[e].parent = "none"
              /\ dump'[e].parent \in {"none", "exec"} => dump'[e].child = "none"
              /\ dump'[e].child # "interrupt" => dump'[e].cur = Nobody
              /\ dump'[e].child \in {"none", "dump", "done", "dead"} => dump'[e].info = {}
              /\ dump'[e].child = "interrupt" /\ Alive' => dump'[e].cur \in Threads
  <2>1. CASE e = d
    BY Zenon, <1>2, <1>7, <1>12, <2>1
  <2>2. CASE e # d
    BY Zenon, <1>6, <1>11, <2>2 DEF DumpInv
  <2> QED BY Zenon, <2>1, <2>2
<1>14. \A e \in Dumps : \A u \in Threads :
         /\ tracer'[u] = e => u \in dump'[e].info \/ u = dump'[e].cur
         /\ u = dump'[e].cur /\ Live(u)' => tracer'[u] = e
         /\ u \in dump'[e].info /\ Alive' => tracer'[u] = e /\ stop'[u] # "run"
  BY <1>2, <1>6, <1>7, <1>8, <1>10, <1>11, <1>12 DEF DumpInv
<1> QED
  BY Zenon, <1>3, <1>13, <1>14 DEF DumpInv

LEMMA DumpInvDumper ==
  ASSUME WellOrdered, DumpInv, ThreadInv, NEW d \in Dumps, FirstClones(d) \/ DumperStep(d)
  PROVE  DumpInv'
BY Zenon, DumpInvFirstClones, DumpInvFork, DumpInvParentExits, DumpInvDies, DumpInvSeizePseudothread, DumpInvWaitForIntermediate, DumpInvWaitForVm, DumpInvDump, DumpInvSeizeThread, DumpInvInterrupt, DumpInvDetachThread DEF DumperStep

(* OrderInv is inductive.                                                      *)

Working == {"read", "clone", "wait_first", "wait_dump", "wait_end"}

LEMMA OrderInvInit == Init => OrderInv
<1> SUFFICES ASSUME Init PROVE OrderInv
  OBVIOUS
<1>1. dump = [d \in Dumps |-> NoDump]
  BY Zenon DEF Init, DispatchInit
<1>2. \A d \in Dumps : dump[d].target = Nobody /\ dump[d].sig = NoSignal
  BY Zenon, <1>1 DEF NoDump
<1> QED
  BY Zenon, <1>2 DEF OrderInv, Forked, NoSignal

\* No new crash_dump is started, none that has ended comes back, and the
\* pseudothread goes on waiting for one that has not.

LEMMA OrderInvFrame ==
  ASSUME OrderInv, Alive' => Alive,
         \A d \in Dumps : /\ dump'[d].target = dump[d].target /\ dump'[d].sig = dump[d].sig
                          /\ Eof(d) => Eof(d)',
         Alive /\ pseudo \in Working => \/ pseudo' \in Working
                                        \/ dump[Current].sig # "crash" \/ Eof(Current)' \/ ~Alive'
  PROVE  OrderInv'
<1>1. Forked' = Forked /\ Current' = Current
  BY Zenon DEF Forked, Current
<1>2. ASSUME NEW d \in Dumps, Alive', dump'[d].sig = "crash", ~Eof(d)'
      PROVE  d = Current' /\ pseudo' \in Working
  BY Zenon, <1>1, <1>2 DEF OrderInv, Working
<1> QED
  BY Zenon, <1>1, <1>2 DEF OrderInv, Working

LEMMA OrderInvGone ==
  ASSUME OrderInv, NEW how, how # "alive", ProcessGone(how)
  PROVE  OrderInv'
<1>1. dump' = dump /\ ~Alive'
  BY Zenon DEF ProcessGone, TargetGone, Alive
<1> QED
  BY Zenon, <1>1, OrderInvFrame DEF Eof

LEMMA OrderInvPseudoStart ==
  ASSUME WellOrdered, OrderInv, DumpInv, ThreadInv, PseudoInv, PseudoStart
  PROVE  OrderInv'
<1>1. CASE ProcessGone("exit")
  BY Zenon, <1>1, OrderInvGone
<1>2. CASE ~ProcessGone("exit")
  <2> DEFINE x == Lowest(Dumps \ Forked)
             r(forked) == [dump[x] EXCEPT !.target = owner, !.sig = sig[owner],
                                          !.parent = forked]
  <2>1. PICK forked \in {"exec", "none"} : dump' = [dump EXCEPT ![x] = r(forked)]
    BY Zenon, <1>2 DEF PseudoStart
  <2>2. x \in Dumps \ Forked /\ \A y \in Dumps \ Forked : x <= y
    <3>1. Dumps \ Forked # {} /\ Dumps \ Forked \subseteq Nat
      BY Zenon, TargetAssumption DEF PseudoStart, Forked
    <3> QED
      BY Zenon, <3>1, LowestIsLeast
  <2>3. owner \in Threads /\ owner # Nobody /\ pseudo = "start" /\ pseudo' = "read" /\ Alive
    BY Zenon, <1>2, NobodyIsNone DEF PseudoInv, PseudoStart, PseudoAt, PseudoGoTo
  <2>4. r(forked).target = owner
    <3>1. dump[x] \in Dumpers
      BY Zenon, <2>2 DEF DumpInv
    <3> QED
      BY Zenon, <3>1 DEF Dumpers
  <2>5. dump'[x] = r(forked) /\ \A d \in Dumps \ {x} : dump'[d] = dump[d]
    BY <2>1, <2>2 DEF DumpInv
  <2> HIDE DEF x, r
  <2>6. Forked' = Forked \cup {x}
    BY Zenon, <2>2, <2>3, <2>4, <2>5 DEF Forked
  <2>7. \A d \in Forked : d < x
    <3> TAKE d \in Forked
    <3>1. d \in Nat /\ x \in Nat /\ d # x
      BY Zenon, <2>2, TargetAssumption DEF Forked
    <3>2. ~(x < d)
      BY Zenon, <2>2 DEF OrderInv
    <3> QED
      BY <3>1, <3>2
  <2>8. Current' = x
    <3>1. x \in Forked' /\ x \in Nat /\ \A y \in Forked' : y \in Nat /\ x >= y
      <4>1. Forked \subseteq Nat /\ x \in Nat
        BY Zenon, <2>2, TargetAssumption DEF Forked
      <4> QED
        BY <2>6, <2>7, <4>1
    <3>2. \A z \in Forked' : (\A y \in Forked' : z >= y) => z = x
      <4> TAKE z \in Forked'
      <4> HAVE \A y \in Forked' : z >= y
      <4>1. z \in Nat /\ x >= z /\ z >= x
        BY Zenon, <3>1
      <4> QED
        BY <3>1, <4>1
    <3>3. Current' = CHOOSE z \in Forked' : \A y \in Forked' : z >= y
      BY DEF Current, Max
    <3> QED
      BY Zenon, <3>1, <3>2, <3>3
  <2>9. \A d \in Forked', e \in Dumps : e < d => e \in Forked'
    <3> TAKE d \in Forked', e \in Dumps
    <3> HAVE e < d
    <3>1. CASE d \in Forked
      BY Zenon, <2>6, <3>1 DEF OrderInv
    <3>2. CASE d = x
      <4>1. e \in Nat /\ x \in Nat /\ ~(x <= e)
        BY <2>2, <3>2, TargetAssumption
      <4> QED
        BY Zenon, <2>2, <2>6, <4>1
    <3> QED
      BY Zenon, <2>6, <3>1, <3>2
  <2>10. \A d \in Dumps : dump'[d].target = Nobody => dump'[d].sig = NoSignal
    BY Zenon, <2>2, <2>3, <2>4, <2>5 DEF OrderInv
  <2>11. \A d \in Dumps : dump'[d].sig = "crash" /\ ~Eof(d)' => d = x
    <3> SUFFICES ASSUME NEW d \in Dumps, d # x, dump'[d].sig = "crash", ~Eof(d)'
                 PROVE  FALSE
      BY Zenon
    <3>1. dump[d].sig = "crash" /\ ~Eof(d)
      BY Zenon, <2>5 DEF Eof
    <3> QED
      BY Zenon, <2>3, <3>1 DEF OrderInv
  <2> QED
    BY Zenon, <2>3, <2>8, <2>9, <2>10, <2>11 DEF OrderInv
<1> QED
  BY Zenon, <1>1, <1>2

LEMMA OrderInvPseudo ==
  ASSUME WellOrdered, OrderInv, DumpInv, ThreadInv, PseudoInv, PseudoStep
  PROVE  OrderInv'
<1>1. ASSUME NEW how, how # "alive", ProcessGone(how) PROVE OrderInv'
  BY Zenon, <1>1, OrderInvGone
<1>2. ASSUME UNCHANGED <<targetVars, dump>>,
             pseudo \in Working => \/ pseudo' \in Working
                                   \/ dump[Current].sig # "crash" \/ Eof(Current)
      PROVE  OrderInv'
  <2>1. (Alive' => Alive) /\ (Eof(Current) => Eof(Current)')
    BY Zenon, <1>2 DEF targetVars, Alive, Eof, Current, Forked
  <2> QED
    BY Zenon, <1>2, <2>1, OrderInvFrame DEF Eof
<1>3. CASE PseudoStart
  BY Zenon, <1>3, OrderInvPseudoStart
<1>4. CASE PseudoRead
  <2>1. CASE UNCHANGED dump
    BY Zenon, <1>2, <1>4, <2>1 DEF PseudoRead, PseudoGoTo, Working
  <2>2. CASE dump' = [dump EXCEPT ![Current].byte = "read"]
    <3>1. \A d \in Dumps :
            /\ dump'[d].target = dump[d].target /\ dump'[d].sig = dump[d].sig
            /\ dump'[d].parent = dump[d].parent /\ dump'[d].child = dump[d].child
      BY <2>2 DEF DumpInv, Dumpers
    <3>2. CASE pseudo' \in Working
      BY Zenon, <1>4, <3>1, <3>2, OrderInvFrame DEF PseudoRead, targetVars, Alive, Eof
    <3>3. CASE pseudo' \notin Working
      BY Zenon, <1>2, <1>4, <3>3 DEF PseudoRead, PseudoGoTo, Working
    <3> QED
      BY Zenon, <3>2, <3>3
  <2> QED
    BY Zenon, <1>4, <2>1, <2>2 DEF PseudoRead
<1>5. CASE CreateVmProcess
  <2>1. CASE ~ProcessGone("exit")
    <3>1. /\ pseudo' = "wait_first" /\ UNCHANGED targetVars
          /\ \E f \in {"stopped", "running"} : dump' = [dump EXCEPT ![Current].first = f]
      BY Zenon, <1>5, <2>1 DEF CreateVmProcess
    <3>2. \A d \in Dumps :
            /\ dump'[d].target = dump[d].target /\ dump'[d].sig = dump[d].sig
            /\ dump'[d].parent = dump[d].parent /\ dump'[d].child = dump[d].child
      BY <3>1 DEF DumpInv, Dumpers
    <3> QED
      BY Zenon, <3>1, <3>2, OrderInvFrame DEF targetVars, Alive, Eof, Working
  <2> QED
    BY Zenon, <1>1, <2>1
<1>6. CASE PseudoWaitFirst
  BY Zenon, <1>1, <1>2, <1>6 DEF PseudoWaitFirst, PseudoGoTo, Working
<1>7. CASE PseudoWaitDump
  <2>1. /\ UNCHANGED targetVars /\ dump' = [dump EXCEPT ![Current].parent = "reaped"]
        /\ pseudo' = IF dump[Current].sig = "crash" THEN "wait_end" ELSE "exit"
        /\ dump[Current].parent = "zombie"
    BY Zenon, <1>7 DEF PseudoWaitDump, Reap, PseudoGoTo
  <2>2. \A d \in Dumps :
          /\ dump'[d].target = dump[d].target /\ dump'[d].sig = dump[d].sig
          /\ dump'[d].parent = IF d = Current THEN "reaped" ELSE dump[d].parent
          /\ dump'[d].child = dump[d].child
    BY <2>1 DEF DumpInv, Dumpers
  <2> QED
    BY Zenon, <2>1, <2>2, OrderInvFrame DEF targetVars, Alive, Eof, Working
<1>8. CASE PseudoWaitEnd
  BY Zenon, <1>2, <1>8 DEF PseudoWaitEnd
<1>9. CASE PseudoExit
  <2>1. /\ pseudo = "exit" /\ UNCHANGED <<process, dump>>
    BY Zenon, <1>9 DEF PseudoExit, PseudoAt
  <2> QED
    BY Zenon, <2>1, OrderInvFrame DEF Alive, Eof, Working
<1> QED
  BY Zenon, <1>3, <1>4, <1>5, <1>6, <1>7, <1>8, <1>9 DEF PseudoStep

LEMMA OrderInvDumper ==
  ASSUME OrderInv, DumpInv, NEW d \in Dumps, FirstClones(d) \/ DumperStep(d)
  PROVE  OrderInv'
<1>1. UNCHANGED <<process, pseudo>>
  BY Zenon DEF FirstClones, DumperStep, Fork, ParentExits, Dies, SeizeThread, Interrupt, Collect,
         SeizePseudothread, WaitForIntermediate, WaitForVm, DetachThread, DetachNext, Dump,
         targetVars, pseudoVars
<1>2. ~Eof(d) \/ FirstClones(d)
  BY Zenon DEF DumperStep, Fork, ParentExits, Dies, Running, SeizeThread, Interrupt, Collect,
         SeizePseudothread, WaitForIntermediate, WaitForVm, DetachThread, DetachNext, Dump,
         ChildAt, Eof
<1>3. \A e \in Dumps : /\ dump'[e].target = dump[e].target /\ dump'[e].sig = dump[e].sig
                       /\ e # d => dump'[e] = dump[e]
  <2>1. dump \in [Dumps -> Dumpers] /\ dump[d] \in Dumpers
    BY Zenon DEF DumpInv
  <2>2. CASE FirstClones(d)
    BY <2>1, <2>2 DEF FirstClones, Dumpers
  <2>3. CASE Fork(d)
    BY <2>1, <2>3 DEF Fork, Dumpers
  <2>4. CASE ParentExits(d) \/ Dump(d)
    BY <2>1, <2>4 DEF ParentExits, Dump, Dumpers
  <2>5. CASE Dies(d)
    BY Zenon, <2>1, <2>5 DEF Dies, Dumpers
  <2>6. CASE SeizeThread(d)
    BY <2>1, <2>6 DEF SeizeThread, Dumpers
  <2>7. CASE Interrupt(d)
    BY Zenon, <2>1, <2>7 DEF Interrupt, Collect, Dumpers
  <2>8. CASE SeizePseudothread(d) \/ WaitForIntermediate(d)
    BY <2>1, <2>8 DEF SeizePseudothread, WaitForIntermediate, Dumpers
  <2>9. CASE WaitForVm(d)
    BY <2>1, <2>9 DEF WaitForVm, Dumpers
  <2>10. CASE DetachThread(d)
    BY Zenon, <2>1, <2>10 DEF DetachThread, DetachNext, Dumpers
  <2> QED
    BY Zenon, <2>2, <2>3, <2>4, <2>5, <2>6, <2>7, <2>8, <2>9, <2>10 DEF DumperStep
<1>4. FirstClones(d) => dump'[d].parent = dump[d].parent /\ dump'[d].child = dump[d].child
  BY DEF FirstClones, DumpInv, Dumpers
<1>5. \A e \in Dumps : Eof(e) => Eof(e)'
  BY Zenon, <1>2, <1>3, <1>4 DEF Eof
<1> QED
  BY Zenon, <1>1, <1>3, <1>5, OrderInvFrame DEF Alive

LEMMA OrderInvThread ==
  ASSUME OrderInv, PseudoInv, NEW t \in Threads, Outside(t) \/ ThreadStep(t)
  PROVE  OrderInv'
<1>1. CASE \E how : how # "alive" /\ ProcessGone(how)
  BY Zenon, <1>1, OrderInvGone
<1>2. CASE UNCHANGED dump /\ UNCHANGED process /\ (pseudo' = pseudo \/ pseudo = "none")
  BY Zenon, <1>2, OrderInvFrame DEF Alive, Eof, Working
<1>3. CASE LockAndSpawn(t)
  <2>1. pseudo = "none"
    BY Zenon, <1>3, NobodyIsNone DEF LockAndSpawn, PseudoInv
  <2> QED
    BY Zenon, <1>1, <1>2, <1>3, <2>1 DEF LockAndSpawn
<1>4. CASE Die(t)
  BY Zenon, <1>1, <1>4 DEF Die
<1>5. CASE FallbackStep(t) /\ UNCHANGED dispatchVars
  <2>1. UNCHANGED process
    BY Zenon, <1>5 DEF FallbackStep, trace_handler, EnableAllocator, DisableAllocator, Offer,
         SignalSibling, PollOutput, ForwardOutput, Exchange, Withdraw, Traced, Load, Take,
         TakeIf, WriteTid, CloseTaken, LockCrash, UnlockCrash, Keeping
  <2> QED
    BY Zenon, <1>2, <1>5, <2>1 DEF dispatchVars, pseudoVars
<1>6. CASE Outside(t) \/ Signalled(t)
  BY Zenon, <1>2, <1>6 DEF Outside, Send, ThreadExit, Signalled, Deliver, MortalStop,
       dispatchVars, pseudoVars
<1>7. CASE HandlerStep(t) /\ ~LockAndSpawn(t) /\ ~Die(t)
  BY Zenon, <1>2, <1>7 DEF HandlerStep, debuggerd_signal_handler, resend_signal, Resend,
       WaitForStart, WaitForExit, futex_wait, Restore, Leave, dispatchVars, pseudoVars
<1> QED
  BY Zenon, <1>3, <1>4, <1>5, <1>6, <1>7 DEF ThreadStep

LEMMA FirstCloneWhileAlive ==
  ASSUME DumpInv, Next, NEW e \in Dumps, dump[e].first = "none", dump'[e].first # "none"
  PROVE  Alive
<1>1. dump \in [Dumps -> Dumpers]
  BY Zenon DEF DumpInv
<1>2. CASE PseudoStep \/ \E t \in Threads : Outside(t) \/ ThreadStep(t)
  <2>1. \A t \in Threads : FallbackStep(t) => Alive
    BY ZenonT(30) DEF FallbackStep, trace_handler, EnableAllocator, DisableAllocator, Offer,
         SignalSibling, PollOutput, ForwardOutput, Exchange, Withdraw, Traced, Load, Take,
         TakeIf, WriteTid, CloseTaken, LockCrash, UnlockCrash, At, Runs, Live
  <2>2. \A t \in Threads : Outside(t) \/ Signalled(t) \/ HandlerStep(t) => Alive
    BY ZenonT(60) DEF Outside, Send, ThreadExit, Signalled, Deliver, MortalStop, HandlerStep,
         debuggerd_signal_handler, resend_signal, Resend, LockAndSpawn, WaitForStart,
         WaitForExit, futex_wait, Restore, Leave, Die, At, Runs, Live
  <2>3. PseudoStep => Alive
    BY DEF PseudoStep, PseudoStart, PseudoRead, CreateVmProcess, PseudoWaitFirst,
         PseudoWaitDump, Reap, PseudoWaitEnd, PseudoExit, PseudoAt
  <2> QED
    BY Zenon, <1>2, <2>1, <2>2, <2>3 DEF ThreadStep
<1>3. CASE SetNoNewPrivs \/ Continue \/ Kill \/ Over
  BY Zenon, <1>3 DEF SetNoNewPrivs, Continue, Kill, Over, vars, dispatchVars
<1>4. ASSUME NEW d \in Dumps, FirstClones(d) PROVE FALSE
  BY Zenon, <1>1, <1>4 DEF FirstClones, Dumpers
<1>5. ASSUME NEW d \in Dumps, DumperStep(d) PROVE Alive
  <2>1. CASE Fork(d)
    BY <1>1, <2>1 DEF Fork, Dumpers
  <2>2. CASE ParentExits(d) \/ Dump(d)
    BY <1>1, <2>2 DEF ParentExits, Dump, Dumpers
  <2>3. CASE Dies(d)
    <3>1. Untraced("none") = "none"
      BY DEF Untraced
    <3> QED
      BY Zenon, <1>1, <2>3, <3>1 DEF Dies, Dumpers
  <2>4. CASE DetachThread(d)
    BY Zenon, <1>1, <2>4 DEF DetachThread, DetachNext, Dumpers
  <2> QED
    BY Zenon, <1>5, <2>1, <2>2, <2>3, <2>4 DEF DumperStep, SeizeThread, Interrupt, Collect,
       SeizePseudothread, WaitForIntermediate, WaitForVm
<1> QED
  BY Zenon, <1>2, <1>3, <1>4, <1>5 DEF Next, SystemStep

\* The thread whose stack the pseudothread works on stays in its futex waits,
\* and holds crash_mutex, until the pseudothread is gone: any number of threads
\* that crash or are asked for dumps, any number of crash_dumps that stop,
\* resume and abandon them.

-------------------------------------------------------------------------------
(* The theorems. *)
INSTANCE FiniteSetTheorems
INSTANCE NaturalsInduction
INSTANCE WellFoundedInduction

LEMMA NumbersWellOrdered == WellOrdered
<1> SUFFICES ASSUME NEW S, S \subseteq Nat, S # {}
             PROVE  \E x \in S : \A y \in S : x <= y
  BY Zenon DEF WellOrdered
<1>1. PICK x \in S : \A y \in S : ~(<<y, x>> \in OpToRel(<, Nat))
  BY Zenon, NatLessThanWellFounded, WFMin
<1>2. \A y \in S : x <= y
  <2> TAKE y \in S
  <2>1. x \in Nat /\ y \in Nat /\ ~(y < x)
    BY Zenon, <1>1 DEF OpToRel
  <2> QED
    BY <2>1
<1> QED
  BY Zenon, <1>2

LEMMA InvInductive == Inv /\ [Next]_vars => Inv'
<1> SUFFICES ASSUME Inv, [Next]_vars PROVE Inv'
  BY Zenon
<1> USE DEF Inv
<1>1. ASSUME UNCHANGED <<process, pc, sig, pending, ptraceVars, crashed, dump>>,
             UNCHANGED lockStepVars
      PROVE  Inv'
  <2>1. ThreadInv' /\ PseudoInv'
    BY ZenonT(30), <1>1, ThreadInvFrame, PseudoInvFrame DEF threadVars
  <2>2. DumpInv'
    BY ZenonT(30), <1>1, DumpInvFrame DEF ptraceVars, DumpInv, Kept
  <2>3. OrderInv'
    BY Zenon, <1>1, OrderInvFrame DEF Alive, Eof, lockStepVars
  <2> QED
    BY Zenon, <2>1, <2>2, <2>3
<1>2. CASE UNCHANGED vars \/ Over
  BY Zenon, <1>1, <1>2 DEF Over, vars, targetVars, ptraceVars, dispatchVars, handlerVars,
       pseudoVars, lockStepVars
<1>3. CASE Continue
  BY Zenon, <1>1, <1>3 DEF Continue, dispatchVars, handlerVars, pseudoVars, lockStepVars
<1>4. CASE SetNoNewPrivs
  <2>1. /\ UNCHANGED <<process, pc, sig, pending, ptraceVars, crashed, dump>>
        /\ UNCHANGED <<crash_mutex, pseudo, owner, word>> /\ no_new_privs' = TRUE
    BY Zenon, <1>4 DEF SetNoNewPrivs, targetVars, ptraceVars, pseudoVars
  <2>2. ThreadInv'
    BY Zenon, <2>1, ThreadInvFrame DEF threadVars
  <2>3. PseudoInv'
    BY Zenon, <2>1 DEF PseudoInv
  <2>4. DumpInv'
    BY ZenonT(30), <2>1, DumpInvFrame DEF ptraceVars, DumpInv, Kept
  <2>5. OrderInv'
    BY Zenon, <2>1, OrderInvFrame DEF Alive, Eof
  <2> QED
    BY Zenon, <2>2, <2>3, <2>4, <2>5
<1>5. CASE Kill
  BY Zenon, <1>5, ThreadInvGone, PseudoInvGone, DumpInvGone, OrderInvGone DEF Kill, ProcessGone
<1>6. ASSUME NEW t \in Threads, Outside(t) PROVE Inv'
  BY Zenon, <1>6, ThreadInvOutside, PseudoInvOutside, DumpInvThread, OrderInvThread
<1>7. ASSUME NEW t \in Threads, ThreadStep(t) PROVE Inv'
  <2>1. DumpInv' /\ OrderInv'
    BY ZenonT(30), <1>7, DumpInvThread, OrderInvThread
  <2>2. CASE Signalled(t)
    BY ZenonT(30), <2>1, <2>2, ThreadInvSignalled, PseudoInvOutside
  <2>3. CASE HandlerStep(t)
    BY Zenon, <2>1, <2>3, ThreadInvHandler, PseudoInvHandler
  <2>4. CASE FallbackStep(t) /\ UNCHANGED dispatchVars
    BY ZenonT(30), <2>1, <2>4, ThreadInvFallback, PseudoInvFallback
  <2> QED
    BY Zenon, <1>7, <2>2, <2>3, <2>4 DEF ThreadStep
<1>8. CASE PseudoStep
  BY ZenonT(30), <1>8, NumbersWellOrdered, ThreadInvPseudo, PseudoInvPseudo, DumpInvPseudo, OrderInvPseudo
<1>9. ASSUME NEW d \in Dumps, FirstClones(d) \/ DumperStep(d) PROVE Inv'
  <2>1. DumpInv' /\ OrderInv'
    BY ZenonT(30), <1>9, NumbersWellOrdered, DumpInvDumper, OrderInvDumper
  <2>2. CASE FirstClones(d)
    BY ZenonT(30), <2>1, <2>2, ThreadInvFrame, PseudoInvFrame DEF FirstClones, targetVars, threadVars,
         ptraceVars, handlerVars, pseudoVars, lockStepVars
  <2>3. CASE DumperStep(d)
    <3>1. ThreadInv'
      BY ZenonT(30), <2>3, NumbersWellOrdered, ThreadInvDumper
    <3>2. UNCHANGED lockStepVars
      BY ZenonT(30), <2>3 DEF DumperStep, Fork, ParentExits, Dies, SeizeThread, Interrupt, Collect,
         SeizePseudothread, WaitForIntermediate, WaitForVm, DetachThread, DetachNext, Dump,
         Unchanged, handlerVars, pseudoVars, lockStepVars
    <3>3. CASE UNCHANGED pc
      BY Zenon, <2>1, <3>1, <3>2, <3>3, PseudoInvFrame
    <3>4. CASE Dies(d) \/ DetachThread(d)
      BY ZenonT(30), <2>1, <3>1, <3>2, <3>4, PseudoInvDetach DEF Dies, TracerGone, DetachThread, DetachNext
    <3> QED
      BY ZenonT(30), <2>3, <3>3, <3>4 DEF DumperStep, Fork, ParentExits, SeizeThread, Interrupt,
         Collect, SeizePseudothread, WaitForIntermediate, WaitForVm, Dump, targetVars
  <2> QED
    BY ZenonT(30), <1>9, <2>2, <2>3
<1> QED
  BY ZenonT(30), <1>2, <1>3, <1>4, <1>5, <1>6, <1>7, <1>8, <1>9 DEF Next, SystemStep

LEMMA InvHolds == Spec => []Inv
<1>1. Init => Inv
  BY Zenon, ThreadInvInit, PseudoInvInit, DumpInvInit, OrderInvInit DEF Inv
<1> QED
  BY <1>1, InvInductive, PTL DEF Spec

\* The intermediate process is only ever made by the living process.

LEMMA HandInvInductive == Inv /\ HandInv /\ [Next]_vars => HandInv'
<1> SUFFICES ASSUME Inv, HandInv, [Next]_vars PROVE HandInv'
  BY Zenon
<1>1. ThreadInv /\ PseudoInv
  BY Zenon DEF Inv
<1>2. CASE UNCHANGED vars \/ Over
  BY Zenon, <1>2, HandInvStays DEF Over, vars, targetVars
<1>3. CASE SetNoNewPrivs \/ Continue
  BY Zenon, <1>3, HandInvStays DEF SetNoNewPrivs, Continue, targetVars
<1>4. CASE Kill
  BY Zenon, <1>4, HandInvGone DEF Kill
<1>5. ASSUME NEW t \in Threads, Outside(t) \/ ThreadStep(t) PROVE HandInv'
  BY ZenonT(30), <1>1, <1>5, NumbersWellOrdered, HandInvQuiet, HandInvFallback DEF ThreadStep
<1>6. CASE PseudoStep
  BY Zenon, <1>1, <1>6, HandInvPseudo
<1>7. ASSUME NEW d \in Dumps, FirstClones(d) \/ DumperStep(d) PROVE HandInv'
  BY ZenonT(30), <1>1, <1>7, HandInvDumper
<1> QED
  BY ZenonT(30), <1>2, <1>3, <1>4, <1>5, <1>6, <1>7 DEF Next, SystemStep

LEMMA HandInvSound == ThreadInv /\ HandInv => HandOverSound
<1> SUFFICES ASSUME ThreadInv, HandInv PROVE HandOverSound
  BY Zenon
<1>1. \A f \in Fds : f # NoFd
  BY Zenon, FallbackAssumption DEF NoFd
<1>2. ASSUME NEW f \in Fds, pipe[f].open
      PROVE  Cardinality({t \in Threads : taken[t] = f /\ pc[t] # "answer_take"})
               + (IF trace_output[2] = f THEN 1 ELSE 0) = 1
  <2> DEFINE Owners == {t \in Threads : taken[t] = f /\ pc[t] # "answer_take"}
  <2>1. Owners = {t \in Threads : pc[t] \in Holding /\ taken[t] = f}
    BY ZenonT(30), <1>1 DEF HandInv, OwnerInv, Holding
  <2>2. CASE trace_output[2] = f
    <3>1. Owners = {}
      BY Zenon, <2>1, <2>2 DEF HandInv, OwnerInv
    <3> HIDE DEF Owners
    <3>2. Cardinality(Owners) = 0
      BY Zenon, <3>1, FS_EmptySet
    <3> QED
      BY <2>2, <3>2 DEF Owners
  <2>3. CASE trace_output[2] # f
    <3>1. PICK t \in Threads : pc[t] \in Holding /\ taken[t] = f
      BY Zenon, <1>2, <2>3 DEF HandInv, OwnerInv
    <3>2. Owners = {t}
      BY <2>1, <3>1 DEF HandInv, OwnerInv
    <3> HIDE DEF Owners
    <3>3. Cardinality(Owners) = 1
      BY Zenon, <3>2, FS_Singleton
    <3> QED
      BY <2>3, <3>3 DEF Owners
  <2> QED
    BY Zenon, <2>2, <2>3
<1>3. \A t \in Threads : pc[t] = "trace_poll" => pipe[sent_fd].data \in {Nobody, sibling}
  BY Zenon DEF HandInv, OfferInv, Offering
<1>4. trace_mutex = Nobody /\ trace_output # Empty => ~Live(trace_output[1])
  <2>1. trace_mutex = Nobody => \A t \in Threads : pc[t] \notin Offering
    BY Zenon, NobodyIsNone DEF HandInv, MutexInv, Offering, Tracing
  <2> QED
    BY Zenon, <2>1 DEF HandInv, OfferInv, Live
<1> QED
  BY ZenonT(30), <1>2, <1>3, <1>4 DEF HandOverSound, HandInv, OwnerInv

\* However late siblings answer and whoever times out, trace_handler's hand-over
\* of descriptors is sound: no thread writes to or closes a descriptor that has
\* been closed, every open write end has exactly one owner that will close it,
\* and no thread's trace is taken for another's.

THEOREM HandOver == Spec => []HandOverSound
<1>1. Init => HandInv
  BY Zenon, HandInvInit
<1>2. Inv /\ HandInv /\ [Next]_vars => HandInv'
  BY Zenon, HandInvInductive
<1>3. Inv /\ HandInv => HandOverSound
  BY Zenon, HandInvSound DEF Inv
<1> QED
  BY <1>1, <1>2, <1>3, InvHolds, PTL DEF Spec

THEOREM ThreadInfoOutlives == Spec => []ThreadInfoOutlivesPseudothread
<1>1. Inv => ThreadInfoOutlivesPseudothread
  BY Zenon DEF Inv, PseudoInv, ThreadInfoOutlivesPseudothread, Waits
<1> QED
  BY <1>1, InvHolds, PTL

\* Only a fatal signal kills the process by a signal.

THEOREM RequestsHarmless == Spec => []RequestsDoNotKill
<1>1. Inv => RequestsDoNotKill
  BY Zenon DEF Inv, ThreadInv, RequestsDoNotKill
<1> QED
  BY <1>1, InvHolds, PTL

\* The address space is copied while all collected threads are stopped, and none
\* is held once crash_dump writes the dump or has ended.

THEOREM SnapshotStopped == Spec => StoppedForSnapshot
<1> DEFINE Step == \A d \in Dumps :
       /\ dump[d].first = "none" /\ dump'[d].first # "none" /\ Running(d) =>
            \A t \in dump[d].info : tracer[t] = d /\ stop[t] # "run"
       /\ dump'[d].child \in {"dump", "done", "dead"} =>
            \A t \in Threads :
              tracer'[t] # d /\ (stop'[t] # "run" => tracer'[t] \in Dumps)
<1>1. ASSUME Inv, Inv', Next PROVE Step
  <2> SUFFICES ASSUME NEW d \in Dumps
               PROVE  /\ dump[d].first = "none" /\ dump'[d].first # "none" /\ Running(d) =>
                           \A t \in dump[d].info : tracer[t] = d /\ stop[t] # "run"
                      /\ dump'[d].child \in {"dump", "done", "dead"} =>
                           \A t \in Threads :
                             tracer'[t] # d /\ (stop'[t] # "run" => tracer'[t] \in Dumps)
    BY Zenon
  <2>1. dump[d].first = "none" /\ dump'[d].first # "none" => Alive
    BY Zenon, <1>1, FirstCloneWhileAlive DEF Inv
  <2>2. Alive => \A t \in dump[d].info : tracer[t] = d /\ stop[t] # "run"
    <3>0. DumpInv
      BY Zenon, <1>1 DEF Inv
    <3>1. dump[d].info \subseteq Threads
      BY Zenon, <3>0 DEF DumpInv, Dumpers
    <3> QED
      BY Zenon, <3>0, <3>1 DEF DumpInv
  <2>3. dump'[d].child \in {"dump", "done", "dead"} =>
          \A t \in Threads : tracer'[t] # d /\ (stop'[t] # "run" => tracer'[t] \in Dumps)
    <3>0. ThreadInv' /\ DumpInv'
      BY Zenon, <1>1 DEF Inv
    <3>1. \A t \in Threads : stop'[t] # "run" => tracer'[t] \in Dumps
      BY ZenonT(30), <3>0 DEF ThreadInv
    <3>2. ASSUME dump'[d].child \in {"dump", "done", "dead"}
          PROVE  \A t \in Threads : tracer'[t] # d
      <4>1. dump'[d].info = {} /\ dump'[d].cur = Nobody
        BY ZenonT(30), <3>0, <3>2 DEF DumpInv
      <4>2. \A t \in Threads : t # Nobody
        BY Zenon, NobodyIsNone
      <4> QED
        BY Zenon, <3>0, <4>1, <4>2 DEF DumpInv
    <3> QED
      BY Zenon, <3>1, <3>2
  <2> QED
    BY Zenon, <2>1, <2>2, <2>3
<1> QED
  BY <1>1, InvHolds, InvInductive, PTL DEF Spec, StoppedForSnapshot

\* Without no_new_privs the process does not die of a fatal signal before every
\* crash_dump that was started for one has finished or failed.

THEOREM DumpedBeforeDeath == Spec => DumpBeforeDeath
<1> DEFINE Step == Alive /\ process' = "signal" /\ ~no_new_privs =>
                     \A d \in Dumps : dump[d].sig = "crash" => Eof(d)
<1>1. ASSUME Inv, [Next]_vars, Alive, process' = "signal", ~no_new_privs, NEW d \in Dumps,
             dump[d].sig = "crash"
      PROVE  Eof(d)
  <2>1. PICK t \in Threads : pc[t] = "dying"
    <3>1. ASSUME NEW how, ProcessGone(how) PROVE how = "signal"
      BY Zenon, <1>1, <3>1 DEF ProcessGone, TargetGone
    <3>2. process' # process
      BY Zenon, <1>1 DEF Alive
    <3>3. ASSUME NEW t \in Threads, ThreadStep(t) PROVE pc[t] = "dying"
      <4>1. CASE Die(t)
        BY Zenon, <3>1, <4>1 DEF Die
      <4>2. CASE LockAndSpawn(t)
        BY Zenon, <3>1, <3>2, <4>2 DEF LockAndSpawn
      <4>3. CASE FallbackStep(t)
        BY ZenonT(30), <3>2, <4>3 DEF FallbackStep, trace_handler, EnableAllocator, DisableAllocator,
           Offer, SignalSibling, PollOutput, ForwardOutput, Exchange, Withdraw, Traced, Load,
           Take, TakeIf, WriteTid, CloseTaken, LockCrash, UnlockCrash, Keeping
      <4> QED
        BY ZenonT(30), <3>2, <3>3, <4>1, <4>2, <4>3 DEF ThreadStep, Signalled, Deliver, MortalStop,
           HandlerStep, debuggerd_signal_handler, resend_signal, Resend, WaitForStart,
           WaitForExit, futex_wait, Restore, Leave
    <3>4. ~PseudoStep
      BY ZenonT(30), <3>1, <3>2 DEF PseudoStep, PseudoStart, PseudoRead, CreateVmProcess,
         PseudoWaitFirst, PseudoWaitDump, Reap, PseudoWaitEnd, PseudoExit, targetVars
    <3>5. \A e \in Dumps : ~FirstClones(e) /\ ~DumperStep(e)
      BY ZenonT(30), <3>2 DEF FirstClones, DumperStep, Fork, ParentExits, Dies, SeizeThread, Interrupt,
         Collect, SeizePseudothread, WaitForIntermediate, WaitForVm, DetachThread,
         DetachNext, Dump, targetVars
    <3>6. /\ ~UNCHANGED vars /\ ~Over /\ ~SetNoNewPrivs /\ ~Continue /\ ~Kill
          /\ \A t \in Threads : ~Outside(t)
      BY Zenon, <3>1, <3>2 DEF vars, targetVars, Over, SetNoNewPrivs, Continue, Kill, Outside, Send,
         ThreadExit
    <3> QED
      BY ZenonT(30), <1>1, <3>3, <3>4, <3>5, <3>6 DEF Next, SystemStep
  <2>2. crash_mutex = t /\ pseudo = "none"
    BY ZenonT(30), <1>1, <2>1 DEF Inv, PseudoInv, Waits
  <2> QED
    BY Zenon, <1>1, <2>2 DEF Inv, OrderInv
<1>2. ASSUME Inv, [Next]_vars PROVE Step
  BY Zenon, <1>1, <1>2
<1> QED
  BY <1>2, InvHolds, PTL DEF Spec, DumpBeforeDeath
===============================================================================
