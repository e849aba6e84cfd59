------------------------------- MODULE CrashDump -------------------------------
(* The crash_dump process (crash_dump.cpp): it forks, stops every thread of    *)
(* its parent, has the pseudothread fork a copy of the address space, lets the *)
(* threads go and writes the dump from the copy.  Any step of it may fail, and *)
(* alarm(30) ends it when it hangs.                                            *)
EXTENDS Dispatch

ChildAt(d, where) == dump[d].child = where
Running(d) == dump[d].child \notin {"none", "done", "dead"}
Unchanged == UNCHANGED <<fallbackVars, handlerVars>>

\* main up to the fork fails when its parent has died, among other reasons.  The
\* parent then waits for the child to close fork_exit_write; the child lists the
\* threads (GetProcessTids), but for the pseudothread, which it skips.
Fork(d) ==
  /\ dump[d].parent = "exec"
  /\ \/ /\ Alive
        /\ dump' = [dump EXCEPT ![d].parent = "wait", ![d].child = "seize",
                                ![d].todo = {t \in Threads : Live(t)}]
     \/ dump' = [dump EXCEPT ![d].parent = "zombie"]
  /\ Unchanged /\ UNCHANGED <<targetVars, pseudoVars>>

ParentExits(d) ==
  /\ dump[d].parent = "wait" /\ dump[d].child \in {"detach", "dump", "done", "dead"}
  /\ dump' = [dump EXCEPT ![d].parent = "zombie"]
  /\ Unchanged /\ UNCHANGED <<targetVars, pseudoVars>>

\* The intermediate process goes on when its tracer is gone.
Untraced(first) ==
  CASE first = "stopped" -> "running" [] first = "cloned" -> "exited" [] OTHER -> first

\* The child is gone, by LOG(FATAL), by its alarm or by a crash of its own: the
\* kernel lets go of all that it traced.
Dies(d) ==
  /\ Running(d)
  /\ dump' = [dump EXCEPT ![d] = [@ EXCEPT !.child = "dead", !.seized = FALSE,
                                           !.todo = {}, !.info = {}, !.cur = Nobody,
                                           !.first = Untraced(dump[d].first)]]
  /\ TracerGone(d)
  /\ pseudo_stop' = (pseudo_stop /\ d # Current)
  /\ Unchanged /\ UNCHANGED <<process, pending, suspended, sent, crashed, pseudo, owner, word>>

\* ptrace_seize_thread on the next thread.  One that has exited or is traced
\* already is left out; if it is the target the dump has failed.
SeizeThread(d) ==
  /\ ChildAt(d, "seize") /\ dump[d].todo # {} /\ Alive
  /\ LET t == Lowest(dump[d].todo) IN
     IF Live(t) /\ tracer[t] = Nobody
     THEN /\ tracer' = [tracer EXCEPT ![t] = d]
          /\ dump' = [dump EXCEPT ![d].child = "interrupt", ![d].cur = t, ![d].todo = @ \ {t}]
     ELSE /\ t # dump[d].target
          /\ dump' = [dump EXCEPT ![d].todo = @ \ {t}]
          /\ UNCHANGED tracer
  /\ Unchanged
  /\ UNCHANGED <<process, pc, sig, pending, stop, stop_sig, suspended, sent, crashed, pseudoVars>>

\* The seized thread is brought to a stop, and entered in thread_info.
Collect(d, stopped, entered) ==
  /\ ChildAt(d, "interrupt") /\ Alive
  /\ LET t == dump[d].cur IN
     /\ stop' = [stop EXCEPT ![t] = IF Live(t) /\ @ = "run" THEN stopped ELSE @]
     /\ dump' = [dump EXCEPT ![d].child = "seize", ![d].cur = Nobody,
                             ![d].info = IF Live(t) THEN @ \cup entered ELSE @]
  /\ Unchanged
  /\ UNCHANGED <<process, pc, sig, pending, tracer, stop_sig, suspended, sent, crashed, pseudoVars>>

\* Mutant: PTRACE_INTERRUPT without the wait for the stop.
Interrupt_NoWait(d) == Collect(d, "run", {dump[d].cur})

\* ptrace_interrupt: the thread stops, unless it has stopped already to report a
\* signal.  It is left out when it has exited meanwhile.
Interrupt(d) == Collect(d, "event", {dump[d].cur})

\* The pseudothread is seized with PTRACE_O_TRACECLONE and told to fork.
SeizePseudothread(d) ==
  /\ ChildAt(d, "seize") /\ dump[d].todo = {} /\ Alive
  /\ dump' = [dump EXCEPT ![d].child = "clone", ![d].seized = TRUE, ![d].byte = "sent"]
  /\ Unchanged /\ UNCHANGED <<targetVars, pseudoVars>>

\* wait_for_vm_process: wait_for_clone of the pseudothread, whose child goes on,
\* and then of that child, which is detached.  The vm process stays stopped.
WaitForIntermediate(d) ==
  /\ ChildAt(d, "clone") /\ dump[d].first = "stopped" /\ Alive
  /\ dump' = [dump EXCEPT ![d].child = "vm", ![d].first = "running"]
  /\ Unchanged /\ UNCHANGED <<targetVars, pseudoVars>>

\* The pseudothread is then detached, fork_exit_write closed, and the property
\* debug.debuggerd.wait_for_gdb read, which only matters for a crash.
WaitForVm(d) ==
  /\ ChildAt(d, "vm") /\ dump[d].first = "cloned" /\ Alive
  /\ \E gdb \in IF dump[d].sig = "crash" THEN BOOLEAN ELSE {FALSE} :
       dump' = [dump EXCEPT ![d] = [@ EXCEPT !.child = "detach", !.first = "exited",
                                             !.seized = FALSE, !.gdb = gdb]]
  /\ pseudo_stop' = FALSE
  /\ Unchanged /\ UNCHANGED <<targetVars, pseudo, owner, word>>

\* The loop's next thread t runs again.  wait_for_gdb stops the process instead;
\* DEBUGGER_SIGNAL is never passed on, another signal is.  tombstoned_connect
\* follows the loop.
DetachNext(d, t) ==
  /\ ChildAt(d, "detach")
  /\ dump' = [dump EXCEPT ![d].info = @ \ {t},
                          ![d].child = IF dump[d].info = {t} THEN "dump" ELSE @]
  /\ Detach({t} \cap {u \in Threads : tracer[u] = d},
            ~dump[d].gdb /\ stop_sig[t] \notin DebuggerSignals)
  /\ suspended' = (suspended \/ (dump[d].gdb /\ Alive))
  /\ Unchanged /\ UNCHANGED <<process, pending, sent, crashed, pseudoVars>>

DetachThread(d) == DetachNext(d, Lowest(dump[d].info))

\* The dump is written from the vm process, ActivityManager and tombstoned are
\* told, main returns: the pipe is closed and the vm process let go.
Dump(d) ==
  /\ ChildAt(d, "dump")
  /\ dump' = [dump EXCEPT ![d].child = "done"]
  /\ Unchanged /\ UNCHANGED <<targetVars, pseudoVars>>

DumperStep(d) ==
  \/ Fork(d) \/ ParentExits(d) \/ Dies(d)
  \/ SeizeThread(d) \/ Interrupt(d) \/ SeizePseudothread(d)
  \/ WaitForIntermediate(d) \/ WaitForVm(d) \/ DetachThread(d)
  \/ Dump(d)
================================================================================
