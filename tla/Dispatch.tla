------------------------------- MODULE Dispatch --------------------------------
(* debuggerd_signal_handler in the threads of a process, and the pseudothread  *)
(* it spawns to run crash_dump (handler/debuggerd_handler.cpp).  A thread's pc *)
(* goes handler, lock, wait_start, wait_exit, restore, and then back to the    *)
(* program or to its death; futex_start and futex_exit are its sleeps in the   *)
(* two waits.  Fallback has the steps of a process with no_new_privs.          *)
EXTENDS Fallback, FiniteSetsExt

VARIABLES
  no_new_privs,    \* the process has PR_SET_NO_NEW_PRIVS
  crash_mutex,     \* the thread that holds it
  pseudo,          \* where the pseudothread is, "none" when there is none
  owner,           \* the thread whose stack holds the pseudothread's debugger_thread_info
  word,            \* thread_info.pseudothread_tid: "unset" (-1), "tid", "zero"
  pseudo_stop,     \* the pseudothread is in PTRACE_EVENT_CLONE
  dump             \* the crash_dump processes

handlerVars == <<no_new_privs, crash_mutex>>
pseudoVars == <<pseudo, owner, word, pseudo_stop>>
dispatchVars == <<handlerVars, pseudoVars, dump>>

\* A crash_dump: the thread and signal it dumps; the process that was forked,
\* the child it continues in, the threads that child has still to seize, those
\* it has stopped; whether it seized the pseudothread; the "\1" in the pipe to
\* the pseudothread; the intermediate process of create_vm_process; and
\* wait_for_gdb.
Processes == {"none", "exec", "wait", "zombie", "reaped"}
DumperSteps == {"none", "seize", "interrupt", "clone", "vm", "detach", "dump", "done", "dead"}
NoDump == [target |-> Nobody, sig |-> NoSignal, parent |-> "none", child |-> "none",
           todo |-> {}, cur |-> Nobody, info |-> {}, seized |-> FALSE,
           byte |-> "none", first |-> "none", gdb |-> FALSE]

DispatchTypeOK ==
  /\ no_new_privs \in BOOLEAN
  /\ crash_mutex \in Threads \cup {Nobody} /\ owner \in Threads \cup {Nobody}
  /\ pseudo \in {"none", "start", "read", "clone", "wait_first", "wait_dump",
                 "wait_end", "exit"}
  /\ word \in {"unset", "tid", "zero"} /\ pseudo_stop \in BOOLEAN
  /\ \A d \in Dumps :
       /\ dump[d].target \in Threads \cup {Nobody} /\ dump[d].sig \in Signals \cup {NoSignal}
       /\ dump[d].parent \in Processes /\ dump[d].child \in DumperSteps
       /\ dump[d].todo \subseteq Threads /\ dump[d].info \subseteq Threads
       /\ dump[d].cur \in Threads \cup {Nobody} /\ dump[d].seized \in BOOLEAN
       /\ dump[d].byte \in {"none", "sent", "read"}
       /\ dump[d].first \in {"none", "stopped", "running", "cloned", "exited", "failed"}
       /\ dump[d].gdb \in BOOLEAN

DispatchInit ==
  /\ no_new_privs \in BOOLEAN
  /\ crash_mutex = Nobody /\ owner = Nobody /\ pseudo = "none"
  /\ word = "zero" /\ pseudo_stop = FALSE
  /\ dump = [d \in Dumps |-> NoDump]

\* The process ends, of a signal or by _exit: the kernel takes all its threads,
\* the pseudothread among them.  Nothing of this reaches a crash_dump but what
\* it sees of its tracees.
ProcessGone(how) ==
  /\ TargetGone(how)
  /\ FallbackGone
  /\ crash_mutex' = Nobody /\ owner' = Nobody /\ pseudo' = "none"
  /\ word' = "zero" /\ pseudo_stop' = FALSE
  /\ UNCHANGED <<no_new_privs, dump>>

-------------------------------------------------------------------------------
(* debuggerd_signal_handler                                                    *)

\* Without new privileges crash_dump could not trace the process: the handler
\* dumps by itself, as it does for the request of a sibling that is doing so.
debuggerd_signal_handler(t) ==
  /\ At(t, "handler")
  /\ GoTo(t, CASE sig[t] = "request" -> "answer"
               [] ~no_new_privs -> "lock"
               [] sig[t] = "backtrace" -> "trace"
               [] OTHER -> "own_lock")
  /\ UNCHANGED <<process, sig, pending, ptraceVars, suspended, sent, crashed,
                 fallbackVars, dispatchVars>>

\* resend_signal after the fallback handler: fatal says for which signals.
Resend(t, fatal) ==
  /\ At(t, "resend")
  /\ IF sig[t] \in fatal THEN GoTo(t, "dying") /\ UNCHANGED sig ELSE Return(t)
  /\ UNCHANGED <<process, pending, ptraceVars, suspended, sent, crashed, fallbackVars, dispatchVars>>

\* Mutant: DEBUGGER_SIGNAL is resent too.
resend_signal_Any(t) == Resend(t, Signals)

\* Only a fatal signal is resent, with its handler removed.
resend_signal(t) == Resend(t, {"crash"})

\* One thread at a time: thread_info is set up, the process is made traceable,
\* the pseudothread is cloned.  A failure of these system calls is fatal.
LockAndSpawn(t) ==
  /\ At(t, "lock") /\ crash_mutex = Nobody
  /\ \/ /\ crash_mutex' = t
        /\ owner' = t /\ pseudo' = "start" /\ word' = "unset"
        /\ GoTo(t, "wait_start")
        /\ UNCHANGED <<process, sig, pending, ptraceVars, suspended, sent, crashed, fallbackVars,
                       no_new_privs, pseudo_stop, dump>>
     \/ ProcessGone("exit")

\* futex_wait(&thread_info.pseudothread_tid, value): sleep if the word still has
\* that value, go on otherwise.
futex_wait(t, here, value, asleep, next) ==
  /\ At(t, here)
  /\ GoTo(t, IF word = value THEN asleep ELSE next)
  /\ UNCHANGED <<process, sig, pending, ptraceVars, suspended, sent, crashed,
                 fallbackVars, dispatchVars>>

WaitForStart(t) == futex_wait(t, "wait_start", "unset", "futex_start", "wait_exit")

\* Mutant: the handler waits only for the pseudothread's start.
WaitForExit_Skipped(t) == futex_wait(t, "wait_exit", "never", "futex_exit", "restore")

WaitForExit(t) == futex_wait(t, "wait_exit", "tid", "futex_exit", "restore")

\* How the handler ends: the lock is released when unlock holds.
Leave(t, unlock) ==
  /\ At(t, "restore")
  /\ crash_mutex' = IF unlock THEN Nobody ELSE crash_mutex
  /\ IF sig[t] = "crash" THEN GoTo(t, "dying") /\ UNCHANGED sig ELSE Return(t)
  /\ UNCHANGED <<process, pending, ptraceVars, suspended, sent, crashed, fallbackVars,
                 no_new_privs, pseudoVars, dump>>

\* Mutant: the lock is kept after a request too.
Restore_Keeps(t) == Leave(t, FALSE)

\* PR_SET_DUMPABLE and PR_SET_PTRACER are restored.  A request releases the lock
\* and returns; a crash keeps it and resends the signal, whose handler is gone.
Restore(t) == Leave(t, sig[t] \in DebuggerSignals)

\* The resent signal, or a SIGPIPE, kills the process.
Die(t) ==
  /\ Runs(t) /\ pc[t] \in Mortal /\ tracer[t] \notin Dumps
  /\ ProcessGone(IF pc[t] = "dying" THEN "signal" ELSE "sigpipe")

-------------------------------------------------------------------------------
(* debuggerd_dispatch_pseudothread                                             *)

PseudoAt(where) == Alive /\ ~suspended /\ ~pseudo_stop /\ pseudo = where
PseudoGoTo(where) ==
  /\ pseudo' = where
  /\ UNCHANGED <<owner, pseudo_stop>>

\* The crash_dump that the pseudothread has forked: the last one.
Forked == {d \in Dumps : dump[d].target # Nobody}
Current == Max(Forked)

\* Neither process of crash_dump holds the write end of the pipe any more.
Eof(d) == dump[d].parent \in {"none", "zombie", "reaped"} /\ dump[d].child \in {"none", "done", "dead"}

\* The kernel stores the tid (CLONE_CHILD_SETTID, which wakes nobody); pipes are
\* made and the crash info is written, which is fatal when it fails; __fork and
\* exec of crash_dump.  A fork that fails shows as an end of file.
PseudoStart ==
  /\ PseudoAt("start") /\ Forked # Dumps
  /\ \/ /\ word' = "tid"
        /\ PseudoGoTo("read")
        /\ \E forked \in {"exec", "none"} :
             dump' = [dump EXCEPT ![Lowest(Dumps \ Forked)] =
                        [@ EXCEPT !.target = owner, !.sig = sig[owner], !.parent = forked]]
        /\ UNCHANGED <<targetVars, fallbackVars, handlerVars>>
     \/ ProcessGone("exit")

\* crash_dump says that it has stopped the threads; without its "\1" the
\* pseudothread ends, and does not wait for the process it forked.
PseudoRead ==
  /\ PseudoAt("read")
  /\ \/ /\ dump[Current].byte = "sent"
        /\ dump' = [dump EXCEPT ![Current].byte = "read"]
        /\ PseudoGoTo("clone")
     \/ /\ dump[Current].byte = "none" /\ Eof(Current)
        /\ PseudoGoTo("exit")
        /\ UNCHANGED dump
  /\ UNCHANGED <<targetVars, fallbackVars, handlerVars, word>>

\* create_vm_process, the first clone.  While crash_dump traces it the
\* pseudothread stops, and so does the new process.
CreateVmProcess ==
  /\ PseudoAt("clone")
  /\ \/ /\ dump' = [dump EXCEPT ![Current].first =
                      IF dump[Current].seized THEN "stopped" ELSE "running"]
        /\ pseudo_stop' = dump[Current].seized
        /\ pseudo' = "wait_first"
        /\ UNCHANGED <<targetVars, fallbackVars, handlerVars, owner, word>>
     \/ ProcessGone("exit")

\* Its second clone, and exit, in the intermediate process: the vm process is
\* the copy that crash_dump reads.  When the clone fails its parent is told.
FirstClones(d) ==
  /\ dump[d].first = "running"
  /\ \E next \in {IF dump[d].seized THEN "cloned" ELSE "exited", "failed"} :
       dump' = [dump EXCEPT ![d].first = next]
  /\ UNCHANGED <<targetVars, fallbackVars, handlerVars, pseudoVars>>

\* create_vm_process waits for the intermediate process.
PseudoWaitFirst ==
  /\ PseudoAt("wait_first")
  /\ \/ /\ dump[Current].first = "exited"
        /\ PseudoGoTo("wait_dump")
        /\ UNCHANGED <<targetVars, fallbackVars, handlerVars, word, dump>>
     \/ /\ dump[Current].first = "failed"
        /\ ProcessGone("exit")

\* What the pseudothread does when crash_dump's first process has exited.
Reap(reaped, next) ==
  /\ PseudoAt("wait_dump") /\ dump[Current].parent = "zombie"
  /\ dump' = [dump EXCEPT ![Current].parent = reaped]
  /\ PseudoGoTo(next)
  /\ UNCHANGED <<targetVars, fallbackVars, handlerVars, word>>

\* Mutant: no wait for the end of the dump of a crash.
PseudoWaitDump_NoEnd == Reap("reaped", "exit")

\* waitpid(crash_dump_pid).  A crash also waits for the end of the dump.
PseudoWaitDump == Reap("reaped", IF dump[Current].sig = "crash" THEN "wait_end" ELSE "exit")

\* read of the pipe until its end: the child that dumps has closed it.
PseudoWaitEnd ==
  /\ PseudoAt("wait_end") /\ Eof(Current)
  /\ PseudoGoTo("exit")
  /\ UNCHANGED <<targetVars, fallbackVars, handlerVars, word, dump>>

\* The pseudothread exits: CLONE_CHILD_CLEARTID clears the word and wakes the
\* thread that sleeps on it.
PseudoExit ==
  /\ PseudoAt("exit")
  /\ pseudo' = "none" /\ word' = "zero" /\ owner' = Nobody
  /\ pc' = [pc EXCEPT ![owner] = CASE @ = "futex_start" -> "wait_exit"
                                   [] @ = "futex_exit" -> "restore"
                                   [] OTHER -> @]
  /\ UNCHANGED <<process, sig, pending, ptraceVars, suspended, sent, crashed,
                 fallbackVars, handlerVars, pseudo_stop, dump>>

HandlerStep(t) ==
  \/ debuggerd_signal_handler(t) \/ resend_signal(t) \/ LockAndSpawn(t)
  \/ WaitForStart(t) \/ WaitForExit(t) \/ Restore(t) \/ Die(t)

PseudoStep ==
  \/ PseudoStart \/ PseudoRead \/ CreateVmProcess \/ PseudoWaitFirst
  \/ PseudoWaitDump \/ PseudoWaitEnd \/ PseudoExit
================================================================================
