------------------------------- MODULE Debuggerd -------------------------------
(* A process with debuggerd's handler, its own dumps and its crash_dumps: the  *)
(* composition of Target, Fallback, Dispatch and CrashDump.                    *)
EXTENDS CrashDump

vars == <<targetVars, fallbackVars, dispatchVars>>

Init == TargetInit /\ FallbackInit /\ DispatchInit

TypeOK == TargetTypeOK /\ FallbackTypeOK /\ DispatchTypeOK

\* What the program, its users and its debugger do to the process.
Outside(t) ==
  /\ (\E s \in Signals : Send(t, s)) \/ ThreadExit(t)
  /\ UNCHANGED <<fallbackVars, dispatchVars>>

\* The program sets PR_SET_NO_NEW_PRIVS, at any time.
SetNoNewPrivs ==
  /\ Alive /\ ~no_new_privs
  /\ no_new_privs' = TRUE
  /\ UNCHANGED <<targetVars, fallbackVars, crash_mutex, pseudoVars, dump>>

\* SIGCONT, from a debugger or a shell.
Continue ==
  /\ Alive /\ suspended
  /\ suspended' = FALSE
  /\ UNCHANGED <<process, pc, sig, pending, ptraceVars, sent, crashed, fallbackVars, dispatchVars>>

\* SIGKILL.
Kill == Alive /\ ProcessGone("killed")

Signalled(t) ==
  /\ Deliver(t) \/ MortalStop(t)
  /\ UNCHANGED <<fallbackVars, dispatchVars>>

ThreadStep(t) ==
  \/ Signalled(t)
  \/ HandlerStep(t)
  \/ FallbackStep(t) /\ UNCHANGED dispatchVars

\* The process is gone and nobody dumps it any more.
Over ==
  /\ ~Alive /\ \A d \in Dumps : Eof(d) /\ dump[d].first # "running"
  /\ UNCHANGED vars

\* What the scheduler runs: every thread that can run, the pseudothread, the
\* intermediate process and crash_dump.
SystemStep ==
  \/ \E t \in Threads : ThreadStep(t)
  \/ PseudoStep
  \/ \E d \in Dumps : FirstClones(d) \/ DumperStep(d)

Next ==
  \/ \E t \in Threads : Outside(t)
  \/ SetNoNewPrivs \/ Continue \/ Kill
  \/ SystemStep
  \/ Over

\* Some thread or process that can run does.  That much is enough: a signal is
\* handled in finitely many steps, polls and a hanging crash_dump time out, and
\* the signals are finitely many.  Nobody need ever continue a process that
\* wait_for_gdb has stopped.
Fairness == WF_vars(SystemStep)

Spec == Init /\ [][Next]_vars /\ Fairness

-------------------------------------------------------------------------------
\* The pseudothread works on debugger_thread_info, which is on the stack of the
\* thread that spawned it: that thread holds crash_mutex and does not leave its
\* two futex waits before the pseudothread is gone, in whatever order the
\* pseudothread starts, the waits begin and crash_dump stops and resumes them
\* ("Wait for the child to start... and then wait for it to terminate").
ThreadInfoOutlivesPseudothread ==
  pseudo # "none" =>
    /\ crash_mutex = owner
    /\ pc[owner] \in {"wait_start", "futex_start", "wait_exit", "futex_exit"}

\* The address space is copied for crash_dump only while every thread it has
\* collected registers of is stopped by it, so that registers and memory belong
\* together ("ptrace the threads, fetch their registers ... and then fork a
\* separate process as a snapshot"); and threads are stopped no longer: nothing
\* is held any more by the time crash_dump connects to tombstoned, nor after it
\* has died ("to reduce the duration that we pause the process for").
StoppedForSnapshot ==
  [][\A d \in Dumps :
       /\ dump[d].first = "none" /\ dump'[d].first # "none" /\ Running(d) =>
            \A t \in dump[d].info : tracer[t] = d /\ stop[t] # "run"
       /\ dump'[d].child \in {"dump", "done", "dead"} =>
            \A t \in Threads :
              tracer'[t] # d /\ (stop'[t] # "run" => tracer'[t] \in Dumps)]_vars

\* The signal of a crash kills the process only after the crash_dump that was
\* started for it has finished or failed ("Wait for the dump to complete before
\* having the process exit"), unless no_new_privs was set during the dump:
\* another thread that crashes then is handled by the fallback.
DumpBeforeDeath ==
  [][Alive /\ process' = "signal" /\ ~no_new_privs =>
       \A d \in Dumps : dump[d].sig = "crash" => Eof(d)]_vars

\* A process that was only asked for dumps does not die of it, but for a
\* resource that the handler could not get (fatal), or a SIGPIPE it does not
\* ignore.
RequestsDoNotKill == process = "signal" => crashed

\* The handler always comes to an end: again and again the process is dead, left
\* stopped for gdb, or has had no fatal signal and all its threads run the
\* program's own code.  So a fatal signal ends the process whoever holds
\* crash_mutex when it arrives, whether crash_dump works, fails or hangs, and
\* neither crash_dump nor a sibling that does not answer keeps a thread that was
\* interrupted by a request.
Settled ==
  \/ ~Alive \/ suspended
  \/ ~crashed /\ \A t \in Threads : pc[t] \in {"idle", "exited"} /\ stop[t] = "run"

HandlersFinish == []<>Settled
================================================================================
