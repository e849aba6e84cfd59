-------------------------------- MODULE Target --------------------------------
(* A process with debuggerd's signal handler installed, as the kernel sees it: *)
(* its threads, their pending signals, the ptrace state of each.  Signals,     *)
(* ptrace and process death are the kernel's and are modelled from how         *)
(* handler/debuggerd_handler.cpp and crash_dump.cpp use them.                  *)
EXTENDS Integers, Sequences, FiniteSets, Functions

CONSTANTS
  Threads,         \* thread ids, a set of positive integers: /proc/<pid>/task is listed in their order
  Targets,         \* the threads that signals are sent to
  Exiting,         \* the threads that may exit while the process lives
  Debugged,        \* the threads that another debugger may be tracing
  Dumps,           \* invocations of crash_dump, 1 .. n
  MaxSignals,      \* bound on signals sent to the process
  MaxLoad          \* bound on signals sent plus threads alive

ASSUME TargetAssumption ==
  /\ Threads \subseteq Nat \ {0} /\ IsFiniteSet(Threads)
  /\ Targets \subseteq Threads /\ Exiting \subseteq Threads /\ Debugged \subseteq Threads
  /\ Dumps \subseteq Nat \ {0} /\ IsFiniteSet(Dumps)
  /\ MaxSignals \in Nat /\ MaxLoad \in Nat

\* What a thread may be sent.  "crash" is any of the fatal signals of
\* debuggerd_register_handlers; the others are DEBUGGER_SIGNAL with the
\* si_value 0 (a tombstone), 1 (a backtrace) and ~0 (the request that the
\* fallback handler sends to a sibling).
DebuggerSignals == {"tombstone", "backtrace", "request"}
Signals == {"crash"} \cup DebuggerSignals

Nobody == 0
OtherDebugger == -1

VARIABLES
  process,         \* "alive", or how it ended: "signal", "sigpipe", "exit", "killed"
  pc,              \* where each thread is: "idle" in the program's own code, a step of the handler, or "exited"
  sig,             \* the siginfo its handler runs with
  pending,         \* signals sent to it and not delivered
  tracer,          \* the crash_dump that has seized it
  stop,            \* "run", or the ptrace stop it is in: "event", "signal"
  stop_sig,        \* the signal of a signal-delivery-stop; "mortal" if no handler takes it
  suspended,       \* the process is in a group stop
  sent,            \* signals sent so far
  crashed          \* a fatal signal was among them

targetVars == <<process, pc, sig, pending, tracer, stop, stop_sig, suspended, sent, crashed>>
ptraceVars == <<tracer, stop, stop_sig>>

NoSignal == "none"

TargetTypeOK ==
  /\ process \in {"alive", "signal", "sigpipe", "exit", "killed"}
  /\ DOMAIN pc = Threads
  /\ sig \in [Threads -> Signals \cup {NoSignal}]
  /\ \A t \in Threads : Range(pending[t]) \subseteq Signals
  /\ tracer \in [Threads -> Dumps \cup {Nobody, OtherDebugger}]
  /\ stop \in [Threads -> {"run", "event", "signal"}]
  /\ stop_sig \in [Threads -> Signals \cup {NoSignal, "mortal"}]
  /\ suspended \in BOOLEAN /\ sent \in 0 .. MaxSignals /\ crashed \in BOOLEAN

TargetInit ==
  /\ process = "alive"
  /\ pc = [t \in Threads |-> "idle"]
  /\ sig = [t \in Threads |-> NoSignal]
  /\ pending = [t \in Threads |-> <<>>]
  /\ \E D \in SUBSET Debugged :
       tracer = [t \in Threads |-> IF t \in D THEN OtherDebugger ELSE Nobody]
  /\ stop = [t \in Threads |-> "run"]
  /\ stop_sig = [t \in Threads |-> NoSignal]
  /\ suspended = FALSE
  /\ sent = 0
  /\ crashed = FALSE

Alive == process = "alive"
Live(t) == Alive /\ pc[t] # "exited"
\* The thread can execute.
Runs(t) == Live(t) /\ stop[t] = "run" /\ ~suspended

At(t, where) == Runs(t) /\ pc[t] = where
GoTo(t, where) == pc' = [pc EXCEPT ![t] = where]

\* The handler returns to the program.
Return(t) ==
  /\ GoTo(t, "idle")
  /\ sig' = [sig EXCEPT ![t] = NoSignal]

\* Every thread is gone at once; what a dead process was doing is forgotten.
TargetGone(how) ==
  /\ process' = how
  /\ pc' = [t \in Threads |-> "exited"]
  /\ sig' = [t \in Threads |-> NoSignal]
  /\ pending' = [t \in Threads |-> <<>>]
  /\ tracer' = [t \in Threads |-> Nobody]
  /\ stop' = [t \in Threads |-> "run"]
  /\ stop_sig' = [t \in Threads |-> NoSignal]
  /\ suspended' = FALSE
  /\ sent' = 0
  /\ UNCHANGED crashed

\* A crash, an abort or kill(2) of thread t; debuggerd_client's send_signal, or
\* raise(DEBUGGER_SIGNAL), which any thread of the process may receive.
Send(t, s) ==
  /\ t \in Targets /\ Live(t)
  /\ sent < MaxSignals /\ sent + Cardinality({u \in Threads : Live(u)}) < MaxLoad
  /\ s # "request"
  /\ ~(s = "crash" /\ s \in Range(pending[t]))
  /\ pending' = [pending EXCEPT ![t] = Append(@, s)]
  /\ sent' = sent + 1
  /\ crashed' = (crashed \/ s = "crash")
  /\ UNCHANGED <<process, pc, sig, ptraceVars, suspended>>

\* The fatal signals have lower numbers than DEBUGGER_SIGNAL and are taken
\* first; DEBUGGER_SIGNAL is a real-time signal and queues.
NextIndex(t) ==
  IF "crash" \in Range(pending[t])
  THEN CHOOSE i \in DOMAIN pending[t] : pending[t][i] = "crash" ELSE 1
NextSignal(t) == pending[t][NextIndex(t)]
Without(q, i) == SubSeq(q, 1, i - 1) \o SubSeq(q, i + 1, Len(q))

\* Only a thread outside the handler takes a signal: debuggerd_init fills
\* sa_mask.  One that crash_dump has seized stops and reports it instead.
Deliver(t) ==
  /\ At(t, "idle") /\ pending[t] # <<>>
  /\ LET s == NextSignal(t) IN
     /\ pending' = [pending EXCEPT ![t] = Without(@, NextIndex(t))]
     /\ IF tracer[t] \in Dumps
        THEN /\ stop' = [stop EXCEPT ![t] = "signal"]
             /\ stop_sig' = [stop_sig EXCEPT ![t] = s]
             /\ UNCHANGED <<pc, sig>>
        ELSE /\ GoTo(t, "handler")
             /\ sig' = [sig EXCEPT ![t] = s]
             /\ UNCHANGED <<stop, stop_sig>>
  /\ UNCHANGED <<process, tracer, suspended, sent, crashed>>

\* A signal whose disposition is to kill is about to take effect in thread t.
\* A seized thread reports it first.
Mortal == {"dying", "sigpipe"}
MortalStop(t) ==
  /\ Runs(t) /\ pc[t] \in Mortal /\ tracer[t] \in Dumps
  /\ stop' = [stop EXCEPT ![t] = "signal"]
  /\ stop_sig' = [stop_sig EXCEPT ![t] = "mortal"]
  /\ UNCHANGED <<process, pc, sig, pending, tracer, suspended, sent, crashed>>

\* A thread ends by itself; a request pending for it is dropped.
ThreadExit(t) ==
  /\ t \in Exiting /\ At(t, "idle") /\ "crash" \notin Range(pending[t])
  /\ GoTo(t, "exited")
  /\ pending' = [pending EXCEPT ![t] = <<>>]
  /\ tracer' = [tracer EXCEPT ![t] = Nobody]
  /\ UNCHANGED <<process, sig, stop, stop_sig, suspended, sent, crashed>>

\* What thread t does once its tracer lets it go.  A signal it was stopped on is
\* delivered when the tracer passes it on, and is gone when it does not.  A wait
\* on a futex that the stop interrupted is restarted, and compares again.
Resumed(t, passed) ==
  CASE stop[t] = "signal" /\ stop_sig[t] # "mortal" /\ passed ->
         [pc |-> "handler", sig |-> stop_sig[t]]
    [] stop[t] = "signal" /\ stop_sig[t] = "mortal" /\ ~passed ->
         [pc |-> "idle", sig |-> NoSignal]
    [] pc[t] = "futex_start" -> [pc |-> "wait_start", sig |-> sig[t]]
    [] pc[t] = "futex_exit" -> [pc |-> "wait_exit", sig |-> sig[t]]
    [] OTHER -> [pc |-> pc[t], sig |-> sig[t]]

\* PTRACE_DETACH of the threads in T.
Detach(T, passed) ==
  /\ pc' = [t \in Threads |-> IF t \in T THEN Resumed(t, passed).pc ELSE pc[t]]
  /\ sig' = [t \in Threads |-> IF t \in T THEN Resumed(t, passed).sig ELSE sig[t]]
  /\ tracer' = [t \in Threads |-> IF t \in T THEN Nobody ELSE tracer[t]]
  /\ stop' = [t \in Threads |-> IF t \in T THEN "run" ELSE stop[t]]
  /\ stop_sig' = [t \in Threads |-> IF t \in T THEN NoSignal ELSE stop_sig[t]]

\* The end of tracer d detaches all its tracees and delivers the signals they
\* are stopped on.
TracerGone(d) == Detach({t \in Threads : tracer[t] = d}, TRUE)
================================================================================
