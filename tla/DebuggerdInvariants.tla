------------------------- MODULE DebuggerdInvariants --------------------------
(***************************************************************************)
(* The inductive invariants of Debuggerd: where the threads, the           *)
(* pseudothread and the crash_dumps are, and who owns the descriptors that *)
(* the fallback handler hands over.                                        *)
(***************************************************************************)
EXTENDS Debuggerd

Waits == {"wait_start", "futex_start", "wait_exit", "futex_exit"}

Tracing == {"trace_self", "tracing_self", "trace_siblings", "trace_signal",
            "trace_poll", "trace_forward", "trace_exchange"}

Holding == {"answer_write", "answer_trace", "answering", "answer_close"}

OwnDump == {"own_lock", "own_dump", "dumping", "own_unlock"}

FallbackPlaces == Tracing \cup Holding \cup OwnDump \cup {"trace", "answer", "answer_take"}

Places == Waits \cup Mortal \cup FallbackPlaces \cup
          {"idle", "exited", "handler", "lock", "restore", "resend"}

\* The signals that can be around: a crash only once one was sent.

Around == IF crashed THEN Signals ELSE DebuggerSignals

Dumpers ==
  [target : Threads \cup {Nobody}, sig : Signals \cup {NoSignal},
   parent : Processes, child : DumperSteps, todo : SUBSET Threads,
   cur : Threads \cup {Nobody}, info : SUBSET Threads, seized : BOOLEAN,
   byte : {"none", "sent", "read"},
   first : {"none", "stopped", "running", "cloned", "exited", "failed"},
   gdb : BOOLEAN]

\* What the signals are and where the threads can be; a thread is stopped on a
\* signal only where a signal can be taken, so that a tracer that lets it go
\* never takes it out of a wait.

ThreadInv ==
  /\ crashed \in BOOLEAN /\ process \in {"alive", "signal", "sigpipe", "exit", "killed"}
  /\ pc \in [Threads -> Places]
  /\ sig \in [Threads -> Around \cup {NoSignal}]
  /\ pending \in [Threads -> Seq(Around)]
  /\ tracer \in [Threads -> Dumps \cup {Nobody, OtherDebugger}]
  /\ stop \in [Threads -> {"run", "event", "signal"}]
  /\ stop_sig \in [Threads -> Around \cup {NoSignal, "mortal"}]
  /\ \A t \in Threads :
       /\ stop[t] # "run" => tracer[t] \in Dumps
       /\ tracer[t] \in Dumps => pc[t] # "exited"
       /\ stop[t] = "signal" =>
            \/ stop_sig[t] \in Around /\ pc[t] = "idle"
            \/ stop_sig[t] = "mortal" /\ pc[t] \in Mortal
       /\ pc[t] = "dying" => crashed
  /\ process = "signal" => crashed

\* The pseudothread and the futex word, against the waits of the thread that
\* spawned it.  The word is set before the second wait begins.

PseudoInv ==
  /\ crash_mutex \in Threads \cup {Nobody} /\ owner \in Threads \cup {Nobody}
  /\ pseudo \in {"none", "start", "read", "clone", "wait_first", "wait_dump",
                 "wait_end", "exit"}
  /\ word = CASE pseudo = "none" -> "zero" [] pseudo = "start" -> "unset" [] OTHER -> "tid"
  /\ pseudo # "none" => owner \in Threads /\ crash_mutex = owner /\ pc[owner] \in Waits
  /\ \A t \in Threads :
       /\ pc[t] \in Waits \cup {"restore"} => crash_mutex = t
       /\ pc[t] \in {"wait_exit", "futex_exit"} => word # "unset"
       /\ ~no_new_privs => pc[t] \notin OwnDump \cup {"resend"}
       /\ pc[t] = "dying" /\ ~no_new_privs => crash_mutex = t

\* A crash_dump holds the threads it has collected, each of them stopped, and
\* at most the one it is about to stop besides; it holds none once it dumps.

DumpInv ==
  /\ dump \in [Dumps -> Dumpers]
  /\ \A d \in Dumps :
       /\ dump[d].target = Nobody => dump[d].parent = "none"
       /\ dump[d].parent \in {"none", "exec"} => dump[d].child = "none"
       /\ dump[d].child # "interrupt" => dump[d].cur = Nobody
       /\ dump[d].child \in {"none", "dump", "done", "dead"} => dump[d].info = {}
       /\ dump[d].child = "interrupt" /\ Alive => dump[d].cur \in Threads
       /\ \A t \in Threads :
            /\ tracer[t] = d => t \in dump[d].info \/ t = dump[d].cur
            /\ t = dump[d].cur /\ Live(t) => tracer[t] = d
            /\ t \in dump[d].info /\ Alive => tracer[t] = d /\ stop[t] # "run"

\* crash_dumps are started in order, one at a time; one for a crash that has
\* not ended is the current one, and the pseudothread still waits for it.

OrderInv ==
  /\ \A d \in Dumps : dump[d].target = Nobody => dump[d].sig = NoSignal
  /\ \A d \in Forked, e \in Dumps : e < d => e \in Forked
  /\ Alive => \A d \in Dumps :
       dump[d].sig = "crash" /\ ~Eof(d) =>
         d = Current /\ pseudo \in {"read", "clone", "wait_first", "wait_dump", "wait_end"}

Inv == ThreadInv /\ PseudoInv /\ DumpInv /\ OrderInv

Offering == {"trace_signal", "trace_poll", "trace_forward", "trace_exchange"}

\* trace_mutex is held by exactly the thread that traces; it has a descriptor
\* to hand over while it deals with one sibling.

MutexInv ==
  /\ FallbackTypeOK
  /\ \A t \in Threads : pc[t] \in Tracing <=> trace_mutex = t
  /\ \A t \in Threads : pc[t] \in Offering => sent_fd # NoFd

\* Each open descriptor has one owner: the offer, or a thread that took it.  A
\* thread that has only loaded the offer owns nothing yet.

OwnerInv ==
  /\ ~misused
  /\ \A t \in Threads :
       /\ pc[t] \in Holding => taken[t] # NoFd /\ pipe[taken[t]].open
       /\ taken[t] # NoFd => pc[t] \in Holding \cup {"answer_take"}
       /\ \A u \in Threads \ {t} :
            pc[t] \in Holding /\ pc[u] \in Holding => taken[t] # taken[u]
       /\ pc[t] \in Holding => taken[t] # trace_output[2]
  /\ trace_output # Empty => pipe[trace_output[2]].open
  /\ \A f \in Fds :
       pipe[f].open => \/ trace_output[2] = f
                       \/ \E t \in Threads : pc[t] \in Holding /\ taken[t] = f

\* What the tracing thread made for a sibling stays with that sibling.  An
\* offer that outlives its trace is to a thread that has exited.

OfferInv ==
  /\ \A t \in Threads : pc[t] \in Offering =>
       /\ trace_output # Empty => trace_output = <<sibling, sent_fd>>
       /\ \A u \in Threads : pc[u] \in Holding /\ taken[u] = sent_fd => u = sibling
       /\ pc[t] # "trace_exchange" => pipe[sent_fd].data \in {Nobody, sibling}
  /\ trace_output # Empty =>
       \/ \E t \in Threads : pc[t] \in Offering
       \/ pc[trace_output[1]] = "exited"

HandInv == MutexInv /\ OwnerInv /\ OfferInv

\* Each of some numbers has a lowest one: what the lemmas about the steps that
\* choose the lowest thread or crash_dump take as given.
WellOrdered == \A S \in SUBSET Nat : S # {} => \E x \in S : \A y \in S : x <= y
===============================================================================
