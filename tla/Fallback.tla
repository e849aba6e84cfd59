------------------------------- MODULE Fallback -------------------------------
(* handler/debuggerd_fallback.cpp: the handler of a process that may not gain  *)
(* privileges, and so cannot run crash_dump.  A crashing thread writes its own *)
(* tombstone.  For a backtrace one thread sends a signal to each of its        *)
(* siblings in turn and waits, at most a second for an answer to begin, for    *)
(* the sibling to write its stack to a pipe whose write end it hands over      *)
(* through the global trace_output.                                            *)
EXTENDS Target

CONSTANT
  Fds              \* descriptor numbers, 1 .. n; the lowest free one is given to a pipe's write end

ASSUME FallbackAssumption == Fds \subseteq Nat \ {0} /\ IsFiniteSet(Fds) /\ Fds # {}

VARIABLES
  trace_mutex,     \* the thread that holds it
  trace_output,    \* the packed (tid, fd), (0, 0) when empty
  sibling,         \* the last sibling the tracing thread has come to
  sent_fd,         \* the write end of the pipe it made for it
  taken,           \* the descriptor each answering thread has read from trace_output
  pipe,            \* for each descriptor number, the pipe open there
  allocator,       \* the thread that uses the linker's fallback allocator
  crash_lock,      \* the thread that holds crash_handler's crash_mutex
  broken,          \* the threads with a SIGPIPE pending
  misused          \* a descriptor was written or closed after it had been closed

tracerVars == <<trace_mutex, sibling, sent_fd>>
lockVars == <<allocator, crash_lock>>
fallbackVars == <<tracerVars, trace_output, taken, pipe, lockVars, broken, misused>>

NoFd == 0

pack_thread_fd(tid, fd) == <<tid, fd>>
Empty == pack_thread_fd(Nobody, NoFd)
ClosedPipe == [open |-> FALSE, reader |-> FALSE, data |-> Nobody]
NewPipe == [open |-> TRUE, reader |-> TRUE, data |-> Nobody]

FallbackTypeOK ==
  /\ trace_mutex \in Threads \cup {Nobody} /\ sibling \in Threads \cup {Nobody}
  /\ sent_fd \in Fds \cup {NoFd}
  /\ trace_output \in {Empty} \cup (Threads \X Fds)
  /\ taken \in [Threads -> Fds \cup {NoFd}]
  /\ pipe \in [Fds -> [open : BOOLEAN, reader : BOOLEAN, data : Threads \cup {Nobody}]]
  /\ allocator \in Threads \cup {Nobody} /\ crash_lock \in Threads \cup {Nobody}
  /\ broken \subseteq Threads /\ misused \in BOOLEAN

FallbackInit ==
  /\ trace_mutex = Nobody /\ sibling = Nobody /\ sent_fd = NoFd
  /\ trace_output = Empty
  /\ taken = [t \in Threads |-> NoFd]
  /\ pipe = [f \in Fds |-> ClosedPipe]
  /\ allocator = Nobody /\ crash_lock = Nobody
  /\ broken = {} /\ misused = FALSE

\* The process is dead: its memory and its descriptors are gone.
FallbackGone ==
  /\ trace_mutex' = Nobody /\ sibling' = Nobody /\ sent_fd' = NoFd
  /\ trace_output' = Empty
  /\ taken' = [t \in Threads |-> NoFd]
  /\ pipe' = [f \in Fds |-> ClosedPipe]
  /\ allocator' = Nobody /\ crash_lock' = Nobody /\ broken' = {}
  /\ UNCHANGED misused

\* What no step of this handler changes, besides moving its own thread.
Keeping == UNCHANGED <<process, ptraceVars, suspended, sent, crashed>>

-------------------------------------------------------------------------------
(* trace_handler, in the thread that was asked for a backtrace.                *)

\* pthread_mutex_trylock and tombstoned_connect: when either fails the request
\* is dropped.
trace_handler(t) ==
  /\ At(t, "trace")
  /\ \/ /\ trace_mutex = Nobody
        /\ trace_mutex' = t
        /\ GoTo(t, "trace_self")
        /\ UNCHANGED sig
     \/ /\ Return(t)
        /\ UNCHANGED trace_mutex
  /\ Keeping
  /\ UNCHANGED <<pending, sibling, sent_fd, trace_output, taken, pipe, lockVars, broken, misused>>

\* debuggerd_fallback_trace and debuggerd_fallback_tombstone: without the
\* allocator nothing is written.
EnableAllocator(t, before, during, after) ==
  /\ At(t, before)
  /\ IF allocator = Nobody
     THEN allocator' = t /\ GoTo(t, during)
     ELSE GoTo(t, after) /\ UNCHANGED allocator
  /\ Keeping
  /\ UNCHANGED <<sig, pending, tracerVars, trace_output, taken, pipe, crash_lock,
                 broken, misused>>

DisableAllocator(t, during, after) ==
  /\ At(t, during)
  /\ allocator' = Nobody
  /\ GoTo(t, after)
  /\ Keeping
  /\ UNCHANGED <<sig, pending, tracerVars, trace_output, taken, pipe, crash_lock,
                 broken, misused>>

Siblings(t) == {s \in Threads \ {t} : Live(s) /\ s > sibling}
FreeFds == {f \in Fds : ~pipe[f].open}
Lowest(S) == CHOOSE x \in S : \A y \in S : x <= y

\* iterate_siblings comes to the next thread: the write end of a new pipe is
\* offered in trace_output.  The thread is passed over when no descriptor is
\* free, and when trace_output is not empty.
Offer(t) ==
  /\ At(t, "trace_siblings") /\ Siblings(t) # {}
  /\ sibling' = Lowest(Siblings(t))
  /\ IF FreeFds = {} \/ trace_output # Empty
     THEN UNCHANGED <<pc, trace_output, sent_fd, pipe>>
     ELSE /\ sent_fd' = Lowest(FreeFds)
          /\ pipe' = [pipe EXCEPT ![sent_fd'] = NewPipe]
          /\ trace_output' = pack_thread_fd(sibling', sent_fd')
          /\ GoTo(t, "trace_signal")
  /\ Keeping
  /\ UNCHANGED <<sig, pending, trace_mutex, taken, lockVars, broken, misused>>

\* rt_tgsigqueueinfo.  When the thread has exited meanwhile the callback returns
\* at once; the read end is closed, and trace_output stays as it is.
SignalSibling(t) ==
  /\ At(t, "trace_signal")
  /\ IF Live(sibling)
     THEN /\ pending' = [pending EXCEPT ![sibling] = Append(@, "request")]
          /\ GoTo(t, "trace_poll")
          /\ UNCHANGED <<sent_fd, pipe>>
     ELSE /\ pipe' = [pipe EXCEPT ![sent_fd].reader = FALSE]
          /\ sent_fd' = NoFd
          /\ GoTo(t, "trace_siblings")
          /\ UNCHANGED pending
  /\ Keeping
  /\ UNCHANGED <<sig, trace_mutex, sibling, trace_output, taken, lockVars, broken, misused>>

\* forward_output polls for a second and reads the tid.  The second alternative
\* is the timeout, or an end of file before the tid.
PollOutput(t) ==
  /\ At(t, "trace_poll")
  /\ \/ /\ pipe[sent_fd].data # Nobody
        /\ pipe' = [pipe EXCEPT ![sent_fd].data = Nobody]
        /\ GoTo(t, IF pipe[sent_fd].data = sibling THEN "trace_forward" ELSE "trace_exchange")
     \/ /\ GoTo(t, "trace_exchange")
        /\ UNCHANGED pipe
  /\ Keeping
  /\ UNCHANGED <<sig, pending, tracerVars, trace_output, taken, lockVars, broken, misused>>

\* The rest of forward_output copies until the write end is closed.
ForwardOutput(t) ==
  /\ At(t, "trace_forward") /\ ~pipe[sent_fd].open
  /\ GoTo(t, "trace_exchange")
  /\ Keeping
  /\ UNCHANGED <<sig, pending, fallbackVars>>

\* The step after forward_output, for what it does to the offer and to the
\* descriptor f that it closes; then the read end goes out of scope.
Withdraw(t, offer, closed) ==
  /\ At(t, "trace_exchange")
  /\ trace_output' = offer
  /\ pipe' = [f \in Fds |-> [pipe[f] EXCEPT !.open = @ /\ f # closed,
                                            !.reader = @ /\ f # sent_fd]]
  /\ misused' = (misused \/ (closed # NoFd /\ ~pipe[closed].open))
  /\ sent_fd' = NoFd
  /\ GoTo(t, "trace_siblings")
  /\ Keeping
  /\ UNCHANGED <<sig, pending, trace_mutex, sibling, taken, lockVars, broken>>

\* trace_output.exchange: an offer that nobody took is closed here.
Exchange(t) == Withdraw(t, Empty, trace_output[2])

\* No sibling is left, or /proc could not be opened: footer,
\* tombstoned_notify_completion, unlock.
Traced(t) ==
  /\ At(t, "trace_siblings") /\ (Siblings(t) = {} \/ sibling = Nobody)
  /\ trace_mutex' = Nobody /\ sibling' = Nobody
  /\ Return(t)
  /\ Keeping
  /\ UNCHANGED <<pending, sent_fd, trace_output, taken, pipe, lockVars, broken, misused>>

-------------------------------------------------------------------------------
(* trace_handler, in a sibling that is asked to dump.                          *)

\* trace_output.load: an offer to another thread is not for this one.
Load(t) ==
  /\ At(t, "answer")
  /\ IF trace_output[1] = t
     THEN /\ taken' = [taken EXCEPT ![t] = trace_output[2]]
          /\ GoTo(t, "answer_take")
          /\ UNCHANGED sig
     ELSE Return(t) /\ UNCHANGED taken
  /\ Keeping
  /\ UNCHANGED <<pending, tracerVars, trace_output, pipe, lockVars, broken, misused>>

\* The answering thread owns the descriptor when own holds.
TakeIf(t, own) ==
  /\ At(t, "answer_take")
  /\ IF own
     THEN /\ trace_output' = Empty
          /\ GoTo(t, "answer_write")
          /\ UNCHANGED <<sig, taken>>
     ELSE /\ Return(t)
          /\ taken' = [taken EXCEPT ![t] = NoFd]
          /\ UNCHANGED trace_output
  /\ Keeping
  /\ UNCHANGED <<pending, tracerVars, pipe, lockVars, broken, misused>>

\* Mutant: a load and a store instead of a compare-and-exchange.
Take_Store(t) == TakeIf(t, TRUE)

\* compare_exchange_strong: fails when the tracing thread has moved on.
Take(t) == TakeIf(t, trace_output = pack_thread_fd(t, taken[t]))

\* The tid is written first.  Without a reader the write fails, and the SIGPIPE
\* it raises is blocked until the handler returns.
WriteTid(t) ==
  /\ At(t, "answer_write")
  /\ IF pipe[taken[t]].reader
     THEN /\ pipe' = [pipe EXCEPT ![taken[t]].data = t]
          /\ GoTo(t, "answer_trace")
          /\ UNCHANGED broken
     ELSE /\ broken' = broken \cup {t}
          /\ GoTo(t, "answer_close")
          /\ UNCHANGED pipe
  /\ misused' = (misused \/ ~pipe[taken[t]].open)
  /\ Keeping
  /\ UNCHANGED <<sig, pending, tracerVars, trace_output, taken, lockVars>>

\* close(fd) and return.  If the reader has gone, so may have the last writes of
\* the trace.  A SIGPIPE takes effect when the handler returns, and kills a
\* process that neither ignores nor handles it.
CloseTaken(t) ==
  /\ At(t, "answer_close")
  /\ pipe' = [pipe EXCEPT ![taken[t]].open = FALSE]
  /\ misused' = (misused \/ ~pipe[taken[t]].open)
  /\ taken' = [taken EXCEPT ![t] = NoFd]
  /\ \/ Return(t)
     \/ /\ t \in broken \/ ~pipe[taken[t]].reader
        /\ GoTo(t, "sigpipe") /\ UNCHANGED sig
  /\ broken' = broken \ {t}
  /\ Keeping
  /\ UNCHANGED <<pending, tracerVars, trace_output, lockVars>>

-------------------------------------------------------------------------------
(* crash_handler: one thread at a time writes its own tombstone.  Its check for *)
(* recursion never holds: the handler runs with every signal blocked.           *)

LockCrash(t) ==
  /\ At(t, "own_lock") /\ crash_lock = Nobody
  /\ crash_lock' = t
  /\ GoTo(t, "own_dump")
  /\ Keeping
  /\ UNCHANGED <<sig, pending, tracerVars, trace_output, taken, pipe, allocator,
                 broken, misused>>

\* tombstoned_notify_completion and unlock, back in debuggerd_signal_handler.
UnlockCrash(t) ==
  /\ At(t, "own_unlock")
  /\ crash_lock' = Nobody
  /\ GoTo(t, "resend")
  /\ Keeping
  /\ UNCHANGED <<sig, pending, tracerVars, trace_output, taken, pipe, allocator,
                 broken, misused>>

FallbackStep(t) ==
  \/ trace_handler(t)
  \/ EnableAllocator(t, "trace_self", "tracing_self", "trace_siblings")
  \/ DisableAllocator(t, "tracing_self", "trace_siblings")
  \/ Offer(t) \/ SignalSibling(t) \/ PollOutput(t) \/ ForwardOutput(t) \/ Exchange(t) \/ Traced(t)
  \/ Load(t) \/ Take(t) \/ WriteTid(t)
  \/ EnableAllocator(t, "answer_trace", "answering", "answer_close")
  \/ DisableAllocator(t, "answering", "answer_close")
  \/ CloseTaken(t)
  \/ LockCrash(t)
  \/ EnableAllocator(t, "own_dump", "dumping", "own_unlock")
  \/ DisableAllocator(t, "dumping", "own_unlock")
  \/ UnlockCrash(t)

-------------------------------------------------------------------------------
\* The hand-over of descriptors through trace_output is sound however late
\* siblings answer and whoever times out.  Nobody writes to or closes a
\* descriptor that is closed, which another part of the program may have opened
\* again meanwhile ("If this happened, the main thread closed our fd"); every
\* open write end has exactly one owner that will close it, the offer or the
\* thread that took it; the tracing thread never reads another thread's tid
\* from the pipe it made for a sibling ("received tid %d, expected %d"); and
\* between traces no offer is left, but for one whose thread had exited when the
\* signal was sent, which SignalSibling leaves behind.
HandOverSound ==
  /\ ~misused
  /\ \A f \in Fds : Alive /\ pipe[f].open =>
       Cardinality({t \in Threads : taken[t] = f /\ pc[t] # "answer_take"})
         + (IF trace_output[2] = f THEN 1 ELSE 0) = 1
  /\ \A t \in Threads :
       pc[t] = "trace_poll" /\ Alive => pipe[sent_fd].data \in {Nobody, sibling}
  /\ Alive /\ trace_mutex = Nobody /\ trace_output # Empty => ~Live(trace_output[1])
================================================================================
