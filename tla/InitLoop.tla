------------------------------ MODULE InitLoop ------------------------------
(***************************************************************************)
(* The main loop of the second stage of init (init/init.cpp), the property *)
(* service thread that feeds it and the processes around it.  The loop     *)
(* alternates between Turn, one round of work that ends by choosing how    *)
(* long to sleep, and the handlers of whatever woke it up.  Last fields of *)
(* the state w:                                                            *)
(*   down     shutting_down                                                *)
(*   sleep    the epoll timeout: "none", "timer" or "now"                  *)
(*   signals  the signals pending on signal_fd                             *)
(*   fsck     the shutdown under way was asked to run fsck                 *)
(***************************************************************************)
EXTENDS InitAction

CONSTANTS
  Timed,        \* services with a timeout_period
  Props,        \* the properties of the model
  Requests,     \* what other processes ask of the property service
  MaxEvents     \* bound: requests, and exits of processes not exec'ed

VARIABLES
  w,      \* the state of init
  used    \* requests made and processes that exited on their own

InitLoopInit ==
  /\ w = [flags |-> [s \in Services |-> RcFlags(s)],
          proc |-> [s \in Services |-> "none"],
          late |-> {}, crashes |-> [s \in Services |-> 0],
          ends |-> [s \in Critical |-> 0],
          exec |-> FALSE, updated |-> FALSE, delayed |-> <<>>,
          value |-> [n \in Props |-> ""], busy |-> <<>>, inbox |-> <<>>,
          sock |-> "open", shutdown |-> <<>>, fired |-> {},
          wait |-> <<>>, load |-> FALSE, enabled |-> FALSE,
          events |-> <<[kind |-> "event", name |-> "boot"],
                       [kind |-> "builtin",
                        name |-> "queue_property_triggers"]>>,
          executing |-> <<>>, command |-> 0, pc |-> "turn",
          down |-> FALSE, sleep |-> "now", signals |-> {},
          fsck |-> FALSE]
  /\ used = 0

(***************************************************************************)
(* Shutdown requests.  "bad" is a command init does not recognise, or one  *)
(* whose bootloader message cannot be written.                             *)
(***************************************************************************)
HandlePowerctlMessage(u, command) ==
  LET queued == QueueBuiltinAction(QueueEventTrigger(ClearQueue(u),
                                                     "shutdown"),
                                   "shutdown_done")
  IN [ForEachService(queued, UnSetExec, Services) EXCEPT
        !.wait = <<>>,
        !.sock = IF @ = "open" THEN "closing" ELSE @,
        !.fsck = command = "userrequested"]

BeginShutdown(u) ==
  IF u.shutdown = <<>> \/ u.down THEN u
  ELSE LET v == [u EXCEPT !.shutdown = <<>>]
       IN IF u.shutdown[1] = "bad" THEN v
          ELSE [HandlePowerctlMessage(v, u.shutdown[1]) EXCEPT !.down = TRUE]

(***************************************************************************)
(* One round of the loop, up to epoll.Wait.                                *)
(***************************************************************************)
Idle(u) == u.wait = <<>> /\ ~u.exec

HandleProcessActions(u) ==
  ForEachService(u, LAMBDA x, s :
    LET y == IF s \in Timed /\ Has(x, s, "RUNNING") /\ s \in x.late
             THEN Timeout(x, s) ELSE x
    IN IF Has(y, s, "RESTARTING") /\ s \in y.late THEN Start(y, s) ELSE y,
    Services)

\* A process action that has a time, and so ends epoll.Wait.
Scheduled(u, s) ==
  Has(u, s, "RESTARTING") \/ (s \in Timed /\ Has(u, s, "RUNNING"))

Sleep_NoTimer(ran, acted) ==
  IF Idle(acted) /\ (HasMoreCommands(acted) \/ acted # ran) THEN "now"
  ELSE "none"

\* The epoll timeout.  Starting or killing a service sets its init.svc.*
\* property, whose message ends the sleep at once.
Sleep(ran, acted) ==
  CASE Idle(acted) /\ (HasMoreCommands(acted) \/ acted # ran) -> "now"
    [] Idle(acted) /\ ~HasMoreCommands(acted) /\ acted = ran /\ ~ran.down
         /\ \E s \in Services : Scheduled(ran, s) -> "timer"
    [] OTHER -> "none"

Turn ==
  /\ w.pc = "turn"
  /\ LET begun == BeginShutdown(w)
         ran == IF Idle(begun) THEN ExecuteOneCommand(begun) ELSE begun
         acted == IF Idle(ran) /\ ~ran.down THEN HandleProcessActions(ran)
                  ELSE ran
     IN w' = IF ran.pc = "DoReboot" THEN ran
             ELSE [acted EXCEPT !.pc = "epoll", !.sleep = Sleep(ran, acted)]
  /\ UNCHANGED used

(***************************************************************************)
(* Waking up.                                                              *)
(***************************************************************************)
Readable(u) ==
  (IF u.signals # {} THEN {"signal_fd"} ELSE {}) \cup
  (IF u.inbox # <<>> THEN {"property_fd"} ELSE {})

TimerExpired(u) ==
  u.sleep = "now" \/
  (u.sleep = "timer" /\ \E s \in u.late : Scheduled(u, s))

property_changed(u, n, v) ==
  LET asked == IF n = "sys.powerctl" THEN EnterShutdown(u, v) ELSE u
      queued == IF u.enabled THEN QueuePropertyChange(asked, n, v) ELSE asked
  IN [queued EXCEPT !.wait = IF @ = <<<<n, v>>>> THEN <<>> ELSE @]

HandleControlMessage(u, m) ==
  CASE m.msg = "start" -> Start(u, m.svc)
    [] m.msg = "stop" -> Stop(u, m.svc)
    [] m.msg = "restart" -> Restart(u, m.svc)

HandlePropertyFd(u) ==
  LET m == Head(u.inbox)
      rest == [u EXCEPT !.inbox = Tail(@)]
  IN IF m.kind = "changed" THEN property_changed(rest, m.name, m.value)
     ELSE HandleControlMessage(rest, m)

\* One signal per call, in any order; SIGTERM is the kernel's.
HandleSignalFd(u, sig) ==
  LET v == [u EXCEPT !.signals = @ \ {sig}]
  IN IF sig = "CHLD" THEN ReapAnyOutstandingChildren(v)
     ELSE HandlePowerctlMessage(v, "shutdown,container")

ReapFirst_Skipped(u) == u

\* Children are reaped before anything else is looked at.
ReapFirst(u) == ReapAnyOutstandingChildren(u)

\* The pending functions are called in the order epoll reported them.
Wake ==
  /\ w.pc = "epoll"
  /\ Readable(w) # {} \/ TimerExpired(w)
  /\ LET Done(u) == [u EXCEPT !.pc = IF @ = "abort" THEN @ ELSE "turn",
                              !.sleep = "none"]
         reaped == ReapFirst(w)
     IN CASE Readable(w) = {} -> w' = Done(w)
          [] Readable(w) = {"property_fd"} ->
               w' = Done(HandlePropertyFd(reaped))
          [] Readable(w) = {"signal_fd"} ->
               \E sig \in w.signals : w' = Done(HandleSignalFd(reaped, sig))
          [] OTHER ->
               \E sig \in w.signals :
                 \/ w' = Done(HandleSignalFd(HandlePropertyFd(reaped), sig))
                 \/ w' = Done(HandlePropertyFd(HandleSignalFd(reaped, sig)))
  /\ UNCHANGED used

(***************************************************************************)
(* The property service thread serves one request at a time: it changes    *)
(* the area, then sends the message.  Only Wake looks at what was sent, so *)
(* that a message arrives while init is in epoll.Wait is no restriction.   *)
(***************************************************************************)
\* init has not begun its last command.
Running == w.pc \in {"turn", "epoll"}

\* Another process sets a property.
RequestSet ==
  \E r \in Requests :
    /\ r.kind = "set" /\ used < MaxEvents /\ w.busy = <<>> /\ Running
    /\ w' = PropertySet(w, r.name, r.value)
    /\ used' = used + 1

ThreadSends ==
  /\ w.busy # <<>> /\ w.pc = "epoll"
  /\ w' = SendPropertyChanged(w)
  /\ UNCHANGED used

\* Another process sets a ctl. property; dead says that it saw that the
\* service has no process (a history field).
SendControlMessage ==
  \E r \in Requests :
    /\ r.kind = "control" /\ used < MaxEvents
    /\ w.busy = <<>> /\ w.sock # "closed" /\ w.pc = "epoll"
    /\ w' = [w EXCEPT !.inbox = Append(@,
               [kind |-> "control", msg |-> r.msg, svc |-> r.svc,
                dead |-> w.proc[r.svc] # "alive"])]
    /\ used' = used + 1

\* The two messages init sends to the thread.
LoadPersistentProperties ==
  /\ w.load /\ w.busy = <<>> /\ Running
  /\ w' = PropertySet([w EXCEPT !.load = FALSE], "ready", "true")
  /\ UNCHANGED used

StopSendingMessages ==
  /\ w.sock = "closing" /\ w.busy = <<>> /\ Running
  /\ w' = [w EXCEPT !.sock = "closed"]
  /\ UNCHANGED used

(***************************************************************************)
(* Processes, time and the kernel.                                         *)
(***************************************************************************)
\* How it exits matters for a service with reboot_on_failure only.
Exit(s) ==
  /\ w.proc[s] = "alive" /\ Running
  /\ Has(w, s, "EXEC") \/ used < MaxEvents
  /\ \E how \in IF s \in OnFailure THEN {"exited", "failed"} ELSE {"exited"} :
       w' = [NoteEnd(w, s) EXCEPT !.proc[s] = how,
                                  !.signals = @ \cup {"CHLD"}]
  /\ used' = IF Has(w, s, "EXEC") THEN used ELSE used + 1

TimePasses(s) ==
  /\ Scheduled(w, s) /\ s \notin w.late /\ w.pc = "epoll"
  /\ w' = [w EXCEPT !.late = @ \cup {s}]
  /\ UNCHANGED used

KernelSigterm ==
  /\ [kind |-> "sigterm"] \in Requests /\ used < MaxEvents /\ Running
  /\ w' = [w EXCEPT !.signals = @ \cup {"TERM"}]
  /\ used' = used + 1
=============================================================================
