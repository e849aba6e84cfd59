----------------------------- MODULE InitSystem -----------------------------
(***************************************************************************)
(* init as a whole: its main loop, the property service thread, the        *)
(* processes it runs and the reboot that ends it, with the properties of   *)
(* their interplay.                                                        *)
(***************************************************************************)
EXTENDS InitReboot

Init == InitLoopInit /\ sem = 0 /\ monitor = "none"

Ended == w.pc \in {"rebooted", "abort"}

\* init itself waits for a property that has not come, or for a process.
Blocked ==
  \/ w.wait # <<>> /\ w.value[w.wait[1][1]] # w.wait[1][2]
  \/ \E s \in Services : Has(w, s, "EXEC") /\ w.proc[s] = "alive"

\* Nothing is left to do: every message and signal has been handled, every
\* command has been run and no service waits to be started or killed.
Settled ==
  \/ Ended
  \/ /\ w.pc = "epoll" /\ w.sock = "open"
     /\ w.inbox = <<>> /\ w.busy = <<>> /\ w.signals = {} /\ ~w.load
     /\ w.shutdown \in {<<>>, <<"on_failure">>}
     /\ Blocked \/ (~HasMoreCommands(w) /\ \A s \in Services : ~Scheduled(w, s))

LoopStep == Turn \/ Wake

ThreadStep == ThreadSends \/ LoadPersistentProperties \/ StopSendingMessages

\* The steps of the main thread in DoReboot that may hang for ever.
RebootStep ==
  \/ Terminating \/ Drain \/ Stopping \/ TryUmountAndFsck \/ RebootLast
  \/ \E s \in Services : ExitInReboot(s)

MonitorStep == MonitorWaits \/ MonitorPaused \/ MonitorTimesOut

\* What is bound to happen if it can.
SystemStep ==
  \/ (LoopStep \/ ThreadStep \/ \E s \in Services : TimePasses(s))
       /\ UNCHANGED rebootVars
  \/ RebootAtOnce \/ DoReboot \/ DoFsck \/ MonitorStep

Environment ==
  /\ ~Ended
  /\ RequestSet \/ SendControlMessage \/ KernelSigterm
       \/ \E s \in Services : Exit(s)
  /\ UNCHANGED rebootVars

Next == SystemStep \/ RebootStep \/ Environment

\* When a SystemStep is possible.
CanStep ==
  \/ w.pc \in {"turn", "DoReboot", "fsck"}
  \/ /\ w.pc = "epoll"
     /\ \/ Readable(w) # {} \/ TimerExpired(w) \/ w.busy # <<>> \/ w.load
        \/ w.sock = "closing"
        \/ \E s \in Services : Scheduled(w, s) /\ s \notin w.late
  \/ InReboot /\ (monitor = "timedwait" \/ (monitor = "wait" /\ sem > 0))

\* Weak fairness of SystemStep: as all other steps are bounded in number,
\* it is enough that something happens as long as a SystemStep is possible.
Fairness == []<>~CanStep \/ []<><<TRUE>>_vars

Spec == Init /\ [][Next]_vars /\ Fairness

(***************************************************************************)
(* Safety.                                                                 *)
(***************************************************************************)
\* The flags of a service never contradict each other, whatever was asked of
\* it while its process was being killed: one that waits to be restarted has
\* no process and was not stopped, reset or asked to restart since
\* (service.cpp, Start, StopOrReset, Reap).  And init holds its commands back
\* for an exec exactly as long as there is a process whose end will release
\* them (is_exec_service_running_).
ServicesConsistent ==
  /\ \A s \in Services :
       /\ Has(w, s, "RUNNING") <=> w.proc[s] # "none"
       /\ Has(w, s, "RESTARTING") =>
            w.flags[s] \cap {"RUNNING", "DISABLED", "RESET", "RESTART"} = {}
  /\ w.exec <=> \E s \in Services : Has(w, s, "EXEC") /\ w.proc[s] # "none"

InFlight == Range(w.busy) \cup Range(w.inbox)

WaitIsAnswered ==
  w.wait # <<>> /\ w.value[w.wait[1][1]] = w.wait[1][2] =>
    Changed(w.wait[1][1], w.wait[1][2]) \in InFlight

TriggersAnswered ==
  \A a \in {x \in DOMAIN Script : Script[x].event = ""} \ w.fired :
    CheckPropertyTriggers(w, a, "", "") =>
      \/ \E e \in Range(w.events) : CheckEvent(w, a, e)
      \/ \E e \in Range(w.events) : e.name = "queue_property_triggers"
      \/ /\ w.enabled
         /\ \E m \in InFlight : /\ m.kind = "changed"
                                /\ CheckPropertyTriggers(w, a, m.name, m.value)

\* No change of a property is missed.  Init looks at a property and then waits
\* for it while the thread sets it and then sends a message: when the property
\* has the value init waits for, the message is on its way.  And before, while
\* and after the triggers are enabled, when the condition of an action holds
\* and the action has not been begun since, a message or an event that will
\* begin it is on its way.
NoChangeMissed ==
  Running => WaitIsAnswered /\ (w.sock = "open" => TriggersAnswered)

\* The action queue stays sound: the next command is one of the action being
\* executed, and once a shutdown has begun, what ends in DoReboot stays
\* queued, although requests to shut down arrive while commands run
\* (EnterShutdown, ClearQueue).
QueueSound ==
  /\ IF w.executing = <<>> THEN w.command = 0
     ELSE w.command < Len(Commands(Head(w.executing)))
  /\ Running /\ w.sock # "open" =>
       \/ "shutdown_done" \in Range(w.executing)
       \/ \E e \in Range(w.events) : e.name = "shutdown_done"

\* Those that the end of a service stopped last brings back.
BroughtBack ==
  {s \in Services : \E k \in KillAfterApps :
                      \E c \in Range(OnRestart[k]) : s \in Range(c)}

\* When the partitions are unmounted, no process of a service is left but
\* those that a shutdown needs, however the exits of the others fall (steps 1
\* to 3 of DoReboot); the onrestart commands of a service that is stopped
\* last, and exits before its turn, are the only way back.
OnlyNeededAtUmount ==
  w.pc \in {"umount", "fsck", "sync"} =>
    \A s \in Services \ BroughtBack :
      w.proc[s] = "alive" => s \in ShutdownCritical \ KillAfterApps

\* The monitor thread cannot reboot the device in the middle of an fsck.
FsckNotInterrupted ==
  w.pc = "fsck" => ~(monitor = "timedwait" /\ sem = 0)

\* init aborts into the bootloader only if a critical service exited on its
\* own more often than it may; a restart that was asked for does not count,
\* unless a start overtakes it before the old process is reaped (Reap, Start).
AbortOnlyAfterCrashes ==
  w.pc = "abort" => \E s \in Critical : w.ends[s] > CrashLimit

(***************************************************************************)
(* An action property and liveness.                                        *)
(***************************************************************************)
\* A ctl.start from a process that has seen the service gone starts it: the
\* request is not mistaken for one about the process that is already dead,
\* though init may not have heard of its end (init.cpp:844).
StartTakesEffect ==
  [][LET m == Head(w.inbox)
     IN w.pc = "epoll" /\ w'.pc = "turn" /\ w.inbox # <<>>
          /\ m.kind = "control" /\ m.msg = "start" /\ m.dead
        => w'.proc[m.svc] = "alive" \/ NotYetLoaded(w, m.svc)]_vars

\* init always gets everything done: it answers every message and signal,
\* runs every command, restarts what waits for it and kills what is overdue,
\* unless it waits for a property or for an exec'ed process; and a shutdown
\* that has begun ends in a reboot even if the main thread hangs in it.
Settles == []<>Settled
=============================================================================
