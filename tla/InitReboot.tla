----------------------------- MODULE InitReboot -----------------------------
(***************************************************************************)
(* The end of init (init/reboot.cpp): DoReboot, which the shutdown_done    *)
(* action runs on the main thread, and the monitor thread that reboots the *)
(* device if the main thread does not.  The two share a semaphore.         *)
(***************************************************************************)
EXTENDS InitLoop

CONSTANT KillAfterApps  \* services that are stopped last (logd, adbd, ...)

VARIABLES
  sem,      \* reboot_semaphore
  monitor   \* where the monitor thread is

rebootVars == <<sem, monitor>>
vars == <<w, used, sem, monitor>>

Spared(u, s) == Has(u, s, "SHUTDOWN_CRITICAL")

SetShutdownCritical(u, s) == Raise(u, s, {"SHUTDOWN_CRITICAL"})

services_in_shutdown_order_NotAsked(u) ==
  {s \in Services : Has(u, s, "RUNNING") /\ ~Has(u, s, "DISABLED")}

\* The services with a start_order, that is, with a process.  What is done
\* to each does not depend on the others, so the order is left out.
services_in_shutdown_order(u) == {s \in Services : Has(u, s, "RUNNING")}

\* From here on nobody looks at the queues, the properties and the signals.
Forget(u) ==
  [u EXCEPT !.inbox = <<>>, !.busy = <<>>, !.sock = "closed", !.load = FALSE,
            !.value = [n \in Props |-> ""], !.events = <<>>,
            !.executing = <<>>, !.command = 0, !.fired = {}, !.late = {},
            !.delayed = <<>>, !.ends = [s \in Critical |-> 0],
            !.shutdown = <<>>, !.signals = {},
            !.sleep = "none", !.down = TRUE, !.enabled = TRUE]

\* The device is off: all that remains is that it was done.
RebootSystem ==
  /\ w' = [Forget(w) EXCEPT !.pc = "rebooted", !.fsck = FALSE,
             !.crashes = [s \in Services |-> 0], !.updated = TRUE,
             !.flags = [s \in Services |-> RcFlags(s)],
             !.proc = [s \in Services |-> "none"]]
  /\ sem' = 0 /\ monitor' = "none"

(***************************************************************************)
(* The main thread.                                                        *)
(***************************************************************************)
Step == UNCHANGED used

Uncounted == used' = 0

\* /data is not mounted: nothing to save.
RebootAtOnce ==
  /\ w.pc = "DoReboot"
  /\ RebootSystem /\ Uncounted

DoReboot ==
  /\ w.pc = "DoReboot"
  /\ LET kept == ForEachService(w, SetShutdownCritical, KillAfterApps)
         started == ForEachService(kept, Start,
                                   ShutdownCritical \ KillAfterApps)
     IN w' = [Forget(started) EXCEPT !.pc = "terminate"]
  /\ monitor' = "wait" /\ sem' = sem + 1
  /\ Uncounted

Terminating ==
  /\ w.pc = "terminate"
  /\ w' = [ForEachService(w, LAMBDA u, s : IF Spared(u, s) THEN u
                                           ELSE Terminate(u, s),
                          services_in_shutdown_order(w))
             EXCEPT !.pc = "drain"]
  /\ UNCHANGED rebootVars /\ Step

\* Reap until nothing is left that was asked to terminate, or half of the
\* shutdown timeout has passed.
Drain ==
  /\ w.pc = "drain"
  /\ LET u == ReapAnyOutstandingChildren(w)
         left == {s \in Services : ~Spared(u, s) /\ u.proc[s] # "none"}
     IN \E timeout \in BOOLEAN :
          w' = [u EXCEPT !.pc = IF left = {} \/ timeout THEN "stop" ELSE @]
  /\ UNCHANGED rebootVars /\ Step

Stopping ==
  /\ w.pc = "stop"
  /\ LET stopped == ForEachService(w, LAMBDA u, s : IF Spared(u, s) THEN u
                                                    ELSE Stop(u, s),
                                   services_in_shutdown_order(w))
         reaped == ReapAnyOutstandingChildren(stopped)
     IN w' = [ForEachService(reaped, Stop, KillAfterApps \cap
                               services_in_shutdown_order(reaped))
                EXCEPT !.pc = "umount"]
  /\ UNCHANGED rebootVars /\ Step

TryUmountAndFsck_NoPause ==
  /\ w.pc = "umount"
  /\ \E unmounted \in BOOLEAN :
       w' = [w EXCEPT !.pc = IF unmounted /\ w.fsck THEN "fsck" ELSE "sync"]
  /\ UNCHANGED rebootVars /\ Step

\* The post before fsck takes the monitor out of its timed wait.
TryUmountAndFsck ==
  /\ w.pc = "umount"
  /\ \E unmounted \in BOOLEAN :
       IF unmounted /\ w.fsck
       THEN w' = [w EXCEPT !.pc = "fsck"] /\ sem' = sem + 1
       ELSE w' = [w EXCEPT !.pc = "sync"] /\ UNCHANGED sem
  /\ UNCHANGED monitor /\ Step

DoFsck ==
  /\ w.pc = "fsck"
  /\ w' = [w EXCEPT !.pc = "sync"] /\ sem' = sem + 1
  /\ UNCHANGED monitor /\ Step

\* reboot_monitor_run is cleared and the monitor woken; the device reboots.
RebootLast ==
  /\ w.pc = "sync"
  /\ RebootSystem /\ Uncounted

\* A process that was sent SIGTERM, or any other, exits meanwhile.
ExitInReboot(s) ==
  /\ w.pc \in {"terminate", "drain", "stop", "umount", "fsck"}
  /\ w.proc[s] = "alive"
  /\ w' = [w EXCEPT !.proc[s] = "exited"]
  /\ UNCHANGED rebootVars /\ Step

(***************************************************************************)
(* The monitor thread.                                                     *)
(***************************************************************************)
InReboot == w.pc \in {"terminate", "drain", "stop", "umount", "fsck", "sync"}

MonitorWaits ==
  /\ InReboot /\ monitor = "wait" /\ sem > 0
  /\ monitor' = "timedwait" /\ sem' = sem - 1
  /\ UNCHANGED w /\ Step

MonitorPaused ==
  /\ InReboot /\ monitor = "timedwait" /\ sem > 0
  /\ monitor' = "wait" /\ sem' = sem - 1
  /\ UNCHANGED w /\ Step

MonitorTimesOut ==
  /\ InReboot /\ monitor = "timedwait" /\ sem = 0
  /\ RebootSystem /\ Uncounted
=============================================================================
