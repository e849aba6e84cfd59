---------------------------- MODULE InitService ----------------------------
(***************************************************************************)
(* init's services: init/service.cpp, service_list.cpp and the part of     *)
(* property_service.cpp by which init's main thread sets a property.       *)
(*                                                                         *)
(* Every operation is a function from the state w of init to its next      *)
(* state, because the handlers of the main loop chain them: reaping one    *)
(* child runs its onrestart commands, which restart other services, which  *)
(* set properties, which send messages back to the loop.  The fields of w  *)
(* these operations use are                                                *)
(*   flags     SVC_* flags of each service                                 *)
(*   proc      its process: "none", "alive", or a zombie that "exited"     *)
(*             with status 0 or "failed"                                   *)
(*   late      services past their restart time or timeout                 *)
(*   crashes   crash_count_                                                *)
(*   exec      is_exec_service_running_                                    *)
(*   updated, delayed      the service list's services_update_finished_    *)
(*             and delayed_service_names_                                  *)
(*   value     the property area                                           *)
(*   busy      <<m>> when the property service thread has changed the area *)
(*             and not yet sent message m                                  *)
(*   inbox     messages init has yet to read from property_fd              *)
(*   sock      "open", "closing" once init asked the thread to stop        *)
(*             sending, "closed" once it did (init_socket = -1)            *)
(*   shutdown  <<>>, or <<command>> once do_shutdown is set                *)
(*   ends      how often a critical service exited on its own, or was      *)
(*             started while it was being stopped (a history variable)     *)
(*   fired     the property actions begun since a property they name was   *)
(*             last set (a history variable)                               *)
(***************************************************************************)
EXTENDS Integers, Sequences, SequencesExt

CONSTANTS
  ServiceList,       \* the services, in the order of the service list
  Oneshot,           \* parsed with "oneshot"
  RcDisabled,        \* parsed with "disabled"
  Critical,          \* parsed with "critical"
  OnFailure,         \* parsed with "reboot_on_failure"
  Updatable,         \* parsed with "updatable"
  Missing,           \* services whose executable does not exist
  Temporary,         \* the service an "exec" command makes
  Main,              \* services of class "main"
  ShutdownCritical,  \* parsed with "shutdown critical", and watchdogd
  SvcProp,           \* the init.svc.* property of each service a script names
  ActionList,        \* the actions of the scripts, in the order of actions_
  Script,            \* per action: its event or "", its properties, commands
  OnRestart,         \* per service: its onrestart commands
  CrashLimit         \* 4 in the code

Services == Range(ServiceList)

ASSUME InitServiceAssumption ==
  /\ IsInjective(ServiceList)
  /\ Oneshot \cup RcDisabled \cup Critical \cup OnFailure \cup Updatable
       \cup Missing \cup Temporary \cup Main \cup ShutdownCritical
       \cup DOMAIN SvcProp \subseteq Services
  /\ Temporary \subseteq Oneshot
  /\ CrashLimit \in Nat
  /\ Range(ActionList) = DOMAIN Script
  /\ DOMAIN OnRestart = Services

RcFlags(s) ==
  (IF s \in Oneshot THEN {"ONESHOT"} ELSE {}) \cup
  (IF s \in RcDisabled THEN {"DISABLED", "RC_DISABLED"} ELSE {}) \cup
  (IF s \in ShutdownCritical THEN {"SHUTDOWN_CRITICAL"} ELSE {})

Has(w, s, f) == f \in w.flags[s]
Clear(w, s, fs) == [w EXCEPT !.flags[s] = @ \ fs]
Raise(w, s, fs) == [w EXCEPT !.flags[s] = @ \cup fs]

(***************************************************************************)
(* Properties.                                                             *)
(***************************************************************************)
Changed(n, v) == [kind |-> "changed", name |-> n, value |-> v]

\* The thread sends what it still has to send before it serves anyone else.
SendPropertyChanged(w) ==
  [w EXCEPT !.inbox = IF w.sock = "closed" THEN @ ELSE @ \o w.busy,
            !.busy = <<>>]

\* PropertySet, up to the message: the area changes first.
PropertySet(w, n, v) ==
  [w EXCEPT !.value[n] = v, !.busy = <<Changed(n, v)>>,
            !.fired = {a \in @ : \A t \in Script[a].props : t[1] # n}]

\* init's own property_set is a request to the thread that init waits for.
property_set(w, n, v) ==
  SendPropertyChanged(PropertySet(SendPropertyChanged(w), n, v))

NotifyStateChange(w, s, state) ==
  IF s \in Temporary \/ s \notin DOMAIN SvcProp
  THEN w ELSE property_set(w, SvcProp[s], state)

\* The shutdown begins at once, under the feet of the command that runs.
EnterShutdown_AtOnce(w, command) ==
  [w EXCEPT !.executing = <<>>, !.command = 0,
            !.events = <<[kind |-> "event", name |-> "shutdown"],
                         [kind |-> "builtin", name |-> "shutdown_done"]>>]

EnterShutdown(w, command) == [w EXCEPT !.shutdown = <<command>>]

RebootOnFailure(w, s) ==
  IF s \in OnFailure THEN EnterShutdown(w, "on_failure") ELSE w

(***************************************************************************)
(* Starting and stopping.                                                  *)
(***************************************************************************)
\* SIGKILL: killProcessGroup waits until the group is empty, so the process
\* is a zombie when it returns.
KillProcessGroup(w, s) ==
  IF w.proc[s] = "alive"
  THEN [w EXCEPT !.proc[s] = IF s \in OnFailure THEN "failed" ELSE "exited",
                 !.signals = @ \cup {"CHLD"}]
  ELSE w

NotYetLoaded(w, s) == s \in Updatable /\ ~w.updated

DelayService(w, s) == [w EXCEPT !.delayed = Append(@, s)]

\* Whoever asks for a start from here on sees the new process.
Fork(w, s) ==
  NotifyStateChange(
    [Raise(w, s, {"RUNNING"}) EXCEPT
       !.proc[s] = "alive",
       !.late = @ \ {s},
       !.inbox = [i \in DOMAIN @ |->
                    IF @[i].kind = "control" /\ @[i].svc = s
                    THEN [@[i] EXCEPT !.dead = FALSE] ELSE @[i]]],
    s, "running")

\* An end of s that init will take for a crash.
NoteEnd(w, s) ==
  IF s \in Critical THEN [w EXCEPT !.ends[s] = @ + 1] ELSE w

Start(w, s) ==
  LET disabled == w.flags[s] \cap {"DISABLED", "RESET"} # {}
      u == Clear(w, s, {"DISABLED", "RESTARTING", "RESET", "RESTART",
                        "DISABLED_START"})
      v == IF disabled \/ Has(w, s, "RESTART") THEN NoteEnd(u, s) ELSE u
  IN CASE NotYetLoaded(w, s) -> RebootOnFailure(DelayService(w, s), s)
       [] ~NotYetLoaded(w, s) /\ Has(w, s, "RUNNING") ->
            IF Has(w, s, "ONESHOT") /\ disabled
            THEN Raise(v, s, {"RESTART"}) ELSE v
       [] OTHER ->
            IF s \in Missing
            THEN RebootOnFailure(Raise(u, s, {"DISABLED"}), s)
            ELSE Fork(u, s)

ExecStart(w, s) ==
  IF NotYetLoaded(w, s) THEN RebootOnFailure(w, s)
  ELSE LET u == Start(Raise(w, s, {"ONESHOT"}), s)
       IN IF Has(u, s, "RUNNING")
          THEN [Raise(u, s, {"EXEC"}) EXCEPT !.exec = TRUE] ELSE u

UnSetExec(w, s) == [Clear(w, s, {"EXEC"}) EXCEPT !.exec = FALSE]

StartIfNotDisabled(w, s) ==
  IF Has(w, s, "DISABLED") THEN Raise(w, s, {"DISABLED_START"})
  ELSE Start(w, s)

Enable(w, s) ==
  LET u == Clear(w, s, {"DISABLED", "RC_DISABLED"})
  IN IF Has(u, s, "DISABLED_START") THEN Start(u, s) ELSE u

Killed(w, s, otherwise) ==
  IF w.proc[s] # "none"
  THEN NotifyStateChange(KillProcessGroup(w, s), s, "stopping")
  ELSE otherwise

StopOrReset_KeepsRestarting(w, s, how) ==
  LET u == Raise(w, s, {how})
  IN Killed(u, s, NotifyStateChange(u, s, "stopped"))

StopOrReset(w, s, how) ==
  LET flag == IF how = "RESET" /\ Has(w, s, "RC_DISABLED")
              THEN "DISABLED" ELSE how
      cleared == IF how = "RESTART" THEN {"DISABLED", "RESET"}
                 ELSE {"RESTART"}
      u == Clear(Raise(w, s, {flag}), s,
                 {"RESTARTING", "DISABLED_START"} \cup cleared)
  IN Killed(u, s, NotifyStateChange(u, s, "stopped"))

Stop(w, s) == StopOrReset(w, s, "DISABLED")

Reset(w, s) == StopOrReset(w, s, "RESET")

\* SIGTERM asks the process to exit; it may do so at any later time.
Terminate(w, s) ==
  LET u == Raise(Clear(w, s, {"RESTARTING", "DISABLED_START"}), s,
                 {"DISABLED"})
  IN IF w.proc[s] # "none" THEN NotifyStateChange(u, s, "stopping") ELSE u

Timeout(w, s) == Killed(w, s, w)

Restart(w, s) ==
  CASE Has(w, s, "RUNNING") -> StopOrReset(w, s, "RESTART")
    [] Has(w, s, "RESTARTING") -> w
    [] OTHER -> Start(w, s)

\* Op applied to each service of the list that is in S, in list order.
ForEachService(w, Op(_, _), S) ==
  FoldLeft(LAMBDA u, s : IF s \in S THEN Op(u, s) ELSE u, w, ServiceList)

MarkServicesUpdate(w) ==
  [FoldLeft(Start, [w EXCEPT !.updated = TRUE], w.delayed)
     EXCEPT !.delayed = <<>>]
=============================================================================
