----------------------------- MODULE InitAction -----------------------------
(***************************************************************************)
(* What init executes: the commands of init/builtins.cpp that act on       *)
(* services, properties and events, Service::Reap with its onrestart       *)
(* commands, and the action manager (action.cpp, action_manager.cpp) that  *)
(* runs the actions of the scripts one command at a time.  More of the     *)
(* state w of InitService:                                                 *)
(*   wait       <<>>, or <<<<name, value>>>> while waiting_for_prop        *)
(*   load       the thread has been asked for the persistent properties    *)
(*   enabled    property_triggers_enabled                                  *)
(*   events     event_queue_                                               *)
(*   executing  current_executing_actions_                                 *)
(*   command    current_command_                                           *)
(*   pc         where init's main thread is                                *)
(***************************************************************************)
EXTENDS InitService

(***************************************************************************)
(* Commands.                                                               *)
(***************************************************************************)
start_waiting_for_property(w, n, v) ==
  IF w.wait = <<>> /\ w.value[n] # v THEN [w EXCEPT !.wait = <<<<n, v>>>>]
  ELSE w

QueueEvent(w, e) == [w EXCEPT !.events = Append(@, e)]
QueueEventTrigger(w, e) == QueueEvent(w, [kind |-> "event", name |-> e])
QueuePropertyChange(w, n, v) ==
  QueueEvent(w, [kind |-> "property", name |-> n, value |-> v])
QueueAllPropertyActions(w) == QueuePropertyChange(w, "", "")
QueueBuiltinAction(w, b) == QueueEvent(w, [kind |-> "builtin", name |-> b])

queue_property_triggers_action_Swapped(w) ==
  QueueBuiltinAction(QueueAllPropertyActions(w), "enable_property_trigger")

\* The triggers are enabled first and the current values are looked at
\* second: a change in between is seen twice rather than not at all.
queue_property_triggers_action(w) ==
  QueueAllPropertyActions(QueueBuiltinAction(w, "enable_property_trigger"))

Execute(w, c) ==
  CASE c[1] = "start" -> Start(w, c[2])
    [] c[1] = "stop" -> Stop(w, c[2])
    [] c[1] = "restart" -> Restart(w, c[2])
    [] c[1] = "enable" -> Enable(w, c[2])
    [] c[1] = "exec" -> ExecStart(w, c[2])
    [] c[1] = "class_start" -> ForEachService(w, StartIfNotDisabled, Main)
    [] c[1] = "class_reset" -> ForEachService(w, Reset, Main)
    [] c[1] = "class_stop" -> ForEachService(w, Stop, Main)
    [] c[1] = "class_restart" -> ForEachService(w, Restart, Main)
    [] c[1] = "setprop" -> property_set(w, c[2], c[3])
    [] c[1] = "wait_for_prop" -> start_waiting_for_property(w, c[2], c[3])
    [] c[1] = "load_persist_props" ->
         start_waiting_for_property([w EXCEPT !.load = TRUE], "ready", "true")
    [] c[1] = "trigger" -> QueueEventTrigger(w, c[2])
    [] c[1] = "parse_apex_configs" -> MarkServicesUpdate(w)
    [] c[1] = "enable_property_trigger" -> [w EXCEPT !.enabled = TRUE]
    [] c[1] = "queue_property_triggers" -> queue_property_triggers_action(w)
    [] c[1] = "shutdown_done" -> [w EXCEPT !.pc = "DoReboot"]

(***************************************************************************)
(* Reaping.  The counter of crashes that aborts init looks at the window   *)
(* of four minutes before sys.boot_completed: every crash is inside it.    *)
(***************************************************************************)
Crashed_Restarted(w, s) ==
  IF s \in Critical
  THEN [w EXCEPT !.crashes[s] = @ + 1,
                 !.pc = IF w.crashes[s] + 1 > CrashLimit THEN "abort" ELSE @]
  ELSE w

Crashed(w, s) ==
  IF s \in Critical /\ ~Has(w, s, "RESTART")
  THEN [w EXCEPT !.crashes[s] = @ + 1,
                 !.pc = IF w.crashes[s] + 1 > CrashLimit THEN "abort" ELSE @]
  ELSE w

Reap(w, s) ==
  LET reported == IF w.proc[s] = "failed" THEN RebootOnFailure(w, s) ELSE w
      released == IF Has(w, s, "EXEC") THEN UnSetExec(reported, s)
                  ELSE reported
      gone == [Clear(released, s, {"RUNNING"}) EXCEPT
                 !.proc[s] = "none", !.late = @ \ {s}]
      ended == IF Has(w, s, "ONESHOT") /\ ~Has(w, s, "RESTART")
                    /\ ~Has(w, s, "RESET")
               THEN Raise(gone, s, {"DISABLED"}) ELSE gone
      counted == Crashed(ended, s)
      restarting == FoldLeft(Execute,
                      Raise(Clear(counted, s, {"RESTART"}), s,
                            {"RESTARTING"}),
                      OnRestart[s])
  IN CASE s \in Temporary -> [gone EXCEPT !.flags[s] = RcFlags(s)]
       [] s \notin Temporary
            /\ ended.flags[s] \cap {"DISABLED", "RESET"} # {} ->
            NotifyStateChange(ended, s, "stopped")
       [] OTHER ->
            IF counted.pc = "abort" THEN counted
            ELSE NotifyStateChange(restarting, s, "restarting")

\* Every zombie there is; the kernel chooses the order, the list stands for it.
ReapAnyOutstandingChildren(w) ==
  ForEachService(w, LAMBDA u, s :
                      IF u.proc[s] \in {"exited", "failed"} /\ u.pc # "abort"
                      THEN Reap(u, s) ELSE u,
                 Services)

(***************************************************************************)
(* The action manager.                                                     *)
(***************************************************************************)
\* The condition of action a; the property of the event itself is taken from
\* the event, the others from the property area.
CheckPropertyTriggers(w, a, n, v) ==
  /\ \A t \in Script[a].props :
       IF t[1] = n THEN t[2] \in {"*", v}
       ELSE w.value[t[1]] = t[2] \/ (t[2] = "*" /\ w.value[t[1]] # "")
  /\ n = "" \/ \E t \in Script[a].props : t[1] = n

CheckEvent(w, a, e) ==
  CASE e.kind = "event" ->
         e.name = Script[a].event /\ CheckPropertyTriggers(w, a, "", "")
    [] e.kind = "property" ->
         /\ Script[a].event = ""
         /\ CheckPropertyTriggers(w, a, e.name, e.value)
    [] OTHER -> FALSE

Commands(a) == IF a \in DOMAIN Script THEN Script[a].commands ELSE <<<<a>>>>

\* The actions the event e starts.
Triggered(w, e) ==
  IF e.kind = "builtin" THEN <<e.name>>
  ELSE SelectSeq(ActionList, LAMBDA a : CheckEvent(w, a, e))

\* Events are taken from the queue until one starts an action.
NextActions(w) ==
  IF w.executing # <<>> THEN w
  ELSE LET hits == {i \in 1..Len(w.events) : Triggered(w, w.events[i]) # <<>>}
           n == IF hits = {} THEN Len(w.events) ELSE Min(hits)
           started == IF hits = {} THEN <<>> ELSE Triggered(w, w.events[n])
       IN [w EXCEPT !.executing = started,
                    !.events = SubSeq(@, n + 1, Len(@)),
                    !.fired = @ \cup (Range(started) \cap DOMAIN Script)]

ExecuteOneCommand(w) ==
  LET u == NextActions(w)
      a == Head(u.executing)
      c == u.command + 1
      done == Execute(u, Commands(a)[c])
  IN IF u.executing = <<>> THEN u
     ELSE IF c = Len(Commands(a))
          THEN [done EXCEPT !.executing = Tail(@), !.command = 0]
          ELSE [done EXCEPT !.command = c]

HasMoreCommands(w) == w.executing # <<>> \/ w.events # <<>>

ClearQueue(w) == [w EXCEPT !.executing = <<>>, !.events = <<>>, !.command = 0]
=============================================================================
