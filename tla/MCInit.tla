------------------------------- MODULE MCInit -------------------------------
(***************************************************************************)
(* An instance of InitSystem with a critical daemon "a" that a shutdown    *)
(* stops last and that restarts "o" when it crashes; a oneshot "o" with a  *)
(* timeout that comes from an APEX; "f", exec'ed at boot, whose failure    *)
(* reboots and whose init.svc property is a trigger; the temporary "t" of  *)
(* an exec command; "m", which cannot be started and then reboots; and     *)
(* "c", which a shutdown starts.                                           *)
(***************************************************************************)
EXTENDS InitSystem

MCServiceList == <<"a", "o", "f", "t", "m", "c">>
MCSvcProp == [s \in {"f"} |-> "init.svc.f"]
MCProps == {"p", "q", "ready", "sys.powerctl", "init.svc.f"}

MCOnRestart ==
  [s \in {"a", "o", "f", "t", "m", "c"} |->
     IF s = "a" THEN <<<<"restart", "o">>>> ELSE <<>>]

MCActionList == <<"boot", "on_p", "on_f", "shutdown">>
MCScript ==
  [boot |-> [event |-> "boot", props |-> {},
             commands |-> <<<<"exec", "f">>, <<"class_start">>,
                            <<"parse_apex_configs">>>>],
   on_p |-> [event |-> "", props |-> {<<"p", "1">>},
             commands |-> <<<<"load_persist_props">>, <<"exec", "t">>,
                            <<"start", "m">>, <<"class_restart">>>>],
   on_f |-> [event |-> "",
             props |-> {<<"init.svc.f", "stopped">>, <<"q", "1">>},
             commands |-> <<<<"wait_for_prop", "q", "0">>,
                            <<"enable", "o">>>>],
   shutdown |-> [event |-> "shutdown", props |-> {},
                 commands |-> <<<<"class_reset">>>>]]

MCRequests ==
  {[kind |-> "set", name |-> "p", value |-> "1"],
   [kind |-> "set", name |-> "q", value |-> "1"],
   [kind |-> "set", name |-> "q", value |-> "0"],
   [kind |-> "set", name |-> "sys.powerctl", value |-> "userrequested"],
   [kind |-> "set", name |-> "sys.powerctl", value |-> "bad"],
   [kind |-> "control", msg |-> "start", svc |-> "o"],
   [kind |-> "control", msg |-> "stop", svc |-> "o"],
   [kind |-> "control", msg |-> "restart", svc |-> "a"],
   [kind |-> "sigterm"]}
=============================================================================
