---------------------------- MODULE AdbTransport ----------------------------
(***************************************************************************)
(* The transports of adb (adb/transport.cpp): the host's, for a device it  *)
(* reaches over TCP, through the loss of its connection, the attempts to   *)
(* reconnect and its removal, and the device's, one for each connection.   *)
(*                                                                         *)
(* The threads of a connection hand packets to the main thread in the      *)
(* order they were sent, and an error once, after them.  (The error of the *)
(* writing thread may overtake packets that were read.  They find their    *)
(* transport offline, as if they were lost: the packet that would put it   *)
(* online, CNXN, is never on its way while its receiver is writing.)       *)
(*                                                                         *)
(* t.place says who will act on the host's transport next:                 *)
(*   registering  the main thread, told to start its connection            *)
(*   running      its connection                                           *)
(*   queued       the reconnect handler, after a while                     *)
(*   attempt      the reconnect handler, in Reconnect()                    *)
(*   removing     the main thread, told to delete it                       *)
(*   deleted      nobody                                                   *)
(***************************************************************************)
EXTENDS AdbProtocol

CONSTANT kMaxAttempts

ASSUME AdbTransportAssumption == kMaxAttempts \in Nat

Error == [cmd |-> "error"]

TransportInit ==
  /\ link = [c \in Conns |-> IF c = 1 THEN "up" ELSE "none"]
  /\ net = [c \in Conns |-> [e \in Ends |-> <<>>]]
  /\ t = [online |-> FALSE, kicked |-> FALSE, late |-> FALSE, conn |-> 1,
          place |-> "registering", left |-> 0]
  /\ d = [c \in Conns |-> [online |-> FALSE,
                           place |-> IF c = 1 THEN "running" ELSE "none"]]

(***************************************************************************)
(* transport_registration_func on the host.                                *)
(***************************************************************************)
Register ==
  /\ t.place = "registering"
  /\ Becomes(send_connect([Now EXCEPT !.t.place = "running"], "host", t.conn))
  /\ UNCHANGED link

Delete ==
  /\ t.place = "removing"
  /\ t' = [t EXCEPT !.place = "deleted"]
  /\ UNCHANGED <<sock, proc, net, link, d>>

\* ... and on the device.
DeleteDevice(c) ==
  /\ d[c].place = "removing"
  /\ d' = [d EXCEPT ![c].place = "deleted"]
  /\ UNCHANGED <<sock, proc, net, link, t>>

(***************************************************************************)
(* The error callback, on the main thread.                                 *)
(***************************************************************************)
transport_unref(u) ==
  IF u.t.kicked THEN [u EXCEPT !.t.place = "removing"]
  ELSE [u EXCEPT !.t.place = "queued", !.t.left = kMaxAttempts]

Errors(e, c) ==
  /\ net[c][e] # <<>> /\ Head(net[c][e]).cmd = "error"
  /\ e = "host" => t.place = "running"

HandleError(e, c) ==
  /\ Errors(e, c)
  /\ LET u == handle_offline([Now EXCEPT !.net[c][e] = Tail(@)], e, c)
     IN Becomes(IF e = "host" THEN transport_unref(u)
                ELSE [u EXCEPT !.d[c].place = "removing"])
  /\ UNCHANGED link

(***************************************************************************)
(* The connection breaks: of what is on its way to an end, only the first  *)
(* part arrives.                                                           *)
(***************************************************************************)
Broken(c) ==
  \E n \in 0..Len(net[c]["host"]), m \in 0..Len(net[c]["device"]) :
    /\ link' = [link EXCEPT ![c] = "broken"]
    /\ net' = [net EXCEPT
                 ![c]["host"] = Append(SubSeq(@, 1, n), Error),
                 ![c]["device"] = Append(SubSeq(@, 1, m), Error)]

Break(c) ==
  /\ link[c] = "up"
  /\ Broken(c)
  /\ UNCHANGED <<sock, proc, t, d>>

(***************************************************************************)
(* kick_transport, which finds the transport in transport_list once it has *)
(* been registered.  Its connection is stopped if it was started.          *)
(* (late is history: the kick came while the transport was being           *)
(* reconnected.)                                                           *)
(***************************************************************************)
Kick ==
  /\ ~t.kicked /\ t.place # "deleted"
  /\ t.place = "registering" => t.conn > 1
  /\ t' = [t EXCEPT !.kicked = TRUE,
                    !.late = t.place \in {"attempt", "registering"}]
  /\ IF t.place = "running" /\ link[t.conn] = "up" THEN Broken(t.conn)
     ELSE UNCHANGED <<net, link>>
  /\ UNCHANGED <<sock, proc, d>>

(***************************************************************************)
(* ReconnectHandler::Run.                                                  *)
(***************************************************************************)
Run_KickedToo ==
  /\ t.place = "queued"
  /\ t' = [t EXCEPT !.place = "attempt"]
  /\ UNCHANGED <<sock, proc, net, link, d>>

\* It wakes up: a kicked transport is given up, another one is tried.
Run ==
  /\ t.place = "queued"
  /\ t' = [t EXCEPT !.place = IF t.kicked THEN "removing" ELSE "attempt"]
  /\ UNCHANGED <<sock, proc, net, link, d>>

Retry ==
  /\ t.place = "attempt"
  /\ t' = IF t.left = 0 THEN [t EXCEPT !.place = "removing"]
          ELSE [t EXCEPT !.place = "queued", !.left = @ - 1]
  /\ UNCHANGED <<sock, proc, net, link, d>>

\* The device accepts a new connection.
Success ==
  /\ t.place = "attempt" /\ t.conn + 1 \in Conns
  /\ t' = [t EXCEPT !.conn = @ + 1, !.place = "registering"]
  /\ link' = [link EXCEPT ![t.conn + 1] = "up"]
  /\ d' = [d EXCEPT ![t.conn + 1].place = "running"]
  /\ UNCHANGED <<sock, proc, net>>
=============================================================================
