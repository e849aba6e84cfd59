---------------------------- MODULE AdbProtocol ----------------------------
(***************************************************************************)
(* What adb.cpp does with a packet, at either end, and how a client of the *)
(* server asks for a stream.  The host has one transport, t, that outlives *)
(* its connections; the device has a transport d[c] for each connection c. *)
(***************************************************************************)
EXTENDS AdbSocket

Transport(u, e, c) == IF e = "host" THEN u.t ELSE u.d[c]

SetOnline(u, e, c, online) ==
  IF e = "host" THEN [u EXCEPT !.t.online = online]
  ELSE [u EXCEPT !.d[c].online = online]

\* The connection state leaves kCsOffline exactly when a CNXN is handled, with
\* t->online, so that one field stands for both.
handle_offline(u, e, c) ==
  IF Transport(u, e, c).online
  THEN close_all_sockets(SetOnline(u, e, c, FALSE), e, c)
  ELSE u

send_connect(u, e, c) == send_packet(u, e, c, Packet("CNXN", 0, 0, <<>>))

handle_new_connection(u, e, c) ==
  LET v == SetOnline(handle_offline(u, e, c), e, c, TRUE)
  IN IF e = "host" THEN v ELSE send_connect(v, e, c)

(***************************************************************************)
(* The commands.  Each returns the states it may lead to.  OPEN names its  *)
(* stream, for which the device has a service or not.                      *)
(***************************************************************************)
OnOpen(u, e, c, p) ==
  LET k == p.data[1]
      s == NewSocket(k, c, p.arg0, FALSE, FALSE)
      v == [install_local_socket(u, e, s) EXCEPT !.proc[e][k].st = "up"]
      id == local_socket_next_id(u, e)
  IN {send_close(u, e, c, 0, p.arg0),
      ready(send_ready(v, e, c, id, p.arg0), e, id)}

\* The first READY names the peer, later ones must come from it.
ReadyFrom(u, e, i, remote) ==
  CASE u.sock[e][i].peer = 0 ->
         ready([u EXCEPT !.sock[e][i].peer = remote], e, i)
    [] u.sock[e][i].peer = remote -> ready(u, e, i)
    [] u.sock[e][i].peer \notin {0, remote} -> u

OnOkay_Ignored(u, e, c, p) ==
  LET found == find_local_socket(u, e, p.arg1, 0)
  IN IF found = {} THEN {u} ELSE {ReadyFrom(u, e, i, p.arg0) : i \in found}

OnOkay(u, e, c, p) ==
  LET found == find_local_socket(u, e, p.arg1, 0)
  IN IF found = {} THEN {send_close(u, e, c, p.arg1, p.arg0)}
     ELSE {ReadyFrom(u, e, i, p.arg0) : i \in found}

OnClose(u, e, c, p) ==
  LET found == find_local_socket(u, e, p.arg1, p.arg0)
  IN IF found = {} THEN {u} ELSE {close(u, e, i) : i \in found}

OnWrite_ReadyAlways(u, e, c, p) ==
  LET found == find_local_socket(u, e, p.arg1, p.arg0)
  IN IF found = {} THEN {u}
     ELSE UNION {{send_ready(local_socket_enqueue(u, e, i, p.data, n).u,
                             e, c, i, p.arg0) :
                    n \in Takes(u, e, i, u.sock[e][i].queue \o p.data)} :
                   i \in found}

OnWrite(u, e, c, p) ==
  LET found == find_local_socket(u, e, p.arg1, p.arg0)
      Enqueue(i, n) ==
        LET done == local_socket_enqueue(u, e, i, p.data, n)
        IN IF done.result = "Completed"
           THEN send_ready(done.u, e, c, i, p.arg0) ELSE done.u
  IN IF found = {} THEN {u}
     ELSE UNION {{Enqueue(i, n) :
                    n \in Takes(u, e, i, u.sock[e][i].queue \o p.data)} :
                   i \in found}

handle_packet(u, e, c, p) ==
  CASE p.cmd = "CNXN" -> {handle_new_connection(u, e, c)}
    [] p.cmd # "CNXN" /\ ~Transport(u, e, c).online -> {u}
    [] p.cmd = "OPEN" /\ Transport(u, e, c).online -> OnOpen(u, e, c, p)
    [] p.cmd = "OKAY" /\ Transport(u, e, c).online -> OnOkay(u, e, c, p)
    [] p.cmd = "CLSE" /\ Transport(u, e, c).online -> OnClose(u, e, c, p)
    [] p.cmd = "WRTE" /\ Transport(u, e, c).online -> OnWrite(u, e, c, p)

(***************************************************************************)
(* The main thread of end e takes the next packet of connection c.         *)
(***************************************************************************)
Packets(e, c) == net[c][e] # <<>> /\ Head(net[c][e]).cmd # "error"

HandlePacket(e, c) ==
  /\ Packets(e, c)
  /\ \E u \in handle_packet([Now EXCEPT !.net[c][e] = Tail(@)], e, c,
                            Head(net[c][e])) : Becomes(u)
  /\ UNCHANGED link

(***************************************************************************)
(* A client of the server asks for stream k (connect_to_smartsocket and    *)
(* smart_socket_enqueue once its request is read): a local socket without  *)
(* a peer waits for the answer to OPEN.  (proc.conn is history.)           *)
(***************************************************************************)
connect_to_remote(k) ==
  /\ t.online /\ t.place # "deleted"
  /\ proc["host"][k].st = "none"
  /\ \A j \in Streams : j < k => proc["host"][j].st # "none"
  /\ LET u == install_local_socket(Now, "host",
                                   NewSocket(k, 0, 0, TRUE, FALSE))
         v == [u EXCEPT !.proc["host"][k].st = "up",
                        !.proc["host"][k].conn = t.conn]
     IN Becomes(send_packet(v, "host", t.conn,
                            Packet("OPEN", local_socket_next_id(Now, "host"),
                                   0, <<k>>)))
  /\ UNCHANGED link
=============================================================================
