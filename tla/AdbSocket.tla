----------------------------- MODULE AdbSocket -----------------------------
(***************************************************************************)
(* The sockets of adb (adb/sockets.cpp), the same code in the server on    *)
(* the host and in adbd on the device.  A local socket joins a file        *)
(* descriptor, behind which there is a process, to a stream that runs over *)
(* a connection; its peer, the remote socket, is no more than the id of    *)
(* the local socket at the other end.                                      *)
(*                                                                         *)
(* Each end has one main thread and a call into a socket may go through    *)
(* several others, so the operations are functions of the state            *)
(*   u = [sock, proc, net, t, d]                                           *)
(* of the variables below and the actions that use them make it the next   *)
(* state.  Data comes in chunks; a packet holds at most Payload of them.   *)
(***************************************************************************)
EXTENDS Integers, Sequences, FiniteSets, TLC

CONSTANTS
  Streams,   \* 1..n: the connections clients ask for
  Conns,     \* 1..m: the connections between the host and the device
  Payload,   \* chunks that fit into a packet
  FirstId    \* per end: the id of the next local socket

ASSUME AdbSocketAssumption ==
  /\ Payload \in Nat \ {0}
  /\ FirstId \in [{"host", "device"} -> Nat \ {0}]
  /\ Streams \subseteq Nat \ {0} /\ Conns \subseteq Nat \ {0} /\ 1 \in Conns

VARIABLES
  sock,   \* per end: its local sockets by id
  proc,   \* per end and stream: the process behind the file descriptor
  net,    \* per connection and end: the packets it has yet to handle
  link,   \* per connection: "none", "up" or "broken"
  t,      \* the host's transport
  d       \* per connection: the device's transport for it

Ends == {"host", "device"}
Other(e) == IF e = "host" THEN "device" ELSE "host"

Now == [sock |-> sock, proc |-> proc, net |-> net, t |-> t, d |-> d]

Becomes(u) ==
  /\ sock' = u.sock /\ proc' = u.proc /\ net' = u.net
  /\ t' = u.t /\ d' = u.d

(***************************************************************************)
(* Packets.  What is sent on a broken connection goes nowhere.             *)
(***************************************************************************)
Packet(cmd, arg0, arg1, data) ==
  [cmd |-> cmd, arg0 |-> arg0, arg1 |-> arg1, data |-> data]

send_packet(u, e, c, p) ==
  IF link[c] = "up" THEN [u EXCEPT !.net[c][Other(e)] = Append(@, p)] ELSE u

send_ready(u, e, c, local, remote) ==
  send_packet(u, e, c, Packet("OKAY", local, remote, <<>>))

send_close(u, e, c, local, remote) ==
  send_packet(u, e, c, Packet("CLSE", local, remote, <<>>))

(***************************************************************************)
(* The fields of a socket:                                                 *)
(*   list     "local" while it is in local_socket_list, "closing" in       *)
(*            local_socket_closing_list, "gone" once it is deleted         *)
(*   peer     id of the remote socket, 0 without one                       *)
(*   conn     the connection of the remote socket (on the host: of the     *)
(*            transport, which changes when it reconnects)                 *)
(*   stream   the stream it is an end of                                   *)
(*   notify   ready and close still report to the client                   *)
(*   read, write   the events it waits for (FDE_READ, FDE_WRITE)           *)
(*   queue    packet_queue;  error   has_write_error                       *)
(***************************************************************************)
Listed(u, e) ==
  {i \in DOMAIN u.sock[e] : u.sock[e][i].list = "local"}

\* The transport of a socket sends on this connection.
ConnOf(u, e, i) == IF e = "host" THEN u.t.conn ELSE u.sock[e][i].conn

\* The socket, if there is one, as a set.
find_local_socket(u, e, local, peer) ==
  {i \in Listed(u, e) : i = local /\ peer \in {0, u.sock[e][i].peer}}

\* Ids are never used again.
local_socket_next_id_Free(u, e) == FirstId[e] + Cardinality(Listed(u, e))

local_socket_next_id(u, e) == FirstId[e] + Cardinality(DOMAIN u.sock[e])

install_local_socket(u, e, s) ==
  [u EXCEPT !.sock[e] = (local_socket_next_id(u, e) :> s) @@ @]

NewSocket(k, c, peer, notify, read) ==
  [list |-> "local", peer |-> peer, conn |-> c, stream |-> k,
   notify |-> notify, read |-> read, write |-> FALSE, queue |-> <<>>,
   error |-> FALSE]

(***************************************************************************)
(* Closing.                                                                *)
(***************************************************************************)
\* The process reads the end of the stream, after all that was written to it.
local_socket_destroy(u, e, i) ==
  LET k == u.sock[e][i].stream
  IN [u EXCEPT !.sock[e][i] = [NewSocket(k, 0, 0, FALSE, FALSE) EXCEPT
                                 !.list = "gone"],
               !.proc[e][k] = [u.proc[e][k] EXCEPT !.over = TRUE, !.buf = <<>>]]

\* The remote socket reports the end to the other side and is deleted.
Disconnect(u, e, i) ==
  LET s == u.sock[e][i]
      v == send_close(u, e, ConnOf(u, e, i), i, s.peer)
  IN IF s.peer = 0 THEN u ELSE [v EXCEPT !.sock[e][i].peer = 0]

local_socket_close_AtOnce(u, e, i) ==
  local_socket_destroy(Disconnect(u, e, i), e, i)

local_socket_close(u, e, i) ==
  LET s == u.sock[e][i]
      v == Disconnect(u, e, i)
  IN IF s.list = "closing" \/ s.error \/ s.queue = <<>>
     THEN local_socket_destroy(v, e, i)
     ELSE [v EXCEPT !.sock[e][i] = [v.sock[e][i] EXCEPT
                                      !.list = "closing", !.read = FALSE]]

local_socket_close_notify(u, e, i) ==
  local_socket_close(
    [u EXCEPT !.sock[e][i].notify = FALSE,
              !.proc[e][u.sock[e][i].stream].status = "FAIL"], e, i)

close(u, e, i) ==
  IF u.sock[e][i].notify THEN local_socket_close_notify(u, e, i)
  ELSE local_socket_close(u, e, i)

\* The sockets of a transport: every one of the host's, those of the
\* connection on the device.  They are closed in the order of the list, which
\* is that of their ids.
OfTransport(u, e, c) ==
  {i \in Listed(u, e) : e = "host" \/ u.sock[e][i].conn = c}

close_all_sockets(u, e, c) ==
  LET n == Cardinality(DOMAIN u.sock[e])
      closed[m \in 0..n] ==
        IF m = 0 THEN u
        ELSE LET i == FirstId[e] + m - 1
             IN IF i \in OfTransport(u, e, c) THEN close(closed[m - 1], e, i)
                ELSE closed[m - 1]
  IN closed[n]

(***************************************************************************)
(* Data towards the process.  It takes the first n chunks of the queue; if *)
(* it has closed the descriptor, writing fails.                            *)
(***************************************************************************)
local_socket_flush_incoming_NoWatch(u, e, i, n) ==
  LET s == u.sock[e][i]
      k == s.stream
      failed == s.queue # <<>> /\ u.proc[e][k].st = "closed"
      rest == SubSeq(s.queue, n + 1, Len(s.queue))
      v == IF failed THEN [u EXCEPT !.sock[e][i].error = TRUE]
           ELSE [u EXCEPT !.sock[e][i].queue = rest,
                          !.proc[e][k].got = @ \o SubSeq(s.queue, 1, n)]
  IN CASE ~failed /\ rest # <<>> ->
            [result |-> "TryAgain", u |-> v]
       [] failed \/ rest = <<>> ->
            IF s.list = "closing"
            THEN [result |-> "Destroyed", u |-> local_socket_close(v, e, i)]
            ELSE [result |-> "Completed",
                  u |-> [v EXCEPT !.sock[e][i].write = FALSE]]

local_socket_flush_incoming(u, e, i, n) ==
  LET s == u.sock[e][i]
      k == s.stream
      failed == s.queue # <<>> /\ u.proc[e][k].st = "closed"
      rest == SubSeq(s.queue, n + 1, Len(s.queue))
      v == IF failed THEN [u EXCEPT !.sock[e][i].error = TRUE]
           ELSE [u EXCEPT !.sock[e][i].queue = rest,
                          !.proc[e][k].got = @ \o SubSeq(s.queue, 1, n)]
  IN CASE ~failed /\ rest # <<>> ->
            [result |-> "TryAgain",
             u |-> [v EXCEPT !.sock[e][i].write = TRUE]]
       [] failed \/ rest = <<>> ->
            IF s.list = "closing"
            THEN [result |-> "Destroyed", u |-> local_socket_close(v, e, i)]
            ELSE [result |-> "Completed",
                  u |-> [v EXCEPT !.sock[e][i].write = FALSE]]

\* How many chunks the process may take of a queue.
Takes(u, e, i, queue) ==
  IF u.proc[e][u.sock[e][i].stream].st = "closed" THEN {0}
  ELSE 0..Len(queue)

local_socket_enqueue(u, e, i, data, n) ==
  local_socket_flush_incoming(
    [u EXCEPT !.sock[e][i].queue = @ \o data], e, i, n)

(***************************************************************************)
(* Data from the process.  EPOLLRDHUP is always waited for and passes for  *)
(* FDE_READ, so once the process has shut its side down, its data is read  *)
(* and sent whether the other end is ready or not.                         *)
(***************************************************************************)
HungUp(u, e, i) == u.proc[e][u.sock[e][i].stream].st \in {"half", "closed"}

local_socket_flush_outgoing(u, e, i) ==
  LET s == u.sock[e][i]
      k == s.stream
      buf == u.proc[e][k].buf
      n == IF Len(buf) < Payload THEN Len(buf) ELSE Payload
      taken == [u EXCEPT !.proc[e][k].buf = SubSeq(buf, n + 1, Len(buf))]
      sent == send_packet(taken, e, ConnOf(u, e, i),
                          Packet("WRTE", i, s.peer, SubSeq(buf, 1, n)))
      v == IF n = 0 \/ s.peer = 0 THEN taken
           ELSE [sent EXCEPT !.sock[e][i].read = FALSE]
      eof == n < Payload /\ HungUp(u, e, i)
  IN IF eof THEN close(v, e, i) ELSE v

local_socket_ready(u, e, i) == [u EXCEPT !.sock[e][i].read = TRUE]

local_socket_ready_notify(u, e, i) ==
  local_socket_ready(
    [u EXCEPT !.sock[e][i].notify = FALSE,
              !.proc[e][u.sock[e][i].stream].status = "OKAY"], e, i)

ready(u, e, i) ==
  IF u.sock[e][i].notify THEN local_socket_ready_notify(u, e, i)
  ELSE local_socket_ready(u, e, i)

(***************************************************************************)
(* local_socket_event_func.  A socket that is writable and readable at the *)
(* same time handles the one and then the other.                           *)
(***************************************************************************)
Alive(e, i) == sock[e][i].list # "gone"

WriteReady(e, i) == Alive(e, i) /\ sock[e][i].write

ReadReady(e, i) ==
  /\ Alive(e, i)
  /\ \/ sock[e][i].read /\ proc[e][sock[e][i].stream].buf # <<>>
     \/ HungUp(Now, e, i)

WriteEvent(e, i) ==
  /\ WriteReady(e, i)
  /\ \E n \in Takes(Now, e, i, sock[e][i].queue) :
       /\ n > 0 \/ proc[e][sock[e][i].stream].st = "closed"
       /\ LET flushed == local_socket_flush_incoming(Now, e, i, n)
          IN Becomes(IF flushed.result = "Completed"
                     THEN send_ready(flushed.u, e, ConnOf(Now, e, i), i,
                                     sock[e][i].peer)
                     ELSE flushed.u)
  /\ UNCHANGED link

ReadEvent(e, i) ==
  /\ ReadReady(e, i)
  /\ Becomes(local_socket_flush_outgoing(Now, e, i))
  /\ UNCHANGED link
=============================================================================
