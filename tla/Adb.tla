-------------------------------- MODULE Adb --------------------------------
(***************************************************************************)
(* adb as a whole: the server on the host, adbd on the device, a TCP       *)
(* connection between them that may break and be made again, and at both   *)
(* ends of each stream a process that writes, reads and leaves.            *)
(***************************************************************************)
EXTENDS AdbTransport

CONSTANTS
  MaxEvents   \* what clients, services and the network do, in all

VARIABLE
  events      \* how much of it they have done

vars == <<sock, proc, net, link, t, d, events>>

(***************************************************************************)
(* A process: st is "none" before it exists, "up", "half" once it has shut *)
(* down its sending side, "closed" once it has closed the descriptor.  It  *)
(* has written the chunks sent, of which buf is not read by adb yet; got   *)
(* is what it was given, over whether it was given the end, status what a  *)
(* client was told about its request, conn the connection it was sent on.  *)
(***************************************************************************)
Absent == [st |-> "none", sent |-> <<>>, buf |-> <<>>, got |-> <<>>,
           over |-> FALSE, status |-> "none", conn |-> 0]

\* A chunk is known by who wrote it, on which stream and in which place.
Chunk(e, k, n) == <<e, k, n>>

Init ==
  /\ TransportInit
  /\ sock = [e \in Ends |-> <<>>]
  /\ proc = [e \in Ends |-> [k \in Streams |-> Absent]]
  /\ events = 0

ProcessWrites(e, k) ==
  /\ proc[e][k].st = "up" /\ ~proc[e][k].over
  /\ e = "host" => proc[e][k].status = "OKAY"
  /\ LET chunk == Chunk(e, k, Len(proc[e][k].sent) + 1)
     IN proc' = [proc EXCEPT ![e][k].sent = Append(@, chunk),
                             ![e][k].buf = Append(@, chunk)]
  /\ UNCHANGED <<sock, net, link, t, d>>

ProcessLeaves(e, k, st) ==
  /\ proc[e][k].st \in {"up", "half"} /\ proc[e][k].st # st
  /\ ~proc[e][k].over
  /\ proc' = [proc EXCEPT ![e][k].st = st]
  /\ UNCHANGED <<sock, net, link, t, d>>

Environment ==
  /\ events < MaxEvents
  /\ events' = events + 1
  /\ \/ \E k \in Streams : connect_to_remote(k)
     \/ \E e \in Ends, k \in Streams : ProcessWrites(e, k)
     \/ \E e \in Ends, k \in Streams, st \in {"half", "closed"} :
          ProcessLeaves(e, k, st)
     \/ \E c \in Conns : Break(c)
     \/ Kick

System ==
  /\ \/ \E e \in Ends : \E i \in DOMAIN sock[e] :
          WriteEvent(e, i) \/ ReadEvent(e, i)
     \/ \E e \in Ends, c \in Conns : HandlePacket(e, c) \/ HandleError(e, c)
     \/ \E c \in Conns : DeleteDevice(c)
     \/ Register \/ Delete \/ Run \/ Retry \/ Success
  /\ UNCHANGED events

Next == System \/ Environment

(***************************************************************************)
(* Fairness.  The main threads, the reconnect handler and the network keep *)
(* working while there is something for them to do; a process that has not *)
(* closed its descriptor reads in the end.  CanStep says when System has a *)
(* step; the steps of the environment are bounded in number, so that some  *)
(* step again and again means steps of System.                             *)
(***************************************************************************)
CanStep ==
  \/ \E e \in Ends : \E i \in DOMAIN sock[e] :
       WriteReady(e, i) \/ ReadReady(e, i)
  \/ \E e \in Ends, c \in Conns : Packets(e, c) \/ Errors(e, c)
  \/ \E c \in Conns : d[c].place = "removing"
  \/ t.place \in {"registering", "removing", "queued", "attempt"}

Fairness == []<>~CanStep \/ []<><<TRUE>>_vars

Spec == Init /\ [][Next]_vars /\ Fairness

-----------------------------------------------------------------------------

(***************************************************************************)
(* The streams are reliable: Adb implements AdbStream.  Every socket, the  *)
(* queues, the closing list, the flow control and the loss of connections  *)
(* lie between what a process writes and what the other one reads.         *)
(***************************************************************************)
Stream == INSTANCE AdbStream WITH
  Peer <- Other,
  sent <- [e \in Ends |-> [k \in Streams |-> proc[e][k].sent]],
  got <- [e \in Ends |-> [k \in Streams |-> proc[e][k].got]],
  gone <- [e \in Ends |-> [k \in Streams |-> proc[e][k].st # "up"]],
  over <- [e \in Ends |-> [k \in Streams |-> proc[e][k].over]],
  lost <- [k \in Streams |->
             \E c \in Conns : proc["host"][k].conn = c /\ link[c] = "broken"]

StreamsAreReliable == Stream!Spec

(***************************************************************************)
(* Two sockets joined over a working connection.                           *)
(***************************************************************************)
Joined(e, i, j) ==
  LET r == Other(e)
  IN /\ i \in Listed(Now, e) /\ j \in Listed(Now, r)
     /\ sock[r][j].peer = i /\ sock[e][i].peer \in {0, j}
     /\ link[ConnOf(Now, e, i)] = "up" /\ link[ConnOf(Now, r, j)] = "up"

InFlight(e, cmd, arg0, arg1) ==
  \E c \in Conns : \E n \in DOMAIN net[c][e] :
    LET p == net[c][e][n]
    IN p.cmd = cmd /\ p.arg0 = arg0 /\ p.arg1 = arg1

\* Flow control: the right to send the next WRTE is in exactly one place, so
\* that at most one packet per direction is unacknowledged and no stream gets
\* stuck: the sender waits for data of its process, the packet is on its way,
\* the receiver waits for its process to take it, or the OKAY is on its way.
\* (A sender whose process has hung up no longer waits for the right.)
OneRightToSend ==
  \A e \in Ends : \A i \in Listed(Now, e), j \in Listed(Now, Other(e)) :
    Joined(e, i, j) /\ ~HungUp(Now, e, i) =>
      LET r == Other(e)
          places == <<sock[e][i].read, InFlight(r, "WRTE", i, j),
                      sock[r][j].write, InFlight(e, "OKAY", j, i)>>
      IN \E n \in 1..4 : \A m \in 1..4 : places[m] <=> m = n

\* The CHECK at the end of local_socket_close and the use of s->peer in
\* local_socket_event_func: a socket with data its process has not taken waits
\* for FDE_WRITE, and one that waits for it has a peer to tell or is closing.
PendingDataIsWatched ==
  \A e \in Ends : \A i \in DOMAIN sock[e] :
    LET s == sock[e][i]
    IN s.list # "gone" =>
         /\ s.queue # <<>> /\ ~s.error => s.write
         /\ s.write => s.peer # 0 \/ s.list = "closing"

\* A socket whose peer still exists is that peer's peer, they are the two ends
\* of one stream, and the device's end lives on the connection the host uses.
PeersAgree ==
  \A e \in Ends : \A i \in Listed(Now, e) :
    LET r == Other(e)
        j == sock[e][i].peer
    IN j \in Listed(Now, r) =>
         /\ sock[r][j].stream = sock[e][i].stream
         /\ sock[r][j].peer \in {0, i}
         /\ sock[r][j].peer = 0 => r = "host"
         /\ ConnOf(Now, e, i) = ConnOf(Now, r, j)

\* No stream stays open at one end only.  A transport that is offline has no
\* sockets (handle_offline), so none is left with a deleted transport or with
\* the connection before a reconnect; and when a connection that works has
\* nothing more to deliver, each socket that uses it is joined to one that is
\* open as well.
NoHalfOpenStream ==
  /\ ~t.online => Listed(Now, "host") = {}
  /\ t.place \in {"queued", "attempt", "removing", "deleted"} => ~t.online
  /\ \A i \in Listed(Now, "device") : d[sock["device"][i].conn].online
  /\ \A c \in Conns : d[c].place \in {"removing", "deleted"} => ~d[c].online
  /\ \A c \in Conns : (\A e \in Ends : net[c][e] = <<>>) =>
       \A e \in Ends : \A i \in Listed(Now, e) :
         ConnOf(Now, e, i) = c /\ t.place = "running" =>
           /\ sock[e][i].peer \in Listed(Now, Other(e))
           /\ sock[Other(e)][sock[e][i].peer].peer = i

\* When nothing is left to do: all data was delivered to the processes that
\* still want it, a stream one process has left is closed at the other end,
\* every client has its answer, and the host's transport works or is deleted,
\* as it must be if it was kicked while it was not being reconnected.
Settled ==
  /\ ~CanStep
  /\ \A e \in Ends, k \in Streams :
       LET p == proc[e][k]
           q == proc[Other(e)][k]
       IN /\ p.st = "up" /\ ~p.over =>
               /\ q.st = "up" /\ ~q.over
               /\ p.got = q.sent /\ p.buf = <<>>
          /\ p.st # "none" /\ e = "host" => p.status # "none"
          /\ p.st # "up" /\ p.st # "none" => p.over
  /\ t.place = "running" => link[t.conn] = "up" /\ t.online
  /\ t.place # "running" => t.place = "deleted" /\ ~t.online
  /\ t.kicked /\ ~t.late => t.place = "deleted"

EventuallySettled == []<>Settled
=============================================================================
