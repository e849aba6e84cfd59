----------------------------- MODULE AdbStream -----------------------------
(***************************************************************************)
(* What a stream of adb promises to the two processes at its ends: each    *)
(* reads what the other wrote, in order and without gaps, and sees the end *)
(* of it early only for a reason: it has shut its own side down, or the    *)
(* connection was lost.                                                    *)
(***************************************************************************)
EXTENDS Integers, Sequences

CONSTANTS Streams, Ends, Peer(_)

VARIABLES
  sent,    \* per end and stream: what the process there wrote
  got,     \* ... and what it has read
  gone,    \* ... whether it is absent or has shut its side down
  over,    \* ... whether it has seen the end of the stream
  lost     \* per stream: whether the connection it runs over was lost

vars == <<sent, got, gone, over, lost>>

Begins(p, q) == Len(p) <= Len(q) /\ p = SubSeq(q, 1, Len(p))

Init ==
  /\ sent = [e \in Ends |-> [k \in Streams |-> <<>>]]
  /\ got = sent
  /\ gone = [e \in Ends |-> [k \in Streams |-> TRUE]]
  /\ over = [e \in Ends |-> [k \in Streams |-> FALSE]]
  /\ lost = [k \in Streams |-> FALSE]

\* Nothing more is written by a process that has left.
Writes(e, k) ==
  sent'[e][k] # sent[e][k] =>
    /\ ~gone[e][k]
    /\ Begins(sent[e][k], sent'[e][k])

\* Reading takes the next part of what the other side has written.
Reads(e, k) ==
  got'[e][k] # got[e][k] =>
    /\ ~over[e][k]
    /\ Begins(got[e][k], got'[e][k])
    /\ Begins(got'[e][k], sent[Peer(e)][k])

\* The end comes after all of the other side's data, when that side has left.
Finishes(e, k) ==
  over'[e][k] # over[e][k] =>
    /\ over'[e][k]
    /\ \/ gone[e][k] \/ lost[k]
       \/ gone[Peer(e)][k] /\ got'[e][k] = sent[Peer(e)][k]

Next ==
  /\ \A e \in Ends, k \in Streams :
       Writes(e, k) /\ Reads(e, k) /\ Finishes(e, k)
  /\ \A k \in Streams : lost[k] => lost'[k]

Spec == Init /\ [][Next]_vars
=============================================================================
