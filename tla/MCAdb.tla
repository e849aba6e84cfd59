------------------------------- MODULE MCAdb -------------------------------
(***************************************************************************)
(* The instance of Adb that TLC checks.  The ids of the two ends do not    *)
(* overlap, so that a packet with its arguments swapped names no socket.   *)
(***************************************************************************)
EXTENDS Adb

CONSTANTS MaxStreams, MaxConns

MCStreams == 1..MaxStreams
MCConns == 1..MaxConns
MCFirstId == [e \in Ends |-> IF e = "host" THEN 1 ELSE 11]
=============================================================================
