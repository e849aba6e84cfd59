----------------------------- MODULE MCTombstoned -----------------------------
(* Small instances of Tombstoned for TLC.                                      *)
EXTENDS Tombstoned, TLC

CONSTANTS c1, c2, c3, c4, i1, i2, p1

\* Native crashes compete for the one tombstone slot.
NativeType == [c \in Crashes |-> Tombstone]
JavaType   == [c \in Crashes |-> JavaBacktrace]
MixedType  == [c \in Crashes |-> IF c = c1 THEN AnyIntercept ELSE NativeBacktrace]

OnePid  == [c \in Crashes |-> p1]

TwoArtifacts   == [q \in Queues |-> 2]
ThreeArtifacts == [q \in Queues |-> 3]
OneDump        == [q \in Queues |-> 1]
TwoAnrDumps    == [q \in Queues |-> IF q = "anrs" THEN 2 ELSE 1]

InterceptPids  == [i \in Intercepts |-> p1]
InterceptTypes == [i \in Intercepts |-> IF i = i1 THEN Tombstone ELSE NativeBacktrace]

CrashSymmetry == Permutations(Crashes)
===============================================================================
