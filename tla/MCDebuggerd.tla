------------------------------ MODULE MCDebuggerd ------------------------------
(* Debuggerd for TLC.                                                          *)
EXTENDS Debuggerd
================================================================================
