--------------------------- MODULE InterceptManager ---------------------------
(* debuggerd/tombstoned/intercept_manager.cpp: the registry through which a    *)
(* client of tombstoned (dumpsys, `debuggerd -b`) asks that the next dump of a *)
(* pid be written to its own file descriptor instead of a tombstone.           *)
(*                                                                             *)
(* An intercept is one connection to the tombstoned_intercept socket.  All     *)
(* callbacks run on tombstoned's only thread, so each is one action.           *)
EXTENDS Naturals, FiniteSets

CONSTANTS
  Intercepts,      \* connections to the intercept socket
  Pids,            \* valid pids
  InterceptPid,    \* the pid in the InterceptRequest of each connection
  InterceptType,   \* the dump type in it
  NoIntercept      \* marks a pid that has no registered intercept

\* DebuggerdDumpType, in the order of the enum.  A request may also carry a
\* value outside the enum.
NativeBacktrace == "native_backtrace"
Tombstone       == "tombstone"
JavaBacktrace   == "java_backtrace"
AnyIntercept    == "any_intercept"
InvalidType     == "invalid"
DumpTypes       == {NativeBacktrace, Tombstone, JavaBacktrace, AnyIntercept, InvalidType}

ASSUME InterceptAssumption ==
  /\ InterceptPid \in [Intercepts -> Pids]
  /\ InterceptType \in [Intercepts -> DumpTypes]
  /\ NoIntercept \notin Intercepts

VARIABLES
  intercept,       \* the Intercept object of each connection
  interceptor,     \* the client's end of the connection
  intercepts,      \* InterceptManager::intercepts, a map from pid to Intercept
  response         \* the last InterceptResponse written to the connection

interceptVars == <<intercept, interceptor, intercepts, response>>

\* "accepted" waits for the request with intercept_request_cb, "registered" is
\* in the map and waits with intercept_close_cb.
InterceptStates   == {"none", "accepted", "registered", "deleted"}
InterceptorStates == {"new", "connected", "requested", "closed"}
Responses         == {"none", "failed", "already_registered", "registered", "started"}

InterceptTypeOK ==
  /\ intercept \in [Intercepts -> InterceptStates]
  /\ interceptor \in [Intercepts -> InterceptorStates]
  /\ intercepts \in [Pids -> Intercepts \cup {NoIntercept}]
  /\ response \in [Intercepts -> Responses]

InterceptInit ==
  /\ intercept = [i \in Intercepts |-> "none"]
  /\ interceptor = [i \in Intercepts |-> "new"]
  /\ intercepts = [p \in Pids |-> NoIntercept]
  /\ response = [i \in Intercepts |-> "none"]

-------------------------------------------------------------------------------
(* The client.                                                                 *)

\* The client connects: intercept_accept_cb allocates an Intercept and arms
\* intercept_request_cb with a timeout.
intercept_accept_cb(i) ==
  /\ interceptor[i] = "new"
  /\ interceptor' = [interceptor EXCEPT ![i] = "connected"]
  /\ intercept' = [intercept EXCEPT ![i] = "accepted"]
  /\ UNCHANGED <<intercepts, response>>

InterceptorRequest(i) ==
  /\ interceptor[i] = "connected"
  /\ interceptor' = [interceptor EXCEPT ![i] = "requested"]
  /\ UNCHANGED <<intercept, intercepts, response>>

\* The client goes away (or writes something it should not once registered).
InterceptorClose(i) ==
  /\ interceptor[i] \in {"connected", "requested"}
  /\ interceptor' = [interceptor EXCEPT ![i] = "closed"]
  /\ UNCHANGED <<intercept, intercepts, response>>

-------------------------------------------------------------------------------
(* The callbacks of tombstoned.                                                *)

is_intercept_request_valid(i) ==
  InterceptType[i] \in {NativeBacktrace, Tombstone, JavaBacktrace}

\* The fail label of intercept_request_cb: the Intercept is deleted, with answer
\* r if one was written first.
DeleteIntercept(i, r) ==
  /\ intercept' = [intercept EXCEPT ![i] = "deleted"]
  /\ response' = [response EXCEPT ![i] = r]
  /\ UNCHANGED <<interceptor, intercepts>>

\* The one-second timeout, a read error or an end of file before the request.
\* A client that closed after writing may or may not have been read in time.
InterceptRequestLost(i) ==
  /\ intercept[i] = "accepted"
  /\ DeleteIntercept(i, "none")

InterceptRequestRefused(i) ==
  /\ intercept[i] = "accepted"
  /\ interceptor[i] = "requested"
  /\ \/ ~is_intercept_request_valid(i) /\ DeleteIntercept(i, "failed")
     \/ /\ is_intercept_request_valid(i)
        /\ intercepts[InterceptPid[i]] # NoIntercept
        /\ DeleteIntercept(i, "already_registered")

\* Mutant: an intercept already registered for the pid is not looked for.
InterceptRequestAccepted_Overwrite(i) ==
  /\ intercept[i] = "accepted"
  /\ interceptor[i] = "requested"
  /\ is_intercept_request_valid(i)
  /\ response' = [response EXCEPT ![i] = "registered"]
  /\ intercepts' = [intercepts EXCEPT ![InterceptPid[i]] = i]
  /\ intercept' = [intercept EXCEPT ![i] = "registered"]
  /\ UNCHANGED interceptor

InterceptRequestAccepted(i) ==
  /\ intercept[i] = "accepted"
  /\ interceptor[i] = "requested"
  /\ is_intercept_request_valid(i)
  /\ intercepts[InterceptPid[i]] = NoIntercept
  /\ response' = [response EXCEPT ![i] = "registered"]
  /\ intercepts' = [intercepts EXCEPT ![InterceptPid[i]] = i]
  /\ intercept' = [intercept EXCEPT ![i] = "registered"]
  /\ UNCHANGED interceptor

intercept_request_cb(i) ==
  InterceptRequestLost(i) \/ InterceptRequestRefused(i) \/ InterceptRequestAccepted(i)

\* The client closed its end, or ten seconds passed: erasing the map's entry of
\* the pid deletes the Intercept held there, and with it its event.
intercept_close_cb(i) ==
  /\ intercept[i] = "registered"
  /\ intercepts' = [intercepts EXCEPT ![InterceptPid[i]] = NoIntercept]
  /\ intercept' = [intercept EXCEPT ![i] = "deleted"]
  /\ UNCHANGED <<interceptor, response>>

-------------------------------------------------------------------------------
(* InterceptManager::GetIntercept, called by tombstoned's perform_request.     *)

\* Mutant: the type of the intercept is not compared.
HasIntercept_AnyType(p, type) == intercepts[p] # NoIntercept

HasIntercept(p, type) ==
  /\ intercepts[p] # NoIntercept
  /\ type = AnyIntercept \/ InterceptType[intercepts[p]] = type

\* The intercept is taken out of the map, told that its dump starts, and
\* deleted once its output fd has been moved to the caller.
TakeIntercept(p) ==
  LET i == intercepts[p] IN
  /\ intercepts' = [intercepts EXCEPT ![p] = NoIntercept]
  /\ intercept' = [intercept EXCEPT ![i] = "deleted"]
  /\ response' = [response EXCEPT ![i] = "started"]
  /\ UNCHANGED interceptor

===============================================================================
