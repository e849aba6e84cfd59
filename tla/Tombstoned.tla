------------------------------ MODULE Tombstoned ------------------------------
(* debuggerd/tombstoned/tombstoned.cpp: the daemon that hands output files to  *)
(* crash dumpers, limits how many dump at once, and files the finished dumps   *)
(* in a ring of artifacts that survives its own restarts.                      *)
(*                                                                             *)
(* A crash is one connection to a crash socket: the client end (crash_dump, or *)
(* a Java process dumping itself) runs tombstoned_connect, dumps, and calls    *)
(* tombstoned_notify_completion; the daemon's end is a struct Crash.  The      *)
(* daemon is single threaded, so each callback is one action, except that      *)
(* maybe_dequeue_crashes takes one action per iteration of its loop, during    *)
(* which no other callback runs.                                               *)
EXTENDS InterceptManager, Sequences

CONSTANTS
  Crashes,         \* connections to the crash sockets
  CrashType,       \* the dump type each one requests
  CrashPid,        \* the pid in its request
  PeerPid,         \* the pid the kernel reports for the other end
  MaxArtifacts,    \* max_artifacts_ of each queue
  MaxDumps,        \* max_concurrent_dumps_ of each queue
  HasTmpfile,      \* the file system supports O_TMPFILE
  Faults,          \* which system calls may fail: "unlink", "link"
  MaxClock,        \* bound on the clock, in units of the mtime's resolution
  MaxRestarts,     \* bound on restarts of the daemon
  NoFile, NoQueue, DevNull

Queues == {"tombstones", "anrs"}
Slots(q) == 0 .. MaxArtifacts[q] - 1

\* The constructor CHECKs the last conjunct.
ASSUME TombstonedAssumption ==
  /\ IsFiniteSet(Crashes)
  /\ CrashType \in [Crashes -> DumpTypes]
  /\ CrashPid \in [Crashes -> Pids]
  /\ PeerPid \in [Crashes -> Pids]
  /\ MaxArtifacts \in [Queues -> Nat]
  /\ MaxDumps \in [Queues -> Nat \ {0}]
  /\ HasTmpfile \in BOOLEAN
  /\ MaxClock \in Nat
  /\ MaxRestarts \in Nat
  /\ NoFile \notin Crashes \cup Intercepts \cup {DevNull}
  /\ DevNull \notin Crashes \cup Intercepts
  /\ Crashes \cap Intercepts = {}
  /\ NoQueue \notin Queues
  /\ \A q \in Queues : MaxArtifacts[q] > MaxDumps[q]

VARIABLES
  client,          \* the dumper's end of the connection
  inbox,           \* packets it has written and the daemon has not read
  crash,           \* the struct Crash of the connection
  output,          \* where its dump goes: a file, an intercept's fd, DevNull
  queued_requests_,
  num_concurrent_dumps_,
  next_artifact_,
  draining,        \* the queue whose maybe_dequeue_crashes loop is running
  artifact,        \* the files in the artifact directories, by slot
  temporary,       \* the named temporary files, a sequence: name n is index n+1
  counter,         \* the static counter that names them
  mtime,           \* the modification time of each file
  clock, restarts,
  ambiguous        \* ghost: at a restart more than one artifact of the queue was the oldest

queueVars  == <<queued_requests_, num_concurrent_dumps_, draining>>
fileVars   == <<artifact, next_artifact_, temporary, counter>>
timeVars   == <<mtime, clock, restarts, ambiguous>>
crashVars  == <<client, inbox, crash, output>>
vars == <<interceptVars, crashVars, queueVars, fileVars, timeVars>>

\* A file is named by the crash it was first created for.
Files == Crashes
CrashStates  == {"none", "accepted", "queued", "running", "deleted"}
ClientStates == {"new", "connected", "waiting", "dumping", "done", "dead"}
Packets      == {"dump_request", "completed_dump", "other"}

TypeOK ==
  /\ InterceptTypeOK
  /\ client \in [Crashes -> ClientStates]
  /\ inbox \in [Crashes -> Seq(Packets)]
  /\ crash \in [Crashes -> CrashStates]
  /\ output \in [Crashes -> Files \cup Intercepts \cup {NoFile, DevNull}]
  /\ queued_requests_ \in [Queues -> Seq(Crashes)]
  /\ num_concurrent_dumps_ \in [Queues -> Nat]
  /\ draining \in Queues \cup {NoQueue}
  /\ DOMAIN next_artifact_ = Queues
  /\ \A q \in Queues : next_artifact_[q] \in Slots(q)
  /\ DOMAIN artifact = Queues
  /\ \A q \in Queues : artifact[q] \in [Slots(q) -> Files \cup {NoFile}]
  /\ temporary \in Seq(Files \cup {NoFile})
  /\ counter \in Nat
  /\ mtime \in [Files -> 0 .. MaxClock]
  /\ clock \in 0 .. MaxClock
  /\ restarts \in 0 .. MaxRestarts
  /\ ambiguous \in [Queues -> BOOLEAN]

for_crash(c) == IF CrashType[c] = JavaBacktrace THEN "anrs" ELSE "tombstones"

\* crash_request_cb trusts the pid of the request only from crash_dump.
crash_pid(c) == IF CrashType[c] = JavaBacktrace THEN PeerPid[c] ELSE CrashPid[c]

\* Mutant: the daemon always restarts its ring at the first slot.
find_oldest_artifact_FirstSlot(q) == 0

\* CrashQueue::find_oldest_artifact: the first missing file, else the first of
\* those with the smallest modification time.
find_oldest_artifact(q) ==
  LET missing == {i \in Slots(q) : artifact[q][i] = NoFile}
      time(i) == mtime[artifact[q][i]]
  IN  IF missing # {}
      THEN CHOOSE i \in missing : \A j \in missing : i <= j
      ELSE CHOOSE i \in Slots(q) : \A j \in Slots(q) :
             time(i) < time(j) \/ (time(i) = time(j) /\ i <= j)

Init ==
  /\ InterceptInit
  /\ client = [c \in Crashes |-> "new"]
  /\ inbox = [c \in Crashes |-> <<>>]
  /\ crash = [c \in Crashes |-> "none"]
  /\ output = [c \in Crashes |-> NoFile]
  /\ queued_requests_ = [q \in Queues |-> <<>>]
  /\ num_concurrent_dumps_ = [q \in Queues |-> 0]
  /\ draining = NoQueue
  /\ next_artifact_ = [q \in Queues |-> 0]
  /\ artifact = [q \in Queues |-> [i \in Slots(q) |-> NoFile]]
  /\ temporary = <<>>
  /\ counter = 0
  /\ mtime = [f \in Files |-> 0]
  /\ clock = 0
  /\ restarts = 0
  /\ ambiguous = [q \in Queues |-> FALSE]

-------------------------------------------------------------------------------
(* The dumper: crash_dump's main from tombstoned_connect on, or the runtime of *)
(* a Java process.                                                             *)

Connect(c) ==
  /\ client[c] = "new"
  /\ draining = NoQueue
  /\ client' = [client EXCEPT ![c] = "connected"]
  /\ crash' = [crash EXCEPT ![c] = "accepted"]
  /\ UNCHANGED <<interceptVars, inbox, output, queueVars, fileVars, timeVars>>

\* The dumper writes its request.  Only a Java process, which is not part of
\* debuggerd, writes anything else.
Request(c) ==
  /\ client[c] = "connected"
  /\ client' = [client EXCEPT ![c] = "waiting"]
  /\ \E p \in {"dump_request"} \cup (IF CrashType[c] = JavaBacktrace THEN {"other"} ELSE {}) :
       inbox' = [inbox EXCEPT ![c] = Append(@, p)]
  /\ UNCHANGED <<interceptVars, crash, output, queueVars, fileVars, timeVars>>

\* The response is in the socket once perform_request has sent it, and stays
\* readable when the daemon closes its end.
ReceiveOutput(c) ==
  /\ client[c] = "waiting"
  /\ \/ output[c] # NoFile /\ client' = [client EXCEPT ![c] = "dumping"]
     \/ /\ output[c] = NoFile
        /\ crash[c] = "deleted"
        /\ client' = [client EXCEPT ![c] = "dead"]
  /\ UNCHANGED <<interceptVars, inbox, crash, output, queueVars, fileVars, timeVars>>

\* The dump is written, then the daemon is notified.
Notify(c) ==
  /\ client[c] = "dumping"
  /\ client' = [client EXCEPT ![c] = "done"]
  /\ inbox' = [inbox EXCEPT ![c] = Append(@, "completed_dump")]
  /\ mtime' = IF output[c] \in Files THEN [mtime EXCEPT ![output[c]] = clock] ELSE mtime
  /\ UNCHANGED <<interceptVars, crash, output, queueVars, fileVars, clock, restarts, ambiguous>>

\* crash_dump is killed, for instance by its own alarm(30).
Die(c) ==
  /\ client[c] \in {"connected", "waiting", "dumping"}
  /\ client' = [client EXCEPT ![c] = "dead"]
  /\ UNCHANGED <<interceptVars, inbox, crash, output, queueVars, fileVars, timeVars>>

-------------------------------------------------------------------------------
(* The daemon.                                                                 *)

\* CrashQueue::get_output.  Without O_TMPFILE the file is opened under the next
\* temporary name, with O_CREAT | O_TRUNC: a file left there by an earlier run
\* of the daemon is reused.
get_output(c) ==
  \/ /\ HasTmpfile
     /\ output' = [output EXCEPT ![c] = c]
     /\ mtime' = [mtime EXCEPT ![c] = clock]
     /\ UNCHANGED <<temporary, counter>>
  \/ /\ ~HasTmpfile
     /\ LET n == counter + 1
            f == IF n <= Len(temporary) /\ temporary[n] # NoFile THEN temporary[n] ELSE c
        IN  /\ output' = [output EXCEPT ![c] = f]
            /\ mtime' = [mtime EXCEPT ![f] = clock]
            /\ temporary' = IF n <= Len(temporary) THEN [temporary EXCEPT ![n] = f]
                                                   ELSE Append(temporary, f)
            /\ counter' = n

\* Mutant: the dump is counted before the response is known to be sent.
on_crash_started_Always(c, sent) ==
  num_concurrent_dumps_' = [num_concurrent_dumps_ EXCEPT ![for_crash(c)] = @ + 1]

\* Reached in perform_request only when the response was sent.
on_crash_started(c, sent) ==
  num_concurrent_dumps_' =
    [num_concurrent_dumps_ EXCEPT ![for_crash(c)] = IF sent THEN @ + 1 ELSE @]

\* perform_request: an intercept, /dev/null or a new file is sent to the dumper.
\* Sending fails when the dumper is gone, and the Crash is deleted.
perform_request(c) ==
  LET taken == HasIntercept(crash_pid(c), CrashType[c])
      sent  == client[c] # "dead"
  IN  /\ \/ /\ taken
            /\ output' = [output EXCEPT ![c] = intercepts[crash_pid(c)]]
            /\ TakeIntercept(crash_pid(c))
            /\ UNCHANGED <<temporary, counter, mtime>>
         \/ /\ ~taken /\ CrashType[c] = NativeBacktrace
            /\ output' = [output EXCEPT ![c] = DevNull]
            /\ UNCHANGED <<interceptVars, temporary, counter, mtime>>
         \/ /\ ~taken /\ CrashType[c] # NativeBacktrace
            /\ get_output(c)
            /\ UNCHANGED interceptVars
      /\ crash' = [crash EXCEPT ![c] = IF sent THEN "running" ELSE "deleted"]
      /\ on_crash_started(c, sent)

\* The fail label of crash_request_cb: a timeout, an end of file, a packet or a
\* dump type that is not a request.
RequestFailed(c) ==
  /\ crash[c] = "accepted"
  /\ draining = NoQueue
  /\ crash' = [crash EXCEPT ![c] = "deleted"]
  /\ UNCHANGED <<interceptVars, client, inbox, output, queueVars, fileVars, timeVars>>

RequestReceived(c) ==
  /\ crash[c] = "accepted"
  /\ draining = NoQueue
  /\ inbox[c] # <<>>
  /\ Head(inbox[c]) = "dump_request"
  /\ CrashType[c] # InvalidType
  /\ inbox' = [inbox EXCEPT ![c] = Tail(@)]

\* CrashQueue::maybe_enqueue_crash.
maybe_enqueue_crash(c) ==
  LET q == for_crash(c) IN
  /\ num_concurrent_dumps_[q] = MaxDumps[q]
  /\ queued_requests_' = [queued_requests_ EXCEPT ![q] = Append(@, c)]
  /\ crash' = [crash EXCEPT ![c] = "queued"]

RequestQueued(c) ==
  /\ RequestReceived(c)
  /\ maybe_enqueue_crash(c)
  /\ UNCHANGED <<interceptVars, client, output, num_concurrent_dumps_, draining, fileVars, timeVars>>

RequestPerformed(c) ==
  /\ RequestReceived(c)
  /\ num_concurrent_dumps_[for_crash(c)] # MaxDumps[for_crash(c)]
  /\ perform_request(c)
  /\ UNCHANGED <<client, queued_requests_, draining, artifact, next_artifact_, clock, restarts, ambiguous>>

crash_request_cb(c) == RequestFailed(c) \/ RequestQueued(c) \/ RequestPerformed(c)

\* get_next_artifact_path, then unlink and linkat: the dump replaces the file
\* in the next slot, and its temporary name is removed.
LinkArtifact(c) ==
  LET q == for_crash(c)
      n == next_artifact_[q]
      Put(f) == artifact' = [artifact EXCEPT ![q][n] = f]
      Unlinked == [k \in DOMAIN temporary |->
                     IF temporary[k] = output[c] THEN NoFile ELSE temporary[k]]
  IN  /\ next_artifact_' = [next_artifact_ EXCEPT ![q] = (n + 1) % MaxArtifacts[q]]
      /\ \/ Put(output[c]) /\ temporary' = Unlinked
         \/ "link" \in Faults /\ Put(NoFile) /\ temporary' = Unlinked
         \/ "unlink" \in Faults /\ UNCHANGED <<artifact, temporary>>

\* Mutant: the packet type is not checked.
CompletedRead_Unchecked(c) == TRUE

\* crash_completed_cb up to its last line: the slot is given back, and the dump
\* is kept if the dumper said it was complete.  A timeout, an end of file or
\* another packet drops it.
CompletedRead(c) == inbox[c] # <<>> /\ Head(inbox[c]) = "completed_dump"

\* Mutant: a running dump has no timeout.
crash_completed_cb_NoTimeout(c) ==
  LET q == for_crash(c) IN
  /\ crash[c] = "running"
  /\ draining = NoQueue
  /\ CompletedRead(c)
  /\ num_concurrent_dumps_' = [num_concurrent_dumps_ EXCEPT ![q] = @ - 1]
  /\ IF output[c] \in Files THEN LinkArtifact(c)
                            ELSE UNCHANGED <<artifact, next_artifact_, temporary>>
  /\ crash' = [crash EXCEPT ![c] = "deleted"]
  /\ draining' = q
  /\ UNCHANGED <<interceptVars, client, inbox, output, queued_requests_, counter, timeVars>>

crash_completed_cb(c) ==
  LET q == for_crash(c) IN
  /\ crash[c] = "running"
  /\ draining = NoQueue
  /\ num_concurrent_dumps_' = [num_concurrent_dumps_ EXCEPT ![q] = @ - 1]
  /\ \/ CompletedRead(c) /\ output[c] \in Files /\ LinkArtifact(c)
     \/ UNCHANGED <<artifact, next_artifact_, temporary>>
  /\ crash' = [crash EXCEPT ![c] = "deleted"]
  /\ draining' = q
  /\ UNCHANGED <<interceptVars, client, inbox, output, queued_requests_, counter, timeVars>>

\* Mutants: one request is taken per completed dump, even if it is then refused
\* ("if" for "while"); the request is not removed; the last one is served.
maybe_dequeue_crashes_If ==
  /\ draining # NoQueue
  /\ draining' = NoQueue
  /\ LET q == draining IN
     \/ /\ queued_requests_[q] # <<>>
        /\ queued_requests_' = [queued_requests_ EXCEPT ![q] = Tail(@)]
        /\ perform_request(Head(queued_requests_[q]))
        /\ UNCHANGED <<client, inbox, artifact, next_artifact_, clock, restarts, ambiguous>>
     \/ /\ queued_requests_[q] = <<>>
        /\ UNCHANGED <<interceptVars, crashVars, queued_requests_, num_concurrent_dumps_,
                       fileVars, timeVars>>

maybe_dequeue_crashes_NoPop ==
  /\ draining # NoQueue
  /\ draining' = NoQueue
  /\ queued_requests_[draining] # <<>>
  /\ perform_request(Head(queued_requests_[draining]))
  /\ UNCHANGED <<queued_requests_, client, inbox, artifact, next_artifact_, clock, restarts, ambiguous>>

maybe_dequeue_crashes_Lifo ==
  LET s == queued_requests_[draining] IN
  /\ draining # NoQueue
  /\ draining' = NoQueue
  /\ s # <<>>
  /\ queued_requests_' = [queued_requests_ EXCEPT ![draining] = SubSeq(s, 1, Len(s) - 1)]
  /\ perform_request(s[Len(s)])
  /\ UNCHANGED <<client, inbox, artifact, next_artifact_, clock, restarts, ambiguous>>

\* One iteration of maybe_dequeue_crashes, or its exit.
maybe_dequeue_crashes ==
  /\ draining # NoQueue
  /\ LET q == draining IN
     \/ /\ queued_requests_[q] # <<>>
        /\ num_concurrent_dumps_[q] < MaxDumps[q]
        /\ queued_requests_' = [queued_requests_ EXCEPT ![q] = Tail(@)]
        /\ perform_request(Head(queued_requests_[q]))
        /\ UNCHANGED <<client, inbox, draining, artifact, next_artifact_, clock, restarts, ambiguous>>
     \/ /\ queued_requests_[q] = <<>> \/ num_concurrent_dumps_[q] >= MaxDumps[q]
        /\ draining' = NoQueue
        /\ UNCHANGED <<interceptVars, crashVars, queued_requests_, num_concurrent_dumps_,
                       fileVars, timeVars>>

\* Two artifacts are the oldest by their times.
TwoOldest(q) ==
  LET time(i) == mtime[artifact[q][i]] IN
  /\ \A k \in Slots(q) : artifact[q][k] # NoFile
  /\ \E i, j \in Slots(q) :
       i # j /\ time(i) = time(j) /\ \A k \in Slots(q) : time(i) <= time(k)

\* The daemon dies (its fatal-signal handler exits) and init starts it again:
\* its memory and its sockets are gone, the files are not.
Restart ==
  /\ restarts < MaxRestarts
  /\ restarts' = restarts + 1
  /\ crash' = [c \in Crashes |-> IF crash[c] = "none" THEN "none" ELSE "deleted"]
  /\ queued_requests_' = [q \in Queues |-> <<>>]
  /\ num_concurrent_dumps_' = [q \in Queues |-> 0]
  /\ draining' = NoQueue
  /\ next_artifact_' = [q \in Queues |-> find_oldest_artifact(q)]
  /\ ambiguous' = [q \in Queues |-> ambiguous[q] \/ TwoOldest(q)]
  /\ counter' = 0
  /\ intercept' = [i \in Intercepts |-> IF intercept[i] = "none" THEN "none" ELSE "deleted"]
  /\ intercepts' = [p \in Pids |-> NoIntercept]
  /\ UNCHANGED <<client, inbox, output, artifact, temporary, mtime, clock, interceptor, response>>

Tick ==
  /\ clock < MaxClock
  /\ clock' = clock + 1
  /\ UNCHANGED <<interceptVars, crashVars, queueVars, fileVars, mtime, restarts, ambiguous>>

ManageIntercept(i) ==
  /\ \/ InterceptorRequest(i)
     \/ InterceptorClose(i)
     \/ /\ draining = NoQueue
        /\ intercept_accept_cb(i) \/ intercept_request_cb(i) \/ intercept_close_cb(i)
  /\ UNCHANGED <<crashVars, queueVars, fileVars, timeVars>>

Dumper(c) == Connect(c) \/ Request(c) \/ ReceiveOutput(c) \/ Notify(c) \/ Die(c)

Next ==
  \/ \E c \in Crashes : Dumper(c) \/ crash_request_cb(c) \/ crash_completed_cb(c)
  \/ maybe_dequeue_crashes
  \/ \E i \in Intercepts : ManageIntercept(i)
  \/ Restart
  \/ Tick

Spec == Init /\ [][Next]_vars

\* libevent runs every pending callback, every armed event has a timeout, and a
\* dumper that has been answered goes on.
Fairness ==
  /\ \A c \in Crashes : /\ WF_vars(crash_request_cb(c))
                        /\ WF_vars(crash_completed_cb(c))
                        /\ WF_vars(ReceiveOutput(c))
  /\ WF_vars(maybe_dequeue_crashes)

FairSpec == Spec /\ Fairness

-------------------------------------------------------------------------------
(* Properties.                                                                 *)

Running(q) == {c \in Crashes : crash[c] = "running" /\ for_crash(c) = q}

\* on_crash_started and on_crash_completed stay paired on every path through
\* perform_request and crash_completed_cb: num_concurrent_dumps_ counts the
\* crashes that hold a dump slot, and never passes max_concurrent_dumps_.
DumpsCounted ==
  \A q \in Queues : /\ num_concurrent_dumps_[q] = Cardinality(Running(q))
                    /\ num_concurrent_dumps_[q] <= MaxDumps[q]

\* A request waits only while every slot of its queue is taken: no path
\* (a refused send, a timeout) frees a slot without maybe_dequeue_crashes
\* handing it on, so no request is stranded in an idle queue.
WaitsOnlyWhenFull ==
  \A q \in Queues : queued_requests_[q] # <<>> /\ draining # q
                      => num_concurrent_dumps_[q] = MaxDumps[q]

\* The ownership rule of struct Crash: it is owned by exactly one of its event
\* and queued_requests_.  A crash is in a queue iff it has no armed event, then
\* once and in the queue of its type, so it is neither leaked nor freed twice.
OwnedOnce ==
  /\ \A q \in Queues : \A k \in DOMAIN queued_requests_[q] :
       LET c == queued_requests_[q][k] IN
       /\ crash[c] = "queued"
       /\ for_crash(c) = q
       /\ \A j \in DOMAIN queued_requests_[q] : queued_requests_[q][j] = c => j = k
  /\ \A c \in Crashes : crash[c] = "queued" =>
       \E k \in DOMAIN queued_requests_[for_crash(c)] : queued_requests_[for_crash(c)][k] = c

\* An artifact is the whole dump of exactly one crash: nothing a timed-out, dead
\* or unfinished dumper wrote is ever linked by crash_completed_cb, and no file
\* is filed twice.
ArtifactsWhole ==
  \A q \in Queues : \A i \in Slots(q) :
    LET f == artifact[q][i] IN
    f # NoFile =>
      /\ \E c \in Crashes : /\ {d \in Crashes : output[d] = f} = {c}
                            /\ client[c] = "done"
                            /\ crash[c] = "deleted"
                            /\ for_crash(c) = q
      /\ \A j \in Slots(q) : artifact[q][j] = f => j = i

\* A queue with one dump at a time overwrites oldest first, also across
\* restarts, where find_oldest_artifact only has the files' times to go by: the
\* artifact replaced is never newer than one that stays.  The times have to tell
\* which artifact is the oldest: of several find_oldest_artifact takes the one
\* in the lowest slot, and when the ring was not there it is out of order.
OverwritesOldest ==
  [][\A q \in Queues : MaxDumps[q] = 1 /\ ~ambiguous[q] =>
       \A i \in Slots(q) :
         artifact[q][i] # NoFile /\ artifact'[q][i] # artifact[q][i] =>
           \A j \in Slots(q) : artifact[q][j] # NoFile =>
             mtime[artifact[q][i]] <= mtime[artifact[q][j]]]_vars

\* The two LOG(FATAL)s of intercept_close_cb cannot fire: an Intercept waits
\* with that callback exactly while the map holds it under its own pid.
CloseFindsIntercept ==
  \A i \in Intercepts :
    intercept[i] = "registered" <=> intercepts[InterceptPid[i]] = i

\* An interceptor is told that its dump started iff its fd was handed to one
\* crash, of the pid and type that it asked for.
InterceptDelivered ==
  \A i \in Intercepts :
    LET receivers == {c \in Crashes : output[c] = i} IN
    /\ response[i] = "started" <=> receivers # {}
    /\ \A c, d \in receivers : c = d
    /\ \A c \in receivers : /\ crash_pid(c) = InterceptPid[i]
                            /\ CrashType[c] \in {InterceptType[i], AnyIntercept}

\* A request is never served ahead of one that has been waiting in its queue:
\* crash_request_cb performs a request at once only when nothing is queued, and
\* the queue is served from its head.
NoOvertaking ==
  [][\A c \in Crashes : crash[c] # "running" /\ crash'[c] = "running" =>
       LET q == for_crash(c) IN queued_requests_[q] = <<>> \/ Head(queued_requests_[q]) = c]_vars

\* A dumper that has sent its request is always answered, whatever the dumpers
\* ahead of it do: the ten-second timeout of a running dump frees its slot.
DumperAnswered == \A c \in Crashes : client[c] = "waiting" ~> client[c] # "waiting"

\* Without O_TMPFILE crash_completed_cb has "to clean up after ourselves": a
\* named temporary exists only while the crash it was made for is running.
TemporariesCleaned ==
  \A n \in DOMAIN temporary :
    temporary[n] # NoFile => \E c \in Crashes : crash[c] = "running" /\ output[c] = temporary[n]

===============================================================================
