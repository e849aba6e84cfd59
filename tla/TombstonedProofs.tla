--------------------------- MODULE TombstonedProofs ---------------------------
(***************************************************************************)
(* Proofs about Tombstoned, for any number of crashes, intercepts, dump    *)
(* slots, artifacts and restarts.                                          *)
(***************************************************************************)
EXTENDS Tombstoned, TLAPS

-------------------------------------------------------------------------------
(***************************************************************************)
(* What the steps do to outputs, intercepts and artifacts, given that the  *)
(* dump slots are what the second part shows.                              *)
(***************************************************************************)

\* What the variables of the queues range over.
SlotTypeOK ==
  /\ client \in [Crashes -> ClientStates]
  /\ crash \in [Crashes -> CrashStates]
  /\ queued_requests_ \in [Queues -> Seq(Crashes)]
  /\ num_concurrent_dumps_ \in [Queues -> Nat]
  /\ draining \in Queues \cup {NoQueue}

\* A connection that has not been made has no struct Crash.
NewHasNoCrash == \A c \in Crashes : client[c] = "new" => crash[c] = "none"

\* The inductive invariant.  DumpsCounted needs OwnedOnce (the crash taken off
\* the queue does not already hold a slot, and appears nowhere else), and
\* WaitsOnlyWhenFull needs the bound of DumpsCounted when a loop ends.
SlotInv ==
  /\ SlotTypeOK
  /\ NewHasNoCrash
  /\ DumpsCounted
  /\ WaitsOnlyWhenFull
  /\ OwnedOnce

\* A crash has no output before perform_request.
OutputInv ==
  /\ output \in [Crashes -> Crashes \cup Intercepts \cup {NoFile, DevNull}]
  /\ temporary \in Seq(Crashes \cup {NoFile})
  /\ counter \in Nat
  /\ \A c \in Crashes : crash[c] \in {"none", "accepted", "queued"} => output[c] = NoFile

\* The map is keyed by the pid of the intercept it holds, and the answers follow
\* the states of the Intercept.
InterceptInv ==
  /\ InterceptTypeOK
  /\ CloseFindsIntercept
  /\ \A p \in Pids : intercepts[p] # NoIntercept => InterceptPid[intercepts[p]] = p
  /\ \A i \in Intercepts :
       /\ interceptor[i] = "new" => intercept[i] = "none"
       /\ intercept[i] \in {"none", "accepted"} => response[i] = "none"
       /\ intercept[i] = "registered" => response[i] = "registered"
  /\ InterceptDelivered

\* No crash is given a temporary file that an earlier run of the daemon made.
FreshOutputs == HasTmpfile \/ MaxRestarts = 0

\* A dumper is done once it has written its last packet.
InboxInv ==
  /\ inbox \in [Crashes -> Seq(Packets)]
  /\ \A c \in Crashes : \A k \in 1 .. Len(inbox[c]) :
       inbox[c][k] = "completed_dump" => client[c] = "done"

\* Every crash writes to a file of its own.
OwnOutputs ==
  /\ ~HasTmpfile => Len(temporary) = counter
  /\ \A c \in Crashes : output[c] \in Crashes => output[c] = c

ArtifactTypeOK ==
  /\ DOMAIN artifact = Queues
  /\ \A q \in Queues : artifact[q] \in [Slots(q) -> Crashes \cup {NoFile}]

\* The file of a crash is filed only when the dumper has said that it is
\* complete, and once.
FiledOnce ==
  \A q \in Queues : \A i \in Slots(q) :
    LET f == artifact[q][i] IN
    f # NoFile =>
      /\ output[f] = f /\ client[f] = "done" /\ crash[f] = "deleted" /\ for_crash(f) = q
      /\ \A j \in Slots(q) : artifact[q][j] = f => j = i

FiledInv ==
  /\ restarts \in Nat
  /\ OwnOutputs
  /\ InboxInv
  /\ ArtifactTypeOK
  /\ FiledOnce

\* A crash whose file can have been filed stays one.
KeepsComplete ==
  \A f \in Crashes : output[f] = f /\ client[f] = "done" /\ crash[f] = "deleted" =>
    output'[f] = f /\ client'[f] = "done" /\ crash'[f] = "deleted"

\* Slot i comes before slot j in the ring that starts at slot n.
Before(n, i, j) == (n <= i /\ i < j) \/ (i < j /\ j < n) \/ (j < n /\ n <= i)

\* The ring starts at next_artifact_ and is in the order of the times; as long
\* as slots are missing they are the ones from there on.
Ordered(q) ==
  LET n == next_artifact_[q] IN
  /\ n \in Slots(q)
  /\ \/ \A i \in Slots(q) : artifact[q][i] # NoFile
     \/ \A i \in Slots(q) : artifact[q][i] # NoFile <=> i < n
  /\ \A i, j \in Slots(q) :
       artifact[q][i] # NoFile /\ artifact[q][j] # NoFile /\ Before(n, i, j) =>
         mtime[artifact[q][i]] <= mtime[artifact[q][j]]

\* In a queue with one slot the running dump is later than every artifact.
RunningIsLatest(q) ==
  \A c \in Running(q) : output[c] = c =>
    \A i \in Slots(q) : artifact[q][i] # NoFile => mtime[artifact[q][i]] <= mtime[c]

TimesOK ==
  /\ clock \in Nat /\ mtime \in [Crashes -> Nat] /\ DOMAIN next_artifact_ = Queues
  /\ \A c \in Crashes : mtime[c] <= clock

RingInv ==
  /\ TimesOK
  /\ \A q \in Queues : MaxDumps[q] = 1 => (~ambiguous[q] => Ordered(q)) /\ RunningIsLatest(q)

\* A queue with one slot has one dump that runs.
OneRunning == \A q \in Queues : MaxDumps[q] = 1 => \A c, d \in Running(q) : c = d

-------------------------------------------------------------------------------
(* The steps, by what they do to outputs, artifacts and intercepts.            *)

LEMMA SlotsAre ==
  /\ NoQueue \notin Queues
  /\ \A q \in Queues : /\ MaxArtifacts[q] \in Nat \ {0} /\ Slots(q) = 0 .. MaxArtifacts[q] - 1
                       /\ MaxDumps[q] \in Nat
BY TombstonedAssumption DEF Slots

LEMMA FilesDiffer ==
  /\ NoFile \notin Crashes /\ NoFile \notin Intercepts /\ NoFile # DevNull
  /\ \A o \in Intercepts \cup {DevNull} : o \notin Crashes
  /\ \A f \in Crashes \cup {DevNull} : f \notin Intercepts
BY TombstonedAssumption

\* Every crash has one of the two queues.
LEMMA ForCrashType == \A c : for_crash(c) \in Queues
  BY DEF for_crash, Queues

\* What perform_request does to the slots: the crash gets one if the response
\* was sent, and is deleted if not.
LEMMA PerformEffect ==
  ASSUME NEW c \in Crashes, perform_request(c)
  PROVE  \/ /\ crash' = [crash EXCEPT ![c] = "running"]
            /\ num_concurrent_dumps_' =
                 [num_concurrent_dumps_ EXCEPT ![for_crash(c)] = @ + 1]
         \/ /\ crash' = [crash EXCEPT ![c] = "deleted"]
            /\ num_concurrent_dumps_' = [num_concurrent_dumps_ EXCEPT ![for_crash(c)] = @]
  BY Zenon DEF perform_request, on_crash_started

\* Every element of a queue is a crash, in state "queued", and the queue's own.
LEMMA QueuedElements ==
  ASSUME SlotInv, NEW q \in Queues, NEW k \in DOMAIN queued_requests_[q]
  PROVE  /\ queued_requests_[q][k] \in Crashes
         /\ crash[queued_requests_[q][k]] = "queued"
         /\ for_crash(queued_requests_[q][k]) = q
         /\ \A j \in DOMAIN queued_requests_[q] :
              queued_requests_[q][j] = queued_requests_[q][k] => j = k
<1>1. queued_requests_[q] \in Seq(Crashes)
  BY DEF SlotInv, SlotTypeOK
<1>2. queued_requests_[q][k] \in Crashes
  BY <1>1
<1> QED BY <1>2 DEF SlotInv, OwnedOnce

\* perform_request, as crash_request_cb and maybe_dequeue_crashes call it.
Performs(c) ==
  /\ crash[c] \in {"accepted", "queued"}
  /\ num_concurrent_dumps_[for_crash(c)] # MaxDumps[for_crash(c)]
  /\ perform_request(c)
  /\ inbox' = inbox \/ (inbox[c] # <<>> /\ inbox' = [inbox EXCEPT ![c] = Tail(@)])
  /\ UNCHANGED <<client, artifact, next_artifact_, clock, restarts, ambiguous>>

LEMMA StepPerforms ==
  ASSUME SlotInv, NEW c \in Crashes, RequestPerformed(c)
  PROVE  Performs(c) /\ crash[c] = "accepted" /\ draining = NoQueue
BY DEF RequestPerformed, RequestReceived, Performs

LEMMA LoopPerforms ==
  ASSUME SlotInv, maybe_dequeue_crashes
  PROVE  \/ UNCHANGED <<interceptVars, crashVars, fileVars, timeVars>>
         \/ \E c \in Crashes : /\ Performs(c) /\ queued_requests_[for_crash(c)] # <<>>
                               /\ c = Head(queued_requests_[for_crash(c)])
<1>1. CASE UNCHANGED <<interceptVars, crashVars, fileVars, timeVars>>
  BY Zenon, <1>1
<1>2. CASE ~UNCHANGED <<interceptVars, crashVars, fileVars, timeVars>>
  <2> DEFINE q == draining
             c == Head(queued_requests_[q])
  <2>1. /\ queued_requests_[q] # <<>> /\ num_concurrent_dumps_[q] < MaxDumps[q]
        /\ perform_request(c)
        /\ UNCHANGED <<inbox, client, artifact, next_artifact_, clock, restarts, ambiguous>>
    BY Zenon, <1>2 DEF maybe_dequeue_crashes
  <2>2. q \in Queues
    BY DEF maybe_dequeue_crashes, SlotInv, SlotTypeOK
  <2>3. 1 \in DOMAIN queued_requests_[q] /\ c = queued_requests_[q][1]
    BY <2>1, <2>2 DEF SlotInv, SlotTypeOK
  <2>4. c \in Crashes /\ crash[c] = "queued" /\ for_crash(c) = q
    BY <2>2, <2>3, QueuedElements
  <2>5. num_concurrent_dumps_[q] # MaxDumps[q]
    BY <2>1, <2>2, SlotsAre DEF SlotInv, SlotTypeOK
  <2> HIDE DEF c, q
  <2>6. Performs(c)
    BY Zenon, <2>1, <2>4, <2>5 DEF Performs
  <2> QED
    BY Zenon, <2>1, <2>4, <2>6 DEF c
<1> QED
  BY <1>1, <1>2

-------------------------------------------------------------------------------
(* Outputs.                                                                    *)

LEMMA CrashPidType == \A c \in Crashes : crash_pid(c) \in Pids
BY Zenon, TombstonedAssumption DEF crash_pid

\* What get_output makes, of a file of its own or of a left temporary.
LEMMA GetOutput ==
  ASSUME OutputInv, NEW c \in Crashes, get_output(c)
  PROVE  /\ \E f \in Crashes : /\ output' = [output EXCEPT ![c] = f]
                               /\ mtime' = [mtime EXCEPT ![f] = clock]
                               /\ HasTmpfile \/ Len(temporary) = counter => f = c
         /\ temporary' \in Seq(Crashes \cup {NoFile}) /\ counter' \in Nat
         /\ ~HasTmpfile /\ Len(temporary) = counter => Len(temporary') = counter'
<1>1. CASE HasTmpfile /\ output' = [output EXCEPT ![c] = c]
           /\ mtime' = [mtime EXCEPT ![c] = clock] /\ UNCHANGED <<temporary, counter>>
  BY Zenon, <1>1 DEF OutputInv
<1>2. CASE ~HasTmpfile
  <2> DEFINE n == counter + 1
             f == IF n <= Len(temporary) /\ temporary[n] # NoFile THEN temporary[n] ELSE c
  <2>1. /\ output' = [output EXCEPT ![c] = f] /\ mtime' = [mtime EXCEPT ![f] = clock]
        /\ temporary' = IF n <= Len(temporary) THEN [temporary EXCEPT ![n] = f]
                                               ELSE Append(temporary, f)
        /\ counter' = n
    BY Zenon, <1>2 DEF get_output
  <2>2. /\ temporary \in Seq(Crashes \cup {NoFile}) /\ counter \in Nat /\ Len(temporary) \in Nat
    BY DEF OutputInv
  <2>3. f \in Crashes
    <3>1. n \in Nat /\ n >= 1
      BY <2>2
    <3>2. n <= Len(temporary) => temporary[n] \in Crashes \cup {NoFile}
      BY <2>2, <3>1
    <3> HIDE DEF n
    <3> QED
      BY <3>2
  <2>4. Len(temporary) = counter => f = c
    BY <2>2
  <2> HIDE DEF f
  <2>5. temporary' \in Seq(Crashes \cup {NoFile})
    BY <2>1, <2>2, <2>3
  <2>6. Len(temporary) = counter => Len(temporary') = counter'
    BY <2>1, <2>2
  <2>7. \E g \in Crashes :
          /\ output' = [output EXCEPT ![c] = g]
          /\ mtime' = [mtime EXCEPT ![g] = clock]
          /\ HasTmpfile \/ Len(temporary) = counter => g = c
    BY <1>2, <2>1, <2>3, <2>4, Zenon
  <2>8. counter' \in Nat
    BY <2>1, <2>2
  <2> QED
    BY Zenon, <1>2, <2>5, <2>6, <2>7, <2>8
<1> QED
  BY <1>1, <1>2 DEF get_output

LEMMA OutputFrame ==
  ASSUME OutputInv, UNCHANGED <<output, counter>>, temporary' \in Seq(Crashes \cup {NoFile}),
         \A c \in Crashes : crash'[c] \in {"none", "accepted", "queued"} =>
           crash[c] \in {"none", "accepted", "queued"}
  PROVE  OutputInv'
BY Zenon DEF OutputInv

\* The three ways of perform_request.
LEMMA PerformWays ==
  ASSUME OutputInv, InterceptTypeOK, NEW c \in Crashes, perform_request(c)
  PROVE  \/ /\ \E i \in Intercepts :
                 /\ intercepts[crash_pid(c)] = i
                 /\ CrashType[c] \in {InterceptType[i], AnyIntercept}
                 /\ output' = [output EXCEPT ![c] = i]
            /\ TakeIntercept(crash_pid(c)) /\ UNCHANGED <<temporary, counter, mtime>>
         \/ /\ output' = [output EXCEPT ![c] = DevNull]
            /\ UNCHANGED <<interceptVars, temporary, counter, mtime>>
         \/ get_output(c) /\ UNCHANGED interceptVars
<1>1. crash_pid(c) \in Pids
  BY CrashPidType
<1>2. intercepts[crash_pid(c)] \in Intercepts \cup {NoIntercept}
  BY <1>1 DEF InterceptTypeOK
<1>3. \/ /\ HasIntercept(crash_pid(c), CrashType[c])
         /\ output' = [output EXCEPT ![c] = intercepts[crash_pid(c)]]
         /\ TakeIntercept(crash_pid(c)) /\ UNCHANGED <<temporary, counter, mtime>>
      \/ /\ output' = [output EXCEPT ![c] = DevNull]
         /\ UNCHANGED <<interceptVars, temporary, counter, mtime>>
      \/ get_output(c) /\ UNCHANGED interceptVars
  BY Zenon DEF perform_request
<1>4. HasIntercept(crash_pid(c), CrashType[c]) =>
        /\ intercepts[crash_pid(c)] \in Intercepts
        /\ CrashType[c] \in {InterceptType[intercepts[crash_pid(c)]], AnyIntercept}
  BY Zenon, <1>2 DEF HasIntercept
<1> QED
  BY <1>3, <1>4

LEMMA OutputPerformed ==
  ASSUME SlotInv, OutputInv, InterceptTypeOK, NEW c \in Crashes, Performs(c)
  PROVE  OutputInv'
<1>1. PICK s \in {"running", "deleted"} : crash' = [crash EXCEPT ![c] = s]
  BY Zenon, PerformEffect DEF Performs
<1>2. /\ \E o \in Crashes \cup Intercepts \cup {DevNull} : output' = [output EXCEPT ![c] = o]
      /\ temporary' \in Seq(Crashes \cup {NoFile}) /\ counter' \in Nat
  <2>1. CASE get_output(c)
    BY Zenon, <2>1, GetOutput
  <2> QED
    BY Zenon, <2>1, PerformWays DEF Performs, OutputInv
<1>3. output' \in [Crashes -> Crashes \cup Intercepts \cup {NoFile, DevNull}]
  BY Zenon, <1>2 DEF OutputInv
<1>4. \A d \in Crashes : crash'[d] \in {"none", "accepted", "queued"} => output'[d] = NoFile
  BY Zenon, <1>1, <1>2 DEF OutputInv, SlotInv, SlotTypeOK
<1> QED
  BY Zenon, <1>2, <1>3, <1>4 DEF OutputInv

\* Unlinking a temporary leaves its name free.
LEMMA LinkedTemporary ==
  ASSUME OutputInv, NEW c \in Crashes, LinkArtifact(c)
  PROVE  temporary' \in Seq(Crashes \cup {NoFile}) /\ Len(temporary') = Len(temporary)
<1> DEFINE Unlinked == [k \in DOMAIN temporary |->
                          IF temporary[k] = output[c] THEN NoFile ELSE temporary[k]]
<1>1. temporary \in Seq(Crashes \cup {NoFile}) /\ Len(temporary) \in Nat
      /\ DOMAIN temporary = 1 .. Len(temporary)
  BY DEF OutputInv
<1>2. \A k \in 1 .. Len(temporary) : temporary[k] \in Crashes \cup {NoFile}
  BY <1>1
<1>3. temporary' = Unlinked \/ temporary' = temporary
  BY Zenon DEF LinkArtifact
<1>4. Unlinked \in [1 .. Len(temporary) -> Crashes \cup {NoFile}]
  BY Zenon, <1>1, <1>2
<1>5. Unlinked \in Seq(Crashes \cup {NoFile}) /\ Len(Unlinked) = Len(temporary)
  BY <1>1, <1>4
<1> QED
  BY Zenon, <1>1, <1>3, <1>5

LEMMA OutputInit == Init => OutputInv
BY DEF Init, OutputInv, Files

LEMMA OutputNext ==
  ASSUME SlotInv, OutputInv, InterceptTypeOK, [Next]_vars
  PROVE  OutputInv'
<1>1. ASSUME NEW c \in Crashes, Performs(c) PROVE OutputInv'
  BY Zenon, <1>1, OutputPerformed
<1>2. crash \in [Crashes -> CrashStates] /\ temporary \in Seq(Crashes \cup {NoFile})
  BY DEF SlotInv, SlotTypeOK, OutputInv
<1>3. ASSUME NEW c \in Crashes, \/ Dumper(c) \/ RequestFailed(c) \/ RequestQueued(c)
      PROVE  OutputInv'
  <2>1. UNCHANGED <<output, counter, temporary>>
    BY Zenon, <1>3 DEF Dumper, Connect, Request, ReceiveOutput, Notify, Die, RequestFailed, RequestQueued,
         fileVars
  <2>2. crash' = crash \/ (crash[c] = "none" /\ crash' = [crash EXCEPT ![c] = "accepted"])
        \/ crash' = [crash EXCEPT ![c] = "deleted"]
        \/ (crash[c] = "accepted" /\ crash' = [crash EXCEPT ![c] = "queued"])
    BY Zenon, <1>3 DEF Dumper, Connect, Request, ReceiveOutput, Notify, Die, RequestFailed, RequestQueued,
         RequestReceived, maybe_enqueue_crash, SlotInv, NewHasNoCrash
  <2> QED
    BY Zenon, <1>2, <2>1, <2>2, OutputFrame
<1>4. ASSUME NEW c \in Crashes, RequestPerformed(c) PROVE OutputInv'
  BY Zenon, <1>1, <1>4, StepPerforms
<1>5. CASE maybe_dequeue_crashes
  BY Zenon, <1>1, <1>2, <1>5, LoopPerforms, OutputFrame DEF crashVars, fileVars
<1>6. ASSUME NEW c \in Crashes, crash_completed_cb(c) PROVE OutputInv'
  <2>1. UNCHANGED <<output, counter>> /\ crash' = [crash EXCEPT ![c] = "deleted"]
        /\ (LinkArtifact(c) \/ UNCHANGED temporary)
    BY <1>6, Zenon DEF crash_completed_cb
  <2> QED
    BY Zenon, <1>2, <2>1, OutputFrame, LinkedTemporary
<1>7. ASSUME NEW i \in Intercepts, ManageIntercept(i) PROVE OutputInv'
  BY Zenon, <1>2, <1>7, OutputFrame DEF ManageIntercept, crashVars, fileVars
<1>8. CASE Restart
  <2>1. UNCHANGED <<output, temporary>> /\ counter' = 0
    BY Zenon, <1>8 DEF Restart
  <2>2. \A c \in Crashes : crash'[c] \in {"none", "accepted", "queued"} => crash[c] = "none"
    BY Zenon, <1>8 DEF Restart
  <2> QED
    BY Zenon, <2>1, <2>2 DEF OutputInv
<1>9. CASE Tick \/ UNCHANGED vars
  BY Zenon, <1>2, <1>9, OutputFrame DEF Tick, vars, crashVars, fileVars
<1> QED
  BY Zenon, <1>3, <1>4, <1>5, <1>6, <1>7, <1>8, <1>9 DEF Next, crash_request_cb

-------------------------------------------------------------------------------
(* Intercepts.                                                                 *)

Receivers(i) == {c \in Crashes : output[c] = i}

LEMMA InterceptFrame ==
  ASSUME InterceptInv, UNCHANGED <<interceptVars, output>>
  PROVE  InterceptInv'
BY DEF InterceptInv, InterceptTypeOK, CloseFindsIntercept, InterceptDelivered, interceptVars

\* A crash that had no output gets one that is no intercept's.
LEMMA InterceptOther ==
  ASSUME InterceptInv, OutputInv, UNCHANGED interceptVars, NEW c \in Crashes, output[c] = NoFile,
         NEW o, o \notin Intercepts, output' = [output EXCEPT ![c] = o]
  PROVE  InterceptInv'
<1>1. \A i \in Intercepts : Receivers(i)' = Receivers(i)
  BY Zenon, FilesDiffer DEF Receivers, OutputInv
<1>2. InterceptDelivered'
  BY <1>1 DEF InterceptInv, InterceptDelivered, Receivers, interceptVars
<1> QED
  BY Zenon, <1>2 DEF InterceptInv, InterceptTypeOK, CloseFindsIntercept, interceptVars

\* The intercept of its pid is handed to a crash that had no output.
LEMMA InterceptTaken ==
  ASSUME InterceptInv, OutputInv, NEW c \in Crashes, output[c] = NoFile,
         NEW i \in Intercepts, intercepts[crash_pid(c)] = i,
         CrashType[c] \in {InterceptType[i], AnyIntercept},
         output' = [output EXCEPT ![c] = i], TakeIntercept(crash_pid(c))
  PROVE  InterceptInv'
<1> DEFINE p == crash_pid(c)
<1>1. /\ intercepts' = [intercepts EXCEPT ![p] = NoIntercept]
      /\ intercept' = [intercept EXCEPT ![i] = "deleted"]
      /\ response' = [response EXCEPT ![i] = "started"]
      /\ UNCHANGED interceptor
  BY Zenon DEF TakeIntercept
<1>2. p \in Pids /\ i # NoIntercept /\ InterceptPid[i] = p /\ intercepts[p] = i
  BY Zenon, CrashPidType, InterceptAssumption DEF InterceptInv
<1>3. intercept[i] = "registered" /\ response[i] = "registered"
  BY Zenon, <1>2 DEF InterceptInv, CloseFindsIntercept
<1> HIDE DEF p
<1>4. InterceptTypeOK'
  BY Zenon, <1>1, <1>2 DEF InterceptInv, InterceptTypeOK, InterceptStates, Responses
<1>5. \A j \in Intercepts : /\ intercept'[j] = IF j = i THEN "deleted" ELSE intercept[j]
                            /\ response'[j] = IF j = i THEN "started" ELSE response[j]
  BY Zenon, <1>1 DEF InterceptInv, InterceptTypeOK
<1>6. \A r \in Pids : intercepts'[r] = IF r = p THEN NoIntercept ELSE intercepts[r]
  BY Zenon, <1>1 DEF InterceptInv, InterceptTypeOK
<1>7. \A j \in Intercepts : j # NoIntercept /\ InterceptPid[j] \in Pids
  BY Zenon, InterceptAssumption
<1>8. CloseFindsIntercept'
  BY <1>2, <1>5, <1>6, <1>7 DEF InterceptInv, CloseFindsIntercept
<1>9. Receivers(i) = {}
  BY Zenon, <1>3 DEF InterceptInv, InterceptDelivered, Receivers
<1>10. \A j \in Intercepts : Receivers(j)' = IF j = i THEN {c} ELSE Receivers(j)
  <2>1. \A d \in Crashes : output'[d] = IF d = c THEN i ELSE output[d]
    BY Zenon DEF OutputInv
  <2>2. \A j \in Intercepts : j # NoFile
    BY Zenon, FilesDiffer
  <2> QED
    BY <1>9, <2>1, <2>2 DEF Receivers
<1>11. InterceptDelivered'
  <2> SUFFICES ASSUME NEW j \in Intercepts
               PROVE  /\ response'[j] = "started" <=> Receivers(j)' # {}
                      /\ \A d, e \in Receivers(j)' : d = e
                      /\ \A d \in Receivers(j)' : /\ crash_pid(d) = InterceptPid[j]
                                                  /\ CrashType[d] \in {InterceptType[j], AnyIntercept}
    BY Zenon DEF InterceptDelivered, Receivers, crash_pid
  <2>1. CASE j = i
    BY Zenon, <1>2, <1>5, <1>10, <2>1 DEF p
  <2>2. CASE j # i
    BY <1>5, <1>10, <2>2 DEF InterceptInv, InterceptDelivered, Receivers
  <2> QED
    BY Zenon, <2>1, <2>2
<1> QED
  BY <1>1, <1>3, <1>4, <1>5, <1>6, <1>8, <1>11 DEF InterceptInv

LEMMA InterceptPerformed ==
  ASSUME SlotInv, OutputInv, InterceptInv, NEW c \in Crashes, Performs(c)
  PROVE  InterceptInv'
<1>1. output[c] = NoFile
  BY Zenon DEF OutputInv, Performs
<1>2. InterceptTypeOK /\ perform_request(c)
  BY Zenon DEF InterceptInv, Performs
<1>3. \A f \in Crashes \cup {DevNull} : f \notin Intercepts
  BY Zenon, FilesDiffer
<1>4. CASE get_output(c) /\ UNCHANGED interceptVars
  BY Zenon, <1>1, <1>3, <1>4, GetOutput, InterceptOther
<1> QED
  BY Zenon, <1>1, <1>2, <1>3, <1>4, PerformWays, InterceptTaken, InterceptOther

\* The callbacks of one intercept.
LEMMA InterceptManaged ==
  ASSUME InterceptInv, NEW i \in Intercepts, ManageIntercept(i)
  PROVE  InterceptInv'
<1>1. /\ UNCHANGED output
      /\ \A j \in Intercepts : Receivers(j)' = Receivers(j)
  BY DEF ManageIntercept, crashVars, Receivers
<1>2. \A j \in Intercepts : j # NoIntercept /\ InterceptPid[j] \in Pids
  BY Zenon, InterceptAssumption
<1>3. ASSUME NEW s \in {"accepted", "registered", "deleted"}, intercept' = [intercept EXCEPT ![i] = s],
             NEW r \in Responses \ {"started"}, response' = [response EXCEPT ![i] = r],
             response[i] # "started"
      PROVE  /\ intercept' \in [Intercepts -> InterceptStates] /\ response' \in [Intercepts -> Responses]
             /\ \A j \in Intercepts : /\ intercept'[j] = IF j = i THEN s ELSE intercept[j]
                                      /\ response'[j] = IF j = i THEN r ELSE response[j]
             /\ InterceptDelivered'
  <2>1. /\ intercept' \in [Intercepts -> InterceptStates] /\ response' \in [Intercepts -> Responses]
        /\ \A j \in Intercepts : /\ intercept'[j] = IF j = i THEN s ELSE intercept[j]
                                 /\ response'[j] = IF j = i THEN r ELSE response[j]
    BY Zenon, <1>3 DEF InterceptInv, InterceptTypeOK, InterceptStates, Responses
  <2> QED
    BY <1>1, <1>3, <2>1 DEF InterceptInv, InterceptDelivered, Receivers, crash_pid
<1>4. CASE InterceptorRequest(i) \/ InterceptorClose(i)
  <2>1. /\ UNCHANGED <<intercept, intercepts, response>>
        /\ \E s \in {"requested", "closed"} : interceptor' = [interceptor EXCEPT ![i] = s]
    BY Zenon, <1>4 DEF InterceptorRequest, InterceptorClose
  <2> QED
    BY <1>1, <2>1 DEF InterceptInv, InterceptTypeOK, InterceptorStates, CloseFindsIntercept,
       InterceptDelivered
<1>5. CASE intercept_accept_cb(i)
  <2>1. /\ interceptor[i] = "new" /\ interceptor' = [interceptor EXCEPT ![i] = "connected"]
        /\ intercept' = [intercept EXCEPT ![i] = "accepted"]
        /\ UNCHANGED <<intercepts, response>>
    BY Zenon, <1>5 DEF intercept_accept_cb
  <2>2. intercept[i] = "none" /\ response[i] = "none"
    BY Zenon, <2>1 DEF InterceptInv
  <2>3. response' = [response EXCEPT ![i] = "none"]
    BY <2>1, <2>2 DEF InterceptInv, InterceptTypeOK
  <2>4. /\ intercept' \in [Intercepts -> InterceptStates] /\ response' \in [Intercepts -> Responses]
        /\ \A j \in Intercepts : /\ intercept'[j] = IF j = i THEN "accepted" ELSE intercept[j]
                                 /\ response'[j] = IF j = i THEN "none" ELSE response[j]
        /\ InterceptDelivered'
    BY Zenon, <1>3, <2>1, <2>2, <2>3 DEF Responses
  <2> QED
    BY Zenon, <2>1, <2>2, <2>4 DEF InterceptInv, InterceptTypeOK, InterceptorStates, CloseFindsIntercept
<1>6. CASE InterceptRequestLost(i) \/ InterceptRequestRefused(i)
  <2>1. /\ intercept[i] = "accepted" /\ intercept' = [intercept EXCEPT ![i] = "deleted"]
        /\ \E r \in {"none", "failed", "already_registered"} : response' = [response EXCEPT ![i] = r]
        /\ UNCHANGED <<interceptor, intercepts>>
    BY <1>6 DEF InterceptRequestLost, InterceptRequestRefused, DeleteIntercept
  <2>2. PICK r \in {"none", "failed", "already_registered"} : response' = [response EXCEPT ![i] = r]
    BY Zenon, <2>1
  <2>3. response[i] = "none" /\ r \in Responses \ {"started"}
    BY <2>1 DEF InterceptInv, Responses
  <2>4. /\ intercept' \in [Intercepts -> InterceptStates] /\ response' \in [Intercepts -> Responses]
        /\ \A j \in Intercepts : /\ intercept'[j] = IF j = i THEN "deleted" ELSE intercept[j]
                                 /\ response'[j] = IF j = i THEN r ELSE response[j]
        /\ InterceptDelivered'
    BY Zenon, <1>3, <2>1, <2>2, <2>3
  <2> QED
    BY <2>1, <2>4 DEF InterceptInv, InterceptTypeOK, CloseFindsIntercept
<1>7. CASE InterceptRequestAccepted(i)
  <2>1. /\ intercept[i] = "accepted" /\ interceptor[i] = "requested"
        /\ intercepts[InterceptPid[i]] = NoIntercept
        /\ response' = [response EXCEPT ![i] = "registered"]
        /\ intercepts' = [intercepts EXCEPT ![InterceptPid[i]] = i]
        /\ intercept' = [intercept EXCEPT ![i] = "registered"]
        /\ UNCHANGED interceptor
    BY Zenon, <1>7 DEF InterceptRequestAccepted
  <2>2. response[i] = "none"
    BY <2>1 DEF InterceptInv
  <2>3. /\ intercept' \in [Intercepts -> InterceptStates] /\ response' \in [Intercepts -> Responses]
        /\ \A j \in Intercepts : /\ intercept'[j] = IF j = i THEN "registered" ELSE intercept[j]
                                 /\ response'[j] = IF j = i THEN "registered" ELSE response[j]
        /\ InterceptDelivered'
    BY Zenon, <1>3, <2>1, <2>2 DEF Responses
  <2>4. /\ intercepts' \in [Pids -> Intercepts \cup {NoIntercept}]
        /\ \A p \in Pids : intercepts'[p] = IF p = InterceptPid[i] THEN i ELSE intercepts[p]
    BY Zenon, <1>2, <2>1 DEF InterceptInv, InterceptTypeOK
  <2>5. CloseFindsIntercept'
    BY <1>2, <2>1, <2>3, <2>4 DEF InterceptInv, CloseFindsIntercept
  <2> QED
    BY Zenon, <2>1, <2>3, <2>4, <2>5 DEF InterceptInv, InterceptTypeOK
<1>8. CASE intercept_close_cb(i)
  <2>1. /\ intercept[i] = "registered"
        /\ intercepts' = [intercepts EXCEPT ![InterceptPid[i]] = NoIntercept]
        /\ intercept' = [intercept EXCEPT ![i] = "deleted"]
        /\ UNCHANGED <<interceptor, response>>
    BY Zenon, <1>8 DEF intercept_close_cb
  <2>2. response[i] = "registered" /\ response' = [response EXCEPT ![i] = "registered"]
        /\ intercepts[InterceptPid[i]] = i
    BY <2>1 DEF InterceptInv, InterceptTypeOK, CloseFindsIntercept
  <2>3. /\ intercept' \in [Intercepts -> InterceptStates] /\ response' \in [Intercepts -> Responses]
        /\ \A j \in Intercepts : /\ intercept'[j] = IF j = i THEN "deleted" ELSE intercept[j]
                                 /\ response'[j] = IF j = i THEN "registered" ELSE response[j]
        /\ InterceptDelivered'
    BY Zenon, <1>3, <2>1, <2>2 DEF Responses
  <2>4. /\ intercepts' \in [Pids -> Intercepts \cup {NoIntercept}]
        /\ \A p \in Pids : intercepts'[p] = IF p = InterceptPid[i] THEN NoIntercept ELSE intercepts[p]
    BY Zenon, <1>2, <2>1 DEF InterceptInv, InterceptTypeOK
  <2>5. CloseFindsIntercept'
    BY <1>2, <2>1, <2>2, <2>3, <2>4 DEF InterceptInv, CloseFindsIntercept
  <2> QED
    BY Zenon, <2>1, <2>3, <2>4, <2>5 DEF InterceptInv, InterceptTypeOK
<1> QED
  BY Zenon, <1>4, <1>5, <1>6, <1>7, <1>8 DEF ManageIntercept, intercept_request_cb

LEMMA InterceptInvInit == Init => InterceptInv
<1> SUFFICES ASSUME Init PROVE InterceptInv
  BY Zenon
<1>1. \A i \in Intercepts : i # NoIntercept /\ i # NoFile /\ InterceptPid[i] \in Pids
  BY Zenon, InterceptAssumption, FilesDiffer
<1>2. InterceptTypeOK /\ CloseFindsIntercept
  BY Zenon, <1>1 DEF Init, InterceptInit, InterceptTypeOK, InterceptStates, InterceptorStates, Responses,
     CloseFindsIntercept
<1>3. InterceptDelivered
  BY Zenon, <1>1 DEF Init, InterceptInit, InterceptDelivered
<1> QED
  BY Zenon, <1>2, <1>3 DEF Init, InterceptInit, InterceptInv

LEMMA InterceptNext ==
  ASSUME SlotInv, OutputInv, InterceptInv, [Next]_vars
  PROVE  InterceptInv'
<1>1. ASSUME NEW c \in Crashes, \/ Dumper(c) \/ RequestFailed(c) \/ RequestQueued(c)
                                \/ crash_completed_cb(c)
      PROVE  InterceptInv'
  <2>1. UNCHANGED <<interceptVars, output>>
    BY Zenon, <1>1 DEF Dumper, Connect, Request, ReceiveOutput, Notify, Die, RequestFailed, RequestQueued,
         crash_completed_cb
  <2> QED
    BY Zenon, <2>1, InterceptFrame
<1>2. ASSUME NEW c \in Crashes, RequestPerformed(c) PROVE InterceptInv'
  BY Zenon, <1>2, StepPerforms, InterceptPerformed
<1>3. CASE maybe_dequeue_crashes
  BY Zenon, <1>3, LoopPerforms, InterceptPerformed, InterceptFrame DEF crashVars
<1>4. ASSUME NEW i \in Intercepts, ManageIntercept(i) PROVE InterceptInv'
  BY Zenon, <1>4, InterceptManaged
<1>5. CASE Restart
  <2>1. /\ UNCHANGED <<output, interceptor, response>>
        /\ intercept' = [i \in Intercepts |-> IF intercept[i] = "none" THEN "none" ELSE "deleted"]
        /\ intercepts' = [p \in Pids |-> NoIntercept]
    BY Zenon, <1>5 DEF Restart
  <2>2. \A i \in Intercepts : i # NoIntercept /\ InterceptPid[i] \in Pids
    BY Zenon, InterceptAssumption
  <2>3. InterceptTypeOK' /\ CloseFindsIntercept'
    BY Zenon, <2>1, <2>2 DEF InterceptInv, InterceptTypeOK, InterceptStates, CloseFindsIntercept
  <2>4. InterceptDelivered'
    BY <2>1 DEF InterceptInv, InterceptDelivered
  <2> QED
    BY Zenon, <2>1, <2>3, <2>4 DEF InterceptInv
<1>6. CASE Tick \/ UNCHANGED vars
  BY Zenon, <1>6, InterceptFrame DEF Tick, vars, crashVars
<1> QED
  BY Zenon, <1>1, <1>2, <1>3, <1>4, <1>5, <1>6 DEF Next, crash_request_cb

-------------------------------------------------------------------------------
(* Artifacts.                                                                  *)

LEMMA InboxSame ==
  ASSUME InboxInv, UNCHANGED inbox, \A c \in Crashes : client[c] = "done" => client'[c] = "done"
  PROVE  InboxInv'
BY Zenon DEF InboxInv

LEMMA InboxAppend ==
  ASSUME InboxInv, NEW c \in Crashes, NEW p \in Packets,
         inbox' = [inbox EXCEPT ![c] = Append(@, p)],
         \A d \in Crashes : client[d] = "done" => client'[d] = "done",
         p = "completed_dump" => client'[c] = "done"
  PROVE  InboxInv'
<1>1. inbox[c] \in Seq(Packets)
  BY Zenon DEF InboxInv
<1>2. /\ inbox' \in [Crashes -> Seq(Packets)]
      /\ \A d \in Crashes : inbox'[d] = IF d = c THEN Append(inbox[c], p) ELSE inbox[d]
  BY <1>1 DEF InboxInv
<1>3. \A k \in 1 .. Len(inbox'[c]) : inbox'[c][k] = p \/ (k \in 1 .. Len(inbox[c]) /\ inbox'[c][k] = inbox[c][k])
  BY <1>1, <1>2
<1> QED
  BY <1>2, <1>3 DEF InboxInv

LEMMA InboxTail ==
  ASSUME InboxInv, NEW c \in Crashes, inbox[c] # <<>>, inbox' = [inbox EXCEPT ![c] = Tail(@)],
         UNCHANGED client
  PROVE  InboxInv'
<1>1. inbox[c] \in Seq(Packets)
  BY Zenon DEF InboxInv
<1>2. /\ inbox' \in [Crashes -> Seq(Packets)]
      /\ \A d \in Crashes : inbox'[d] = IF d = c THEN Tail(inbox[c]) ELSE inbox[d]
  BY <1>1 DEF InboxInv
<1>3. \A k \in 1 .. Len(inbox'[c]) : k + 1 \in 1 .. Len(inbox[c]) /\ inbox'[c][k] = inbox[c][k + 1]
  BY <1>1, <1>2
<1> QED
  BY <1>2, <1>3 DEF InboxInv

LEMMA FiledParts ==
  ASSUME FiledInv
  PROVE  restarts \in Nat /\ OwnOutputs /\ InboxInv /\ ArtifactTypeOK /\ FiledOnce
BY Zenon DEF FiledInv

LEMMA ArtifactIsCrash ==
  ASSUME ArtifactTypeOK, NEW q \in Queues, NEW i \in Slots(q), artifact[q][i] # NoFile
  PROVE  artifact[q][i] \in Crashes
BY Zenon DEF ArtifactTypeOK

\* A step that links nothing.
LEMMA FiledFrame ==
  ASSUME FiledInv, InboxInv', OwnOutputs', UNCHANGED artifact, restarts' \in Nat, KeepsComplete
  PROVE  FiledInv'
<1>1. ArtifactTypeOK'
  BY Zenon, FiledParts DEF ArtifactTypeOK
<1>2. FiledOnce'
  <2>1. ASSUME NEW q \in Queues, NEW i \in Slots(q), artifact[q][i] # NoFile
        PROVE  LET f == artifact[q][i] IN
               output'[f] = f /\ client'[f] = "done" /\ crash'[f] = "deleted"
    <3>1. artifact[q][i] \in Crashes
      BY Zenon, <2>1, FiledParts, ArtifactIsCrash
    <3> QED
      BY <2>1, <3>1, FiledParts DEF FiledOnce, KeepsComplete
  <2> QED
    BY Zenon, <2>1, FiledParts DEF FiledOnce, for_crash
<1> QED
  BY Zenon, <1>1, <1>2 DEF FiledInv

\* A step that links nothing and makes no output.
LEMMA FiledSame ==
  ASSUME FiledInv, InboxInv', UNCHANGED <<artifact, restarts, temporary, counter, output>>,
         \A d \in Crashes : client[d] = "done" => client'[d] = "done",
         \A d \in Crashes : crash[d] = "deleted" => crash'[d] = "deleted"
  PROVE  FiledInv'
<1>1. OwnOutputs'
  BY Zenon, FiledParts DEF OwnOutputs
<1>2. KeepsComplete
  BY Zenon DEF KeepsComplete
<1> QED
  BY Zenon, <1>1, <1>2, FiledParts, FiledFrame

LEMMA FiledInit == Init => FiledInv
<1> SUFFICES ASSUME Init PROVE FiledInv
  BY Zenon
<1>1. NoFile \notin Crashes
  BY Zenon, FilesDiffer
<1>2. \A q \in Queues : artifact[q] = [i \in Slots(q) |-> NoFile]
  BY DEF Init
<1> QED
  BY <1>1, <1>2 DEF Init, FiledInv, Files, OwnOutputs, InboxInv, ArtifactTypeOK, FiledOnce

\* The steps of the dumper c.
LEMMA FiledDumper ==
  ASSUME SlotInv, OutputInv, FiledInv, NEW c \in Crashes, Dumper(c)
  PROVE  FiledInv'
<1>1. client \in [Crashes -> ClientStates] /\ crash \in [Crashes -> CrashStates] /\ InboxInv
  BY Zenon, FiledParts DEF SlotInv, SlotTypeOK
<1>2. UNCHANGED <<artifact, restarts, temporary, counter, output>>
  BY Zenon DEF Dumper, Connect, Request, ReceiveOutput, Notify, Die, fileVars, timeVars
<1>3. client[c] # "done" /\ \E s \in ClientStates : client' = [client EXCEPT ![c] = s]
  BY Zenon DEF Dumper, Connect, Request, ReceiveOutput, Notify, Die, ClientStates
<1>4. \A d \in Crashes : client[d] = "done" => d # c /\ client'[d] = "done"
  BY Zenon, <1>1, <1>3
<1>5. \A d \in Crashes \ {c} : crash'[d] = crash[d]
  BY Zenon, <1>1 DEF Dumper, Connect, Request, ReceiveOutput, Notify, Die
<1>6. InboxInv'
  <2>1. CASE Connect(c) \/ ReceiveOutput(c) \/ Die(c)
    BY Zenon, <1>1, <1>4, <2>1, InboxSame DEF Connect, ReceiveOutput, Die
  <2>2. CASE Request(c)
    <3>1. PICK p \in {"dump_request", "other"} : inbox' = [inbox EXCEPT ![c] = Append(@, p)]
      BY Zenon, <2>2 DEF Request
    <3> QED
      BY Zenon, <1>1, <1>4, <3>1, InboxAppend DEF Packets
  <2>3. CASE Notify(c)
    BY Zenon, <1>1, <1>4, <2>3, InboxAppend DEF Notify, Packets
  <2> QED
    BY Zenon, <2>1, <2>2, <2>3 DEF Dumper
<1>7. \A d \in Crashes : crash[d] = "deleted" => crash'[d] = "deleted"
  BY Zenon, <1>1, <1>5 DEF Dumper, Connect, Request, ReceiveOutput, Notify, Die, SlotInv, NewHasNoCrash
<1> QED
  BY Zenon, <1>2, <1>4, <1>6, <1>7, FiledSame

LEMMA FiledPerformed ==
  ASSUME SlotInv, OutputInv, InterceptInv, FiledInv, NEW c \in Crashes, Performs(c)
  PROVE  FiledInv'
<1>1. PICK s \in {"running", "deleted"} : crash' = [crash EXCEPT ![c] = s]
  BY Zenon, PerformEffect DEF Performs
<1>2. UNCHANGED <<artifact, restarts, client>> /\ crash[c] # "deleted"
  BY DEF Performs
<1>3. InboxInv'
  BY Zenon, <1>2, FiledParts, InboxSame, InboxTail DEF Performs
<1>4. /\ \E o \in {c} \cup Intercepts \cup {DevNull} : output' = [output EXCEPT ![c] = o]
      /\ ~HasTmpfile => Len(temporary') = counter'
  <2>1. HasTmpfile \/ Len(temporary) = counter
    BY FiledParts DEF OwnOutputs
  <2>2. CASE get_output(c)
    BY Zenon, <2>1, <2>2, GetOutput
  <2> QED
    BY Zenon, <2>1, <2>2, PerformWays DEF Performs, InterceptInv
<1>5. \A d \in Crashes : output'[d] \in Crashes => output'[d] = d
  <2>1. \A o \in Intercepts \cup {DevNull} : o \notin Crashes
    BY Zenon, FilesDiffer
  <2>2. \A d \in Crashes : output[d] \in Crashes => output[d] = d
    BY Zenon, FiledParts DEF OwnOutputs
  <2>3. output \in [Crashes -> Crashes \cup Intercepts \cup {NoFile, DevNull}]
    BY Zenon DEF OutputInv
  <2> QED
    BY Zenon, <1>4, <2>1, <2>2, <2>3
<1>6. \A f \in Crashes : crash[f] = "deleted" => f # c /\ output'[f] = output[f] /\ crash'[f] = "deleted"
  BY Zenon, <1>1, <1>2, <1>4 DEF OutputInv, SlotInv, SlotTypeOK
<1>7. OwnOutputs' /\ restarts' \in Nat
  BY Zenon, <1>2, <1>4, <1>5, FiledParts DEF OwnOutputs
<1>8. KeepsComplete
  BY Zenon, <1>2, <1>6 DEF KeepsComplete
<1> QED
  BY Zenon, <1>2, <1>3, <1>7, <1>8, FiledFrame

\* What LinkArtifact does to the slots: nothing, or the next one gets the file,
\* or becomes free.
LEMMA Linked ==
  ASSUME FiledInv, NEW c \in Crashes, LinkArtifact(c)
  PROVE  LET q == for_crash(c)
             n == next_artifact_[q]
         IN  /\ DOMAIN artifact' = Queues
             /\ \/ UNCHANGED artifact /\ Faults # {}
                \/ \E f \in {output[c], NoFile} :
                     /\ f = output[c] \/ Faults # {}
                     /\ \A r \in Queues :
                          artifact'[r] = [i \in Slots(r) |-> IF r = q /\ i = n THEN f ELSE artifact[r][i]]
<1> DEFINE q == for_crash(c)
           n == next_artifact_[q]
<1>1. DOMAIN artifact = Queues /\ \A r \in Queues : artifact[r] \in [Slots(r) -> Crashes \cup {NoFile}]
  BY Zenon, FiledParts DEF ArtifactTypeOK
<1>2. \/ UNCHANGED artifact /\ Faults # {}
      \/ artifact' = [artifact EXCEPT ![q][n] = output[c]]
      \/ Faults # {} /\ artifact' = [artifact EXCEPT ![q][n] = NoFile]
  BY Zenon DEF LinkArtifact
<1> HIDE DEF q, n
<1>3. ASSUME NEW f, artifact' = [artifact EXCEPT ![q][n] = f]
      PROVE  /\ DOMAIN artifact' = Queues
             /\ \A r \in Queues :
                  artifact'[r] = [i \in Slots(r) |-> IF r = q /\ i = n THEN f ELSE artifact[r][i]]
  BY Zenon, <1>1, <1>3
<1> QED
  BY <1>1, <1>2, <1>3 DEF q, n

LEMMA LinkedSlots ==
  ASSUME FiledInv, NEW c \in Crashes, LinkArtifact(c)
  PROVE  \/ UNCHANGED artifact /\ Faults # {}
         \/ \E f \in {output[c], NoFile} :
              /\ f = output[c] \/ Faults # {}
              /\ \A r \in Queues : \A i \in Slots(r) :
                   artifact'[r][i] = IF r = for_crash(c) /\ i = next_artifact_[for_crash(c)]
                                     THEN f ELSE artifact[r][i]
<1> DEFINE q == for_crash(c)
           n == next_artifact_[q]
<1>1. \/ UNCHANGED artifact /\ Faults # {}
      \/ \E f \in {output[c], NoFile} :
           /\ f = output[c] \/ Faults # {}
           /\ \A r \in Queues :
                artifact'[r] = [i \in Slots(r) |-> IF r = q /\ i = n THEN f ELSE artifact[r][i]]
  BY Zenon, Linked
<1> HIDE DEF q, n
<1>2. ASSUME NEW f, \A r \in Queues :
               artifact'[r] = [i \in Slots(r) |-> IF r = q /\ i = n THEN f ELSE artifact[r][i]]
      PROVE  \A r \in Queues : \A i \in Slots(r) :
               artifact'[r][i] = IF r = q /\ i = n THEN f ELSE artifact[r][i]
  BY Zenon, <1>2
<1> QED
  BY Zenon, <1>1, <1>2 DEF q, n

LEMMA FiledCompleted ==
  ASSUME SlotInv, OutputInv, FiledInv, NEW c \in Crashes, crash_completed_cb(c)
  PROVE  FiledInv'
<1>1. /\ crash[c] = "running" /\ crash' = [crash EXCEPT ![c] = "deleted"]
      /\ UNCHANGED <<client, inbox, output, counter, restarts>>
      /\ \/ CompletedRead(c) /\ output[c] \in Crashes /\ LinkArtifact(c)
         \/ UNCHANGED <<artifact, next_artifact_, temporary>>
  BY Zenon DEF crash_completed_cb, timeVars, Files
<1>2. \A d \in Crashes : crash'[d] = IF d = c THEN "deleted" ELSE crash[d]
  BY <1>1 DEF SlotInv, SlotTypeOK
<1>3. InboxInv'
  BY Zenon, <1>1, FiledParts, InboxSame
<1>4. CASE UNCHANGED <<artifact, temporary>>
  BY Zenon, <1>1, <1>2, <1>3, <1>4, FiledSame
<1>5. CASE CompletedRead(c) /\ output[c] \in Crashes /\ LinkArtifact(c)
  <2> DEFINE q == for_crash(c)
             n == next_artifact_[q]
  <2>1. output[c] = c /\ c # NoFile
    BY Zenon, <1>5, FilesDiffer, FiledParts DEF OwnOutputs
  <2>2. client[c] = "done"
    <3>1. inbox[c] \in Seq(Packets) /\ inbox[c] # <<>> /\ Head(inbox[c]) = "completed_dump"
      BY Zenon, <1>5, FiledParts DEF CompletedRead, InboxInv
    <3>2. 1 \in 1 .. Len(inbox[c]) /\ inbox[c][1] = "completed_dump"
      BY <3>1
    <3> QED
      BY Zenon, <3>2, FiledParts DEF InboxInv
  <2>3. Len(temporary') = Len(temporary)
    BY Zenon, <1>5, LinkedTemporary
  <2>4. \A r \in Queues : \A i \in Slots(r) : artifact[r][i] # c
    BY Zenon, <1>1, <2>1, FiledParts DEF FiledOnce
  <2>o. OwnOutputs' /\ restarts' \in Nat
    BY Zenon, <1>1, <2>3, FiledParts DEF OwnOutputs
  <2>5. CASE UNCHANGED artifact
    <3>1. KeepsComplete
      BY Zenon, <1>1, <1>2 DEF KeepsComplete
    <3> QED
      BY Zenon, <1>3, <2>o, <2>5, <3>1, FiledFrame
  <2>6. CASE \E f \in {c, NoFile} : /\ DOMAIN artifact' = Queues
               /\ \A r \in Queues : artifact'[r] =
                    [i \in Slots(r) |-> IF r = q /\ i = n THEN f ELSE artifact[r][i]]
    <3> HIDE DEF n
    <3>1. PICK f \in {c, NoFile} : /\ DOMAIN artifact' = Queues
               /\ \A r \in Queues : artifact'[r] =
                    [i \in Slots(r) |-> IF r = q /\ i = n THEN f ELSE artifact[r][i]]
      BY Zenon, <2>6
    <3>2. \A r \in Queues : artifact[r] \in [Slots(r) -> Crashes \cup {NoFile}]
      BY Zenon, FiledParts DEF ArtifactTypeOK
    <3>3. \A r \in Queues : artifact'[r] \in [Slots(r) -> Crashes \cup {NoFile}]
      BY <3>1, <3>2
    <3>4. \A r \in Queues : \A i \in Slots(r) :
            artifact'[r][i] = IF r = q /\ i = n THEN f ELSE artifact[r][i]
      BY <3>1
    <3>5. ASSUME NEW r \in Queues, NEW i \in Slots(r), artifact'[r][i] # NoFile
          PROVE  LET g == artifact'[r][i] IN
                 /\ output[g] = g /\ client[g] = "done" /\ crash'[g] = "deleted" /\ for_crash(g) = r
                 /\ \A j \in Slots(r) : artifact'[r][j] = g => j = i
      <4>1. CASE r = q /\ i = n
        BY <1>2, <2>1, <2>2, <2>4, <3>4, <3>5, <4>1
      <4>2. CASE ~(r = q /\ i = n)
        <5>1. artifact'[r][i] = artifact[r][i] /\ artifact[r][i] \in Crashes
          BY Zenon, <3>2, <3>4, <3>5, <4>2
        <5> QED
          <6>1. LET g == artifact[r][i] IN
                /\ output[g] = g /\ client[g] = "done" /\ crash[g] = "deleted" /\ for_crash(g) = r
                /\ \A j \in Slots(r) : artifact[r][j] = g => j = i
            BY Zenon, <3>5, <5>1, FiledParts DEF FiledOnce
          <6>2. \A j \in Slots(r) : artifact'[r][j] = artifact[r][i] => j = i
            BY Zenon, <2>1, <2>4, <3>4, <3>5, <5>1, <6>1
          <6> QED
            BY Zenon, <1>2, <5>1, <6>1, <6>2
      <4> QED
        BY Zenon, <4>1, <4>2
    <3>6. ArtifactTypeOK'
      BY Zenon, <3>1, <3>3 DEF ArtifactTypeOK
    <3>7. FiledOnce'
      <4>1. output' = output /\ client' = client
        BY Zenon, <1>1
      <4> QED BY Zenon, <3>5, <4>1 DEF FiledOnce, for_crash
    <3> QED
      BY Zenon, <1>3, <2>o, <3>6, <3>7 DEF FiledInv
  <2> QED
    BY <1>5, <2>1, <2>5, <2>6, Linked
<1> QED
  BY <1>1, <1>4, <1>5

LEMMA FiledNext ==
  ASSUME FreshOutputs, SlotInv, OutputInv, InterceptInv, FiledInv, [Next]_vars
  PROVE  FiledInv'
<1>1. InboxInv /\ crash \in [Crashes -> CrashStates]
  BY FiledParts DEF SlotInv, SlotTypeOK
<1>2. ASSUME UNCHANGED <<artifact, restarts, temporary, counter, output, inbox, client>>,
             \A d \in Crashes : crash[d] = "deleted" => crash'[d] = "deleted"
      PROVE  FiledInv'
  BY Zenon, <1>1, <1>2, InboxSame, FiledSame
<1>3. ASSUME NEW c \in Crashes, RequestFailed(c) PROVE FiledInv'
  BY <1>1, <1>2, <1>3 DEF RequestFailed, fileVars, timeVars
<1>4. ASSUME NEW c \in Crashes, RequestQueued(c) PROVE FiledInv'
  <2>1. /\ UNCHANGED <<artifact, restarts, temporary, counter, output, client>>
        /\ inbox[c] # <<>> /\ inbox' = [inbox EXCEPT ![c] = Tail(@)]
        /\ crash[c] = "accepted" /\ crash' = [crash EXCEPT ![c] = "queued"]
    BY Zenon, <1>4 DEF RequestQueued, RequestReceived, maybe_enqueue_crash, fileVars, timeVars
  <2>2. InboxInv'
    BY Zenon, <1>1, <2>1, InboxTail
  <2>3. \A d \in Crashes : crash[d] = "deleted" => crash'[d] = "deleted"
    BY <1>1, <2>1
  <2> QED
    BY Zenon, <2>1, <2>2, <2>3, FiledSame
<1>5. ASSUME NEW c \in Crashes, RequestPerformed(c) PROVE FiledInv'
  BY <1>5, StepPerforms, FiledPerformed
<1>6. CASE maybe_dequeue_crashes
  BY Zenon, <1>2, <1>6, LoopPerforms, FiledPerformed DEF crashVars, fileVars, timeVars
<1>7. ASSUME NEW i \in Intercepts, ManageIntercept(i) PROVE FiledInv'
  BY Zenon, <1>2, <1>7 DEF ManageIntercept, crashVars, fileVars, timeVars
<1>8. CASE Restart
  <2>1. /\ UNCHANGED <<artifact, temporary, output, inbox, client>> /\ restarts' = restarts + 1
        /\ restarts < MaxRestarts
        /\ \A d \in Crashes : crash[d] = "deleted" => crash'[d] = "deleted"
    BY Zenon, <1>8 DEF Restart
  <2>2. HasTmpfile /\ restarts' \in Nat
    BY <2>1, TombstonedAssumption, FiledParts DEF FreshOutputs
  <2>3. InboxInv'
    BY Zenon, <1>1, <2>1, InboxSame
  <2>4. OwnOutputs' /\ KeepsComplete
    BY Zenon, <2>1, <2>2, FiledParts DEF OwnOutputs, KeepsComplete
  <2> QED
    BY Zenon, <2>1, <2>2, <2>3, <2>4, FiledFrame
<1>9. CASE Tick \/ UNCHANGED vars
  BY Zenon, <1>2, <1>9 DEF Tick, vars, crashVars, fileVars, timeVars
<1> QED
  BY <1>3, <1>4, <1>5, <1>6, <1>7, <1>8, <1>9, FiledDumper, FiledCompleted DEF Next, crash_request_cb

-------------------------------------------------------------------------------
(* The ring.                                                                   *)

LEMMA NextSlot ==
  ASSUME NEW m \in Nat \ {0}, NEW n \in 0 .. m - 1
  PROVE  (n + 1) % m = IF n + 1 = m THEN 0 ELSE n + 1
<1>1. CASE n + 1 = m
  BY <1>1
<1>2. CASE n + 1 # m
  BY <1>2
<1> QED
  BY Zenon, <1>1, <1>2

\* No slot is linked, and no time of an artifact changes.
LEMMA RingFrame ==
  ASSUME FiledInv, RingInv, UNCHANGED <<artifact, next_artifact_, ambiguous>>,
         clock' \in Nat, mtime' \in [Crashes -> Nat], \A c \in Crashes : mtime'[c] <= clock',
         \A c \in Crashes : client[c] = "done" /\ crash[c] = "deleted" => mtime'[c] = mtime[c],
         \A c \in Crashes : crash'[c] = "running" /\ output'[c] = c =>
           \/ crash[c] = "running" /\ output[c] = c /\ mtime'[c] = mtime[c]
           \/ mtime'[c] = clock
  PROVE  RingInv'
<1>1. \A q \in Queues : \A i \in Slots(q) : artifact[q][i] # NoFile =>
        /\ artifact[q][i] \in Crashes /\ mtime'[artifact[q][i]] = mtime[artifact[q][i]]
        /\ mtime[artifact[q][i]] \in Nat /\ mtime[artifact[q][i]] <= clock
  <2> SUFFICES ASSUME NEW q \in Queues, NEW i \in Slots(q), artifact[q][i] # NoFile
      PROVE  /\ artifact[q][i] \in Crashes
             /\ mtime'[artifact[q][i]] = mtime[artifact[q][i]]
             /\ mtime[artifact[q][i]] \in Nat /\ mtime[artifact[q][i]] <= clock
    BY Zenon
  <2>1. artifact[q][i] \in Crashes
    BY Zenon, FiledParts, ArtifactIsCrash
  <2>2. client[artifact[q][i]] = "done" /\ crash[artifact[q][i]] = "deleted"
    BY Zenon, FiledParts DEF FiledOnce
  <2> QED
    BY Zenon, <2>1, <2>2 DEF RingInv, TimesOK
<1>2. ASSUME NEW q \in Queues, Ordered(q) PROVE Ordered(q)'
  BY Zenon, <1>1, <1>2 DEF Ordered
<1>3. ASSUME NEW q \in Queues, MaxDumps[q] = 1, NEW c \in Running(q)', output'[c] = c,
             NEW i \in Slots(q), artifact[q][i] # NoFile
      PROVE  mtime[artifact[q][i]] <= mtime'[c]
  <2>1. c \in Crashes /\ crash'[c] = "running" /\ for_crash(c) = q
    BY Zenon, <1>3 DEF Running, for_crash
  <2>2. CASE mtime'[c] = clock
    BY Zenon, <1>1, <1>3, <2>2
  <2>3. CASE crash[c] = "running" /\ output[c] = c /\ mtime'[c] = mtime[c]
    BY Zenon, <1>3, <2>1, <2>3 DEF RingInv, RunningIsLatest, Running
  <2> QED
    BY Zenon, <1>3, <2>1, <2>2, <2>3
<1>4. TimesOK'
  BY Zenon DEF TimesOK, RingInv
<1>5. ASSUME NEW q \in Queues, MaxDumps[q] = 1 PROVE RunningIsLatest(q)'
  BY Zenon, <1>1, <1>3, <1>5 DEF RunningIsLatest
<1> QED
  BY Zenon, <1>2, <1>4, <1>5 DEF RingInv

LEMMA RingInit == Init => RingInv
<1> SUFFICES ASSUME Init PROVE RingInv
  BY Zenon
<1>1. \A q \in Queues : MaxArtifacts[q] \in Nat /\ MaxDumps[q] \in Nat \ {0} /\ MaxArtifacts[q] > MaxDumps[q]
  BY Zenon, TombstonedAssumption
<1>2. \A q \in Queues : next_artifact_[q] = 0 /\ artifact[q] = [i \in Slots(q) |-> NoFile]
  BY DEF Init
<1>3. ASSUME NEW q \in Queues PROVE Ordered(q)
  <2>1. 0 \in Slots(q) /\ \A i \in Slots(q) : ~(i < 0)
    BY <1>1 DEF Slots
  <2>2. \A i \in Slots(q) : artifact[q][i] = NoFile
    BY Zenon, <1>2
  <2> QED
    BY Zenon, <1>2, <2>1, <2>2 DEF Ordered
<1>4. \A q \in Queues : Running(q) = {}
  BY DEF Init, Running
<1> QED
  BY <1>3, <1>4 DEF Init, RingInv, TimesOK, RunningIsLatest, Files

LEMMA RingDumper ==
  ASSUME SlotInv, OutputInv, FiledInv, RingInv, NEW c \in Crashes, Dumper(c)
  PROVE  RingInv'
<1>1. UNCHANGED <<artifact, next_artifact_, ambiguous, clock, output>>
  BY Zenon DEF Dumper, Connect, Request, ReceiveOutput, Notify, Die, fileVars, timeVars
<1>2. /\ client[c] # "done" /\ crash \in [Crashes -> CrashStates]
      /\ crash' = crash \/ crash' = [crash EXCEPT ![c] = "accepted"]
  BY Zenon DEF Dumper, Connect, Request, ReceiveOutput, Notify, Die, SlotInv, SlotTypeOK
<1>3. mtime' = mtime \/ mtime' = [mtime EXCEPT ![c] = clock]
  <2>1. CASE Notify(c)
    BY Zenon, <2>1, FiledParts DEF Notify, Files, OwnOutputs
  <2> QED
    BY Zenon, <2>1 DEF Dumper, Connect, Request, ReceiveOutput, Die, timeVars
<1>4. /\ clock \in Nat /\ mtime \in [Crashes -> Nat] /\ \A d \in Crashes : mtime[d] <= clock
  BY Zenon DEF RingInv, TimesOK
<1>5. /\ mtime' \in [Crashes -> Nat] /\ \A d \in Crashes : mtime'[d] <= clock
      /\ \A d \in Crashes : mtime'[d] = mtime[d] \/ (d = c /\ mtime'[d] = clock)
  BY <1>3, <1>4
<1>6. \A d \in Crashes : crash'[d] = "running" => crash[d] = "running"
  BY <1>2
<1> QED
  BY Zenon, <1>1, <1>2, <1>4, <1>5, <1>6, RingFrame

LEMMA RingPerformed ==
  ASSUME SlotInv, OutputInv, InterceptInv, FiledInv, RingInv, NEW c \in Crashes, Performs(c)
  PROVE  RingInv'
<1>1. PICK s \in {"running", "deleted"} : crash' = [crash EXCEPT ![c] = s]
  BY Zenon, PerformEffect DEF Performs
<1>2. UNCHANGED <<artifact, next_artifact_, ambiguous, clock>> /\ crash[c] \notin {"deleted", "running"}
  BY DEF Performs
<1>3. \/ mtime' = [mtime EXCEPT ![c] = clock] /\ output' = [output EXCEPT ![c] = c]
      \/ mtime' = mtime /\ \E o \in Intercepts \cup {DevNull} : output' = [output EXCEPT ![c] = o]
  <2>1. HasTmpfile \/ Len(temporary) = counter
    BY Zenon, FiledParts DEF OwnOutputs
  <2>2. CASE get_output(c)
    BY Zenon, <2>1, <2>2, GetOutput
  <2> QED
    BY Zenon, <2>2, PerformWays DEF Performs, InterceptInv
<1>4. /\ clock \in Nat /\ mtime \in [Crashes -> Nat] /\ \A d \in Crashes : mtime[d] <= clock
  BY Zenon DEF RingInv, TimesOK
<1>5. /\ mtime' \in [Crashes -> Nat] /\ \A d \in Crashes : mtime'[d] <= clock
      /\ \A d \in Crashes \ {c} : mtime'[d] = mtime[d]
  BY <1>3, <1>4
<1>6. /\ \A d \in Crashes \ {c} : output'[d] = output[d] /\ crash'[d] = crash[d]
      /\ output'[c] = c => mtime'[c] = clock
  <2>1. \A o \in Intercepts \cup {DevNull} : o \notin Crashes
    BY FilesDiffer
  <2> QED
    BY Zenon, <1>1, <1>3, <1>4, <2>1 DEF OutputInv, SlotInv, SlotTypeOK
<1> QED
  BY Zenon, <1>2, <1>4, <1>5, <1>6, RingFrame

\* Linking a file that is the latest at the start of an ordered ring moves the
\* start on and keeps the order.
LEMMA RingLinked ==
  ASSUME NEW q \in Queues, NEW f \in Crashes, f # NoFile, Ordered(q),
         \A i \in Slots(q) : artifact[q][i] # NoFile => mtime[artifact[q][i]] <= mtime[f],
         next_artifact_'[q] = (next_artifact_[q] + 1) % MaxArtifacts[q],
         mtime' = mtime, mtime[f] \in Nat,
         \A i \in Slots(q) : artifact'[q][i] = IF i = next_artifact_[q] THEN f ELSE artifact[q][i]
  PROVE  Ordered(q)'
<1> DEFINE n == next_artifact_[q]
           m == MaxArtifacts[q]
<1>1. m \in Nat \ {0} /\ Slots(q) = 0 .. m - 1
  BY Zenon, SlotsAre
<1>2. n \in 0 .. m - 1
  BY Zenon, <1>1 DEF Ordered
<1>3. next_artifact_'[q] = IF n + 1 = m THEN 0 ELSE n + 1
  BY Zenon, <1>1, <1>2, NextSlot
<1> DEFINE o == next_artifact_'[q]
<1> HIDE DEF n, m, o
<1>4. o \in 0 .. m - 1 /\ o = IF n + 1 = m THEN 0 ELSE n + 1
  BY <1>1, <1>2, <1>3 DEF o
<1>5. \/ \A i \in 0 .. m - 1 : artifact'[q][i] # NoFile
      \/ \A i \in 0 .. m - 1 : artifact'[q][i] # NoFile <=> i < o
  <2>1. CASE \A i \in 0 .. m - 1 : artifact[q][i] # NoFile
    BY Zenon, <1>1, <2>1 DEF n
  <2>2. CASE \A i \in 0 .. m - 1 : artifact[q][i] # NoFile <=> i < n
    <3>1. \A i \in 0 .. m - 1 : artifact'[q][i] # NoFile <=> i < n + 1
      <4>1. \A i \in 0 .. m - 1 : artifact'[q][i] # NoFile <=> (i = n \/ artifact[q][i] # NoFile)
        BY Zenon, <1>1 DEF n
      <4>2. \A i \in 0 .. m - 1 : i < n + 1 <=> (i = n \/ i < n)
        BY <1>1, <1>2
      <4> QED
        BY Zenon, <2>2, <4>1, <4>2
    <3>2. CASE n + 1 = m
      <4>1. \A i \in 0 .. m - 1 : i < n + 1
        BY <1>1, <3>2
      <4> QED
        BY Zenon, <3>1, <4>1
    <3>3. CASE n + 1 # m
      BY Zenon, <1>4, <3>1, <3>3
    <3> QED
      BY Zenon, <3>2, <3>3
  <2> QED
    BY Zenon, <1>1, <2>1, <2>2 DEF Ordered, n
<1>6. ASSUME NEW i \in 0 .. m - 1, NEW j \in 0 .. m - 1,
             artifact'[q][i] # NoFile, artifact'[q][j] # NoFile, Before(o, i, j)
      PROVE  mtime[artifact'[q][i]] <= mtime[artifact'[q][j]]
  <2>1. i # n
    BY <1>1, <1>2, <1>4, <1>6 DEF Before
  <2>2. artifact'[q][i] = artifact[q][i]
    BY Zenon, <1>1, <2>1 DEF n
  <2>3. CASE j = n
    BY Zenon, <1>1, <1>6, <2>2, <2>3 DEF n
  <2>4. CASE j # n
    <3>1. Before(n, i, j)
      BY <1>1, <1>2, <1>4, <1>6, <2>1, <2>4 DEF Before
    <3>2. artifact'[q][j] = artifact[q][j]
      BY Zenon, <1>1, <2>4 DEF n
    <3> QED
      BY Zenon, <1>1, <1>6, <2>2, <3>1, <3>2 DEF Ordered, n
  <2> QED
    BY Zenon, <2>3, <2>4
<1> QED
  BY Zenon, <1>1, <1>4, <1>5, <1>6 DEF Ordered, o

LEMMA RingCompleted ==
  ASSUME Faults = {}, SlotInv, OutputInv, FiledInv, RingInv, OneRunning, NEW c \in Crashes,
         crash_completed_cb(c)
  PROVE  RingInv'
<1>1. /\ crash[c] = "running" /\ crash' = [crash EXCEPT ![c] = "deleted"]
      /\ UNCHANGED <<client, output, mtime, clock, ambiguous>>
      /\ \/ CompletedRead(c) /\ output[c] \in Crashes /\ LinkArtifact(c)
         \/ UNCHANGED <<artifact, next_artifact_, temporary>>
  BY Zenon DEF crash_completed_cb, timeVars, Files
<1>2. \A d \in Crashes : crash'[d] = IF d = c THEN "deleted" ELSE crash[d]
  BY Zenon, <1>1 DEF SlotInv, SlotTypeOK
<1>3. /\ clock \in Nat /\ mtime \in [Crashes -> Nat] /\ \A d \in Crashes : mtime[d] <= clock
      /\ DOMAIN next_artifact_ = Queues
  BY DEF RingInv, TimesOK
<1>4. CASE UNCHANGED <<artifact, next_artifact_>>
  BY Zenon, <1>1, <1>2, <1>3, <1>4, RingFrame
<1>5. CASE output[c] \in Crashes /\ LinkArtifact(c)
  <2> DEFINE q == for_crash(c)
  <2>1. output[c] = c /\ c # NoFile /\ q \in Queues /\ c \in Running(q)
    BY Zenon, <1>1, <1>5, FilesDiffer, FiledParts DEF OwnOutputs, for_crash, Queues, Running
  <2>2. \A r \in Queues : \A i \in Slots(r) :
          artifact'[r][i] = IF r = q /\ i = next_artifact_[q] THEN c ELSE artifact[r][i]
    BY <1>5, <2>1, LinkedSlots
  <2>3. next_artifact_' = [next_artifact_ EXCEPT ![q] = (next_artifact_[q] + 1) % MaxArtifacts[q]]
    BY <1>5, Zenon DEF LinkArtifact
  <2>4. Running(q)' = Running(q) \ {c} /\ \A r \in Queues \ {q} : Running(r)' = Running(r)
    BY Zenon, <1>2, <2>1 DEF Running, for_crash
  <2> HIDE DEF q
  <2>5. DOMAIN next_artifact_' = Queues
        /\ next_artifact_'[q] = (next_artifact_[q] + 1) % MaxArtifacts[q]
        /\ \A r \in Queues \ {q} : next_artifact_'[r] = next_artifact_[r]
    BY Zenon, <1>3, <2>1, <2>3
  <2>6. ASSUME NEW r \in Queues, r # q, MaxDumps[r] = 1
        PROVE  /\ ~ambiguous[r] => Ordered(r)'
               /\ RunningIsLatest(r)'
    <3>1. \A i \in Slots(r) : artifact'[r][i] = artifact[r][i]
      BY Zenon, <2>2, <2>6
    <3>2. Ordered(r) => Ordered(r)'
      BY Zenon, <1>1, <2>5, <2>6, <3>1 DEF Ordered
    <3>3. RunningIsLatest(r) => RunningIsLatest(r)'
      BY Zenon, <1>1, <2>4, <2>6, <3>1 DEF RunningIsLatest
    <3> QED
      BY Zenon, <2>6, <3>2, <3>3 DEF RingInv
  <2>7. ASSUME MaxDumps[q] = 1
        PROVE  (~ambiguous[q] => Ordered(q)') /\ RunningIsLatest(q)'
    <3>1. Running(q)' = {}
      BY Zenon, <2>1, <2>4, <2>7 DEF OneRunning
    <3>2. \A i \in Slots(q) : artifact[q][i] # NoFile => mtime[artifact[q][i]] <= mtime[c]
      BY Zenon, <2>1, <2>7 DEF RingInv, RunningIsLatest
    <3>3. mtime[c] \in Nat /\ mtime' = mtime
      BY Zenon, <1>1, <1>3
    <3>4. \A i \in Slots(q) : artifact'[q][i] = IF i = next_artifact_[q] THEN c ELSE artifact[q][i]
      BY Zenon, <2>1, <2>2
    <3>5. Ordered(q) => Ordered(q)'
      BY Zenon, <2>1, <2>5, <3>2, <3>3, <3>4, RingLinked
    <3>6. RunningIsLatest(q)'
      BY Zenon, <3>1 DEF RunningIsLatest
    <3> QED
      BY Zenon, <2>1, <2>7, <3>5, <3>6 DEF RingInv
  <2>8. TimesOK'
    BY Zenon, <1>1, <1>3, <2>5 DEF TimesOK
  <2> QED
    BY Zenon, <1>1, <2>6, <2>7, <2>8 DEF RingInv
<1> QED
  BY Zenon, <1>1, <1>4, <1>5

\* After a restart the daemon goes on where the ring starts, when one artifact
\* is the oldest.
LEMMA OldestIsNext ==
  ASSUME FiledInv, RingInv, NEW q \in Queues, Ordered(q), ~TwoOldest(q)
  PROVE  find_oldest_artifact(q) = next_artifact_[q]
<1> DEFINE n == next_artifact_[q]
           time(i) == mtime[artifact[q][i]]
           missing == {i \in Slots(q) : artifact[q][i] = NoFile}
<1>1. Slots(q) \subseteq Nat /\ n \in Slots(q)
  BY SlotsAre DEF Ordered
<1>2. CASE missing # {}
  <2>1. \A i \in Slots(q) : artifact[q][i] # NoFile <=> i < n
    BY Zenon, <1>2 DEF Ordered
  <2> HIDE DEF n
  <2>2. n \in missing /\ \A i \in missing : n <= i
    BY <1>1, <2>1
  <2>3. \A i \in missing : (\A j \in missing : i <= j) => i = n
    BY <1>1, <2>2
  <2>4. n = CHOOSE i \in missing : \A j \in missing : i <= j
    BY Zenon, <2>2, <2>3
  <2> QED
    BY Zenon, <1>2, <2>4 DEF find_oldest_artifact, n
<1>3. CASE missing = {}
  <2>1. \A i \in Slots(q) : artifact[q][i] # NoFile
    BY Zenon, <1>3
  <2>2. \A i \in Slots(q) : time(i) \in Nat
    <3>1. \A i \in Slots(q) : artifact[q][i] \in Crashes
      BY Zenon, <2>1, FiledParts, ArtifactIsCrash
    <3> QED
      BY Zenon, <3>1 DEF RingInv, TimesOK
  <2>3. \A j \in Slots(q) : j # n => time(n) <= time(j)
    <3>1. \A j \in Slots(q) : j # n => Before(n, n, j)
      BY <1>1 DEF Before
    <3> QED
      BY Zenon, <1>1, <2>1, <3>1 DEF Ordered
  <2>4. \A j \in Slots(q) : j # n => time(n) # time(j)
    <3>1. \A j \in Slots(q) : time(n) <= time(j)
      BY <1>1, <2>2, <2>3
    <3> QED
      BY Zenon, <1>1, <2>1, <3>1 DEF TwoOldest
  <2> HIDE DEF n, time
  <2>5. \A j \in Slots(q) : time(n) < time(j) \/ (time(n) = time(j) /\ n <= j)
    BY <1>1, <2>2, <2>3, <2>4
  <2>6. \A i \in Slots(q) :
          (\A j \in Slots(q) : time(i) < time(j) \/ (time(i) = time(j) /\ i <= j)) => i = n
    BY <1>1, <2>2, <2>3, <2>4
  <2>7. n = CHOOSE i \in Slots(q) : \A j \in Slots(q) :
              time(i) < time(j) \/ (time(i) = time(j) /\ i <= j)
    BY Zenon, <1>1, <2>5, <2>6
  <2> QED
    BY Zenon, <1>3, <2>7 DEF find_oldest_artifact, n, time
<1> QED
  BY Zenon, <1>2, <1>3

LEMMA RingRestart ==
  ASSUME SlotInv, FiledInv, RingInv, Restart
  PROVE  RingInv'
<1>1. /\ next_artifact_' = [q \in Queues |-> find_oldest_artifact(q)]
      /\ ambiguous' = [q \in Queues |-> ambiguous[q] \/ TwoOldest(q)]
      /\ \A c \in Crashes : crash'[c] # "running"
      /\ UNCHANGED <<artifact, mtime, clock>>
  BY Zenon DEF Restart
<1>2. \A q \in Queues : Running(q)' = {}
  BY Zenon, <1>1 DEF Running
<1>3. ASSUME NEW q \in Queues, MaxDumps[q] = 1, ~ambiguous'[q] PROVE Ordered(q)'
  <2>1. ~ambiguous[q] /\ ~TwoOldest(q)
    BY Zenon, <1>1, <1>3
  <2>2. Ordered(q)
    BY Zenon, <1>3, <2>1 DEF RingInv
  <2>3. next_artifact_'[q] = next_artifact_[q]
    BY Zenon, <1>1, <2>1, <2>2, OldestIsNext
  <2> QED
    BY Zenon, <1>1, <2>2, <2>3 DEF Ordered
<1>4. TimesOK'
  BY Zenon, <1>1 DEF RingInv, TimesOK
<1>5. \A q \in Queues : RunningIsLatest(q)'
  BY Zenon, <1>2 DEF RunningIsLatest
<1> QED
  BY Zenon, <1>3, <1>4, <1>5 DEF RingInv

LEMMA RingNext ==
  ASSUME Faults = {}, SlotInv, OutputInv, InterceptInv, FiledInv, RingInv, OneRunning,
         [Next]_vars
  PROVE  RingInv'
<1>1. /\ crash \in [Crashes -> CrashStates]
      /\ clock \in Nat /\ mtime \in [Crashes -> Nat] /\ \A d \in Crashes : mtime[d] <= clock
  BY Zenon DEF SlotInv, SlotTypeOK, RingInv, TimesOK
<1>2. ASSUME UNCHANGED <<artifact, next_artifact_, ambiguous, output, mtime>>,
             clock' \in Nat, clock <= clock',
             \A d \in Crashes : crash'[d] = "running" => crash[d] = "running"
      PROVE  RingInv'
  <2>1. \A d \in Crashes : mtime'[d] <= clock'
    BY <1>1, <1>2
  <2> QED
    BY Zenon, <1>1, <1>2, <2>1, RingFrame
<1>3. ASSUME NEW c \in Crashes, RequestFailed(c) PROVE RingInv'
  BY <1>1, <1>2, <1>3 DEF RequestFailed, fileVars, timeVars
<1>4. ASSUME NEW c \in Crashes, RequestQueued(c) PROVE RingInv'
  BY <1>1, <1>2, <1>4 DEF RequestQueued, RequestReceived, maybe_enqueue_crash, fileVars, timeVars
<1>5. ASSUME NEW c \in Crashes, RequestPerformed(c) PROVE RingInv'
  BY Zenon, <1>5, StepPerforms, RingPerformed
<1>6. CASE maybe_dequeue_crashes
  BY <1>1, <1>2, <1>6, LoopPerforms, RingPerformed DEF crashVars, fileVars, timeVars
<1>7. ASSUME NEW i \in Intercepts, ManageIntercept(i) PROVE RingInv'
  BY <1>1, <1>2, <1>7 DEF ManageIntercept, crashVars, fileVars, timeVars
<1>8. CASE Tick
  <2>1. clock' = clock + 1 /\ UNCHANGED <<crash, artifact, next_artifact_, ambiguous, output, mtime>>
    BY Zenon, <1>8 DEF Tick, crashVars, fileVars
  <2> QED
    BY <1>1, <1>2, <2>1
<1>9. CASE UNCHANGED vars
  BY <1>1, <1>2, <1>9 DEF vars, crashVars, fileVars, timeVars
<1> QED
  BY Zenon, <1>3, <1>4, <1>5, <1>6, <1>7, <1>8, <1>9, RingDumper, RingCompleted, RingRestart
     DEF Next, crash_request_cb

\* The step: only a completed dump changes a slot, and it is the one the ring
\* starts at.
LEMMA ReplacedIsOldest ==
  ASSUME FiledInv, RingInv, NEW q \in Queues, MaxDumps[q] = 1, ~ambiguous[q],
         NEW c \in Crashes, LinkArtifact(c), NEW i \in Slots(q), artifact[q][i] # NoFile,
         artifact'[q][i] # artifact[q][i], NEW j \in Slots(q), artifact[q][j] # NoFile
  PROVE  mtime[artifact[q][i]] <= mtime[artifact[q][j]]
<1>1. i = next_artifact_[q]
  BY LinkedSlots
<1>2. Ordered(q)
  BY Zenon DEF RingInv
<1>3. CASE i = j
  <2>1. artifact[q][i] \in Crashes
    BY Zenon, FiledParts, ArtifactIsCrash
  <2> QED
    BY <1>3, <2>1 DEF RingInv, TimesOK
<1>4. CASE i # j
  <2>1. i \in Nat /\ j \in Nat
    BY SlotsAre
  <2>2. Before(i, i, j)
    BY <1>4, <2>1 DEF Before
  <2> QED
    BY Zenon, <1>1, <1>2, <2>2 DEF Ordered
<1> QED
  BY Zenon, <1>3, <1>4

-------------------------------------------------------------------------------
(***************************************************************************)
(* The dump slots, and the theorems.                                       *)
(***************************************************************************)

INSTANCE FiniteSetTheorems

LEMMA RunningFinite ==
  ASSUME NEW q PROVE IsFiniteSet(Running(q)) /\ Cardinality(Running(q)) \in Nat
<1>1. Running(q) \in SUBSET Crashes
  BY Zenon DEF Running
<1> QED
  BY Zenon, <1>1, TombstonedAssumption, FS_Subset, FS_CardinalityType

\* Setting the state of one crash that is not running to "running" adds one to
\* its queue's count and changes no other.
LEMMA RunningAdd ==
  ASSUME SlotTypeOK, NEW c \in Crashes, crash[c] # "running",
         crash' = [crash EXCEPT ![c] = "running"]
  PROVE  \A q \in Queues : Cardinality(Running(q)') =
           IF q = for_crash(c) THEN Cardinality(Running(q)) + 1 ELSE Cardinality(Running(q))
<1> TAKE q \in Queues
<1>1. CASE q = for_crash(c)
  <2>1. Running(q)' = Running(q) \cup {c} /\ c \notin Running(q)
    BY Zenon, <1>1 DEF Running, SlotTypeOK
  <2> QED BY Zenon, <1>1, <2>1, RunningFinite, FS_AddElement
<1>2. CASE q # for_crash(c)
  <2>1. Running(q)' = Running(q)
    BY Zenon, <1>2 DEF Running, SlotTypeOK
  <2> QED BY Zenon, <1>2, <2>1
<1> QED BY Zenon, <1>1, <1>2

\* Taking a running crash out of that state removes one.
LEMMA RunningRemove ==
  ASSUME SlotTypeOK, NEW c \in Crashes, crash[c] = "running",
         crash' = [crash EXCEPT ![c] = "deleted"]
  PROVE  \A q \in Queues : Cardinality(Running(q)') =
           IF q = for_crash(c) THEN Cardinality(Running(q)) - 1 ELSE Cardinality(Running(q))
<1> TAKE q \in Queues
<1>1. CASE q = for_crash(c)
  <2>1. Running(q)' = Running(q) \ {c} /\ c \in Running(q)
    BY <1>1 DEF Running, SlotTypeOK
  <2> QED BY Zenon, <1>1, <2>1, RunningFinite, FS_RemoveElement
<1>2. CASE q # for_crash(c)
  <2>1. Running(q)' = Running(q)
    BY Zenon, <1>2 DEF Running, SlotTypeOK
  <2> QED BY Zenon, <1>2, <2>1
<1> QED BY Zenon, <1>1, <1>2

\* Any other change of one crash that is not running leaves the counts alone.
LEMMA RunningSame ==
  ASSUME SlotTypeOK, NEW c \in Crashes, crash[c] # "running",
         NEW s \in CrashStates \ {"running"}, crash' = [crash EXCEPT ![c] = s]
  PROVE  \A q \in Queues : Running(q)' = Running(q)
  BY Zenon DEF Running, SlotTypeOK

\* perform_request keeps the slots counted while its queue has one free.
LEMMA PerformCounts ==
  ASSUME SlotTypeOK, DumpsCounted, NEW c \in Crashes, perform_request(c),
         crash[c] # "running",
         num_concurrent_dumps_[for_crash(c)] # MaxDumps[for_crash(c)]
  PROVE  /\ DumpsCounted'
         /\ num_concurrent_dumps_' \in [Queues -> Nat]
         /\ crash' \in [Crashes -> CrashStates]
         /\ \A q \in Queues : q # for_crash(c) =>
              num_concurrent_dumps_'[q] = num_concurrent_dumps_[q]
<1>f. for_crash(c) \in Queues
  BY Zenon, ForCrashType
<1>m. MaxDumps \in [Queues -> Nat]
  BY Zenon, TombstonedAssumption
<1>1. CASE /\ crash' = [crash EXCEPT ![c] = "running"]
           /\ num_concurrent_dumps_' = [num_concurrent_dumps_ EXCEPT ![for_crash(c)] = @ + 1]
  <2>1. \A q \in Queues : Cardinality(Running(q)') =
           IF q = for_crash(c) THEN Cardinality(Running(q)) + 1 ELSE Cardinality(Running(q))
    BY Zenon, <1>1, RunningAdd
  <2>2. ASSUME NEW q \in Queues
        PROVE  /\ num_concurrent_dumps_'[q] = Cardinality(Running(q)')
               /\ num_concurrent_dumps_'[q] <= MaxDumps[q]
    <3>1. CASE q = for_crash(c)
      <4>1. /\ num_concurrent_dumps_'[q] = num_concurrent_dumps_[q] + 1
            /\ num_concurrent_dumps_[q] \in Nat
        BY Zenon, <1>1, <1>f, <3>1 DEF SlotTypeOK
      <4>2. Cardinality(Running(q)') = Cardinality(Running(q)) + 1
        BY Zenon, <2>1, <3>1
      <4>3. /\ num_concurrent_dumps_[q] = Cardinality(Running(q))
            /\ num_concurrent_dumps_[q] <= MaxDumps[q]
            /\ num_concurrent_dumps_[q] # MaxDumps[q]
            /\ MaxDumps[q] \in Nat
        BY Zenon, <1>m, <3>1 DEF DumpsCounted
      <4> QED BY <4>1, <4>2, <4>3
    <3>2. CASE q # for_crash(c)
      BY Zenon, <1>1, <1>m, <2>1, <3>2 DEF DumpsCounted, SlotTypeOK
    <3> QED BY Zenon, <3>1, <3>2
  <2>3. DumpsCounted'
    BY Zenon, <2>2 DEF DumpsCounted
  <2> QED BY <1>1, <1>f, <2>3 DEF SlotTypeOK, CrashStates
<1>2. CASE /\ crash' = [crash EXCEPT ![c] = "deleted"]
           /\ num_concurrent_dumps_' = [num_concurrent_dumps_ EXCEPT ![for_crash(c)] = @]
  <2>1. \A q \in Queues : Running(q)' = Running(q)
    BY Zenon, <1>2, RunningSame DEF CrashStates
  <2>2. num_concurrent_dumps_' = num_concurrent_dumps_
    BY Zenon, <1>2, <1>f DEF SlotTypeOK
  <2>3. DumpsCounted'
    BY Zenon, <2>1, <2>2 DEF DumpsCounted
  <2> QED BY Zenon, <1>2, <2>2, <2>3 DEF SlotTypeOK, CrashStates
<1> QED BY Zenon, <1>1, <1>2, PerformEffect

\* Initially nothing runs and nothing waits.
LEMMA SlotInit == Init => SlotInv
<1> SUFFICES ASSUME Init PROVE SlotInv
  BY Zenon
<1>1. SlotTypeOK /\ NewHasNoCrash
  BY DEF Init, SlotTypeOK, NewHasNoCrash, ClientStates, CrashStates
<1>2. \A q \in Queues : Running(q) = {}
  BY Zenon DEF Init, Running
<1>3. DumpsCounted
  <2>1. \A q \in Queues : Cardinality(Running(q)) = 0
    BY Zenon, <1>2, FS_EmptySet
  <2>2. \A q \in Queues : num_concurrent_dumps_[q] = 0 /\ MaxDumps[q] \in Nat
    BY Zenon, SlotsAre DEF Init
  <2> QED BY <2>1, <2>2 DEF DumpsCounted
<1>4. WaitsOnlyWhenFull /\ OwnedOnce
  BY DEF Init, WaitsOnlyWhenFull, OwnedOnce
<1> QED BY Zenon, <1>1, <1>3, <1>4 DEF SlotInv

\* A step that leaves the daemon's queues and crashes alone, such as a dumper's,
\* an interceptor's or the clock's.
LEMMA SlotFrame ==
  ASSUME SlotInv, UNCHANGED <<crash, queueVars>>,
         client' \in [Crashes -> ClientStates],
         \A c \in Crashes : client'[c] = "new" => client[c] = "new"
  PROVE  SlotInv'
<1> USE DEF SlotInv, queueVars
<1>1. SlotTypeOK' /\ NewHasNoCrash'
  BY Zenon DEF SlotTypeOK, NewHasNoCrash
<1>2. \A q \in Queues : Running(q)' = Running(q)
  BY Zenon DEF Running
<1>3. DumpsCounted'
  BY Zenon, <1>2 DEF DumpsCounted
<1>4. WaitsOnlyWhenFull' /\ OwnedOnce'
  BY DEF WaitsOnlyWhenFull, OwnedOnce
<1> QED BY Zenon, <1>1, <1>3, <1>4

\* A step that moves one crash between states that are neither "queued" nor
\* "running", and leaves the queues alone.
LEMMA SlotOneCrash ==
  ASSUME SlotInv, NEW c \in Crashes, crash[c] \notin {"queued", "running"},
         NEW s \in CrashStates \ {"queued", "running"},
         crash' = [crash EXCEPT ![c] = s], UNCHANGED queueVars,
         SlotTypeOK', NewHasNoCrash'
  PROVE  SlotInv'
<1> USE DEF SlotInv, queueVars
<1>1. \A q \in Queues : Running(q)' = Running(q)
  BY Zenon, RunningSame
<1>2. DumpsCounted'
  BY Zenon, <1>1 DEF DumpsCounted
<1>3. WaitsOnlyWhenFull'
  BY Zenon DEF WaitsOnlyWhenFull
<1>4. OwnedOnce'
  <2>1. \A d \in Crashes : crash'[d] = "queued" <=> crash[d] = "queued"
    BY Zenon DEF SlotTypeOK
  <2>2. \A q \in Queues : \A k \in DOMAIN queued_requests_[q] : queued_requests_[q][k] \in Crashes
    BY DEF SlotTypeOK
  <2> QED BY <2>1, <2>2 DEF OwnedOnce, for_crash
<1> QED BY Zenon, <1>2, <1>3, <1>4

\* A request that finds every slot taken joins its queue.
LEMMA SlotQueued ==
  ASSUME SlotInv, NEW c \in Crashes, RequestQueued(c)
  PROVE  SlotInv'
<1> USE DEF SlotInv
<1> DEFINE q == for_crash(c)
           s == queued_requests_[q]
<1>1. /\ crash[c] = "accepted" /\ draining = NoQueue
      /\ num_concurrent_dumps_[q] = MaxDumps[q]
      /\ queued_requests_' = [queued_requests_ EXCEPT ![q] = Append(s, c)]
      /\ crash' = [crash EXCEPT ![c] = "queued"]
      /\ UNCHANGED <<client, num_concurrent_dumps_, draining>>
  BY Zenon DEF RequestQueued, RequestReceived, maybe_enqueue_crash
<1>2. q \in Queues /\ s \in Seq(Crashes)
  BY Zenon, ForCrashType DEF SlotTypeOK
<1>3. /\ Append(s, c) \in Seq(Crashes)
      /\ DOMAIN Append(s, c) = 1 .. Len(s) + 1
      /\ \A k \in 1 .. Len(s) : Append(s, c)[k] = s[k]
      /\ Append(s, c)[Len(s) + 1] = c
      /\ DOMAIN s = 1 .. Len(s) /\ Len(s) \in Nat
  BY <1>2
<1>a. \A k : k \in 1 .. Len(s) + 1 <=> k \in 1 .. Len(s) \/ k = Len(s) + 1
  BY <1>3
<1>4. SlotTypeOK' /\ NewHasNoCrash'
  BY Zenon, <1>1, <1>2, <1>3 DEF SlotTypeOK, NewHasNoCrash, CrashStates
<1>5. \A r \in Queues : Running(r)' = Running(r)
  BY Zenon, <1>1, RunningSame DEF CrashStates
<1>6. DumpsCounted'
  BY Zenon, <1>1, <1>5 DEF DumpsCounted
<1>7. WaitsOnlyWhenFull'
  BY Zenon, <1>1, <1>2 DEF WaitsOnlyWhenFull, SlotTypeOK
<1>8. \A r \in Queues : r # q => queued_requests_'[r] = queued_requests_[r]
  BY Zenon, <1>1 DEF SlotTypeOK
<1>9. queued_requests_'[q] = Append(s, c)
  BY Zenon, <1>1, <1>2 DEF SlotTypeOK
<1>10. \A d \in Crashes : crash'[d] = "queued" <=> d = c \/ crash[d] = "queued"
  BY Zenon, <1>1 DEF SlotTypeOK
<1>11. \A r \in Queues : \A k \in DOMAIN queued_requests_[r] :
         queued_requests_[r][k] \in Crashes /\ queued_requests_[r][k] # c
  BY <1>1 DEF OwnedOnce, SlotTypeOK
<1>12. OwnedOnce'
  <2>1. ASSUME NEW r \in Queues, NEW k \in DOMAIN queued_requests_'[r]
        PROVE  LET d == queued_requests_'[r][k] IN
               /\ crash'[d] = "queued"
               /\ for_crash(d) = r
               /\ \A j \in DOMAIN queued_requests_'[r] : queued_requests_'[r][j] = d => j = k
    <3>1. CASE r # q
      BY <1>8, <1>10, <1>11, <2>1, <3>1 DEF OwnedOnce
    <3>2. CASE r = q /\ k = Len(s) + 1
      <4>1. queued_requests_'[r][k] = c
        BY Zenon, <1>3, <1>9, <3>2
      <4>2. ASSUME NEW j \in DOMAIN queued_requests_'[r], j # k
            PROVE  queued_requests_'[r][j] # c
        <5>1. j \in 1 .. Len(s)
          BY Zenon, <1>3, <1>a, <1>9, <3>2, <4>2
        <5> QED BY Zenon, <1>2, <1>3, <1>9, <1>11, <3>2, <5>1
      <4> QED BY Zenon, <1>10, <3>2, <4>1, <4>2
    <3>3. CASE r = q /\ k # Len(s) + 1
      <4>1. k \in DOMAIN s /\ queued_requests_'[r][k] = s[k]
        BY Zenon, <1>3, <1>a, <1>9, <2>1, <3>3
      <4>2. /\ s[k] \in Crashes /\ s[k] # c /\ crash[s[k]] = "queued" /\ for_crash(s[k]) = q
            /\ \A j \in DOMAIN s : s[j] = s[k] => j = k
        BY <1>2, <1>11, <4>1 DEF OwnedOnce
      <4>3. ASSUME NEW j \in DOMAIN queued_requests_'[r], queued_requests_'[r][j] = s[k]
            PROVE  j = k
        <5>1. j # Len(s) + 1
          BY Zenon, <1>3, <1>9, <3>3, <4>2, <4>3
        <5>2. j \in DOMAIN s /\ queued_requests_'[r][j] = s[j]
          BY <1>3, <1>9, <3>3, <4>3, <5>1
        <5> QED BY Zenon, <4>2, <4>3, <5>2
      <4> QED BY Zenon, <1>10, <3>3, <4>1, <4>2, <4>3
    <3> QED BY Zenon, <3>1, <3>2, <3>3
  <2>2. ASSUME NEW d \in Crashes, crash'[d] = "queued"
        PROVE  \E k \in DOMAIN queued_requests_'[for_crash(d)] :
                 queued_requests_'[for_crash(d)][k] = d
    <3>1. CASE d = c
      <4>1. Len(s) + 1 \in 1 .. Len(s) + 1
        BY <1>3
      <4>2. /\ Len(s) + 1 \in DOMAIN queued_requests_'[for_crash(d)]
            /\ queued_requests_'[for_crash(d)][Len(s) + 1] = d
        BY Zenon, <1>3, <1>9, <3>1, <4>1
      <4> QED BY Zenon, <4>2
    <3>2. CASE d # c
      <4>q. crash[d] = "queued"
        BY Zenon, <1>10, <2>2, <3>2
      <4>1. PICK k \in DOMAIN queued_requests_[for_crash(d)] :
              queued_requests_[for_crash(d)][k] = d
        BY <4>q, Zenon DEF OwnedOnce
      <4>2. CASE for_crash(d) = q
        BY Zenon, <1>3, <1>a, <1>9, <4>1, <4>2
      <4>3. CASE for_crash(d) # q
        BY Zenon, <1>8, <4>1, <4>3, ForCrashType
      <4> QED BY Zenon, <4>2, <4>3
    <3> QED BY Zenon, <3>1, <3>2
  <2> QED BY Zenon, <2>1, <2>2 DEF OwnedOnce, for_crash
<1> QED BY Zenon, <1>4, <1>6, <1>7, <1>12

\* A step that changes one crash that is not queued, to a state other than
\* "queued", and no queue, keeps ownership.
LEMMA OwnedKept ==
  ASSUME SlotInv, NEW c \in Crashes, crash[c] # "queued",
         NEW s \in CrashStates \ {"queued"}, crash' = [crash EXCEPT ![c] = s],
         UNCHANGED queued_requests_
  PROVE  OwnedOnce'
<1>1. \A d \in Crashes : crash'[d] = "queued" <=> crash[d] = "queued"
  BY Zenon DEF SlotInv, SlotTypeOK
<1>2. \A q \in Queues : \A k \in DOMAIN queued_requests_[q] : queued_requests_[q][k] \in Crashes
  BY Zenon, QueuedElements
<1> QED BY <1>1, <1>2 DEF SlotInv, OwnedOnce, for_crash

\* A request that finds a slot free: nothing of its queue was waiting.
LEMMA SlotPerformed ==
  ASSUME SlotInv, NEW c \in Crashes, RequestPerformed(c)
  PROVE  SlotInv'
<1> USE DEF SlotInv
<1> DEFINE q == for_crash(c)
<1>1. /\ crash[c] = "accepted" /\ draining = NoQueue
      /\ num_concurrent_dumps_[q] # MaxDumps[q]
      /\ perform_request(c)
      /\ UNCHANGED <<client, queued_requests_, draining>>
  BY Zenon DEF RequestPerformed, RequestReceived
<1>2. /\ DumpsCounted'
      /\ num_concurrent_dumps_' \in [Queues -> Nat]
      /\ crash' \in [Crashes -> CrashStates]
      /\ \A r \in Queues : r # q => num_concurrent_dumps_'[r] = num_concurrent_dumps_[r]
  BY Zenon, <1>1, PerformCounts
<1>3. PICK s \in {"running", "deleted"} : crash' = [crash EXCEPT ![c] = s]
  BY Zenon, <1>1, PerformEffect
<1>4. SlotTypeOK' /\ NewHasNoCrash'
  BY Zenon, <1>1, <1>2, <1>3 DEF SlotTypeOK, NewHasNoCrash
<1>5. queued_requests_[q] = <<>>
  BY Zenon, <1>1, ForCrashType, SlotsAre DEF WaitsOnlyWhenFull
<1>6. WaitsOnlyWhenFull'
  BY Zenon, <1>1, <1>2, <1>5 DEF WaitsOnlyWhenFull
<1>7. OwnedOnce'
  BY Zenon, <1>1, <1>3, OwnedKept DEF CrashStates
<1> QED BY Zenon, <1>2, <1>4, <1>6, <1>7

\* A dump ends: its slot is free until the loop that follows hands it on.
LEMMA SlotCompleted ==
  ASSUME SlotInv, NEW c \in Crashes, crash_completed_cb(c)
  PROVE  SlotInv'
<1> USE DEF SlotInv
<1> DEFINE q == for_crash(c)
<1>1. /\ crash[c] = "running" /\ draining = NoQueue /\ draining' = q
      /\ num_concurrent_dumps_' = [num_concurrent_dumps_ EXCEPT ![q] = @ - 1]
      /\ crash' = [crash EXCEPT ![c] = "deleted"]
      /\ UNCHANGED <<client, queued_requests_>>
  BY Zenon DEF crash_completed_cb
<1>2. q \in Queues
  BY Zenon, ForCrashType
<1>3. \A r \in Queues : Cardinality(Running(r)') =
        IF r = q THEN Cardinality(Running(r)) - 1 ELSE Cardinality(Running(r))
  BY Zenon, <1>1, RunningRemove
<1>4. num_concurrent_dumps_[q] \in Nat \ {0}
  <2>1. c \in Running(q)
    BY Zenon, <1>1 DEF Running
  <2>2. Cardinality(Running(q)) # 0 /\ Cardinality(Running(q)) \in Nat
    BY Zenon, <2>1, RunningFinite, FS_EmptySet
  <2> QED BY Zenon, <1>2, <2>2 DEF DumpsCounted
<1>5. ASSUME NEW r \in Queues
      PROVE  /\ num_concurrent_dumps_'[r] \in Nat
             /\ num_concurrent_dumps_'[r] = Cardinality(Running(r)')
             /\ num_concurrent_dumps_'[r] <= MaxDumps[r]
             /\ r # q => num_concurrent_dumps_'[r] = num_concurrent_dumps_[r]
  <2>m. MaxDumps[r] \in Nat
    BY Zenon, SlotsAre
  <2>1. CASE r = q
    <3>1. num_concurrent_dumps_'[r] = num_concurrent_dumps_[r] - 1
      BY Zenon, <1>1, <1>2, <2>1 DEF SlotTypeOK
    <3>2. /\ num_concurrent_dumps_[r] = Cardinality(Running(r))
          /\ num_concurrent_dumps_[r] <= MaxDumps[r]
      BY Zenon DEF DumpsCounted
    <3> QED BY <1>3, <1>4, <2>m, <2>1, <3>1, <3>2
  <2>2. CASE r # q
    <3>1. num_concurrent_dumps_'[r] = num_concurrent_dumps_[r]
      BY Zenon, <1>1, <2>2 DEF SlotTypeOK
    <3> QED BY Zenon, <1>3, <2>2, <3>1 DEF DumpsCounted, SlotTypeOK
  <2> QED BY Zenon, <2>1, <2>2
<1>6. DumpsCounted'
  BY Zenon, <1>5 DEF DumpsCounted
<1>7. SlotTypeOK' /\ NewHasNoCrash'
  <2>1. DOMAIN num_concurrent_dumps_' = Queues
    BY Zenon, <1>1 DEF SlotTypeOK
  <2>2. num_concurrent_dumps_' \in [Queues -> Nat]
    BY Zenon, <1>1, <1>5, <2>1 DEF SlotTypeOK
  <2> QED BY Zenon, <1>1, <1>2, <2>2 DEF SlotTypeOK, NewHasNoCrash, CrashStates
<1>8. WaitsOnlyWhenFull'
  BY Zenon, <1>1, <1>5, SlotsAre DEF WaitsOnlyWhenFull
<1>9. OwnedOnce'
  BY Zenon, <1>1, OwnedKept DEF CrashStates
<1> QED BY Zenon, <1>6, <1>7, <1>8, <1>9

\* An iteration of the loop takes the head of the queue, which held no slot, and
\* the end of the loop leaves the queue empty or full.
LEMMA SlotDequeue ==
  ASSUME SlotInv, maybe_dequeue_crashes
  PROVE  SlotInv'
<1> USE DEF SlotInv
<1> DEFINE q == draining
           s == queued_requests_[q]
           c == Head(s)
<1>q. q \in Queues
  BY Zenon DEF maybe_dequeue_crashes, SlotTypeOK
<1>m. MaxDumps \in [Queues -> Nat]
  BY Zenon, TombstonedAssumption
<1>1. CASE /\ s = <<>> \/ num_concurrent_dumps_[q] >= MaxDumps[q]
           /\ draining' = NoQueue
           /\ UNCHANGED <<crashVars, queued_requests_, num_concurrent_dumps_>>
  <2>1. SlotTypeOK' /\ NewHasNoCrash' /\ OwnedOnce'
    BY <1>1 DEF SlotTypeOK, NewHasNoCrash, OwnedOnce, crashVars
  <2>2. \A r \in Queues : Running(r)' = Running(r)
    BY Zenon, <1>1 DEF Running, crashVars
  <2>3. DumpsCounted'
    BY Zenon, <1>1, <2>2 DEF DumpsCounted
  <2>4. s # <<>> => num_concurrent_dumps_[q] = MaxDumps[q]
    <3>1. /\ num_concurrent_dumps_[q] \in Nat /\ MaxDumps[q] \in Nat
          /\ num_concurrent_dumps_[q] <= MaxDumps[q]
      BY Zenon, <1>q, <1>m DEF SlotTypeOK, DumpsCounted
    <3> QED BY <1>1, <3>1
  <2>5. WaitsOnlyWhenFull'
    BY Zenon, <1>1, <2>4 DEF WaitsOnlyWhenFull
  <2> QED BY Zenon, <2>1, <2>3, <2>5
<1>2. CASE /\ s # <<>>
           /\ num_concurrent_dumps_[q] < MaxDumps[q]
           /\ queued_requests_' = [queued_requests_ EXCEPT ![q] = Tail(s)]
           /\ perform_request(c)
           /\ UNCHANGED <<client, draining>>
  <2>0. s \in Seq(Crashes)
    BY Zenon, <1>q DEF SlotTypeOK
  <2>1. /\ s \in Seq(Crashes) /\ DOMAIN s = 1 .. Len(s) /\ Len(s) \in Nat \ {0}
        /\ c = s[1] /\ 1 \in DOMAIN s
    BY <1>2, <2>0
  <2>2. /\ Tail(s) \in Seq(Crashes)
        /\ DOMAIN Tail(s) = 1 .. Len(s) - 1
        /\ \A k \in 1 .. Len(s) - 1 : Tail(s)[k] = s[k + 1]
    BY <1>2, <2>1
  <2>3. c \in Crashes /\ crash[c] = "queued" /\ for_crash(c) = q
    BY <1>q, <2>1, QueuedElements
  <2>4. /\ DumpsCounted'
        /\ num_concurrent_dumps_' \in [Queues -> Nat]
        /\ crash' \in [Crashes -> CrashStates]
        /\ \A r \in Queues : r # q => num_concurrent_dumps_'[r] = num_concurrent_dumps_[r]
    <3>1. num_concurrent_dumps_[q] # MaxDumps[q]
      BY <1>q, <1>m, <1>2 DEF SlotTypeOK
    <3> QED BY Zenon, <1>2, <2>3, <3>1, PerformCounts
  <2>5. PICK t \in {"running", "deleted"} : crash' = [crash EXCEPT ![c] = t]
    BY Zenon, <1>2, <2>3, PerformEffect
  <2>6. /\ queued_requests_'[q] = Tail(s)
        /\ \A r \in Queues : r # q => queued_requests_'[r] = queued_requests_[r]
        /\ queued_requests_' \in [Queues -> Seq(Crashes)]
    BY Zenon, <1>q, <1>2, <2>2 DEF SlotTypeOK
  <2>7. SlotTypeOK' /\ NewHasNoCrash'
    <3>1. SlotTypeOK'
      BY Zenon, <1>2, <2>4, <2>6 DEF SlotTypeOK
    <3>2. NewHasNoCrash'
      BY Zenon, <1>2, <2>3, <2>5 DEF NewHasNoCrash, SlotTypeOK
    <3> QED BY Zenon, <3>1, <3>2
  <2>8. WaitsOnlyWhenFull'
    BY Zenon, <1>2, <2>4, <2>6 DEF WaitsOnlyWhenFull
  <2>9. \A d \in Crashes : crash'[d] = "queued" <=> d # c /\ crash[d] = "queued"
    BY Zenon, <2>3, <2>5 DEF SlotTypeOK
  <2>10. ASSUME NEW r \in Queues, NEW k \in DOMAIN queued_requests_'[r]
         PROVE  LET d == queued_requests_'[r][k] IN
                /\ crash'[d] = "queued"
                /\ for_crash(d) = r
                /\ \A j \in DOMAIN queued_requests_'[r] : queued_requests_'[r][j] = d => j = k
    <3>1. CASE r # q
      <4>1. k \in DOMAIN queued_requests_[r] /\ queued_requests_'[r] = queued_requests_[r]
        BY Zenon, <2>6, <2>10, <3>1
      <4>2. queued_requests_[r][k] # c
        BY Zenon, <2>3, <3>1, <4>1, QueuedElements
      <4> QED BY Zenon, <2>9, <4>1, <4>2, QueuedElements
    <3>2. CASE r = q
      <4>1. /\ k \in 1 .. Len(s) - 1 /\ k + 1 \in DOMAIN s /\ k + 1 # 1
            /\ queued_requests_'[r][k] = s[k + 1]
        BY <2>1, <2>2, <2>6, <2>10, <3>2
      <4>2. /\ s[k + 1] \in Crashes /\ crash[s[k + 1]] = "queued" /\ for_crash(s[k + 1]) = q
            /\ \A j \in DOMAIN s : s[j] = s[k + 1] => j = k + 1
        BY Zenon, <1>q, <4>1, QueuedElements
      <4>3. s[k + 1] # c
        BY Zenon, <2>1, <4>1, <4>2
      <4>4. ASSUME NEW j \in DOMAIN queued_requests_'[r], queued_requests_'[r][j] = s[k + 1]
            PROVE  j = k
        <5>1. j \in 1 .. Len(s) - 1 /\ j + 1 \in DOMAIN s /\ s[j + 1] = s[k + 1]
          BY <2>1, <2>2, <2>6, <3>2, <4>4
        <5>2. j + 1 = k + 1
          BY Zenon, <4>2, <5>1
        <5> QED BY <2>1, <4>1, <5>1, <5>2
      <4> QED BY Zenon, <2>9, <3>2, <4>1, <4>2, <4>3, <4>4
    <3> QED BY Zenon, <3>1, <3>2
  <2>11. ASSUME NEW d \in Crashes, crash'[d] = "queued"
         PROVE  \E k \in DOMAIN queued_requests_'[for_crash(d)] :
                  queued_requests_'[for_crash(d)][k] = d
    <3>1. d # c /\ crash[d] = "queued"
      BY Zenon, <2>9, <2>11
    <3>2. PICK k \in DOMAIN queued_requests_[for_crash(d)] :
            queued_requests_[for_crash(d)][k] = d
      BY <3>1, Zenon DEF OwnedOnce
    <3>3. CASE for_crash(d) # q
      BY Zenon, <2>6, <3>2, <3>3, ForCrashType
    <3>4. CASE for_crash(d) = q
      <4>1. k \in 1 .. Len(s) /\ k # 1
        BY Zenon, <2>1, <3>1, <3>2, <3>4
      <4>2. k - 1 \in 1 .. Len(s) - 1 /\ (k - 1) + 1 = k
        BY <2>1, <4>1
      <4>3. k - 1 \in DOMAIN Tail(s) /\ Tail(s)[k - 1] = d
        BY Zenon, <2>2, <3>2, <3>4, <4>2
      <4> QED BY Zenon, <2>6, <3>4, <4>3
    <3> QED BY Zenon, <3>3, <3>4
  <2>12. OwnedOnce'
    BY Zenon, <2>10, <2>11 DEF OwnedOnce, for_crash
  <2> QED BY Zenon, <2>4, <2>7, <2>8, <2>12
<1> QED BY Zenon, <1>1, <1>2 DEF maybe_dequeue_crashes

\* After a restart nothing runs and nothing waits.
LEMMA SlotRestart ==
  ASSUME SlotInv, Restart
  PROVE  SlotInv'
<1> USE DEF SlotInv
<1>1. SlotTypeOK' /\ NewHasNoCrash'
  BY DEF Restart, SlotTypeOK, NewHasNoCrash, CrashStates
<1>2. \A q \in Queues : Running(q)' = {}
  BY ZenonT(30) DEF Restart, Running
<1>3. DumpsCounted'
  <2>1. \A q \in Queues : Cardinality(Running(q)') = 0
    BY Zenon, <1>2, FS_EmptySet
  <2>2. \A q \in Queues : num_concurrent_dumps_'[q] = 0 /\ MaxDumps[q] \in Nat
    BY Zenon, SlotsAre DEF Restart
  <2> QED BY <2>1, <2>2 DEF DumpsCounted
<1>4. WaitsOnlyWhenFull' /\ OwnedOnce'
  BY DEF Restart, WaitsOnlyWhenFull, OwnedOnce
<1> QED BY Zenon, <1>1, <1>3, <1>4

\* Every step of Tombstoned preserves the invariant.
LEMMA SlotNext == SlotInv /\ [Next]_vars => SlotInv'
<1> SUFFICES ASSUME SlotInv, [Next]_vars PROVE SlotInv'
  OBVIOUS
<1>1. ASSUME NEW c \in Crashes, Connect(c) PROVE SlotInv'
  <2>1. crash[c] = "none" /\ crash' = [crash EXCEPT ![c] = "accepted"] /\ UNCHANGED queueVars
    BY <1>1 DEF Connect, SlotInv, NewHasNoCrash
  <2>2. SlotTypeOK' /\ NewHasNoCrash'
    BY <1>1 DEF Connect, SlotInv, SlotTypeOK, NewHasNoCrash, queueVars, CrashStates, ClientStates
  <2> QED BY Zenon, <2>1, <2>2, SlotOneCrash DEF CrashStates
<1>2. ASSUME NEW c \in Crashes, Request(c) \/ ReceiveOutput(c) \/ Notify(c) \/ Die(c)
      PROVE  SlotInv'
  <2>1. /\ UNCHANGED <<crash, queueVars>>
        /\ \E s \in ClientStates \ {"new"} : client' = [client EXCEPT ![c] = s]
    BY Zenon, <1>2 DEF Request, ReceiveOutput, Notify, Die, ClientStates
  <2>2. /\ client' \in [Crashes -> ClientStates]
        /\ \A d \in Crashes : client'[d] = "new" => client[d] = "new"
    BY Zenon, <2>1 DEF SlotInv, SlotTypeOK
  <2> QED BY Zenon, <2>1, <2>2, SlotFrame
<1>3. ASSUME NEW c \in Crashes, RequestFailed(c) PROVE SlotInv'
  <2>1. SlotTypeOK' /\ NewHasNoCrash'
    BY Zenon, <1>3 DEF RequestFailed, SlotInv, SlotTypeOK, NewHasNoCrash, queueVars, CrashStates
  <2> QED BY Zenon, <1>3, <2>1, SlotOneCrash DEF RequestFailed, CrashStates
<1>4. ASSUME \/ \E i \in Intercepts : ManageIntercept(i)
             \/ Tick
             \/ UNCHANGED vars
      PROVE  SlotInv'
  <2>1. UNCHANGED <<crash, queueVars, client>>
    BY Zenon, <1>4 DEF ManageIntercept, Tick, vars, crashVars, queueVars
  <2> QED BY Zenon, <2>1, SlotFrame DEF SlotInv, SlotTypeOK
<1> QED
  BY Zenon, <1>1, <1>2, <1>3, <1>4, SlotQueued, SlotPerformed, SlotCompleted, SlotDequeue, SlotRestart
  DEF Next, Dumper, crash_request_cb

\* The only dump of a queue with one slot is the one that holds it.
LEMMA OnlyRunning ==
  ASSUME SlotInv PROVE OneRunning
<1> SUFFICES ASSUME NEW q \in Queues, MaxDumps[q] = 1, NEW c \in Running(q), NEW d \in Running(q)
             PROVE  c = d
  BY Zenon DEF OneRunning
<1>1. IsFiniteSet(Running(q)) /\ Cardinality(Running(q)) \in Nat /\ Cardinality(Running(q)) <= 1
  BY Zenon, RunningFinite DEF SlotInv, DumpsCounted
<1>2. Cardinality(Running(q) \ {c}) = Cardinality(Running(q)) - 1 /\ IsFiniteSet(Running(q) \ {c})
  BY Zenon, <1>1, FS_RemoveElement
<1>3. Cardinality(Running(q) \ {c}) = 0
  BY <1>1, <1>2, FS_CardinalityType
<1>4. Running(q) \ {c} = {}
  BY Zenon, <1>2, <1>3, FS_EmptySet
<1> QED
  BY Zenon, <1>4

-------------------------------------------------------------------------------
(* Theorems.                                                                   *)

\* The dump slots of every queue are counted exactly and never exceeded: the
\* pairing of on_crash_started and on_crash_completed for any number of crashes.
THEOREM DumpsCountedHolds == Spec => []DumpsCounted
<1>1. SlotInv => DumpsCounted
  BY Zenon DEF SlotInv
<1> QED BY <1>1, SlotInit, SlotNext, PTL DEF Spec

\* No request waits in maybe_enqueue_crash's queue while a slot is free.
THEOREM WaitsOnlyWhenFullHolds == Spec => []WaitsOnlyWhenFull
<1>1. SlotInv => WaitsOnlyWhenFull
  BY Zenon DEF SlotInv
<1> QED BY <1>1, SlotInit, SlotNext, PTL DEF Spec

\* Every struct Crash has exactly one owner, its event or its queue.
THEOREM OwnedOnceHolds == Spec => []OwnedOnce
<1>1. SlotInv => OwnedOnce
  BY Zenon DEF SlotInv
<1> QED BY <1>1, SlotInit, SlotNext, PTL DEF Spec

\* A request is never served ahead of one that waits: crash_request_cb finds the
\* queue empty, maybe_dequeue_crashes takes its head.
THEOREM NoOvertakingHolds == Spec => NoOvertaking
<1> DEFINE A == \A c \in Crashes : crash[c] # "running" /\ crash'[c] = "running" =>
                  queued_requests_[for_crash(c)] = <<>> \/ Head(queued_requests_[for_crash(c)]) = c
<1>1. ASSUME SlotInv, [Next]_vars PROVE A
  <2> SUFFICES ASSUME NEW d \in Crashes, crash[d] # "running", crash'[d] = "running"
               PROVE  \/ queued_requests_[for_crash(d)] = <<>>
                      \/ Head(queued_requests_[for_crash(d)]) = d
    BY Zenon
  <2>1. crash \in [Crashes -> CrashStates]
    BY Zenon, <1>1 DEF SlotInv, SlotTypeOK
  <2>2. ASSUME NEW c \in Crashes, Performs(c) PROVE c = d
    BY Zenon, <2>1, <2>2, PerformEffect DEF Performs
  <2>3. ASSUME NEW c \in Crashes, RequestPerformed(c)
        PROVE  queued_requests_[for_crash(d)] = <<>>
    <3>1. Performs(c) /\ draining = NoQueue
      BY Zenon, <1>1, <2>3, StepPerforms
    <3>2. c = d /\ num_concurrent_dumps_[for_crash(c)] # MaxDumps[for_crash(c)]
      BY Zenon, <2>2, <3>1 DEF Performs
    <3> QED
      BY Zenon, <1>1, <3>1, <3>2, ForCrashType, SlotsAre DEF SlotInv, WaitsOnlyWhenFull
  <2>4. CASE maybe_dequeue_crashes
    <3>1. ~UNCHANGED crash
      BY Zenon, <2>1
    <3> QED
      BY Zenon, <1>1, <2>2, <2>4, <3>1, LoopPerforms DEF crashVars
  <2>5. \A c \in Crashes : ~(\/ Dumper(c) \/ RequestFailed(c) \/ RequestQueued(c)
                             \/ crash_completed_cb(c))
    BY Zenon, <2>1 DEF Dumper, Connect, Request, ReceiveOutput, Notify, Die, RequestFailed, RequestQueued,
       maybe_enqueue_crash, crash_completed_cb
  <2>6. ~\E i \in Intercepts : ManageIntercept(i)
    BY Zenon DEF ManageIntercept, crashVars
  <2>7. ~(Restart \/ Tick \/ UNCHANGED vars)
    BY Zenon DEF Restart, Tick, vars, crashVars
  <2> QED
    BY Zenon, <1>1, <2>3, <2>4, <2>5, <2>6, <2>7 DEF Next, crash_request_cb
<1>2. Spec => []SlotInv
  BY SlotInit, SlotNext, PTL DEF Spec
<1>3. Spec => [][A]_vars
  BY <1>1, <1>2, PTL DEF Spec
<1> QED
  BY Zenon, <1>3 DEF NoOvertaking

LEMMA OutputsHold == Spec => [](SlotInv /\ OutputInv /\ InterceptInv)
<1>1. Init => SlotInv /\ OutputInv /\ InterceptInv
  BY Zenon, SlotInit, OutputInit, InterceptInvInit
<1>2. SlotInv /\ OutputInv /\ InterceptInv /\ [Next]_vars => (SlotInv /\ OutputInv /\ InterceptInv)'
  <2> SUFFICES ASSUME SlotInv, OutputInv, InterceptInv, [Next]_vars
               PROVE  (SlotInv /\ OutputInv /\ InterceptInv)'
    BY Zenon
  <2>1. InterceptTypeOK
    BY Zenon DEF InterceptInv
  <2>2. SlotInv'
    BY Zenon, SlotNext
  <2> QED
    BY Zenon, <2>1, <2>2, OutputNext, InterceptNext
<1> QED
  BY <1>1, <1>2, PTL DEF Spec

\* Neither LOG(FATAL) of intercept_close_cb can fire, whoever closes, times out,
\* registers or crashes in what order.
THEOREM CloseFindsInterceptHolds == Spec => []CloseFindsIntercept
<1>1. InterceptInv => CloseFindsIntercept
  BY Zenon DEF InterceptInv
<1> QED
  BY <1>1, OutputsHold, PTL

\* An interceptor is told that its dump started iff its descriptor went to one
\* crash, of the pid and type it asked for.
THEOREM InterceptDeliveredHolds == Spec => []InterceptDelivered
<1>1. InterceptInv => InterceptDelivered
  BY Zenon DEF InterceptInv
<1> QED
  BY <1>1, OutputsHold, PTL

LEMMA FiledHolds ==
  ASSUME FreshOutputs PROVE Spec => []FiledInv
<1>1. SlotInv /\ OutputInv /\ InterceptInv /\ FiledInv /\ [Next]_vars => FiledInv'
  BY Zenon, FiledNext
<1> QED
  BY <1>1, FiledInit, OutputsHold, PTL DEF Spec

\* Where no dumper is given the file of an earlier run (with O_TMPFILE, or as
\* long as the daemon does not restart), every artifact is the whole dump of
\* exactly one crash, and is filed once.
THEOREM ArtifactsWholeHolds ==
  ASSUME FreshOutputs PROVE Spec => []ArtifactsWhole
<1>1. OutputInv /\ FiledInv => ArtifactsWhole
  <2> SUFFICES ASSUME OutputInv, FiledInv, NEW q \in Queues, NEW i \in Slots(q),
                      artifact[q][i] # NoFile
               PROVE  LET f == artifact[q][i] IN
                      /\ \E c \in Crashes : /\ {d \in Crashes : output[d] = f} = {c}
                                            /\ client[c] = "done"
                                            /\ crash[c] = "deleted"
                                            /\ for_crash(c) = q
                      /\ \A j \in Slots(q) : artifact[q][j] = f => j = i
    BY Zenon DEF ArtifactsWhole
  <2> DEFINE f == artifact[q][i]
  <2>1. /\ f \in Crashes
        /\ output[f] = f /\ client[f] = "done" /\ crash[f] = "deleted" /\ for_crash(f) = q
        /\ \A j \in Slots(q) : artifact[q][j] = f => j = i
    BY Zenon, FiledParts, ArtifactIsCrash DEF FiledOnce
  <2>2. {d \in Crashes : output[d] = f} = {f}
    <3>1. \A d \in Crashes : output[d] = f <=> d = f
      BY Zenon, <2>1, FiledParts DEF OwnOutputs
    <3> QED
      BY Zenon, <2>1, <3>1
  <2> QED
    BY Zenon, <2>1, <2>2
<1> QED
  BY <1>1, OutputsHold, FiledHolds, PTL

\* Where dumps are filed under their own files and the two system calls that
\* file them succeed, a queue that dumps one process at a time replaces its
\* oldest artifact, for every number of artifacts and restarts, as long as no
\* restart found several that were the oldest.
THEOREM OverwritesOldestHolds ==
  ASSUME FreshOutputs, Faults = {} PROVE Spec => OverwritesOldest
<1> DEFINE Step == \A q \in Queues : MaxDumps[q] = 1 /\ ~ambiguous[q] =>
                     \A i \in Slots(q) :
                       artifact[q][i] # NoFile /\ artifact'[q][i] # artifact[q][i] =>
                         \A j \in Slots(q) : artifact[q][j] # NoFile =>
                           mtime[artifact[q][i]] <= mtime[artifact[q][j]]
<1>1. SlotInv /\ OutputInv /\ InterceptInv /\ FiledInv /\ RingInv /\ [Next]_vars => RingInv'
  BY Zenon, OnlyRunning, RingNext
<1>2. ASSUME FiledInv, RingInv, [Next]_vars PROVE Step
  <2>1. UNCHANGED artifact \/ \E c \in Crashes : LinkArtifact(c)
    <3>1. ASSUME NEW c \in Crashes, Dumper(c) PROVE UNCHANGED artifact
      BY Zenon, <3>1 DEF Dumper, Connect, Request, ReceiveOutput, Notify, Die, fileVars
    <3>2. ASSUME NEW c \in Crashes, crash_request_cb(c) PROVE UNCHANGED artifact
      BY <3>2, Zenon DEF crash_request_cb, RequestFailed, RequestQueued, RequestPerformed, fileVars
    <3>3. ASSUME NEW c \in Crashes, crash_completed_cb(c) PROVE UNCHANGED artifact \/ LinkArtifact(c)
      BY <3>3, Zenon DEF crash_completed_cb
    <3>4. maybe_dequeue_crashes => UNCHANGED artifact
      BY Zenon DEF maybe_dequeue_crashes, fileVars
    <3> QED
      BY Zenon, <1>2, <3>1, <3>2, <3>3, <3>4 DEF Next, ManageIntercept, Restart, Tick, vars, fileVars
  <2> QED
    BY Zenon, <1>2, <2>1, ReplacedIsOldest
<1> QED
  BY <1>1, <1>2, RingInit, OutputsHold, FiledHolds, PTL DEF Spec, OverwritesOldest
===============================================================================
