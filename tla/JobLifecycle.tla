----------------------------- MODULE JobLifecycle -----------------------------
(***************************************************************************)
(* The jobs of a UniversalWorker from the availability request to the end  *)
(* of the job's goroutine: handleAvailabilityRequest, handleJobAssignment, *)
(* runJobHandler, handleJobTermination, updateLoad, the room callbacks and *)
(* the part of Stop that ends the jobs.  Each action is one critical       *)
(* section of w.mu, one call to the room SDK or one message.               *)
(*                                                                         *)
(* The goroutines:                                                         *)
(*   - the reader (handleMessages), which runs the handlers of requests    *)
(*     and terminations itself, one message after the other;               *)
(*   - one goroutine per assignment, which becomes runJobHandler;          *)
(*   - the SDK's goroutine behind the callbacks of each room;              *)
(*   - the caller of Stop.                                                 *)
(* The connection does not fail here: see WorkerConnection.                *)
(***************************************************************************)
EXTENDS Naturals, Sequences, FiniteSets

CONSTANTS
    Jobs,           \* identities of jobs; the server never reuses one
    NoJob,          \* an absent entry of w.rooms
    Rooms,          \* names of rooms
    MaxJobs,        \* opts.MaxJobs
    MaxDisconnects  \* bound on the disconnections a room suffers on its own

ASSUME JobAssumption ==
    /\ NoJob \notin Jobs
    /\ Rooms # {}
    /\ MaxJobs \in Nat \ {0}
    /\ MaxDisconnects \in Nat

VARIABLES
    \* the server
    phase,          \* how far the server is with a job
    roomOf,         \* the room of a job
    serverStatus,   \* the worker's status as last reported
    inbox,          \* messages on their way to the worker, in order
    \* fields of UniversalWorker
    pendingMeta,    \* keys of w.pendingJobMetadata
    activeJobs,     \* keys of w.activeJobs and of w.jobStartTimes
    rooms,          \* w.rooms and w.participantTrackers: whose room is behind a name
    stopped,        \* whether w.stopCh is closed and the reader's context cancelled
    \* goroutines
    rpc,            \* where the reader is
    rjob,           \* the job whose termination the reader handles
    rrecorded,      \* the local variable exists of handleJobTermination
    gpc,            \* where the goroutine of each job is
    cancelled,      \* jobs whose context is cancelled
    final,          \* the local variable finalStatus of runJobHandler
    status,         \* the local variable status of each updateLoad
    stopPc,         \* where Stop is
    \* what the jobs did
    roomUp,         \* jobs whose room connection is open
    lastReported,   \* the status of each job handed to updateJobStatus last
    disconnects

serverVars == <<phase, roomOf, serverStatus>>
recordVars == <<pendingMeta, activeJobs, rooms>>
readerVars == <<rpc, rjob, rrecorded>>
jobVars == <<gpc, cancelled, final>>
roomVars == <<roomUp, disconnects>>
vars == <<serverVars, inbox, recordVars, stopped, readerVars, jobVars, status, stopPc,
          roomVars, lastReported>>

WorkerStatus == {"Available", "Full"}
JobStatus == {"RUNNING", "SUCCESS", "FAILED"}
Terminal == {"SUCCESS", "FAILED"}

\* A job the server asked about is refused or accepted; an accepted one is assigned.
Phase == {"new", "asked", "refused", "accepted", "assigned", "terminated"}

Message == [type : {"availability", "assignment", "termination"}, job : Jobs]

ReaderPc == {"select", "read", "cancel", "notify", "load", "report", "off"}

\* The goroutine of a job, named by its next step.  "failed" and "gone" are its ends.
JobPc == {"none", "metadata", "connect", "store", "running", "load", "report", "handler",
          "status", "cleanup", "disconnect", "endLoad", "endReport", "failed", "gone"}

StopPc == {"none", "cancel", "close", "done"}

\* The goroutines that call updateLoad: one for each job, and the reader.
Callers == Jobs \cup {NoJob}

TypeOK ==
    /\ phase \in [Jobs -> Phase]
    /\ roomOf \in [Jobs -> Rooms]
    /\ serverStatus \in WorkerStatus
    /\ inbox \in Seq(Message)
    /\ pendingMeta \subseteq Jobs
    /\ activeJobs \subseteq Jobs
    /\ rooms \in [Rooms -> Jobs \cup {NoJob}]
    /\ stopped \in BOOLEAN
    /\ rpc \in ReaderPc
    /\ rjob \in Jobs \cup {NoJob}
    /\ rrecorded \in BOOLEAN
    /\ gpc \in [Jobs -> JobPc]
    /\ cancelled \subseteq Jobs
    /\ final \in [Jobs -> Terminal]
    /\ status \in [Callers -> WorkerStatus]
    /\ stopPc \in StopPc
    /\ roomUp \subseteq Jobs
    /\ lastReported \in [Jobs -> JobStatus \cup {"NONE"}]
    /\ disconnects \in Nat

Init ==
    /\ phase = [j \in Jobs |-> "new"]
    /\ roomOf \in [Jobs -> Rooms]
    /\ serverStatus = "Available"
    /\ inbox = <<>>
    /\ pendingMeta = {}
    /\ activeJobs = {}
    /\ rooms = [n \in Rooms |-> NoJob]
    /\ stopped = FALSE
    /\ rpc = "select"
    /\ rjob = NoJob
    /\ rrecorded = FALSE
    /\ gpc = [j \in Jobs |-> "none"]
    /\ cancelled = {}
    /\ final = [j \in Jobs |-> "SUCCESS"]
    /\ status = [p \in Callers |-> "Available"]
    /\ stopPc = "none"
    /\ roomUp = {}
    /\ lastReported = [j \in Jobs |-> "NONE"]
    /\ disconnects = 0

-------------------------------------------------------------------------------
(* The server. *)

Send(type, j) == inbox' = Append(inbox, [type |-> type, job |-> j])

\* It asks for a new job while the worker's last reported status leaves room.
ServerAsks(j) ==
    /\ phase[j] = "new"
    /\ serverStatus = "Available"
    /\ phase' = [phase EXCEPT ![j] = "asked"]
    /\ Send("availability", j)
    /\ UNCHANGED <<roomOf, serverStatus, recordVars, stopped, readerVars, jobVars, status,
                   stopPc, roomVars, lastReported>>

ServerAssigns(j) ==
    /\ phase[j] = "accepted"
    /\ phase' = [phase EXCEPT ![j] = "assigned"]
    /\ Send("assignment", j)
    /\ UNCHANGED <<roomOf, serverStatus, recordVars, stopped, readerVars, jobVars, status,
                   stopPc, roomVars, lastReported>>

ServerTerminates(j) ==
    /\ phase[j] = "assigned"
    /\ phase' = [phase EXCEPT ![j] = "terminated"]
    /\ Send("termination", j)
    /\ UNCHANGED <<roomOf, serverStatus, recordVars, stopped, readerVars, jobVars, status,
                   stopPc, roomVars, lastReported>>

-------------------------------------------------------------------------------
(* updateLoad(): the status is computed in one critical section and sent later. *)

LoadStatus == IF Cardinality(activeJobs) >= MaxJobs THEN "Full" ELSE "Available"
ComputeLoad(p) == status' = [status EXCEPT ![p] = LoadStatus]

\* The report is lost once the connection is closed.
ReportLoad(p) ==
    /\ serverStatus' = IF stopPc = "done" THEN serverStatus ELSE status[p]
    /\ status' = [status EXCEPT ![p] = "Available"]

-------------------------------------------------------------------------------
(* The reader. *)

\* The head of the loop of handleMessages.
ReaderSelect ==
    /\ rpc = "select"
    /\ rpc' = IF stopped THEN "off" ELSE "read"
    /\ UNCHANGED <<serverVars, inbox, recordVars, stopped, rjob, rrecorded, jobVars, status,
                   stopPc, roomVars, lastReported>>

\* Stop closed the connection: reading fails, and the context is cancelled.
ReaderEnds ==
    /\ rpc = "read"
    /\ stopPc = "done"
    /\ rpc' = "off"
    /\ UNCHANGED <<serverVars, inbox, recordVars, stopped, rjob, rrecorded, jobVars, status,
                   stopPc, roomVars, lastReported>>

ReaderTakes(type, j) ==
    /\ rpc = "read"
    /\ stopPc # "done"
    /\ inbox # <<>>
    /\ Head(inbox) = [type |-> type, job |-> j]
    /\ inbox' = Tail(inbox)

\* OnJobRequest decides; the resolved metadata is kept for the assignment, then the
\* answer is sent.
HandleAvailability(j, accept) ==
    /\ ReaderTakes("availability", j)
    /\ pendingMeta' = IF accept THEN pendingMeta \cup {j} ELSE pendingMeta \ {j}
    /\ phase' = [phase EXCEPT ![j] = IF accept THEN "accepted" ELSE "refused"]
    /\ rpc' = "select"
    /\ UNCHANGED <<roomOf, serverStatus, activeJobs, rooms, stopped, rjob, rrecorded, jobVars,
                   status, stopPc, roomVars, lastReported>>

\* The assignment is handled by a goroutine of its own.
SpawnAssignment(j) ==
    /\ ReaderTakes("assignment", j)
    /\ gpc' = [gpc EXCEPT ![j] = "metadata"]
    /\ rpc' = "select"
    /\ UNCHANGED <<serverVars, recordVars, stopped, rjob, rrecorded, cancelled, final, status,
                   stopPc, roomVars, lastReported>>

\* Forgetting a job that is recorded.  The entry of its room goes by name, whoever
\* made it.
Forget(j) ==
    /\ activeJobs' = activeJobs \ {j}
    /\ rooms' = [rooms EXCEPT ![roomOf[j]] = NoJob]

\* handleJobTermination(), its critical section.
HandleTermination(j) ==
    /\ ReaderTakes("termination", j)
    /\ rjob' = j
    /\ rrecorded' = (j \in activeJobs)
    /\ IF j \in activeJobs THEN Forget(j) ELSE UNCHANGED <<activeJobs, rooms>>
    /\ rpc' = "cancel"
    /\ UNCHANGED <<serverVars, pendingMeta, stopped, jobVars, status, stopPc, roomVars,
                   lastReported>>

\* Mutation of CancelTerminated: a job removed from activeJobs keeps its context.
CancelTerminatedNot ==
    /\ rpc = "cancel"
    /\ rpc' = "load"
    /\ UNCHANGED <<serverVars, inbox, recordVars, stopped, rjob, rrecorded, jobVars,
                   status, stopPc, roomVars, lastReported>>

CancelTerminated ==
    /\ rpc = "cancel"
    /\ cancelled' = IF rrecorded THEN cancelled \cup {rjob} ELSE cancelled
    /\ rpc' = "load"
    /\ UNCHANGED <<serverVars, inbox, recordVars, stopped, rjob, rrecorded, gpc, final,
                   status, stopPc, roomVars, lastReported>>

TerminationLoad ==
    /\ rpc = "load"
    /\ ComputeLoad(NoJob)
    /\ rpc' = "report"
    /\ UNCHANGED <<serverVars, inbox, recordVars, stopped, rjob, rrecorded, jobVars, stopPc,
                   roomVars, lastReported>>

TerminationReport ==
    /\ rpc = "report"
    /\ ReportLoad(NoJob)
    /\ rjob' = NoJob
    /\ rrecorded' = FALSE
    /\ rpc' = "select"
    /\ UNCHANGED <<phase, roomOf, inbox, recordVars, stopped, jobVars, stopPc, roomVars,
                   lastReported>>

-------------------------------------------------------------------------------
(* The goroutine of a job: handleJobAssignment(), then runJobHandler(). *)

GoTo(j, from, to) == gpc[j] = from /\ gpc' = [gpc EXCEPT ![j] = to]

\* updateJobStatus(); StatusDelivery says what becomes of the update.
UpdateJobStatus(j, s) == lastReported' = [lastReported EXCEPT ![j] = s]

TakeMetadata(j) ==
    /\ GoTo(j, "metadata", "connect")
    /\ pendingMeta' = pendingMeta \ {j}
    /\ UNCHANGED <<serverVars, inbox, activeJobs, rooms, stopped, readerVars, cancelled, final,
                   status, stopPc, roomVars, lastReported>>

ConnectToRoom(j) ==
    /\ GoTo(j, "connect", "store")
    /\ roomUp' = roomUp \cup {j}
    /\ UNCHANGED <<serverVars, inbox, recordVars, stopped, readerVars, cancelled, final,
                   status, stopPc, disconnects, lastReported>>

ConnectToRoomFails(j) ==
    /\ GoTo(j, "connect", "failed")
    /\ UpdateJobStatus(j, "FAILED")
    /\ UNCHANGED <<serverVars, inbox, recordVars, stopped, readerVars, cancelled, final,
                   status, stopPc, roomVars>>

\* Mutation of StoreJob: the room is not recorded while the worker stops.
StoreJobKeepingRoom(j) ==
    /\ GoTo(j, "store", "running")
    /\ activeJobs' = activeJobs \cup {j}
    /\ rooms' = [rooms EXCEPT ![roomOf[j]] = IF stopped THEN @ ELSE j]
    /\ UNCHANGED <<serverVars, inbox, pendingMeta, stopped, readerVars, cancelled, final,
                   status, stopPc, roomVars, lastReported>>

StoreJob(j) ==
    /\ GoTo(j, "store", "running")
    /\ activeJobs' = activeJobs \cup {j}
    /\ rooms' = [rooms EXCEPT ![roomOf[j]] = j]
    /\ UNCHANGED <<serverVars, inbox, pendingMeta, stopped, readerVars, cancelled, final,
                   status, stopPc, roomVars, lastReported>>

\* Mutation of ReportRunning: the status is not one the server knows for a job in hand.
ReportPending(j) ==
    /\ GoTo(j, "running", "load")
    /\ UpdateJobStatus(j, "PENDING")
    /\ UNCHANGED <<serverVars, inbox, recordVars, stopped, readerVars, cancelled, final,
                   status, stopPc, roomVars>>

ReportRunning(j) ==
    /\ GoTo(j, "running", "load")
    /\ UpdateJobStatus(j, "RUNNING")
    /\ UNCHANGED <<serverVars, inbox, recordVars, stopped, readerVars, cancelled, final,
                   status, stopPc, roomVars>>

JobLoad(j) ==
    /\ GoTo(j, "load", "report") \/ GoTo(j, "endLoad", "endReport")
    /\ ComputeLoad(j)
    /\ UNCHANGED <<serverVars, inbox, recordVars, stopped, readerVars, cancelled, final,
                   stopPc, roomVars, lastReported>>

JobReport(j) ==
    /\ GoTo(j, "report", "handler") \/ GoTo(j, "endReport", "gone")
    /\ ReportLoad(j)
    /\ UNCHANGED <<phase, roomOf, inbox, recordVars, stopped, readerVars, cancelled, final,
                   stopPc, roomVars, lastReported>>

\* OnRoomConnected and OnJobAssigned return, with an error or a panic: FAILED.
HandlerReturns(j, s) ==
    /\ GoTo(j, "handler", "status")
    /\ final' = [final EXCEPT ![j] = s]
    /\ UNCHANGED <<serverVars, inbox, recordVars, stopped, readerVars, cancelled, status,
                   stopPc, roomVars, lastReported>>

\* Mutation of ReportFinal: the terminal status is reported for a recorded job only.
ReportFinalIfActive(j) ==
    /\ GoTo(j, "status", "cleanup")
    /\ IF j \in activeJobs THEN UpdateJobStatus(j, final[j]) ELSE UNCHANGED lastReported
    /\ final' = [final EXCEPT ![j] = "SUCCESS"]
    /\ UNCHANGED <<serverVars, inbox, recordVars, stopped, readerVars, cancelled,
                   status, stopPc, roomVars>>

ReportFinal(j) ==
    /\ GoTo(j, "status", "cleanup")
    /\ UpdateJobStatus(j, final[j])
    /\ final' = [final EXCEPT ![j] = "SUCCESS"]
    /\ UNCHANGED <<serverVars, inbox, recordVars, stopped, readerVars, cancelled,
                   status, stopPc, roomVars>>

\* Mutation of CleanUp: the entry of the room stays.
CleanUpKeepingRoom(j) ==
    /\ GoTo(j, "cleanup", "disconnect")
    /\ activeJobs' = activeJobs \ {j}
    /\ UNCHANGED <<serverVars, inbox, pendingMeta, rooms, stopped, readerVars, cancelled,
                   final, status, stopPc, roomVars, lastReported>>

CleanUp(j) ==
    /\ GoTo(j, "cleanup", "disconnect")
    /\ Forget(j)
    /\ UNCHANGED <<serverVars, inbox, pendingMeta, stopped, readerVars, cancelled, final,
                   status, stopPc, roomVars, lastReported>>

\* The room is left; then OnJobTerminated is called and the load updated.
DisconnectRoom(j) ==
    /\ GoTo(j, "disconnect", "endLoad")
    /\ roomUp' = roomUp \ {j}
    /\ UNCHANGED <<serverVars, inbox, recordVars, stopped, readerVars, cancelled, final,
                   status, stopPc, disconnects, lastReported>>

\* OnDisconnectedWithReason, for the reasons that fail the job: duplicate identity,
\* participant removed, room closed.  The job's context is not cancelled.
RoomDisconnected(j) ==
    /\ j \in roomUp
    /\ disconnects < MaxDisconnects
    /\ disconnects' = disconnects + 1
    /\ roomUp' = roomUp \ {j}
    /\ UpdateJobStatus(j, "FAILED")
    /\ UNCHANGED <<serverVars, inbox, recordVars, stopped, readerVars, jobVars, status,
                   stopPc>>

-------------------------------------------------------------------------------
(* Stop() and StopWithTimeout(). *)

\* stopCh is closed and stopMessageHandler called.
StopBegins ==
    /\ stopPc = "none"
    /\ stopped' = TRUE
    /\ stopPc' = "cancel"
    /\ UNCHANGED <<serverVars, inbox, recordVars, readerVars, jobVars, status, roomVars,
                   lastReported>>

\* One critical section cancels the jobs recorded now.
StopCancelsJobs ==
    /\ stopPc = "cancel"
    /\ cancelled' = cancelled \cup activeJobs
    /\ stopPc' = "close"
    /\ UNCHANGED <<serverVars, inbox, recordVars, stopped, readerVars, gpc, final, status,
                   roomVars, lastReported>>

StopCloses ==
    /\ stopPc = "close"
    /\ inbox' = <<>>
    /\ stopPc' = "done"
    /\ UNCHANGED <<serverVars, recordVars, stopped, readerVars, jobVars, status, roomVars,
                   lastReported>>

-------------------------------------------------------------------------------
Server == \E j \in Jobs : ServerAsks(j) \/ ServerAssigns(j) \/ ServerTerminates(j)

Reader ==
    \/ ReaderSelect \/ ReaderEnds
    \/ \E j \in Jobs : \/ \E accept \in BOOLEAN : HandleAvailability(j, accept)
                       \/ SpawnAssignment(j)
                       \/ HandleTermination(j)
    \/ CancelTerminated \/ TerminationLoad \/ TerminationReport

JobStep(j) ==
    \/ TakeMetadata(j) \/ ConnectToRoom(j) \/ ConnectToRoomFails(j) \/ StoreJob(j)
    \/ ReportRunning(j) \/ JobLoad(j) \/ JobReport(j)
    \/ ReportFinal(j) \/ CleanUp(j) \/ DisconnectRoom(j)

\* The handler's own business: it returns when it likes.
Handler(j) == \E s \in Terminal : HandlerReturns(j, s)

StopStep == StopCancelsJobs \/ StopCloses

Next ==
    \/ stopPc # "done" /\ Server
    \/ Reader
    \/ \E j \in Jobs : JobStep(j) \/ Handler(j) \/ RoomDisconnected(j)
    \/ StopBegins \/ StopStep

Spec == Init /\ [][Next]_vars

-------------------------------------------------------------------------------
(* Properties. *)

\* From the critical section that stores a job to the one that removes it.
Recorded == {"running", "load", "report", "handler", "status", "cleanup"}
Ending == {"cleanup", "disconnect", "endLoad", "endReport", "gone", "failed"}

\* No entry of activeJobs or rooms outlives the goroutine it belongs to, in whatever
\* order terminations, Stop and the handlers' returns come.
NothingOutlivesItsJob ==
    /\ \A j \in activeJobs : gpc[j] \in Recorded
    /\ \A n \in Rooms : rooms[n] # NoJob => gpc[rooms[n]] \in Recorded

\* The callbacks of a room find it by name: the room of an active job is recorded under
\* its name if no other job has been stored for that room.
RoomOfActiveJobKnown ==
    \A j \in activeJobs :
        (\A k \in Jobs \ {j} :
            roomOf[k] = roomOf[j] => gpc[k] \in {"none", "metadata", "connect", "store", "failed"})
        => rooms[roomOf[j]] = j

\* A job that runs although it is not active any more has been cancelled, or is about
\* to be: the worker never loses its hold on a running handler.
RemovedJobIsCancelled ==
    \A j \in Jobs :
        gpc[j] \in Recorded /\ j \notin activeJobs =>
            j \in cancelled \/ (rpc = "cancel" /\ rjob = j /\ rrecorded)

\* Whatever the room's callbacks and the handler report, the last status of a job that
\* has ended is a terminal one.
EndedJobReported ==
    \A j \in Jobs :
        gpc[j] \in Ending => lastReported[j] \in Terminal

-------------------------------------------------------------------------------
(* What the documentation says and the code does not do. *)

\* OnJobAssigned, "Context for the job, cancelled when the job should terminate": once
\* the termination of a job has been handled, its handler does not run uncancelled.
TerminationCancels ==
    \A j \in Jobs :
        phase[j] = "terminated" /\ inbox = <<>> /\ rpc \in {"select", "read"} /\ ~stopped
        /\ gpc[j] = "handler"
            => j \in cancelled
===============================================================================
