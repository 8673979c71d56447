-------------------------- MODULE JobLifecycleProofs --------------------------
(***************************************************************************)
(* Proofs about JobLifecycle: for any number of jobs, any rooms and any    *)
(* MaxJobs, the worker's records never outlive the goroutine of their job, *)
(* a job forgotten while it runs is cancelled, the room of an active job   *)
(* is found by its name, and an ended job has a terminal status.           *)
(***************************************************************************)
EXTENDS JobLifecycle, TLAPS

USE DEF serverVars, recordVars, readerVars, jobVars, roomVars

-------------------------------------------------------------------------------
(* What makes the properties inductive. *)

\* The server sends each message about a job once, and the assignment of a job finds no
\* goroutine of that job: otherwise a second goroutine would start under its records.
MessagesFresh ==
    /\ \A i \in 1..Len(inbox) :
        /\ inbox[i].type = "availability" => phase[inbox[i].job] = "asked"
        /\ inbox[i].type = "assignment" =>
              phase[inbox[i].job] \in {"assigned", "terminated"} /\ gpc[inbox[i].job] = "none"
        /\ inbox[i].type = "termination" => phase[inbox[i].job] = "terminated"
    /\ \A i, k \in 1..Len(inbox) : inbox[i] = inbox[k] => i = k

UnassignedIdle ==
    \A j \in Jobs : phase[j] \in {"new", "asked", "refused", "accepted"} => gpc[j] = "none"

\* An entry of w.rooms is under the name of its job's room.
RoomsByName == \A n \in Rooms : rooms[n] # NoJob => roomOf[rooms[n]] = n

-------------------------------------------------------------------------------
(* Types.  The Boolean variables are proved apart from the others; that a termination
   being handled is some job's is part of the induction. *)

FlagTypes == stopped \in BOOLEAN /\ rrecorded \in BOOLEAN

ValueTypes ==
    /\ phase \in [Jobs -> Phase]
    /\ roomOf \in [Jobs -> Rooms]
    /\ serverStatus \in WorkerStatus
    /\ inbox \in Seq(Message)
    /\ pendingMeta \subseteq Jobs
    /\ activeJobs \subseteq Jobs
    /\ rooms \in [Rooms -> Jobs \cup {NoJob}]
    /\ rpc \in ReaderPc
    /\ rjob \in Jobs \cup {NoJob}
    /\ gpc \in [Jobs -> JobPc]
    /\ cancelled \subseteq Jobs
    /\ final \in [Jobs -> Terminal]
    /\ status \in [Callers -> WorkerStatus]
    /\ stopPc \in StopPc
    /\ roomUp \subseteq Jobs
    /\ lastReported \in [Jobs -> JobStatus \cup {"NONE"}]
    /\ disconnects \in Nat
    /\ rpc = "cancel" => rjob \in Jobs

LEMMA TypeParts == FlagTypes /\ ValueTypes => TypeOK
BY DEF TypeOK, FlagTypes, ValueTypes

LEMMA TypeInit == Init => FlagTypes /\ ValueTypes
<1> SUFFICES ASSUME Init PROVE FlagTypes /\ ValueTypes
  OBVIOUS
<1>1. FlagTypes
  BY DEF Init, FlagTypes
<1>2. ValueTypes
  BY JobAssumption DEF Init, ValueTypes, Phase, WorkerStatus, ReaderPc, JobPc, Terminal,
     Callers, StopPc, JobStatus
<1> QED
  BY <1>1, <1>2

LEMMA FlagStep ==
    ASSUME FlagTypes, [Next]_vars
    PROVE  FlagTypes'
<1> USE DEF FlagTypes
<1>1. CASE Server
  BY <1>1 DEF Server, ServerAsks, ServerAssigns, ServerTerminates
<1>2. CASE Reader
  <2>1. ASSUME NEW j \in Jobs, HandleTermination(j)
        PROVE  FlagTypes'
    <3>1. stopped' = stopped /\ rrecorded' = (j \in activeJobs)
      BY <2>1 DEF HandleTermination
    <3>2. CASE j \in activeJobs
      BY <3>1, <3>2
    <3>3. CASE j \notin activeJobs
      BY <3>1, <3>3
    <3> QED
      BY <3>2, <3>3
  <2>2. ASSUME NEW j \in Jobs, NEW accept \in BOOLEAN,
               HandleAvailability(j, accept) \/ SpawnAssignment(j)
        PROVE  FlagTypes'
    BY <2>2 DEF HandleAvailability, SpawnAssignment
  <2>3. CASE \/ ReaderSelect \/ ReaderEnds \/ CancelTerminated
             \/ TerminationLoad \/ TerminationReport
    BY <2>3 DEF ReaderSelect, ReaderEnds, CancelTerminated, TerminationLoad, TerminationReport
  <2> QED
    BY <1>2, <2>1, <2>2, <2>3 DEF Reader
<1>3. ASSUME NEW j \in Jobs, JobStep(j)
      PROVE  FlagTypes'
  BY <1>3 DEF JobStep, TakeMetadata, ConnectToRoom, ConnectToRoomFails, StoreJob,
     ReportRunning, JobLoad, JobReport, ReportFinal, CleanUp, DisconnectRoom
<1>4. ASSUME NEW j \in Jobs, Handler(j) \/ RoomDisconnected(j)
      PROVE  FlagTypes'
  BY <1>4 DEF Handler, HandlerReturns, RoomDisconnected
<1>5. CASE StopBegins \/ StopStep
  BY <1>5 DEF StopBegins, StopStep, StopCancelsJobs, StopCloses
<1>6. CASE UNCHANGED vars
  BY <1>6 DEF vars
<1> QED
  BY <1>1, <1>2, <1>3, <1>4, <1>5, <1>6 DEF Next

LEMMA ValueStep ==
    ASSUME ValueTypes, [Next]_vars
    PROVE  ValueTypes'
<1> USE JobAssumption DEF ValueTypes
<1>1. ASSUME NEW j \in Jobs, ServerAsks(j) \/ ServerAssigns(j) \/ ServerTerminates(j)
      PROVE  ValueTypes'
  <2>1. PICK t \in {"availability", "assignment", "termination"} : Send(t, j)
    BY <1>1 DEF ServerAsks, ServerAssigns, ServerTerminates
  <2>2. inbox' \in Seq(Message)
    BY <2>1 DEF Send, Message
  <2> QED
    BY <1>1, <2>2 DEF ServerAsks, ServerAssigns, ServerTerminates, Phase
<1>2. CASE Reader
  <2>1. CASE ReaderSelect \/ ReaderEnds \/ CancelTerminated
    BY <2>1 DEF ReaderSelect, ReaderEnds, CancelTerminated, ReaderPc
  <2>2. CASE TerminationLoad \/ TerminationReport
    BY <2>2 DEF TerminationLoad, TerminationReport, ComputeLoad, ReportLoad, LoadStatus,
                WorkerStatus, Callers, ReaderPc
  <2>3. ASSUME NEW j \in Jobs, NEW accept \in BOOLEAN, HandleAvailability(j, accept)
        PROVE  ValueTypes'
    BY <2>3 DEF HandleAvailability, ReaderTakes, Phase, ReaderPc
  <2>4. ASSUME NEW j \in Jobs, SpawnAssignment(j)
        PROVE  ValueTypes'
    BY <2>4 DEF SpawnAssignment, ReaderTakes, JobPc, ReaderPc
  <2>5. ASSUME NEW j \in Jobs, HandleTermination(j)
        PROVE  ValueTypes'
    BY <2>5 DEF HandleTermination, ReaderTakes, Forget, ReaderPc
  <2> QED
    BY <1>2, <2>1, <2>2, <2>3, <2>4, <2>5 DEF Reader
<1>3. ASSUME NEW j \in Jobs, JobStep(j) \/ Handler(j) \/ RoomDisconnected(j)
      PROVE  ValueTypes'
  <2>1. CASE TakeMetadata(j) \/ ConnectToRoom(j) \/ ConnectToRoomFails(j) \/ ReportRunning(j)
    BY <2>1 DEF TakeMetadata, ConnectToRoom, ConnectToRoomFails, ReportRunning, GoTo,
                UpdateJobStatus, JobPc, JobStatus
  <2>2. CASE StoreJob(j) \/ CleanUp(j) \/ DisconnectRoom(j)
    BY <2>2 DEF StoreJob, CleanUp, DisconnectRoom, Forget, GoTo, JobPc
  <2>3. CASE JobLoad(j) \/ JobReport(j)
    BY <2>3 DEF JobLoad, JobReport, ComputeLoad, ReportLoad, LoadStatus, WorkerStatus,
                Callers, GoTo, JobPc
  <2>4. CASE ReportFinal(j) \/ Handler(j) \/ RoomDisconnected(j)
    BY <2>4 DEF ReportFinal, Handler, HandlerReturns, RoomDisconnected, UpdateJobStatus,
                GoTo, JobPc, JobStatus, Terminal
  <2> QED
    BY <1>3, <2>1, <2>2, <2>3, <2>4 DEF JobStep
<1>4. CASE StopBegins \/ StopStep
  <2>1. inbox' = inbox \/ inbox' = <<>>
    BY <1>4 DEF StopBegins, StopStep, StopCancelsJobs, StopCloses
  <2>2. <<>> \in Seq(Message)
    OBVIOUS
  <2>3. inbox' \in Seq(Message)
    BY <2>1, <2>2
  <2> QED
    BY <1>4, <2>3 DEF StopBegins, StopStep, StopCancelsJobs, StopCloses, StopPc
<1>5. CASE UNCHANGED vars
  BY <1>5 DEF vars
<1> QED
  BY <1>1, <1>2, <1>3, <1>4, <1>5 DEF Next, Server
-------------------------------------------------------------------------------
(* Messages and the start of goroutines. *)

\* What a job's goroutine and its callbacks leave alone: the server and its messages;
\* and a goroutine that moves was there before.
LEMMA JobStepMoves ==
    ASSUME ValueTypes, NEW j \in Jobs, JobStep(j) \/ Handler(j) \/ RoomDisconnected(j)
    PROVE  /\ UNCHANGED <<phase, roomOf, inbox>>
           /\ \A k \in Jobs \ {j} : gpc'[k] = gpc[k]
           /\ gpc'[j] # gpc[j] => gpc[j] # "none" /\ gpc'[j] # "none"
BY DEF JobStep, TakeMetadata, ConnectToRoom, ConnectToRoomFails, StoreJob, ReportRunning,
   JobLoad, JobReport, ReportFinal, CleanUp, DisconnectRoom, Handler, HandlerReturns,
   RoomDisconnected, GoTo, ValueTypes

Fresh(m) ==
    /\ m.type = "availability" => phase[m.job] = "asked"
    /\ m.type = "assignment" =>
          phase[m.job] \in {"assigned", "terminated"} /\ gpc[m.job] = "none"
    /\ m.type = "termination" => phase[m.job] = "terminated"

LEMMA FreshMessages ==
    MessagesFresh <=> /\ \A i \in 1..Len(inbox) : Fresh(inbox[i])
                      /\ \A i, k \in 1..Len(inbox) : inbox[i] = inbox[k] => i = k
BY DEF MessagesFresh, Fresh

LEMMA MessagesStep ==
    ASSUME ValueTypes, MessagesFresh, UnassignedIdle, [Next]_vars
    PROVE  MessagesFresh' /\ UnassignedIdle'
<1> USE DEF ValueTypes
<1>0. ASSUME NEW i \in 1..Len(inbox)
      PROVE  inbox[i].job \in Jobs /\ inbox[i].type \in {"availability", "assignment", "termination"}
  <2>1. inbox[i] \in Message
    OBVIOUS
  <2> QED
    BY <2>1 DEF Message
<1>1. ASSUME NEW j \in Jobs, ServerAsks(j) \/ ServerAssigns(j) \/ ServerTerminates(j)
      PROVE  MessagesFresh' /\ UnassignedIdle'
  <2>1. PICK t \in {"availability", "assignment", "termination"} :
          /\ inbox' = Append(inbox, [type |-> t, job |-> j])
          /\ t = "availability" => phase[j] = "new" /\ phase' = [phase EXCEPT ![j] = "asked"]
          /\ t = "assignment" => phase[j] = "accepted" /\ phase' = [phase EXCEPT ![j] = "assigned"]
          /\ t = "termination" => phase[j] = "assigned" /\ phase' = [phase EXCEPT ![j] = "terminated"]
          /\ gpc' = gpc
    BY <1>1 DEF ServerAsks, ServerAssigns, ServerTerminates, Send
  <2>2. UnassignedIdle'
    BY <2>1 DEF UnassignedIdle
  <2> DEFINE m == [type |-> t, job |-> j]
  <2>3. /\ Len(inbox') = Len(inbox) + 1
        /\ inbox'[Len(inbox) + 1] = m
        /\ \A i \in 1..Len(inbox) : inbox'[i] = inbox[i]
        /\ m.type = t /\ m.job = j
    BY <2>1
  <2> HIDE DEF m
  <2>4. \A i \in 1..Len(inbox) : inbox[i] # m
    BY <2>1, <2>3 DEF MessagesFresh
  <2>5. Fresh(m)'
    BY <2>1, <2>3 DEF Fresh, UnassignedIdle
  <2>6. \A i \in 1..Len(inbox) : Fresh(inbox[i])'
    BY <1>0, <2>1, <2>3 DEF Fresh, MessagesFresh
  <2>7. MessagesFresh'
    BY <2>3, <2>4, <2>5, <2>6 DEF MessagesFresh, Fresh
  <2> QED
    BY <2>2, <2>7
<1>2. ASSUME NEW j \in Jobs, NEW t \in {"availability", "assignment", "termination"},
             ReaderTakes(t, j),
             \/ t = "availability" /\ gpc' = gpc
                /\ (\E p \in {"accepted", "refused"} : phase' = [phase EXCEPT ![j] = p])
             \/ t = "assignment" /\ phase' = phase /\ gpc' = [gpc EXCEPT ![j] = "metadata"]
             \/ t = "termination" /\ phase' = phase /\ gpc' = gpc
      PROVE  MessagesFresh' /\ UnassignedIdle'
  <2>1. /\ inbox # <<>> /\ Len(inbox) \in Nat /\ 1 \in 1..Len(inbox)
        /\ inbox[1].type = t /\ inbox[1].job = j /\ inbox[1] = [type |-> t, job |-> j]
        /\ Len(inbox') = Len(inbox) - 1
        /\ \A i \in 1..Len(inbox') : inbox'[i] = inbox[i + 1] /\ i + 1 \in 1..Len(inbox)
    BY <1>2 DEF ReaderTakes
  <2>2. \A i \in 1..Len(inbox') : inbox'[i] # [type |-> t, job |-> j]
    BY <2>1 DEF MessagesFresh
  <2>3. Fresh(inbox[1])
    BY <2>1 DEF Fresh, MessagesFresh
  <2>4. UnassignedIdle'
    BY <1>2, <2>1, <2>3 DEF UnassignedIdle, Fresh
  <2>5. ASSUME NEW i \in 1..Len(inbox')
        PROVE  Fresh(inbox[i])'
    <3>1. PICK m \in Message : m = inbox[i + 1] /\ m = inbox'[i]
      BY <2>1
    <3>2. Fresh(m)
      BY <2>1, <3>1 DEF Fresh, MessagesFresh
    <3>3. m.job \in Jobs /\ ~(m.type = t /\ m.job = j)
      BY <2>2, <3>1 DEF Message
    <3>4. Fresh(m)'
      BY <1>2, <2>3, <2>1, <3>2, <3>3 DEF Fresh
    <3> QED
      BY <3>1, <3>4 DEF Fresh
  <2>6. MessagesFresh'
    <3>1. \A i, k \in 1..Len(inbox') : inbox'[i] = inbox'[k] => i = k
      BY <2>1 DEF MessagesFresh
    <3> QED
      BY <2>5, <3>1 DEF MessagesFresh, Fresh
  <2> QED
    BY <2>4, <2>6
<1>3. CASE Reader
  <2>1. CASE \/ ReaderSelect \/ ReaderEnds \/ CancelTerminated
             \/ TerminationLoad \/ TerminationReport
    BY <2>1 DEF ReaderSelect, ReaderEnds, CancelTerminated, TerminationLoad,
       TerminationReport, MessagesFresh, UnassignedIdle
  <2>2. ASSUME NEW j \in Jobs, NEW accept \in BOOLEAN, HandleAvailability(j, accept)
        PROVE  MessagesFresh' /\ UnassignedIdle'
    BY <1>2, <2>2 DEF HandleAvailability
  <2>3. ASSUME NEW j \in Jobs, SpawnAssignment(j)
        PROVE  MessagesFresh' /\ UnassignedIdle'
    BY <1>2, <2>3 DEF SpawnAssignment
  <2>4. ASSUME NEW j \in Jobs, HandleTermination(j)
        PROVE  MessagesFresh' /\ UnassignedIdle'
    BY <1>2, <2>4 DEF HandleTermination
  <2> QED
    BY <1>3, <2>1, <2>2, <2>3, <2>4 DEF Reader
<1>4. ASSUME NEW j \in Jobs, JobStep(j) \/ Handler(j) \/ RoomDisconnected(j)
      PROVE  MessagesFresh' /\ UnassignedIdle'
  BY <1>0, <1>4, JobStepMoves DEF MessagesFresh, UnassignedIdle
<1>5. CASE StopBegins \/ StopStep \/ UNCHANGED vars
  BY <1>5 DEF StopBegins, StopStep, StopCancelsJobs, StopCloses, vars, MessagesFresh,
     UnassignedIdle
<1> QED
  BY <1>1, <1>3, <1>4, <1>5 DEF Next, Server
-------------------------------------------------------------------------------
(* Records. *)

Records == RoomsByName /\ NothingOutlivesItsJob /\ RoomOfActiveJobKnown

Unstored == {"none", "metadata", "connect", "store", "failed"}

\* A step that leaves the records alone and moves at most one goroutine, within
\* Recorded, within Unstored, or outside both.
LEMMA RecordsKept ==
    ASSUME ValueTypes, Records,
           UNCHANGED <<roomOf, activeJobs, rooms>>,
           \A k \in Jobs : /\ gpc[k] \in Recorded => gpc'[k] \in Recorded
                           /\ gpc'[k] \in Unstored => gpc[k] \in Unstored
    PROVE  Records'
BY DEF Records, RoomsByName, NothingOutlivesItsJob, RoomOfActiveJobKnown, Unstored, ValueTypes

\* Forget a job that is recorded and whose goroutine is or will be past its handler.
LEMMA RecordsForgotten ==
    ASSUME ValueTypes, Records, NEW j \in Jobs, Forget(j), UNCHANGED roomOf,
           gpc[j] \in Recorded, gpc'[j] \notin Unstored,
           \A k \in Jobs \ {j} : gpc'[k] = gpc[k]
    PROVE  Records'
<1> USE DEF ValueTypes
<1>1. \A n \in Rooms : rooms'[n] = IF n = roomOf[j] THEN NoJob ELSE rooms[n]
  BY DEF Forget
<1>2. activeJobs' = activeJobs \ {j}
  BY DEF Forget
<1>3. RoomsByName'
  BY <1>1 DEF Records, RoomsByName
<1>4. NothingOutlivesItsJob'
  BY <1>1, <1>2 DEF Records, RoomsByName, NothingOutlivesItsJob
<1>5. RoomOfActiveJobKnown'
  BY <1>1, <1>2 DEF Records, RoomOfActiveJobKnown, Unstored
<1> QED
  BY <1>3, <1>4, <1>5 DEF Records

LEMMA RecordsStored ==
    ASSUME ValueTypes, Records, NEW j \in Jobs, StoreJob(j)
    PROVE  Records'
<1> USE DEF ValueTypes
<1>1. \A n \in Rooms : rooms'[n] = IF n = roomOf[j] THEN j ELSE rooms[n]
  BY DEF StoreJob
<1>2. /\ activeJobs' = activeJobs \cup {j} /\ roomOf' = roomOf
      /\ gpc[j] = "store" /\ gpc'[j] = "running"
      /\ \A k \in Jobs \ {j} : gpc'[k] = gpc[k]
  BY DEF StoreJob, GoTo
<1>3. RoomsByName'
  BY <1>1, <1>2 DEF Records, RoomsByName
<1>4. NothingOutlivesItsJob'
  BY <1>1, <1>2 DEF Records, NothingOutlivesItsJob, Recorded
<1>5. RoomOfActiveJobKnown'
  BY <1>1, <1>2 DEF Records, RoomOfActiveJobKnown
<1> QED
  BY <1>3, <1>4, <1>5 DEF Records

LEMMA RecordsStep ==
    ASSUME ValueTypes, MessagesFresh, Records, [Next]_vars
    PROVE  Records'
<1> USE DEF ValueTypes
<1>1. ASSUME NEW j \in Jobs, ServerAsks(j) \/ ServerAssigns(j) \/ ServerTerminates(j)
      PROVE  Records'
  BY <1>1, RecordsKept DEF ServerAsks, ServerAssigns, ServerTerminates
<1>2. CASE Reader
  <2>1. CASE \/ ReaderSelect \/ ReaderEnds \/ CancelTerminated
             \/ TerminationLoad \/ TerminationReport
    BY <2>1, RecordsKept DEF ReaderSelect, ReaderEnds, CancelTerminated, TerminationLoad,
       TerminationReport
  <2>2. ASSUME NEW j \in Jobs, NEW accept \in BOOLEAN, HandleAvailability(j, accept)
        PROVE  Records'
    BY <2>2, RecordsKept DEF HandleAvailability
  <2>3. ASSUME NEW j \in Jobs, SpawnAssignment(j)
        PROVE  Records'
    <3>1. gpc[j] = "none"
      <4>1. 1 \in 1..Len(inbox) /\ inbox[1] = [type |-> "assignment", job |-> j]
        BY <2>3 DEF SpawnAssignment, ReaderTakes
      <4> QED
        BY <4>1 DEF MessagesFresh
    <3>2. /\ UNCHANGED <<roomOf, activeJobs, rooms>>
          /\ \A k \in Jobs : gpc'[k] = IF k = j THEN "metadata" ELSE gpc[k]
      BY <2>3 DEF SpawnAssignment
    <3> QED
      BY <3>1, <3>2, RecordsKept DEF Recorded, Unstored
  <2>4. ASSUME NEW j \in Jobs, HandleTermination(j)
        PROVE  Records'
    <3>1. CASE j \in activeJobs
      <4>1. gpc[j] \in Recorded
        BY <3>1 DEF Records, NothingOutlivesItsJob
      <4> QED
        BY <2>4, <3>1, <4>1, RecordsForgotten DEF HandleTermination, Recorded, Unstored
    <3>2. CASE j \notin activeJobs
      BY <2>4, <3>2, RecordsKept DEF HandleTermination
    <3> QED
      BY <3>1, <3>2
  <2> QED
    BY <1>2, <2>1, <2>2, <2>3, <2>4 DEF Reader
<1>3. ASSUME NEW j \in Jobs, JobStep(j) \/ Handler(j) \/ RoomDisconnected(j)
      PROVE  Records'
  <2>1. CASE CleanUp(j)
    BY <2>1, RecordsForgotten DEF CleanUp, GoTo, Recorded, Unstored
  <2>2. CASE StoreJob(j)
    BY <2>2, RecordsStored
  <2>3. CASE TakeMetadata(j) \/ ConnectToRoom(j) \/ ConnectToRoomFails(j)
    BY <2>3, RecordsKept DEF TakeMetadata, ConnectToRoom, ConnectToRoomFails, GoTo,
       Recorded, Unstored
  <2>4. CASE ReportRunning(j) \/ JobLoad(j) \/ JobReport(j) \/ ReportFinal(j) \/ DisconnectRoom(j)
    BY <2>4, RecordsKept DEF ReportRunning, JobLoad, JobReport, ReportFinal, DisconnectRoom,
       GoTo, Recorded, Unstored
  <2>5. CASE Handler(j) \/ RoomDisconnected(j)
    BY <2>5, RecordsKept DEF Handler, HandlerReturns, RoomDisconnected, GoTo, Recorded, Unstored
  <2> QED
    BY <1>3, <2>1, <2>2, <2>3, <2>4, <2>5 DEF JobStep
<1>4. CASE StopBegins \/ StopStep \/ UNCHANGED vars
  BY <1>4, RecordsKept DEF StopBegins, StopStep, StopCancelsJobs, StopCloses, vars
<1> QED
  BY <1>1, <1>2, <1>3, <1>4 DEF Next, Server

-------------------------------------------------------------------------------
(* Contexts and reports. *)

LEMMA RemovedStep ==
    ASSUME ValueTypes, MessagesFresh, RemovedJobIsCancelled, [Next]_vars
    PROVE  RemovedJobIsCancelled'
<1> USE DEF ValueTypes, RemovedJobIsCancelled
<1>1. ASSUME NEW j \in Jobs, ServerAsks(j) \/ ServerAssigns(j) \/ ServerTerminates(j)
      PROVE  RemovedJobIsCancelled'
  BY <1>1 DEF ServerAsks, ServerAssigns, ServerTerminates
<1>2. CASE Reader
  <2>1. CASE ReaderSelect \/ ReaderEnds \/ TerminationLoad \/ TerminationReport
    BY <2>1 DEF ReaderSelect, ReaderEnds, TerminationLoad, TerminationReport
  <2>2. CASE CancelTerminated
    BY <2>2 DEF CancelTerminated
  <2>3. ASSUME NEW j \in Jobs, NEW accept \in BOOLEAN, HandleAvailability(j, accept)
        PROVE  RemovedJobIsCancelled'
    BY <2>3 DEF HandleAvailability, ReaderTakes
  <2>4. ASSUME NEW j \in Jobs, SpawnAssignment(j)
        PROVE  RemovedJobIsCancelled'
    BY <2>4 DEF SpawnAssignment, ReaderTakes, Recorded
  <2>5. ASSUME NEW j \in Jobs, HandleTermination(j)
        PROVE  RemovedJobIsCancelled'
    <3>1. CASE j \in activeJobs
      BY <2>5, <3>1 DEF HandleTermination, ReaderTakes, Forget
    <3>2. CASE j \notin activeJobs
      BY <2>5, <3>2 DEF HandleTermination, ReaderTakes
    <3> QED
      BY <3>1, <3>2
  <2> QED
    BY <1>2, <2>1, <2>2, <2>3, <2>4, <2>5 DEF Reader
<1>3. ASSUME NEW j \in Jobs, JobStep(j) \/ Handler(j) \/ RoomDisconnected(j)
      PROVE  RemovedJobIsCancelled'
  <2>1. CASE CleanUp(j) \/ StoreJob(j)
    BY <2>1 DEF CleanUp, StoreJob, Forget, GoTo, Recorded
  <2>2. CASE TakeMetadata(j) \/ ConnectToRoom(j) \/ ConnectToRoomFails(j)
    BY <2>2 DEF TakeMetadata, ConnectToRoom, ConnectToRoomFails, GoTo, Recorded
  <2>3. CASE ReportRunning(j) \/ JobLoad(j) \/ JobReport(j) \/ ReportFinal(j) \/ DisconnectRoom(j)
    BY <2>3 DEF ReportRunning, JobLoad, JobReport, ReportFinal, DisconnectRoom, GoTo, Recorded
  <2>4. CASE Handler(j) \/ RoomDisconnected(j)
    BY <2>4 DEF Handler, HandlerReturns, RoomDisconnected, GoTo, Recorded
  <2> QED
    BY <1>3, <2>1, <2>2, <2>3, <2>4 DEF JobStep
<1>4. CASE StopBegins \/ StopStep \/ UNCHANGED vars
  BY <1>4 DEF StopBegins, StopStep, StopCancelsJobs, StopCloses, vars
<1> QED
  BY <1>1, <1>2, <1>3, <1>4 DEF Next, Server

LEMMA EndedStep ==
    ASSUME ValueTypes, EndedJobReported, [Next]_vars
    PROVE  EndedJobReported'
<1> USE DEF ValueTypes, EndedJobReported
<1>1. ASSUME NEW j \in Jobs, ServerAsks(j) \/ ServerAssigns(j) \/ ServerTerminates(j)
      PROVE  EndedJobReported'
  BY <1>1 DEF ServerAsks, ServerAssigns, ServerTerminates
<1>2. CASE Reader
  BY <1>2 DEF Reader, ReaderSelect, ReaderEnds, HandleAvailability, SpawnAssignment,
     HandleTermination, CancelTerminated, TerminationLoad, TerminationReport, Ending
<1>3. ASSUME NEW j \in Jobs, JobStep(j) \/ Handler(j) \/ RoomDisconnected(j)
      PROVE  EndedJobReported'
  <2>1. CASE ReportFinal(j) \/ ConnectToRoomFails(j) \/ RoomDisconnected(j)
    BY <2>1 DEF ReportFinal, ConnectToRoomFails, RoomDisconnected, UpdateJobStatus, GoTo,
       Ending, Terminal
  <2>2. CASE ReportRunning(j)
    BY <2>2 DEF ReportRunning, UpdateJobStatus, GoTo, Ending
  <2>3. CASE TakeMetadata(j) \/ ConnectToRoom(j) \/ StoreJob(j) \/ JobLoad(j) \/ JobReport(j)
    BY <2>3 DEF TakeMetadata, ConnectToRoom, StoreJob, JobLoad, JobReport, GoTo, Ending
  <2>4. CASE CleanUp(j) \/ DisconnectRoom(j) \/ Handler(j)
    BY <2>4 DEF CleanUp, DisconnectRoom, Handler, HandlerReturns, GoTo, Ending
  <2> QED
    BY <1>3, <2>1, <2>2, <2>3, <2>4 DEF JobStep
<1>4. CASE StopBegins \/ StopStep \/ UNCHANGED vars
  BY <1>4 DEF StopBegins, StopStep, StopCancelsJobs, StopCloses, vars
<1> QED
  BY <1>1, <1>2, <1>3, <1>4 DEF Next, Server
-------------------------------------------------------------------------------
(* The inductive invariant. *)

IInv ==
    /\ FlagTypes /\ ValueTypes
    /\ MessagesFresh /\ UnassignedIdle
    /\ Records /\ RemovedJobIsCancelled /\ EndedJobReported

LEMMA Inductive == Spec => []IInv
<1>1. Init => IInv
  <2> SUFFICES ASSUME Init PROVE IInv
    OBVIOUS
  <2>1. MessagesFresh /\ UnassignedIdle
    BY DEF Init, MessagesFresh, UnassignedIdle
  <2>2. Records
    BY DEF Init, Records, RoomsByName, NothingOutlivesItsJob, RoomOfActiveJobKnown
  <2>3. RemovedJobIsCancelled /\ EndedJobReported
    BY DEF Init, RemovedJobIsCancelled, EndedJobReported, Recorded, Ending
  <2> QED
    BY <2>1, <2>2, <2>3, TypeInit DEF IInv
<1>2. IInv /\ [Next]_vars => IInv'
  BY FlagStep, ValueStep, MessagesStep, RecordsStep, RemovedStep, EndedStep DEF IInv
<1> QED
  BY <1>1, <1>2, PTL DEF Spec

\* Every reachable state is well typed: handlers, callbacks and Stop never leave the
\* worker's maps or the job goroutines in a state the code has no branch for.
THEOREM LifecycleTypeCorrect == Spec => []TypeOK
<1>1. IInv => TypeOK
  BY TypeParts DEF IInv
<1> QED
  BY <1>1, Inductive, PTL

\* handleJobTermination, runJobHandler and handleJobAssignment together never leave an
\* entry of activeJobs or rooms behind a goroutine that has ended.
THEOREM RecordsNeverOutliveTheirJob == Spec => []NothingOutlivesItsJob
<1>1. IInv => NothingOutlivesItsJob
  BY DEF IInv, Records
<1> QED
  BY <1>1, Inductive, PTL

\* The callbacks find the room of an active job by its name, unless another job has been
\* stored for that room.
THEOREM RoomAlwaysKnown == Spec => []RoomOfActiveJobKnown
<1>1. IInv => RoomOfActiveJobKnown
  BY DEF IInv, Records
<1> QED
  BY <1>1, Inductive, PTL

\* A handler that runs for a job the worker has forgotten has a cancelled context, or
\* handleJobTermination is about to cancel it.
THEOREM RemovedAlwaysCancelled == Spec => []RemovedJobIsCancelled
<1>1. IInv => RemovedJobIsCancelled
  BY DEF IInv
<1> QED
  BY <1>1, Inductive, PTL

\* Whatever order the room's callback and runJobHandler report in, an ended job's last
\* status is terminal.
THEOREM EndedAlwaysReported == Spec => []EndedJobReported
<1>1. IInv => EndedJobReported
  BY DEF IInv
<1> QED
  BY <1>1, Inductive, PTL
===============================================================================
