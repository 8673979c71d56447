------------------------------- MODULE RoomCalls -------------------------------
(***************************************************************************)
(* What UniversalWorker answers about the rooms of its jobs.  A job's      *)
(* context is kept by the job's ID, its room and the tracker of its        *)
(* participants by the room's NAME; a caller looks for the context and     *)
(* then for the tracker, under a lock of their own each, and uses what it  *)
(* found without one.  Callbacks of a room look the room up by the name.   *)
(*                                                                         *)
(* A room is told by the job and by how it was connected: rooms of two     *)
(* jobs are two connections, even if they have one name.  What the room    *)
(* SDK answers about a room's participants is the room itself.             *)
(***************************************************************************)
EXTENDS Naturals, FiniteSets

CONSTANTS
    RoomJobs,       \* jobs the worker is assigned, or recovers
    RoomNames,      \* names of their rooms
    Askers,         \* goroutines that call the worker with a job's ID
    NoRoom

Rooms == RoomJobs \X {"assigned", "recovered"}

ASSUME RoomCallsAssumption == NoRoom \notin Rooms

VARIABLES
    nameOf,         \* the room name of each job
    handler,        \* how far each job has come
    recovered,      \* jobs whose context a recovery has set
    contexts,       \* w.activeJobs: the room of each job's context
    rooms,          \* w.rooms: the room of each name
    trackers,       \* w.participantTrackers: the room of the tracker of each name
    asking,         \* what each caller has found
    told            \* the room a callback was about last, and the one the handler was given

roomCallVars == <<nameOf, handler, recovered, contexts, rooms, trackers, asking, told>>

NotAsking == [step |-> "none"]

(* A caller has found a context, or has its answer: the room that gave it, and whether the *)
(* job stayed in place all the while.                                                      *)
Asking ==
    {NotAsking}
        \cup [step : {"context"}, job : RoomJobs, room : Rooms, undisturbed : BOOLEAN]
        \cup [step : {"answer"}, job : RoomJobs, room : Rooms, from : Rooms \cup {NoRoom},
              undisturbed : BOOLEAN]

RoomCallsTypeOK ==
    /\ nameOf \in [RoomJobs -> RoomNames]
    /\ handler \in [RoomJobs -> {"none", "connecting", "running", "over"}]
    /\ recovered \subseteq RoomJobs
    /\ contexts \in [RoomJobs -> Rooms \cup {NoRoom}]
    /\ rooms \in [RoomNames -> Rooms \cup {NoRoom}]
    /\ trackers \in [RoomNames -> Rooms \cup {NoRoom}]
    /\ asking \in [Askers -> Asking]
    /\ told \in [about : Rooms \cup {NoRoom}, given : Rooms \cup {NoRoom}]

RoomCallsInit ==
    /\ nameOf \in [RoomJobs -> RoomNames]
    /\ handler = [j \in RoomJobs |-> "none"]
    /\ recovered = {}
    /\ contexts = [j \in RoomJobs |-> NoRoom]
    /\ rooms = [n \in RoomNames |-> NoRoom]
    /\ trackers = [n \in RoomNames |-> NoRoom]
    /\ asking = [a \in Askers |-> NotAsking]
    /\ told = [about |-> NoRoom, given |-> NoRoom]

-------------------------------------------------------------------------------
(* Jobs.                                                                     *)

Move(j, from, to) == handler[j] = from /\ handler' = [handler EXCEPT ![j] = to]

\* The room is connected before it is recorded; its callbacks run from here on.
ConnectToRoom(j) ==
    /\ Move(j, "none", "connecting")
    /\ UNCHANGED <<nameOf, recovered, contexts, rooms, trackers, asking, told>>

\* The context, the room and a new tracker are recorded in one critical section.
handleJobAssignment(j) ==
    /\ Move(j, "connecting", "running")
    /\ contexts' = [contexts EXCEPT ![j] = <<j, "assigned">>]
    /\ rooms' = [rooms EXCEPT ![nameOf[j]] = <<j, "assigned">>]
    /\ trackers' = [trackers EXCEPT ![nameOf[j]] = <<j, "assigned">>]
    /\ UNCHANGED <<nameOf, recovered, asking, told>>

\* A recovered job gets a context with the room it was recovered to, and nothing else; its
\* handler may still run.
SetActiveJob(j) ==
    /\ handler[j] \in {"running", "over"} /\ j \notin recovered
    /\ recovered' = recovered \cup {j}
    /\ contexts' = [contexts EXCEPT ![j] = <<j, "recovered">>]
    /\ UNCHANGED <<nameOf, handler, rooms, trackers, asking, told>>

\* The records of a job's room go by its name.
Forget(j) ==
    /\ contexts' = [contexts EXCEPT ![j] = NoRoom]
    /\ rooms' = [rooms EXCEPT ![nameOf[j]] = NoRoom]
    /\ trackers' = [trackers EXCEPT ![nameOf[j]] = NoRoom]
    /\ asking' = [a \in Askers |-> IF asking[a] # NotAsking /\ asking[a].job = j
                                   THEN [asking[a] EXCEPT !.undisturbed = FALSE] ELSE asking[a]]
    /\ UNCHANGED <<nameOf, recovered, told>>

handleJobTermination(j) ==
    /\ contexts[j] # NoRoom
    /\ Forget(j)
    /\ UNCHANGED handler

\* The handler is through, of a job that was terminated too: it forgets what the job's ID
\* and the room's name stand for by now.
runJobHandlerEnds(j) ==
    /\ Move(j, "running", "over")
    /\ Forget(j)

-------------------------------------------------------------------------------
(* Calls.                                                                    *)

\* GetParticipant(), GetAllParticipants(), PublishTrack() and SendDataToParticipant() find
\* the job's context, or fail.
getJobContext(a, j) ==
    /\ asking[a] = NotAsking
    /\ contexts[j] # NoRoom
    /\ asking' = [asking EXCEPT ![a] =
            [step |-> "context", job |-> j, room |-> contexts[j], undisturbed |-> TRUE]]
    /\ UNCHANGED <<nameOf, handler, recovered, contexts, rooms, trackers, told>>

Answered(a, room) ==
    /\ asking[a].step = "context"
    /\ asking' = [asking EXCEPT ![a] =
            [step |-> "answer", job |-> asking[a].job, room |-> asking[a].room,
             from |-> room, undisturbed |-> asking[a].undisturbed]]
    /\ UNCHANGED <<nameOf, handler, recovered, contexts, rooms, trackers, told>>

\* The participants are those of the tracker's room; there may be none by now.
getParticipantTracker(a) ==
    asking[a].step = "context" /\ Answered(a, trackers[nameOf[asking[a].job]])

\* Tracks and data are published in the context's room.
PublishTo(a) == asking[a].step = "context" /\ Answered(a, asking[a].room)

Return(a) ==
    /\ asking[a].step = "answer"
    /\ asking' = [asking EXCEPT ![a] = NotAsking]
    /\ UNCHANGED <<nameOf, handler, recovered, contexts, rooms, trackers, told>>

-------------------------------------------------------------------------------
(* Callbacks of the rooms of assigned jobs: that it disconnected, and why, or that its     *)
(* metadata changed.  The handler is given the room of the name, if there is one.          *)
createRoomCallbacks(j) ==
    /\ handler[j] # "none"
    /\ told' = [about |-> <<j, "assigned">>, given |-> rooms[nameOf[j]]]
    /\ UNCHANGED <<nameOf, handler, recovered, contexts, rooms, trackers, asking>>

-------------------------------------------------------------------------------
RoomCallsNext ==
    \/ \E j \in RoomJobs :
        \/ ConnectToRoom(j) \/ handleJobAssignment(j) \/ SetActiveJob(j)
        \/ handleJobTermination(j) \/ runJobHandlerEnds(j) \/ createRoomCallbacks(j)
        \/ \E a \in Askers : getJobContext(a, j)
    \/ \E a \in Askers : getParticipantTracker(a) \/ PublishTo(a) \/ Return(a)

RoomCallsSpec == RoomCallsInit /\ [][RoomCallsNext]_roomCallVars

-------------------------------------------------------------------------------
(* Properties.                                                               *)

\* No other job has a room of this job's name.
Apart(j) == \A o \in RoomJobs \ {j} : nameOf[o] # nameOf[j]

\* A call about a job is answered by the job's own room, whatever other jobs do, unless the
\* job ended during the call, was recovered, or shares its room's name with another job:
\* those take and delete each other's records.
AnsweredByOwnRoom ==
    \A a \in Askers : asking[a].step = "answer" =>
        LET j == asking[a].job
        IN  Apart(j) /\ j \notin recovered /\ asking[a].undisturbed
                => asking[a].from = asking[a].room

\* A handler that is told of a room is given that room, or is not told at all, unless rooms
\* share their name; every room in place is recorded.
ToldOfItsRoom ==
    /\ told.about # NoRoom /\ Apart(told.about[1]) => told.given \in {told.about, NoRoom}
    /\ \A j \in RoomJobs \ recovered : Apart(j) =>
        contexts[j] = rooms[nameOf[j]] /\ contexts[j] = trackers[nameOf[j]]
===============================================================================
