---------------------------- MODULE UniversalEvents ----------------------------
(***************************************************************************)
(* UniversalEventProcessor: a bounded queue of events and one goroutine    *)
(* that hands each to the handlers of its type; and the worker's handlers  *)
(* of a room's news, which keep a record of the participants under w.mu    *)
(* and queue an event when it is released.                                 *)
(*                                                                         *)
(* Events are numbered as they are queued.  The data of an event is left   *)
(* out, but for the connection quality.                                    *)
(***************************************************************************)
EXTENDS Naturals, Sequences, SequencesExt

CONSTANTS
    EventTypes,         \* UniversalEventType
    QualityType,        \* the type of the connection quality's events
    EventHandlers,      \* handlers that may be registered
    HandlerType,        \* the type each is registered for
    Newsmen,            \* goroutines that bring the news of a room
    Attendees,          \* identities of participants
    EventCapacity,      \* of eventQueue: 1000
    MaxQueued           \* bound on the events queued

ASSUME UniversalEventsAssumption ==
    /\ QualityType \in EventTypes /\ HandlerType \in [EventHandlers -> EventTypes]
    /\ EventCapacity \in Nat \ {0} /\ MaxQueued \in Nat

VARIABLES
    registered,         \* ep.handlers, by type
    universalQueue,     \* ep.eventQueue: numbers of events
    queuedEvents,       \* every event accepted, with the handlers there were
    processor,          \* "running", "stopped", or the handlers that still run
    handledBy,          \* numbers of the events each handler was run with
    stopRequested,      \* whether ep.stopCh is closed
    attendance,         \* w.participants
    newsman             \* the participants whose event each newsman is still to queue

universalVars ==
    <<registered, universalQueue, queuedEvents, processor, handledBy, stopRequested,
      attendance, newsman>>

EventNumber == 1..MaxQueued
Absent == [known |-> FALSE, poor |-> FALSE, speaking |-> FALSE]

UniversalEventsTypeOK ==
    /\ registered \in [EventTypes -> Seq(EventHandlers)]
    /\ universalQueue \in Seq(EventNumber) /\ Len(universalQueue) <= EventCapacity
    /\ queuedEvents \in Seq([type : EventTypes, owed : SUBSET EventHandlers])
    /\ processor \in [loop : {"running", "stopped"}, event : {0} \cup EventNumber,
                      left : Seq(EventHandlers)]
    /\ handledBy \in [EventHandlers -> Seq(EventNumber)]
    /\ stopRequested \in BOOLEAN
    /\ attendance \in [Attendees -> [known : BOOLEAN, poor : BOOLEAN, speaking : BOOLEAN]]
    /\ newsman \in [Newsmen -> SUBSET Attendees]

UniversalEventsInit ==
    /\ registered = [t \in EventTypes |-> <<>>]
    /\ universalQueue = <<>> /\ queuedEvents = <<>>
    /\ processor = [loop |-> "running", event |-> 0, left |-> <<>>]
    /\ handledBy = [h \in EventHandlers |-> <<>>]
    /\ stopRequested = FALSE
    /\ attendance = [i \in Attendees |-> Absent]
    /\ newsman = [n \in Newsmen |-> {}]

-------------------------------------------------------------------------------
(* The processor.                                                            *)

RegisterEventHandler(h) ==
    /\ \A t \in EventTypes : h \notin ToSet(registered[t])
    /\ registered' = [registered EXCEPT ![HandlerType[h]] = Append(@, h)]
    /\ UNCHANGED <<universalQueue, queuedEvents, processor, handledBy, stopRequested,
                   attendance, newsman>>

\* The event that finds no room is dropped; the caller never waits.
QueueUniversalEvent(t) ==
    IF Len(universalQueue) < EventCapacity
    THEN /\ Len(queuedEvents) < MaxQueued
         /\ universalQueue' = Append(universalQueue, Len(queuedEvents) + 1)
         /\ queuedEvents' = Append(queuedEvents, [type |-> t, owed |-> ToSet(registered[t])])
    ELSE UNCHANGED <<universalQueue, queuedEvents>>

\* handleTrackPublished(), handleTrackUnpublished(), handleMetadataChanged(), or a handler.
QueueTypedEvent(t) ==
    /\ QueueUniversalEvent(t)
    /\ UNCHANGED <<registered, processor, handledBy, stopRequested, attendance, newsman>>

\* The handlers are those there are when the event is taken.
ProcessEvents ==
    /\ processor.loop = "running" /\ processor.event = 0
    /\ universalQueue # <<>>
    /\ LET handlers == registered[queuedEvents[Head(universalQueue)].type]
       IN  processor' = [processor EXCEPT
                !.event = IF handlers = <<>> THEN 0 ELSE Head(universalQueue),
                !.left = handlers]
    /\ universalQueue' = Tail(universalQueue)
    /\ UNCHANGED <<registered, queuedEvents, handledBy, stopRequested, attendance, newsman>>

\* One after the other, outside the lock; an error stops none.
EventHandlerRuns ==
    /\ processor.event # 0
    /\ handledBy' = [handledBy EXCEPT ![Head(processor.left)] = Append(@, processor.event)]
    /\ processor' = [processor EXCEPT !.left = Tail(@),
                        !.event = IF Len(processor.left) = 1 THEN 0 ELSE @]
    /\ UNCHANGED <<registered, universalQueue, queuedEvents, stopRequested, attendance, newsman>>

StopProcessor ==
    /\ ~stopRequested
    /\ stopRequested' = TRUE
    /\ UNCHANGED <<registered, universalQueue, queuedEvents, processor, handledBy, attendance,
                   newsman>>

\* Between two events only; what is queued stays there.
ProcessorLeaves ==
    /\ stopRequested
    /\ processor.loop = "running" /\ processor.event = 0
    /\ processor' = [processor EXCEPT !.loop = "stopped"]
    /\ UNCHANGED <<registered, universalQueue, queuedEvents, handledBy, stopRequested,
                   attendance, newsman>>

-------------------------------------------------------------------------------
(* News of the room.                                                         *)

HandleParticipantJoined(i) ==
    /\ attendance' = [attendance EXCEPT ![i] = [Absent EXCEPT !.known = TRUE]]
    /\ UNCHANGED <<registered, universalQueue, queuedEvents, processor, handledBy,
                   stopRequested, newsman>>

HandleParticipantLeft(i) ==
    /\ attendance' = [attendance EXCEPT ![i] = Absent]
    /\ UNCHANGED <<registered, universalQueue, queuedEvents, processor, handledBy,
                   stopRequested, newsman>>

\* The record first, under the lock; nothing is recorded of someone unknown.
HandleConnectionQualityChanged(n, i, poor) ==
    /\ newsman[n] = {}
    /\ attendance' = IF attendance[i].known THEN [attendance EXCEPT ![i].poor = poor] ELSE attendance
    /\ newsman' = [newsman EXCEPT ![n] = {i}]
    /\ UNCHANGED <<registered, universalQueue, queuedEvents, processor, handledBy, stopRequested>>

\* The event after it, whether or not there was a record.
QualityEventQueued(n) ==
    /\ newsman[n] # {}
    /\ QueueUniversalEvent(QualityType)
    /\ newsman' = [newsman EXCEPT ![n] = {}]
    /\ UNCHANGED <<registered, processor, handledBy, stopRequested, attendance>>

\* Speakers are marked; nobody is unmarked.
HandleActiveSpeakersChanged(speakers) ==
    /\ attendance' = [i \in Attendees |->
            IF i \in speakers /\ attendance[i].known
            THEN [attendance[i] EXCEPT !.speaking = TRUE] ELSE attendance[i]]
    /\ UNCHANGED <<registered, universalQueue, queuedEvents, processor, handledBy,
                   stopRequested, newsman>>

UniversalEventsNext ==
    \/ \E h \in EventHandlers : RegisterEventHandler(h)
    \/ \E t \in EventTypes : QueueTypedEvent(t)
    \/ ProcessEvents \/ EventHandlerRuns \/ StopProcessor \/ ProcessorLeaves
    \/ \E i \in Attendees : HandleParticipantJoined(i) \/ HandleParticipantLeft(i)
    \/ \E n \in Newsmen :
        \/ \E i \in Attendees, poor \in BOOLEAN : HandleConnectionQualityChanged(n, i, poor)
        \/ QualityEventQueued(n)
    \/ \E speakers \in SUBSET Attendees : HandleActiveSpeakersChanged(speakers)

UniversalEventsSpec == UniversalEventsInit /\ [][UniversalEventsNext]_universalVars

-------------------------------------------------------------------------------
(* Properties.                                                               *)

Owed(h, n) == n \in DOMAIN queuedEvents /\ h \in queuedEvents[n].owed

Due(h) == IF processor.event # 0 /\ h \in ToSet(processor.left) THEN <<processor.event>> ELSE <<>>

\* What a handler was run with, is about to be run with and what the queue holds is in the
\* order it was queued, nothing twice; what it was and is about to be run with is of its
\* type; and every event of its type accepted after it was registered is among them.
HandledInOrder ==
    \A h \in EventHandlers :
        LET taken == handledBy[h] \o Due(h)
            all == taken \o universalQueue
        IN  /\ \A m, n \in DOMAIN all : m < n => all[m] < all[n]
            /\ \A n \in DOMAIN taken : queuedEvents[taken[n]].type = HandlerType[h]
            /\ \A n \in DOMAIN queuedEvents : Owed(h, n) =>
                   n \in ToSet(all) /\ queuedEvents[n].type = HandlerType[h]

\* Nothing is kept of someone who is not in the room.
OnlyKnownRecorded == \A i \in Attendees : ~attendance[i].known => attendance[i] = Absent
===============================================================================
