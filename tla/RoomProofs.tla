------------------------------ MODULE RoomProofs ------------------------------
(***************************************************************************)
(* Of what the SDK keeps of a room, for any number of participants, tracks *)
(* and groups: a membership is recorded on both sides, one loop adapts the *)
(* quality while a track is monitored, an event is in one place and its    *)
(* batch has a timer, and the records of the tracks agree with the SDK's;  *)
(* what is answered about a job is of the job's room, who is present is    *)
(* known, and the worker that is picked has the least load; the quality a  *)
(* record names was asked for and is within the policy, and a filter that  *)
(* is added only refuses.  The worker's events are handled in order, the   *)
(* coordinator's book follows who is there, and the history of permissions *)
(* explains what each participant has.  An event is handed to all handlers *)
(* of its type, no minute lets through more events than it may, the graph  *)
(* counts each interaction, a connection called stable is what it is on    *)
(* average; and, together, all that the composition RoomOK claims.         *)
(***************************************************************************)
EXTENDS MCRoom, SharedLemmas

-------------------------------------------------------------------------------
(* Proof that the memberships mirror each other.                             *)

MembershipTypes ==
    /\ listed \in [Identities -> SUBSET GroupIds]
    /\ members \in [GroupIds -> SUBSET Identities]

GroupsInv == MembershipTypes /\ GroupsMirror

LEMMA GroupsInit == CoordinatorInit => GroupsInv
BY DEF CoordinatorInit, GroupsInv, MembershipTypes, GroupsMirror, GroupsOf, MembersOf

LEMMA GroupsStep == GroupsInv /\ [CoordinatorNext]_coordinatorVars => GroupsInv'
<1> SUFFICES ASSUME GroupsInv, [CoordinatorNext]_coordinatorVars
             PROVE  GroupsInv'
    OBVIOUS
<1> USE DEF GroupsInv, MembershipTypes, GroupsMirror, GroupsOf, MembersOf
<1>1. CASE UNCHANGED <<participants, listed, groups, members, renewed>>
    BY <1>1
<1>2. ASSUME NEW p \in Identities, RegisterParticipant(p)
      PROVE  GroupsInv'
    BY <1>2 DEF RegisterParticipant
<1>3. ASSUME NEW p \in Identities, UnregisterParticipant(p)
      PROVE  GroupsInv'
    <2> DEFINE left == [g \in GroupIds |-> IF g \in listed[p] THEN members[g] \ {p} ELSE members[g]]
               emptied == {g \in listed[p] : left[g] = {}}
    <2>1. /\ members' = left /\ groups' = groups \ emptied
          /\ participants' = participants \ {p}
          /\ listed' = [listed EXCEPT ![p] = {}] /\ renewed' = renewed
        BY <1>3 DEF UnregisterParticipant, LeaveGroups
    <2>2. MembershipTypes'
        BY <2>1
    <2> SUFFICES ASSUME NEW q \in Identities, NEW g \in GroupIds
                 PROVE  (/\ g \in listed[q] => q \in participants /\ g \in groups /\ q \in members[g]
                         /\ q \in MembersOf(g) /\ q \notin renewed => g \in GroupsOf(q))'
        BY <2>2
    <2>3. CASE q = p
        BY <2>1, <2>3
    <2>4. CASE q # p
        \* Whoever still lists a group the participant left is still in it.
        <3>1. g \in listed[q] => q \in left[g] /\ g \notin emptied
            BY <2>4
        <3>2. q \in left[g] => q \in members[g]
            OBVIOUS
        <3>3. QED
            BY <2>1, <2>4, <3>1, <3>2
    <2>5. QED
        BY <2>3, <2>4
<1>4. ASSUME NEW g \in GroupIds, NEW max \in GroupLimits \cup {0}, CreateGroup(g, max)
      PROVE  GroupsInv'
    BY <1>4 DEF CreateGroup
<1>5. ASSUME NEW p \in Identities, NEW g \in GroupIds, AddParticipantToGroup(p, g)
      PROVE  GroupsInv'
    BY <1>5 DEF AddParticipantToGroup
<1>6. ASSUME NEW p \in Identities, NEW g \in GroupIds, RemoveParticipantFromGroup(p, g)
      PROVE  GroupsInv'
    BY <1>6 DEF RemoveParticipantFromGroup
<1>7. CASE CoordinatorStop
    BY <1>7 DEF CoordinatorStop
<1>8. CASE ActivityNext
    BY <1>1, <1>8 DEF ActivityNext, UpdateParticipantActivity, FallsQuiet, AddCoordinationRule
<1>9. CASE BookNext
    BY <1>1, <1>9 DEF BookNext, RegisterBookHandlers, HandlerRuns, RecordInteraction
<1>10. QED
    BY <1>1, <1>2, <1>3, <1>4, <1>5, <1>6, <1>7, <1>8, <1>9
    DEF CoordinatorNext, ParticipantsNext, GroupsNext, coordinatorVars

(* For any participants, groups and limits, and through any sequence of    *)
(* operations, a membership recorded with the participant is recorded with *)
(* the group, and the other way round but for those registered again.      *)
THEOREM MembershipsMirror == CoordinatorSpec => []GroupsMirror
<1>1. GroupsInv => GroupsMirror
    BY DEF GroupsInv
<1>2. QED
    BY <1>1, GroupsInit, GroupsStep, PTL DEF CoordinatorSpec

-------------------------------------------------------------------------------
(* One loop while there are tracks.                                         *)

\* What OneLoopWhileMonitored rests on: while StopMonitoring waits nothing is monitored and
\* the loop may end, and at any other time a loop runs exactly while a track is monitored.
LoopWhileMonitored ==
    /\ monitors \in [Tracks -> Monitors \cup {NoMonitor}]
    /\ loop \in [Loops -> LoopPc]
    /\ stopping \in BOOLEAN /\ stopClosed = stopping
    /\ stopping => Monitored = {}
    /\ ~stopping => (Monitored = {} <=> Running = {})
    /\ \A k, l \in Running : k = l

LEMMA LoopInit == QualityInit => LoopWhileMonitored
<1> SUFFICES ASSUME QualityInit PROVE LoopWhileMonitored
    OBVIOUS
<1>1. Monitored = {} /\ Running = {}
    BY DEF QualityInit, Monitored, Running
<1> QED
    BY <1>1 DEF QualityInit, LoopWhileMonitored, LoopPc

\* A loop that only goes from one of its places to another runs before and after.
LEMMA LoopMoves ==
    ASSUME LoopWhileMonitored, NEW l \in Loops, NEW from \in LoopPc \ {"none"},
           NEW to \in LoopPc \ {"none"}, Goto(l, from, to),
           UNCHANGED <<monitors, stopping, stopClosed>>
    PROVE  LoopWhileMonitored'
<1>1. loop' \in [Loops -> LoopPc] /\ Running' = Running
    BY DEF LoopWhileMonitored, Goto, Running, LoopPc
<1> QED
    BY <1>1 DEF LoopWhileMonitored, Monitored

LEMMA LoopStepKeeps ==
    ASSUME LoopWhileMonitored, NEW l \in Loops, LoopStep(l)
    PROVE  LoopWhileMonitored'
<1>1. CASE LoopTicks(l)
    BY <1>1, LoopMoves DEF LoopTicks, LoopPc
<1>2. CASE LoopEnds(l)
    <2>1. stopping /\ loop' \in [Loops -> LoopPc] /\ Running' \subseteq Running
        BY <1>2 DEF LoopEnds, LoopWhileMonitored, Goto, Running, LoopPc
    <2> QED
        BY <1>2, <2>1 DEF LoopEnds, LoopWhileMonitored, Monitored
<1>3. CASE LoopCopies(l)
    BY <1>3, LoopMoves DEF LoopCopies, LoopPc
<1>4. CASE LoopUpdates(l)
    BY <1>4 DEF LoopUpdates, LoopWhileMonitored, Monitored, Running
<1>5. CASE LoopDone(l)
    BY <1>5, LoopMoves DEF LoopDone, LoopPc
<1> QED
    BY <1>1, <1>2, <1>3, <1>4, <1>5 DEF LoopStep

LEMMA LoopKept ==
    LoopWhileMonitored /\ [QualityNext]_qualityVars => LoopWhileMonitored'
<1> SUFFICES ASSUME LoopWhileMonitored, [QualityNext]_qualityVars
             PROVE  LoopWhileMonitored'
    OBVIOUS
<1>1. CASE UNCHANGED <<monitors, stopClosed, stopping, loop>>
    BY <1>1 DEF LoopWhileMonitored, Monitored, Running
<1>2. ASSUME NEW p \in Policies, SetAdaptationPolicy(p)
      PROVE  LoopWhileMonitored'
    BY <1>1, <1>2 DEF SetAdaptationPolicy
<1>3. ASSUME NEW t \in Tracks, StartMonitoring(t)
      PROVE  LoopWhileMonitored'
    <2>1. /\ ~stopping /\ UNCHANGED <<stopping, stopClosed>>
          /\ monitors' \in [Tracks -> Monitors \cup {NoMonitor}]
          /\ t \in Monitored'
        BY <1>3, QualityAssumption DEF StartMonitoring, LoopWhileMonitored, Monitored
    <2>2. CASE Monitored = {}
        <3>1. PICK l \in Loops : loop' = [loop EXCEPT ![l] = "select"]
            BY <1>3, <2>2 DEF StartMonitoring, StartLoop
        <3>2. Running = {} /\ Running' = {l} /\ loop' \in [Loops -> LoopPc]
            BY <2>1, <2>2, <3>1 DEF LoopWhileMonitored, Running, LoopPc
        <3> QED
            BY <2>1, <3>2 DEF LoopWhileMonitored
    <2>3. CASE Monitored # {}
        <3>1. loop' = loop /\ Running' = Running
            BY <1>3, <2>3 DEF StartMonitoring, StartLoop, Running
        <3> QED
            BY <2>1, <2>3, <3>1 DEF LoopWhileMonitored
    <2> QED
        BY <2>2, <2>3
<1>4. ASSUME NEW t \in Tracks, StopMonitoring(t)
      PROVE  LoopWhileMonitored'
    <2>1. /\ monitors' \in [Tracks -> Monitors \cup {NoMonitor}]
          /\ Monitored' = Monitored \ {t} /\ Running' = Running
        BY <1>4 DEF StopMonitoring, LoopWhileMonitored, Monitored, Running
    <2>2. ~stopping /\ loop' = loop /\ stopping' = (Monitored \subseteq {t})
          /\ stopClosed' = stopping'
        BY <1>4 DEF StopMonitoring
    <2> QED
        BY <2>1, <2>2 DEF LoopWhileMonitored
<1>5. CASE StopReturns
    BY <1>5 DEF StopReturns, LoopWhileMonitored, Monitored, Running
<1>6. ASSUME NEW t \in Tracks, NEW e \in BOOLEAN, EnableAdaptation(t, e)
      PROVE  LoopWhileMonitored'
    BY <1>1, <1>6 DEF EnableAdaptation
<1> QED
    BY <1>1, <1>2, <1>3, <1>4, <1>5, <1>6, LoopStepKeeps DEF QualityNext, qualityVars

(* For any number of tracks, and however many goroutines there could be:   *)
(* one loop runs as long as a track is monitored, and none when the last   *)
(* StopMonitoring has returned.                                            *)
THEOREM OneLoopAlways == QualitySpec => []OneLoopWhileMonitored
<1>1. LoopWhileMonitored => OneLoopWhileMonitored
    <2> SUFFICES ASSUME LoopWhileMonitored, ~stopping
                 PROVE  Cardinality(Running) = IF Monitored = {} THEN 0 ELSE 1
        BY DEF OneLoopWhileMonitored
    <2>1. CASE Monitored = {}
        BY <2>1, FS_EmptySet DEF LoopWhileMonitored
    <2>2. CASE Monitored # {}
        <3>1. PICK l \in Running : Running = {l}
            BY <2>2 DEF LoopWhileMonitored
        <3> QED
            BY <2>2, <3>1, FS_Singleton
    <2> QED
        BY <2>1, <2>2
<1> QED
    BY <1>1, LoopInit, LoopKept, PTL DEF QualitySpec

-------------------------------------------------------------------------------
(* A batch and its timer.                                                    *)

\* What BatchHasTimer rests on: it holds wherever the batcher is, for the timer that a
\* batch got first is counted, armed, stray or fired, until its function has run.
TimerCounted ==
    /\ strayTimers \in Nat /\ runningTimers \in Nat
    /\ timer \in {"none", "armed", "fired"}
    /\ hasBatch => timer = "armed" \/ strayTimers > 0 \/ runningTimers > 0

LEMMA TimerKept == TimerCounted /\ [~sendPanicked /\ EventsNext]_eventVars => TimerCounted'
<1> SUFFICES ASSUME TimerCounted, [~sendPanicked /\ EventsNext]_eventVars
             PROVE  TimerCounted'
    OBVIOUS
<1> USE DEF TimerCounted
<1>1. CASE UNCHANGED <<hasBatch, timer, strayTimers, runningTimers>>
    BY <1>1
<1>2. CASE BatcherTakes
    BY <1>2 DEF BatcherTakes
<1>3. CASE BatcherChecks
    BY <1>3 DEF BatcherChecks
<1>4. CASE BatcherEnds
    BY <1>4 DEF BatcherEnds
<1>5. CASE TimerFires
    BY <1>5 DEF TimerFires
<1>6. CASE TimerFlushes
    BY <1>6 DEF TimerFlushes
<1> QED
    BY <1>1, <1>2, <1>3, <1>4, <1>5, <1>6
    DEF EventsNext, eventVars, batchVars, QueueEvent, Sent, SendTimesOut, WorkerTakes,
        WorkerHandles, WorkerEnds, ProcessPendingEvent, EventsStop, EventsStopReturns

(* For any sizes of the batch and the queue: a batch never waits without a *)
(* timer that will flush it, whatever batches older timers have flushed.   *)
THEOREM BatchAlwaysHasTimer == EventsSpec => []BatchHasTimer
<1>1. EventsInit => TimerCounted
    BY DEF EventsInit, TimerCounted
<1>2. TimerCounted => BatchHasTimer
    BY DEF TimerCounted, BatchHasTimer
<1> QED
    BY <1>1, <1>2, TimerKept, PTL DEF EventsSpec

-------------------------------------------------------------------------------
(* Every event is in one place.                                             *)

\* The places of EachEventInOnePlace, as sets that make up 1..n and are disjoint.
Parted(C, L, Q, W, H, B, D, n) ==
    /\ C \cup L \cup Q \cup W \cup H \cup B \cup D = 1..n
    /\ C \cap (L \cup Q \cup W \cup H \cup B \cup D) = {}
    /\ L \cap (Q \cup W \cup H \cup B \cup D) = {}
    /\ Q \cap (W \cup H \cup B \cup D) = {}
    /\ W \cap (H \cup B \cup D) = {}
    /\ H \cap (B \cup D) = {}
    /\ B \cap D = {}

\* Zero events may repeat.
NoneTwice(b) == \A i, j \in DOMAIN b : b[i] = b[j] /\ b[i] # 0 => i = j

\* What it rests on: no two callers send one event, and no sequence holds one twice.
EventsApart ==
    /\ accepted \in Nat
    /\ sending \in [Callers -> Nat]
    /\ \A c, d \in Callers : sending[c] = sending[d] /\ sending[c] # 0 => c = d
    /\ eventQueue \in Seq(Nat \ {0}) /\ IsInjective(eventQueue)
    /\ handling \in Nat /\ (worker = "handle" <=> handling # 0)
    /\ batch \in Seq(Nat) /\ NoneTwice(batch)
    /\ \A b \in batched : NoneTwice(b)
    /\ Parted(InCallers, lost, InQueue, InWorker, handled, InBatch, InBatches, accepted)

LEMMA ApartIsOnePlace == EventsApart => EachEventInOnePlace
<1> SUFFICES ASSUME EventsApart PROVE EachEventInOnePlace
    OBVIOUS
<1> DEFINE places == <<InCallers, lost, InQueue, InWorker, handled, InBatch, InBatches>>
<1>1. DOMAIN places = 1..7
    OBVIOUS
<1>2. /\ places[1] = InCallers /\ places[2] = lost /\ places[3] = InQueue
      /\ places[4] = InWorker /\ places[5] = handled /\ places[6] = InBatch
      /\ places[7] = InBatches
    OBVIOUS
<1>3. Parted(places[1], places[2], places[3], places[4], places[5], places[6], places[7],
             accepted)
    BY <1>2 DEF EventsApart
<1> HIDE DEF places
<1>4. UNION {places[i] : i \in DOMAIN places} = 1..accepted
    <2>1. {places[i] : i \in DOMAIN places}
            = {places[1], places[2], places[3], places[4], places[5], places[6], places[7]}
        BY <1>1
    <2> QED
        BY <1>3, <2>1 DEF Parted
<1>5. \A i, j \in DOMAIN places : i # j => places[i] \cap places[j] = {}
    <2>1. \A i \in 1..7 : \A j \in 1..7 : i < j => places[i] \cap places[j] = {}
        BY <1>3 DEF Parted
    <2> QED
        BY <1>1, <2>1
<1>6. \A b \in batched \cup {batch} : NoneTwice(b)
    BY DEF EventsApart
<1> QED
    BY <1>4, <1>5, <1>6 DEF EachEventInOnePlace, places, NoneTwice

LEMMA ApartInit == EventsInit => EventsApart
<1> SUFFICES ASSUME EventsInit PROVE EventsApart
    OBVIOUS
<1>1. InCallers = {} /\ InWorker = {} /\ InQueue = {} /\ InBatch = {} /\ InBatches = {}
    BY DEF EventsInit, InCallers, InWorker, InQueue, InBatch, InBatches
<1>2. Parted(InCallers, lost, InQueue, InWorker, handled, InBatch, InBatches, accepted)
    BY <1>1 DEF EventsInit, Parted
<1> QED
    BY <1>2 DEF EventsInit, EventsApart, NoneTwice, IsInjective

\* A receive: what is taken leaves the queue, and it is the zero event or was there.
LEMMA ReceiveTakes ==
    ASSUME EventsApart, NEW e, Receive(e)
    PROVE  /\ e \in Nat /\ 0 \notin InQueue
           /\ {e} \ {0} \subseteq InQueue /\ InQueue' = InQueue \ {e}
           /\ eventQueue' \in Seq(Nat \ {0}) /\ IsInjective(eventQueue')
<1> USE DEF EventsApart
<1>1. InQueue = Range(eventQueue) /\ InQueue' = Range(eventQueue')
    BY DEF InQueue, Range
<1>2. 0 \notin InQueue
    BY DEF InQueue
<1>3. CASE eventQueue # <<>> /\ e = Head(eventQueue) /\ eventQueue' = Tail(eventQueue)
    BY <1>1, <1>2, <1>3, TakesHead
<1>4. CASE eventQueue = <<>> /\ e = 0 /\ eventQueue' = eventQueue
    BY <1>1, <1>2, <1>4
<1> QED
    BY <1>3, <1>4 DEF Receive

LEMMA CallerKeepsApart ==
    ASSUME EventsApart, NEW c \in Callers, QueueEvent(c) \/ Sent(c) \/ SendTimesOut(c)
    PROVE  EventsApart'
<1> USE DEF EventsApart
<1>0. UNCHANGED <<handling, handled, worker, batch, batched>>
    BY DEF QueueEvent, Sent, SendTimesOut, workerVars, batchVars
<1>1. /\ UNCHANGED <<handling, handled, worker, batch, batched>>
      /\ InWorker' = InWorker /\ InBatch' = InBatch /\ InBatches' = InBatches
    BY <1>0 DEF InWorker, InBatch, InBatches
<1>2. CASE QueueEvent(c)
    <2> DEFINE n == accepted + 1
    <2>1. accepted' = n /\ n \in Nat /\ 1..n = 1..accepted \cup {n} /\ n \notin 1..accepted
        BY <1>2 DEF QueueEvent
    <2>2. UNCHANGED eventQueue /\ InQueue' = InQueue
        BY <1>2 DEF QueueEvent, InQueue
    <2>3. CASE sending' = [sending EXCEPT ![c] = n] /\ lost' = lost
        <3>1. InCallers' = InCallers \cup {n}
            BY <1>2, <2>1, <2>3 DEF QueueEvent, InCallers
        <3>2. \A d \in Callers : sending[d] # n
            BY <2>1 DEF Parted, InCallers
        <3>3. Parted(InCallers, lost, InQueue, InWorker, handled, InBatch, InBatches, accepted)'
            BY <1>1, <2>1, <2>2, <2>3, <3>1 DEF Parted
        <3> QED
            BY <1>1, <2>1, <2>2, <2>3, <3>2, <3>3
    <2>4. CASE sending' = sending /\ lost' = lost \cup {n}
        <3>1. InCallers' = InCallers
            BY <2>4 DEF InCallers
        <3>2. Parted(InCallers, lost, InQueue, InWorker, handled, InBatch, InBatches, accepted)'
            BY <1>1, <2>1, <2>2, <2>4, <3>1 DEF Parted
        <3> QED
            BY <1>1, <2>1, <2>2, <2>4, <3>2
    <2> QED
        BY <1>2, <2>3, <2>4 DEF QueueEvent
<1>3. CASE Sent(c) \/ SendTimesOut(c)
    <2> DEFINE e == sending[c]
    <2>1. /\ e \in Nat \ {0} /\ sending' = [sending EXCEPT ![c] = 0] /\ accepted' = accepted
          /\ \/ lost' = lost \cup {e} /\ eventQueue' = eventQueue
             \/ lost' = lost /\ eventQueue' = Append(eventQueue, e)
        BY <1>3 DEF Sent, SendTimesOut
    <2>2. e \in InCallers /\ InCallers' = InCallers \ {e}
        BY <2>1 DEF InCallers
    <2>3. /\ sending' \in [Callers -> Nat]
          /\ \A d, f \in Callers : sending'[d] = sending'[f] /\ sending'[d] # 0 => d = f
        BY <2>1
    <2>4. InQueue = Range(eventQueue) /\ InQueue' = Range(eventQueue')
        BY DEF InQueue, Range
    <2>5. CASE lost' = lost \cup {e} /\ eventQueue' = eventQueue
        <3>1. Parted(InCallers, lost, InQueue, InWorker, handled, InBatch, InBatches, accepted)'
            BY <1>1, <2>1, <2>2, <2>4, <2>5 DEF Parted
        <3> QED
            BY <1>1, <2>1, <2>3, <2>5, <3>1
    <2>6. CASE lost' = lost /\ eventQueue' = Append(eventQueue, e)
        <3>1. e \notin Range(eventQueue)
            BY <2>2, <2>4 DEF Parted
        <3>2. /\ eventQueue' \in Seq(Nat \ {0}) /\ IsInjective(eventQueue')
              /\ InQueue' = InQueue \cup {e}
            BY <2>1, <2>4, <2>6, <3>1, AppendsNew
        <3>3. Parted(InCallers, lost, InQueue, InWorker, handled, InBatch, InBatches, accepted)'
            BY <1>1, <2>1, <2>2, <2>6, <3>2 DEF Parted
        <3> QED
            BY <1>1, <2>1, <2>3, <2>6, <3>2, <3>3
    <2> QED
        BY <2>1, <2>5, <2>6
<1> QED
    BY <1>2, <1>3

LEMMA WorkerKeepsApart ==
    ASSUME EventsApart, WorkerTakes \/ WorkerHandles \/ WorkerEnds \/ ProcessPendingEvent
    PROVE  EventsApart'
<1> USE DEF EventsApart
<1>1. /\ UNCHANGED <<accepted, sending, lost, batch, batched>>
      /\ InCallers' = InCallers /\ InBatch' = InBatch /\ InBatches' = InBatches
    BY DEF WorkerTakes, WorkerHandles, WorkerEnds, ProcessPendingEvent, callerVars, batchVars,
           InCallers, InBatch, InBatches
<1>2. CASE WorkerTakes
    <2> DEFINE e == Head(eventQueue)
    <2>1. Receive(e) /\ handling' = e /\ worker' = "handle" /\ handled' = handled
          /\ handling = 0 /\ InWorker = {}
        BY <1>2 DEF WorkerTakes, InWorker
    <2>2. e # 0 /\ e \in Nat
        BY <1>2 DEF WorkerTakes
    <2>3. /\ e \in InQueue /\ InQueue' = InQueue \ {e}
          /\ eventQueue' \in Seq(Nat \ {0}) /\ IsInjective(eventQueue')
        BY <2>1, <2>2, ReceiveTakes
    <2>4. InWorker' = {e}
        BY <2>1, <2>2 DEF InWorker
    <2>5. Parted(InCallers, lost, InQueue, InWorker, handled, InBatch, InBatches, accepted)'
        BY <1>1, <2>1, <2>3, <2>4 DEF Parted
    <2> QED
        BY <1>1, <2>1, <2>2, <2>3, <2>5
<1>3. CASE WorkerHandles
    <2>1. /\ handled' = handled \cup InWorker /\ InWorker' = {} /\ handling' = 0
          /\ worker' = "select" /\ eventQueue' = eventQueue /\ InQueue' = InQueue
        BY <1>3 DEF WorkerHandles, InWorker, InQueue
    <2>2. Parted(InCallers, lost, InQueue, InWorker, handled, InBatch, InBatches, accepted)'
        BY <1>1, <2>1 DEF Parted
    <2> QED
        BY <1>1, <2>1, <2>2
<1>4. CASE WorkerEnds
    BY <1>1, <1>4 DEF WorkerEnds, InQueue, InWorker
<1>5. CASE ProcessPendingEvent
    <2>1. PICK e : Receive(e) /\ handled' = handled \cup ({e} \ {0})
        BY <1>5 DEF ProcessPendingEvent
    <2>2. UNCHANGED <<handling, worker>> /\ InWorker' = InWorker
        BY <1>5 DEF ProcessPendingEvent, InWorker
    <2>3. /\ {e} \ {0} \subseteq InQueue /\ InQueue' = InQueue \ {e} /\ 0 \notin InQueue
          /\ eventQueue' \in Seq(Nat \ {0}) /\ IsInjective(eventQueue')
        BY <2>1, ReceiveTakes
    <2>4. Parted(InCallers, lost, InQueue, InWorker, handled, InBatch, InBatches, accepted)'
        BY <1>1, <2>1, <2>2, <2>3 DEF Parted
    <2> QED
        BY <1>1, <2>2, <2>3, <2>4
<1> QED
    BY <1>2, <1>3, <1>4, <1>5

\* A batch that is processed goes to the others, and an empty one is left.
LEMMA BatchProcessed ==
    ASSUME EventsApart, batch' = <<>>,
           batched' = batched \cup {batch} \/ (batch = <<>> /\ batched' = batched),
           UNCHANGED <<callerVars, workerVars, eventQueue>>
    PROVE  EventsApart'
<1> USE DEF EventsApart
<1>1. /\ UNCHANGED <<accepted, sending, lost, handling, handled, worker, eventQueue>>
      /\ InCallers' = InCallers /\ InQueue' = InQueue /\ InWorker' = InWorker
    BY DEF callerVars, workerVars, InCallers, InQueue, InWorker
<1>2. InBatch' = {} /\ InBatches' = InBatches \cup InBatch
    <2>1. InBatch' = {} /\ (batch = <<>> => InBatch = {})
        BY DEF InBatch
    <2>2. CASE batched' = batched \cup {batch}
        <3> DEFINE All(b) == {b[i] : i \in DOMAIN b}
        <3>1. /\ InBatch = All(batch) \ {0}
              /\ InBatches = (UNION {All(b) : b \in batched}) \ {0}
              /\ InBatches' = (UNION {All(b) : b \in batched'}) \ {0}
            BY DEF InBatch, InBatches
        <3> HIDE DEF All
        <3>2. ASSUME NEW x
              PROVE  x \in InBatches' <=> x \in InBatches \cup InBatch
            BY <2>2, <3>1
        <3> QED
            BY <2>1, <3>2
    <2>3. CASE batch = <<>> /\ batched' = batched
        BY <2>1, <2>3 DEF InBatches
    <2> QED
        BY <2>1, <2>2, <2>3
<1>3. Parted(InCallers, lost, InQueue, InWorker, handled, InBatch, InBatches, accepted)'
    BY <1>1, <1>2 DEF Parted
<1>4. batch' \in Seq(Nat) /\ NoneTwice(batch')
    BY DEF NoneTwice
<1> QED
    BY <1>1, <1>3, <1>4

LEMMA BatcherKeepsApart ==
    ASSUME EventsApart, BatcherTakes \/ BatcherChecks \/ BatcherEnds \/ TimerFires \/ TimerFlushes
    PROVE  EventsApart'
<1>1. CASE BatcherTakes
    <2> USE DEF EventsApart
    <2>1. PICK e : Receive(e) /\ batch' = Append(batch, e)
        BY <1>1 DEF BatcherTakes
    <2>2. /\ UNCHANGED <<accepted, sending, lost, handling, handled, worker, batched>>
          /\ InCallers' = InCallers /\ InWorker' = InWorker /\ InBatches' = InBatches
        BY <1>1 DEF BatcherTakes, callerVars, workerVars, InCallers, InWorker, InBatches
    <2>3. /\ e \in Nat /\ 0 \notin InQueue
          /\ {e} \ {0} \subseteq InQueue /\ InQueue' = InQueue \ {e}
          /\ eventQueue' \in Seq(Nat \ {0}) /\ IsInjective(eventQueue')
        BY <2>1, ReceiveTakes
    <2>4. /\ Len(batch') = Len(batch) + 1 /\ Len(batch) \in Nat /\ batch' \in Seq(Nat)
          /\ DOMAIN batch = 1..Len(batch) /\ DOMAIN batch' = 1..Len(batch) + 1
          /\ \A i \in DOMAIN batch : batch'[i] = batch[i]
          /\ batch'[Len(batch) + 1] = e
        BY <2>1, <2>3
    <2>5. InBatch' = InBatch \cup ({e} \ {0})
        <3>1. InBatch = Range(batch) \ {0} /\ InBatch' = Range(batch') \ {0}
            BY DEF InBatch, Range
        <3> QED
            <4> HIDE DEF EventsApart
            <4>1. Range(batch') = Range(batch) \cup {e}
                <5>1. batch \in Seq(Nat)
                    BY DEF EventsApart
                <5>2. Range(Append(batch, e)) = Range(batch) \cup {e}
                    BY <2>3, <5>1, AppendRange
                <5> QED
                    BY <2>1, <5>2
            <4> QED
                BY <3>1, <4>1
    <2>6. NoneTwice(batch')
        <3>1. e # 0 => \A i \in DOMAIN batch : batch[i] # e
            BY <2>3 DEF Parted, InBatch
        <3> QED
            <4>1. ASSUME NEW i \in DOMAIN batch', NEW j \in DOMAIN batch',
                         batch'[i] = batch'[j], batch'[i] # 0, i # j
                  PROVE  FALSE
                <5>1. CASE i \in DOMAIN batch /\ j \in DOMAIN batch
                    BY <2>4, <4>1, <5>1 DEF NoneTwice
                <5>2. CASE i \notin DOMAIN batch \/ j \notin DOMAIN batch
                    BY <2>4, <3>1, <4>1, <5>2
                <5> QED
                    BY <5>1, <5>2
            <4> QED
                BY <4>1 DEF NoneTwice
    <2>7. Parted(InCallers, lost, InQueue, InWorker, handled, InBatch, InBatches, accepted)'
        BY <2>2, <2>3, <2>5 DEF Parted
    <2> QED
        BY <2>2, <2>3, <2>4, <2>6, <2>7
<1>2. CASE UNCHANGED <<callerVars, workerVars, eventQueue, batch, batched>>
    BY <1>2 DEF EventsApart, callerVars, workerVars, InCallers, InQueue, InWorker, InBatch,
                InBatches
<1>3. CASE BatcherChecks
    BY <1>2, <1>3, BatchProcessed DEF BatcherChecks
<1>4. CASE BatcherEnds
    BY <1>4, BatchProcessed DEF BatcherEnds
<1>5. CASE TimerFires
    BY <1>2, <1>5 DEF TimerFires
<1>6. CASE TimerFlushes
    BY <1>6, BatchProcessed DEF TimerFlushes
<1> QED
    BY <1>1, <1>3, <1>4, <1>5, <1>6

(* For any number of callers and events and any sizes of the queue and the *)
(* batches: an event that was accepted is in exactly one place, whatever   *)
(* the two goroutines, the timers and Stop do.                             *)
THEOREM EventsAlwaysInOnePlace == EventsSpec => []EachEventInOnePlace
<1>1. EventsApart /\ [~sendPanicked /\ EventsNext]_eventVars => EventsApart'
    <2> SUFFICES ASSUME EventsApart, [~sendPanicked /\ EventsNext]_eventVars
                 PROVE  EventsApart'
        OBVIOUS
    <2>1. CASE UNCHANGED <<callerVars, workerVars, eventQueue, batch, batched>>
        BY <2>1 DEF EventsApart, callerVars, workerVars, InCallers, InQueue, InWorker, InBatch,
                    InBatches
    <2>2. ASSUME NEW from, NEW to, EventsStop(from, to)
          PROVE  EventsApart'
        BY <2>1, <2>2 DEF EventsStop, batchVars
    <2>3. CASE EventsStopReturns
        BY <2>2, <2>3 DEF EventsStopReturns
    <2>4. CASE UNCHANGED eventVars
        BY <2>1, <2>4 DEF eventVars, callerVars, workerVars
    <2> QED
        BY <2>2, <2>3, <2>4, CallerKeepsApart, WorkerKeepsApart, BatcherKeepsApart DEF EventsNext
<1> QED
    BY <1>1, ApartInit, ApartIsOnePlace, PTL DEF EventsSpec

-------------------------------------------------------------------------------
(* The records of tracks.                                                   *)

Settling(p) == \E s \in Subscribers : calling[s].doing \in {"record", "delete"} /\ calling[s].pub = p

\* What RecordsAgreeAtRest rests on: the last callback that waits tells of what the SDK does
\* now, and a caller that has reached the SDK goes on to the record with what it asked for.
\* That others do not ask meanwhile is what a single caller means.
RecordsFollow ==
    /\ wanted \in [Publications -> BOOLEAN] /\ delivered \in [Publications -> BOOLEAN]
    /\ callbacks \in [Publications -> Seq({"subscribed", "unsubscribed"})]
    /\ record \in [Publications -> Record]
    /\ calling \in [Subscribers ->
            {Idle} \cup [doing : {"record", "delete"}, pub : Publications]
                   \cup [doing : {"quality"}, pub : Publications, quality : VideoQualities]
                   \cup [doing : {"enable"}, pub : Publications, on : BOOLEAN]]
    /\ \A p \in Publications :
        callbacks[p] # <<>> => (callbacks[p][Len(callbacks[p])] = "subscribed" <=> delivered[p])
    /\ \A s \in Subscribers :
        /\ calling[s].doing = "record" => wanted[calling[s].pub]
        /\ calling[s].doing = "delete" => ~wanted[calling[s].pub]
    /\ \A p \in Publications :
        delivered[p] = wanted[p] /\ callbacks[p] = <<>> /\ ~Settling(p)
            => (record[p] # "none" <=> delivered[p])

LEMMA FollowInit == TrackingInit => RecordsFollow
BY DEF TrackingInit, RecordsFollow, Idle, Record, Settling

LEMMA SdkKeepsFollow ==
    ASSUME RecordsFollow, NEW p \in Publications,
           SdkFollows(p) \/ OnTrackSubscribed(p) \/ OnTrackUnsubscribed(p)
    PROVE  RecordsFollow'
<1> USE DEF RecordsFollow
<1> DEFINE Message == {"subscribed", "unsubscribed"}
<1>1. UNCHANGED <<wanted, calling>> /\ \A q \in Publications : Settling(q)' = Settling(q)
    BY DEF SdkFollows, OnTrackSubscribed, OnTrackUnsubscribed, Settling
<1>2. CASE SdkFollows(p)
    <2> DEFINE m == IF wanted[p] THEN "subscribed" ELSE "unsubscribed"
    <2>1. /\ delivered' = [delivered EXCEPT ![p] = wanted[p]]
          /\ callbacks' = [callbacks EXCEPT ![p] = Append(@, m)] /\ record' = record
        BY <1>2 DEF SdkFollows
    <2>2. /\ callbacks[p] \in Seq(Message) /\ m \in Message
          /\ Append(callbacks[p], m) \in Seq(Message) /\ Append(callbacks[p], m) # <<>>
          /\ Append(callbacks[p], m)[Len(Append(callbacks[p], m))] = m
        <3>1. callbacks[p] \in Seq(Message) /\ m \in Message
            OBVIOUS
        <3> HIDE DEF m, Message
        <3> QED
            BY <3>1, LastAppended
    <2>3. /\ delivered' \in [Publications -> BOOLEAN] /\ callbacks' \in [Publications -> Seq(Message)]
          /\ callbacks'[p] # <<>> /\ callbacks'[p][Len(callbacks'[p])] = m
          /\ delivered'[p] = wanted[p]
          /\ \A q \in Publications \ {p} :
                callbacks'[q] = callbacks[q] /\ delivered'[q] = delivered[q]
        BY <2>1, <2>2
    <2> QED
        BY <1>1, <2>1, <2>3
<1>3. CASE OnTrackSubscribed(p) \/ OnTrackUnsubscribed(p)
    <2>1. /\ callbacks[p] # <<>> /\ callbacks' = [callbacks EXCEPT ![p] = Tail(@)]
          /\ delivered' = delivered
          /\ \/ Head(callbacks[p]) = "subscribed" /\ record' = [record EXCEPT ![p] = "full"]
             \/ Head(callbacks[p]) = "unsubscribed" /\ record' = [record EXCEPT ![p] = "none"]
        BY <1>3 DEF OnTrackSubscribed, OnTrackUnsubscribed, NewRecord, DeleteRecord
    <2>2. /\ callbacks[p] \in Seq(Message) /\ Tail(callbacks[p]) \in Seq(Message)
          /\ Tail(callbacks[p]) # <<>> =>
                Tail(callbacks[p])[Len(Tail(callbacks[p]))] = callbacks[p][Len(callbacks[p])]
          /\ Tail(callbacks[p]) = <<>> => Head(callbacks[p]) = callbacks[p][Len(callbacks[p])]
        <3>1. callbacks[p] \in Seq(Message)
            OBVIOUS
        <3> HIDE DEF Message
        <3> QED
            BY <2>1, <3>1, LastOfTail
    <2>3. /\ callbacks' \in [Publications -> Seq(Message)] /\ record' \in [Publications -> Record]
          /\ callbacks'[p] = Tail(callbacks[p])
          /\ \A q \in Publications \ {p} : callbacks'[q] = callbacks[q] /\ record'[q] = record[q]
        <3>1. callbacks \in [Publications -> Seq(Message)] /\ record \in [Publications -> Record]
            OBVIOUS
        <3> HIDE DEF RecordsFollow, Message
        <3>2. /\ callbacks' \in [Publications -> Seq(Message)] /\ callbacks'[p] = Tail(callbacks[p])
              /\ \A q \in Publications \ {p} : callbacks'[q] = callbacks[q]
            BY <2>1, <2>2, <3>1
        <3>3. "full" \in Record /\ "none" \in Record
            BY DEF Record
        <3>4. /\ record' \in [Publications -> Record]
              /\ \A q \in Publications \ {p} : record'[q] = record[q]
            BY <2>1, <3>1, <3>3
        <3> QED
            BY <3>2, <3>4
    <2>4. Tail(callbacks[p]) = <<>> => (record'[p] # "none" <=> delivered[p])
        BY <2>1, <2>2
    <2>5. delivered' \in [Publications -> BOOLEAN] /\ delivered' = delivered
        BY <1>1, <2>1
    <2>6. \A q \in Publications : callbacks'[q] # <<>> =>
            (callbacks'[q][Len(callbacks'[q])] = "subscribed" <=> delivered'[q])
        <3>1. \A q \in Publications : callbacks[q] # <<>> =>
                (callbacks[q][Len(callbacks[q])] = "subscribed" <=> delivered[q])
            OBVIOUS
        <3> HIDE DEF RecordsFollow, Message
        <3>2. callbacks'[p] # <<>> =>
                (callbacks'[p][Len(callbacks'[p])] = "subscribed" <=> delivered'[p])
            BY <2>1, <2>2, <2>3, <2>5, <3>1
        <3>3. ASSUME NEW q \in Publications \ {p}, callbacks'[q] # <<>>
              PROVE  callbacks'[q][Len(callbacks'[q])] = "subscribed" <=> delivered'[q]
            BY <2>3, <2>5, <3>1, <3>3
        <3> QED
            BY <3>2, <3>3
    <2>7. \A q \in Publications : delivered'[q] = wanted'[q] /\ callbacks'[q] = <<>> /\ ~Settling(q)'
            => (record'[q] # "none" <=> delivered'[q])
        BY <1>1, <2>3, <2>4, <2>5
    <2> QED
        BY <1>1, <2>3, <2>5, <2>6, <2>7
<1> QED
    BY <1>2, <1>3

LEMMA CallKeepsFollow ==
    ASSUME RecordsFollow, \A s, t \in Subscribers : s = t,
           NEW s \in Subscribers, NEW p \in Publications,
           SubscribeToTrack(s, p) \/ UnsubscribeFromTrack(s, p) \/ UnsubscribeTrack(s, p)
    PROVE  RecordsFollow'
<1> USE DEF RecordsFollow
<1>1. CASE SubscribeToTrack(s, p) \/ UnsubscribeFromTrack(s, p)
    <2>1. PICK want \in BOOLEAN :
            /\ wanted' = [wanted EXCEPT ![p] = want]
            /\ calling' = [calling EXCEPT
                    ![s] = [doing |-> IF want THEN "record" ELSE "delete", pub |-> p]]
            /\ UNCHANGED <<delivered, callbacks, record>>
        BY <1>1 DEF SubscribeToTrack, UnsubscribeFromTrack, Ask
    <2> DEFINE call == [doing |-> IF want THEN "record" ELSE "delete", pub |-> p]
    <2>2. /\ call \in [doing : {"record", "delete"}, pub : Publications]
          /\ call.doing = (IF want THEN "record" ELSE "delete") /\ call.pub = p
        OBVIOUS
    <2>3. /\ calling' = [calling EXCEPT ![s] = call] /\ calling'[s] = call
          /\ \A t \in Subscribers : calling'[t] = call
        BY <2>1
    <2> HIDE DEF call
    <2>4. calling' \in [Subscribers ->
            {Idle} \cup [doing : {"record", "delete"}, pub : Publications]
                   \cup [doing : {"quality"}, pub : Publications, quality : VideoQualities]
                   \cup [doing : {"enable"}, pub : Publications, on : BOOLEAN]]
        BY <2>2, <2>3
    <2>5. Settling(p)'
        BY <2>2, <2>3 DEF Settling
    <2>6. \A q \in Publications \ {p} : wanted'[q] = wanted[q] /\ ~Settling(q)
        <3>1. calling[s] = Idle
            BY <1>1 DEF SubscribeToTrack, UnsubscribeFromTrack, Ask
        <3> QED
            BY <2>1, <3>1 DEF Settling, Idle
    <2>7. wanted' \in [Publications -> BOOLEAN] /\ wanted'[p] = want
        BY <2>1
    <2> QED
        BY <2>1, <2>2, <2>3, <2>4, <2>5, <2>6, <2>7
<1>2. CASE UnsubscribeTrack(s, p)
    <2>1. /\ wanted' = [wanted EXCEPT ![p] = FALSE] /\ record' = [record EXCEPT ![p] = "none"]
          /\ UNCHANGED <<delivered, callbacks, calling>>
          /\ \A t \in Subscribers : calling[t].doing = "nothing"
        BY <1>2 DEF UnsubscribeTrack, DeleteRecord, Idle
    <2>2. \A q \in Publications : ~Settling(q) /\ ~Settling(q)'
        BY <2>1 DEF Settling
    <2> QED
        BY <2>1, <2>2 DEF Record
<1> QED
    BY <1>1, <1>2

LEMMA RecordedKeepsFollow ==
    ASSUME RecordsFollow, \A s, t \in Subscribers : s = t, NEW s \in Subscribers, Recorded(s)
    PROVE  RecordsFollow'
<1> USE DEF RecordsFollow
<1> DEFINE p == calling[s].pub
<1>1. /\ \/ calling[s].doing = "record" /\ record' = [record EXCEPT ![p] = "bare"]
         \/ calling[s].doing = "delete" /\ record' = [record EXCEPT ![p] = "none"]
      /\ calling' = [calling EXCEPT ![s] = Idle] /\ UNCHANGED <<wanted, delivered, callbacks>>
    BY DEF Recorded, NewRecord, DeleteRecord
<1>2. p \in Publications
    BY <1>1 DEF Idle
<1>3. \A t \in Subscribers : calling'[t] = Idle
    BY <1>1
<1>4. \A q \in Publications : ~Settling(q)'
    BY <1>3 DEF Settling, Idle
<1>5. \A q \in Publications \ {p} : ~Settling(q)
    BY DEF Settling
<1>6. /\ record' \in [Publications -> Record] /\ (record'[p] # "none" <=> wanted[p])
      /\ \A q \in Publications \ {p} : record'[q] = record[q]
    <2>1. wanted[p] <=> calling[s].doing = "record"
        BY <1>1
    <2>2. PICK kind \in Record : /\ record' = [record EXCEPT ![p] = kind]
                                 /\ kind # "none" <=> calling[s].doing = "record"
        BY <1>1 DEF Record
    <2> HIDE DEF p
    <2> QED
        BY <1>2, <2>1, <2>2
<1>7. calling' \in [Subscribers ->
            {Idle} \cup [doing : {"record", "delete"}, pub : Publications]
                   \cup [doing : {"quality"}, pub : Publications, quality : VideoQualities]
                   \cup [doing : {"enable"}, pub : Publications, on : BOOLEAN]]
    BY <1>1
<1>8. \A q \in Publications :
        delivered[q] = wanted[q] /\ callbacks[q] = <<>> => (record'[q] # "none" <=> delivered[q])
    BY <1>2, <1>5, <1>6
<1> HIDE DEF p
<1> QED
    BY <1>1, <1>3, <1>4, <1>6, <1>7, <1>8 DEF Idle

LEMMA SettingsKeepFollow ==
    ASSUME RecordsFollow, NEW s \in Subscribers,
           \/ TellSdk(s)
           \/ \E p \in Publications : \/ \E q \in VideoQualities : SetTrackQuality(s, p, q)
                                      \/ \E on \in BOOLEAN : EnableTrack(s, p, on)
                                      \/ SetTrackShape(s, p)
    PROVE  RecordsFollow'
<1> DEFINE Calls == {Idle} \cup [doing : {"record", "delete"}, pub : Publications]
                       \cup [doing : {"quality"}, pub : Publications, quality : VideoQualities]
                       \cup [doing : {"enable"}, pub : Publications, on : BOOLEAN]
<1>1. PICK call \in Calls :
        /\ call.doing \in {"nothing", "quality", "enable"}
        /\ calling' = [calling EXCEPT ![s] = call] \/ calling' = calling
    BY DEF TellSdk, SetTrackQuality, EnableTrack, SetTrackShape, Idle
<1>2. /\ calling[s].doing \notin {"record", "delete"}
      /\ UNCHANGED <<wanted, delivered, callbacks, record>>
    BY DEF TellSdk, SetTrackQuality, EnableTrack, SetTrackShape, Idle
<1>3. calling \in [Subscribers -> Calls] /\ calling' \in [Subscribers -> Calls]
    <2>1. calling \in [Subscribers -> Calls]
        BY DEF RecordsFollow
    <2> HIDE DEF Calls
    <2> QED
        BY <1>1, <2>1
<1>4. \A t \in Subscribers : \/ calling'[t] = calling[t]
                             \/ /\ calling[t].doing \notin {"record", "delete"}
                                /\ calling'[t].doing \notin {"record", "delete"}
    <2> HIDE DEF Calls
    <2> QED
        BY <1>1, <1>2, <1>3
<1>5. \A p \in Publications : Settling(p)' <=> Settling(p)
    BY <1>4 DEF Settling
<1> HIDE DEF Calls
<1>6. \A t \in Subscribers :
        /\ calling'[t].doing = "record" => wanted[calling'[t].pub]
        /\ calling'[t].doing = "delete" => ~wanted[calling'[t].pub]
    BY <1>4 DEF RecordsFollow
<1> QED
    BY <1>2, <1>3, <1>5, <1>6 DEF RecordsFollow, Calls

(* For any number of publications, rooms and participants and a single     *)
(* caller of the worker: whatever the SDK delivers between a call and its  *)
(* record, once all have finished a track is recorded exactly if it is     *)
(* delivered.  Two callers may record in the other order than they asked.  *)
THEOREM RecordsAlwaysAgree ==
    ASSUME \A s, t \in Subscribers : s = t
    PROVE  TrackingSpec => []RecordsAgreeAtRest
<1>1. RecordsFollow /\ [TrackingNext]_trackingVars => RecordsFollow'
    <2> SUFFICES ASSUME RecordsFollow, [TrackingNext]_trackingVars
                 PROVE  RecordsFollow'
        OBVIOUS
    <2>1. CASE UNCHANGED trackVars
        BY <2>1 DEF trackVars, RecordsFollow, Settling
    <2>2. CASE PeopleNext
        BY <2>1, <2>2 DEF PeopleNext, OnParticipantConnected, OnParticipantDisconnected,
                          DataArrives, OnDataPacket
    <2>3. CASE TracksNext
        BY <2>3, SdkKeepsFollow, CallKeepsFollow, RecordedKeepsFollow, SettingsKeepFollow
        DEF TracksNext
    <2> QED
        BY <2>1, <2>2, <2>3 DEF TrackingNext, trackingVars
<1>2. RecordsFollow => RecordsAgreeAtRest
    BY DEF RecordsFollow, RecordsAgreeAtRest, Settling, Idle
<1> QED
    BY <1>1, <1>2, FollowInit, PTL DEF TrackingSpec

-------------------------------------------------------------------------------
(* A call about a job.                                                      *)

\* What a call found is still there, unless the job ended, was recovered, or is not alone
\* with its room's name.
Finds(a) ==
    LET call == asking[a] IN
    call.step # "none" /\ call.undisturbed /\ Apart(call.job) /\ call.job \notin recovered =>
        /\ call.step = "context" => contexts[call.job] = call.room
        /\ call.step = "answer" => call.from = call.room

\* What the answers rest on: a job without a context yet is not asked about, and the records
\* of a room that has its name alone are those of its job.
CallsInv ==
    /\ RoomCallsTypeOK
    /\ \A a \in Askers : Finds(a)
    /\ \A j \in RoomJobs : handler[j] \in {"none", "connecting"} => contexts[j] = NoRoom
    /\ \A j \in RoomJobs : Apart(j) => rooms[nameOf[j]] \in {NoRoom, <<j, "assigned">>}
    /\ ToldOfItsRoom

LEMMA AskingFields ==
    ASSUME NEW c \in Asking
    PROVE  \/ c = NotAsking /\ c.step = "none"
           \/ /\ c # NotAsking /\ c.step \in {"context", "answer"}
              /\ c.job \in RoomJobs /\ c.room \in Rooms /\ c.undisturbed \in BOOLEAN
BY DEF Asking, NotAsking

LEMMA Disturbed ==
    ASSUME NEW c \in Asking, c # NotAsking
    PROVE  [c EXCEPT !.undisturbed = FALSE] \in Asking
           /\ ~[c EXCEPT !.undisturbed = FALSE].undisturbed
<1>1. CASE c \in [step : {"context"}, job : RoomJobs, room : Rooms, undisturbed : BOOLEAN]
    BY <1>1 DEF Asking
<1>2. CASE c \in [step : {"answer"}, job : RoomJobs, room : Rooms, from : Rooms \cup {NoRoom},
                  undisturbed : BOOLEAN]
    BY <1>2 DEF Asking
<1> QED
    BY <1>1, <1>2 DEF Asking

LEMMA CallsInit == RoomCallsInit => CallsInv
<1> SUFFICES ASSUME RoomCallsInit PROVE CallsInv
    OBVIOUS
<1> USE DEF RoomCallsInit
<1>1. NotAsking \in Asking /\ NotAsking.step = "none"
    BY DEF Asking, NotAsking
<1>2. told = [about |-> NoRoom, given |-> NoRoom] /\ told.about = NoRoom
    OBVIOUS
<1>3. RoomCallsTypeOK
    BY <1>1 DEF RoomCallsTypeOK
<1>4. \A a \in Askers : Finds(a)
    BY <1>1 DEF Finds
<1>5. ToldOfItsRoom
    BY <1>2 DEF ToldOfItsRoom
<1> QED
    BY <1>3, <1>4, <1>5 DEF CallsInv

LEMMA ForgetKeeps ==
    ASSUME CallsInv, NEW j \in RoomJobs, Forget(j),
           handler' \in [RoomJobs -> {"none", "connecting", "running", "over"}],
           \A k \in RoomJobs \ {j} : handler'[k] = handler[k]
    PROVE  CallsInv'
<1> USE DEF CallsInv
<1>1. /\ contexts' = [contexts EXCEPT ![j] = NoRoom]
      /\ rooms' = [rooms EXCEPT ![nameOf[j]] = NoRoom]
      /\ trackers' = [trackers EXCEPT ![nameOf[j]] = NoRoom]
      /\ UNCHANGED <<nameOf, recovered, told>>
    BY DEF Forget
<1>2. \A k \in RoomJobs : Apart(k)' <=> Apart(k)
    BY <1>1 DEF Apart
<1>3. ASSUME NEW a \in Askers PROVE asking'[a] \in Asking /\ Finds(a)'
    <2>1. CASE asking[a] # NotAsking /\ asking[a].job = j
        <3>1. asking'[a] = [asking[a] EXCEPT !.undisturbed = FALSE]
            BY <2>1 DEF Forget
        <3>2. asking[a] \in Asking
            BY DEF RoomCallsTypeOK
        <3> QED
            BY <2>1, <3>1, <3>2, Disturbed DEF Finds
    <2>2. CASE ~(asking[a] # NotAsking /\ asking[a].job = j)
        <3>1. asking'[a] = asking[a] /\ asking[a] \in Asking
            BY <2>2 DEF Forget, RoomCallsTypeOK
        <3>2. CASE asking[a] = NotAsking
            BY <3>1, <3>2, AskingFields DEF Finds
        <3>3. CASE asking[a].job # j /\ asking[a] # NotAsking
            <4>1. contexts'[asking[a].job] = contexts[asking[a].job]
                BY <1>1, <3>1, <3>3, AskingFields DEF RoomCallsTypeOK
            <4> QED
                BY <1>1, <1>2, <3>1, <3>3, <4>1, AskingFields DEF Finds
        <3> QED
            BY <2>2, <3>1, <3>2, <3>3
    <2> QED
        BY <2>1, <2>2
<1>4. asking' \in [Askers -> Asking]
    <2>1. asking' = [a \in Askers |-> asking'[a]]
        BY DEF Forget
    <2> QED
        BY <1>3, <2>1
<1>5. RoomCallsTypeOK'
    BY <1>1, <1>4 DEF RoomCallsTypeOK
<1>6. \A k \in RoomJobs : handler'[k] \in {"none", "connecting"} => contexts'[k] = NoRoom
    BY <1>1 DEF RoomCallsTypeOK
<1>7. \A k \in RoomJobs : Apart(k)' => rooms'[nameOf'[k]] \in {NoRoom, <<k, "assigned">>}
    BY <1>1, <1>2 DEF RoomCallsTypeOK
<1>8. ToldOfItsRoom'
    BY <1>1, <1>2 DEF ToldOfItsRoom, RoomCallsTypeOK, Apart
<1> QED
    BY <1>3, <1>5, <1>6, <1>7, <1>8

\* Only what a job has published, or forgotten, changes the other records.
LEMMA JobStepKeeps ==
    ASSUME CallsInv, NEW j \in RoomJobs,
           \/ ConnectToRoom(j) \/ handleJobAssignment(j) \/ SetActiveJob(j)
           \/ handleJobTermination(j) \/ runJobHandlerEnds(j) \/ createRoomCallbacks(j)
    PROVE  CallsInv'
<1> USE DEF CallsInv
<1>0. <<j, "assigned">> \in Rooms /\ <<j, "recovered">> \in Rooms
      /\ <<j, "assigned">>[1] = j
    BY DEF Rooms
<1>1. CASE ConnectToRoom(j)
    <2>1. /\ handler[j] = "none" /\ handler' = [handler EXCEPT ![j] = "connecting"]
          /\ UNCHANGED <<nameOf, recovered, contexts, rooms, trackers, asking, told>>
        BY <1>1 DEF ConnectToRoom, Move
    <2>2. RoomCallsTypeOK'
        BY <2>1 DEF RoomCallsTypeOK
    <2> QED
        BY <2>1, <2>2 DEF Finds, Apart, ToldOfItsRoom, RoomCallsTypeOK
<1>2. CASE handleJobAssignment(j)
    <2> DEFINE r == <<j, "assigned">>
    <2>1. /\ handler[j] = "connecting" /\ handler' = [handler EXCEPT ![j] = "running"]
          /\ contexts' = [contexts EXCEPT ![j] = r]
          /\ rooms' = [rooms EXCEPT ![nameOf[j]] = r]
          /\ trackers' = [trackers EXCEPT ![nameOf[j]] = r]
          /\ UNCHANGED <<nameOf, recovered, asking, told>>
        BY <1>2 DEF handleJobAssignment, Move
    <2>2. RoomCallsTypeOK'
        BY <1>0, <2>1 DEF RoomCallsTypeOK
    <2>3. \A k \in RoomJobs : Apart(k)' <=> Apart(k)
        BY <2>1 DEF Apart
    <2>4. ASSUME NEW a \in Askers PROVE Finds(a)'
        <3>1. asking'[a] = asking[a] /\ asking[a] \in Asking
            BY <2>1 DEF RoomCallsTypeOK
        <3>2. CASE asking[a] = NotAsking
            BY <3>1, <3>2, AskingFields DEF Finds
        <3>3. CASE asking[a] # NotAsking /\ asking[a].job = j
            \* The job had no context before, so that nobody has found it.
            BY <2>1, <2>3, <3>1, <3>3, AskingFields, RoomCallsAssumption DEF Finds
        <3>4. CASE asking[a] # NotAsking /\ asking[a].job # j
            <4>1. contexts'[asking[a].job] = contexts[asking[a].job]
                BY <2>1, <3>1, <3>4, AskingFields DEF RoomCallsTypeOK
            <4> QED
                BY <2>1, <2>3, <3>1, <3>4, <4>1, AskingFields DEF Finds
        <3> QED
            BY <3>2, <3>3, <3>4
    <2>5. ASSUME NEW k \in RoomJobs, Apart(k)
          PROVE  /\ rooms'[nameOf'[k]] \in {NoRoom, <<k, "assigned">>}
                 /\ k \notin recovered => contexts'[k] = rooms'[nameOf'[k]]
                                          /\ contexts'[k] = trackers'[nameOf'[k]]
        <3>1. CASE k = j
            BY <2>1, <3>1 DEF RoomCallsTypeOK
        <3>2. CASE k # j
            <4>1. nameOf[j] # nameOf[k]
                BY <2>5, <3>2 DEF Apart
            <4>2. /\ rooms'[nameOf'[k]] = rooms[nameOf[k]]
                  /\ trackers'[nameOf'[k]] = trackers[nameOf[k]] /\ contexts'[k] = contexts[k]
                BY <2>1, <3>2, <4>1 DEF RoomCallsTypeOK
            <4> QED
                BY <2>5, <4>2 DEF ToldOfItsRoom
        <3> QED
            BY <3>1, <3>2
    <2>6. ToldOfItsRoom'
        BY <2>1, <2>3, <2>5 DEF ToldOfItsRoom, Apart
    <2>7. \A k \in RoomJobs : handler'[k] \in {"none", "connecting"} => contexts'[k] = NoRoom
        BY <2>1 DEF RoomCallsTypeOK
    <2> HIDE DEF r
    <2> QED
        BY <2>2, <2>3, <2>4, <2>5, <2>6, <2>7
<1>3. CASE SetActiveJob(j)
    <2>1. /\ handler[j] \in {"running", "over"} /\ recovered' = recovered \cup {j}
          /\ contexts' = [contexts EXCEPT ![j] = <<j, "recovered">>]
          /\ UNCHANGED <<nameOf, handler, rooms, trackers, asking, told>>
        BY <1>3 DEF SetActiveJob
    <2>2. RoomCallsTypeOK'
        BY <1>0, <2>1 DEF RoomCallsTypeOK
    <2>3. \A k \in RoomJobs : Apart(k)' <=> Apart(k)
        BY <2>1 DEF Apart
    <2>4. ASSUME NEW a \in Askers PROVE Finds(a)'
        <3>1. asking'[a] = asking[a] /\ asking[a] \in Asking
            BY <2>1 DEF RoomCallsTypeOK
        <3>2. CASE asking[a] = NotAsking
            BY <3>1, <3>2, AskingFields DEF Finds
        <3>3. CASE asking[a] # NotAsking
            <4>1. asking[a].job \notin recovered' =>
                    asking[a].job \notin recovered
                    /\ contexts'[asking[a].job] = contexts[asking[a].job]
                BY <2>1, <3>1, <3>3, AskingFields DEF RoomCallsTypeOK
            <4> QED
                BY <2>1, <2>3, <3>1, <3>3, <4>1, AskingFields DEF Finds
        <3> QED
            BY <3>2, <3>3
    <2>5. ToldOfItsRoom'
        BY <2>1, <2>3 DEF ToldOfItsRoom, Apart, RoomCallsTypeOK
    <2> QED
        BY <2>1, <2>2, <2>3, <2>4, <2>5 DEF RoomCallsTypeOK
<1>4. CASE handleJobTermination(j)
    BY <1>4, ForgetKeeps DEF handleJobTermination, RoomCallsTypeOK
<1>5. CASE runJobHandlerEnds(j)
    <2>1. Forget(j) /\ handler' = [handler EXCEPT ![j] = "over"]
        BY <1>5 DEF runJobHandlerEnds, Move
    <2> QED
        BY <2>1, ForgetKeeps DEF RoomCallsTypeOK
<1>6. CASE createRoomCallbacks(j)
    <2> DEFINE news == [about |-> <<j, "assigned">>, given |-> rooms[nameOf[j]]]
    <2>1. /\ told' = news /\ news.about[1] = j /\ news.about = <<j, "assigned">>
          /\ news.given = rooms[nameOf[j]]
          /\ UNCHANGED <<nameOf, handler, recovered, contexts, rooms, trackers, asking>>
        BY <1>0, <1>6 DEF createRoomCallbacks
    <2>2. RoomCallsTypeOK'
        BY <1>0, <2>1 DEF RoomCallsTypeOK
    <2> HIDE DEF news
    <2>3. ToldOfItsRoom'
        BY <2>1 DEF ToldOfItsRoom, Apart
    <2> QED
        BY <2>1, <2>2, <2>3 DEF Finds, Apart
<1> QED
    BY <1>1, <1>2, <1>3, <1>4, <1>5, <1>6

LEMMA AskerStepKeeps ==
    ASSUME CallsInv, NEW a \in Askers,
           \/ \E j \in RoomJobs : getJobContext(a, j)
           \/ getParticipantTracker(a) \/ PublishTo(a) \/ Return(a)
    PROVE  CallsInv'
<1> USE DEF CallsInv
<1>1. UNCHANGED <<nameOf, handler, recovered, contexts, rooms, trackers, told>>
    BY DEF getJobContext, getParticipantTracker, PublishTo, Answered, Return
<1>2. \A k \in RoomJobs : Apart(k)' <=> Apart(k)
    BY <1>1 DEF Apart
<1>3. asking[a] \in Asking /\ asking \in [Askers -> Asking]
    BY DEF RoomCallsTypeOK
<1> DEFINE Right(call) ==
            call.step # "none" /\ call.undisturbed /\ Apart(call.job) /\ call.job \notin recovered =>
                /\ call.step = "context" => contexts[call.job] = call.room
                /\ call.step = "answer" => call.from = call.room
           Becomes(call) == asking' = [asking EXCEPT ![a] = call] /\ Right(call)
<1>4. \E call \in Asking : Becomes(call)
    <2>1. ASSUME NEW j \in RoomJobs, getJobContext(a, j) PROVE \E call \in Asking : Becomes(call)
        <3> DEFINE call == [step |-> "context", job |-> j, room |-> contexts[j],
                            undisturbed |-> TRUE]
        <3>1. contexts[j] \in Rooms
            BY <2>1 DEF getJobContext, RoomCallsTypeOK
        <3>2. call \in Asking /\ call.step = "context" /\ call.job = j /\ call.room = contexts[j]
            BY <3>1 DEF Asking
        <3>3. asking' = [asking EXCEPT ![a] = call]
            BY <2>1 DEF getJobContext
        <3> HIDE DEF call
        <3> QED
            BY <3>2, <3>3
    <2>2. ASSUME NEW room \in Rooms \cup {NoRoom}, Answered(a, room),
                 room = asking[a].room \/ room = trackers[nameOf[asking[a].job]]
          PROVE  \E call \in Asking : Becomes(call)
        <3> DEFINE call == [step |-> "answer", job |-> asking[a].job, room |-> asking[a].room,
                            from |-> room, undisturbed |-> asking[a].undisturbed]
        <3>1. asking[a].step = "context" /\ asking[a] # NotAsking
            BY <2>2 DEF Answered, NotAsking
        <3>2. /\ call \in Asking /\ call.step = "answer" /\ call.job = asking[a].job
              /\ call.room = asking[a].room /\ call.from = room
              /\ call.undisturbed = asking[a].undisturbed
            BY <1>3, <3>1, AskingFields DEF Asking
        <3>3. asking' = [asking EXCEPT ![a] = call]
            BY <2>2 DEF Answered
        <3> HIDE DEF call
        <3>4. Finds(a) /\ asking[a].job \in RoomJobs
            BY <1>3, <3>1, AskingFields
        <3>5. call.undisturbed /\ Apart(call.job) /\ call.job \notin recovered => call.from = call.room
            BY <2>2, <3>1, <3>2, <3>4 DEF Finds, ToldOfItsRoom
        <3> QED
            BY <3>2, <3>3, <3>5
    <2>3. CASE getParticipantTracker(a)
        <3>1. asking[a].job \in RoomJobs
            BY <1>3, <2>3, AskingFields DEF getParticipantTracker
        <3>2. trackers[nameOf[asking[a].job]] \in Rooms \cup {NoRoom}
            BY <3>1 DEF RoomCallsTypeOK
        <3> QED
            BY <2>2, <2>3, <3>2 DEF getParticipantTracker
    <2>4. CASE PublishTo(a)
        <3>1. asking[a].room \in Rooms
            BY <1>3, <2>4, AskingFields DEF PublishTo
        <3> QED
            BY <2>2, <2>4, <3>1 DEF PublishTo
    <2>5. CASE Return(a)
        <3>1. NotAsking \in Asking /\ NotAsking.step = "none"
            BY DEF Asking, NotAsking
        <3> QED
            BY <2>5, <3>1 DEF Return
    <2> QED
        BY <2>1, <2>3, <2>4, <2>5
<1>5. PICK call \in Asking :
        /\ asking' \in [Askers -> Asking] /\ asking'[a] = call /\ Right(call)
        /\ \A b \in Askers \ {a} : asking'[b] = asking[b]
    BY <1>3, <1>4
<1>6. ASSUME NEW b \in Askers PROVE Finds(b)'
    <2>1. CASE b = a
        <3>1. call = NotAsking \/ call.job \in RoomJobs
            BY AskingFields
        <3> QED
            BY <1>1, <1>2, <1>5, <2>1, <3>1, AskingFields DEF Finds
    <2>2. CASE b # a
        <3>1. asking[b] \in Asking /\ asking'[b] = asking[b]
            BY <1>3, <1>5, <2>2
        <3> QED
            BY <1>1, <1>2, <3>1, AskingFields DEF Finds
    <2> QED
        BY <2>1, <2>2
<1>7. RoomCallsTypeOK'
    BY <1>1, <1>5 DEF RoomCallsTypeOK
<1> QED
    BY <1>1, <1>2, <1>6, <1>7 DEF ToldOfItsRoom, Apart

(* For any jobs, room names and callers: an answer about a job comes from  *)
(* the job's own room, and a handler is told of no other room than its     *)
(* own, unless the job ended or was recovered meanwhile or two rooms share *)
(* a name.  It takes that who has no context yet cannot have been found.   *)
THEOREM AnsweredByOwnRoomAlways ==
    RoomCallsSpec => [](RoomCallsTypeOK /\ AnsweredByOwnRoom /\ ToldOfItsRoom)
<1>1. CallsInv /\ [RoomCallsNext]_roomCallVars => CallsInv'
    <2> SUFFICES ASSUME CallsInv, [RoomCallsNext]_roomCallVars PROVE CallsInv'
        OBVIOUS
    <2>1. CASE UNCHANGED roomCallVars
        BY <2>1 DEF CallsInv, roomCallVars, RoomCallsTypeOK, Finds, Apart, ToldOfItsRoom
    <2> QED
        BY <2>1, JobStepKeeps, AskerStepKeeps DEF RoomCallsNext
<1>2. CallsInv => RoomCallsTypeOK /\ AnsweredByOwnRoom /\ ToldOfItsRoom
    BY DEF CallsInv, AnsweredByOwnRoom, Finds
<1> QED
    BY <1>1, <1>2, CallsInit, PTL DEF RoomCallsSpec

-------------------------------------------------------------------------------
(* Who is in a room is known.                                               *)

\* What it rests on: an identity that was never in two rooms at once is in one at most, and
\* its record names that room.
PeopleInv ==
    /\ present \in [TrackedRooms -> SUBSET People]
    /\ known \subseteq People /\ shared \subseteq People
    /\ knownIn \in [People -> TrackedRooms \cup {NoRoomKnown}]
    /\ target \in Targets \cup {NoTarget}
    /\ \A i \in People \ shared, r, o \in TrackedRooms : i \in present[r] /\ i \in present[o] => r = o
    /\ \A i \in People \ shared, r \in TrackedRooms : i \in present[r] => knownIn[i] = r
    /\ PresentAreKnown
    /\ SenderInItsRoom

LEMMA PeopleInit == TrackingInit => PeopleInv
<1> SUFFICES ASSUME TrackingInit PROVE PeopleInv
    OBVIOUS
<1>1. sender.identity = NoTarget
    BY DEF TrackingInit
<1> QED
    BY <1>1 DEF TrackingInit, PeopleInv, PresentAreKnown, SenderInItsRoom

LEMMA ArrivalKeepsPeople ==
    ASSUME PeopleInv, NEW r \in TrackedRooms, NEW i \in People, OnParticipantConnected(r, i)
    PROVE  PeopleInv'
<1> USE DEF PeopleInv
<1>1. /\ i \notin present[r] /\ present' = [present EXCEPT ![r] = @ \cup {i}]
      /\ known' = known \cup {i} /\ knownIn' = [knownIn EXCEPT ![i] = r]
      /\ target' = (IF i \in Targets THEN i ELSE target)
      /\ shared' = (IF Elsewhere(r, i) THEN shared \cup {i} ELSE shared) /\ sender' = sender
    BY DEF OnParticipantConnected
<1>2. /\ present' \in [TrackedRooms -> SUBSET People]
      /\ knownIn' \in [People -> TrackedRooms \cup {NoRoomKnown}]
      /\ known' \subseteq People /\ shared \subseteq shared' /\ shared' \subseteq People
      /\ target' \in Targets \cup {NoTarget}
    BY <1>1
<1>3. ASSUME NEW k \in People \ shared'
      PROVE  /\ \A p, o \in TrackedRooms : k \in present'[p] /\ k \in present'[o] => p = o
             /\ \A p \in TrackedRooms : k \in present'[p] => knownIn'[k] = p
             /\ k \in known' <=> \E p \in TrackedRooms : k \in present'[p]
    <2>1. CASE k = i
        <3>1. \A o \in TrackedRooms \ {r} : k \notin present[o]
            BY <1>1, <1>3, <2>1 DEF Elsewhere
        <3> QED
            BY <1>1, <2>1, <3>1
    <2>2. CASE k # i
        <3>1. /\ \A p \in TrackedRooms : k \in present'[p] <=> k \in present[p]
              /\ knownIn'[k] = knownIn[k] /\ (k \in known' <=> k \in known) /\ k \notin shared
            BY <1>1, <1>2, <1>3, <2>2
        <3> QED
            BY <3>1 DEF PresentAreKnown
    <2> QED
        BY <2>1, <2>2
<1>4. /\ target' # NoTarget => target' \in known' \cup shared'
      /\ \A k \in Targets \ shared' : k \in known' /\ Targets = {k} => target' = k
    BY <1>1, <1>2 DEF PresentAreKnown
<1>5. PresentAreKnown'
    BY <1>3, <1>4 DEF PresentAreKnown
<1>6. SenderInItsRoom'
    BY <1>1, <1>2 DEF SenderInItsRoom
<1> QED
    BY <1>2, <1>3, <1>5, <1>6

LEMMA DepartureKeepsPeople ==
    ASSUME PeopleInv, NEW r \in TrackedRooms, NEW i \in People, OnParticipantDisconnected(r, i)
    PROVE  PeopleInv'
<1> USE DEF PeopleInv
<1>1. /\ i \in present[r] /\ present' = [present EXCEPT ![r] = @ \ {i}]
      /\ known' = known \ {i} /\ knownIn' = [knownIn EXCEPT ![i] = NoRoomKnown]
      /\ target' = (IF target = i THEN NoTarget ELSE target)
      /\ UNCHANGED <<sender, shared>>
    BY DEF OnParticipantDisconnected
<1>2. /\ present' \in [TrackedRooms -> SUBSET People]
      /\ knownIn' \in [People -> TrackedRooms \cup {NoRoomKnown}]
      /\ known' \subseteq People /\ shared' \subseteq People
      /\ target' \in Targets \cup {NoTarget}
    BY <1>1
<1>3. ASSUME NEW k \in People \ shared
      PROVE  /\ \A p, o \in TrackedRooms : k \in present'[p] /\ k \in present'[o] => p = o
             /\ \A p \in TrackedRooms : k \in present'[p] => knownIn'[k] = p
             /\ k \in known' <=> \E p \in TrackedRooms : k \in present'[p]
    <2>1. CASE k = i
        \* It was in no other room.
        BY <1>1, <1>3, <2>1
    <2>2. CASE k # i
        <3>1. /\ \A p \in TrackedRooms : k \in present'[p] <=> k \in present[p]
              /\ knownIn'[k] = knownIn[k] /\ (k \in known' <=> k \in known)
            BY <1>1, <1>2, <2>2
        <3> QED
            BY <3>1 DEF PresentAreKnown
    <2> QED
        BY <2>1, <2>2
<1>4. /\ target' # NoTarget => target' \in known' \cup shared
      /\ \A k \in Targets \ shared : k \in known' /\ Targets = {k} => target' = k
    BY <1>1, <1>2 DEF PresentAreKnown
<1>5. PresentAreKnown'
    BY <1>1, <1>3, <1>4 DEF PresentAreKnown
<1>6. SenderInItsRoom'
    BY <1>1 DEF SenderInItsRoom
<1> QED
    BY <1>1, <1>2, <1>3, <1>5, <1>6

(* For any rooms, participants and targets: whoever is in a room is known, *)
(* nobody else is, and the target is the one that is there; and a packet   *)
(* is said to come from its sender in the sender's room.  An identity that *)
(* was in two rooms at once is excepted, for the records are by identity.  *)
THEOREM PresentAreAlwaysKnown == TrackingSpec => [](PresentAreKnown /\ SenderInItsRoom)
<1>1. PeopleInv /\ [TrackingNext]_trackingVars => PeopleInv'
    <2> SUFFICES ASSUME PeopleInv, [TrackingNext]_trackingVars PROVE PeopleInv'
        OBVIOUS
    <2>1. CASE UNCHANGED peopleVars
        BY <2>1 DEF peopleVars, PeopleInv, PresentAreKnown, SenderInItsRoom
    <2>2. ASSUME NEW r \in TrackedRooms, NEW i \in present[r], OnDataPacket(r, i)
          PROVE  PeopleInv'
        <3>1. /\ sender' = [identity |-> i, room |-> r, found |-> knownIn[i]]
              /\ UNCHANGED <<present, known, knownIn, target, shared>>
            BY <2>2 DEF OnDataPacket
        <3>2. i \in People
            BY DEF PeopleInv
        <3>3. SenderInItsRoom'
            BY <3>1, <3>2 DEF SenderInItsRoom, PeopleInv
        <3> QED
            BY <3>1, <3>3 DEF PeopleInv, PresentAreKnown
    <2>3. CASE TracksNext
        BY <2>1, <2>3 DEF TracksNext, SdkFollows, OnTrackSubscribed, OnTrackUnsubscribed, Ask,
           SubscribeToTrack, UnsubscribeFromTrack, UnsubscribeTrack, SetTrackQuality, EnableTrack,
           SetTrackShape, Recorded, TellSdk
    <2> QED
        BY <2>1, <2>2, <2>3, ArrivalKeepsPeople, DepartureKeepsPeople
        DEF TrackingNext, PeopleNext, DataArrives, trackingVars
<1>2. PeopleInv => PresentAreKnown /\ SenderInItsRoom
    BY DEF PeopleInv
<1> QED
    BY <1>1, <1>2, PeopleInit, PTL DEF TrackingSpec


-------------------------------------------------------------------------------
(* The utilities.  Who gave up looked last when the time was over; and the     *)
(* loop over the workers finds the least loaded, in any order.                 *)

WaiterPlaces ==
    {"idle", "looking", "deadline", "sleeping", "found", "timeout", "cancelled"}

WaiterStates == [at : WaiterPlaces, waited : 0..(Timeout + 1), absent : BOOLEAN]

FleetStates == [load : FleetLoads \cup {0}, jobs : FleetJobs \cup {0}, age : 0..(FleetTimeout + 1)]

WaitersInv ==
    /\ fleet \in [Fleet -> FleetStates]
    /\ awaited \in BOOLEAN /\ jobOver \in BOOLEAN
    /\ waiter \in [Waiters -> WaiterStates]
    /\ \A w \in Waiters :
        /\ waiter[w].at = "deadline" => waiter[w].absent
        /\ waiter[w].at = "timeout" => waiter[w].waited > Timeout /\ waiter[w].absent
        /\ waiter[w].at = "cancelled" => jobOver

LEMMA WaitersInit == UtilitiesInit => WaitersInv
  <1> SUFFICES ASSUME UtilitiesInit PROVE WaitersInv
    OBVIOUS
  <1>1. NotHeardOf \in FleetStates
    BY UtilitiesAssumption DEF NotHeardOf, FleetStates
  <1>2. [at |-> "idle", waited |-> 0, absent |-> FALSE] \in WaiterStates
    BY UtilitiesAssumption DEF WaiterStates, WaiterPlaces
  <1>3. /\ fleet \in [Fleet -> FleetStates] /\ waiter \in [Waiters -> WaiterStates]
        /\ awaited \in BOOLEAN /\ jobOver \in BOOLEAN
        /\ \A w \in Waiters : waiter[w].at = "idle"
    BY <1>1, <1>2 DEF UtilitiesInit
  <1> QED
    BY <1>3 DEF WaitersInv

LEMMA FleetKeeps ==
  ASSUME WaitersInv, NEW w \in Fleet,
         \/ \E load \in FleetLoads, jobs \in FleetJobs : UpdateWorker(w, load, jobs)
         \/ RemoveWorker(w)
  PROVE  WaitersInv'
  <1>1. fleet \in [Fleet -> FleetStates]
    BY DEF WaitersInv
  <1>2. NotHeardOf \in FleetStates
    BY UtilitiesAssumption DEF NotHeardOf, FleetStates
  <1>3. \A load \in FleetLoads, jobs \in FleetJobs :
            [load |-> load, jobs |-> jobs, age |-> 0] \in FleetStates
    BY UtilitiesAssumption DEF FleetStates
  <1>4. fleet' \in [Fleet -> FleetStates] /\ UNCHANGED waiterVars
    BY <1>1, <1>2, <1>3 DEF UpdateWorker, RemoveWorker
  <1> QED
    BY <1>4 DEF WaitersInv, waiterVars

LEMMA AgingKeeps ==
  ASSUME WaitersInv, FleetAges
  PROVE  WaitersInv'
  <1>1. fleet \in [Fleet -> FleetStates]
    BY DEF WaitersInv
  <1>2. ASSUME NEW f \in FleetStates
        PROVE  [f EXCEPT !.age = IF @ > FleetTimeout THEN @ ELSE @ + 1] \in FleetStates
    BY UtilitiesAssumption DEF FleetStates
  <1>3. fleet' \in [Fleet -> FleetStates] /\ UNCHANGED waiterVars
    BY <1>1, <1>2 DEF FleetAges
  <1> QED
    BY <1>3 DEF WaitersInv, waiterVars

LEMMA TimeKeeps ==
  ASSUME WaitersInv, ParticipantComesOrGoes \/ JobIsOver \/ WaitGoesOn
  PROVE  WaitersInv'
  <1>1. /\ fleet \in [Fleet -> FleetStates] /\ awaited \in BOOLEAN /\ jobOver \in BOOLEAN
        /\ waiter \in [Waiters -> WaiterStates]
    BY DEF WaitersInv
  <1>2. CASE ParticipantComesOrGoes \/ JobIsOver
    <2>1. /\ UNCHANGED <<fleet, waiter>> /\ awaited' \in BOOLEAN /\ jobOver' \in BOOLEAN
          /\ jobOver => jobOver'
      BY <1>1, <1>2 DEF ParticipantComesOrGoes, JobIsOver
    <2> QED
      BY <2>1 DEF WaitersInv
  <1>3. CASE WaitGoesOn
    <2> DEFINE After(s) == [s EXCEPT !.waited = IF s.at = "sleeping" /\ @ <= Timeout THEN @ + 1 ELSE @]
    <2>1. /\ waiter' = [w \in Waiters |-> After(waiter[w])]
          /\ UNCHANGED <<fleet, awaited, jobOver>>
      BY <1>3 DEF WaitGoesOn
    <2>2. ASSUME NEW s \in WaiterStates
          PROVE  /\ After(s) \in WaiterStates /\ After(s).at = s.at /\ After(s).absent = s.absent
                 /\ s.at # "sleeping" => After(s).waited = s.waited
      BY UtilitiesAssumption DEF WaiterStates
    <2> HIDE DEF After
    <2>3. waiter' \in [Waiters -> WaiterStates]
      BY <1>1, <2>1, <2>2
    <2>4. \A w \in Waiters :
            /\ waiter'[w].at = waiter[w].at /\ waiter'[w].absent = waiter[w].absent
            /\ waiter[w].at # "sleeping" => waiter'[w].waited = waiter[w].waited
      BY <1>1, <2>1, <2>2
    <2> QED
      BY <1>1, <2>1, <2>3, <2>4 DEF WaitersInv
  <1> QED
    BY <1>2, <1>3

LEMMA WaiterKeeps ==
  ASSUME WaitersInv, NEW w \in Waiters,
         \/ WaitForParticipant(w) \/ LooksAround(w) \/ PastDeadline(w)
         \/ SleepBegins(w) \/ SleepEnds(w) \/ SleepCancelled(w)
  PROVE  WaitersInv'
  <1>1. /\ fleet \in [Fleet -> FleetStates] /\ awaited \in BOOLEAN /\ jobOver \in BOOLEAN
        /\ waiter \in [Waiters -> WaiterStates] /\ waiter[w] \in WaiterStates
    BY DEF WaitersInv
  <1>2. UNCHANGED <<fleet, awaited, jobOver>> /\ \A v \in Waiters : v # w => waiter'[v] = waiter[v]
    BY <1>1 DEF WaitForParticipant, LooksAround, PastDeadline, SleepBegins, SleepEnds,
       SleepCancelled, WaiterMoves
  <1>3. /\ waiter' \in [Waiters -> WaiterStates]
        /\ waiter'[w].at = "deadline" => waiter'[w].absent
        /\ waiter'[w].at = "timeout" => waiter'[w].waited > Timeout /\ waiter'[w].absent
        /\ waiter'[w].at = "cancelled" => jobOver
    <2>1. CASE WaitForParticipant(w)
      <3>1. [at |-> "looking", waited |-> 0, absent |-> FALSE] \in WaiterStates
        BY UtilitiesAssumption DEF WaiterStates, WaiterPlaces
      <3> QED
        BY <1>1, <2>1, <3>1 DEF WaitForParticipant
    <2>2. CASE LooksAround(w)
      <3>1. ASSUME NEW at \in WaiterPlaces, NEW absent \in BOOLEAN
            PROVE  [waiter[w] EXCEPT !.at = at, !.absent = absent] \in WaiterStates
        BY <1>1 DEF WaiterStates
      <3>2. waiter' = [waiter EXCEPT ![w] = [waiter[w] EXCEPT
                            !.at = IF awaited THEN "found" ELSE "deadline", !.absent = ~awaited]]
        BY <1>1, <2>2 DEF LooksAround
      <3>3. "found" \in WaiterPlaces /\ "deadline" \in WaiterPlaces /\ (~awaited) \in BOOLEAN
        BY <1>1 DEF WaiterPlaces
      <3>4. waiter' \in [Waiters -> WaiterStates]
        BY <1>1, <3>1, <3>2, <3>3
      <3>5. /\ waiter'[w].at = IF awaited THEN "found" ELSE "deadline"
            /\ waiter'[w].absent = ~awaited
        BY <1>1, <3>2 DEF WaiterStates
      <3> QED
        BY <3>4, <3>5
    <2>3. ASSUME NEW to \in WaiterPlaces, waiter' = [waiter EXCEPT ![w].at = to]
          PROVE  /\ waiter' \in [Waiters -> WaiterStates] /\ waiter'[w].at = to
                 /\ waiter'[w].waited = waiter[w].waited /\ waiter'[w].absent = waiter[w].absent
      BY <1>1, <2>3 DEF WaiterStates
    <2>4. CASE PastDeadline(w)
      BY <2>3, <2>4 DEF PastDeadline, WaiterMoves, WaiterPlaces, WaitersInv
    <2>5. CASE SleepBegins(w) \/ SleepEnds(w) \/ SleepCancelled(w)
      BY <2>3, <2>5 DEF SleepBegins, SleepEnds, SleepCancelled, WaiterMoves, WaiterPlaces
    <2> QED
      BY <2>1, <2>2, <2>4, <2>5
  <1> QED
    BY <1>1, <1>2, <1>3 DEF WaitersInv

\* An order in which a map may be ranged over has every worker.
LEMMA OrdersHaveAll ==
  ASSUME NEW order \in SetToSeqs(Fleet)
  PROVE  /\ Len(order) \in Nat /\ order \in [1..Len(order) -> Fleet]
         /\ \A w \in Fleet : \E i \in 1..Len(order) : order[i] = w
  <1> DEFINE n == Cardinality(Fleet)
  <1>1. n \in Nat /\ IsFiniteSet(Fleet)
    BY UtilitiesAssumption, FS_CardinalityType
  <1>2. order \in [1..n -> Fleet] /\ \A i, j \in 1..n : i # j => order[i] # order[j]
    BY DEF SetToSeqs
  <1>3. IsFiniteSet(1..n) /\ Cardinality(1..n) = n
    BY <1>1, FS_Interval
  <1> HIDE DEF n
  <1>4. order \in Injection(1..n, Fleet)
    BY <1>2 DEF Injection, IsInjective
  <1>5. order \in Surjection(1..n, Fleet)
    BY <1>1, <1>3, <1>4, FS_Injection DEF n
  <1>6. Len(order) = n
    BY <1>1, <1>2
  <1> QED
    BY <1>1, <1>2, <1>5, <1>6 DEF Surjection

\* What the loop over the workers has found among the first of them.
LeastOf(order, n, best) ==
    LET Able(w) == Live(w) /\ AcceptsJobs(w)
    IN  /\ best \in Fleet \cup {NoWorker}
        /\ best # NoWorker => /\ Able(best) /\ fleet[best].load < AboveMaximum
                              /\ \A i \in 1..n : Able(order[i]) => fleet[best].load <= fleet[order[i]].load
        /\ best = NoWorker => \A i \in 1..n : Able(order[i]) => fleet[order[i]].load >= AboveMaximum

\* The loads of the fleet are numbers.
LEMMA LoadsAreNumbers == \A state \in FleetStates : state.load \in Nat
  <1>1. \A state \in FleetStates : state.load \in FleetLoads \cup {0}
    BY DEF FleetStates
  <1>2. FleetLoads \cup {0} \subseteq Nat
    BY UtilitiesAssumption
  <1> QED
    BY <1>1, <1>2

\* The loop over an order of the workers finds, at its end, the least of them all.
LEMMA LeastLoadedOfOrder ==
  ASSUME fleet \in [Fleet -> FleetStates], NEW n \in Nat, NEW order \in [1..n -> Fleet], Len(order) = n
  PROVE  LeastOf(order, n, LeastLoadedIn(order))
  <1> DEFINE Picked(w, best) ==
                LET bestLoad == IF best = NoWorker THEN AboveMaximum ELSE fleet[best].load
                IN  IF Live(w) /\ AcceptsJobs(w) /\ fleet[w].load < bestLoad THEN w ELSE best
             V == Fleet \cup {NoWorker}
             Loop(f) == [i \in 0..n |-> IF i = 0 THEN NoWorker ELSE Picked(order[i], f[i - 1])]
             G == [p \in Nat \X V |-> IF p[1] \in 1..n THEN Picked(order[p[1]], p[2]) ELSE p[2]]
             found == CHOOSE f : f = Loop(f)
  <1>1. LeastLoadedIn(order) = found[n]
    BY DEF LeastLoadedIn
  <1>2. \A w \in Fleet, best \in V : Picked(w, best) \in V
    OBVIOUS
  <1> HIDE DEF Picked
  <1>3. \E f : f = Loop(f)
    <2>1. G \in StepFunctions(V) /\ NoWorker \in V
      <3>1. \A i \in 1..n : order[i] \in Fleet
        OBVIOUS
      <3>2. \A p \in Nat \X V : p[2] \in V
        OBVIOUS
      <3>3. NoWorker \in V
        OBVIOUS
      <3> HIDE DEF V
      <3> QED
        BY <1>2, <3>1, <3>2, <3>3 DEF StepFunctions
    <2>2. PICK f : Follows(f, V, NoWorker, G, n)
      <3> HIDE DEF G, V
      <3> QED
        BY <2>1, RecursionExists
    <2>3. ASSUME NEW i \in 1..n
          PROVE  f[i] = Picked(order[i], f[i - 1])
      <3> HIDE DEF V
      <3>1. i \in Nat /\ i - 1 \in 0..n /\ f[i - 1] \in V
        BY <2>2 DEF Follows
      <3> QED
        BY <2>2, <3>1 DEF Follows
    <2>4. f[0] = NoWorker /\ f = [i \in 0..n |-> f[i]] /\ \A i \in 0..n : i # 0 => i \in 1..n
      BY <2>2 DEF Follows
    <2> QED
      BY <2>3, <2>4
  <1>4. found = Loop(found)
    BY <1>3
  <1> HIDE DEF found
  <1>5. found[0] = NoWorker /\ \A i \in 1..n : found[i] = Picked(order[i], found[i - 1])
    <2>1. 0 \in 0..n /\ \A i \in 1..n : i \in 0..n /\ i # 0
      OBVIOUS
    <2>2. Loop(found)[0] = NoWorker /\ \A i \in 1..n : Loop(found)[i] = Picked(order[i], found[i - 1])
      BY <2>1
    <2> HIDE DEF Loop
    <2> QED
      BY <1>4, <2>2
  <1> HIDE DEF Loop
  <1> DEFINE T == {i \in Nat : i <= n => LeastOf(order, i, found[i])}
  <1>6. 0 \in T
    BY <1>5 DEF LeastOf
  <1>7. ASSUME NEW i \in T PROVE i + 1 \in T
    <2> SUFFICES ASSUME i + 1 <= n PROVE LeastOf(order, i + 1, found[i + 1])
      OBVIOUS
    <2> DEFINE w == order[i + 1]   best == found[i]
    <2>1. i \in Nat /\ w \in Fleet /\ found[i + 1] = Picked(w, best) /\ LeastOf(order, i, best)
      <3>1. i \in Nat /\ i + 1 \in 1..n /\ (i + 1) - 1 = i
        BY <1>7
      <3> QED
        BY <1>5, <1>7, <3>1
    <2>2. \A v \in Fleet : fleet[v].load \in Nat
      <3>1. \A state \in FleetStates : state.load \in Nat
        BY LoadsAreNumbers
      <3>2. \A v \in Fleet : fleet[v] \in FleetStates
        OBVIOUS
      <3> QED
        BY <3>1, <3>2
    <2>3. \A k \in 1..(i + 1) : k \in 1..i \/ k = i + 1
      BY <2>1
    <2>4. \A k \in 1..i : k \in 1..n /\ order[k] \in Fleet
      BY <2>1
    <2> HIDE DEF best
    <2>5. CASE Live(w) /\ AcceptsJobs(w)
               /\ fleet[w].load < (IF best = NoWorker THEN AboveMaximum ELSE fleet[best].load)
      <3>1. found[i + 1] = w /\ w # NoWorker
        BY <2>1, <2>5, UtilitiesAssumption DEF Picked
      <3>2. best # NoWorker => best \in Fleet /\ fleet[best].load < AboveMaximum
        BY <2>1 DEF LeastOf
      <3>3. fleet[w].load < AboveMaximum
        BY <2>1, <2>2, <2>5, <3>2, UtilitiesAssumption
      <3>4. ASSUME NEW k \in 1..i, Live(order[k]), AcceptsJobs(order[k])
            PROVE  fleet[w].load <= fleet[order[k]].load
        <4>1. order[k] \in Fleet /\ fleet[order[k]].load \in Nat /\ fleet[w].load \in Nat
          BY <2>1, <2>2, <2>4
        <4>2. CASE best = NoWorker
          <5>1. fleet[order[k]].load >= AboveMaximum
            BY <2>1, <3>4, <4>2 DEF LeastOf
          <5> QED
            BY <3>3, <4>1, <5>1, UtilitiesAssumption
        <4>3. CASE best # NoWorker
          <5>1. fleet[best].load <= fleet[order[k]].load /\ fleet[w].load < fleet[best].load
            BY <2>1, <2>5, <3>4, <4>3 DEF LeastOf
          <5>2. fleet[best].load \in Nat
            BY <2>2, <3>2, <4>3
          <5> QED
            BY <4>1, <5>1, <5>2
        <4> QED
          BY <4>2, <4>3
      <3> HIDE DEF w
      <3>5. \A k \in 1..(i + 1) : Live(order[k]) /\ AcceptsJobs(order[k])
                                        => fleet[w].load <= fleet[order[k]].load
        BY <2>1, <2>2, <2>3, <3>4 DEF w
      <3> QED
        BY <2>1, <2>5, <3>1, <3>3, <3>5 DEF LeastOf
    <2>6. CASE ~(Live(w) /\ AcceptsJobs(w)
                 /\ fleet[w].load < (IF best = NoWorker THEN AboveMaximum ELSE fleet[best].load))
      <3>1. found[i + 1] = best
        BY <2>1, <2>6 DEF Picked
      <3>2. best \in Fleet \cup {NoWorker}
        BY <2>1 DEF LeastOf
      <3>3. Live(w) /\ AcceptsJobs(w)
                => fleet[w].load >= (IF best = NoWorker THEN AboveMaximum ELSE fleet[best].load)
        BY <2>1, <2>2, <2>6, <3>2, UtilitiesAssumption
      <3> QED
        BY <2>1, <2>2, <2>3, <3>1, <3>2, <3>3 DEF LeastOf
    <2> QED
      BY <2>5, <2>6
  <1>8. T = Nat
    <2>1. T \subseteq Nat
      OBVIOUS
    <2> HIDE DEF T
    <2> QED
      BY <1>6, <1>7, <2>1, SetInduction
  <1>9. LeastOf(order, n, found[n])
    BY <1>8
  <1> QED
    BY <1>1, <1>9

\* For any workers, loads, waits and comings and goings, and in whatever order the map is
\* ranged over: the worker picked is one that is alive, has a place and no more load than any
\* other such, and whoever is told that the participant did not come looked once more when the
\* whole timeout was over.
THEOREM UtilitiesCorrect ==
  UtilitiesSpec => [](UtilitiesTypeOK /\ LeastLoadedIsLeast /\ TimeoutAfterLastLook)
  <1>1. WaitersInv /\ [UtilitiesNext]_utilityVars => WaitersInv'
    <2> SUFFICES ASSUME WaitersInv, [UtilitiesNext]_utilityVars PROVE WaitersInv'
      OBVIOUS
    <2>1. CASE UNCHANGED utilityVars
      BY <2>1 DEF utilityVars, waiterVars, WaitersInv
    <2>2. ASSUME NEW w \in Fleet,
                 \/ \E load \in FleetLoads, jobs \in FleetJobs : UpdateWorker(w, load, jobs)
                 \/ RemoveWorker(w)
          PROVE  WaitersInv'
      <3>1. UNCHANGED waiterVars
        BY <2>2 DEF UpdateWorker, RemoveWorker
      <3> QED
        BY <2>2, <3>1, FleetKeeps
    <2>3. CASE FleetAges
      BY <2>3, AgingKeeps
    <2> QED
      BY <2>1, <2>2, <2>3, TimeKeeps, WaiterKeeps DEF UtilitiesNext
  <1>2. WaitersInv => UtilitiesTypeOK /\ LeastLoadedIsLeast /\ TimeoutAfterLastLook
    <2> SUFFICES ASSUME WaitersInv
                 PROVE  UtilitiesTypeOK /\ LeastLoadedIsLeast /\ TimeoutAfterLastLook
      OBVIOUS
    <2>1. UtilitiesTypeOK
      BY DEF WaitersInv, UtilitiesTypeOK, WaiterStates, WaiterPlaces, FleetStates
    <2>2. TimeoutAfterLastLook
      BY DEF WaitersInv, TimeoutAfterLastLook
    <2> DEFINE able == {w \in Fleet : Live(w) /\ AcceptsJobs(w)}
    <2>3. ASSUME NEW order \in SetToSeqs(Fleet)
          PROVE  LET best == LeastLoadedIn(order)
                 IN  /\ best # NoWorker => best \in able /\ \A w \in able : fleet[best].load <= fleet[w].load
                     /\ best = NoWorker => \A w \in able : fleet[w].load >= AboveMaximum
                     /\ GetWorkerCount = 0 => best = NoWorker
      <3> DEFINE best == LeastLoadedIn(order)   n == Len(order)
      <3>1. /\ n \in Nat /\ order \in [1..n -> Fleet]
            /\ \A w \in Fleet : \E i \in 1..n : order[i] = w
        BY OrdersHaveAll
      <3>2. LeastOf(order, n, best)
        BY <3>1, LeastLoadedOfOrder DEF WaitersInv
      <3> HIDE DEF best, n
      <3>3. best # NoWorker => best \in able /\ \A w \in able : fleet[best].load <= fleet[w].load
        BY <3>1, <3>2 DEF LeastOf
      <3>4. best = NoWorker => \A w \in able : fleet[w].load >= AboveMaximum
        BY <3>1, <3>2 DEF LeastOf
      <3>5. GetWorkerCount = 0 => best = NoWorker
        <4>1. IsFiniteSet({w \in Fleet : Live(w)})
          <5>1. {w \in Fleet : Live(w)} \subseteq Fleet
            OBVIOUS
          <5> QED
            BY <5>1, UtilitiesAssumption, FS_Subset
        <4>2. GetWorkerCount = 0 => {w \in Fleet : Live(w)} = {}
          BY <4>1, FS_EmptySet DEF GetWorkerCount
        <4> QED
          BY <3>3, <4>2
      <3> QED
        BY <3>3, <3>4, <3>5 DEF best
    <2>4. LeastLoadedIsLeast
      BY <2>3 DEF LeastLoadedIsLeast
    <2> QED
      BY <2>1, <2>2, <2>4
  <1> QED
    BY <1>1, <1>2, WaitersInit, PTL DEF UtilitiesSpec


-------------------------------------------------------------------------------
(* The quality a record has, and the one the SDK was asked for.               *)

\* What QualityAskedFor rests on: a record made anew says HIGH, and another says what the SDK
\* was asked for or what the caller is about to ask for.
QualityFollows ==
    /\ record \in [Publications -> Record] /\ preferred \in [Publications -> VideoQualities]
    /\ asked \in [Publications -> VideoQualities]
    /\ calling \in [Subscribers ->
            {Idle} \cup [doing : {"record", "delete"}, pub : Publications]
                   \cup [doing : {"quality"}, pub : Publications, quality : VideoQualities]
                   \cup [doing : {"enable"}, pub : Publications, on : BOOLEAN]]
    /\ \A p \in Publications :
        /\ p \in fresh => preferred[p] = High
        /\ record[p] # "none" /\ p \notin fresh /\ preferred[p] # asked[p] =>
              \E s \in Subscribers : /\ calling[s].doing = "quality" /\ calling[s].pub = p
                                    /\ calling[s].quality = preferred[p]
        /\ \A s \in Subscribers :
              calling[s].doing = "quality" /\ calling[s].pub = p /\ record[p] # "none" /\ p \notin fresh
                => calling[s].quality = preferred[p]

LEMMA RecordKeepsQuality ==
  ASSUME QualityFollows, NEW p \in Publications, NEW kind \in Record \ {"none"},
         NewRecord(p, kind) \/ DeleteRecord(p), calling' = calling
  PROVE  QualityFollows'
  <1>1. /\ record' \in [Publications -> Record] /\ preferred' \in [Publications -> VideoQualities]
        /\ asked' = asked /\ preferred'[p] = High
        /\ \A q \in Publications \ {p} :
              preferred'[q] = preferred[q] /\ record'[q] = record[q] /\ (q \in fresh' <=> q \in fresh)
        /\ record'[p] = "none" \/ p \in fresh'
    BY TrackingAssumption DEF NewRecord, DeleteRecord, QualityFollows, Record
  <1> QED
    BY <1>1 DEF QualityFollows

LEMMA CallKeepsQuality ==
  ASSUME QualityFollows, \A s, t \in Subscribers : s = t,
         NEW s \in Subscribers, calling[s] = Idle, calling' = [calling EXCEPT ![s] = calling'[s]],
         calling'[s] \in [doing : {"record", "delete"}, pub : Publications]
                         \cup [doing : {"enable"}, pub : Publications, on : BOOLEAN],
         UNCHANGED <<record, preferred, asked, fresh>>
  PROVE  QualityFollows'
  <1>1. \A t \in Subscribers : calling[t] = Idle /\ calling[t].doing = "nothing"
    BY DEF Idle
  <1>2. \A p \in Publications : record[p] # "none" /\ p \notin fresh => preferred[p] = asked[p]
    BY <1>1 DEF QualityFollows
  <1> QED
    BY <1>2 DEF QualityFollows

\* For one caller of the worker, and however its calls, the callbacks and the SDK interleave: a
\* record has the quality the SDK was asked for, or it was made anew since and says HIGH.
THEOREM QualityAlwaysAskedFor ==
  ASSUME \A s, t \in Subscribers : s = t
  PROVE  TrackingSpec => []QualityAskedFor
  <1>1. TrackingInit => QualityFollows
    BY TrackingAssumption DEF TrackingInit, QualityFollows, Record
  <1>2. QualityFollows /\ [TrackingNext]_trackingVars => QualityFollows'
    <2> SUFFICES ASSUME QualityFollows, [TrackingNext]_trackingVars PROVE QualityFollows'
      OBVIOUS
    <2>1. CASE UNCHANGED <<record, preferred, asked, fresh, calling>>
      BY <2>1 DEF QualityFollows
    <2>2. CASE PeopleNext
      BY <2>1, <2>2 DEF PeopleNext, OnParticipantConnected, OnParticipantDisconnected, DataArrives,
         OnDataPacket, trackVars, settingVars
    <2>3. ASSUME NEW p \in Publications, SdkFollows(p) \/ OnTrackSubscribed(p) \/ OnTrackUnsubscribed(p)
          PROVE  QualityFollows'
      <3>1. CASE SdkFollows(p)
        BY <2>1, <3>1 DEF SdkFollows, settingVars
      <3>2. CASE OnTrackSubscribed(p) \/ OnTrackUnsubscribed(p)
        BY <3>2, RecordKeepsQuality DEF OnTrackSubscribed, OnTrackUnsubscribed, Record
      <3> QED
        BY <2>3, <3>1, <3>2
    <2>4. ASSUME NEW s \in Subscribers, NEW p \in Publications,
                 SubscribeToTrack(s, p) \/ UnsubscribeFromTrack(s, p)
                 \/ \E on \in BOOLEAN : EnableTrack(s, p, on)
          PROVE  QualityFollows'
      <3>1. /\ calling[s] = Idle /\ UNCHANGED <<record, preferred, asked, fresh>>
            /\ \E call \in [doing : {"record", "delete"}, pub : Publications]
                           \cup [doing : {"enable"}, pub : Publications, on : BOOLEAN] :
                  calling' = [calling EXCEPT ![s] = call]
        BY <2>4 DEF SubscribeToTrack, UnsubscribeFromTrack, Ask, EnableTrack, settingVars
      <3>2. /\ calling' = [calling EXCEPT ![s] = calling'[s]]
            /\ calling'[s] \in [doing : {"record", "delete"}, pub : Publications]
                               \cup [doing : {"enable"}, pub : Publications, on : BOOLEAN]
        BY <3>1 DEF QualityFollows
      <3> QED
        BY <3>1, <3>2, CallKeepsQuality
    <2>5. ASSUME NEW s \in Subscribers, NEW p \in Publications,
                 UnsubscribeTrack(s, p) \/ SetTrackShape(s, p)
          PROVE  QualityFollows'
      <3>1. CASE UnsubscribeTrack(s, p)
        BY <3>1, RecordKeepsQuality DEF UnsubscribeTrack, Record
      <3>2. CASE SetTrackShape(s, p)
        BY <2>1, <3>2 DEF SetTrackShape
      <3> QED
        BY <2>5, <3>1, <3>2
    <2>6. ASSUME NEW s \in Subscribers, NEW p \in Publications, NEW q \in VideoQualities,
                 SetTrackQuality(s, p, q)
          PROVE  QualityFollows'
      <3>1. \A t \in Subscribers : calling[t] = Idle /\ calling[t].doing = "nothing"
        BY <2>6 DEF SetTrackQuality, Idle
      <3>2. /\ \A r \in Publications : record[r] # "none" /\ r \notin fresh => preferred[r] = asked[r]
            /\ \A r \in Publications : r \in fresh => preferred[r] = High
        BY <3>1 DEF QualityFollows
      <3>3. /\ UNCHANGED <<record, asked>> /\ fresh' = fresh \ {p}
            /\ preferred' = [preferred EXCEPT ![p] = q]
            /\ calling' = [calling EXCEPT ![s] = [doing |-> "quality", pub |-> p, quality |-> q]]
        BY <2>6 DEF SetTrackQuality
      <3>4. /\ calling'[s].doing = "quality" /\ calling'[s].pub = p
            /\ calling'[s].quality = preferred'[p]
        BY <3>3 DEF QualityFollows
      <3>5. \A r \in Publications \ {p} : preferred'[r] = preferred[r]
        BY <3>3 DEF QualityFollows
      <3>6. /\ record' \in [Publications -> Record] /\ preferred' \in [Publications -> VideoQualities]
            /\ calling' \in [Subscribers ->
                  {Idle} \cup [doing : {"record", "delete"}, pub : Publications]
                         \cup [doing : {"quality"}, pub : Publications, quality : VideoQualities]
                         \cup [doing : {"enable"}, pub : Publications, on : BOOLEAN]]
        BY <3>3 DEF QualityFollows
      <3> QED
        BY <3>2, <3>3, <3>4, <3>5, <3>6 DEF QualityFollows
    <2>7. ASSUME NEW s \in Subscribers, Recorded(s)
          PROVE  QualityFollows'
      <3>1. /\ calling[s].doing \in {"record", "delete"} /\ calling' = [calling EXCEPT ![s] = Idle]
            /\ NewRecord(calling[s].pub, "bare") \/ DeleteRecord(calling[s].pub)
        BY <2>7 DEF Recorded
      <3>2. calling[s].pub \in Publications /\ calling[s].doing # "quality"
        BY <3>1 DEF QualityFollows, Idle
      <3> DEFINE p == calling[s].pub
      <3>3. /\ record' \in [Publications -> Record] /\ preferred' \in [Publications -> VideoQualities]
            /\ asked' = asked /\ preferred'[p] = High
            /\ \A q \in Publications \ {p} :
                  preferred'[q] = preferred[q] /\ record'[q] = record[q] /\ (q \in fresh' <=> q \in fresh)
            /\ record'[p] = "none" \/ p \in fresh'
        BY <3>1, <3>2, TrackingAssumption DEF NewRecord, DeleteRecord, QualityFollows, Record
      <3>4. \A t \in Subscribers \ {s} : calling'[t] = calling[t]
        BY <3>1 DEF QualityFollows
      <3>5. calling' \in [Subscribers ->
                  {Idle} \cup [doing : {"record", "delete"}, pub : Publications]
                         \cup [doing : {"quality"}, pub : Publications, quality : VideoQualities]
                         \cup [doing : {"enable"}, pub : Publications, on : BOOLEAN]]
        BY <3>1 DEF QualityFollows
      <3>6. calling'[s].doing = "nothing"
        BY <3>1 DEF Idle, QualityFollows
      <3> HIDE DEF p
      <3>7. ASSUME NEW q \in Publications
            PROVE  /\ q \in fresh' => preferred'[q] = High
                   /\ record'[q] # "none" /\ q \notin fresh' /\ preferred'[q] # asked'[q] =>
                         \E t \in Subscribers : /\ calling'[t].doing = "quality" /\ calling'[t].pub = q
                                               /\ calling'[t].quality = preferred'[q]
                   /\ \A t \in Subscribers :
                         calling'[t].doing = "quality" /\ calling'[t].pub = q
                           /\ record'[q] # "none" /\ q \notin fresh' => calling'[t].quality = preferred'[q]
        <4>1. CASE q = p
          BY <3>3, <4>1
        <4>2. CASE q # p
          <5>1. preferred'[q] = preferred[q] /\ record'[q] = record[q] /\ (q \in fresh' <=> q \in fresh)
            BY <3>3, <4>2
          <5> QED
            BY <3>2, <3>3, <3>4, <3>6, <5>1 DEF QualityFollows
        <4> QED
          BY <4>1, <4>2
      <3> QED
        BY <3>3, <3>5, <3>7 DEF QualityFollows
    <2>8. ASSUME NEW s \in Subscribers, TellSdk(s)
          PROVE  QualityFollows'
      <3>1. /\ UNCHANGED <<record, preferred, fresh>> /\ calling' = [calling EXCEPT ![s] = Idle]
            /\ \/ /\ calling[s].doing = "quality"
                  /\ asked' = [asked EXCEPT ![calling[s].pub] = calling[s].quality]
               \/ calling[s].doing = "enable" /\ asked' = asked
        BY <2>8 DEF TellSdk
      <3>2. /\ calling[s].doing = "quality" =>
                   calling[s].pub \in Publications /\ calling[s].quality \in VideoQualities
            /\ calling' \in [Subscribers ->
                  {Idle} \cup [doing : {"record", "delete"}, pub : Publications]
                         \cup [doing : {"quality"}, pub : Publications, quality : VideoQualities]
                         \cup [doing : {"enable"}, pub : Publications, on : BOOLEAN]]
        BY <3>1 DEF QualityFollows, Idle
      <3>3. \A p \in Publications :
               record[p] # "none" /\ p \notin fresh => preferred[p] = asked'[p]
        <4> SUFFICES ASSUME NEW p \in Publications, record[p] # "none", p \notin fresh
                     PROVE  preferred[p] = asked'[p]
          OBVIOUS
        <4>1. CASE preferred[p] # asked[p]
          <5>1. calling[s].doing = "quality" /\ calling[s].pub = p /\ calling[s].quality = preferred[p]
            BY <4>1 DEF QualityFollows
          <5> QED
            BY <3>1, <5>1 DEF QualityFollows
        <4>2. CASE preferred[p] = asked[p]
          BY <3>1, <4>2 DEF QualityFollows
        <4> QED
          BY <4>1, <4>2
      <3>4. asked' \in [Publications -> VideoQualities]
        BY <3>1, <3>2 DEF QualityFollows
      <3>5. \A t \in Subscribers : calling'[t].doing = "quality" => calling'[t] = calling[t]
        BY <3>1 DEF QualityFollows, Idle
      <3> QED
        BY <3>1, <3>2, <3>3, <3>4, <3>5 DEF QualityFollows
    <2>9. CASE UNCHANGED trackingVars
      BY <2>1, <2>9 DEF trackingVars, trackVars, settingVars
    <2> QED
      BY <2>2, <2>3, <2>4, <2>5, <2>6, <2>7, <2>8, <2>9 DEF TrackingNext, TracksNext
  <1>3. QualityFollows => QualityAskedFor
    BY DEF QualityFollows, QualityAskedFor, GetSubscribedTracks, Idle
  <1> QED
    BY <1>1, <1>2, <1>3, PTL DEF TrackingSpec


-------------------------------------------------------------------------------
(* The subscriptions, and the quality that is optimal for a connection.       *)

\* A publication is refused since the filters were cleared because one of them refuses it.
RefusedByOne ==
    /\ SubscriptionTypeOK
    /\ \A p \in refusedSince : \E n \in DOMAIN filters : p \notin filters[n]

LEMMA PriorityKeeps ==
  ASSUME SubscriptionTypeOK, NEW source \in Sources, NEW priority \in GivenPriorities,
         SetSourcePriority(source, priority)
  PROVE  SubscriptionTypeOK'
  <1>1. DOMAIN sourcePriorities' = DOMAIN sourcePriorities \cup {source} /\ priority \in Int
    BY SubscriptionAssumption DEF SetSourcePriority
  <1>2. \A s \in DOMAIN sourcePriorities' :
           sourcePriorities'[s] = IF s = source THEN priority ELSE sourcePriorities[s]
    BY <1>1 DEF SetSourcePriority
  <1>3. \A s \in DOMAIN sourcePriorities : sourcePriorities[s] \in Int
    BY DEF SubscriptionTypeOK, GetSourcePriority
  <1>4. \A s \in Sources : GetSourcePriority(s)' \in Int
    BY <1>1, <1>2, <1>3 DEF GetSourcePriority
  <1> QED
    BY <1>1, <1>4 DEF SetSourcePriority, SubscriptionTypeOK

\* For any publications, filters and priorities: what a filter refused is not subscribed to
\* until the filters are cleared, whatever is added or switched on after it.
THEOREM FiltersAlwaysOnlyRefuse == SubscriptionSpec => [](SubscriptionTypeOK /\ FiltersOnlyRefuse)
  <1>1. SubscriptionInit => RefusedByOne
    <2> SUFFICES ASSUME SubscriptionInit PROVE RefusedByOne
      OBVIOUS
    <2>1. \A s \in Sources : GetSourcePriority(s) \in Int
      BY SubscriptionAssumption DEF SubscriptionInit, GetSourcePriority
    <2> QED
      BY <2>1, SubscriptionAssumption DEF SubscriptionInit, RefusedByOne, SubscriptionTypeOK
  <1>2. RefusedByOne /\ [SubscriptionNext]_subscriptionVars => RefusedByOne'
    <2> SUFFICES ASSUME RefusedByOne, [SubscriptionNext]_subscriptionVars PROVE RefusedByOne'
      OBVIOUS
    <2> USE DEF RefusedByOne
    <2>1. CASE UNCHANGED subscriptionVars
      BY <2>1 DEF subscriptionVars, SubscriptionTypeOK, GetSourcePriority
    <2>2. ASSUME NEW switchedOn \in BOOLEAN,
                 SetAutoSubscribe(switchedOn) \/ \E k \in {"audio", "video"} : SetSubscribeKind(k, switchedOn)
          PROVE  RefusedByOne'
      BY <2>2 DEF SetAutoSubscribe, SetSubscribeKind, SubscriptionTypeOK, GetSourcePriority
    <2>3. ASSUME NEW source \in Sources, NEW priority \in GivenPriorities,
                 SetSourcePriority(source, priority)
          PROVE  RefusedByOne'
      BY <2>3, PriorityKeeps DEF SetSourcePriority
    <2>4. ASSUME NEW filter \in Filters, AddFilter(filter)
          PROVE  RefusedByOne'
      <3>1. /\ filters \in Seq(Filters) /\ filters' = Append(filters, filter)
            /\ refusedSince' = refusedSince \cup (Offered \ filter)
            /\ UNCHANGED <<autoSubscribe, subscribeKind, sourcePriorities>>
        BY <2>4 DEF AddFilter, SubscriptionTypeOK
      <3>2. /\ Len(filters) \in Nat /\ filters' \in Seq(Filters)
            /\ DOMAIN filters = 1..Len(filters) /\ DOMAIN filters' = 1..(Len(filters) + 1)
            /\ filters'[Len(filters) + 1] = filter
            /\ \A n \in DOMAIN filters : filters'[n] = filters[n]
        BY <3>1
      <3>3. \A p \in refusedSince' : \E n \in DOMAIN filters' : p \notin filters'[n]
        <4> SUFFICES ASSUME NEW p \in refusedSince' PROVE \E n \in DOMAIN filters' : p \notin filters'[n]
          OBVIOUS
        <4>1. CASE p \in refusedSince
          BY <3>2, <4>1
        <4>2. CASE p \notin filter
          BY <3>2, <4>2
        <4> QED
          BY <3>1, <4>1, <4>2
      <3> QED
        BY <3>1, <3>2, <3>3 DEF SubscriptionTypeOK, GetSourcePriority
    <2>5. CASE ClearFilters
      BY <2>5 DEF ClearFilters, SubscriptionTypeOK, GetSourcePriority
    <2> QED
      BY <2>1, <2>2, <2>3, <2>4, <2>5 DEF SubscriptionNext
  <1>3. RefusedByOne => SubscriptionTypeOK /\ FiltersOnlyRefuse
    BY DEF RefusedByOne, FiltersOnlyRefuse, ShouldAutoSubscribe
  <1> QED
    BY <1>1, <1>2, <1>3, PTL DEF SubscriptionSpec

LEMMA ClampStays ==
  ASSUME NEW q \in VideoQuality, NEW p \in Policies, NEW network \in Network
  PROVE  /\ TargetQuality(q, p, network) \in VideoQuality
         /\ TargetQuality(q, p, network) \in p.min..p.max
  <1>1. p.min \in 0..3 /\ p.max \in 0..3 /\ p.min <= p.max
    BY QualityAssumption DEF VideoQuality
  <1>2. decreaseQuality(q) \in 0..3 /\ increaseQuality(q) \in 0..3 /\ q \in 0..3
    BY DEF decreaseQuality, increaseQuality, VideoQuality, HIGH, MEDIUM, LOW
  <1>3. \A v \in 0..3 : Clamp(v, p) \in p.min..p.max
    BY <1>1 DEF Clamp
  <1>4. \E v \in 0..3 : TargetQuality(q, p, network) = Clamp(v, p)
    BY <1>2 DEF TargetQuality
  <1>5. TargetQuality(q, p, network) \in p.min..p.max
    BY <1>3, <1>4
  <1> QED
    BY <1>1, <1>5 DEF VideoQuality

\* What a loop's update does to the qualities: they stay qualities, and one that changes
\* becomes one that the policy the loop copied allows.
LEMMA UpdateStays ==
  ASSUME QualityTypeOK, NEW l \in Loops, LoopUpdates(l)
  PROVE  /\ monitor' \in [Monitors -> Monitor] /\ subscribed' \in [Tracks -> VideoQuality]
         /\ todo' \in [Loops -> SUBSET Monitors]
         /\ \A t \in Tracks : subscribed'[t] # subscribed[t] =>
                subscribed'[t] \in copied[l].min..copied[l].max
  <1>1. PICK m \in todo[l], network \in Network, early \in BOOLEAN :
           /\ Update(m, copied[l], network, early)
           /\ todo' = [todo EXCEPT ![l] = @ \ {m}]
    BY DEF LoopUpdates
  <1>2. /\ m \in Monitors /\ monitor \in [Monitors -> Monitor] /\ copied[l] \in Policies
        /\ subscribed \in [Tracks -> VideoQuality] /\ todo \in [Loops -> SUBSET Monitors]
    BY DEF QualityTypeOK
  <1>3. monitor[m].quality \in VideoQuality /\ monitor[m].track \in Tracks /\ monitor[m] \in Monitor
    BY <1>2 DEF Monitor
  <1> DEFINE aimed == TargetQuality(monitor[m].quality, copied[l], network)
  <1>4. aimed \in VideoQuality /\ aimed \in copied[l].min..copied[l].max
    BY <1>2, <1>3, ClampStays
  <1>5. \/ /\ monitor' = [monitor EXCEPT ![m].quality = aimed]
           /\ subscribed' = [subscribed EXCEPT ![monitor[m].track] = aimed]
        \/ UNCHANGED <<monitor, subscribed>>
    BY <1>1 DEF Update
  <1> HIDE DEF aimed
  <1>6. [monitor[m] EXCEPT !.quality = aimed] \in Monitor
    BY <1>3, <1>4 DEF Monitor
  <1>7. monitor' \in [Monitors -> Monitor]
    BY <1>2, <1>5, <1>6
  <1>8. todo' \in [Loops -> SUBSET Monitors]
    BY <1>1, <1>2
  <1> QED
    BY <1>2, <1>3, <1>4, <1>5, <1>7, <1>8

LEMMA QualityTypeStep == QualityTypeOK /\ [QualityNext]_qualityVars => QualityTypeOK'
  <1> SUFFICES ASSUME QualityTypeOK, [QualityNext]_qualityVars PROVE QualityTypeOK'
    OBVIOUS
  <1>1. CASE UNCHANGED qualityVars
    BY <1>1 DEF qualityVars, QualityTypeOK
  <1>2. ASSUME NEW p \in Policies, SetAdaptationPolicy(p)
        PROVE  QualityTypeOK'
    BY <1>2 DEF SetAdaptationPolicy, QualityTypeOK
  <1>3. ASSUME NEW t \in Tracks, StartMonitoring(t)
        PROVE  QualityTypeOK'
    <2>1. PICK m \in Monitors : /\ monitors' = [monitors EXCEPT ![t] = m]
                                /\ monitor' = [monitor EXCEPT ![m] =
                                       [track |-> t, quality |-> subscribed[t], adapt |-> TRUE]]
      BY <1>3 DEF StartMonitoring
    <2>2. [track |-> t, quality |-> subscribed[t], adapt |-> TRUE] \in Monitor
      BY DEF QualityTypeOK, Monitor
    <2>3. loop' \in [Loops -> LoopPc]
      BY <1>3 DEF StartMonitoring, StartLoop, QualityTypeOK, LoopPc
    <2> QED
      BY <1>3, <2>1, <2>2, <2>3 DEF StartMonitoring, QualityTypeOK
  <1>4. ASSUME NEW t \in Tracks, StopMonitoring(t)
        PROVE  QualityTypeOK'
    <2>1. stopping' \in BOOLEAN
      BY <1>4 DEF StopMonitoring
    <2> QED
      BY <1>4, <2>1 DEF StopMonitoring, QualityTypeOK
  <1>5. ASSUME NEW t \in Tracks, NEW e \in BOOLEAN, EnableAdaptation(t, e)
        PROVE  QualityTypeOK'
    <2>1. monitors[t] \in Monitors /\ monitor[monitors[t]] \in Monitor
      BY <1>5 DEF EnableAdaptation, QualityTypeOK
    <2>2. [monitor[monitors[t]] EXCEPT !.adapt = e] \in Monitor
      BY <2>1 DEF Monitor
    <2> QED
      BY <1>5, <2>1, <2>2 DEF EnableAdaptation, QualityTypeOK
  <1>6. CASE StopReturns
    BY <1>6 DEF StopReturns, QualityTypeOK
  <1>7. ASSUME NEW l \in Loops, LoopStep(l)
        PROVE  QualityTypeOK'
    <2>1. CASE LoopUpdates(l)
      BY <2>1, UpdateStays DEF LoopUpdates, QualityTypeOK
    <2>2. CASE LoopCopies(l)
      <3>1. {monitors[t] : t \in Monitored} \subseteq Monitors
        BY DEF Monitored, QualityTypeOK
      <3> QED
        BY <2>2, <3>1 DEF LoopCopies, Goto, QualityTypeOK, LoopPc
    <2>3. CASE LoopTicks(l) \/ LoopEnds(l) \/ LoopDone(l)
      BY <2>3 DEF LoopTicks, LoopEnds, LoopDone, Goto, QualityTypeOK, LoopPc
    <2> QED
      BY <1>7, <2>1, <2>2, <2>3 DEF LoopStep
  <1> QED
    BY <1>1, <1>2, <1>3, <1>4, <1>5, <1>6, <1>7 DEF QualityNext

\* For any tracks, loops and policies: as long as the policy allows MEDIUM, a better connection
\* never gets a lower quality, and none that the policy does not allow.
THEOREM OptimalAlwaysFollows == QualitySpec => [](QualityTypeOK /\ OptimalFollowsConnection)
  <1>1. QualityTypeOK => OptimalFollowsConnection
    <2> SUFFICES ASSUME NEW p \in [min : VideoQuality, max : VideoQuality],
                        p.min <= MEDIUM, MEDIUM <= p.max, p.max # OFF
                 PROVE  LET Optimal(connection) == CalculateOptimalQuality(connection, p)
                        IN  /\ Optimal("poor") <= Optimal("good") /\ Optimal("good") <= Optimal("excellent")
                            /\ \A c \in {"excellent", "good", "poor", "lost"} : Optimal(c) \in p.min..p.max
      BY QualityAssumption DEF OptimalFollowsConnection, DefaultQualityAdaptationPolicy, VideoQuality,
         LOW, HIGH, QualityTypeOK
    <2>1. p.min \in 0..3 /\ p.max \in 0..3 /\ p.min <= 1 /\ 1 <= p.max /\ p.max # 3
      BY DEF VideoQuality, MEDIUM, OFF
    <2>2. /\ CalculateOptimalQuality("excellent", p) = p.max
          /\ CalculateOptimalQuality("good", p) = IF p.max = 2 THEN 1 ELSE p.max
          /\ CalculateOptimalQuality("poor", p) = p.min
          /\ CalculateOptimalQuality("lost", p) = 1
      BY DEF CalculateOptimalQuality, HIGH, MEDIUM
    <2> QED
      BY <2>1, <2>2
  <1>2. QualityInit => QualityTypeOK
    <2> SUFFICES ASSUME QualityInit PROVE QualityTypeOK
      OBVIOUS
    <2>1. PICK t \in Tracks :
             monitor = [m \in Monitors |-> [track |-> t, quality |-> LOW, adapt |-> FALSE]]
      BY DEF QualityInit
    <2>2. [track |-> t, quality |-> LOW, adapt |-> FALSE] \in Monitor /\ HIGH \in VideoQuality
      BY DEF Monitor, VideoQuality, LOW, HIGH
    <2>3. monitor \in [Monitors -> Monitor]
      BY <2>1, <2>2
    <2> QED
      BY <2>2, <2>3 DEF QualityInit, QualityTypeOK, LoopPc
  <1> QED
    BY <1>1, <1>2, QualityTypeStep, PTL DEF QualitySpec

\* For any tracks, loops and policies: a quality that was changed is one that the policy the
\* loop copied allows, for monitors that were removed meanwhile too.
THEOREM ChangesAlwaysWithinPolicy == QualitySpec => ChangesWithinPolicy
  <1> DEFINE Within == \A t \in Tracks : subscribed'[t] # subscribed[t] =>
                          \E l \in Loops : loop[l] = "update" /\ subscribed'[t] \in copied[l].min..copied[l].max
  <1>1. QualityTypeOK /\ [QualityNext]_qualityVars => [Within]_qualityVars
    <2> SUFFICES ASSUME QualityTypeOK, QualityNext PROVE Within
      OBVIOUS
    <2>1. CASE \E l \in Loops : LoopUpdates(l)
      <3>1. PICK l \in Loops : LoopUpdates(l)
        BY <2>1
      <3>2. loop[l] = "update"
        BY <3>1 DEF LoopUpdates
      <3> QED
        BY <3>1, <3>2, UpdateStays
    <2>2. CASE subscribed' = subscribed
      BY <2>2
    <2>3. (\E l \in Loops : LoopUpdates(l)) \/ subscribed' = subscribed
      BY DEF QualityNext, SetAdaptationPolicy, StartMonitoring, StopMonitoring, EnableAdaptation,
         StopReturns, LoopStep, LoopTicks, LoopEnds, LoopCopies, LoopDone
    <2> QED
      BY <2>1, <2>2, <2>3
  <1> QED
    BY <1>1, OptimalAlwaysFollows, PTL DEF QualitySpec, ChangesWithinPolicy


-------------------------------------------------------------------------------
(* The worker's events reach their handlers in order.                         *)

Growing(s) == \A m, n \in DOMAIN s : m < n => s[m] < s[n]

LEMMA GrowingAppend ==
  ASSUME NEW S, S \subseteq Nat, NEW s \in Seq(S), NEW e \in S,
         Growing(s), \A x \in Range(s) : x < e
  PROVE  Growing(Append(s, e))
  <1> DEFINE t == Append(s, e)
  <1>1. /\ DOMAIN s = 1..Len(s) /\ Len(s) \in Nat /\ DOMAIN t = 1..(Len(s) + 1)
        /\ \A i \in 1..Len(s) : t[i] = s[i]
        /\ t[Len(s) + 1] = e
    OBVIOUS
  <1> HIDE DEF t
  <1>2. SUFFICES ASSUME NEW m \in DOMAIN t, NEW n \in DOMAIN t, m < n PROVE t[m] < t[n]
    BY DEF Growing, t
  <1>3. m \in 1..Len(s) /\ t[m] = s[m] /\ s[m] \in Range(s)
    BY <1>1, <1>2 DEF Range
  <1>4. CASE n \in 1..Len(s)
    BY <1>1, <1>2, <1>3, <1>4 DEF Growing
  <1>5. CASE n = Len(s) + 1
    BY <1>1, <1>3, <1>5
  <1> QED
    BY <1>1, <1>4, <1>5

LEMMA GrowingTail ==
  ASSUME NEW S, S \subseteq Nat, NEW s \in Seq(S), s # <<>>, Growing(s)
  PROVE  /\ Head(s) \in S /\ Tail(s) \in Seq(S) /\ Growing(Tail(s))
         /\ Range(s) = Range(Tail(s)) \cup {Head(s)}
         /\ \A x \in Range(Tail(s)) : Head(s) < x
  <1> DEFINE t == Tail(s)
  <1>1. /\ DOMAIN s = 1..Len(s) /\ Len(s) \in Nat \ {0} /\ DOMAIN t = 1..(Len(s) - 1)
        /\ \A i \in 1..(Len(s) - 1) : t[i] = s[i + 1]
        /\ Head(s) = s[1] /\ s[1] \in S /\ t \in Seq(S)
    OBVIOUS
  <1> HIDE DEF t
  <1>2. Growing(t)
    <2> SUFFICES ASSUME NEW m \in DOMAIN t, NEW n \in DOMAIN t, m < n PROVE t[m] < t[n]
      BY DEF Growing
    <2>1. m + 1 \in DOMAIN s /\ n + 1 \in DOMAIN s /\ m + 1 < n + 1
      BY <1>1
    <2> QED
      BY <1>1, <2>1 DEF Growing
  <1>3. \A i \in DOMAIN s : i = 1 \/ (i - 1 \in DOMAIN t /\ t[i - 1] = s[i])
    BY <1>1
  <1>4. \A i \in DOMAIN t : i + 1 \in DOMAIN s /\ t[i] = s[i + 1] /\ 1 \in DOMAIN s /\ 1 < i + 1
    BY <1>1
  <1>5. Range(s) = Range(t) \cup {Head(s)}
    BY <1>1, <1>3, <1>4 DEF Range
  <1>6. \A x \in Range(t) : Head(s) < x
    BY <1>1, <1>4 DEF Range, Growing
  <1> QED
    BY <1>1, <1>2, <1>5, <1>6 DEF t

LEMMA EventsConcat ==
  \A s, u \in Seq(EventNumber) :
    Growing(s) /\ Growing(u) /\ (\A x \in Range(s), y \in Range(u) : x < y) =>
        s \o u \in Seq(EventNumber) /\ Growing(s \o u) /\ Range(s \o u) = Range(s) \cup Range(u)
  <1> DEFINE S == EventNumber
  <1> SUFFICES ASSUME NEW s \in Seq(S), NEW u \in Seq(S), Growing(s), Growing(u),
                      \A x \in Range(s), y \in Range(u) : x < y
               PROVE  s \o u \in Seq(S) /\ Growing(s \o u) /\ Range(s \o u) = Range(s) \cup Range(u)
    OBVIOUS
  <1> S \subseteq Nat
    BY DEF EventNumber
  <1> HIDE DEF S
  <1> DEFINE a == s \o u
  <1>1. /\ a \in Seq(S) /\ Len(s) \in Nat /\ Len(u) \in Nat
        /\ DOMAIN s = 1..Len(s) /\ DOMAIN u = 1..Len(u) /\ DOMAIN a = 1..(Len(s) + Len(u))
        /\ \A j \in DOMAIN s : a[j] = s[j]
        /\ \A j \in DOMAIN a : j \notin DOMAIN s => j - Len(s) \in DOMAIN u /\ a[j] = u[j - Len(s)]
    OBVIOUS
  <1>2. \A j \in DOMAIN u : Len(s) + j \in DOMAIN a /\ a[Len(s) + j] = u[j]
    OBVIOUS
  <1> HIDE DEF a
  <1>3. DOMAIN s \subseteq DOMAIN a
    BY <1>1
  <1>4. Range(a) = Range(s) \cup Range(u)
    BY <1>1, <1>2, <1>3 DEF Range
  <1>5. ASSUME NEW m \in DOMAIN a, NEW n \in DOMAIN a, m < n
        PROVE  a[m] < a[n]
    <2>1. CASE n \in DOMAIN s
      <3>1. m \in DOMAIN s
        BY <1>1, <1>5, <2>1
      <3> QED
        BY <1>1, <1>5, <2>1, <3>1 DEF Growing
    <2>2. CASE n \notin DOMAIN s /\ m \in DOMAIN s
      BY <1>1, <2>2 DEF Range
    <2>3. CASE n \notin DOMAIN s /\ m \notin DOMAIN s
      <3>1. /\ n - Len(s) \in DOMAIN u /\ a[n] = u[n - Len(s)]
            /\ m - Len(s) \in DOMAIN u /\ a[m] = u[m - Len(s)]
        BY <1>1, <2>3
      <3>2. m - Len(s) < n - Len(s)
        BY <1>1, <1>5
      <3> QED
        BY <3>1, <3>2 DEF Growing
    <2> QED
      BY <2>1, <2>2, <2>3
  <1> QED
    BY <1>1, <1>4, <1>5 DEF Growing, a

\* Who is owed an event is registered for its type and so will be among its handlers.
QueueKept ==
    /\ registered \in [EventTypes -> Seq(EventHandlers)]
    /\ universalQueue \in Seq(EventNumber) /\ Len(universalQueue) <= EventCapacity
    /\ queuedEvents \in Seq([type : EventTypes, owed : SUBSET EventHandlers])
    /\ \A t \in EventTypes :
        IsInjective(registered[t]) /\ \A h \in Range(registered[t]) : HandlerType[h] = t
    /\ \A n \in DOMAIN queuedEvents :
        queuedEvents[n].owed \subseteq Range(registered[queuedEvents[n].type])
    /\ Growing(universalQueue) /\ Range(universalQueue) \subseteq DOMAIN queuedEvents

\* The event that is handled is earlier than all that are queued ...
ProcessorKept ==
    /\ processor \in [loop : {"running", "stopped"}, event : {0} \cup EventNumber,
                      left : Seq(EventHandlers)]
    /\ processor.event # 0 =>
        /\ processor.left # <<>> /\ IsInjective(processor.left)
        /\ processor.event \in DOMAIN queuedEvents
        /\ \A n \in Range(universalQueue) : processor.event < n
        /\ \A h \in Range(processor.left) : HandlerType[h] = queuedEvents[processor.event].type

OfItsType(h, n) == n \in DOMAIN queuedEvents /\ queuedEvents[n].type = HandlerType[h]

Handling(h, n) == processor.event = n /\ n # 0 /\ h \in Range(processor.left)

\* ... and later than all that a handler it is still to be given to was run with.
HandlersKept ==
    /\ handledBy \in [EventHandlers -> Seq(EventNumber)]
    /\ \A h \in EventHandlers :
        /\ Growing(handledBy[h])
        /\ \A n \in Range(handledBy[h]) :
            /\ OfItsType(h, n)
            /\ \A k \in Range(universalQueue) : n < k
            /\ processor.event # 0 => n <= processor.event
            /\ \A k \in EventNumber : Handling(h, k) => n < k
        /\ \A n \in DOMAIN queuedEvents : h \in queuedEvents[n].owed =>
            n \in Range(handledBy[h]) \/ n \in Range(universalQueue) \/ Handling(h, n)

HandlingInv == QueueKept /\ ProcessorKept /\ HandlersKept

LEMMA AcceptedEvents ==
  ASSUME QueueKept, NEW n \in DOMAIN queuedEvents
  PROVE  queuedEvents[n].type \in EventTypes /\ queuedEvents[n].owed \subseteq EventHandlers
  <1> DEFINE Event == [type : EventTypes, owed : SUBSET EventHandlers]
  <1>1. queuedEvents \in Seq(Event)
    BY DEF QueueKept
  <1> HIDE DEF Event
  <1>2. queuedEvents[n] \in Event
    BY <1>1
  <1> QED
    BY <1>2 DEF Event

LEMMA RegisterKeepsHandling ==
  ASSUME HandlingInv, NEW h \in EventHandlers, RegisterEventHandler(h)
  PROVE  HandlingInv'
  <1>1. /\ \A t \in EventTypes : h \notin Range(registered[t])
        /\ registered' = [registered EXCEPT ![HandlerType[h]] = Append(@, h)]
        /\ UNCHANGED <<universalQueue, queuedEvents, processor, handledBy>>
    BY DEF RegisterEventHandler, ToSet, Range
  <1>2. HandlerType[h] \in EventTypes
    BY UniversalEventsAssumption
  <1>3. ASSUME NEW t \in EventTypes
        PROVE  /\ registered'[t] \in Seq(EventHandlers) /\ IsInjective(registered'[t])
               /\ Range(registered[t]) \subseteq Range(registered'[t])
               /\ \A g \in Range(registered'[t]) : HandlerType[g] = t
    <2>1. /\ registered[t] \in Seq(EventHandlers) /\ IsInjective(registered[t])
          /\ \A g \in Range(registered[t]) : HandlerType[g] = t
      BY DEF HandlingInv, QueueKept
    <2>2. CASE t = HandlerType[h]
      <3>1. registered'[t] = Append(registered[t], h)
        BY <1>1, <2>2 DEF HandlingInv, QueueKept
      <3> QED
        BY <1>1, <2>1, <2>2, <3>1, AppendsNew
    <2>3. CASE t # HandlerType[h]
      <3>1. registered'[t] = registered[t]
        BY <1>1, <2>3 DEF HandlingInv, QueueKept
      <3> QED
        BY <2>1, <3>1
    <2> QED
      BY <2>2, <2>3
  <1>4. registered' \in [EventTypes -> Seq(EventHandlers)]
    <2>1. DOMAIN registered' = EventTypes /\ registered' = [t \in EventTypes |-> registered'[t]]
      BY <1>1 DEF HandlingInv, QueueKept
    <2> QED
      BY <1>3, <2>1
  <1>5. \A n \in DOMAIN queuedEvents : queuedEvents[n].type \in EventTypes
    BY AcceptedEvents DEF HandlingInv
  <1>6. QueueKept'
    BY <1>1, <1>3, <1>4, <1>5 DEF HandlingInv, QueueKept
  <1> QED
    BY <1>1, <1>6 DEF HandlingInv, ProcessorKept, HandlersKept, OfItsType, Handling

LEMMA QueueKeepsHandling ==
  ASSUME HandlingInv, NEW t \in EventTypes, QueueUniversalEvent(t),
         UNCHANGED <<registered, processor, handledBy>>
  PROVE  HandlingInv'
  <1> DEFINE new == Len(queuedEvents) + 1
             event == [type |-> t, owed |-> Range(registered[t])]
  <1>1. CASE UNCHANGED <<universalQueue, queuedEvents>>
    BY <1>1 DEF HandlingInv, QueueKept, ProcessorKept, HandlersKept, OfItsType, Handling
  <1>2. CASE /\ Len(universalQueue) < EventCapacity /\ Len(queuedEvents) < MaxQueued
             /\ universalQueue' = Append(universalQueue, new)
             /\ queuedEvents' = Append(queuedEvents, event)
    <2>1. /\ queuedEvents \in Seq([type : EventTypes, owed : SUBSET EventHandlers])
          /\ universalQueue \in Seq(EventNumber) /\ registered[t] \in Seq(EventHandlers)
      BY DEF HandlingInv, QueueKept
    <2>2. event \in [type : EventTypes, owed : SUBSET EventHandlers]
      <3>1. Range(registered[t]) \subseteq EventHandlers
        BY <2>1 DEF Range
      <3> QED
        BY <3>1
    <2>3. /\ Len(queuedEvents) \in Nat /\ new \in EventNumber /\ new \notin DOMAIN queuedEvents
          /\ DOMAIN queuedEvents = 1..Len(queuedEvents)
      BY <1>2, <2>1, UniversalEventsAssumption DEF EventNumber
    <2> HIDE DEF event
    <2>4. /\ queuedEvents' \in Seq([type : EventTypes, owed : SUBSET EventHandlers])
          /\ DOMAIN queuedEvents' = DOMAIN queuedEvents \cup {new}
          /\ \A n \in DOMAIN queuedEvents : queuedEvents'[n] = queuedEvents[n]
          /\ queuedEvents'[new] = event
      BY <1>2, <2>1, <2>2, <2>3
    <2>5. event.type = t /\ event.owed = Range(registered[t])
      BY DEF event
    <2> HIDE DEF new
    <2>6. /\ universalQueue' \in Seq(EventNumber) /\ Len(universalQueue') <= EventCapacity
          /\ Range(universalQueue') = Range(universalQueue) \cup {new}
      <3>1. Len(universalQueue') = Len(universalQueue) + 1 /\ Len(universalQueue) \in Nat
        BY <1>2, <2>1, <2>3
      <3> QED
        BY <1>2, <2>1, <2>3, <3>1, AppendRange, UniversalEventsAssumption
    <2>7. \A n \in DOMAIN queuedEvents : n < new
      BY <2>3 DEF new
    <2>8. Growing(universalQueue')
      <3>1. \A x \in Range(universalQueue) : x < new
        BY <2>7 DEF HandlingInv, QueueKept
      <3>2. EventNumber \subseteq Nat /\ Growing(universalQueue)
        BY DEF EventNumber, HandlingInv, QueueKept
      <3> QED
        BY <1>2, <2>1, <2>3, <3>1, <3>2, GrowingAppend
    <2>9. QueueKept'
      BY <2>4, <2>5, <2>6, <2>8 DEF HandlingInv, QueueKept
    <2>10. ProcessorKept'
      BY <2>4, <2>6, <2>7 DEF HandlingInv, ProcessorKept
    <2>11. HandlersKept'
      BY <2>4, <2>6, <2>7 DEF HandlingInv, HandlersKept, OfItsType, Handling
    <2> QED
      BY <2>9, <2>10, <2>11 DEF HandlingInv
  <1> QED
    BY <1>1, <1>2 DEF QueueUniversalEvent, ToSet, Range

LEMMA ProcessKeepsHandling ==
  ASSUME HandlingInv, ProcessEvents
  PROVE  HandlingInv'
  <1> DEFINE head == Head(universalQueue)
             handlers == registered[queuedEvents[head].type]
  <1>1. /\ processor.event = 0 /\ universalQueue # <<>> /\ universalQueue' = Tail(universalQueue)
        /\ processor' = [processor EXCEPT !.event = IF handlers = <<>> THEN 0 ELSE head,
                                          !.left = handlers]
        /\ UNCHANGED <<registered, queuedEvents, handledBy>>
    BY DEF ProcessEvents
  <1>2. /\ EventNumber \subseteq Nat \ {0} /\ universalQueue \in Seq(EventNumber)
        /\ Growing(universalQueue) /\ Range(universalQueue) \subseteq DOMAIN queuedEvents
        /\ Len(universalQueue) <= EventCapacity
        /\ processor \in [loop : {"running", "stopped"}, event : {0} \cup EventNumber,
                          left : Seq(EventHandlers)]
    BY DEF HandlingInv, QueueKept, ProcessorKept, EventNumber
  <1>3. /\ head \in EventNumber /\ universalQueue' \in Seq(EventNumber) /\ Growing(universalQueue')
        /\ Range(universalQueue) = Range(universalQueue') \cup {head}
        /\ \A x \in Range(universalQueue') : head < x
    BY <1>1, <1>2, GrowingTail
  <1>4. Len(universalQueue') <= EventCapacity
    <2>1. Len(Tail(universalQueue)) = Len(universalQueue) - 1 /\ Len(universalQueue) \in Nat
      BY <1>1, <1>2
    <2> QED
      BY <1>1, <1>2, <2>1, UniversalEventsAssumption
  <1> HIDE DEF head
  <1>5. head \in DOMAIN queuedEvents /\ queuedEvents[head].type \in EventTypes
    BY <1>2, <1>3, AcceptedEvents DEF HandlingInv
  <1>6. /\ handlers \in Seq(EventHandlers) /\ IsInjective(handlers)
        /\ \A h \in Range(handlers) : HandlerType[h] = queuedEvents[head].type
        /\ queuedEvents[head].owed \subseteq Range(handlers)
    BY <1>5 DEF HandlingInv, QueueKept
  <1> HIDE DEF handlers
  <1>7. /\ processor'.left = handlers /\ processor'.event = IF handlers = <<>> THEN 0 ELSE head
        /\ processor' \in [loop : {"running", "stopped"}, event : {0} \cup EventNumber,
                           left : Seq(EventHandlers)]
    <2> DEFINE e == IF handlers = <<>> THEN 0 ELSE head
    <2>1. e \in {0} \cup EventNumber
      BY <1>3
    <2> HIDE DEF e
    <2>2. processor' = [processor EXCEPT !.event = e, !.left = handlers]
      BY <1>1 DEF e
    <2>3. /\ processor'.left = handlers /\ processor'.event = e
          /\ processor' \in [loop : {"running", "stopped"}, event : {0} \cup EventNumber,
                             left : Seq(EventHandlers)]
      BY <1>2, <1>6, <2>1, <2>2
    <2> QED
      BY <2>3 DEF e
  <1>8. QueueKept'
    BY <1>1, <1>2, <1>3, <1>4 DEF HandlingInv, QueueKept
  <1>9. ProcessorKept'
    BY <1>1, <1>3, <1>5, <1>6, <1>7 DEF ProcessorKept
  <1>10. ASSUME NEW h \in EventHandlers, NEW n \in Range(handledBy[h])
         PROVE  /\ OfItsType(h, n)
                /\ \A k \in Range(universalQueue) : n < k
    BY DEF HandlingInv, HandlersKept
  <1>11. ASSUME NEW h \in EventHandlers, NEW n \in DOMAIN queuedEvents, h \in queuedEvents[n].owed
         PROVE  n \in Range(handledBy[h]) \/ n \in Range(universalQueue') \/ Handling(h, n)'
    <2>1. n \in Range(handledBy[h]) \/ n \in Range(universalQueue)
      BY <1>1, <1>11 DEF HandlingInv, HandlersKept, Handling
    <2>2. CASE n = head
      <3>1. h \in Range(handlers) /\ handlers # <<>>
        BY <1>6, <1>11, <2>2, EmptyRange
      <3> QED
        BY <1>2, <1>3, <1>7, <2>2, <3>1 DEF Handling
    <2>3. CASE n # head
      BY <1>3, <2>1, <2>3
    <2> QED
      BY <2>2, <2>3
  <1>12. ASSUME NEW h \in EventHandlers, NEW n \in Range(handledBy[h])
         PROVE  /\ OfItsType(h, n)' /\ \A k \in Range(universalQueue') : n < k
                /\ processor'.event # 0 => n <= processor'.event
                /\ \A k \in EventNumber : Handling(h, k)' => n < k
    <2>1. n \in EventNumber
      <3>1. handledBy[h] \in Seq(EventNumber)
        BY DEF HandlingInv, HandlersKept
      <3> QED
        BY <1>12, <3>1 DEF Range
    <2>2. n < head /\ n <= head
      BY <1>2, <1>3, <1>10, <1>12, <2>1
    <2>3. processor'.event # 0 => processor'.event = head
      BY <1>7
    <2>4. OfItsType(h, n)' /\ \A k \in Range(universalQueue') : n < k
      BY <1>1, <1>3, <1>10, <1>12 DEF OfItsType
    <2> QED
      BY <2>2, <2>3, <2>4 DEF Handling
  <1>13. HandlersKept'
    BY <1>1, <1>11, <1>12 DEF HandlingInv, HandlersKept
  <1> QED
    BY <1>8, <1>9, <1>13 DEF HandlingInv

LEMMA RunKeepsHandling ==
  ASSUME HandlingInv, EventHandlerRuns
  PROVE  HandlingInv'
  <1> DEFINE event == processor.event
             g == Head(processor.left)
             rest == Tail(processor.left)
  <1>1. /\ event # 0 /\ handledBy' = [handledBy EXCEPT ![g] = Append(@, event)]
        /\ processor' = [processor EXCEPT !.left = rest,
                                          !.event = IF Len(processor.left) = 1 THEN 0 ELSE @]
        /\ UNCHANGED <<registered, universalQueue, queuedEvents>>
    BY DEF EventHandlerRuns
  <1>2. /\ processor \in [loop : {"running", "stopped"}, event : {0} \cup EventNumber,
                          left : Seq(EventHandlers)]
        /\ processor.left \in Seq(EventHandlers) /\ processor.left # <<>>
        /\ IsInjective(processor.left) /\ event \in EventNumber
        /\ event \in DOMAIN queuedEvents /\ \A n \in Range(universalQueue) : event < n
        /\ \A h \in Range(processor.left) : HandlerType[h] = queuedEvents[event].type
        /\ EventNumber \subseteq Nat \ {0}
    BY <1>1 DEF HandlingInv, ProcessorKept, EventNumber
  <1>3. /\ g \in EventHandlers /\ rest \in Seq(EventHandlers) /\ IsInjective(rest)
        /\ g \in Range(processor.left) /\ Range(rest) = Range(processor.left) \ {g}
    BY <1>2, TakesHead
  <1>4. rest = <<>> <=> Len(processor.left) = 1
    <2>1. \A s \in Seq(EventHandlers) : s # <<>> =>
             Tail(s) \in Seq(EventHandlers) /\ Len(s) \in Nat /\ Len(Tail(s)) = Len(s) - 1
      OBVIOUS
    <2>2. \A s \in Seq(EventHandlers) : s = <<>> <=> Len(s) = 0
      OBVIOUS
    <2>3. processor.left \in Seq(EventHandlers) /\ processor.left # <<>>
      BY <1>2
    <2>4. rest \in Seq(EventHandlers) /\ Len(processor.left) \in Nat /\ Len(rest) = Len(processor.left) - 1
      BY <2>1, <2>3
    <2>5. rest = <<>> <=> Len(rest) = 0
      BY <2>2, <2>4
    <2> HIDE DEF rest
    <2> QED
      BY <2>4, <2>5
  <1> HIDE DEF rest, g
  <1>5. /\ processor'.left = rest /\ processor'.event = IF rest = <<>> THEN 0 ELSE event
        /\ processor' \in [loop : {"running", "stopped"}, event : {0} \cup EventNumber,
                           left : Seq(EventHandlers)]
    <2> DEFINE e == IF Len(processor.left) = 1 THEN 0 ELSE event
    <2>1. e \in {0} \cup EventNumber
      BY <1>2
    <2> HIDE DEF e
    <2>2. processor' = [processor EXCEPT !.left = rest, !.event = e]
      BY <1>1 DEF e
    <2>3. /\ processor'.left = rest /\ processor'.event = e
          /\ processor' \in [loop : {"running", "stopped"}, event : {0} \cup EventNumber,
                             left : Seq(EventHandlers)]
      BY <1>2, <1>3, <2>1, <2>2
    <2> QED
      BY <1>4, <2>3 DEF e
  <1>6. /\ handledBy \in [EventHandlers -> Seq(EventNumber)]
        /\ \A n \in Range(handledBy[g]) : n < event
        /\ Growing(handledBy[g]) /\ handledBy[g] \in Seq(EventNumber)
    BY <1>1, <1>2, <1>3 DEF HandlingInv, HandlersKept, Handling
  <1>7. /\ handledBy' \in [EventHandlers -> Seq(EventNumber)] /\ Growing(handledBy'[g])
        /\ Range(handledBy'[g]) = Range(handledBy[g]) \cup {event}
        /\ \A h \in EventHandlers \ {g} : handledBy'[h] = handledBy[h]
    <2> DEFINE longer == Append(handledBy[g], event)
    <2>1. /\ longer \in Seq(EventNumber) /\ Growing(longer)
          /\ Range(longer) = Range(handledBy[g]) \cup {event}
      <3>1. EventNumber \subseteq Nat
        BY DEF EventNumber
      <3>2. handledBy[g] \in Seq(EventNumber) /\ event \in EventNumber
        BY <1>2, <1>6
      <3>3. longer \in Seq(EventNumber) /\ Range(longer) = Range(handledBy[g]) \cup {event}
        BY <3>2, AppendRange
      <3>4. Growing(longer)
        BY <1>6, <3>1, <3>2, GrowingAppend
      <3> QED
        BY <3>3, <3>4
    <2> HIDE DEF longer
    <2>2. handledBy' = [handledBy EXCEPT ![g] = longer]
      BY <1>1 DEF longer
    <2> QED
      BY <1>3, <1>6, <2>1, <2>2
  <1> HIDE DEF event
  <1>8. QueueKept'
    BY <1>1 DEF HandlingInv, QueueKept
  <1>9. ProcessorKept'
    BY <1>1, <1>2, <1>3, <1>5 DEF ProcessorKept
  <1>10. ASSUME NEW h \in EventHandlers, NEW n \in Range(handledBy'[h])
         PROVE  /\ OfItsType(h, n) /\ \A k \in Range(universalQueue) : n < k
                /\ n <= event /\ (h \in Range(rest) => n < event)
    <2>1. CASE n \in Range(handledBy[h])
      <3>1. /\ OfItsType(h, n) /\ \A k \in Range(universalQueue) : n < k
            /\ n <= event /\ (h \in Range(processor.left) => n < event)
        BY <1>1, <1>2, <2>1 DEF HandlingInv, HandlersKept, Handling, event
      <3> QED
        BY <1>3, <3>1
    <2>2. CASE n \notin Range(handledBy[h])
      <3>1. h = g /\ n = event
        BY <1>7, <1>10, <2>2
      <3> QED
        BY <1>2, <1>3, <3>1 DEF OfItsType
    <2> QED
      BY <2>1, <2>2
  <1>11. ASSUME NEW h \in EventHandlers, NEW n \in DOMAIN queuedEvents, h \in queuedEvents[n].owed
         PROVE  n \in Range(handledBy'[h]) \/ n \in Range(universalQueue) \/ Handling(h, n)'
    <2>1. n \in Range(handledBy[h]) \/ n \in Range(universalQueue) \/ (n = event /\ h \in Range(processor.left))
      BY <1>11 DEF HandlingInv, HandlersKept, Handling, event
    <2>2. CASE n = event /\ h \in Range(processor.left) /\ h # g
      <3>1. h \in Range(rest) /\ rest # <<>>
        BY <1>3, <2>2, EmptyRange
      <3> QED
        BY <1>1, <1>5, <2>2, <3>1 DEF Handling
    <2> QED
      BY <1>7, <2>1, <2>2
  <1>12. \A h \in EventHandlers : \A n \in Range(handledBy'[h]) :
            /\ OfItsType(h, n)' /\ (processor'.event # 0 => n <= processor'.event)
            /\ \A k \in EventNumber : Handling(h, k)' => n < k
    BY <1>1, <1>5, <1>10 DEF OfItsType, Handling
  <1>13. \A h \in EventHandlers : Growing(handledBy'[h])
    BY <1>7 DEF HandlingInv, HandlersKept
  <1>14. HandlersKept'
    BY <1>1, <1>7, <1>10, <1>11, <1>12, <1>13 DEF HandlersKept
  <1> QED
    BY <1>8, <1>9, <1>14 DEF HandlingInv

\* The record of those in the room.
AttendanceKept ==
    /\ stopRequested \in BOOLEAN
    /\ attendance \in [Attendees -> [known : BOOLEAN, poor : BOOLEAN, speaking : BOOLEAN]]
    /\ newsman \in [Newsmen -> SUBSET Attendees]
    /\ OnlyKnownRecorded

LEMMA AttendanceStep ==
  ASSUME AttendanceKept, [UniversalEventsNext]_universalVars
  PROVE  AttendanceKept'
  <1> DEFINE Person == [known : BOOLEAN, poor : BOOLEAN, speaking : BOOLEAN]
  <1>1. /\ stopRequested \in BOOLEAN /\ attendance \in [Attendees -> Person]
        /\ newsman \in [Newsmen -> SUBSET Attendees]
        /\ \A i \in Attendees : attendance[i] \in Person /\ (~attendance[i].known => attendance[i] = Absent)
    BY DEF AttendanceKept, OnlyKnownRecorded
  <1>2. Absent \in Person /\ [Absent EXCEPT !.known = TRUE] \in Person
        /\ [Absent EXCEPT !.known = TRUE].known = TRUE
    BY DEF Absent
  <1>3. ASSUME NEW r \in Person, NEW b \in BOOLEAN
        PROVE  /\ [r EXCEPT !.poor = b] \in Person /\ [r EXCEPT !.poor = b].known = r.known
               /\ [r EXCEPT !.speaking = TRUE] \in Person /\ [r EXCEPT !.speaking = TRUE].known = r.known
    OBVIOUS
  <1> HIDE DEF Person
  <1>4. ASSUME attendance' \in [Attendees -> Person], stopRequested' \in BOOLEAN,
               newsman' \in [Newsmen -> SUBSET Attendees],
               \A i \in Attendees : ~attendance'[i].known => attendance'[i] = Absent
        PROVE  AttendanceKept'
    BY <1>4 DEF AttendanceKept, OnlyKnownRecorded, Absent, Person
  <1>5. ASSUME NEW i \in Attendees, HandleParticipantJoined(i) \/ HandleParticipantLeft(i)
        PROVE  AttendanceKept'
    BY <1>1, <1>2, <1>4, <1>5 DEF HandleParticipantJoined, HandleParticipantLeft
  <1>6. ASSUME NEW n \in Newsmen, NEW i \in Attendees, NEW poor \in BOOLEAN,
               HandleConnectionQualityChanged(n, i, poor)
        PROVE  AttendanceKept'
    <2>1. [attendance[i] EXCEPT !.poor = poor] \in Person
          /\ [attendance[i] EXCEPT !.poor = poor].known = attendance[i].known
      BY <1>1, <1>3
    <2>2. newsman' \in [Newsmen -> SUBSET Attendees] /\ UNCHANGED stopRequested
      BY <1>1, <1>6 DEF HandleConnectionQualityChanged
    <2>3. \/ attendance' = attendance
          \/ attendance[i].known /\ attendance' = [attendance EXCEPT ![i] = [attendance[i] EXCEPT !.poor = poor]]
      BY <1>6 DEF HandleConnectionQualityChanged
    <2> QED
      BY <1>1, <1>4, <2>1, <2>2, <2>3
  <1>7. ASSUME NEW speakers \in SUBSET Attendees, HandleActiveSpeakersChanged(speakers)
        PROVE  AttendanceKept'
    <2>1. \A i \in Attendees : [attendance[i] EXCEPT !.speaking = TRUE] \in Person
                               /\ [attendance[i] EXCEPT !.speaking = TRUE].known = attendance[i].known
      BY <1>1, <1>3
    <2>2. UNCHANGED <<stopRequested, newsman>>
          /\ attendance' = [i \in Attendees |->
                IF i \in speakers /\ attendance[i].known
                THEN [attendance[i] EXCEPT !.speaking = TRUE] ELSE attendance[i]]
      BY <1>7 DEF HandleActiveSpeakersChanged
    <2> QED
      BY <1>1, <1>4, <2>1, <2>2
  <1>8. ASSUME NEW n \in Newsmen, QualityEventQueued(n)
        PROVE  AttendanceKept'
    BY <1>1, <1>4, <1>8 DEF QualityEventQueued
  <1>9. ASSUME UNCHANGED <<attendance, newsman>>, stopRequested' \in BOOLEAN
        PROVE  AttendanceKept'
    BY <1>1, <1>4, <1>9
  <1>10. CASE UNCHANGED universalVars
    BY <1>1, <1>9, <1>10 DEF universalVars
  <1>11. CASE \/ \E h \in EventHandlers : RegisterEventHandler(h)
              \/ \E t \in EventTypes : QueueTypedEvent(t)
              \/ ProcessEvents \/ EventHandlerRuns \/ StopProcessor \/ ProcessorLeaves
    BY <1>1, <1>9, <1>11 DEF RegisterEventHandler, QueueTypedEvent, ProcessEvents, EventHandlerRuns,
         StopProcessor, ProcessorLeaves
  <1> QED
    BY <1>5, <1>6, <1>7, <1>8, <1>10, <1>11 DEF UniversalEventsNext

LEMMA HandlingStep ==
  ASSUME HandlingInv, [UniversalEventsNext]_universalVars
  PROVE  HandlingInv'
  <1>1. ASSUME UNCHANGED <<registered, universalQueue, queuedEvents, handledBy, processor>>
        PROVE  HandlingInv'
    BY <1>1 DEF HandlingInv, QueueKept, ProcessorKept, HandlersKept, OfItsType, Handling
  <1>2. CASE ProcessorLeaves
    <2>1. /\ processor \in [loop : {"running", "stopped"}, event : {0} \cup EventNumber,
                            left : Seq(EventHandlers)]
          /\ processor' = [processor EXCEPT !.loop = "stopped"] /\ processor.event = 0
          /\ UNCHANGED <<registered, universalQueue, queuedEvents, handledBy>>
      BY <1>2 DEF ProcessorLeaves, HandlingInv, ProcessorKept
    <2>2. processor'.event = 0 /\ processor' \in [loop : {"running", "stopped"}, event : {0} \cup EventNumber,
                            left : Seq(EventHandlers)]
      BY <2>1
    <2> QED
      BY <2>1, <2>2 DEF HandlingInv, QueueKept, ProcessorKept, HandlersKept, OfItsType, Handling
  <1>3. ASSUME NEW h \in EventHandlers, RegisterEventHandler(h)
        PROVE  HandlingInv'
    BY <1>3, RegisterKeepsHandling
  <1>4. ASSUME NEW t \in EventTypes, QueueTypedEvent(t)
        PROVE  HandlingInv'
    BY <1>4, QueueKeepsHandling DEF QueueTypedEvent
  <1>5. ASSUME NEW n \in Newsmen, QualityEventQueued(n)
        PROVE  HandlingInv'
    <2>1. QualityType \in EventTypes
      BY UniversalEventsAssumption
    <2> QED
      BY <1>5, <2>1, QueueKeepsHandling DEF QualityEventQueued
  <1>6. CASE ProcessEvents \/ EventHandlerRuns
    BY <1>6, ProcessKeepsHandling, RunKeepsHandling
  <1>7. CASE \/ StopProcessor \/ UNCHANGED universalVars
             \/ \E i \in Attendees : HandleParticipantJoined(i) \/ HandleParticipantLeft(i)
             \/ \E n \in Newsmen, i \in Attendees, poor \in BOOLEAN : HandleConnectionQualityChanged(n, i, poor)
             \/ \E speakers \in SUBSET Attendees : HandleActiveSpeakersChanged(speakers)
    BY <1>1, <1>7 DEF StopProcessor, universalVars, HandleParticipantJoined, HandleParticipantLeft,
         HandleConnectionQualityChanged, HandleActiveSpeakersChanged
  <1> QED
    BY <1>2, <1>3, <1>4, <1>5, <1>6, <1>7 DEF UniversalEventsNext

LEMMA KeptInOrder == HandlingInv => HandledInOrder
  <1> SUFFICES ASSUME HandlingInv, NEW h \in EventHandlers
               PROVE  LET taken == handledBy[h] \o Due(h)
                          all == taken \o universalQueue
                      IN  /\ \A m, n \in DOMAIN all : m < n => all[m] < all[n]
                          /\ \A n \in DOMAIN taken : queuedEvents[taken[n]].type = HandlerType[h]
                          /\ \A n \in DOMAIN queuedEvents : Owed(h, n) =>
                                 n \in ToSet(all) /\ queuedEvents[n].type = HandlerType[h]
    BY DEF HandledInOrder
  <1> DEFINE taken == handledBy[h] \o Due(h)
             all == taken \o universalQueue
  <1>1. /\ EventNumber \subseteq Nat /\ EventNumber \subseteq Nat \ {0}
        /\ handledBy[h] \in Seq(EventNumber) /\ Growing(handledBy[h])
        /\ universalQueue \in Seq(EventNumber) /\ Growing(universalQueue)
    BY DEF HandlingInv, HandlersKept, QueueKept, EventNumber
  <1>2. /\ Due(h) \in Seq(EventNumber) /\ Growing(Due(h))
        /\ \A n : n \in Range(Due(h)) <=> Handling(h, n)
    <2>1. CASE processor.event # 0 /\ h \in Range(processor.left)
      <3>1. Due(h) = <<processor.event>> /\ processor.event \in EventNumber
        BY <2>1 DEF Due, ToSet, Range, HandlingInv, ProcessorKept
      <3>2. Due(h) \in Seq(EventNumber) /\ DOMAIN Due(h) = {1} /\ Due(h)[1] = processor.event
        BY <3>1
      <3> QED
        BY <2>1, <3>2 DEF Growing, Range, Handling
    <2>2. CASE ~(processor.event # 0 /\ h \in Range(processor.left))
      <3>1. Due(h) = <<>>
        BY <2>2 DEF Due, ToSet, Range
      <3>2. Due(h) \in Seq(EventNumber) /\ Growing(Due(h)) /\ Range(Due(h)) = {}
        BY <3>1, EmptyRange DEF Growing
      <3> QED
        BY <2>2, <3>2 DEF Handling
    <2> QED
      BY <2>1, <2>2
  <1>3. /\ \A x \in Range(handledBy[h]), y \in Range(Due(h)) : x < y
        /\ \A x \in Range(handledBy[h]), y \in Range(universalQueue) : x < y
    <2>1. \A y \in Range(Due(h)) : y \in EventNumber
      BY <1>2 DEF Range
    <2> QED
      BY <1>2, <2>1 DEF HandlingInv, HandlersKept
  <1>4. \A x \in Range(Due(h)), y \in Range(universalQueue) : x < y
    BY <1>2 DEF HandlingInv, ProcessorKept, Handling
  <1>5. /\ taken \in Seq(EventNumber) /\ Growing(taken)
        /\ Range(taken) = Range(handledBy[h]) \cup Range(Due(h))
    <2>1. /\ EventNumber \subseteq Nat
          /\ handledBy[h] \in Seq(EventNumber) /\ Growing(handledBy[h])
          /\ Due(h) \in Seq(EventNumber) /\ Growing(Due(h))
      BY <1>1, <1>2
    <2>2. \A x \in Range(handledBy[h]), y \in Range(Due(h)) : x < y
      BY <1>3
    <2> HIDE DEF taken, all
    <2>3. taken = handledBy[h] \o Due(h)
      BY DEF taken
    <2>4. \A s, u \in Seq(EventNumber) :
            Growing(s) /\ Growing(u) /\ (\A x \in Range(s), y \in Range(u) : x < y) =>
               /\ s \o u \in Seq(EventNumber) /\ Growing(s \o u)
               /\ Range(s \o u) = Range(s) \cup Range(u)
      BY EventsConcat
    <2> QED
      BY <2>1, <2>2, <2>3, <2>4
  <1> HIDE DEF taken
  <1>6. /\ Growing(all) /\ Range(all) = Range(taken) \cup Range(universalQueue)
    <2>1. \A x \in Range(taken), y \in Range(universalQueue) : x < y
      BY <1>3, <1>4, <1>5
    <2>2. /\ taken \in Seq(EventNumber) /\ Growing(taken)
          /\ universalQueue \in Seq(EventNumber) /\ Growing(universalQueue)
      BY <1>1, <1>5
    <2>3. \A s, u \in Seq(EventNumber) :
            Growing(s) /\ Growing(u) /\ (\A x \in Range(s), y \in Range(u) : x < y) =>
               Growing(s \o u) /\ Range(s \o u) = Range(s) \cup Range(u)
      BY EventsConcat
    <2>4. all = taken \o universalQueue
      BY DEF all
    <2> HIDE DEF all
    <2> QED
      BY <2>1, <2>2, <2>3, <2>4
  <1> HIDE DEF all
  <1>7. ASSUME NEW n \in DOMAIN taken PROVE queuedEvents[taken[n]].type = HandlerType[h]
    <2>1. taken[n] \in Range(handledBy[h]) \/ Handling(h, taken[n])
      BY <1>2, <1>5 DEF Range
    <2> QED
      BY <2>1 DEF HandlingInv, HandlersKept, ProcessorKept, OfItsType, Handling
  <1>8. ASSUME NEW n \in DOMAIN queuedEvents, Owed(h, n)
        PROVE  n \in ToSet(all) /\ queuedEvents[n].type = HandlerType[h]
    <2>1. h \in queuedEvents[n].owed /\ queuedEvents[n].type \in EventTypes
      BY <1>8, AcceptedEvents DEF Owed, HandlingInv
    <2>2. n \in Range(all)
      BY <1>2, <1>5, <1>6, <2>1 DEF HandlingInv, HandlersKept
    <2>3. queuedEvents[n].type = HandlerType[h]
      BY <2>1 DEF HandlingInv, QueueKept
    <2> QED
      BY <2>2, <2>3 DEF ToSet, Range
  <1> QED
    BY <1>6, <1>7, <1>8 DEF Growing, taken, all

(* For any types of events, handlers, newsmen and capacity of the queue: a *)
(* handler is run with the events of its type in the order they were       *)
(* queued, none twice and none left out that was accepted after it was     *)
(* registered; and nothing is recorded of someone who is not in the room.  *)
THEOREM EventsAlwaysInOrder ==
    UniversalEventsSpec => [](UniversalEventsTypeOK /\ HandledInOrder /\ OnlyKnownRecorded)
  <1>1. UniversalEventsInit => HandlingInv /\ AttendanceKept
    <2> SUFFICES ASSUME UniversalEventsInit PROVE HandlingInv /\ AttendanceKept
      OBVIOUS
    <2>1. QueueKept
      BY EmptyRange, UniversalEventsAssumption DEF UniversalEventsInit, QueueKept, Growing
    <2>2. ProcessorKept
      BY DEF UniversalEventsInit, ProcessorKept
    <2>3. HandlersKept
      BY EmptyRange DEF UniversalEventsInit, HandlersKept, Growing
    <2>4. AttendanceKept
      BY DEF UniversalEventsInit, AttendanceKept, OnlyKnownRecorded, Absent
    <2> QED
      BY <2>1, <2>2, <2>3, <2>4 DEF HandlingInv
  <1>2. HandlingInv /\ AttendanceKept /\ [UniversalEventsNext]_universalVars
            => (HandlingInv /\ AttendanceKept)'
    BY HandlingStep, AttendanceStep
  <1>3. HandlingInv /\ AttendanceKept => UniversalEventsTypeOK /\ HandledInOrder /\ OnlyKnownRecorded
    BY KeptInOrder DEF HandlingInv, QueueKept, ProcessorKept, HandlersKept, AttendanceKept,
         UniversalEventsTypeOK
  <1> QED
    BY <1>1, <1>2, <1>3, PTL DEF UniversalEventsSpec


-------------------------------------------------------------------------------
(* The book that a user keeps from the coordinator's events.                  *)

\* Of those it may be relied on for, at most one event is being delivered, and it tells what
\* is so now; nothing was emitted about them before the handlers were registered.
BookFollows ==
    \A p \in Identities \ unsettled :
        LET came == delivering[<<"participant_registered", p>>]
            left == delivering[<<"participant_unregistered", p>>]
        IN  \/ came = 0 /\ left = 0 /\ (p \in book <=> p \in participants)
            \/ came = 1 /\ left = 0 /\ p \in participants
            \/ came = 0 /\ left = 1 /\ p \notin participants

BookInv == delivering \in [CoordinationEvent -> Nat] /\ BookFollows

LEMMA CoordinationEventsAre ==
  /\ \A p \in Identities, type \in {"participant_registered", "participant_unregistered"} :
        <<type, p>> \in CoordinationEvent
  /\ \A e \in CoordinationEvent :
        \E p \in Identities : e = <<"participant_registered", p>> \/ e = <<"participant_unregistered", p>>
  /\ \A p, q : <<"participant_registered", p>> # <<"participant_unregistered", q>>
  /\ \A p, q, type : <<type, p>> = <<type, q>> => p = q
  BY DEF CoordinationEvent

\* That no event about a participant is being delivered is that neither of the two is.
LEMMA NothingStarted ==
  ASSUME delivering \in [CoordinationEvent -> Nat], NEW p \in Identities
  PROVE  Started \cap About(p) = {} <=> /\ delivering[<<"participant_registered", p>>] = 0
                                        /\ delivering[<<"participant_unregistered", p>>] = 0
  <1>1. About(p) = {<<"participant_registered", p>>, <<"participant_unregistered", p>>}
    BY DEF About, CoordinationEvent
  <1> QED
    BY <1>1, CoordinationEventsAre DEF Started

LEMMA EmitKeepsBook ==
  ASSUME BookInv, NEW p \in Identities,
         NEW type \in {"participant_registered", "participant_unregistered"}, emitEvent(type, p),
         type = "participant_registered" => participants' = participants \cup {p},
         type = "participant_unregistered" => participants' = participants \ {p}
  PROVE  BookInv'
  <1>1. /\ delivering' = IF following THEN [delivering EXCEPT ![<<type, p>>] = @ + 1] ELSE delivering
        /\ unsettled' = IF following /\ Started \cap About(p) = {} THEN unsettled \ {p} ELSE unsettled \cup {p}
        /\ UNCHANGED <<following, book>>
    BY DEF emitEvent
  <1>2. delivering \in [CoordinationEvent -> Nat] /\ <<type, p>> \in CoordinationEvent
    BY CoordinationEventsAre DEF BookInv
  <1>3. delivering' \in [CoordinationEvent -> Nat]
    BY <1>1, <1>2
  <1>4. ASSUME NEW q \in Identities, q # p
        PROVE  /\ delivering'[<<"participant_registered", q>>] = delivering[<<"participant_registered", q>>]
               /\ delivering'[<<"participant_unregistered", q>>] = delivering[<<"participant_unregistered", q>>]
               /\ q \in participants' <=> q \in participants
               /\ q \in unsettled' <=> q \in unsettled
    <2>1. <<type, p>> # <<"participant_registered", q>> /\ <<type, p>> # <<"participant_unregistered", q>>
      BY <1>4
    <2>2. <<"participant_registered", q>> \in CoordinationEvent /\ <<"participant_unregistered", q>> \in CoordinationEvent
      BY CoordinationEventsAre
    <2> QED
      BY <1>1, <1>2, <1>4, <2>1, <2>2
  <1>5. ASSUME p \notin unsettled'
        PROVE  \/ /\ delivering'[<<"participant_registered", p>>] = 1
                  /\ delivering'[<<"participant_unregistered", p>>] = 0
                  /\ p \in participants'
               \/ /\ delivering'[<<"participant_registered", p>>] = 0
                  /\ delivering'[<<"participant_unregistered", p>>] = 1
                  /\ p \notin participants'
    <2>1. /\ delivering' = [delivering EXCEPT ![<<type, p>>] = @ + 1]
          /\ delivering[<<"participant_registered", p>>] = 0 /\ delivering[<<"participant_unregistered", p>>] = 0
      BY <1>1, <1>2, <1>5, NothingStarted
    <2>2. <<"participant_registered", p>> \in CoordinationEvent /\ <<"participant_unregistered", p>> \in CoordinationEvent
          /\ <<"participant_registered", p>> # <<"participant_unregistered", p>>
      BY CoordinationEventsAre
    <2> QED
      BY <1>2, <2>1, <2>2
  <1> QED
    BY <1>1, <1>3, <1>4, <1>5 DEF BookInv, BookFollows

LEMMA RunKeepsBook ==
  ASSUME BookInv, NEW e \in CoordinationEvent, HandlerRuns(e)
  PROVE  BookInv'
  <1>1. /\ delivering[e] > 0 /\ delivering' = [delivering EXCEPT ![e] = @ - 1]
        /\ book' = IF e[1] = "participant_registered" THEN book \cup {e[2]} ELSE book \ {e[2]}
        /\ UNCHANGED <<participants, unsettled>>
    BY DEF HandlerRuns
  <1>2. delivering \in [CoordinationEvent -> Nat] /\ delivering' \in [CoordinationEvent -> Nat]
    <2>1. delivering \in [CoordinationEvent -> Nat] /\ delivering[e] \in Nat
      BY DEF BookInv
    <2>2. delivering[e] - 1 \in Nat
      BY <1>1, <2>1
    <2> QED
      BY <1>1, <2>1, <2>2
  <1>3. PICK p \in Identities : e = <<"participant_registered", p>> \/ e = <<"participant_unregistered", p>>
    BY CoordinationEventsAre
  <1>4. ASSUME NEW q \in Identities \ unsettled, q # p
        PROVE  /\ delivering'[<<"participant_registered", q>>] = delivering[<<"participant_registered", q>>]
               /\ delivering'[<<"participant_unregistered", q>>] = delivering[<<"participant_unregistered", q>>]
               /\ q \in book' <=> q \in book
    <2>1. e # <<"participant_registered", q>> /\ e # <<"participant_unregistered", q>> /\ e[2] = p
      BY <1>3, <1>4
    <2>2. <<"participant_registered", q>> \in CoordinationEvent /\ <<"participant_unregistered", q>> \in CoordinationEvent
      BY CoordinationEventsAre
    <2> QED
      BY <1>1, <1>2, <1>4, <2>1, <2>2
  <1>5. ASSUME p \notin unsettled
        PROVE  /\ delivering'[<<"participant_registered", p>>] = 0
               /\ delivering'[<<"participant_unregistered", p>>] = 0
               /\ p \in book' <=> p \in participants
    <2>1. <<"participant_registered", p>> \in CoordinationEvent /\ <<"participant_unregistered", p>> \in CoordinationEvent
          /\ <<"participant_registered", p>> # <<"participant_unregistered", p>>
      BY CoordinationEventsAre
    <2>2. CASE e = <<"participant_registered", p>>
      <3>1. /\ delivering[e] = 1 /\ delivering[<<"participant_unregistered", p>>] = 0 /\ p \in participants
        BY <1>1, <1>5, <2>2 DEF BookInv, BookFollows
      <3>2. book' = book \cup {p}
        BY <1>1, <2>2
      <3> QED
        BY <1>1, <1>2, <2>1, <2>2, <3>1, <3>2
    <2>3. CASE e = <<"participant_unregistered", p>>
      <3>1. /\ delivering[e] = 1 /\ delivering[<<"participant_registered", p>>] = 0 /\ p \notin participants
        BY <1>1, <1>5, <2>3 DEF BookInv, BookFollows
      <3>2. book' = book \ {p}
        BY <1>1, <2>3
      <3> QED
        BY <1>1, <1>2, <2>1, <2>3, <3>1, <3>2
    <2> QED
      BY <1>3, <2>2, <2>3
  <1> QED
    BY <1>1, <1>2, <1>4, <1>5 DEF BookInv, BookFollows

(* For any participants and however many handlers' goroutines run late and *)
(* in whichever order: once they have run, the book a user keeps is right  *)
(* about all whose latest event met no other, up to Stop.                  *)
THEOREM BookAlwaysRight == CoordinatorSpec => []BookIsRight
  <1>1. CoordinatorInit => BookInv
    BY CoordinationEventsAre DEF CoordinatorInit, BookInv, BookFollows
  <1>2. BookInv /\ [CoordinatorNext]_coordinatorVars => BookInv'
    <2> SUFFICES ASSUME BookInv, [CoordinatorNext]_coordinatorVars PROVE BookInv'
      OBVIOUS
    <2>1. ASSUME UNCHANGED <<participants, delivering, book, unsettled>>
          PROVE  BookInv'
      BY <2>1 DEF BookInv, BookFollows
    <2>2. CASE UNCHANGED coordinatorVars \/ GroupsNext \/ ActivityNext
      BY <2>1, <2>2 DEF coordinatorVars, bookVars, GroupsNext, CreateGroup, AddParticipantToGroup,
           RemoveParticipantFromGroup, ActivityNext, UpdateParticipantActivity, FallsQuiet, AddCoordinationRule
    <2>3. ASSUME NEW p \in Identities, RegisterParticipant(p)
          PROVE  BookInv'
      BY <2>3, EmitKeepsBook DEF RegisterParticipant
    <2>4. ASSUME NEW p \in Identities, UnregisterParticipant(p)
          PROVE  BookInv'
      BY <2>4, EmitKeepsBook DEF UnregisterParticipant
    <2>5. CASE CoordinatorStop
      BY <2>5 DEF CoordinatorStop, BookInv, BookFollows
    <2>6. CASE RegisterBookHandlers \/ \E f, t \in Identities : RecordInteraction(f, t)
      BY <2>1, <2>6 DEF RegisterBookHandlers, RecordInteraction, bookVars
    <2>7. ASSUME NEW e \in CoordinationEvent, HandlerRuns(e)
          PROVE  BookInv'
      BY <2>7, RunKeepsBook
    <2> QED
      BY <2>2, <2>3, <2>4, <2>5, <2>6, <2>7 DEF CoordinatorNext, ParticipantsNext, BookNext
  <1>3. BookInv => BookIsRight
    <2> SUFFICES ASSUME BookInv, NEW p \in Identities \ unsettled, Started \cap About(p) = {}
                 PROVE  p \in book <=> p \in participants
      BY DEF BookIsRight
    <2>1. /\ delivering[<<"participant_registered", p>>] = 0
          /\ delivering[<<"participant_unregistered", p>>] = 0
      BY NothingStarted DEF BookInv
    <2> QED
      BY <2>1 DEF BookInv, BookFollows
  <1> QED
    BY <1>1, <1>2, <1>3, PTL DEF CoordinatorSpec


-------------------------------------------------------------------------------
(* The history explains a permission.                                         *)

\* The k-th change is the latest update among the first n.
LastUpdate(s, k, n) == k \in 1..n /\ s[k].update /\ \A m \in (k + 1)..n : ~s[m].update

\* HistoryExplains of one participant, without a search for the latest update.
ExplainedBy(s, current) ==
    /\ \A n \in DOMAIN s, k \in DOMAIN s : LastUpdate(s, k, n - 1) => s[n].from = s[k].to
    /\ \A k \in DOMAIN s : LastUpdate(s, k, Len(s)) => current = s[k].to

PermissionRecord ==
    [known : BOOLEAN, current : Nullable, requested : Nullable,
     history : Seq(PermissionChange), mute : BOOLEAN]

PermissionsInv ==
    /\ permissions \in [Members -> PermissionRecord]
    /\ \A i \in Members :
        /\ ExplainedBy(permissions[i].history, permissions[i].current)
        /\ ~permissions[i].known => permissions[i] = Unknown
    /\ policies \in Seq({"role", "time"})
    /\ defaults \in Permission
    /\ agentCaps \in [manage : BOOLEAN, send : BOOLEAN, recipients : SUBSET Members]
    /\ hour \in Hours

LEMMA NothingExplained ==
  Unknown \in PermissionRecord /\ ExplainedBy(<<>>, NoPermission)
  BY DEF Unknown, PermissionRecord, Nullable, ExplainedBy

LEMMA AppendExplained ==
  ASSUME NEW s \in Seq(PermissionChange), NEW current \in Nullable, ExplainedBy(s, current),
         NEW change \in PermissionChange, change.from = current,
         NEW made \in Nullable, made = IF change.update THEN change.to ELSE current
  PROVE  Append(s, change) \in Seq(PermissionChange) /\ ExplainedBy(Append(s, change), made)
  <1> DEFINE t == Append(s, change)
  <1>1. /\ t \in Seq(PermissionChange) /\ Len(s) \in Nat /\ DOMAIN s = 1..Len(s)
        /\ DOMAIN t = 1..(Len(s) + 1) /\ Len(t) = Len(s) + 1
        /\ \A j \in 1..Len(s) : t[j] = s[j]
        /\ t[Len(s) + 1] = change
    OBVIOUS
  <1> HIDE DEF t
  <1>2. \A n \in 0..Len(s), k \in 1..Len(s) : LastUpdate(t, k, n) <=> LastUpdate(s, k, n)
    BY <1>1 DEF LastUpdate
  <1>3. ASSUME NEW n \in DOMAIN t, NEW k \in DOMAIN t, LastUpdate(t, k, n - 1)
        PROVE  t[n].from = t[k].to
    <2>1. k \in 1..Len(s) /\ n - 1 \in 0..Len(s) /\ LastUpdate(s, k, n - 1)
      <3>1. k \in 1..(n - 1) /\ n - 1 \in 0..Len(s)
        BY <1>1, <1>3 DEF LastUpdate
      <3>2. k \in 1..Len(s)
        BY <1>1, <3>1
      <3> QED
        BY <1>2, <1>3, <3>1, <3>2
    <2>2. CASE n \in 1..Len(s)
      BY <1>1, <2>1, <2>2 DEF ExplainedBy
    <2>3. CASE n = Len(s) + 1
      <3>1. n - 1 = Len(s)
        BY <1>1, <2>3
      <3>2. current = s[k].to
        BY <1>1, <2>1, <3>1 DEF ExplainedBy
      <3> QED
        BY <1>1, <2>1, <2>3, <3>2
    <2> QED
      BY <1>1, <2>2, <2>3
  <1>4. ASSUME NEW k \in DOMAIN t, LastUpdate(t, k, Len(t))
        PROVE  made = t[k].to
    <2>1. CASE k = Len(s) + 1
      BY <1>1, <1>4, <2>1 DEF LastUpdate
    <2>2. CASE k \in 1..Len(s)
      <3>1. Len(s) + 1 \in (k + 1)..Len(t)
        BY <1>1, <2>2
      <3>2. ~change.update
        BY <1>1, <1>4, <3>1 DEF LastUpdate
      <3>3. LastUpdate(t, k, Len(s))
        BY <1>1, <1>4, <2>2 DEF LastUpdate
      <3>4. LastUpdate(s, k, Len(s))
        BY <1>1, <1>2, <2>2, <3>3
      <3> QED
        BY <1>1, <2>2, <3>2, <3>4 DEF ExplainedBy
    <2> QED
      BY <1>1, <2>1, <2>2
  <1> QED
    BY <1>1, <1>3, <1>4 DEF ExplainedBy, t

LEMMA SuffixExplained ==
  ASSUME NEW s \in Seq(PermissionChange), NEW current, ExplainedBy(s, current),
         NEW a \in 1..Len(s)
  PROVE  /\ SubSeq(s, a, Len(s)) \in Seq(PermissionChange)
         /\ ExplainedBy(SubSeq(s, a, Len(s)), current)
  <1> DEFINE t == SubSeq(s, a, Len(s))
  <1>1. /\ Len(s) \in Nat /\ DOMAIN s = 1..Len(s) /\ t \in Seq(PermissionChange)
        /\ Len(t) = Len(s) - a + 1 /\ DOMAIN t = 1..(Len(s) - a + 1)
        /\ \A j \in 1..(Len(s) - a + 1) : t[j] = s[j + a - 1]
    OBVIOUS
  <1> HIDE DEF t
  <1>2. ASSUME NEW n \in 0..Len(t), NEW k \in DOMAIN t, LastUpdate(t, k, n)
        PROVE  LastUpdate(s, k + a - 1, n + a - 1) /\ k + a - 1 \in DOMAIN s /\ t[k] = s[k + a - 1]
    <2>1. k \in 1..n /\ k + a - 1 \in 1..(n + a - 1) /\ k + a - 1 \in DOMAIN s
      BY <1>1, <1>2 DEF LastUpdate
    <2>2. t[k] = s[k + a - 1] /\ t[k].update
      BY <1>1, <1>2 DEF LastUpdate
    <2>3. ASSUME NEW m \in (k + a - 1 + 1)..(n + a - 1) PROVE ~s[m].update
      <3>1. /\ m - a + 1 \in (k + 1)..n /\ m - a + 1 \in 1..(Len(s) - a + 1)
            /\ (m - a + 1) + a - 1 = m
        <4>1. /\ a \in Nat /\ a >= 1 /\ n \in Nat /\ k \in Nat /\ k >= 1 /\ m \in Int
              /\ k + a - 1 + 1 <= m /\ m <= n + a - 1
          BY <1>1, <2>1
        <4>2. n <= Len(s) - a + 1
          BY <1>1
        <4> QED
          BY <1>1, <4>1, <4>2
      <3>2. t[m - a + 1] = s[m] /\ ~t[m - a + 1].update
        BY <1>1, <1>2, <3>1 DEF LastUpdate
      <3> QED
        BY <3>2
    <2> QED
      BY <2>1, <2>2, <2>3 DEF LastUpdate
  <1>3. ASSUME NEW n \in DOMAIN t, NEW k \in DOMAIN t, LastUpdate(t, k, n - 1)
        PROVE  t[n].from = t[k].to
    <2>1. /\ n - 1 \in 0..Len(t) /\ n + a - 1 \in DOMAIN s /\ t[n] = s[n + a - 1]
          /\ n - 1 + a - 1 = (n + a - 1) - 1
      <3>1. n \in 1..(Len(s) - a + 1) /\ Len(t) = Len(s) - a + 1 /\ t[n] = s[n + a - 1]
        BY <1>1
      <3>2. n \in Int /\ a \in Int /\ Len(s) \in Nat /\ a >= 1 /\ n >= 1 /\ n <= Len(s) - a + 1
        BY <1>1, <3>1
      <3>3. n - 1 \in 0..Len(t) /\ n + a - 1 \in 1..Len(s) /\ n - 1 + a - 1 = (n + a - 1) - 1
        BY <3>1, <3>2
      <3> QED
        BY <1>1, <3>1, <3>3
    <2>2. LastUpdate(s, k + a - 1, (n + a - 1) - 1) /\ k + a - 1 \in DOMAIN s /\ t[k] = s[k + a - 1]
      BY <1>2, <1>3, <2>1
    <2> QED
      BY <2>1, <2>2 DEF ExplainedBy
  <1>4. ASSUME NEW k \in DOMAIN t, LastUpdate(t, k, Len(t))
        PROVE  current = t[k].to
    <2>1. Len(t) \in 0..Len(t) /\ Len(t) + a - 1 = Len(s)
      BY <1>1
    <2>2. LastUpdate(s, k + a - 1, Len(s)) /\ k + a - 1 \in DOMAIN s /\ t[k] = s[k + a - 1]
      BY <1>2, <1>4, <2>1
    <2> QED
      BY <2>2 DEF ExplainedBy
  <1> QED
    BY <1>1, <1>3, <1>4 DEF ExplainedBy, t

LEMMA TrimmedExplained ==
  ASSUME NEW s \in Seq(PermissionChange), NEW current, ExplainedBy(s, current)
  PROVE  Trimmed(s) \in Seq(PermissionChange) /\ ExplainedBy(Trimmed(s), current)
  <1>1. CASE Len(s) > HistoryLimit
    <2>1. Len(s) - HistoryLimit + 1 \in 1..Len(s)
      BY <1>1, PermissionAssumption
    <2> QED
      BY <1>1, <2>1, SuffixExplained DEF Trimmed
  <1> QED
    BY <1>1 DEF Trimmed

\* The search finds the latest update.
LEMMA SearchFinds ==
  ASSUME NEW s, NEW n \in Nat,
         SelectLastInSubSeq(s, 1, n, LAMBDA c : c.update) > 0
  PROVE  LastUpdate(s, SelectLastInSubSeq(s, 1, n, LAMBDA c : c.update), n)
  <1> DEFINE found == SelectLastInSubSeq(s, 1, n, LAMBDA c : c.update)
             Updates == {i \in 1..n : s[i].update}
  <1>1. found = IF Updates # {} THEN Max(Updates) ELSE 0
    BY DEF SelectLastInSubSeq
  <1> HIDE DEF found
  <1>2. Updates # {} /\ found = Max(Updates)
    BY <1>1 DEF found
  <1>3. \E x \in Updates : \A y \in Updates : x >= y
    <2> DEFINE T == {n - i : i \in Updates}
    <2>1. T \subseteq Nat /\ T # {}
      BY <1>2
    <2>2. PICK d \in T : \A e \in T : d <= e
      BY <2>1, LeastNumber
    <2>3. PICK x \in Updates : d = n - x
      OBVIOUS
    <2>4. ASSUME NEW y \in Updates PROVE x >= y
      <3>1. n - x <= n - y
        BY <2>2, <2>3
      <3> QED
        BY <3>1
    <2> QED
      BY <2>4
  <1>4. found \in Updates /\ \A y \in Updates : found >= y
    BY <1>2, <1>3 DEF Max
  <1>5. \A m \in (found + 1)..n : m \notin Updates /\ m \in 1..n
    BY <1>4
  <1> QED
    BY <1>4, <1>5 DEF LastUpdate, found

LEMMA PermissionsStep == PermissionsInv /\ [PermissionsNext]_permissionVars => PermissionsInv'
  <1> SUFFICES ASSUME PermissionsInv, [PermissionsNext]_permissionVars PROVE PermissionsInv'
    OBVIOUS
  <1>1. ASSUME NEW i \in Members
        PROVE  /\ permissions[i] \in PermissionRecord /\ permissions[i].current \in Nullable
               /\ permissions[i].requested \in Nullable /\ permissions[i].mute \in BOOLEAN
               /\ permissions[i].history \in Seq(PermissionChange)
               /\ ExplainedBy(permissions[i].history, permissions[i].current)
               /\ ~permissions[i].known => permissions[i] = Unknown
    BY DEF PermissionsInv, PermissionRecord
  <1>2. ASSUME NEW i \in Members, NEW r \in PermissionRecord, permissions' = [permissions EXCEPT ![i] = r],
               ExplainedBy(r.history, r.current), r.known \/ r = Unknown,
               UNCHANGED <<policies, defaults, agentCaps, hour>>
        PROVE  PermissionsInv'
    BY <1>2 DEF PermissionsInv
  <1>3. ASSUME NEW i \in Members, NEW perms \in Grants, UpdateParticipantPermissions(i, perms)
        PROVE  PermissionsInv'
    <2> DEFINE old == permissions[i].current
               h == permissions[i].history
               change == [from |-> old, to |-> perms, update |-> TRUE, approved |-> TRUE]
               longer == IF old = NoPermission THEN h ELSE Trimmed(Append(h, change))
               r == [permissions[i] EXCEPT !.known = TRUE, !.current = perms, !.history = longer]
    <2>1. perms \in Permission /\ perms \in Nullable
      BY PermissionAssumption DEF Nullable
    <2>2. /\ permissions' = [permissions EXCEPT ![i] = r]
          /\ UNCHANGED <<policies, defaults, agentCaps, hour>>
      BY <1>3 DEF UpdateParticipantPermissions, PermissionsInv
    <2>3. longer \in Seq(PermissionChange) /\ ExplainedBy(longer, perms)
      <3>1. CASE old = NoPermission
        <4>1. \A k \in DOMAIN h : ~LastUpdate(h, k, Len(h))
          <5>1. \A k \in DOMAIN h : h[k].to # NoPermission
            <6>1. \A k \in DOMAIN h : h[k] \in PermissionChange
              BY <1>1
            <6> QED
              BY <6>1, PermissionAssumption DEF PermissionChange
          <5> QED
            BY <1>1, <3>1, <5>1 DEF ExplainedBy
        <4> QED
          BY <1>1, <3>1, <4>1 DEF ExplainedBy
      <3>2. CASE old # NoPermission
        <4>1. /\ change \in PermissionChange /\ change.from = old
              /\ perms = IF change.update THEN change.to ELSE old
          BY <1>1, <2>1 DEF PermissionChange
        <4> HIDE DEF change
        <4>2. Append(h, change) \in Seq(PermissionChange) /\ ExplainedBy(Append(h, change), perms)
          BY <1>1, <2>1, <4>1, AppendExplained
        <4> QED
          BY <3>2, <4>2, TrimmedExplained
      <3> QED
        BY <3>1, <3>2
    <2> HIDE DEF longer
    <2>4. r \in PermissionRecord /\ r.history = longer /\ r.current = perms /\ r.known
      BY <1>1, <2>1, <2>3 DEF PermissionRecord
    <2> HIDE DEF r
    <2> QED
      BY <1>2, <2>2, <2>3, <2>4
  <1>4. ASSUME NEW i \in Members, NEW perms \in Grants, RequestPermissionChange(i, perms)
        PROVE  PermissionsInv'
    <2> DEFINE h == permissions[i].history
               approved == \A p \in DOMAIN policies : Approves(policies[p], perms)
               change == [from |-> Asked(i), to |-> perms, update |-> FALSE, approved |-> approved]
               r == [permissions[i] EXCEPT !.known = TRUE, !.current = Asked(i), !.requested = perms,
                                           !.history = Append(h, change)]
    <2>1. perms \in Permission /\ perms \in Nullable
      BY PermissionAssumption DEF Nullable
    <2>2. /\ permissions' = [permissions EXCEPT ![i] = r]
          /\ UNCHANGED <<policies, defaults, agentCaps, hour>>
      BY <1>4 DEF RequestPermissionChange, PermissionsInv
    <2>3. Asked(i) \in Nullable /\ h \in Seq(PermissionChange) /\ ExplainedBy(h, Asked(i))
      <3>1. CASE permissions[i].known
        BY <1>1, <3>1 DEF Asked
      <3>2. CASE ~permissions[i].known
        <4>1. h = <<>> /\ Asked(i) = defaults
          BY <1>1, <3>2 DEF Asked, Unknown
        <4>2. h \in Seq(PermissionChange) /\ Asked(i) \in Nullable
          BY <1>1, <4>1 DEF PermissionsInv, Nullable
        <4> QED
          BY <4>1, <4>2 DEF ExplainedBy
      <3> QED
        BY <3>1, <3>2
    <2>4. change \in PermissionChange /\ change.from = Asked(i) /\ change.update = FALSE
      <3>1. approved \in BOOLEAN
        OBVIOUS
      <3> HIDE DEF approved
      <3> QED
        BY <2>1, <2>3, <3>1 DEF PermissionChange
    <2> HIDE DEF change
    <2>5. Append(h, change) \in Seq(PermissionChange) /\ ExplainedBy(Append(h, change), Asked(i))
      BY <2>3, <2>4, AppendExplained
    <2> DEFINE longer == Append(h, change)
    <2>6. longer \in Seq(PermissionChange) /\ ExplainedBy(longer, Asked(i))
          /\ r = [permissions[i] EXCEPT !.known = TRUE, !.current = Asked(i), !.requested = perms,
                                        !.history = longer]
      BY <2>5
    <2> HIDE DEF longer, r
    <2>7. r \in PermissionRecord /\ r.history = longer /\ r.current = Asked(i) /\ r.known
      BY <1>1, <2>1, <2>3, <2>6 DEF PermissionRecord
    <2> QED
      BY <1>2, <2>2, <2>6, <2>7
  <1>5. ASSUME NEW i \in Members, RemovePermissions(i)
        PROVE  PermissionsInv'
    <2>1. Unknown.history = <<>> /\ Unknown.current = NoPermission
      BY DEF Unknown
    <2> QED
      BY <1>2, <1>5, <2>1, NothingExplained DEF RemovePermissions
  <1>6. ASSUME NEW i \in Members, NEW b \in BOOLEAN, SetCustomRestriction(i, b)
        PROVE  PermissionsInv'
    <2> DEFINE r == [permissions[i] EXCEPT !.known = TRUE, !.mute = b]
    <2>1. /\ permissions' = [permissions EXCEPT ![i] = r]
          /\ UNCHANGED <<policies, defaults, agentCaps, hour>>
      BY <1>6 DEF SetCustomRestriction, PermissionsInv
    <2>2. /\ r \in PermissionRecord /\ r.history = permissions[i].history
          /\ r.current = permissions[i].current /\ r.known
      BY <1>1 DEF PermissionRecord
    <2> HIDE DEF r
    <2> QED
      BY <1>1, <1>2, <2>1, <2>2
  <1>7. ASSUME NEW kind \in {"role", "time"}, AddPolicy(kind)
        PROVE  PermissionsInv'
    <2>1. policies \in Seq({"role", "time"}) /\ policies' = Append(policies, kind)
      BY <1>7 DEF AddPolicy, PermissionsInv
    <2>2. policies' \in Seq({"role", "time"})
      BY <2>1
    <2> QED
      BY <1>7, <2>2 DEF AddPolicy, PermissionsInv
  <1>8. ASSUME NEW perms \in Grants, SetDefaultPermissions(perms)
        PROVE  PermissionsInv'
    BY <1>8, PermissionAssumption DEF SetDefaultPermissions, PermissionsInv
  <1>9. ASSUME NEW caps \in CapabilitySets, SetAgentCapabilities(caps)
        PROVE  PermissionsInv'
    BY <1>9, PermissionAssumption DEF SetAgentCapabilities, PermissionsInv
  <1>10. CASE HourPasses \/ UNCHANGED permissionVars
    BY <1>10 DEF HourPasses, permissionVars, PermissionsInv
  <1> QED
    BY <1>3, <1>4, <1>5, <1>6, <1>7, <1>8, <1>9, <1>10 DEF PermissionsNext

(* For any participants, policies, hours and length of the history: every  *)
(* change in it starts from what the latest update before it made, and the *)
(* permission is what the latest update of all made it, whatever was       *)
(* requested, approved, restricted or trimmed between.                     *)
THEOREM HistoryAlwaysExplains == PermissionsSpec => [](PermissionsTypeOK /\ HistoryExplains)
  <1>1. PermissionsInit => PermissionsInv
    <2> SUFFICES ASSUME PermissionsInit PROVE PermissionsInv
      OBVIOUS
    <2>1. Unknown.history = <<>> /\ Unknown.current = NoPermission
      BY DEF Unknown
    <2> QED
      BY <2>1, NothingExplained DEF PermissionsInit, PermissionsInv, Permission
  <1>2. PermissionsInv /\ [PermissionsNext]_permissionVars => PermissionsInv'
    BY PermissionsStep
  <1>3. PermissionsInv => PermissionsTypeOK
    BY DEF PermissionsInv, PermissionRecord, PermissionsTypeOK
  <1>4. PermissionsInv => HistoryExplains
    <2> SUFFICES ASSUME PermissionsInv, NEW i \in Members
                 PROVE  LET s == permissions[i].history
                            Found(n) == SelectLastInSubSeq(s, 1, n, LAMBDA c : c.update)
                        IN  /\ \A n \in DOMAIN s : Found(n - 1) > 0 => s[n].from = s[Found(n - 1)].to
                            /\ Found(Len(s)) > 0 =>
                                   /\ permissions[i].current = s[Found(Len(s))].to
                                   /\ CanSendDataTo(i) => s[Found(Len(s))].to.data
      BY DEF HistoryExplains
    <2> DEFINE s == permissions[i].history
               Found(n) == SelectLastInSubSeq(s, 1, n, LAMBDA c : c.update)
    <2>1. s \in Seq(PermissionChange) /\ ExplainedBy(s, permissions[i].current)
      BY DEF PermissionsInv, PermissionRecord
    <2>2. DOMAIN s = 1..Len(s) /\ Len(s) \in Nat /\ \A k \in DOMAIN s : s[k] \in PermissionChange
      BY <2>1
    <2> HIDE DEF s
    <2>3. \A n \in Nat : Found(n) > 0 => LastUpdate(s, Found(n), n)
      BY SearchFinds
    <2> HIDE DEF Found
    <2>4. ASSUME NEW n \in DOMAIN s, Found(n - 1) > 0 PROVE s[n].from = s[Found(n - 1)].to
      <3>1. n - 1 \in Nat /\ LastUpdate(s, Found(n - 1), n - 1)
        BY <2>2, <2>3, <2>4
      <3>2. Found(n - 1) \in DOMAIN s
        BY <2>2, <3>1 DEF LastUpdate
      <3> QED
        BY <2>1, <3>1, <3>2 DEF ExplainedBy
    <2>5. ASSUME Found(Len(s)) > 0
          PROVE  /\ permissions[i].current = s[Found(Len(s))].to
                 /\ CanSendDataTo(i) => s[Found(Len(s))].to.data
      <3>1. LastUpdate(s, Found(Len(s)), Len(s)) /\ Found(Len(s)) \in DOMAIN s
        BY <2>2, <2>3, <2>5 DEF LastUpdate
      <3>2. permissions[i].current = s[Found(Len(s))].to
        BY <2>1, <3>1 DEF ExplainedBy
      <3>3. permissions[i].current # NoPermission
        BY <2>2, <3>1, <3>2, PermissionAssumption DEF PermissionChange
      <3> QED
        BY <3>2, <3>3 DEF CanSendDataTo
    <2> QED
      BY <2>4, <2>5 DEF Found, s
  <1> QED
    BY <1>1, <1>2, <1>3, <1>4, PTL DEF PermissionsSpec


-------------------------------------------------------------------------------
(* Proof that an event that is processed is handed to all its handlers.      *)

(* Of the handlers reg, those in s were run, in order, and u are next.       *)
Handed(s, u, reg) ==
    /\ Len(s) + Len(u) <= Len(reg)
    /\ \A i \in 1..Len(s) : s[i] = reg[i]
    /\ \A i \in 1..Len(u) : u[i] = reg[Len(s) + i]

(* s holds the latest of k numbers, as many as the history keeps.            *)
Newest(s, k) ==
    /\ s \in Seq(Nat)
    /\ Len(s) = IF k > EventHistorySize THEN EventHistorySize ELSE k
    /\ \A i \in 1..Len(s) : s[i] = k - Len(s) + i

BegunEvent == [type : HandledTypes, had : Nat]

Processing ==
    [at : {"idle", "take", "run"}, event : Nat, left : Seq(TypeHandlers), failed : BOOLEAN]

HandlersOf(n) == eventHandlers[begun[n].type]

ProcessingTypes ==
    /\ eventHandlers \in [HandledTypes -> Seq(TypeHandlers)]
    /\ begun \in Seq(BegunEvent)
    /\ ran \in Seq(Seq(TypeHandlers)) /\ Len(ran) = Len(begun)
    /\ processing \in [Processors -> Processing]

(* An event is with one goroutine at most, and what that goroutine has yet  *)
(* to call follows what was called.                                         *)
EventsHanded ==
    /\ \A g \in Processors :
        IF processing[g].at = "idle" THEN processing[g].event = 0 /\ processing[g].left = <<>>
        ELSE /\ processing[g].event \in 1..Len(begun)
             /\ processing[g].at = "take" =>
                    processing[g].left = <<>> /\ ran[processing[g].event] = <<>>
             /\ Handed(ran[processing[g].event], processing[g].left, HandlersOf(processing[g].event))
             /\ processing[g].at = "run" =>
                    Len(ran[processing[g].event]) + Len(processing[g].left)
                        >= begun[processing[g].event].had
    /\ \A g, h \in Processors :
        g # h /\ processing[g].at # "idle" => processing[g].event # processing[h].event
    /\ \A n \in 1..Len(begun) :
        /\ begun[n].had <= Len(HandlersOf(n))
        /\ (\A g \in Processors : processing[g].event # n) =>
               Handed(ran[n], <<>>, HandlersOf(n)) /\ Len(ran[n]) >= begun[n].had

BusyProcessors == {g \in Processors : processing[g].at # "idle"}

EventsCounted ==
    /\ eventMetrics \in [processed : Nat, failed : Nat]
    /\ IsFiniteSet(BusyProcessors)
    /\ eventMetrics.processed + eventMetrics.failed + Cardinality(BusyProcessors) = Len(begun)

ProcessedInv ==
    ProcessingTypes /\ EventsHanded /\ EventsCounted /\ Newest(eventHistory, Len(begun))

LEMMA HandedNext ==
  ASSUME NEW S, NEW s \in Seq(S), NEW u \in Seq(S), NEW reg \in Seq(S), u # <<>>, Handed(s, u, reg)
  PROVE  /\ Append(s, Head(u)) \in Seq(S) /\ Tail(u) \in Seq(S)
         /\ Handed(Append(s, Head(u)), Tail(u), reg)
         /\ Len(Append(s, Head(u))) + Len(Tail(u)) = Len(s) + Len(u)
  <1> DEFINE a == Append(s, Head(u))
             r == Tail(u)
  <1>1. /\ Len(s) \in Nat /\ Len(u) \in Nat /\ Len(u) > 0 /\ Head(u) = u[1] /\ u[1] \in S
    OBVIOUS
  <1>2. /\ a \in Seq(S) /\ Len(a) = Len(s) + 1 /\ a[Len(s) + 1] = u[1]
        /\ \A i \in 1..Len(s) : a[i] = s[i]
    BY <1>1
  <1>3. /\ r \in Seq(S) /\ Len(r) = Len(u) - 1 /\ \A i \in 1..Len(r) : r[i] = u[i + 1]
    BY <1>1
  <1> HIDE DEF a, r
  <1>4. ASSUME NEW i \in 1..Len(a) PROVE a[i] = reg[i]
    <2>1. CASE i \in 1..Len(s)
      BY <1>2, <2>1 DEF Handed
    <2>2. CASE i = Len(s) + 1
      <3>1. 1 \in 1..Len(u)
        BY <1>1
      <3> QED
        BY <1>2, <2>2, <3>1 DEF Handed
    <2> QED
      BY <1>1, <1>2, <2>1, <2>2
  <1>5. ASSUME NEW i \in 1..Len(r) PROVE r[i] = reg[Len(a) + i]
    <2>1. i + 1 \in 1..Len(u) /\ Len(s) + (i + 1) = Len(a) + i
      BY <1>1, <1>2, <1>3
    <2>2. u[i + 1] = reg[Len(s) + (i + 1)]
      BY <2>1 DEF Handed
    <2> QED
      BY <1>3, <2>1, <2>2
  <1>6. Len(a) + Len(r) = Len(s) + Len(u) /\ Len(a) + Len(r) <= Len(reg)
    BY <1>1, <1>2, <1>3 DEF Handed
  <1>7. Handed(a, r, reg)
    BY <1>4, <1>5, <1>6 DEF Handed
  <1> QED
    BY <1>2, <1>3, <1>6, <1>7 DEF a, r

LEMMA HandedMore ==
  ASSUME NEW S, NEW s \in Seq(S), NEW u \in Seq(S), NEW reg \in Seq(S), NEW h \in S,
         Handed(s, u, reg)
  PROVE  Append(reg, h) \in Seq(S) /\ Handed(s, u, Append(reg, h))
         /\ Len(Append(reg, h)) = Len(reg) + 1
  <1> DEFINE more == Append(reg, h)
  <1>1. /\ more \in Seq(S) /\ Len(more) = Len(reg) + 1 /\ Len(reg) \in Nat
        /\ \A i \in 1..Len(reg) : more[i] = reg[i]
        /\ Len(s) \in Nat /\ Len(u) \in Nat
    OBVIOUS
  <1> HIDE DEF more
  <1>2. /\ \A i \in 1..Len(s) : i \in 1..Len(reg)
        /\ \A i \in 1..Len(u) : Len(s) + i \in 1..Len(reg)
        /\ Len(s) + Len(u) <= Len(more)
    BY <1>1 DEF Handed
  <1>3. Handed(s, u, more)
    BY <1>1, <1>2 DEF Handed
  <1> QED
    BY <1>1, <1>3 DEF more

LEMMA HandedWhole ==
  ASSUME NEW S, NEW s \in Seq(S), NEW u \in Seq(S), NEW reg \in Seq(S), Handed(s, u, reg)
  PROVE  /\ s \o u = SubSeq(reg, 1, Len(s \o u))
         /\ Len(s \o u) = Len(s) + Len(u)
  <1> DEFINE all == s \o u
             part == SubSeq(reg, 1, Len(s) + Len(u))
  <1>1. /\ Len(s) \in Nat /\ Len(u) \in Nat /\ Len(reg) \in Nat
        /\ Len(s) + Len(u) <= Len(reg)
    BY DEF Handed
  <1>2. /\ all \in Seq(S) /\ Len(all) = Len(s) + Len(u)
        /\ \A i \in 1..Len(s) : all[i] = s[i]
        /\ \A i \in 1..(Len(s) + Len(u)) : i > Len(s) => all[i] = u[i - Len(s)]
    BY <1>1
  <1>3. /\ part \in Seq(S) /\ Len(part) = Len(s) + Len(u)
        /\ \A i \in 1..(Len(s) + Len(u)) : part[i] = reg[i]
    BY <1>1
  <1> HIDE DEF all, part
  <1>4. ASSUME NEW i \in 1..(Len(s) + Len(u)) PROVE all[i] = part[i]
    <2>1. CASE i \in 1..Len(s)
      BY <1>2, <1>3, <2>1 DEF Handed
    <2>2. CASE i > Len(s)
      <3>1. i - Len(s) \in 1..Len(u) /\ Len(s) + (i - Len(s)) = i
        BY <1>1, <2>2
      <3>2. u[i - Len(s)] = reg[Len(s) + (i - Len(s))]
        BY <3>1 DEF Handed
      <3> QED
        BY <1>2, <1>3, <2>2, <3>1, <3>2
    <2> QED
      BY <1>1, <2>1, <2>2
  <1>5. all = part
    <2>1. all = [i \in 1..Len(all) |-> all[i]] /\ part = [i \in 1..Len(part) |-> part[i]]
      BY <1>2, <1>3
    <2> QED
      BY <1>2, <1>3, <1>4, <2>1
  <1> QED
    BY <1>2, <1>5 DEF all, part

LEMMA NewestNext ==
  ASSUME NEW s, NEW k \in Nat, Newest(s, k)
  PROVE  Newest(LatestEvents(Append(s, k + 1)), k + 1)
  <1> DEFINE longer == Append(s, k + 1)
             last == LatestEvents(longer)
  <1>1. /\ EventHistorySize \in Nat /\ EventHistorySize > 0 /\ s \in Seq(Nat) /\ Len(s) \in Nat
        /\ Len(s) = IF k > EventHistorySize THEN EventHistorySize ELSE k
    BY HandlersAssumption DEF Newest
  <1>2. /\ longer \in Seq(Nat) /\ Len(longer) = Len(s) + 1
        /\ \A i \in 1..Len(s) : longer[i] = s[i]
        /\ longer[Len(s) + 1] = k + 1
    BY <1>1
  <1> HIDE DEF longer
  <1>3. \A i \in 1..Len(longer) : longer[i] = k + 1 - Len(longer) + i
    <2> SUFFICES ASSUME NEW i \in 1..Len(longer) PROVE longer[i] = k + 1 - Len(longer) + i
      OBVIOUS
    <2>1. CASE i \in 1..Len(s)
      <3>1. longer[i] = k - Len(s) + i
        BY <1>2, <2>1 DEF Newest
      <3> QED
        BY <1>1, <1>2, <3>1
    <2>2. CASE i = Len(s) + 1
      BY <1>1, <1>2, <2>2
    <2> QED
      BY <1>1, <1>2, <2>1, <2>2
  <1>4. CASE Len(longer) > EventHistorySize
    <2>1. last = SubSeq(longer, Len(longer) - EventHistorySize + 1, Len(longer))
      BY <1>4 DEF LatestEvents
    <2> HIDE DEF last
    <2>2. k >= EventHistorySize /\ Len(longer) = EventHistorySize + 1
      BY <1>1, <1>2, <1>4
    <2>3. last = SubSeq(longer, 2, EventHistorySize + 1)
      <3>1. Len(longer) - EventHistorySize + 1 = 2
        BY <1>1, <2>2
      <3> QED
        BY <2>1, <2>2, <3>1
    <2>4. /\ last \in Seq(Nat) /\ Len(last) = EventHistorySize
          /\ \A i \in 1..EventHistorySize : last[i] = longer[i + 1]
      <3>1. ASSUME NEW a \in Seq(Nat), NEW m \in Nat, m > 0, Len(a) = m + 1
            PROVE  /\ SubSeq(a, 2, m + 1) \in Seq(Nat) /\ Len(SubSeq(a, 2, m + 1)) = m
                   /\ \A i \in 1..m : SubSeq(a, 2, m + 1)[i] = a[i + 1]
        <4> HIDE DEF last
        <4>1. Len(SubSeq(a, 2, m + 1)) = m /\ SubSeq(a, 2, m + 1) \in Seq(Nat)
          BY <3>1
        <4>2. ASSUME NEW i \in 1..m PROVE SubSeq(a, 2, m + 1)[i] = a[i + 1]
          BY <3>1
        <4> QED
          BY <4>1, <4>2
      <3> QED
        BY <1>1, <1>2, <2>2, <2>3, <3>1
    <2>5. \A i \in 1..EventHistorySize : last[i] = k + 1 - EventHistorySize + i
      BY <1>1, <1>3, <2>2, <2>4
    <2>6. Newest(last, k + 1)
      BY <1>1, <2>2, <2>4, <2>5 DEF Newest
    <2> QED
      BY <2>6 DEF last, longer
  <1>5. CASE ~(Len(longer) > EventHistorySize)
    <2>1. last = longer
      BY <1>5 DEF LatestEvents
    <2>2. k < EventHistorySize /\ Len(longer) = k + 1
      BY <1>1, <1>2, <1>5
    <2>3. Newest(longer, k + 1)
      BY <1>1, <1>2, <1>3, <2>2 DEF Newest
    <2> QED
      BY <2>1, <2>3 DEF longer
  <1> QED
    BY <1>4, <1>5


LEMMA NothingHanded ==
  ASSUME NEW S, NEW reg \in Seq(S)
  PROVE  /\ Handed(<<>>, <<>>, reg) /\ Handed(<<>>, reg, reg)
         /\ <<>> \in Seq(S) /\ Len(<<>>) = 0 /\ Len(reg) \in Nat
  BY DEF Handed

LEMMA ProcessedInvInit == ProcessedInit => ProcessedInv
  <1> SUFFICES ASSUME ProcessedInit PROVE ProcessedInv
    OBVIOUS
  <1>1. /\ Len(begun) = 0 /\ Len(ran) = 0 /\ begun = <<>> /\ ran = <<>> /\ eventHistory = <<>>
        /\ \A g \in Processors : processing[g] = NotProcessing
    BY DEF ProcessedInit
  <1>2. NotProcessing \in Processing /\ NotProcessing.at = "idle" /\ NotProcessing.event = 0
        /\ NotProcessing.left = <<>>
    BY DEF NotProcessing, Processing
  <1>3. ProcessingTypes
    BY <1>1, <1>2 DEF ProcessedInit, ProcessingTypes
  <1>4. EventsHanded
    BY <1>1, <1>2 DEF EventsHanded
  <1>5. BusyProcessors = {}
    BY <1>1, <1>2 DEF BusyProcessors
  <1>6. EventsCounted
    BY <1>1, <1>5, FS_EmptySet DEF ProcessedInit, EventsCounted
  <1>7. Newest(eventHistory, Len(begun))
    BY <1>1, HandlersAssumption DEF Newest
  <1> QED
    BY <1>3, <1>4, <1>6, <1>7 DEF ProcessedInv

\* What the steps need of one goroutine and of one event.
LEMMA OneProcessing ==
  ASSUME ProcessedInv
  PROVE  /\ Len(begun) \in Nat /\ Len(ran) = Len(begun)
         /\ \A g \in Processors :
                /\ processing[g] \in Processing
                /\ processing[g].at \in {"idle", "take", "run"} /\ processing[g].event \in Nat
                /\ processing[g].left \in Seq(TypeHandlers)
         /\ \A n \in 1..Len(begun) :
                /\ begun[n] \in BegunEvent /\ begun[n].type \in HandledTypes /\ begun[n].had \in Nat
                /\ ran[n] \in Seq(TypeHandlers) /\ HandlersOf(n) \in Seq(TypeHandlers)
  <1>1. /\ Len(begun) \in Nat /\ Len(ran) = Len(begun)
        /\ \A n \in 1..Len(begun) : begun[n] \in BegunEvent /\ ran[n] \in Seq(TypeHandlers)
    <2>1. begun \in Seq(BegunEvent) /\ ran \in Seq(Seq(TypeHandlers)) /\ Len(ran) = Len(begun)
      BY DEF ProcessedInv, ProcessingTypes
    <2> DEFINE T == Seq(TypeHandlers)
    <2>2. ran \in Seq(T)
      BY <2>1
    <2> HIDE DEF T
    <2>3. \A n \in 1..Len(begun) : ran[n] \in T
      BY <2>1, <2>2
    <2> QED
      BY <2>1, <2>3 DEF T
  <1>2. \A g \in Processors : processing[g] \in Processing
    BY DEF ProcessedInv, ProcessingTypes
  <1>3. \A p \in Processing : /\ p.at \in {"idle", "take", "run"} /\ p.event \in Nat
                              /\ p.left \in Seq(TypeHandlers)
    BY DEF Processing
  <1>4. \A b \in BegunEvent : b.type \in HandledTypes /\ b.had \in Nat
    BY DEF BegunEvent
  <1>5. \A n \in 1..Len(begun) : HandlersOf(n) \in Seq(TypeHandlers)
    BY <1>1, <1>4 DEF HandlersOf, ProcessedInv, ProcessingTypes
  <1> QED
    BY <1>1, <1>2, <1>3, <1>4, <1>5

LEMMA RegisterKeepsHanded ==
  ASSUME ProcessedInv, NEW t \in HandledTypes, NEW h \in TypeHandlers, RegisterHandler(t, h)
  PROVE  ProcessedInv'
  <1>1. /\ eventHandlers' = [eventHandlers EXCEPT ![t] = Append(@, h)]
        /\ UNCHANGED <<eventHistory, begun, processing, eventMetrics, ran>>
    BY DEF RegisterHandler
  <1>2. eventHandlers \in [HandledTypes -> Seq(TypeHandlers)]
    BY DEF ProcessedInv, ProcessingTypes
  <1>3. ProcessingTypes'
    <2>1. Append(eventHandlers[t], h) \in Seq(TypeHandlers)
      BY <1>2
    <2>2. eventHandlers' \in [HandledTypes -> Seq(TypeHandlers)]
      BY <1>1, <1>2, <2>1
    <2> QED
      BY <1>1, <2>2 DEF ProcessedInv, ProcessingTypes
  <1>4. ASSUME NEW n \in 1..Len(begun)
        PROVE  /\ Len(HandlersOf(n)) <= Len(HandlersOf(n)')
               /\ \A s, u \in Seq(TypeHandlers) :
                      Handed(s, u, HandlersOf(n)) => Handed(s, u, HandlersOf(n)')
    <2>1. HandlersOf(n) \in Seq(TypeHandlers) /\ begun[n].type \in HandledTypes
      BY OneProcessing
    <2>2. HandlersOf(n)' = HandlersOf(n) \/ HandlersOf(n)' = Append(HandlersOf(n), h)
      BY <1>1, <1>2, <2>1 DEF HandlersOf
    <2>3. Len(HandlersOf(n)) \in Nat /\ Len(Append(HandlersOf(n), h)) = Len(HandlersOf(n)) + 1
      BY <2>1
    <2>4. ASSUME NEW s \in Seq(TypeHandlers), NEW u \in Seq(TypeHandlers), Handed(s, u, HandlersOf(n))
          PROVE  Handed(s, u, Append(HandlersOf(n), h))
      <3>1. \A reg \in Seq(TypeHandlers) : Handed(s, u, reg) => Handed(s, u, Append(reg, h))
        BY HandedMore
      <3> QED
        BY <2>1, <2>4, <3>1
    <2>5. CASE HandlersOf(n)' = HandlersOf(n)
      BY <2>3, <2>5
    <2>6. CASE HandlersOf(n)' = Append(HandlersOf(n), h)
      <3>1. Len(HandlersOf(n)) <= Len(HandlersOf(n)')
        BY <2>3, <2>6
      <3> QED
        BY <2>4, <2>6, <3>1
    <2> QED
      BY <2>2, <2>5, <2>6
  <1>5. EventsHanded'
    <2> DEFINE Well(g) ==
                IF processing[g].at = "idle" THEN processing[g].event = 0 /\ processing[g].left = <<>>
                ELSE /\ processing[g].event \in 1..Len(begun)
                     /\ processing[g].at = "take" =>
                            processing[g].left = <<>> /\ ran[processing[g].event] = <<>>
                     /\ Handed(ran[processing[g].event], processing[g].left,
                               HandlersOf(processing[g].event)')
                     /\ processing[g].at = "run" =>
                            Len(ran[processing[g].event]) + Len(processing[g].left)
                                >= begun[processing[g].event].had
    <2>1. ASSUME NEW g \in Processors PROVE Well(g)
      <3>1. CASE processing[g].at = "idle"
        BY <3>1 DEF ProcessedInv, EventsHanded
      <3>2. CASE processing[g].at # "idle"
        <4>1. /\ processing[g].event \in 1..Len(begun)
              /\ processing[g].left \in Seq(TypeHandlers)
              /\ ran[processing[g].event] \in Seq(TypeHandlers)
          BY <3>2, OneProcessing DEF ProcessedInv, EventsHanded
        <4>2. Handed(ran[processing[g].event], processing[g].left, HandlersOf(processing[g].event))
          BY <3>2 DEF ProcessedInv, EventsHanded
        <4>3. Handed(ran[processing[g].event], processing[g].left, HandlersOf(processing[g].event)')
          <5>1. PICK n \in 1..Len(begun) : n = processing[g].event
            BY <4>1
          <5>2. HandlersOf(processing[g].event)' = HandlersOf(n)'
            BY <1>1, <5>1 DEF HandlersOf
          <5>3. Handed(ran[n], processing[g].left, HandlersOf(n)')
            BY <1>4, <4>1, <4>2, <5>1
          <5> QED
            BY <5>1, <5>2, <5>3
        <4>4. /\ processing[g].at = "take" =>
                     processing[g].left = <<>> /\ ran[processing[g].event] = <<>>
              /\ processing[g].at = "run" =>
                     Len(ran[processing[g].event]) + Len(processing[g].left)
                         >= begun[processing[g].event].had
          BY <3>2 DEF ProcessedInv, EventsHanded
        <4> QED
          BY <3>2, <4>1, <4>3, <4>4
      <3> QED
        BY <3>1, <3>2
    <2>2. ASSUME NEW n \in 1..Len(begun)
          PROVE  /\ begun[n].had <= Len(HandlersOf(n)')
                 /\ (\A g \in Processors : processing[g].event # n) =>
                        Handed(ran[n], <<>>, HandlersOf(n)') /\ Len(ran[n]) >= begun[n].had
      <3>1. /\ ran[n] \in Seq(TypeHandlers) /\ <<>> \in Seq(TypeHandlers) /\ begun[n].had \in Nat
            /\ Len(HandlersOf(n)) \in Nat /\ Len(HandlersOf(n)') \in Nat
        <4>1. begun[n].type \in HandledTypes /\ HandlersOf(n) \in Seq(TypeHandlers)
              /\ ran[n] \in Seq(TypeHandlers) /\ begun[n].had \in Nat
          BY OneProcessing
        <4>2. HandlersOf(n)' \in Seq(TypeHandlers)
          BY <1>1, <1>3, <4>1 DEF ProcessingTypes, HandlersOf
        <4> QED
          BY <4>1, <4>2
      <3>2. /\ begun[n].had <= Len(HandlersOf(n))
            /\ (\A g \in Processors : processing[g].event # n) =>
                        Handed(ran[n], <<>>, HandlersOf(n)) /\ Len(ran[n]) >= begun[n].had
        BY DEF ProcessedInv, EventsHanded
      <3>3. Len(HandlersOf(n)) <= Len(HandlersOf(n)')
            /\ (Handed(ran[n], <<>>, HandlersOf(n)) => Handed(ran[n], <<>>, HandlersOf(n)'))
        BY <1>4, <3>1
      <3>4. begun[n].had <= Len(HandlersOf(n)')
        BY <3>1, <3>2, <3>3
      <3> QED
        BY <3>2, <3>3, <3>4
    <2> HIDE DEF Well
    <2>3. /\ \A g \in Processors : Well(g)
          /\ \A g, f \in Processors :
                g # f /\ processing[g].at # "idle" => processing[g].event # processing[f].event
      BY <2>1 DEF ProcessedInv, EventsHanded
    <2> QED
      BY <1>1, <2>2, <2>3 DEF EventsHanded, HandlersOf, Well
  <1>6. EventsCounted' /\ Newest(eventHistory, Len(begun))'
    <2>1. BusyProcessors' = BusyProcessors
      BY <1>1 DEF BusyProcessors
    <2> QED
      BY <1>1, <2>1 DEF ProcessedInv, EventsCounted, Newest
  <1> QED
    BY <1>3, <1>5, <1>6 DEF ProcessedInv


\* EventsHanded of the next state, with the numbers of the events named.
LEMMA NextHanded ==
  ASSUME UNCHANGED <<eventHandlers, begun>>,
         \A m \in 1..Len(begun) : HandlersOf(m)' = HandlersOf(m),
         \A f \in Processors :
             IF processing'[f].at = "idle" THEN processing'[f].event = 0 /\ processing'[f].left = <<>>
             ELSE \E m \in 1..Len(begun) :
                   /\ processing'[f].event = m
                   /\ processing'[f].at = "take" => processing'[f].left = <<>> /\ ran'[m] = <<>>
                   /\ Handed(ran'[m], processing'[f].left, HandlersOf(m))
                   /\ processing'[f].at = "run" =>
                          Len(ran'[m]) + Len(processing'[f].left) >= begun[m].had,
         \A f, h \in Processors :
             f # h /\ processing'[f].at # "idle" => processing'[f].event # processing'[h].event,
         \A m \in 1..Len(begun) :
             /\ begun[m].had <= Len(HandlersOf(m))
             /\ (\A f \in Processors : processing'[f].event # m) =>
                    Handed(ran'[m], <<>>, HandlersOf(m)) /\ Len(ran'[m]) >= begun[m].had
  PROVE  EventsHanded'
  <1>1. ASSUME NEW f \in Processors, processing'[f].at # "idle"
        PROVE  /\ processing'[f].event \in 1..Len(begun)
               /\ processing'[f].at = "take" =>
                    processing'[f].left = <<>> /\ ran'[processing'[f].event] = <<>>
               /\ Handed(ran'[processing'[f].event], processing'[f].left,
                         eventHandlers[begun[processing'[f].event].type])
               /\ processing'[f].at = "run" =>
                    Len(ran'[processing'[f].event]) + Len(processing'[f].left)
                        >= begun[processing'[f].event].had
    <2>1. PICK m \in 1..Len(begun) :
                   /\ processing'[f].event = m
                   /\ processing'[f].at = "take" => processing'[f].left = <<>> /\ ran'[m] = <<>>
                   /\ Handed(ran'[m], processing'[f].left, HandlersOf(m))
                   /\ processing'[f].at = "run" =>
                          Len(ran'[m]) + Len(processing'[f].left) >= begun[m].had
      BY <1>1
    <2> QED
      BY <2>1 DEF HandlersOf
  <1>2. \A f \in Processors : processing'[f].at = "idle" =>
                processing'[f].event = 0 /\ processing'[f].left = <<>>
    OBVIOUS
  <1>3. ASSUME NEW m \in 1..Len(begun)
        PROVE  /\ begun[m].had <= Len(eventHandlers[begun[m].type])
               /\ (\A f \in Processors : processing'[f].event # m) =>
                      /\ Handed(ran'[m], <<>>, eventHandlers[begun[m].type])
                      /\ Len(ran'[m]) >= begun[m].had
    BY DEF HandlersOf
  <1> QED
    BY <1>1, <1>2, <1>3 DEF EventsHanded, HandlersOf


\* A goroutine goes on with its event, for which the handlers it has left are the next.
LEMMA GoesOnWithEvent ==
  ASSUME ProcessedInv, NEW g \in Processors, NEW n \in 1..Len(begun), NEW p \in Processing,
         processing[g].at # "idle", processing[g].event = n,
         processing' = [processing EXCEPT ![g] = p], p.at = "run", p.event = n,
         UNCHANGED <<eventHandlers, begun, eventMetrics, eventHistory>>,
         ran' \in Seq(Seq(TypeHandlers)), Len(ran') = Len(ran),
         \A m \in 1..Len(begun) : m # n => ran'[m] = ran[m],
         Handed(ran'[n], p.left, HandlersOf(n)),
         Len(ran'[n]) + Len(p.left) >= begun[n].had
  PROVE  ProcessedInv'
  <1>1. /\ processing' \in [Processors -> Processing] /\ processing'[g] = p
        /\ \A f \in Processors : f # g => processing'[f] = processing[f]
    BY DEF ProcessedInv, ProcessingTypes
  <1>2. ProcessingTypes'
    BY <1>1 DEF ProcessedInv, ProcessingTypes
  <1>3. \A m \in 1..Len(begun) : HandlersOf(m)' = HandlersOf(m)
    BY DEF HandlersOf
  <1>4. \A f \in Processors : f # g => processing[f].event # n
    BY DEF ProcessedInv, EventsHanded
  <1>5. ASSUME NEW f \in Processors
        PROVE  IF processing'[f].at = "idle" THEN processing'[f].event = 0 /\ processing'[f].left = <<>>
               ELSE \E m \in 1..Len(begun) :
                     /\ processing'[f].event = m
                     /\ processing'[f].at = "take" => processing'[f].left = <<>> /\ ran'[m] = <<>>
                     /\ Handed(ran'[m], processing'[f].left, HandlersOf(m))
                     /\ processing'[f].at = "run" =>
                            Len(ran'[m]) + Len(processing'[f].left) >= begun[m].had
    <2>1. CASE f = g
      BY <1>1, <2>1
    <2>2. CASE f # g /\ processing[f].at = "idle"
      BY <1>1, <2>2 DEF ProcessedInv, EventsHanded
    <2>3. CASE f # g /\ processing[f].at # "idle"
      <3>1. PICK m \in 1..Len(begun) : processing[f].event = m
        BY <2>3 DEF ProcessedInv, EventsHanded
      <3>2. m # n /\ ran'[m] = ran[m] /\ processing'[f] = processing[f]
        BY <1>1, <1>4, <2>3, <3>1
      <3>3. /\ processing[f].at = "take" => processing[f].left = <<>> /\ ran[m] = <<>>
            /\ Handed(ran[m], processing[f].left, HandlersOf(m))
            /\ processing[f].at = "run" => Len(ran[m]) + Len(processing[f].left) >= begun[m].had
        BY <2>3, <3>1 DEF ProcessedInv, EventsHanded
      <3> QED
        BY <2>3, <3>1, <3>2, <3>3
    <2> QED
      BY <2>1, <2>2, <2>3
  <1>6. ASSUME NEW f \in Processors, NEW h \in Processors, f # h, processing'[f].at # "idle"
        PROVE  processing'[f].event # processing'[h].event
    <2>1. processing[f].at # "idle" /\ processing[f].event # processing[h].event
      BY <1>1, <1>6 DEF ProcessedInv, EventsHanded
    <2>2. processing'[f].event = processing[f].event /\ processing'[h].event = processing[h].event
      BY <1>1
    <2> QED
      BY <2>1, <2>2
  <1>7. ASSUME NEW m \in 1..Len(begun)
        PROVE  /\ begun[m].had <= Len(HandlersOf(m))
               /\ (\A f \in Processors : processing'[f].event # m) =>
                      Handed(ran'[m], <<>>, HandlersOf(m)) /\ Len(ran'[m]) >= begun[m].had
    <2>1. /\ begun[m].had <= Len(HandlersOf(m))
          /\ (\A f \in Processors : processing[f].event # m) =>
                 Handed(ran[m], <<>>, HandlersOf(m)) /\ Len(ran[m]) >= begun[m].had
      BY DEF ProcessedInv, EventsHanded
    <2>2. \A f \in Processors : processing'[f].event = processing[f].event
      BY <1>1
    <2>3. CASE m = n
      BY <2>1, <2>2, <2>3
    <2>4. CASE m # n
      BY <2>1, <2>2, <2>4
    <2> QED
      BY <2>3, <2>4
  <1>8. EventsHanded'
    BY <1>3, <1>5, <1>6, <1>7, NextHanded
  <1>9. EventsCounted' /\ Newest(eventHistory, Len(begun))'
    <2>1. BusyProcessors' = BusyProcessors
      BY <1>1 DEF BusyProcessors
    <2> QED
      BY <2>1 DEF ProcessedInv, EventsCounted, Newest
  <1> QED
    BY <1>2, <1>8, <1>9 DEF ProcessedInv

LEMMA ProcessorKeepsHanded ==
  ASSUME ProcessedInv, NEW g \in Processors, TakeHandlers(g) \/ RunHandler(g)
  PROVE  ProcessedInv'
  <1>1. processing[g].at # "idle" /\ UNCHANGED <<eventHandlers, begun, eventMetrics, eventHistory>>
    BY DEF TakeHandlers, RunHandler
  <1>2. PICK n \in 1..Len(begun) : processing[g].event = n
    BY <1>1 DEF ProcessedInv, EventsHanded
  <1>3. /\ processing[g] \in Processing /\ processing[g].left \in Seq(TypeHandlers)
        /\ ran[n] \in Seq(TypeHandlers) /\ HandlersOf(n) \in Seq(TypeHandlers)
        /\ begun[n].had \in Nat /\ Len(ran) = Len(begun)
    BY <1>2, OneProcessing
  <1>4. /\ Handed(ran[n], processing[g].left, HandlersOf(n)) /\ begun[n].had <= Len(HandlersOf(n))
        /\ processing[g].at = "take" => processing[g].left = <<>> /\ ran[n] = <<>>
        /\ processing[g].at = "run" => Len(ran[n]) + Len(processing[g].left) >= begun[n].had
    BY <1>1, <1>2 DEF ProcessedInv, EventsHanded
  <1>5. processing \in [Processors -> Processing] /\ ran \in Seq(Seq(TypeHandlers))
    BY DEF ProcessedInv, ProcessingTypes
  <1>6. CASE TakeHandlers(g)
    <2> DEFINE p == [processing[g] EXCEPT !.at = "run", !.left = HandlersOf(n)]
    <2>1. processing' = [processing EXCEPT ![g] = p] /\ ran' = ran /\ processing[g].at = "take"
      BY <1>2, <1>5, <1>6 DEF TakeHandlers, HandlersOf
    <2>2. p \in Processing /\ p.at = "run" /\ p.event = n /\ p.left = HandlersOf(n)
      BY <1>2, <1>3 DEF Processing
    <2> HIDE DEF p
    <2>3. Handed(ran'[n], p.left, HandlersOf(n)) /\ Len(ran'[n]) + Len(p.left) >= begun[n].had
      BY <1>3, <1>4, <2>1, <2>2, NothingHanded
    <2> QED
      BY <1>1, <1>2, <1>5, <2>1, <2>2, <2>3, GoesOnWithEvent
  <1>7. CASE RunHandler(g)
    <2>1. PICK failed \in BOOLEAN :
            processing' = [processing EXCEPT
                ![g] = [processing[g] EXCEPT !.left = Tail(@), !.failed = failed]]
      <3>1. PICK fails \in BOOLEAN :
              processing' = [processing EXCEPT
                  ![g] = [processing[g] EXCEPT !.left = Tail(@), !.failed = @ \/ fails]]
        BY <1>7 DEF RunHandler
      <3>2. (processing[g].failed \/ fails) \in BOOLEAN
        OBVIOUS
      <3> QED
        BY <3>1, <3>2
    <2> DEFINE rest == Tail(processing[g].left)
               p == [processing[g] EXCEPT !.left = Tail(@), !.failed = failed]
               called == Append(ran[n], Head(processing[g].left))
    <2>2. /\ ran' = [ran EXCEPT ![n] = called] /\ processing' = [processing EXCEPT ![g] = p]
          /\ processing[g].at = "run" /\ processing[g].left # <<>>
      <3>1. /\ ran' = [ran EXCEPT ![processing[g].event] = Append(@, Head(processing[g].left))]
            /\ processing[g].at = "run" /\ processing[g].left # <<>>
        BY <1>7 DEF RunHandler
      <3>2. processing' = [processing EXCEPT ![g] = p]
        BY <2>1
      <3>3. ran' = [ran EXCEPT ![n] = called]
        BY <1>2, <3>1
      <3> QED
        BY <3>1, <3>2, <3>3
    <2>3. /\ called \in Seq(TypeHandlers) /\ rest \in Seq(TypeHandlers)
          /\ Handed(called, rest, HandlersOf(n))
          /\ Len(called) + Len(rest) = Len(ran[n]) + Len(processing[g].left)
      <3>1. \A s, u, reg \in Seq(TypeHandlers) : u # <<>> /\ Handed(s, u, reg) =>
              /\ Append(s, Head(u)) \in Seq(TypeHandlers) /\ Tail(u) \in Seq(TypeHandlers)
              /\ Handed(Append(s, Head(u)), Tail(u), reg)
              /\ Len(Append(s, Head(u))) + Len(Tail(u)) = Len(s) + Len(u)
        BY HandedNext
      <3> QED
        BY <1>3, <1>4, <2>2, <3>1
    <2> HIDE DEF called
    <2>4. p \in Processing /\ p.at = "run" /\ p.event = n /\ p.left = rest
      BY <1>2, <1>3, <2>2, <2>3 DEF Processing
    <2>5. /\ ran' \in Seq(Seq(TypeHandlers)) /\ Len(ran') = Len(ran) /\ ran'[n] = called
          /\ \A m \in 1..Len(begun) : m # n => ran'[m] = ran[m]
      <3> DEFINE T == Seq(TypeHandlers)
      <3>1. ran \in Seq(T) /\ called \in T /\ n \in 1..Len(ran) /\ ran' = [ran EXCEPT ![n] = called]
        BY <1>3, <1>5, <2>2, <2>3
      <3> HIDE DEF T
      <3>2. /\ ran' \in Seq(T) /\ Len(ran') = Len(ran) /\ ran'[n] = called
            /\ \A m \in 1..Len(ran) : m # n => ran'[m] = ran[m]
        BY <3>1
      <3> QED
        BY <1>3, <3>2 DEF T
    <2> HIDE DEF p, rest
    <2>6. Handed(ran'[n], p.left, HandlersOf(n)) /\ Len(ran'[n]) + Len(p.left) >= begun[n].had
      BY <1>4, <2>2, <2>3, <2>4, <2>5
    <2> QED
      BY <1>1, <1>2, <2>2, <2>4, <2>5, <2>6, GoesOnWithEvent
  <1> QED
    BY <1>6, <1>7


LEMMA RecordKeepsHanded ==
  ASSUME ProcessedInv, NEW g \in Processors, NEW t \in HandledTypes, RecordHistory(g, t)
  PROVE  ProcessedInv'
  <1> DEFINE n == Len(begun) + 1
             new == [type |-> t, had |-> Len(eventHandlers[t])]
             p == [processing[g] EXCEPT !.at = "take", !.event = n]
  <1>1. /\ processing[g].at = "idle" /\ UNCHANGED <<eventHandlers, eventMetrics>>
        /\ begun' = Append(begun, new) /\ ran' = Append(ran, <<>>)
        /\ eventHistory' = LatestEvents(Append(eventHistory, n))
        /\ processing' = [processing EXCEPT ![g] = p]
    BY DEF RecordHistory
  <1>2. /\ Len(begun) \in Nat /\ Len(ran) = Len(begun) /\ processing[g] \in Processing
        /\ eventHandlers \in [HandledTypes -> Seq(TypeHandlers)]
        /\ begun \in Seq(BegunEvent) /\ ran \in Seq(Seq(TypeHandlers))
        /\ processing \in [Processors -> Processing]
    BY OneProcessing DEF ProcessedInv, ProcessingTypes
  <1>3. new \in BegunEvent /\ new.type = t /\ new.had = Len(eventHandlers[t])
        /\ eventHandlers[t] \in Seq(TypeHandlers) /\ Len(eventHandlers[t]) \in Nat
    <2>1. eventHandlers[t] \in Seq(TypeHandlers) /\ Len(eventHandlers[t]) \in Nat
      BY <1>2
    <2> QED
      BY <2>1 DEF BegunEvent
  <1>4. p \in Processing /\ p.at = "take" /\ p.event = n /\ p.left = <<>>
    <2>1. processing[g].left = <<>> /\ n \in Nat
      <3>1. processing[g].left = <<>>
        BY <1>1 DEF ProcessedInv, EventsHanded
      <3> QED
        BY <1>2, <3>1
    <2> HIDE DEF n
    <2>2. \A q \in Processing : LET r == [q EXCEPT !.at = "take", !.event = n]
                                IN  r \in Processing /\ r.at = "take" /\ r.event = n /\ r.left = q.left
      BY <2>1 DEF Processing
    <2> QED
      BY <1>2, <2>1, <2>2
  <1> HIDE DEF new, p
  <1>5. /\ begun' \in Seq(BegunEvent) /\ Len(begun') = n /\ begun'[n] = new
        /\ \A m \in 1..Len(begun) : begun'[m] = begun[m]
    BY <1>1, <1>2, <1>3
  <1>6. /\ ran' \in Seq(Seq(TypeHandlers)) /\ Len(ran') = n /\ ran'[n] = <<>>
        /\ \A m \in 1..Len(begun) : ran'[m] = ran[m]
    <2> DEFINE T == Seq(TypeHandlers)
    <2>1. ran \in Seq(T) /\ <<>> \in T
      BY <1>2
    <2> HIDE DEF T
    <2>2. /\ ran' \in Seq(T) /\ Len(ran') = n /\ ran'[n] = <<>>
          /\ \A m \in 1..Len(ran) : ran'[m] = ran[m]
      BY <1>1, <1>2, <2>1
    <2> QED
      BY <1>2, <2>2 DEF T
  <1>7. /\ processing' \in [Processors -> Processing] /\ processing'[g] = p
        /\ \A f \in Processors : f # g => processing'[f] = processing[f]
    BY <1>1, <1>2, <1>4
  <1>8. ProcessingTypes'
    BY <1>1, <1>2, <1>5, <1>6, <1>7 DEF ProcessingTypes
  <1>9. /\ 1..Len(begun') = 1..Len(begun) \cup {n} /\ n \notin 1..Len(begun) /\ n # 0
        /\ \A f \in Processors : processing[f].event # n
    <2>1. 1..Len(begun') = 1..Len(begun) \cup {n} /\ n \notin 1..Len(begun) /\ n # 0
      BY <1>2, <1>5
    <2>2. \A f \in Processors : processing[f].event \in 1..Len(begun) \/ processing[f].event = 0
      BY DEF ProcessedInv, EventsHanded
    <2> QED
      BY <2>1, <2>2
  <1>10. /\ \A m \in 1..Len(begun) : eventHandlers'[begun'[m].type] = HandlersOf(m)
         /\ eventHandlers'[begun'[n].type] = eventHandlers[t]
    BY <1>1, <1>3, <1>5 DEF HandlersOf
  <1>11. Handed(<<>>, <<>>, eventHandlers[t])
    BY <1>3, NothingHanded
  <1>12. ASSUME NEW f \in Processors
         PROVE  IF processing'[f].at = "idle" THEN processing'[f].event = 0 /\ processing'[f].left = <<>>
                ELSE \E m \in 1..Len(begun') :
                      /\ processing'[f].event = m
                      /\ processing'[f].at = "take" => processing'[f].left = <<>> /\ ran'[m] = <<>>
                      /\ Handed(ran'[m], processing'[f].left, eventHandlers'[begun'[m].type])
                      /\ processing'[f].at = "run" =>
                             Len(ran'[m]) + Len(processing'[f].left) >= begun'[m].had
    <2>1. CASE f = g
      BY <1>4, <1>6, <1>7, <1>9, <1>10, <1>11, <2>1
    <2>2. CASE f # g /\ processing[f].at = "idle"
      BY <1>7, <2>2 DEF ProcessedInv, EventsHanded
    <2>3. CASE f # g /\ processing[f].at # "idle"
      <3>1. PICK m \in 1..Len(begun) : processing[f].event = m
        BY <2>3 DEF ProcessedInv, EventsHanded
      <3>2. /\ m \in 1..Len(begun') /\ ran'[m] = ran[m] /\ processing'[f] = processing[f]
            /\ begun'[m] = begun[m] /\ eventHandlers'[begun'[m].type] = HandlersOf(m)
        BY <1>5, <1>6, <1>7, <1>9, <1>10, <2>3, <3>1
      <3>3. /\ processing[f].at = "take" => processing[f].left = <<>> /\ ran[m] = <<>>
            /\ Handed(ran[m], processing[f].left, HandlersOf(m))
            /\ processing[f].at = "run" => Len(ran[m]) + Len(processing[f].left) >= begun[m].had
        BY <2>3, <3>1 DEF ProcessedInv, EventsHanded
      <3> QED
        BY <2>3, <3>1, <3>2, <3>3
    <2> QED
      BY <2>1, <2>2, <2>3
  <1>13. ASSUME NEW f \in Processors, NEW h \in Processors, f # h, processing'[f].at # "idle"
         PROVE  processing'[f].event # processing'[h].event
    <2>1. CASE f = g
      BY <1>4, <1>7, <1>9, <1>13, <2>1
    <2>2. CASE f # g /\ h = g
      BY <1>4, <1>7, <1>9, <2>2
    <2>3. CASE f # g /\ h # g
      <3>1. processing'[f] = processing[f] /\ processing'[h] = processing[h]
        BY <1>7, <2>3
      <3> QED
        BY <1>13, <3>1 DEF ProcessedInv, EventsHanded
    <2> QED
      BY <2>1, <2>2, <2>3
  <1>14. ASSUME NEW m \in 1..Len(begun')
         PROVE  /\ begun'[m].had <= Len(eventHandlers'[begun'[m].type])
                /\ (\A f \in Processors : processing'[f].event # m) =>
                       /\ Handed(ran'[m], <<>>, eventHandlers'[begun'[m].type])
                       /\ Len(ran'[m]) >= begun'[m].had
    <2>1. CASE m = n
      <3>1. processing'[g].event = m
        BY <1>4, <1>7, <2>1
      <3> QED
        BY <1>3, <1>5, <1>10, <2>1, <3>1
    <2>2. CASE m # n
      <3>1. /\ m \in 1..Len(begun) /\ ran'[m] = ran[m] /\ begun'[m] = begun[m]
            /\ eventHandlers'[begun'[m].type] = HandlersOf(m)
        BY <1>5, <1>6, <1>9, <1>10, <2>2
      <3>2. /\ begun[m].had <= Len(HandlersOf(m))
            /\ (\A f \in Processors : processing[f].event # m) =>
                   Handed(ran[m], <<>>, HandlersOf(m)) /\ Len(ran[m]) >= begun[m].had
        BY <3>1 DEF ProcessedInv, EventsHanded
      <3>3. ASSUME \A f \in Processors : processing'[f].event # m
            PROVE  \A f \in Processors : processing[f].event # m
        <4>1. processing[g].event = 0 /\ m # 0
          <5>1. processing[g].event = 0
            BY <1>1 DEF ProcessedInv, EventsHanded
          <5> QED
            BY <1>2, <3>1, <5>1
        <4>2. \A f \in Processors : f # g => processing'[f].event = processing[f].event
          BY <1>7
        <4> QED
          BY <3>3, <4>1, <4>2
      <3> QED
        BY <3>1, <3>2, <3>3
    <2> QED
      BY <2>1, <2>2
  <1>15. EventsHanded'
    BY <1>12, <1>13, <1>14 DEF EventsHanded, HandlersOf
  <1>16. EventsCounted'
    <2>1. BusyProcessors' = BusyProcessors \cup {g} /\ g \notin BusyProcessors
      BY <1>1, <1>4, <1>7 DEF BusyProcessors
    <2>2. IsFiniteSet(BusyProcessors') /\ Cardinality(BusyProcessors') = Cardinality(BusyProcessors) + 1
          /\ Cardinality(BusyProcessors) \in Nat
      BY <2>1, FS_AddElement, FS_CardinalityType DEF ProcessedInv, EventsCounted
    <2>3. /\ eventMetrics \in [processed : Nat, failed : Nat]
          /\ eventMetrics.processed + eventMetrics.failed + Cardinality(BusyProcessors) = Len(begun)
      BY DEF ProcessedInv, EventsCounted
    <2> QED
      BY <1>1, <1>2, <1>5, <2>2, <2>3 DEF EventsCounted
  <1>17. Newest(eventHistory, Len(begun))'
    BY <1>1, <1>2, <1>5, NewestNext DEF ProcessedInv
  <1> QED
    BY <1>8, <1>15, <1>16, <1>17 DEF ProcessedInv


LEMMA CountKeepsHanded ==
  ASSUME ProcessedInv, NEW g \in Processors, CountEvent(g)
  PROVE  ProcessedInv'
  <1>1. /\ processing[g].at = "run" /\ processing[g].left = <<>>
        /\ UNCHANGED <<eventHandlers, eventHistory, begun, ran>>
        /\ processing' = [processing EXCEPT ![g] = NotProcessing]
    BY DEF CountEvent
  <1>2. PICK n \in 1..Len(begun) : processing[g].event = n
    BY <1>1 DEF ProcessedInv, EventsHanded
  <1>3. /\ NotProcessing \in Processing /\ NotProcessing.at = "idle" /\ NotProcessing.event = 0
        /\ NotProcessing.left = <<>>
    BY DEF NotProcessing, Processing
  <1>4. /\ processing' \in [Processors -> Processing] /\ processing'[g] = NotProcessing
        /\ \A f \in Processors : f # g => processing'[f] = processing[f]
    BY <1>1, <1>3 DEF ProcessedInv, ProcessingTypes
  <1>5. ProcessingTypes'
    BY <1>1, <1>4 DEF ProcessedInv, ProcessingTypes
  <1>6. \A m \in 1..Len(begun) : HandlersOf(m)' = HandlersOf(m)
    BY <1>1 DEF HandlersOf
  <1>7. Handed(ran[n], <<>>, HandlersOf(n)) /\ Len(ran[n]) >= begun[n].had
    <2>1. /\ Handed(ran[n], processing[g].left, HandlersOf(n))
          /\ Len(ran[n]) + Len(processing[g].left) >= begun[n].had
      BY <1>1, <1>2 DEF ProcessedInv, EventsHanded
    <2>2. Len(ran[n]) \in Nat /\ begun[n].had \in Nat /\ Len(processing[g].left) = 0
      BY <1>1, OneProcessing DEF BegunEvent
    <2> QED
      BY <1>1, <2>1, <2>2
  <1>8. ASSUME NEW f \in Processors
        PROVE  IF processing'[f].at = "idle" THEN processing'[f].event = 0 /\ processing'[f].left = <<>>
               ELSE \E m \in 1..Len(begun) :
                     /\ processing'[f].event = m
                     /\ processing'[f].at = "take" => processing'[f].left = <<>> /\ ran'[m] = <<>>
                     /\ Handed(ran'[m], processing'[f].left, HandlersOf(m))
                     /\ processing'[f].at = "run" =>
                            Len(ran'[m]) + Len(processing'[f].left) >= begun[m].had
    <2>1. CASE f = g
      BY <1>3, <1>4, <2>1
    <2>2. CASE f # g /\ processing[f].at = "idle"
      BY <1>4, <2>2 DEF ProcessedInv, EventsHanded
    <2>3. CASE f # g /\ processing[f].at # "idle"
      <3>1. PICK m \in 1..Len(begun) : processing[f].event = m
        BY <2>3 DEF ProcessedInv, EventsHanded
      <3>2. ran' = ran /\ processing'[f] = processing[f]
        BY <1>1, <1>4, <2>3
      <3>3. /\ processing[f].at = "take" => processing[f].left = <<>> /\ ran[m] = <<>>
            /\ Handed(ran[m], processing[f].left, HandlersOf(m))
            /\ processing[f].at = "run" => Len(ran[m]) + Len(processing[f].left) >= begun[m].had
        BY <2>3, <3>1 DEF ProcessedInv, EventsHanded
      <3> QED
        BY <2>3, <3>1, <3>2, <3>3
    <2> QED
      BY <2>1, <2>2, <2>3
  <1>9. ASSUME NEW f \in Processors, NEW h \in Processors, f # h, processing'[f].at # "idle"
        PROVE  processing'[f].event # processing'[h].event
    <2>1. f # g /\ processing'[f] = processing[f]
      BY <1>3, <1>4, <1>9
    <2>2. CASE h = g
      <3>1. processing[f].event \in 1..Len(begun)
        BY <1>9, <2>1 DEF ProcessedInv, EventsHanded
      <3>2. processing[f].event # 0
        BY <3>1, OneProcessing
      <3> QED
        BY <1>3, <1>4, <2>1, <2>2, <3>2
    <2>3. CASE h # g
      <3>1. processing'[h] = processing[h]
        BY <1>4, <2>3
      <3> QED
        BY <1>9, <2>1, <3>1 DEF ProcessedInv, EventsHanded
    <2> QED
      BY <2>2, <2>3
  <1>10. ASSUME NEW m \in 1..Len(begun)
         PROVE  /\ begun[m].had <= Len(HandlersOf(m))
                /\ (\A f \in Processors : processing'[f].event # m) =>
                       Handed(ran'[m], <<>>, HandlersOf(m)) /\ Len(ran'[m]) >= begun[m].had
    <2>1. /\ begun[m].had <= Len(HandlersOf(m))
          /\ (\A f \in Processors : processing[f].event # m) =>
                 Handed(ran[m], <<>>, HandlersOf(m)) /\ Len(ran[m]) >= begun[m].had
      BY DEF ProcessedInv, EventsHanded
    <2>2. \A f \in Processors : f # g => processing'[f].event = processing[f].event
      BY <1>4
    <2>3. CASE m = n
      BY <1>1, <1>7, <2>1, <2>3
    <2>4. CASE m # n
      BY <1>1, <1>2, <2>1, <2>2, <2>4
    <2> QED
      BY <2>3, <2>4
  <1>11. EventsHanded'
    BY <1>1, <1>6, <1>8, <1>9, <1>10, NextHanded
  <1>12. EventsCounted'
    <2>1. BusyProcessors' = BusyProcessors \ {g} /\ g \in BusyProcessors
      BY <1>1, <1>3, <1>4 DEF BusyProcessors
    <2>2. /\ IsFiniteSet(BusyProcessors') /\ Cardinality(BusyProcessors) \in Nat
          /\ Cardinality(BusyProcessors') = Cardinality(BusyProcessors) - 1
      BY <2>1, FS_RemoveElement, FS_CardinalityType DEF ProcessedInv, EventsCounted
    <2>3. /\ eventMetrics \in [processed : Nat, failed : Nat]
          /\ eventMetrics.processed + eventMetrics.failed + Cardinality(BusyProcessors) = Len(begun)
      BY DEF ProcessedInv, EventsCounted
    <2>4. /\ eventMetrics' \in [processed : Nat, failed : Nat]
          /\ eventMetrics'.processed + eventMetrics'.failed
                = eventMetrics.processed + eventMetrics.failed + 1
      <3>1. \/ eventMetrics' = [eventMetrics EXCEPT !.failed = @ + 1]
            \/ eventMetrics' = [eventMetrics EXCEPT !.processed = @ + 1]
        BY DEF CountEvent
      <3> QED
        BY <2>3, <3>1
    <2> QED
      <3> DEFINE c == Cardinality(BusyProcessors)
      <3>1. /\ eventMetrics'.processed + eventMetrics'.failed + (c - 1) = Len(begun)
            /\ Cardinality(BusyProcessors') = c - 1 /\ Len(begun') = Len(begun)
        <4>1. \A a, b, x, y, k, m \in Nat : a + b + k = m /\ x + y = a + b + 1 => x + y + (k - 1) = m
          OBVIOUS
        <4>2. /\ eventMetrics.processed \in Nat /\ eventMetrics.failed \in Nat /\ Len(begun) \in Nat
              /\ eventMetrics'.processed \in Nat /\ eventMetrics'.failed \in Nat
          BY <2>3, <2>4, OneProcessing
        <4> HIDE DEF c
        <4>3. c \in Nat /\ eventMetrics.processed + eventMetrics.failed + c = Len(begun)
          BY <2>2, <2>3 DEF c
        <4>4. Cardinality(BusyProcessors') = c - 1 /\ Len(begun') = Len(begun)
          BY <1>1, <2>2 DEF c
        <4> QED
          BY <2>4, <4>1, <4>2, <4>3, <4>4
      <3> QED
        BY <2>2, <2>4, <3>1 DEF EventsCounted
  <1>13. Newest(eventHistory, Len(begun))'
    BY <1>1 DEF ProcessedInv
  <1> QED
    BY <1>5, <1>11, <1>12, <1>13 DEF ProcessedInv

LEMMA ProcessedInvStep == ProcessedInv /\ [HandlersNext]_handlerVars => ProcessedInv'
  <1> SUFFICES ASSUME ProcessedInv, [HandlersNext]_handlerVars PROVE ProcessedInv'
    OBVIOUS
  <1>1. ASSUME NEW t \in HandledTypes, NEW h \in TypeHandlers, RegisterHandler(t, h)
        PROVE  ProcessedInv'
    BY <1>1, RegisterKeepsHanded
  <1>2. ASSUME NEW t \in HandledTypes, NEW g \in Processors, RecordHistory(g, t)
        PROVE  ProcessedInv'
    BY <1>2, RecordKeepsHanded
  <1>3. ASSUME NEW g \in Processors, TakeHandlers(g) \/ RunHandler(g)
        PROVE  ProcessedInv'
    BY <1>3, ProcessorKeepsHanded
  <1>4. ASSUME NEW g \in Processors, CountEvent(g)
        PROVE  ProcessedInv'
    BY <1>4, CountKeepsHanded
  <1>5. CASE UNCHANGED handlerVars
    BY <1>5 DEF handlerVars, ProcessedInv, ProcessingTypes, EventsHanded, EventsCounted, Newest,
                HandlersOf, BusyProcessors
  <1> QED
    BY <1>1, <1>2, <1>3, <1>4, <1>5 DEF HandlersNext

\* What the invariant says of one event, with the goroutine that has it, if one does.
LEMMA HandedSoFar ==
  ASSUME ProcessedInv, NEW n \in 1..Len(begun)
  PROVE  LET busy == {g \in Processors : processing[g].event = n}
             left == IF busy = {} THEN <<>> ELSE processing[CHOOSE g \in busy : TRUE].left
             all == ran[n] \o left
         IN  /\ all = SubSeq(eventHandlers[begun[n].type], 1, Len(all))
             /\ (\A g \in busy : processing[g].at = "run") => Len(all) >= begun[n].had
  <1> DEFINE busy == {g \in Processors : processing[g].event = n}
             left == IF busy = {} THEN <<>> ELSE processing[CHOOSE g \in busy : TRUE].left
  <1>1. /\ Len(begun) \in Nat /\ n # 0 /\ n \in Nat /\ ran[n] \in Seq(TypeHandlers)
        /\ HandlersOf(n) \in Seq(TypeHandlers) /\ Len(ran[n]) \in Nat
        /\ \A g \in Processors : processing[g].left \in Seq(TypeHandlers)
    BY OneProcessing
  <1>2. /\ left \in Seq(TypeHandlers) /\ Handed(ran[n], left, HandlersOf(n))
        /\ (\A g \in busy : processing[g].at = "run") => Len(ran[n]) + Len(left) >= begun[n].had
    <2>1. CASE busy = {}
      <3>1. Handed(ran[n], <<>>, HandlersOf(n)) /\ Len(ran[n]) >= begun[n].had
        BY <2>1 DEF ProcessedInv, EventsHanded
      <3>2. left = <<>>
        BY <2>1
      <3> HIDE DEF busy, left
      <3>3. Len(left) = 0 /\ left \in Seq(TypeHandlers)
        BY <3>2
      <3>4. Len(ran[n]) + Len(left) >= begun[n].had
        BY <1>1, <3>1, <3>3
      <3> QED
        BY <3>1, <3>2, <3>3, <3>4
    <2>2. CASE busy # {}
      <3>1. PICK g : g = CHOOSE f \in busy : TRUE
        OBVIOUS
      <3>2. g \in Processors /\ processing[g].event = n /\ left = processing[g].left /\ g \in busy
        BY <2>2, <3>1
      <3>3. processing[g].at # "idle"
        BY <1>1, <3>2 DEF ProcessedInv, EventsHanded
      <3>4. /\ Handed(ran[n], processing[g].left, HandlersOf(n))
            /\ processing[g].at = "run" => Len(ran[n]) + Len(processing[g].left) >= begun[n].had
        BY <3>2, <3>3 DEF ProcessedInv, EventsHanded
      <3> HIDE DEF busy, left
      <3> QED
        BY <1>1, <3>2, <3>4
    <2> QED
      BY <2>1, <2>2
  <1> HIDE DEF left
  <1>3. /\ ran[n] \o left = SubSeq(HandlersOf(n), 1, Len(ran[n] \o left))
        /\ Len(ran[n] \o left) = Len(ran[n]) + Len(left)
    <2>1. \A s, u, reg \in Seq(TypeHandlers) : Handed(s, u, reg) =>
            s \o u = SubSeq(reg, 1, Len(s \o u)) /\ Len(s \o u) = Len(s) + Len(u)
      BY HandedWhole
    <2> QED
      BY <1>1, <1>2, <2>1
  <1>4. /\ ran[n] \o left = SubSeq(eventHandlers[begun[n].type], 1, Len(ran[n] \o left))
        /\ (\A g \in busy : processing[g].at = "run") => Len(ran[n] \o left) >= begun[n].had
    BY <1>2, <1>3 DEF HandlersOf
  <1> QED
    BY <1>4 DEF left


LEMMA SameNumbers ==
  ASSUME NEW s \in Seq(Nat), NEW u \in Seq(Nat), Len(s) = Len(u), \A i \in 1..Len(u) : s[i] = u[i]
  PROVE  s = u
  <1>1. s = [i \in 1..Len(s) |-> s[i]] /\ u = [i \in 1..Len(u) |-> u[i]]
    OBVIOUS
  <1> QED
    BY <1>1

LEMMA HistoryIsNewest ==
  ASSUME ProcessedInv
  PROVE  /\ eventHistory = LatestEvents([n \in DOMAIN begun |-> n])
         /\ \A atMost \in 0..EventHistorySize : \A i \in DOMAIN GetEventHistory(atMost) :
               GetEventHistory(atMost)[i] = Len(begun) - Len(GetEventHistory(atMost)) + i
  <1> DEFINE k == Len(begun)
             s == eventHistory
             all == [n \in 1..k |-> n]
  <1>1. /\ k \in Nat /\ EventHistorySize \in Nat \ {0} /\ s \in Seq(Nat) /\ Len(s) \in Nat
        /\ Len(s) = (IF k > EventHistorySize THEN EventHistorySize ELSE k)
        /\ \A i \in 1..Len(s) : s[i] = k - Len(s) + i
    BY HandlersAssumption, OneProcessing DEF ProcessedInv, Newest
  <1>2. DOMAIN begun = 1..k
    BY DEF ProcessedInv, ProcessingTypes
  <1>3. all \in Seq(Nat) /\ Len(all) = k /\ \A i \in 1..k : all[i] = i
    BY <1>1
  <1> HIDE DEF k, all, s
  <1>4. s = LatestEvents(all)
    <2>1. CASE k > EventHistorySize
      <3> DEFINE tail == SubSeq(all, k - EventHistorySize + 1, k)
      <3>1. tail \in Seq(Nat) /\ Len(tail) = EventHistorySize
            /\ \A i \in 1..EventHistorySize : tail[i] = all[k - EventHistorySize + i]
        BY <1>1, <1>3, <2>1
      <3>2. \A i \in 1..EventHistorySize : tail[i] = s[i]
        BY <1>1, <1>3, <2>1, <3>1
      <3> HIDE DEF tail
      <3>3. s = tail
        BY <1>1, <2>1, <3>1, <3>2, SameNumbers
      <3> QED
        BY <1>1, <1>3, <2>1, <3>3 DEF LatestEvents, tail
    <2>2. CASE ~(k > EventHistorySize)
      <3>1. Len(s) = k /\ \A i \in 1..k : s[i] = all[i]
        BY <1>1, <1>3, <2>2
      <3>2. s = all
        BY <1>1, <1>3, <3>1, SameNumbers
      <3> QED
        BY <1>3, <2>2, <3>2 DEF LatestEvents
    <2> QED
      BY <2>1, <2>2
  <1>5. ASSUME NEW atMost \in 0..EventHistorySize
        PROVE  \A i \in DOMAIN GetEventHistory(atMost) :
                   GetEventHistory(atMost)[i] = k - Len(GetEventHistory(atMost)) + i
    <2>1. PICK w : w = IF atMost = 0 \/ atMost > Len(s) THEN Len(s) ELSE atMost
      OBVIOUS
    <2>2. GetEventHistory(atMost) = SubSeq(s, Len(s) - w + 1, Len(s))
      BY <2>1 DEF GetEventHistory, s
    <2>3. w \in Nat /\ w <= Len(s)
      BY <1>1, <2>1
    <2> DEFINE got == SubSeq(s, Len(s) - w + 1, Len(s))
    <2>4. DOMAIN got = 1..w /\ Len(got) = w /\ \A i \in 1..w : got[i] = s[Len(s) - w + i]
      BY <1>1, <2>3
    <2> HIDE DEF got
    <2>5. ASSUME NEW i \in 1..w PROVE s[Len(s) - w + i] = k - w + i
      <3>1. Len(s) - w + i \in 1..Len(s) /\ k - Len(s) + (Len(s) - w + i) = k - w + i
        BY <1>1, <2>3
      <3>2. s[Len(s) - w + i] = k - Len(s) + (Len(s) - w + i)
        BY <1>1, <3>1
      <3> QED
        BY <3>1, <3>2
    <2> QED
      BY <2>2, <2>4, <2>5 DEF got
  <1> QED
    BY <1>2, <1>4, <1>5 DEF k, s, all

(* An event that processEvent took up is counted or with one goroutine, its *)
(* handlers are called in the order in which they were registered, each     *)
(* once and none of those it had left out, and the history is of the latest *)
(* events, however the goroutines are interleaved and whatever fails.       *)
THEOREM EventsAlwaysHandedToAll == ProcessedInit /\ [][HandlersNext]_handlerVars => []HandledByAll
  <1>1. ProcessedInit => ProcessedInv
    BY ProcessedInvInit
  <1>2. ProcessedInv /\ [HandlersNext]_handlerVars => ProcessedInv'
    BY ProcessedInvStep
  <1>3. ProcessedInv => HandledByAll
    <2> SUFFICES ASSUME ProcessedInv PROVE HandledByAll
      OBVIOUS
    <2>1. DOMAIN begun = 1..Len(begun)
      BY DEF ProcessedInv, ProcessingTypes
    <2>2. eventMetrics.processed + eventMetrics.failed
            + Cardinality({g \in Processors : processing[g].at # "idle"}) = Len(begun)
      BY DEF ProcessedInv, EventsCounted, BusyProcessors
    <2> QED
      BY <2>1, <2>2, HistoryIsNewest, HandedSoFar DEF HandledByAll
  <1> QED
    BY <1>1, <1>2, <1>3, PTL


-------------------------------------------------------------------------------
(* What the coordinator counts.                                               *)

InteractionsOneWay == \A n \in DOMAIN interactions : interactions[n].both = FALSE

CoordinatorInv ==
    /\ CoordinatorTypeOK
    /\ InteractionsOneWay
    /\ notified # {} => \E threshold \in rules : threshold < MaxActivities

LEMMA CoordinatorInitInv == CoordinatorInit => CoordinatorInv
  <1> SUFFICES ASSUME CoordinatorInit PROVE CoordinatorInv
    OBVIOUS
  <1>1. interactions = <<>> /\ InteractionsOneWay
    BY DEF CoordinatorInit, InteractionsOneWay
  <1>2. history \in [Identities -> Seq(ActivityTypes)] /\ \A p \in Identities : Len(history[p]) <= MaxActivities
    BY CoordinatorAssumption DEF CoordinatorInit
  <1>3. delivering \in [CoordinationEvent -> 0..MaxDelivering]
    BY CoordinatorAssumption DEF CoordinatorInit
  <1>4. interactions \in Seq(Interaction)
    BY <1>1
  <1>5. CoordinatorTypeOK
    BY <1>2, <1>3, <1>4 DEF CoordinatorInit, CoordinatorTypeOK
  <1> QED
    BY <1>1, <1>5 DEF CoordinatorInit, CoordinatorInv

\* An event is emitted while there are fewer goroutines than the bound in all, so that none
\* of the counts gets beyond it.
LEMMA EmitKeepsTypes ==
  ASSUME CoordinatorTypeOK, NEW p \in Identities,
         NEW type \in {"participant_registered", "participant_unregistered"}, emitEvent(type, p)
  PROVE  /\ delivering' \in [CoordinationEvent -> 0..MaxDelivering]
         /\ unsettled' \subseteq Identities
         /\ following' = following /\ book' = book
  <1>1. delivering \in [CoordinationEvent -> 0..MaxDelivering] /\ unsettled \subseteq Identities
        /\ MaxDelivering \in Nat /\ <<type, p>> \in CoordinationEvent
    BY CoordinatorAssumption, CoordinationEventsAre DEF CoordinatorTypeOK
  <1>2. IsFiniteSet(CoordinationEvent)
    <2>1. IsFiniteSet({"participant_registered", "participant_unregistered"})
      <3>1. IsFiniteSet({"participant_registered"})
        BY FS_Singleton
      <3>2. IsFiniteSet({"participant_registered"} \cup {"participant_unregistered"})
        BY <3>1, FS_AddElement
      <3>3. {"participant_registered"} \cup {"participant_unregistered"}
            = {"participant_registered", "participant_unregistered"}
        OBVIOUS
      <3> QED
        BY <3>2, <3>3
    <2>2. PICK types : types = {"participant_registered", "participant_unregistered"}
      OBVIOUS
    <2>3. IsFiniteSet(types \X Identities)
      BY <2>1, <2>2, CoordinatorAssumption, FS_Product
    <2> QED
      BY <2>2, <2>3 DEF CoordinationEvent
  <1>3. delivering \in [CoordinationEvent -> Nat]
    BY <1>1
  <1>4. TotalOf(delivering) \in Nat /\ delivering[<<type, p>>] <= TotalOf(delivering)
    BY <1>1, <1>2, <1>3, TotalOfNats
  <1>5. TotalOf(delivering) < MaxDelivering
    BY DEF emitEvent, TotalOf
  <1>6. delivering[<<type, p>>] + 1 \in 0..MaxDelivering
    BY <1>1, <1>3, <1>4, <1>5
  <1> QED
    BY <1>1, <1>6 DEF emitEvent

LEMMA SuffixesAre ==
  ASSUME NEW S, NEW seq \in Seq(S), NEW r \in Recent(seq)
  PROVE  r \in Seq(S) /\ \A n \in DOMAIN r : \E m \in DOMAIN seq : r[n] = seq[m]
  <1>1. PICK i \in 1..Len(seq) + 1 : r = SubSeq(seq, i, Len(seq))
    BY DEF Recent
  <1>2. Len(seq) \in Nat /\ DOMAIN seq = 1..Len(seq)
    OBVIOUS
  <1>3. DOMAIN r = 1..(Len(seq) - i + 1) /\ \A n \in 1..(Len(seq) - i + 1) : r[n] = seq[i + n - 1]
    BY <1>1, <1>2
  <1>4. \A n \in 1..(Len(seq) - i + 1) : i + n - 1 \in 1..Len(seq)
    BY <1>2
  <1>5. r \in Seq(S)
    BY <1>1, <1>2
  <1> QED
    BY <1>2, <1>3, <1>4, <1>5

LEMMA LatestIs ==
  ASSUME NEW S, NEW seq \in Seq(S)
  PROVE  Latest(seq) \in Seq(S) /\ Len(Latest(seq)) <= MaxActivities
  <1>1. Len(seq) \in Nat /\ MaxActivities \in Nat
    BY CoordinatorAssumption
  <1>2. CASE Len(seq) > MaxActivities
    <2> DEFINE from == Len(seq) - MaxActivities + 1
    <2>1. from \in 1..Len(seq) + 1 /\ Latest(seq) = SubSeq(seq, from, Len(seq))
      BY <1>1, <1>2 DEF Latest
    <2>2. SubSeq(seq, from, Len(seq)) \in Seq(S) /\ Len(SubSeq(seq, from, Len(seq))) = MaxActivities
      BY <1>1, <2>1
    <2> QED
      BY <1>1, <2>1, <2>2
  <1>3. CASE ~(Len(seq) > MaxActivities)
    BY <1>1, <1>3 DEF Latest
  <1> QED
    BY <1>2, <1>3

LEMMA RegisterKeepsTypes ==
  ASSUME CoordinatorInv, NEW p \in Identities, RegisterParticipant(p)
  PROVE  CoordinatorInv'
  <1>1. CoordinatorTypeOK /\ emitEvent("participant_registered", p)
    BY DEF CoordinatorInv, RegisterParticipant
  <1>2. /\ delivering' \in [CoordinationEvent -> 0..MaxDelivering]
        /\ unsettled' \subseteq Identities /\ following' = following /\ book' = book
    BY <1>1, EmitKeepsTypes
  <1>3. /\ participants' = participants \cup {p} /\ listed' = [listed EXCEPT ![p] = {}]
        /\ history' = [history EXCEPT ![p] = <<>>] /\ quietFor' = quietFor \ {p}
        /\ renewed' \in {renewed, renewed \cup {p}}
        /\ UNCHANGED <<groups, members, limit, interactions, rules, notified>>
    BY DEF RegisterParticipant
  <1>4. history' \in [Identities -> Seq(ActivityTypes)] /\ \A q \in Identities : Len(history'[q]) <= MaxActivities
    BY <1>1, <1>3, CoordinatorAssumption DEF CoordinatorTypeOK
  <1>5. CoordinatorTypeOK'
    BY <1>1, <1>2, <1>3, <1>4 DEF CoordinatorTypeOK
  <1> QED
    BY <1>3, <1>5 DEF CoordinatorInv, InteractionsOneWay

LEMMA UnregisterKeepsTypes ==
  ASSUME CoordinatorInv, NEW p \in Identities, UnregisterParticipant(p)
  PROVE  CoordinatorInv'
  <1>1. CoordinatorTypeOK /\ emitEvent("participant_unregistered", p)
    BY DEF CoordinatorInv, UnregisterParticipant
  <1>2. /\ delivering' \in [CoordinationEvent -> 0..MaxDelivering]
        /\ unsettled' \subseteq Identities /\ following' = following /\ book' = book
    BY <1>1, EmitKeepsTypes
  <1>3. /\ participants' = participants \ {p} /\ listed' = [listed EXCEPT ![p] = {}]
        /\ history' = [history EXCEPT ![p] = <<>>] /\ quietFor' = quietFor \ {p}
        /\ UNCHANGED <<renewed, interactions, rules, notified>>
    BY DEF UnregisterParticipant
  <1>4. history' \in [Identities -> Seq(ActivityTypes)] /\ \A q \in Identities : Len(history'[q]) <= MaxActivities
    BY <1>1, <1>3, CoordinatorAssumption DEF CoordinatorTypeOK
  <1>5. /\ groups' \subseteq GroupIds
        /\ members' \in [GroupIds -> SUBSET Identities]
        /\ limit' \in [GroupIds -> GroupLimits \cup {0}]
    BY <1>1 DEF CoordinatorTypeOK, UnregisterParticipant, LeaveGroups
  <1>6. CoordinatorTypeOK'
    BY <1>1, <1>2, <1>3, <1>4, <1>5 DEF CoordinatorTypeOK
  <1> QED
    BY <1>3, <1>6 DEF CoordinatorInv, InteractionsOneWay

LEMMA ActivityKeepsTypes ==
  ASSUME CoordinatorInv, NEW p \in Identities, NEW type \in ActivityTypes,
         UpdateParticipantActivity(p, type)
  PROVE  CoordinatorInv'
  <1>1. CoordinatorTypeOK /\ rules \subseteq Nat
    BY CoordinatorAssumption DEF CoordinatorInv, CoordinatorTypeOK
  <1>2. /\ history' = [history EXCEPT ![p] = Latest(Append(history[p], type))]
        /\ quietFor' = quietFor \ {p} /\ p \in participants
        /\ UNCHANGED <<participants, listed, groups, members, limit, interactions, renewed,
                       rules, following, delivering, book, unsettled>>
    BY DEF UpdateParticipantActivity, bookVars
  <1>3. PICK recent \in [Identities -> 0..MaxActivities] : notified' = evaluateRules(recent)
    BY DEF UpdateParticipantActivity
  <1>4. /\ history \in [Identities -> Seq(ActivityTypes)]
        /\ \A q \in Identities : Len(history[q]) <= MaxActivities
    BY <1>1 DEF CoordinatorTypeOK
  <1>5. Append(history[p], type) \in Seq(ActivityTypes)
    BY <1>4
  <1>6. /\ Latest(Append(history[p], type)) \in Seq(ActivityTypes)
        /\ Len(Latest(Append(history[p], type))) <= MaxActivities
    BY <1>5, LatestIs
  <1>7. /\ history' \in [Identities -> Seq(ActivityTypes)]
        /\ \A q \in Identities : Len(history'[q]) <= MaxActivities
    BY <1>2, <1>4, <1>6
  <1>8. ASSUME NEW q \in notified'
        PROVE  q \in participants /\ \E threshold \in rules : threshold < MaxActivities
    <2>1. PICK threshold \in rules : q \in participants /\ recent[q] > threshold
      BY <1>3, <1>8 DEF evaluateRules, ProximityRule, ActivityBasedRule
    <2>2. q \in Identities
      BY <1>1, <2>1 DEF CoordinatorTypeOK
    <2>3. recent[q] \in 0..MaxActivities /\ threshold \in Nat /\ MaxActivities \in Nat
      BY <1>1, <1>3, <2>1, <2>2, CoordinatorAssumption
    <2>4. threshold < MaxActivities
      BY <2>1, <2>3
    <2> QED
      BY <2>1, <2>4
  <1>9. notified' \subseteq Identities
    BY <1>1, <1>8 DEF CoordinatorTypeOK
  <1>10. CoordinatorTypeOK'
    BY <1>1, <1>2, <1>7, <1>9 DEF CoordinatorTypeOK
  <1> QED
    BY <1>2, <1>8, <1>10 DEF CoordinatorInv, InteractionsOneWay

LEMMA InteractionKeepsTypes ==
  ASSUME CoordinatorInv, NEW f \in Identities, NEW t \in Identities, RecordInteraction(f, t)
  PROVE  CoordinatorInv'
  <1> DEFINE i == [from |-> f, to |-> t, both |-> FALSE]
             longer == Append(interactions, i)
  <1>1. interactions \in Seq(Interaction) /\ i \in Interaction
    BY DEF CoordinatorInv, CoordinatorTypeOK, Interaction
  <1>2. longer \in Seq(Interaction) /\ interactions' \in Recent(longer)
    BY <1>1 DEF RecordInteraction
  <1>3. \A n \in DOMAIN longer : longer[n].both = FALSE
    <2>1. i.both = FALSE
      OBVIOUS
    <2>2. ASSUME NEW n \in DOMAIN longer PROVE longer[n] = i \/ (n \in DOMAIN interactions /\ longer[n] = interactions[n])
      <3> HIDE DEF i
      <3> QED
        BY <1>1
    <2> HIDE DEF i, longer
    <2> QED
      BY <2>1, <2>2 DEF CoordinatorInv, InteractionsOneWay
  <1> HIDE DEF i, longer
  <1>4. /\ interactions' \in Seq(Interaction)
        /\ \A n \in DOMAIN interactions' : \E m \in DOMAIN longer : interactions'[n] = longer[m]
    BY <1>2, SuffixesAre
  <1>5. InteractionsOneWay'
    BY <1>3, <1>4 DEF InteractionsOneWay
  <1> QED
    BY <1>4, <1>5 DEF CoordinatorInv, CoordinatorTypeOK, RecordInteraction, activityVars, bookVars

LEMMA CoordinatorInvStep == CoordinatorInv /\ [CoordinatorNext]_coordinatorVars => CoordinatorInv'
  <1> SUFFICES ASSUME CoordinatorInv, [CoordinatorNext]_coordinatorVars PROVE CoordinatorInv'
    OBVIOUS
  <1>1. CoordinatorTypeOK
    BY DEF CoordinatorInv
  <1>2. ASSUME CoordinatorTypeOK', UNCHANGED interactions, UNCHANGED notified, rules \subseteq rules'
        PROVE  CoordinatorInv'
    BY <1>2 DEF CoordinatorInv, InteractionsOneWay
  <1>3. CASE UNCHANGED coordinatorVars
    BY <1>1, <1>2, <1>3 DEF CoordinatorTypeOK, coordinatorVars, activityVars, bookVars
  <1>4. ASSUME NEW p \in Identities, RegisterParticipant(p) PROVE CoordinatorInv'
    BY <1>4, RegisterKeepsTypes
  <1>5. ASSUME NEW p \in Identities, UnregisterParticipant(p) PROVE CoordinatorInv'
    BY <1>5, UnregisterKeepsTypes
  <1>6. CASE CoordinatorStop
    <2>1. interactions' = <<>> /\ UNCHANGED <<renewed, rules, notified, following, delivering, book>>
          /\ unsettled' = unsettled \cup participants
      BY <1>6 DEF CoordinatorStop
    <2>2. CoordinatorTypeOK'
      BY <1>1, <1>6, <2>1, CoordinatorAssumption DEF CoordinatorTypeOK, CoordinatorStop
    <2>3. InteractionsOneWay'
      BY <2>1 DEF InteractionsOneWay
    <2> QED
      BY <2>1, <2>2, <2>3 DEF CoordinatorInv
  <1>7. CASE GroupsNext
    <2>1. UNCHANGED <<participants, interactions, renewed, history, quietFor, rules, notified,
                      following, delivering, book, unsettled>>
      BY <1>7 DEF GroupsNext, CreateGroup, AddParticipantToGroup, RemoveParticipantFromGroup, activityVars, bookVars
    <2>2. /\ listed' \in [Identities -> SUBSET GroupIds] /\ groups' \subseteq GroupIds
          /\ members' \in [GroupIds -> SUBSET Identities] /\ limit' \in [GroupIds -> GroupLimits \cup {0}]
      <3>1. /\ listed \in [Identities -> SUBSET GroupIds] /\ groups \subseteq GroupIds
            /\ members \in [GroupIds -> SUBSET Identities] /\ limit \in [GroupIds -> GroupLimits \cup {0}]
        BY <1>1 DEF CoordinatorTypeOK
      <3>2. ASSUME NEW g \in GroupIds, NEW max \in GroupLimits \cup {0}, CreateGroup(g, max)
            PROVE  /\ listed' \in [Identities -> SUBSET GroupIds] /\ groups' \subseteq GroupIds
                   /\ members' \in [GroupIds -> SUBSET Identities] /\ limit' \in [GroupIds -> GroupLimits \cup {0}]
        BY <3>1, <3>2 DEF CreateGroup
      <3>3. ASSUME NEW p \in Identities, NEW g \in GroupIds,
                   AddParticipantToGroup(p, g) \/ RemoveParticipantFromGroup(p, g)
            PROVE  /\ listed' \in [Identities -> SUBSET GroupIds] /\ groups' \subseteq GroupIds
                   /\ members' \in [GroupIds -> SUBSET Identities] /\ limit' \in [GroupIds -> GroupLimits \cup {0}]
        BY <3>1, <3>3 DEF AddParticipantToGroup, RemoveParticipantFromGroup
      <3> QED
        BY <1>7, <3>2, <3>3 DEF GroupsNext
    <2> QED
      BY <1>1, <1>2, <2>1, <2>2 DEF CoordinatorTypeOK
  <1>8. ASSUME NEW p \in Identities, NEW type \in ActivityTypes, UpdateParticipantActivity(p, type)
        PROVE  CoordinatorInv'
    BY <1>8, ActivityKeepsTypes
  <1>9. ASSUME NEW p \in Identities, FallsQuiet(p) PROVE CoordinatorInv'
    BY <1>1, <1>2, <1>9 DEF FallsQuiet, CoordinatorTypeOK, bookVars
  <1>10. ASSUME NEW threshold \in RuleThresholds, AddCoordinationRule(threshold) PROVE CoordinatorInv'
    BY <1>1, <1>2, <1>10 DEF AddCoordinationRule, CoordinatorTypeOK, bookVars
  <1>11. CASE RegisterBookHandlers
    BY <1>1, <1>2, <1>11 DEF RegisterBookHandlers, CoordinatorTypeOK, activityVars
  <1>12. ASSUME NEW e \in CoordinationEvent, HandlerRuns(e) PROVE CoordinatorInv'
    <2>1. delivering[e] > 0 /\ delivering \in [CoordinationEvent -> 0..MaxDelivering] /\ MaxDelivering \in Nat
      BY <1>1, <1>12, CoordinatorAssumption DEF HandlerRuns, CoordinatorTypeOK
    <2>2. delivering[e] - 1 \in 0..MaxDelivering
      BY <2>1
    <2>3. delivering' \in [CoordinationEvent -> 0..MaxDelivering]
      BY <1>12, <2>1, <2>2 DEF HandlerRuns
    <2>4. e[2] \in Identities
      BY DEF CoordinationEvent
    <2>5. book' \subseteq Identities
      BY <1>1, <1>12, <2>4 DEF HandlerRuns, CoordinatorTypeOK
    <2> QED
      BY <1>1, <1>2, <1>12, <2>3, <2>5 DEF HandlerRuns, CoordinatorTypeOK, activityVars
  <1>13. ASSUME NEW f \in Identities, NEW t \in Identities, RecordInteraction(f, t) PROVE CoordinatorInv'
    BY <1>13, InteractionKeepsTypes
  <1> QED
    BY <1>3, <1>4, <1>5, <1>6, <1>7, <1>8, <1>9, <1>10, <1>11, <1>12, <1>13
       DEF CoordinatorNext, ParticipantsNext, ActivityNext, BookNext

\* The interactions from p fall into those to each participant, and those to p from others
\* into those from each other.
LEMMA GraphCounts == CoordinatorInv => GraphCountsOnce
  <1> SUFFICES ASSUME CoordinatorInv, NEW p \in Identities
               PROVE  FoldFunction(+, 0, InteractionGraph[p])
                        + FoldFunction(+, 0, [f \in Identities \ {p} |-> InteractionGraph[f][p]])
                      = Cardinality(InteractionsOf(p))
    BY DEF GraphCountsOnce
  <1> DEFINE D == DOMAIN interactions
             between(f, t) == {n \in D : interactions[n].from = f /\ interactions[n].to = t}
             sent == {n \in D : interactions[n].from = p}
             received == {n \in D : interactions[n].to = p /\ interactions[n].from # p}
             others == Identities \ {p}
             froms == [n \in D |-> interactions[n].from]
             tos == [n \in D |-> interactions[n].to]
  <1>1. interactions \in Seq(Interaction) /\ IsFiniteSet(D)
    <2>1. interactions \in Seq(Interaction)
      BY DEF CoordinatorInv, CoordinatorTypeOK
    <2>2. DOMAIN interactions = 1..Len(interactions) /\ Len(interactions) \in Nat
      BY <2>1
    <2> QED
      BY <2>1, <2>2, FS_Interval
  <1>2. \A n \in D : interactions[n].from \in Identities /\ interactions[n].to \in Identities
    <2> SUFFICES ASSUME NEW n \in D
                 PROVE  interactions[n].from \in Identities /\ interactions[n].to \in Identities
      OBVIOUS
    <2>1. interactions[n] \in Interaction
      BY <1>1
    <2> QED
      BY <2>1 DEF Interaction
  <1>3. \A f, t \in Identities : InteractionGraph[f][t] = Cardinality(between(f, t))
    <2> SUFFICES ASSUME NEW f \in Identities, NEW t \in Identities
                 PROVE  InteractionGraph[f][t] = Cardinality(between(f, t))
      OBVIOUS
    <2> DEFINE both == {n \in D : interactions[n].both /\ interactions[n].to = f /\ interactions[n].from = t}
    <2>1. InteractionGraph[f][t] = Cardinality(between(f, t)) + Cardinality(both)
      BY DEF InteractionGraph, Count
    <2>2. both = {}
      BY DEF CoordinatorInv, InteractionsOneWay
    <2>3. Cardinality(both) = 0
      BY <2>2, FS_EmptySet
    <2>4. Cardinality(between(f, t)) \in Nat
      BY <1>1, FS_Subset, FS_CardinalityType
    <2> HIDE DEF both, between
    <2> QED
      BY <2>1, <2>3, <2>4
  <1>4. FoldFunction(+, 0, InteractionGraph[p]) = Cardinality(sent)
    <2>1. InteractionGraph[p] = [t \in Identities |-> Cardinality({n \in sent : tos[n] = t})]
      <3>1. \A t \in Identities : between(p, t) = {n \in sent : tos[n] = t}
        OBVIOUS
      <3>2. InteractionGraph[p] = [t \in Identities |-> InteractionGraph[p][t]]
        BY DEF InteractionGraph
      <3> HIDE DEF between, sent, tos
      <3> QED
        BY <1>3, <3>1, <3>2
    <2>2. IsFiniteSet(sent)
      BY <1>1, FS_Subset
    <2>3. {n \in sent : tos[n] \in Identities} = sent
      BY <1>2
    <2> HIDE DEF sent, tos
    <2>4. TotalOf([t \in Identities |-> Cardinality({n \in sent : tos[n] = t})])
          = Cardinality({n \in sent : tos[n] \in Identities})
      BY <2>2, CoordinatorAssumption, TotalOfClasses
    <2> QED
      BY <2>1, <2>3, <2>4 DEF TotalOf
  <1>5. FoldFunction(+, 0, [f \in Identities \ {p} |-> InteractionGraph[f][p]]) = Cardinality(received)
    <2>1. [f \in Identities \ {p} |-> InteractionGraph[f][p]]
          = [f \in others |-> Cardinality({n \in received : froms[n] = f})]
      <3>1. \A f \in others : between(f, p) = {n \in received : froms[n] = f}
        OBVIOUS
      <3> HIDE DEF between, received, froms
      <3> QED
        BY <1>3, <3>1
    <2>2. IsFiniteSet(received) /\ IsFiniteSet(others)
      BY <1>1, CoordinatorAssumption, FS_Subset
    <2>3. {n \in received : froms[n] \in others} = received
      BY <1>2
    <2> HIDE DEF received, froms, others
    <2>4. TotalOf([f \in others |-> Cardinality({n \in received : froms[n] = f})])
          = Cardinality({n \in received : froms[n] \in others})
      BY <2>2, TotalOfClasses
    <2> QED
      BY <2>1, <2>3, <2>4 DEF TotalOf
  <1>6. InteractionsOf(p) = sent \cup received /\ sent \cap received = {}
    BY DEF InteractionsOf
  <1>7. IsFiniteSet(sent) /\ IsFiniteSet(received)
    BY <1>1, FS_Subset
  <1> HIDE DEF sent, received
  <1>8. Cardinality(sent \cup received) = Cardinality(sent) + Cardinality(received)
    <2>1. Cardinality(sent) \in Nat /\ Cardinality(received) \in Nat /\ Cardinality(sent \cap received) = 0
      BY <1>6, <1>7, FS_CardinalityType, FS_EmptySet
    <2>2. Cardinality(sent \cup received)
          = Cardinality(sent) + Cardinality(received) - Cardinality(sent \cap received)
      BY <1>7, FS_Union
    <2> QED
      BY <2>1, <2>2
  <1> QED
    BY <1>4, <1>5, <1>6, <1>8

\* The activities of a participant fall into those of each type.
LEMMA MetricsAgree == CoordinatorInv => BusyAreNotified
  <1> SUFFICES ASSUME CoordinatorInv PROVE BusyAreNotified
    OBVIOUS
  <1> DEFINE F == [p \in participants |-> [type \in ActivityTypes |->
                     Cardinality({n \in DOMAIN history[p] : history[p][n] = type})]]
  <1>1. /\ history \in [Identities -> Seq(ActivityTypes)] /\ participants \subseteq Identities
        /\ rules \subseteq Nat /\ MaxActivities \in Nat
    BY CoordinatorAssumption DEF CoordinatorInv, CoordinatorTypeOK
  <1>2. IsFiniteSet(participants) /\ IsFiniteSet(ActivityTypes)
    BY <1>1, CoordinatorAssumption, FS_Subset
  <1>3. \A p \in participants : history[p] \in Seq(ActivityTypes) /\ IsFiniteSet(DOMAIN history[p])
    <2> SUFFICES ASSUME NEW p \in participants
                 PROVE  history[p] \in Seq(ActivityTypes) /\ IsFiniteSet(DOMAIN history[p])
      OBVIOUS
    <2>1. history[p] \in Seq(ActivityTypes)
      BY <1>1
    <2>2. DOMAIN history[p] = 1..Len(history[p]) /\ Len(history[p]) \in Nat
      BY <2>1
    <2> QED
      BY <2>1, <2>2, FS_Interval
  <1>4. \A p \in participants : TotalOf(F[p]) = Len(history[p])
    <2> SUFFICES ASSUME NEW p \in participants PROVE TotalOf(F[p]) = Len(history[p])
      OBVIOUS
    <2>1. PICK h : h = history[p]
      OBVIOUS
    <2>2. h \in Seq(ActivityTypes) /\ IsFiniteSet(DOMAIN h)
      BY <1>3, <2>1
    <2>3. F[p] = [type \in ActivityTypes |-> Cardinality({n \in DOMAIN h : h[n] = type})]
      BY <2>1
    <2>4. TotalOf([type \in ActivityTypes |-> Cardinality({n \in DOMAIN h : h[n] = type})])
          = Cardinality({n \in DOMAIN h : h[n] \in ActivityTypes})
      BY <1>2, <2>2, TotalOfClasses
    <2>5. {n \in DOMAIN h : h[n] \in ActivityTypes} = 1..Len(h) /\ Len(h) \in Nat
      BY <2>2
    <2>6. Cardinality(1..Len(h)) = Len(h)
      <3>1. Cardinality(1..Len(h)) = IF 1 > Len(h) THEN 0 ELSE Len(h) - 1 + 1
        BY <2>5, FS_Interval
      <3> QED
        BY <2>5, <3>1
    <2> HIDE DEF F
    <2> QED
      BY <2>1, <2>3, <2>4, <2>5, <2>6
  <1>5. F \in [participants -> [ActivityTypes -> Int]]
    <2>1. \A p \in participants, type \in ActivityTypes :
            Cardinality({n \in DOMAIN history[p] : history[p][n] = type}) \in Int
      <3> SUFFICES ASSUME NEW p \in participants, NEW type \in ActivityTypes
                   PROVE  Cardinality({n \in DOMAIN history[p] : history[p][n] = type}) \in Int
        OBVIOUS
      <3>1. Cardinality({n \in DOMAIN history[p] : history[p][n] = type}) \in Nat
        BY <1>3, FS_Subset, FS_CardinalityType
      <3> QED
        BY <3>1
    <2> QED
      BY <2>1
  <1>6. [p \in participants |-> TotalOf(F[p])] = [p \in participants |-> Len(history[p])]
    BY <1>4
  <1>7. ActivityMetrics.byType = [type \in ActivityTypes |-> TotalOf([p \in participants |-> F[p][type]])]
    <2>1. \A type \in ActivityTypes :
            [p \in participants |-> Count(history[p], LAMBDA a : a = type)] = [p \in participants |-> F[p][type]]
      BY DEF Count
    <2>2. ActivityMetrics.byType = [type \in ActivityTypes |-> FoldFunction(+, 0,
            [p \in participants |-> Count(history[p], LAMBDA a : a = type)])]
      BY DEF ActivityMetrics
    <2>3. \A type \in ActivityTypes :
            FoldFunction(+, 0, [p \in participants |-> Count(history[p], LAMBDA a : a = type)])
            = TotalOf([p \in participants |-> F[p][type]])
      BY <2>1 DEF TotalOf
    <2> HIDE DEF F
    <2> QED
      BY <2>2, <2>3
  <1>8. ActivityMetrics.total = TotalOf([p \in participants |-> Len(history[p])])
    BY DEF ActivityMetrics, TotalOf
  <1> HIDE DEF F
  <1>9. TotalOf([p \in participants |-> TotalOf(F[p])])
        = TotalOf([type \in ActivityTypes |-> TotalOf([p \in participants |-> F[p][type]])])
    BY <1>2, <1>5, TotalByRowsOrColumns
  <1>10. ActivityMetrics.total = FoldFunction(+, 0, ActivityMetrics.byType)
    BY <1>6, <1>7, <1>8, <1>9 DEF TotalOf
  <1>11. (\A threshold \in rules : threshold >= MaxActivities) => notified = {}
    <2> SUFFICES ASSUME \A threshold \in rules : threshold >= MaxActivities, notified # {}
                 PROVE  FALSE
      OBVIOUS
    <2>1. PICK threshold \in rules : threshold < MaxActivities
      BY DEF CoordinatorInv
    <2> QED
      BY <1>1, <2>1
  <1> QED
    BY <1>10, <1>11 DEF BusyAreNotified

(* For any participants, types of activities, rules and bounds: the types  *)
(* hold, the graph counts every interaction once in each direction it had, *)
(* the metrics agree with each other, and no rule that waits for more than *)
(* the history holds has anybody notified.                                 *)
THEOREM CoordinatorCounts ==
  CoordinatorSpec => [](CoordinatorTypeOK /\ GraphCountsOnce /\ BusyAreNotified)
  <1>1. CoordinatorInv => CoordinatorTypeOK
    BY DEF CoordinatorInv
  <1> QED
    BY <1>1, CoordinatorInitInv, CoordinatorInvStep, GraphCounts, MetricsAgree, PTL DEF CoordinatorSpec


-------------------------------------------------------------------------------
(* Proof that a participant never gets too much through in any minute.        *)

\* The loop of the filter over times in their order keeps those at the end.
LEMMA LastMinuteIsTheEnd ==
  ASSUME NEW times \in Seq(Nat), throttleTime \in Nat,
         \A m, n \in 1..Len(times) : m <= n => times[m] <= times[n]
  PROVE  \E k \in 0..Len(times) :
            /\ \A n \in 1..Len(times) : times[n] > throttleTime - Minute <=> n > k
            /\ LastMinute(times) = SubSeq(times, k + 1, Len(times))
  <1> DEFINE I == {n \in 1..Len(times) : times[n] > throttleTime - Minute}
             Loop(f) == [n \in 0..Len(times) |->
                IF n = 0 THEN <<>>
                ELSE IF times[n] > throttleTime - Minute THEN Append(f[n - 1], times[n]) ELSE f[n - 1]]
             kept == CHOOSE f : f = Loop(f)
  <1>1. Len(times) \in Nat /\ Minute \in Nat /\ \A n \in 1..Len(times) : times[n] \in Nat
    BY HandlersAssumption
  <1>2. LastMinute(times) = kept[Len(times)]
    BY DEF LastMinute
  <1>3. \A f : KeepingLoop(f, times, I) <=> f = Loop(f)
    <2> SUFFICES ASSUME NEW f PROVE KeepingLoop(f, times, I) <=> f = Loop(f)
      OBVIOUS
    <2>1. \A n \in 0..Len(times) : n # 0 => (n \in I <=> times[n] > throttleTime - Minute)
      BY <1>1
    <2> HIDE DEF I
    <2>2. [n \in 0..Len(times) |-> IF n = 0 THEN <<>>
                           ELSE IF n \in I THEN Append(f[n - 1], times[n]) ELSE f[n - 1]] = Loop(f)
      BY <2>1
    <2> QED
      BY <2>2 DEF KeepingLoop
  <1> HIDE DEF Loop
  <1>4. KeepingLoop(kept, times, I)
    <2> HIDE DEF I
    <2>1. PICK f : f = Loop(f)
      BY <1>3, KeepingLoopExists
    <2>2. kept = Loop(kept)
      BY <2>1
    <2> QED
      BY <1>3, <2>2
  <1> HIDE DEF kept
  <1>5. ASSUME NEW m \in 1..Len(times), NEW n \in 1..Len(times), m <= n, m \in I
        PROVE  n \in I
    <2>1. times[m] <= times[n] /\ times[m] \in Nat /\ times[n] \in Nat
      BY <1>1, <1>5
    <2> QED
      BY <1>1, <1>5, <2>1
  <1>6. PICK k \in 0..Len(times) :
            /\ \A n \in 1..Len(times) : n \in I <=> n > k
            /\ kept[Len(times)] = SubSeq(times, k + 1, Len(times))
    <2> HIDE DEF I
    <2> QED
      BY <1>4, <1>5, KeepsTheEnd
  <1> QED
    BY <1>2, <1>6

\* What is throttled by is the end of what got through; the rest is older than a minute.
ThrottleKept(p, t, now) ==
    /\ \A m \in 1..Len(p) : p[m] <= now
    /\ \A m, n \in 1..Len(p) : m <= n => p[m] <= p[n]
    /\ \A m, n \in 1..Len(p) : n = m + MaxPerMinute => p[n] - p[m] >= Minute
    /\ \E d \in 0..Len(p) : /\ t = SubSeq(p, d + 1, Len(p))
                            /\ \A n \in 1..d : p[n] <= now - Minute

ThrottleInv ==
    /\ throttleTime \in Nat
    /\ passed \in [ThrottledPeople -> Seq(Nat)]
    /\ throttled \in [ThrottledPeople -> Seq(Nat)]
    /\ \A i \in ThrottledPeople : ThrottleKept(passed[i], throttled[i], throttleTime)

\* The filter's loop comes to the same over all that got through.
LEMMA FilteredEnd ==
  ASSUME ThrottleInv, NEW i \in ThrottledPeople
  PROVE  /\ LastMinute(passed[i]) = LastMinute(throttled[i])
         /\ \E k \in 0..Len(passed[i]) :
              /\ LastMinute(throttled[i]) = SubSeq(passed[i], k + 1, Len(passed[i]))
              /\ \A n \in 1..Len(passed[i]) : passed[i][n] > throttleTime - Minute <=> n > k
  <1> DEFINE p == passed[i]
             t == throttled[i]
  <1>1. /\ throttleTime \in Nat /\ p \in Seq(Nat) /\ t \in Seq(Nat) /\ Minute \in Nat
        /\ \A m, n \in 1..Len(p) : m <= n => p[m] <= p[n]
    BY HandlersAssumption DEF ThrottleInv, ThrottleKept
  <1>2. PICK d \in 0..Len(p) : t = SubSeq(p, d + 1, Len(p)) /\ \A n \in 1..d : p[n] <= throttleTime - Minute
    BY DEF ThrottleInv, ThrottleKept
  <1> HIDE DEF p, t
  <1>3. Len(p) \in Nat /\ \A n \in 1..Len(p) : p[n] \in Nat
    BY <1>1
  <1>4. Len(t) = Len(p) - d /\ \A n \in 1..Len(t) : t[n] = p[d + n] /\ d + n \in 1..Len(p)
    BY <1>1, <1>2, <1>3, EndOfSequence
  <1>5. ASSUME NEW m \in 1..Len(t), NEW n \in 1..Len(t), m <= n
        PROVE  t[m] <= t[n]
    <2>1. d + m \in 1..Len(p) /\ d + n \in 1..Len(p) /\ d + m <= d + n
      BY <1>2, <1>3, <1>4, <1>5
    <2>2. p[d + m] <= p[d + n]
      BY <1>1, <2>1
    <2> QED
      BY <1>4, <2>2
  <1>6. PICK k \in 0..Len(p) : /\ \A n \in 1..Len(p) : p[n] > throttleTime - Minute <=> n > k
                               /\ LastMinute(p) = SubSeq(p, k + 1, Len(p))
    BY <1>1, LastMinuteIsTheEnd
  <1>7. PICK j \in 0..Len(t) : /\ \A n \in 1..Len(t) : t[n] > throttleTime - Minute <=> n > j
                               /\ LastMinute(t) = SubSeq(t, j + 1, Len(t))
    BY <1>1, <1>5, LastMinuteIsTheEnd
  <1>8. d + j = k
    <2>1. d <= k
      <3>1. SUFFICES ASSUME k < d PROVE FALSE
        BY <1>2, <1>3, <1>6
      <3>2. d \in 1..d /\ d \in 1..Len(p) /\ d > k
        BY <1>2, <1>3, <1>6, <3>1
      <3>3. p[d] > throttleTime - Minute /\ p[d] <= throttleTime - Minute /\ p[d] \in Nat
        BY <1>2, <1>3, <1>6, <3>2
      <3> QED
        BY <1>1, <3>3
    <2>2. ASSUME d + j < k PROVE FALSE
      <3>1. j + 1 \in 1..Len(t) /\ d + (j + 1) \in 1..Len(p) /\ ~(d + (j + 1) > k)
        BY <1>2, <1>3, <1>4, <1>6, <1>7, <2>2
      <3>2. t[j + 1] > throttleTime - Minute
        BY <1>7, <3>1
      <3>3. ~(p[d + (j + 1)] > throttleTime - Minute) /\ t[j + 1] = p[d + (j + 1)]
        BY <1>4, <1>6, <3>1
      <3> QED
        BY <3>2, <3>3
    <2>3. ASSUME k < d + j PROVE FALSE
      <3>1. j \in 1..Len(t) /\ d + j \in 1..Len(p) /\ d + j > k /\ ~(j > j)
        BY <1>2, <1>3, <1>4, <1>6, <1>7, <2>1, <2>3
      <3>2. ~(t[j] > throttleTime - Minute)
        BY <1>7, <3>1
      <3>3. p[d + j] > throttleTime - Minute /\ t[j] = p[d + j]
        BY <1>4, <1>6, <3>1
      <3> QED
        BY <3>2, <3>3
    <2> QED
      BY <1>2, <1>3, <1>6, <1>7, <2>2, <2>3
  <1>9. SubSeq(t, j + 1, Len(t)) = SubSeq(p, k + 1, Len(p))
    <2>1. PICK a, b : a = SubSeq(t, j + 1, Len(t)) /\ b = SubSeq(p, k + 1, Len(p))
      OBVIOUS
    <2>2. /\ a \in Seq(Nat) /\ Len(a) = Len(p) - k /\ \A n \in 1..Len(a) : a[n] = t[j + n]
          /\ b \in Seq(Nat) /\ Len(b) = Len(p) - k /\ \A n \in 1..Len(b) : b[n] = p[k + n]
      <3>1. Len(t) - j = Len(p) - k
        <4>1. d \in Int /\ j \in Int /\ k \in Int /\ Len(p) \in Int /\ Len(t) = Len(p) - d
          BY <1>1, <1>2, <1>3, <1>4, <1>6, <1>7
        <4> QED
          BY <1>8, <4>1
      <3>2. a \in Seq(Nat) /\ Len(a) = Len(t) - j /\ \A n \in 1..Len(t) - j : a[n] = t[j + n]
        BY <1>1, <1>7, <2>1, EndOfSequence
      <3>3. b \in Seq(Nat) /\ Len(b) = Len(p) - k /\ \A n \in 1..Len(p) - k : b[n] = p[k + n]
        BY <1>1, <1>6, <2>1, EndOfSequence
      <3> QED
        BY <3>1, <3>2, <3>3
    <2>3. \A n \in 1..Len(p) - k : j + n \in 1..Len(t) /\ d + (j + n) = k + n
      BY <1>2, <1>3, <1>4, <1>6, <1>7, <1>8
    <2>4. \A n \in 1..Len(p) - k : a[n] = b[n]
      BY <1>4, <2>2, <2>3
    <2>5. a = b
      <3>1. a \in Seq(Nat) /\ b \in Seq(Nat) /\ Len(a) = Len(b) /\ \A n \in 1..Len(a) : a[n] = b[n]
        BY <2>2, <2>4
      <3> QED
        BY <3>1, SameSequences
    <2> QED
      BY <2>1, <2>5
  <1> QED
    BY <1>6, <1>7, <1>9 DEF p, t

LEMMA ThrottleInvInit == ThrottleInit => ThrottleInv
  <1> SUFFICES ASSUME ThrottleInit PROVE ThrottleInv
    OBVIOUS
  <1>1. /\ throttleTime = 0 /\ passed \in [ThrottledPeople -> Seq(Nat)]
        /\ throttled \in [ThrottledPeople -> Seq(Nat)]
        /\ \A i \in ThrottledPeople : passed[i] = <<>> /\ throttled[i] = <<>>
    BY DEF ThrottleInit
  <1>2. ThrottleKept(<<>>, <<>>, 0)
    <2>1. Len(<<>>) = 0 /\ <<>> = SubSeq(<<>>, 0 + 1, 0)
      OBVIOUS
    <2>2. 0 \in 0..0 /\ \A n \in 1..0 : <<>>[n] <= 0 - Minute
      OBVIOUS
    <2> QED
      BY <2>1, <2>2 DEF ThrottleKept
  <1> QED
    BY <1>1, <1>2 DEF ThrottleInv

LEMMA TickKeepsThrottle == ThrottleInv /\ ThrottleTicks => ThrottleInv'
  <1> SUFFICES ASSUME ThrottleInv, ThrottleTicks PROVE ThrottleInv'
    OBVIOUS
  <1>1. /\ throttleTime' = throttleTime + 1 /\ throttleTime \in Nat
        /\ throttled' = throttled /\ passed' = passed /\ Minute \in Nat
        /\ passed \in [ThrottledPeople -> Seq(Nat)] /\ throttled \in [ThrottledPeople -> Seq(Nat)]
    BY HandlersAssumption DEF ThrottleTicks, ThrottleInv
  <1>2. ASSUME NEW i \in ThrottledPeople
        PROVE  ThrottleKept(passed[i], throttled[i], throttleTime + 1)
    <2>1. PICK p : p = passed[i]
      OBVIOUS
    <2>2. ThrottleKept(p, throttled[i], throttleTime)
      BY <2>1 DEF ThrottleInv
    <2>3. p \in Seq(Nat) /\ \A m \in 1..Len(p) : p[m] \in Nat /\ p[m] <= throttleTime
      <3>1. p \in Seq(Nat)
        BY <1>1, <2>1
      <3> QED
        BY <2>2, <3>1 DEF ThrottleKept
    <2>4. PICK d \in 0..Len(p) : /\ throttled[i] = SubSeq(p, d + 1, Len(p))
                                 /\ \A n \in 1..d : p[n] <= throttleTime - Minute
      BY <2>2 DEF ThrottleKept
    <2>5. \A n \in 1..d : n \in 1..Len(p)
      BY <2>3
    <2>6. \A m \in 1..Len(p) : p[m] <= throttleTime + 1
      BY <1>1, <2>3
    <2>7. \A n \in 1..d : p[n] <= (throttleTime + 1) - Minute
      BY <1>1, <2>3, <2>4, <2>5
    <2>8. /\ \A m, n \in 1..Len(p) : m <= n => p[m] <= p[n]
          /\ \A m, n \in 1..Len(p) : n = m + MaxPerMinute => p[n] - p[m] >= Minute
      BY <2>2 DEF ThrottleKept
    <2>9. ThrottleKept(p, throttled[i], throttleTime + 1)
      BY <2>4, <2>6, <2>7, <2>8 DEF ThrottleKept
    <2> QED
      BY <2>1, <2>9
  <1> QED
    BY <1>1, <1>2 DEF ThrottleInv

LEMMA FilterKeepsThrottle ==
  ASSUME ThrottleInv, NEW i \in ThrottledPeople, Filter(i)
  PROVE  ThrottleInv'
  <1> DEFINE Kept(p, t) == ThrottleKept(p, t, throttleTime)
  <1>1. PICK p, times : p = passed[i] /\ times = LastMinute(throttled[i])
    OBVIOUS
  <1>2. /\ throttleTime \in Nat /\ throttleTime' = throttleTime /\ Minute \in Nat /\ MaxPerMinute \in Nat \ {0}
        /\ passed \in [ThrottledPeople -> Seq(Nat)] /\ throttled \in [ThrottledPeople -> Seq(Nat)]
    BY HandlersAssumption DEF ThrottleInv, Filter
  <1>3. p \in Seq(Nat) /\ Len(p) \in Nat /\ (\A n \in 1..Len(p) : p[n] \in Nat) /\ Kept(p, throttled[i])
    <2>1. p \in Seq(Nat)
      BY <1>1, <1>2
    <2> QED
      BY <1>1, <2>1 DEF ThrottleInv
  <1>4. PICK k \in 0..Len(p) : /\ times = SubSeq(p, k + 1, Len(p))
                               /\ \A n \in 1..Len(p) : p[n] > throttleTime - Minute <=> n > k
    BY <1>1, FilteredEnd
  <1>5. times \in Seq(Nat) /\ Len(times) = Len(p) - k
    BY <1>3, <1>4, EndOfSequence
  <1>6. ASSUME NEW n \in 1..k PROVE p[n] <= throttleTime - Minute
    <2>1. n \in 1..Len(p) /\ ~(n > k)
      BY <1>3, <1>4
    <2>2. p[n] \in Nat /\ ~(p[n] > throttleTime - Minute)
      BY <1>3, <1>4, <2>1
    <2> QED
      BY <1>2, <2>2
  <1>7. Kept(p, times)
    BY <1>3, <1>4, <1>6 DEF ThrottleKept
  <1>12. /\ \A m \in 1..Len(p) : p[m] <= throttleTime
         /\ \A m, n \in 1..Len(p) : m <= n => p[m] <= p[n]
         /\ \A m, n \in 1..Len(p) : n = m + MaxPerMinute => p[n] - p[m] >= Minute
    BY <1>3 DEF ThrottleKept
  <1> HIDE DEF Kept
  <1>8. ASSUME Len(times) < MaxPerMinute
        PROVE  Append(p, throttleTime) \in Seq(Nat) /\ Kept(Append(p, throttleTime), Append(times, throttleTime))
    <2> DEFINE q == Append(p, throttleTime)
               u == Append(times, throttleTime)
    <2>1. /\ q \in Seq(Nat) /\ Len(q) = Len(p) + 1 /\ q[Len(p) + 1] = throttleTime
          /\ \A n \in 1..Len(p) : q[n] = p[n]
      BY <1>2, <1>3
    <2>2. u = SubSeq(q, k + 1, Len(q))
      <3>1. PICK v : v = SubSeq(q, k + 1, Len(q))
        OBVIOUS
      <3>2. k \in 0..Len(q)
        BY <1>3, <2>1
      <3> HIDE DEF q
      <3>3. v \in Seq(Nat) /\ Len(v) = Len(q) - k /\ \A n \in 1..Len(q) - k : v[n] = q[k + n]
        BY <2>1, <3>1, <3>2, EndOfSequence
      <3>4. \A n \in 1..Len(p) - k : times[n] = p[k + n] /\ k + n \in 1..Len(p)
        BY <1>3, <1>4, EndOfSequence
      <3>5. /\ u \in Seq(Nat) /\ Len(u) = Len(p) - k + 1 /\ u[Len(p) - k + 1] = throttleTime
            /\ \A n \in 1..Len(p) - k : u[n] = times[n]
        BY <1>2, <1>3, <1>5
      <3> HIDE DEF u
      <3>6. \A n \in 1..Len(p) - k + 1 : u[n] = v[n]
        <4> SUFFICES ASSUME NEW n \in 1..Len(p) - k + 1 PROVE u[n] = v[n]
          OBVIOUS
        <4>1. v[n] = q[k + n]
          BY <1>3, <2>1, <3>3
        <4>2. CASE n \in 1..Len(p) - k
          BY <2>1, <3>4, <3>5, <4>1, <4>2
        <4>3. CASE n = Len(p) - k + 1
          BY <1>3, <2>1, <3>5, <4>1, <4>3
        <4> QED
          BY <1>3, <4>2, <4>3
      <3>7. u = v
        <4>1. Len(u) = Len(v) /\ Len(u) = Len(p) - k + 1
          BY <1>3, <2>1, <3>3, <3>5
        <4>2. \A n \in 1..Len(u) : u[n] = v[n]
          BY <3>6, <4>1
        <4>3. u \in Seq(Nat) /\ v \in Seq(Nat)
          BY <3>3, <3>5
        <4> QED
          BY <4>1, <4>2, <4>3, SameSequences
      <3> QED
        BY <3>1, <3>7
    <2>3. \A m \in 1..Len(q) : q[m] <= throttleTime /\ q[m] \in Nat
      <3> SUFFICES ASSUME NEW m \in 1..Len(q) PROVE q[m] <= throttleTime /\ q[m] \in Nat
        OBVIOUS
      <3> HIDE DEF q
      <3>1. CASE m \in 1..Len(p)
        BY <1>3, <1>12, <2>1, <3>1
      <3>2. CASE m = Len(p) + 1
        BY <1>2, <2>1, <3>2
      <3> QED
        BY <1>3, <2>1, <3>1, <3>2
    <2>4. ASSUME NEW m \in 1..Len(q), NEW n \in 1..Len(q), m <= n
          PROVE  q[m] <= q[n]
      <3> HIDE DEF q
      <3>1. CASE n = Len(p) + 1
        BY <2>1, <2>3, <3>1
      <3>2. CASE n # Len(p) + 1
        <4>1. n \in 1..Len(p) /\ m \in 1..Len(p)
          BY <1>3, <2>1, <2>4, <3>2
        <4> QED
          BY <1>12, <2>1, <2>4, <4>1
      <3> QED
        BY <3>1, <3>2
    <2>5. ASSUME NEW m \in 1..Len(q), NEW n \in 1..Len(q), n = m + MaxPerMinute
          PROVE  q[n] - q[m] >= Minute
      <3> HIDE DEF q
      <3>1. CASE n = Len(p) + 1
        <4>1. m \in 1..Len(p) /\ ~(m > k)
          <5>1. /\ m \in Nat /\ m >= 1 /\ k \in Int /\ MaxPerMinute \in Nat /\ MaxPerMinute >= 1
                /\ m + MaxPerMinute = Len(p) + 1 /\ Len(p) - k < MaxPerMinute
            <6>1. Len(p) - k < MaxPerMinute
              BY <1>5, <1>8
            <6>2. m + MaxPerMinute = Len(p) + 1
              BY <2>5, <3>1
            <6>3. m \in Nat /\ m >= 1
              BY <2>1
            <6> QED
              BY <1>2, <1>4, <6>1, <6>2, <6>3
          <5> QED
            BY <1>3, <5>1
        <4>2. q[m] = p[m] /\ p[m] \in Nat /\ ~(p[m] > throttleTime - Minute)
          BY <1>3, <1>4, <2>1, <4>1
        <4> QED
          BY <1>2, <2>1, <3>1, <4>2
      <3>2. CASE n # Len(p) + 1
        <4>1. n \in 1..Len(p) /\ m \in 1..Len(p)
          <5>1. m \in Nat /\ m >= 1 /\ MaxPerMinute \in Nat /\ n = m + MaxPerMinute /\ n \in Nat /\ n <= Len(p) + 1
            BY <1>2, <2>1, <2>5
          <5> QED
            BY <1>3, <3>2, <5>1
        <4>2. p[n] - p[m] >= Minute
          BY <1>12, <2>5, <4>1
        <4> QED
          BY <2>1, <4>1, <4>2
      <3> QED
        BY <3>1, <3>2
    <2>6. k \in 0..Len(q) /\ \A n \in 1..k : q[n] <= throttleTime - Minute
      <3> HIDE DEF q
      <3>1. \A n \in 1..k : n \in 1..Len(p)
        BY <1>3
      <3> QED
        BY <1>3, <1>6, <2>1, <3>1
    <2> HIDE DEF q, u
    <2>7. Kept(q, u)
      BY <2>2, <2>3, <2>4, <2>5, <2>6 DEF Kept, ThrottleKept
    <2> QED
      BY <2>1, <2>7 DEF q, u
  <1>9. PICK q, u : /\ q \in Seq(Nat) /\ u \in Seq(Nat) /\ Kept(q, u)
                    /\ passed' = [passed EXCEPT ![i] = q] /\ throttled' = [throttled EXCEPT ![i] = u]
    <2>1. CASE Len(times) >= MaxPerMinute
      <3>1. throttled' = [throttled EXCEPT ![i] = times] /\ passed' = [passed EXCEPT ![i] = p]
        BY <1>1, <1>2, <2>1 DEF Filter
      <3> QED
        BY <1>3, <1>5, <1>7, <3>1
    <2>2. CASE ~(Len(times) >= MaxPerMinute)
      <3>1. /\ throttled' = [throttled EXCEPT ![i] = Append(times, throttleTime)]
            /\ passed' = [passed EXCEPT ![i] = Append(p, throttleTime)]
        BY <1>1, <2>2 DEF Filter
      <3>2. Len(times) < MaxPerMinute /\ Append(times, throttleTime) \in Seq(Nat)
        BY <1>2, <1>3, <1>5, <2>2
      <3> QED
        BY <1>8, <3>1, <3>2
    <2> QED
      BY <2>1, <2>2
  <1>10. passed' \in [ThrottledPeople -> Seq(Nat)] /\ throttled' \in [ThrottledPeople -> Seq(Nat)]
    BY <1>2, <1>9
  <1>11. ASSUME NEW j \in ThrottledPeople PROVE Kept(passed'[j], throttled'[j])
    <2>1. CASE j = i
      <3>1. passed'[j] = q /\ throttled'[j] = u
        BY <1>2, <1>9, <2>1
      <3> QED
        BY <1>9, <3>1
    <2>2. CASE j # i
      <3>1. passed'[j] = passed[j] /\ throttled'[j] = throttled[j]
        BY <1>2, <1>9, <2>2
      <3>2. Kept(passed[j], throttled[j])
        BY DEF ThrottleInv, Kept
      <3> QED
        BY <3>1, <3>2
    <2> QED
      BY <2>1, <2>2
  <1> QED
    BY <1>2, <1>10, <1>11 DEF ThrottleInv, Kept

(* For any participants, window, number of events it lets through and      *)
(* order of their times: in no minute, wherever it begins, does more get   *)
(* through, and what the filter forgets is older than the minute.          *)
THEOREM ThrottledAlways == ThrottleInit /\ [][ThrottleNext]_throttleVars => []ThrottledInEveryMinute
  <1>1. ThrottleInv /\ [ThrottleNext]_throttleVars => ThrottleInv'
    <2> SUFFICES ASSUME ThrottleInv, [ThrottleNext]_throttleVars PROVE ThrottleInv'
      OBVIOUS
    <2>1. CASE UNCHANGED throttleVars
      BY <2>1 DEF ThrottleInv, throttleVars
    <2>2. CASE ThrottleTicks
      BY <2>2, TickKeepsThrottle
    <2>3. ASSUME NEW i \in ThrottledPeople, Filter(i) PROVE ThrottleInv'
      BY <2>3, FilterKeepsThrottle
    <2> QED
      BY <2>1, <2>2, <2>3 DEF ThrottleNext
  <1>2. ThrottleInv => ThrottledInEveryMinute
    <2> SUFFICES ASSUME ThrottleInv, NEW i \in ThrottledPeople
                 PROVE  /\ \A k \in DOMAIN passed[i] : k + MaxPerMinute \in DOMAIN passed[i]
                               => passed[i][k + MaxPerMinute] - passed[i][k] >= Minute
                        /\ LastMinute(passed[i]) = LastMinute(throttled[i])
      BY DEF ThrottledInEveryMinute
    <2>1. DOMAIN passed[i] = 1..Len(passed[i])
      BY DEF ThrottleInv
    <2>2. \A m, n \in 1..Len(passed[i]) : n = m + MaxPerMinute => passed[i][n] - passed[i][m] >= Minute
      BY DEF ThrottleInv, ThrottleKept
    <2> QED
      BY <2>1, <2>2, FilteredEnd
  <1> QED
    BY <1>1, <1>2, ThrottleInvInit, PTL


-------------------------------------------------------------------------------
(* Proof that the changes of a connection's quality make up for each other.   *)

ChangesTo(q) == {c \in Change : c.to = q}
ChangesFrom(q) == {c \in Change : c.from = q}

\* What a change, the changes of a sequence and those being list add to the quality q.
ChangeAdds(c, q) == OneIf(q, {c.to}) - OneIf(q, {c.from})
SeqAdds(s, q) == CountIn(s, ChangesTo(q)) - CountIn(s, ChangesFrom(q))
TellingAdds(r, q) == CountIn(r, ChangesTo(q) \ {NoChange}) - CountIn(r, ChangesFrom(q) \ {NoChange})

Adds(q) == SeqAdds(reports, q) + SeqAdds(unreported, q) + TellingAdds(reporting, q)

LEMMA ChangesAre ==
  /\ NoChange \in Change
  /\ \A a, b \in Qualities : [from |-> a, to |-> b] \in Change
  /\ \A c \in Change : c.from \in Qualities /\ c.to \in Qualities
  /\ NoChange.from = GOOD /\ NoChange.to = GOOD
  BY ConnectionQualityAssumption DEF Change, NoChange

LEMMA OneChangeAdds ==
  ASSUME NEW c \in Change, NEW q \in Qualities
  PROVE  /\ OneIf(c, ChangesTo(q)) - OneIf(c, ChangesFrom(q)) = ChangeAdds(c, q)
         /\ OneIf(c, ChangesTo(q) \ {NoChange}) - OneIf(c, ChangesFrom(q) \ {NoChange}) = ChangeAdds(c, q)
         /\ ChangeAdds(c, q) \in Int /\ ChangeAdds(NoChange, q) = 0
  <1>1. ChangeAdds(NoChange, q) = 0
    BY ChangesAre DEF ChangeAdds, OneIf
  <1>2. ChangeAdds(c, q) \in Int
    BY DEF ChangeAdds, OneIf
  <1>3. OneIf(c, ChangesTo(q)) - OneIf(c, ChangesFrom(q)) = ChangeAdds(c, q)
    BY DEF ChangeAdds, OneIf, ChangesTo, ChangesFrom
  <1>4. CASE c = NoChange
    <2>1. OneIf(c, ChangesTo(q) \ {NoChange}) = 0 /\ OneIf(c, ChangesFrom(q) \ {NoChange}) = 0
      BY <1>4 DEF OneIf
    <2> QED
      BY <1>1, <1>2, <1>3, <1>4, <2>1
  <1>5. CASE c # NoChange
    <2>1. OneIf(c, ChangesTo(q) \ {NoChange}) = OneIf(c, ChangesTo(q))
          /\ OneIf(c, ChangesFrom(q) \ {NoChange}) = OneIf(c, ChangesFrom(q))
      BY <1>5 DEF OneIf
    <2> QED
      BY <1>1, <1>2, <1>3, <2>1
  <1> QED
    BY <1>4, <1>5

LEMMA AppendedAdds ==
  ASSUME NEW s \in Seq(Change), NEW c \in Change, NEW q \in Qualities
  PROVE  SeqAdds(Append(s, c), q) = SeqAdds(s, q) + ChangeAdds(c, q) /\ SeqAdds(s, q) \in Int
  <1>1. /\ CountIn(Append(s, c), ChangesTo(q)) = CountIn(s, ChangesTo(q)) + OneIf(c, ChangesTo(q))
        /\ CountIn(s, ChangesTo(q)) \in Nat
    BY CountAppended
  <1>2. /\ CountIn(Append(s, c), ChangesFrom(q)) = CountIn(s, ChangesFrom(q)) + OneIf(c, ChangesFrom(q))
        /\ CountIn(s, ChangesFrom(q)) \in Nat
    BY CountAppended
  <1>3. OneIf(c, ChangesTo(q)) - OneIf(c, ChangesFrom(q)) = ChangeAdds(c, q)
        /\ OneIf(c, ChangesTo(q)) \in Int /\ OneIf(c, ChangesFrom(q)) \in Int
    BY OneChangeAdds DEF OneIf
  <1> QED
    BY <1>1, <1>2, <1>3 DEF SeqAdds

LEMMA TellingChangedAdds ==
  ASSUME NEW r \in [Updaters -> Change], NEW u \in Updaters, NEW c \in Change, NEW q \in Qualities
  PROVE  /\ TellingAdds([r EXCEPT ![u] = c], q) = TellingAdds(r, q) - ChangeAdds(r[u], q) + ChangeAdds(c, q)
         /\ TellingAdds(r, q) \in Int
  <1> DEFINE N == [r EXCEPT ![u] = c]
             T == ChangesTo(q) \ {NoChange}
             F == ChangesFrom(q) \ {NoChange}
  <1>1. IsFiniteSet(Updaters) /\ DOMAIN r = Updaters /\ r[u] \in Change
        /\ DOMAIN N = Updaters /\ N[u] = c /\ \A w \in Updaters \ {u} : N[w] = r[w]
    BY ConnectionQualityAssumption
  <1> HIDE DEF T, F, N
  <1>2. CountIn(N, T) = CountIn(r, T) - OneIf(r[u], T) + OneIf(c, T) /\ CountIn(r, T) \in Nat
    BY <1>1, CountChanged
  <1>3. CountIn(N, F) = CountIn(r, F) - OneIf(r[u], F) + OneIf(c, F) /\ CountIn(r, F) \in Nat
    BY <1>1, CountChanged
  <1>4. /\ OneIf(r[u], T) - OneIf(r[u], F) = ChangeAdds(r[u], q)
        /\ OneIf(c, T) - OneIf(c, F) = ChangeAdds(c, q)
    BY <1>1, OneChangeAdds DEF T, F
  <1>5. \A x : OneIf(x, T) \in Int /\ OneIf(x, F) \in Int
    BY DEF OneIf
  <1>6. TellingAdds(N, q) = CountIn(N, T) - CountIn(N, F) /\ TellingAdds(r, q) = CountIn(r, T) - CountIn(r, F)
    BY DEF TellingAdds, T, F
  <1>7. TellingAdds(N, q) = TellingAdds(r, q) - ChangeAdds(r[u], q) + ChangeAdds(c, q) /\ TellingAdds(r, q) \in Int
    BY <1>2, <1>3, <1>4, <1>5, <1>6
  <1> QED
    BY <1>7 DEF N

\* What the property counts.
LEMMA BalanceIsAdds ==
  ASSUME ConnectionQualityTypeOK
  PROVE  ChangesBalance <=>
            \A q \in Qualities : Adds(q) = OneIf(q, {currentQuality}) - OneIf(q, {GOOD})
  <1> SUFFICES ASSUME NEW q \in Qualities
               PROVE  /\ \A list \in {reports, unreported} :
                          /\ Cardinality({n \in DOMAIN list : list[n].to = q}) = CountIn(list, ChangesTo(q))
                          /\ Cardinality({n \in DOMAIN list : list[n].from = q}) = CountIn(list, ChangesFrom(q))
                      /\ Cardinality({u \in Updaters : reporting[u] # NoChange /\ reporting[u].to = q})
                         = CountIn(reporting, ChangesTo(q) \ {NoChange})
                      /\ Cardinality({u \in Updaters : reporting[u] # NoChange /\ reporting[u].from = q})
                         = CountIn(reporting, ChangesFrom(q) \ {NoChange})
    BY DEF ChangesBalance, Adds, SeqAdds, TellingAdds, OneIf
  <1>1. ASSUME NEW list \in {reports, unreported}
        PROVE  /\ {n \in DOMAIN list : list[n].to = q} = {n \in DOMAIN list : list[n] \in ChangesTo(q)}
               /\ {n \in DOMAIN list : list[n].from = q} = {n \in DOMAIN list : list[n] \in ChangesFrom(q)}
    <2>1. list \in Seq(Change)
      BY DEF ConnectionQualityTypeOK
    <2>2. \A n \in DOMAIN list : list[n] \in Change
      BY <2>1
    <2> QED
      BY <2>2 DEF ChangesTo, ChangesFrom
  <1>2. DOMAIN reporting = Updaters /\ \A u \in Updaters : reporting[u] \in Change
    BY DEF ConnectionQualityTypeOK
  <1>3. /\ {u \in Updaters : reporting[u] # NoChange /\ reporting[u].to = q}
           = {u \in DOMAIN reporting : reporting[u] \in ChangesTo(q) \ {NoChange}}
        /\ {u \in Updaters : reporting[u] # NoChange /\ reporting[u].from = q}
           = {u \in DOMAIN reporting : reporting[u] \in ChangesFrom(q) \ {NoChange}}
    BY <1>2 DEF ChangesTo, ChangesFrom
  <1> QED
    BY <1>1, <1>3 DEF CountIn

\* The history is in the order of its times, and its last measurement is the current quality.
HistoryCurrent(h, now, current) ==
    /\ \A m, n \in 1..Len(h) : m <= n => h[m].at <= h[n].at
    /\ \A n \in 1..Len(h) : h[n].at <= now
    /\ Len(h) > 0 => h[Len(h)].quality = current

BalanceKept == \A q \in Qualities : Adds(q) = OneIf(q, {currentQuality}) - OneIf(q, {GOOD})

ConnectionInv ==
    /\ ConnectionQualityTypeOK
    /\ HistoryCurrent(qualityHistory, qualityTime, currentQuality)
    /\ BalanceKept

LEMMA CountsAreInts ==
  ASSUME ConnectionQualityTypeOK, NEW q \in Qualities
  PROVE  /\ SeqAdds(reports, q) \in Int /\ SeqAdds(unreported, q) \in Int
         /\ TellingAdds(reporting, q) \in Int
  <1>1. reports \in Seq(Change) /\ unreported \in Seq(Change) /\ reporting \in [Updaters -> Change]
    BY DEF ConnectionQualityTypeOK
  <1>2. IsFiniteSet(DOMAIN reporting)
    BY <1>1, ConnectionQualityAssumption
  <1>3. \A P : CountIn(reporting, P) \in Nat
    BY <1>2, CountsAre
  <1> QED
    BY <1>1, <1>3, ChangesAre, AppendedAdds DEF TellingAdds

LEMMA ConnectionInvInit == ConnectionQualityInit => ConnectionInv
  <1> SUFFICES ASSUME ConnectionQualityInit PROVE ConnectionInv
    OBVIOUS
  <1>1. /\ reports = <<>> /\ unreported = <<>> /\ qualityHistory = <<>> /\ currentQuality = GOOD
        /\ reporting = [u \in Updaters |-> NoChange] /\ qualityTime = 0
    BY DEF ConnectionQualityInit
  <1>2. ConnectionQualityTypeOK
    <2>1. reporting \in [Updaters -> Change]
      BY <1>1, ChangesAre
    <2>2. qualityHistory \in Seq(Measurement) /\ Len(qualityHistory) <= HistorySize
      BY <1>1, ConnectionQualityAssumption
    <2>3. qualityTime \in 0..MaxQualityTime /\ currentQuality \in Qualities
      BY <1>1, ConnectionQualityAssumption
    <2>4. reports \in Seq(Change) /\ unreported \in Seq(Change)
      BY <1>1
    <2> QED
      BY <2>1, <2>2, <2>3, <2>4 DEF ConnectionQualityTypeOK, ConnectionQualityInit
  <1>3. HistoryCurrent(qualityHistory, qualityTime, currentQuality)
    <2>1. Len(qualityHistory) = 0
      BY <1>1
    <2> QED
      BY <2>1 DEF HistoryCurrent
  <1>4. BalanceKept
    <2> SUFFICES ASSUME NEW q \in Qualities
                 PROVE  Adds(q) = OneIf(q, {currentQuality}) - OneIf(q, {GOOD})
      BY DEF BalanceKept
    <2>1. \A P : CountIn(<<>>, P) = 0
      <3>1. \A P : {n \in DOMAIN <<>> : <<>>[n] \in P} = {}
        OBVIOUS
      <3> QED
        BY <3>1, FS_EmptySet DEF CountIn
    <2>2. CountIn(reporting, ChangesTo(q) \ {NoChange}) = 0 /\ CountIn(reporting, ChangesFrom(q) \ {NoChange}) = 0
      <3>1. \A P : {u \in DOMAIN reporting : reporting[u] \in P \ {NoChange}} = {}
        BY <1>1
      <3> QED
        BY <3>1, FS_EmptySet DEF CountIn
    <2>3. Adds(q) = 0
      BY <1>1, <2>1, <2>2 DEF Adds, SeqAdds, TellingAdds
    <2> QED
      BY <1>1, <2>3 DEF OneIf
  <1> QED
    BY <1>2, <1>3, <1>4 DEF ConnectionInv

LEMMA ToldAdds ==
  ASSUME ConnectionQualityTypeOK, NEW quality \in Qualities,
         unreported' = unreported \o Told(quality), NEW q \in Qualities
  PROVE  /\ unreported' \in Seq(Change)
         /\ SeqAdds(unreported', q)
            = SeqAdds(unreported, q) + (OneIf(q, {quality}) - OneIf(q, {currentQuality}))
  <1> DEFINE c == [from |-> currentQuality, to |-> quality]
  <1>1. unreported \in Seq(Change) /\ currentQuality \in Qualities /\ c \in Change
    BY ChangesAre DEF ConnectionQualityTypeOK
  <1>2. CASE currentQuality = quality
    <2>1. unreported' = unreported
      BY <1>1, <1>2 DEF Told
    <2>2. SeqAdds(unreported, q) \in Int
      BY CountsAreInts
    <2> QED
      BY <1>1, <1>2, <2>1, <2>2 DEF OneIf
  <1>3. CASE currentQuality # quality
    <2>1. unreported' = Append(unreported, c)
      BY <1>1, <1>3 DEF Told
    <2>2. c.from = currentQuality /\ c.to = quality
      OBVIOUS
    <2> HIDE DEF c
    <2>3. Append(unreported, c) \in Seq(Change)
      BY <1>1
    <2>4. SeqAdds(Append(unreported, c), q) = SeqAdds(unreported, q) + ChangeAdds(c, q)
      BY <1>1, AppendedAdds
    <2> QED
      BY <2>1, <2>2, <2>3, <2>4 DEF ChangeAdds
  <1> QED
    BY <1>2, <1>3

LEMMA LatestIsCurrent ==
  ASSUME NEW h \in Seq(Measurement), Len(h) <= HistorySize, NEW now \in 0..MaxQualityTime,
         NEW current, HistoryCurrent(h, now, current), NEW quality \in Qualities
  PROVE  LET l == LatestMeasurements(Append(h, [quality |-> quality, at |-> now]))
         IN  l \in Seq(Measurement) /\ Len(l) <= HistorySize /\ HistoryCurrent(l, now, quality)
  <1> DEFINE e == [quality |-> quality, at |-> now]
             a == Append(h, e)
             l == LatestMeasurements(a)
  <1>1. e \in Measurement /\ e.at = now /\ e.quality = quality
    BY DEF Measurement
  <1> HIDE DEF e
  <1>2. /\ a \in Seq(Measurement) /\ Len(a) = Len(h) + 1 /\ Len(h) \in Nat
        /\ a[Len(h) + 1] = e /\ \A n \in 1..Len(h) : a[n] = h[n] /\ a[n] \in Measurement
    BY <1>1
  <1> HIDE DEF a
  <1>3. now \in Nat /\ HistorySize \in Nat /\ HistorySize >= 1
        /\ \A n \in 1..Len(a) : a[n].at \in Nat
    <2>1. MaxQualityTime \in Nat
      BY ConnectionQualityAssumption
    <2>2. ASSUME NEW n \in 1..Len(a) PROVE a[n].at \in Nat
      <3>1. a[n] \in Measurement
        BY <1>2
      <3> QED
        BY <2>1, <3>1 DEF Measurement
    <2> QED
      BY <2>1, <2>2, ConnectionQualityAssumption
  <1>4. \A n \in 1..Len(a) : a[n].at <= now
    <2> SUFFICES ASSUME NEW n \in 1..Len(a) PROVE a[n].at <= now
      OBVIOUS
    <2>1. CASE n = Len(h) + 1
      BY <1>1, <1>2, <1>3, <2>1
    <2>2. CASE n # Len(h) + 1
      <3>1. n \in 1..Len(h)
        BY <1>2, <2>2
      <3> QED
        BY <1>2, <3>1 DEF HistoryCurrent
    <2> QED
      BY <2>1, <2>2
  <1>5. ASSUME NEW m \in 1..Len(a), NEW n \in 1..Len(a), m <= n PROVE a[m].at <= a[n].at
    <2>1. CASE n = Len(h) + 1
      BY <1>1, <1>2, <1>4, <2>1
    <2>2. CASE n # Len(h) + 1
      <3>1. n \in 1..Len(h) /\ m \in 1..Len(h)
        BY <1>2, <1>5, <2>2
      <3>2. h[m].at <= h[n].at
        BY <1>5, <3>1 DEF HistoryCurrent
      <3> QED
        BY <1>2, <3>1, <3>2
    <2> QED
      BY <2>1, <2>2
  <1>6. CASE ~(Len(a) > HistorySize)
    <2>1. l = a
      BY <1>6 DEF LatestMeasurements
    <2>2. HistoryCurrent(a, now, quality)
      BY <1>1, <1>2, <1>4, <1>5 DEF HistoryCurrent
    <2>3. Len(a) <= HistorySize
      BY <1>2, <1>3, <1>6
    <2> HIDE DEF l
    <2> QED
      BY <1>2, <2>1, <2>2, <2>3 DEF l, a, e
  <1>7. CASE Len(a) > HistorySize
    <2> DEFINE k == Len(a) - HistorySize
    <2>1. k \in 0..Len(a) /\ l = SubSeq(a, k + 1, Len(a)) /\ Len(a) \in Nat /\ k \in Nat
      <3>1. Len(a) \in Nat
        BY <1>2
      <3>2. k \in 0..Len(a) /\ k \in Nat /\ Len(a) - HistorySize + 1 = k + 1
        BY <1>3, <1>7, <3>1
      <3>3. l = SubSeq(a, Len(a) - HistorySize + 1, Len(a))
        BY <1>7 DEF LatestMeasurements
      <3> QED
        BY <3>1, <3>2, <3>3
    <2> HIDE DEF k, l
    <2>2. l \in Seq(Measurement) /\ Len(l) = Len(a) - k /\ \A n \in 1..Len(a) - k : l[n] = a[k + n] /\ k + n \in 1..Len(a)
      BY <1>2, <2>1, EndOfSequence
    <2>3. Len(l) = HistorySize
      BY <1>3, <2>1, <2>2 DEF k
    <2>4. ASSUME NEW m \in 1..Len(l), NEW n \in 1..Len(l), m <= n PROVE l[m].at <= l[n].at
      <3>1. l[m] = a[k + m] /\ l[n] = a[k + n] /\ k + m \in 1..Len(a) /\ k + n \in 1..Len(a)
        BY <2>2
      <3>2. k + m <= k + n
        BY <2>1, <2>4
      <3> QED
        BY <1>5, <3>1, <3>2
    <2>5. \A n \in 1..Len(l) : l[n].at <= now
      BY <1>4, <2>2
    <2>6. l[Len(l)].quality = quality
      <3>1. Len(l) \in 1..Len(a) - k /\ k + Len(l) = Len(h) + 1
        BY <1>2, <1>3, <2>1, <2>2, <2>3
      <3> QED
        BY <1>1, <1>2, <2>2, <3>1
    <2>7. HistoryCurrent(l, now, quality)
      BY <2>4, <2>5, <2>6 DEF HistoryCurrent
    <2>8. Len(l) <= HistorySize
      BY <1>3, <2>3
    <2> QED
      BY <2>2, <2>7, <2>8 DEF l, a, e
  <1> QED
    BY <1>6, <1>7

LEMMA ConnectionInvStep == ConnectionInv /\ [ConnectionQualityNext]_connectionQualityVars => ConnectionInv'
  <1> SUFFICES ASSUME ConnectionInv, [ConnectionQualityNext]_connectionQualityVars PROVE ConnectionInv'
    OBVIOUS
  <1>1. /\ ConnectionQualityTypeOK /\ HistoryCurrent(qualityHistory, qualityTime, currentQuality) /\ BalanceKept
        /\ qualityTime \in 0..MaxQualityTime /\ watchedPeer \in BOOLEAN /\ currentQuality \in Qualities
        /\ qualityHistory \in Seq(Measurement) /\ Len(qualityHistory) <= HistorySize
        /\ callbackSet \in BOOLEAN /\ reporting \in [Updaters -> Change]
        /\ reports \in Seq(Change) /\ unreported \in Seq(Change)
    BY DEF ConnectionInv, ConnectionQualityTypeOK
  <1>2. \A q \in Qualities : /\ SeqAdds(reports, q) \in Int /\ SeqAdds(unreported, q) \in Int
                             /\ TellingAdds(reporting, q) \in Int
    BY <1>1, CountsAreInts
  <1>3. ASSUME UNCHANGED <<reports, unreported, reporting, currentQuality>> PROVE BalanceKept'
    BY <1>1, <1>3 DEF BalanceKept, Adds, SeqAdds, TellingAdds
  <1>4. CASE UNCHANGED connectionQualityVars \/ StopMonitoringPeer \/ \E set \in BOOLEAN : SetQualityChangeCallback(set)
    <2>1. /\ UNCHANGED <<qualityTime, currentQuality, qualityHistory, reports, unreported, reporting>>
          /\ watchedPeer' \in BOOLEAN /\ callbackSet' \in BOOLEAN
      BY <1>1, <1>4 DEF connectionQualityVars, StopMonitoringPeer, SetQualityChangeCallback
    <2> QED
      BY <1>1, <1>3, <2>1 DEF ConnectionInv, ConnectionQualityTypeOK
  <1>5. CASE QualityTimePasses
    <2>1. /\ UNCHANGED <<currentQuality, qualityHistory, reports, unreported, reporting, watchedPeer, callbackSet>>
          /\ qualityTime' = qualityTime + 1 /\ qualityTime' \in 0..MaxQualityTime /\ qualityTime \in Nat
      BY <1>1, <1>5, ConnectionQualityAssumption DEF QualityTimePasses
    <2>2. HistoryCurrent(qualityHistory, qualityTime + 1, currentQuality)
      <3>1. \A n \in 1..Len(qualityHistory) : qualityHistory[n].at \in Nat
        <4> SUFFICES ASSUME NEW n \in 1..Len(qualityHistory) PROVE qualityHistory[n].at \in Nat
          OBVIOUS
        <4>1. qualityHistory[n] \in Measurement
          BY <1>1
        <4> QED
          BY <4>1, ConnectionQualityAssumption DEF Measurement
      <3> QED
        BY <1>1, <2>1, <3>1 DEF HistoryCurrent
    <2> QED
      BY <1>1, <1>3, <2>1, <2>2 DEF ConnectionInv, ConnectionQualityTypeOK
  <1>6. CASE StartMonitoringPeer
    <2>1. /\ watchedPeer' = TRUE /\ currentQuality' = GOOD /\ qualityHistory' = <<>>
          /\ unreported' = unreported \o Told(GOOD)
          /\ UNCHANGED <<qualityTime, callbackSet, reporting, reports>>
      BY <1>6 DEF StartMonitoringPeer
    <2>2. GOOD \in Qualities /\ HistorySize \in Nat
      BY ConnectionQualityAssumption
    <2>3. /\ unreported' \in Seq(Change)
          /\ \A q \in Qualities : SeqAdds(unreported', q)
                = SeqAdds(unreported, q) + (OneIf(q, {GOOD}) - OneIf(q, {currentQuality}))
      BY <1>1, <2>1, <2>2, ToldAdds
    <2>4. BalanceKept'
      <3> SUFFICES ASSUME NEW q \in Qualities
                   PROVE  Adds(q)' = (OneIf(q, {currentQuality}) - OneIf(q, {GOOD}))'
        BY DEF BalanceKept
      <3>1. PICK a \in Int, b \in Int, t \in Int, x \in Int, y \in Int :
                /\ a = SeqAdds(reports, q) /\ b = SeqAdds(unreported, q) /\ t = TellingAdds(reporting, q)
                /\ x = OneIf(q, {currentQuality}) /\ y = OneIf(q, {GOOD})
        BY <1>2 DEF OneIf
      <3>2. a + b + t = x - y
        BY <1>1, <3>1 DEF BalanceKept, Adds
      <3>3. Adds(q)' = a + SeqAdds(unreported', q) + t
        BY <2>1, <3>1 DEF Adds, SeqAdds, TellingAdds
      <3>4. SeqAdds(unreported', q) = b + (y - x)
        BY <2>3, <3>1
      <3>5. (OneIf(q, {currentQuality}) - OneIf(q, {GOOD}))' = y - y
        BY <2>1, <3>1 DEF OneIf
      <3>6. a + (b + (y - x)) + t = y - y
        BY <3>2
      <3> QED
        BY <3>3, <3>4, <3>5, <3>6
    <2>5. Len(qualityHistory') = 0
      BY <2>1
    <2>6. HistoryCurrent(qualityHistory, qualityTime, currentQuality)'
      BY <2>5 DEF HistoryCurrent
    <2>7. qualityHistory' \in Seq(Measurement) /\ Len(qualityHistory') <= HistorySize
      BY <2>1, <2>2, <2>5
    <2> QED
      BY <1>1, <2>1, <2>2, <2>3, <2>4, <2>6, <2>7 DEF ConnectionInv, ConnectionQualityTypeOK
  <1>7. ASSUME NEW u \in Updaters, NEW quality \in Qualities, UpdateQuality(u, quality)
        PROVE  ConnectionInv'
    <2> DEFINE c == [from |-> currentQuality, to |-> quality]
    <2>1. /\ reporting[u] = NoChange /\ currentQuality' = quality
          /\ qualityHistory' = LatestMeasurements(Append(qualityHistory, [quality |-> quality, at |-> qualityTime]))
          /\ UNCHANGED <<qualityTime, watchedPeer, callbackSet, reports>>
      BY <1>7 DEF UpdateQuality
    <2>2. /\ qualityHistory' \in Seq(Measurement) /\ Len(qualityHistory') <= HistorySize
          /\ HistoryCurrent(qualityHistory', qualityTime, quality)
      BY <1>1, <2>1, LatestIsCurrent
    <2>3. c \in Change /\ c.from = currentQuality /\ c.to = quality
      BY <1>1, ChangesAre
    <2>4. /\ unreported' \in Seq(Change) /\ reporting' \in [Updaters -> Change]
          /\ \A q \in Qualities :
                \/ /\ SeqAdds(unreported', q) = SeqAdds(unreported, q)
                   /\ TellingAdds(reporting', q)
                      = TellingAdds(reporting, q) + (OneIf(q, {quality}) - OneIf(q, {currentQuality}))
                \/ /\ TellingAdds(reporting', q) = TellingAdds(reporting, q)
                   /\ SeqAdds(unreported', q)
                      = SeqAdds(unreported, q) + (OneIf(q, {quality}) - OneIf(q, {currentQuality}))
      <3>1. CASE callbackSet /\ currentQuality # quality
        <4>1. reporting' = [reporting EXCEPT ![u] = c] /\ unreported' = unreported
          BY <1>7, <3>1 DEF UpdateQuality
        <4> HIDE DEF c
        <4>2. ASSUME NEW q \in Qualities
              PROVE  TellingAdds(reporting', q)
                     = TellingAdds(reporting, q) + (OneIf(q, {quality}) - OneIf(q, {currentQuality}))
          <5>1. TellingAdds([reporting EXCEPT ![u] = c], q)
                = TellingAdds(reporting, q) - ChangeAdds(reporting[u], q) + ChangeAdds(c, q)
            BY <1>1, <2>3, TellingChangedAdds
          <5>2. ChangeAdds(reporting[u], q) = 0 /\ ChangeAdds(c, q) \in Int
            BY <2>1, <2>3, OneChangeAdds
          <5>3. ChangeAdds(c, q) = OneIf(q, {quality}) - OneIf(q, {currentQuality})
            BY <2>3 DEF ChangeAdds
          <5>4. PICK t \in Int : t = TellingAdds(reporting, q)
            BY <1>2
          <5>5. PICK d \in Int : d = ChangeAdds(c, q)
            BY <5>2
          <5>6. TellingAdds([reporting EXCEPT ![u] = c], q) = t + d
            BY <5>1, <5>2, <5>4, <5>5
          <5> QED
            BY <4>1, <5>3, <5>4, <5>5, <5>6
        <4>3. reporting' \in [Updaters -> Change]
          BY <1>1, <2>3, <4>1
        <4> QED
          BY <1>1, <4>1, <4>2, <4>3
      <3>2. CASE ~(callbackSet /\ currentQuality # quality)
        <4>1. unreported' = unreported \o Told(quality) /\ reporting' = reporting
          BY <1>7, <3>2 DEF UpdateQuality
        <4>2. /\ unreported' \in Seq(Change)
              /\ \A q \in Qualities : SeqAdds(unreported', q)
                    = SeqAdds(unreported, q) + (OneIf(q, {quality}) - OneIf(q, {currentQuality}))
          BY <1>1, <4>1, ToldAdds
        <4> QED
          BY <1>1, <4>1, <4>2
      <3> QED
        BY <3>1, <3>2
    <2>5. BalanceKept'
      <3> SUFFICES ASSUME NEW q \in Qualities
                   PROVE  Adds(q)' = (OneIf(q, {currentQuality}) - OneIf(q, {GOOD}))'
        BY DEF BalanceKept
      <3>1. PICK a \in Int, b \in Int, t \in Int, x \in Int, y \in Int, z \in Int :
                /\ a = SeqAdds(reports, q) /\ b = SeqAdds(unreported, q) /\ t = TellingAdds(reporting, q)
                /\ x = OneIf(q, {currentQuality}) /\ y = OneIf(q, {GOOD}) /\ z = OneIf(q, {quality})
        BY <1>2 DEF OneIf
      <3>2. a + b + t = x - y
        BY <1>1, <3>1 DEF BalanceKept, Adds
      <3>3. Adds(q)' = a + SeqAdds(unreported', q) + TellingAdds(reporting', q)
        BY <2>1, <3>1 DEF Adds, SeqAdds, TellingAdds
      <3>4. \/ SeqAdds(unreported', q) = b /\ TellingAdds(reporting', q) = t + (z - x)
            \/ SeqAdds(unreported', q) = b + (z - x) /\ TellingAdds(reporting', q) = t
        BY <2>4, <3>1
      <3>5. (OneIf(q, {currentQuality}) - OneIf(q, {GOOD}))' = z - y
        BY <2>1, <3>1 DEF OneIf
      <3>6. a + b + (t + (z - x)) = z - y /\ a + (b + (z - x)) + t = z - y
        BY <3>2
      <3> QED
        BY <3>3, <3>4, <3>5, <3>6
    <2> QED
      BY <1>1, <2>1, <2>2, <2>4, <2>5 DEF ConnectionInv, ConnectionQualityTypeOK
  <1>8. ASSUME NEW u \in Updaters, QualityCallbackRuns(u) PROVE ConnectionInv'
    <2>1. /\ reports' = Append(reports, reporting[u]) /\ reporting' = [reporting EXCEPT ![u] = NoChange]
          /\ UNCHANGED <<qualityTime, watchedPeer, currentQuality, qualityHistory, callbackSet, unreported>>
      BY <1>8 DEF QualityCallbackRuns
    <2>2. PICK c \in Change : c = reporting[u]
      BY <1>1
    <2>3. reports' \in Seq(Change) /\ reporting' \in [Updaters -> Change]
      BY <1>1, <2>1, <2>2, ChangesAre
    <2>4. ASSUME NEW q \in Qualities PROVE Adds(q)' = Adds(q)
      <3>1. SeqAdds(Append(reports, c), q) = SeqAdds(reports, q) + ChangeAdds(c, q)
        BY <1>1, AppendedAdds
      <3>2. TellingAdds([reporting EXCEPT ![u] = NoChange], q)
            = TellingAdds(reporting, q) - ChangeAdds(c, q) + ChangeAdds(NoChange, q)
        BY <1>1, <2>2, ChangesAre, TellingChangedAdds
      <3>3. ChangeAdds(c, q) \in Int /\ ChangeAdds(NoChange, q) = 0
        BY OneChangeAdds
      <3>4. Adds(q)' = SeqAdds(Append(reports, c), q) + SeqAdds(unreported, q)
                         + TellingAdds([reporting EXCEPT ![u] = NoChange], q)
        BY <2>1, <2>2 DEF Adds, SeqAdds, TellingAdds
      <3>5. PICK a \in Int, b \in Int, t \in Int, d \in Int :
                /\ a = SeqAdds(reports, q) /\ b = SeqAdds(unreported, q) /\ t = TellingAdds(reporting, q)
                /\ d = ChangeAdds(c, q)
        BY <1>2, <3>3
      <3>6. a + d + b + (t - d + 0) = a + b + t
        OBVIOUS
      <3> QED
        BY <3>1, <3>2, <3>3, <3>4, <3>5, <3>6 DEF Adds
    <2>5. BalanceKept'
      <3>1. \A q \in Qualities : Adds(q)' = OneIf(q, {currentQuality}) - OneIf(q, {GOOD})
        BY <1>1, <2>4 DEF BalanceKept
      <3> QED
        BY <2>1, <3>1 DEF BalanceKept
    <2> QED
      BY <1>1, <2>1, <2>3, <2>5 DEF ConnectionInv, ConnectionQualityTypeOK
  <1> QED
    BY <1>4, <1>5, <1>6, <1>7, <1>8 DEF ConnectionQualityNext

\* The recent measurements are the end of the history.
LEMMA RecentIsTheEnd ==
  ASSUME ConnectionInv, NEW duration \in Durations
  PROVE  \E k \in 0..Len(qualityHistory) :
            RecentMeasurements(duration) = SubSeq(qualityHistory, k + 1, Len(qualityHistory))
  <1> DEFINE h == qualityHistory
             I == {n \in 1..Len(h) : h[n].at > qualityTime - duration}
             Loop(f) == [n \in 0..Len(h) |->
                IF n = 0 THEN <<>>
                ELSE IF h[n].at > qualityTime - duration THEN Append(f[n - 1], h[n]) ELSE f[n - 1]]
             kept == CHOOSE f : f = Loop(f)
  <1>1. /\ h \in Seq(Measurement) /\ Len(h) \in Nat /\ qualityTime \in Nat /\ duration \in Nat
        /\ \A n \in 1..Len(h) : h[n].at \in Nat
        /\ \A m, n \in 1..Len(h) : m <= n => h[m].at <= h[n].at
    <2>1. h \in Seq(Measurement) /\ qualityTime \in 0..MaxQualityTime
          /\ HistoryCurrent(h, qualityTime, currentQuality)
      BY DEF ConnectionInv, ConnectionQualityTypeOK
    <2>2. ASSUME NEW n \in 1..Len(h) PROVE h[n].at \in Nat
      <3>1. h[n] \in Measurement
        BY <2>1
      <3> QED
        BY <3>1, ConnectionQualityAssumption DEF Measurement
    <2> QED
      BY <2>1, <2>2, ConnectionQualityAssumption DEF HistoryCurrent
  <1>2. RecentMeasurements(duration) = kept[Len(h)]
    BY DEF RecentMeasurements
  <1>3. \A f : KeepingLoop(f, h, I) <=> f = Loop(f)
    <2> SUFFICES ASSUME NEW f PROVE KeepingLoop(f, h, I) <=> f = Loop(f)
      OBVIOUS
    <2>1. \A n \in 0..Len(h) : n # 0 => (n \in I <=> h[n].at > qualityTime - duration)
      BY <1>1
    <2> HIDE DEF I
    <2>2. [n \in 0..Len(h) |-> IF n = 0 THEN <<>>
                           ELSE IF n \in I THEN Append(f[n - 1], h[n]) ELSE f[n - 1]] = Loop(f)
      BY <2>1
    <2> QED
      BY <2>2 DEF KeepingLoop
  <1> HIDE DEF Loop, h
  <1>4. KeepingLoop(kept, h, I)
    <2> HIDE DEF I
    <2>1. PICK f : f = Loop(f)
      BY <1>1, <1>3, KeepingLoopExists
    <2>2. kept = Loop(kept)
      BY <2>1
    <2> QED
      BY <1>3, <2>2
  <1> HIDE DEF kept
  <1>5. ASSUME NEW m \in 1..Len(h), NEW n \in 1..Len(h), m <= n, m \in I
        PROVE  n \in I
    <2>1. h[m].at <= h[n].at /\ h[m].at \in Nat /\ h[n].at \in Nat
      BY <1>1, <1>5
    <2> QED
      BY <1>1, <1>5, <2>1
  <1>6. PICK k \in 0..Len(h) : kept[Len(h)] = SubSeq(h, k + 1, Len(h))
    <2> HIDE DEF I
    <2> QED
      BY <1>1, <1>4, <1>5, KeepsTheEnd
  <1> QED
    BY <1>2, <1>6 DEF h

\* The sum of equal numbers, as a loop adds them.
LEMMA SumOfTheSame ==
  ASSUME NEW s, Len(s) \in Nat, NEW q \in Int, \A n \in 1..Len(s) : s[n].quality = q
  PROVE  LET Sum[n \in 0..Len(s)] == IF n = 0 THEN 0 ELSE Sum[n - 1] + s[n].quality
         IN  Sum[Len(s)] = Len(s) * q
  <1> DEFINE Loop(f) == [n \in 0..Len(s) |-> IF n = 0 THEN 0 ELSE f[n - 1] + s[n].quality]
             Sum == CHOOSE f : f = Loop(f)
             g == [n \in 0..Len(s) |-> n * q]
  <1>1. g = Loop(g)
    <2> SUFFICES ASSUME NEW n \in 0..Len(s)
                 PROVE  n * q = (IF n = 0 THEN 0 ELSE g[n - 1] + s[n].quality)
      OBVIOUS
    <2>1. CASE n = 0
      BY <2>1
    <2>2. CASE n # 0
      <3>1. n - 1 \in 0..Len(s) /\ s[n].quality = q /\ n \in Int
        BY <2>2
      <3>2. g[n - 1] = (n - 1) * q
        BY <3>1
      <3>3. (n - 1) * q + q = n * q
        BY <3>1
      <3> QED
        BY <2>2, <3>1, <3>2, <3>3
    <2> QED
      BY <2>1, <2>2
  <1>2. Sum = Loop(Sum)
    <2> HIDE DEF Loop, g
    <2> QED
      BY <1>1
  <1> HIDE DEF Sum
  <1>3. \A n \in 0..Len(s) : Sum[n] = n * q
    <2> DEFINE T == {n \in Nat : n <= Len(s) => Sum[n] = n * q}
    <2>0. /\ Sum[0] = 0
          /\ \A n \in 1..Len(s) : Sum[n] = Sum[n - 1] + s[n].quality
      <3>1. \A n \in 0..Len(s) : Sum[n] = IF n = 0 THEN 0 ELSE Sum[n - 1] + s[n].quality
        BY <1>2
      <3> QED
        BY <3>1
    <2>1. 0 \in T
      BY <2>0
    <2>2. ASSUME NEW n \in T PROVE n + 1 \in T
      <3> SUFFICES ASSUME n + 1 <= Len(s) PROVE Sum[n + 1] = (n + 1) * q
        OBVIOUS
      <3>1. n + 1 \in 1..Len(s) /\ n \in Nat /\ n <= Len(s) /\ (n + 1) - 1 = n
        OBVIOUS
      <3>2. Sum[n] = n * q
        BY <3>1
      <3>3. n * q + q = (n + 1) * q
        BY <3>1
      <3> QED
        BY <2>0, <3>1, <3>2, <3>3
    <2>3. T = Nat
      <3>1. T \subseteq Nat
        OBVIOUS
      <3> HIDE DEF T
      <3> QED
        BY <2>1, <2>2, <3>1, SetInduction
    <2> QED
      BY <2>3
  <1>4. Sum[Len(s)] = Len(s) * q
    BY <1>3
  <1> QED
    BY <1>4 DEF Sum

LEMMA StableFromHistory == ConnectionInv => StableIsCurrent
  <1> SUFFICES ASSUME ConnectionInv, NEW duration \in Durations, IsStable(duration)
               PROVE  GetAverageQuality(duration) = currentQuality
    BY DEF StableIsCurrent
  <1> DEFINE r == RecentMeasurements(duration)
             h == qualityHistory
             Sum == CHOOSE f : f = [n \in 0..Len(r) |-> IF n = 0 THEN 0 ELSE f[n - 1] + r[n].quality]
  <1>1. PICK k \in 0..Len(h) : r = SubSeq(h, k + 1, Len(h))
    BY RecentIsTheEnd
  <1>2. h \in Seq(Measurement) /\ currentQuality \in Nat
        /\ (Len(h) > 0 => h[Len(h)].quality = currentQuality)
    BY ConnectionQualityAssumption DEF ConnectionInv, ConnectionQualityTypeOK, HistoryCurrent, POOR, LOST
  <1>3. Len(h) < 2 \/ \A n \in DOMAIN r : r[n].quality = r[1].quality
    BY DEF IsStable
  <1>4. GetAverageQuality(duration) = IF r = <<>> THEN currentQuality ELSE Sum[Len(r)] \div Len(r)
    BY DEF GetAverageQuality
  <1> HIDE DEF r, h
  <1>5. r \in Seq(Measurement) /\ Len(r) = Len(h) - k /\ \A n \in 1..Len(h) - k : r[n] = h[k + n]
    BY <1>1, <1>2, EndOfSequence
  <1>6. CASE r = <<>>
    BY <1>4, <1>6
  <1>7. CASE r # <<>>
    <2>1. Len(r) \in Nat \ {0} /\ DOMAIN r = 1..Len(r) /\ Len(h) \in Nat
      BY <1>2, <1>5, <1>7
    <2>2. r[Len(r)].quality = currentQuality
      <3>1. Len(r) \in 1..Len(h) - k /\ k + Len(r) = Len(h) /\ Len(h) > 0
        BY <1>5, <2>1
      <3> QED
        BY <1>2, <1>5, <3>1
    <2>3. \A n \in 1..Len(r) : r[n].quality = currentQuality
      <3>1. CASE Len(h) < 2
        <4>1. Len(r) = 1
          BY <1>5, <2>1, <3>1
        <4> QED
          BY <2>2, <4>1
      <3>2. CASE \A n \in DOMAIN r : r[n].quality = r[1].quality
        <4>1. Len(r) \in DOMAIN r
          BY <2>1
        <4> QED
          BY <2>1, <2>2, <3>2, <4>1
      <3> QED
        BY <1>3, <3>1, <3>2
    <2>4. Sum[Len(r)] = Len(r) * currentQuality
      <3>1. currentQuality \in Int
        BY <1>2
      <3> QED
        BY <2>1, <2>3, <3>1, SumOfTheSame
    <2> HIDE DEF Sum
    <2>5. PICK n \in Nat \ {0}, q \in Nat : n = Len(r) /\ q = currentQuality
      BY <1>2, <2>1
    <2>6. (n * q) \div n = q
      OBVIOUS
    <2> QED
      BY <1>4, <1>7, <2>4, <2>5, <2>6
  <1> QED
    BY <1>6, <1>7

\* Whatever was dropped from the history, a connection called stable has its current quality
\* on average, and no change of the quality is told twice or lost, in whatever order the
\* callbacks run outside the lock.
THEOREM ConnectionAnswers ==
  ConnectionQualitySpec => [](ConnectionQualityTypeOK /\ StableIsCurrent /\ ChangesBalance)
  <1>1. ConnectionInv => ConnectionQualityTypeOK /\ StableIsCurrent /\ ChangesBalance
    BY StableFromHistory, BalanceIsAdds DEF ConnectionInv, BalanceKept
  <1>2. ConnectionQualityInit => ConnectionInv
    BY ConnectionInvInit
  <1>3. ConnectionInv /\ [ConnectionQualityNext]_connectionQualityVars => ConnectionInv'
    BY ConnectionInvStep
  <1> QED
    BY <1>1, <1>2, <1>3, PTL DEF ConnectionQualitySpec


-------------------------------------------------------------------------------
(* Proof of the types of the queued events.                                  *)

EventsTyped == EventsTypeOK /\ (worker = "handle" => handling # 0)

LEMMA ReceivedTyped ==
  ASSUME EventsTypeOK, NEW e, Receive(e)
  PROVE  /\ eventQueue' \in Seq(Events) /\ Len(eventQueue') <= QueueLimit /\ zeros' \in 0..MaxZeros
         /\ e \in 0..MaxEvents /\ (eventQueue # <<>> => e # 0)
  <1>1. /\ eventQueue \in Seq(Events) /\ Len(eventQueue) <= QueueLimit /\ zeros \in 0..MaxZeros
        /\ MaxZeros \in Nat /\ MaxEvents \in Nat /\ QueueLimit \in Nat
    BY EventsAssumption DEF EventsTypeOK
  <1>2. CASE eventQueue # <<>>
    <2>1. e = Head(eventQueue) /\ eventQueue' = Tail(eventQueue) /\ zeros' = zeros
      BY <1>2 DEF Receive
    <2>2. Head(eventQueue) \in Events /\ Tail(eventQueue) \in Seq(Events)
          /\ Len(Tail(eventQueue)) = Len(eventQueue) - 1 /\ Len(eventQueue) \in Nat
      BY <1>1, <1>2
    <2> QED
      BY <1>1, <2>1, <2>2 DEF Events
  <1>3. CASE eventQueue = <<>>
    BY <1>1, <1>3 DEF Receive
  <1> QED
    BY <1>2, <1>3

LEMMA EventsTypedStep == EventsTyped /\ [~sendPanicked /\ EventsNext]_eventVars => EventsTyped'
  <1> SUFFICES ASSUME EventsTyped, [~sendPanicked /\ EventsNext]_eventVars PROVE EventsTyped'
    OBVIOUS
  <1>0. /\ EventsTypeOK /\ MaxEvents \in Nat /\ QueueLimit \in Nat
        /\ accepted \in 0..MaxEvents /\ sending \in [Callers -> 0..MaxEvents]
        /\ eventQueue \in Seq(Events) /\ Len(eventQueue) <= QueueLimit
        /\ lost \subseteq Events /\ handling \in 0..MaxEvents /\ handled \subseteq Events
        /\ batch \in Seq(0..MaxEvents) /\ strayTimers \in Nat /\ runningTimers \in Nat
        /\ batched \subseteq Seq(0..MaxEvents)
    BY EventsAssumption DEF EventsTyped, EventsTypeOK
  <1>1. CASE UNCHANGED eventVars
    BY <1>1 DEF EventsTyped, EventsTypeOK, eventVars, Events
  <1>2. ASSUME NEW c \in Callers, QueueEvent(c) \/ Sent(c) \/ SendTimesOut(c) PROVE EventsTyped'
    <2>1. UNCHANGED <<handling, handled, worker, batch, hasBatch, timer, strayTimers, runningTimers,
                      batched, batcher, zeros, stopStage>>
      BY <1>2 DEF QueueEvent, Sent, SendTimesOut, workerVars, batchVars
    <2>2. /\ accepted' \in 0..MaxEvents /\ sending' \in [Callers -> 0..MaxEvents]
          /\ lost' \subseteq Events
      <3>1. sending[c] \in 0..MaxEvents
        BY <1>0
      <3>2. CASE QueueEvent(c)
        <4>1. accepted' = accepted + 1 /\ accepted + 1 \in Events /\ accepted + 1 \in 0..MaxEvents
              /\ sending' \in {sending, [sending EXCEPT ![c] = accepted + 1]}
              /\ lost' \in {lost, lost \cup {accepted + 1}}
          BY <1>0, <3>2 DEF QueueEvent, Events
        <4>2. [sending EXCEPT ![c] = accepted + 1] \in [Callers -> 0..MaxEvents]
          BY <1>0, <4>1
        <4> QED
          BY <1>0, <4>1, <4>2
      <3>3. CASE Sent(c) \/ SendTimesOut(c)
        <4>1. accepted' = accepted /\ sending' = [sending EXCEPT ![c] = 0] /\ sending[c] \in Events
              /\ lost' \in {lost, lost \cup {sending[c]}}
          BY <1>0, <3>1, <3>3 DEF Sent, SendTimesOut, Events
        <4>2. [sending EXCEPT ![c] = 0] \in [Callers -> 0..MaxEvents]
          BY <1>0
        <4> QED
          BY <1>0, <4>1, <4>2
      <3> QED
        BY <1>2, <3>2, <3>3
    <2>3. eventQueue' \in Seq(Events) /\ Len(eventQueue') <= QueueLimit
      <3>1. CASE eventQueue' = eventQueue
        BY <1>0, <3>1
      <3>2. CASE eventQueue' # eventQueue
        <4>1. sending[c] # 0 /\ Len(eventQueue) < QueueLimit /\ eventQueue' = Append(eventQueue, sending[c])
          BY <1>2, <3>2 DEF QueueEvent, Sent, SendTimesOut
        <4>2. sending[c] \in Events
          BY <1>0, <4>1 DEF Events
        <4> QED
          BY <1>0, <4>1, <4>2
      <3> QED
        BY <3>1, <3>2
    <2>4. sendPanicked' \in BOOLEAN
      BY <1>2 DEF EventsTyped, EventsTypeOK, QueueEvent, Sent, SendTimesOut
    <2> QED
      BY <2>1, <2>2, <2>3, <2>4 DEF EventsTyped, EventsTypeOK, Events
  <1>3. CASE WorkerTakes
    <2>1. /\ eventQueue # <<>> /\ Receive(Head(eventQueue)) /\ handling' = Head(eventQueue)
          /\ worker' = "handle"
          /\ UNCHANGED <<accepted, sending, lost, sendPanicked, handled, batch, hasBatch, timer,
                         strayTimers, runningTimers, batched, batcher, stopStage>>
      BY <1>3 DEF WorkerTakes, callerVars, batchVars
    <2>2. /\ eventQueue' \in Seq(Events) /\ Len(eventQueue') <= QueueLimit /\ zeros' \in 0..MaxZeros
          /\ handling' \in 0..MaxEvents /\ handling' # 0
      BY <1>0, <2>1, ReceivedTyped
    <2> QED
      BY <2>1, <2>2 DEF EventsTyped, EventsTypeOK, Events
  <1>4. CASE WorkerHandles \/ WorkerEnds
    <2>1. /\ handling' \in 0..MaxEvents /\ worker' \in {"select", "done"}
          /\ handled' \in {handled, handled \cup {handling}} /\ (handled' # handled => handling # 0)
          /\ UNCHANGED <<accepted, sending, lost, sendPanicked, eventQueue, batch, hasBatch, timer,
                         strayTimers, runningTimers, batched, batcher, zeros, stopStage>>
      BY <1>0, <1>4 DEF EventsTyped, WorkerHandles, WorkerEnds, callerVars, batchVars
    <2>2. handled' \subseteq Events
      BY <1>0, <2>1 DEF Events
    <2> QED
      BY <2>1, <2>2 DEF EventsTyped, EventsTypeOK, Events
  <1>5. CASE ProcessPendingEvent
    <2>1. PICK e : Receive(e) /\ handled' = handled \cup ({e} \ {0})
      BY <1>5 DEF ProcessPendingEvent
    <2>2. UNCHANGED <<accepted, sending, lost, sendPanicked, handling, worker, batch, hasBatch, timer,
                      strayTimers, runningTimers, batched, batcher, stopStage>>
      BY <1>5 DEF ProcessPendingEvent, callerVars, batchVars
    <2>3. /\ eventQueue' \in Seq(Events) /\ Len(eventQueue') <= QueueLimit /\ zeros' \in 0..MaxZeros
          /\ e \in 0..MaxEvents
      BY <1>0, <2>1, ReceivedTyped
    <2>4. handled' \subseteq Events
      BY <1>0, <2>1, <2>3 DEF Events
    <2> QED
      BY <2>2, <2>3, <2>4 DEF EventsTyped, EventsTypeOK, Events
  <1>6. CASE BatcherTakes
    <2>1. PICK e : Receive(e) /\ batch' = Append(batch, e)
      BY <1>6 DEF BatcherTakes
    <2>2. /\ UNCHANGED <<accepted, sending, lost, sendPanicked, handling, handled, worker,
                         strayTimers, runningTimers, batched, stopStage>>
          /\ hasBatch' = TRUE /\ timer' \in {timer, "armed"} /\ batcher' = "full"
      BY <1>6 DEF BatcherTakes, callerVars, workerVars
    <2>3. /\ eventQueue' \in Seq(Events) /\ Len(eventQueue') <= QueueLimit /\ zeros' \in 0..MaxZeros
          /\ e \in 0..MaxEvents
      BY <1>0, <2>1, ReceivedTyped
    <2>4. batch' \in Seq(0..MaxEvents)
      BY <1>0, <2>1, <2>3
    <2> QED
      BY <2>2, <2>3, <2>4 DEF EventsTyped, EventsTypeOK, Events
  <1>7. CASE BatcherChecks \/ BatcherEnds \/ TimerFires \/ TimerFlushes
    <2>1. UNCHANGED <<accepted, sending, lost, sendPanicked, eventQueue, handling, handled, worker,
                      zeros, stopStage>>
      BY <1>7 DEF BatcherChecks, BatcherEnds, TimerFires, TimerFlushes, callerVars, workerVars
    <2>2. batch' \in Seq(0..MaxEvents) /\ batched' \subseteq Seq(0..MaxEvents)
      <3>1. <<>> \in Seq(0..MaxEvents)
        OBVIOUS
      <3>2. batch' \in {batch, <<>>} /\ batched' \in {batched, batched \cup {batch}}
        BY <1>7 DEF BatcherChecks, BatcherEnds, TimerFires, TimerFlushes
      <3> QED
        BY <1>0, <3>1, <3>2
    <2>3. strayTimers' \in Nat /\ runningTimers' \in Nat
      BY <1>0, <1>7 DEF BatcherChecks, BatcherEnds, TimerFires, TimerFlushes
    <2>4. /\ hasBatch' \in BOOLEAN /\ timer' \in {"none", "armed", "fired"}
          /\ batcher' \in {"select", "full", "done"}
      BY <1>7 DEF BatcherChecks, BatcherEnds, TimerFires, TimerFlushes, EventsTyped, EventsTypeOK
    <2> QED
      BY <2>1, <2>2, <2>3, <2>4 DEF EventsTyped, EventsTypeOK, Events
  <1>8. CASE EventsStop("running", "cancelled") \/ EventsStop("cancelled", "closed") \/ EventsStopReturns
    <2>1. /\ UNCHANGED <<accepted, sending, lost, sendPanicked, eventQueue, handling, handled, worker,
                         batch, hasBatch, timer, strayTimers, runningTimers, batched, batcher, zeros>>
          /\ stopStage' \in StopStage
      BY <1>8 DEF EventsStop, EventsStopReturns, callerVars, workerVars, batchVars, StopStage
    <2> QED
      BY <2>1 DEF EventsTyped, EventsTypeOK, Events
  <1> QED
    BY <1>1, <1>2, <1>3, <1>4, <1>5, <1>6, <1>7, <1>8 DEF EventsNext

LEMMA EventsAlwaysTyped == EventsSpec => []EventsTypeOK
  <1>1. EventsInit => EventsTyped
    <2> SUFFICES ASSUME EventsInit PROVE EventsTyped
      OBVIOUS
    <2>1. MaxEvents \in Nat /\ MaxZeros \in Nat /\ QueueLimit \in Nat /\ 0 \in 0..MaxEvents /\ 0 \in 0..MaxZeros
      BY EventsAssumption
    <2>2. sending \in [Callers -> 0..MaxEvents]
      BY <2>1 DEF EventsInit
    <2>3. eventQueue \in Seq(Events) /\ Len(eventQueue) <= QueueLimit /\ batch \in Seq(0..MaxEvents)
      BY <2>1 DEF EventsInit
    <2>4. /\ accepted \in 0..MaxEvents /\ handling \in 0..MaxEvents /\ zeros \in 0..MaxZeros
          /\ strayTimers \in Nat /\ runningTimers \in Nat
      BY <2>1 DEF EventsInit
    <2>5. lost = {} /\ handled = {} /\ batched = {} /\ hasBatch = FALSE /\ timer = "none" /\ worker = "select"
          /\ batcher = "select" /\ stopStage = "running" /\ sendPanicked = FALSE
      BY DEF EventsInit
    <2> QED
      BY <2>2, <2>3, <2>4, <2>5 DEF EventsTyped, EventsTypeOK, StopStage
  <1>2. EventsTyped => EventsTypeOK
    BY DEF EventsTyped
  <1> QED
    BY <1>1, <1>2, EventsTypedStep, PTL DEF EventsSpec


-------------------------------------------------------------------------------
(* Proof of the types of the tracking.                                       *)

PeopleTypes ==
    /\ present \in [TrackedRooms -> SUBSET People] /\ known \subseteq People
    /\ knownIn \in [People -> TrackedRooms \cup {NoRoomKnown}]
    /\ sender \in [identity : People \cup {NoTarget},
                  room : TrackedRooms \cup {NoRoomKnown}, found : TrackedRooms \cup {NoRoomKnown}]
    /\ target \in Targets \cup {NoTarget} /\ shared \subseteq People

Calling ==
    {Idle} \cup [doing : {"record", "delete"}, pub : Publications]
           \cup [doing : {"quality"}, pub : Publications, quality : VideoQualities]
           \cup [doing : {"enable"}, pub : Publications, on : BOOLEAN]

SettingTypes ==
    /\ preferred \in [Publications -> VideoQualities] /\ shaped \in [Publications -> BOOLEAN]
    /\ asked \in [Publications -> VideoQualities] /\ enabled \in [Publications -> BOOLEAN]
    /\ fresh \subseteq Publications

SdkTypes ==
    /\ wanted \in [Publications -> BOOLEAN] /\ delivered \in [Publications -> BOOLEAN]
    /\ callbacks \in [Publications -> Seq({"subscribed", "unsubscribed"})]

LEMMA TrackingTypesAre ==
  TrackingTypeOK <=> /\ PeopleTypes /\ SdkTypes /\ SettingTypes
                     /\ record \in [Publications -> Record] /\ calling \in [Subscribers -> Calling]
  BY DEF TrackingTypeOK, PeopleTypes, SdkTypes, SettingTypes, Calling

LEMMA PeopleTypesKept == PeopleTypes /\ (PeopleNext \/ UNCHANGED peopleVars) => PeopleTypes'
  <1> SUFFICES ASSUME PeopleTypes, PeopleNext \/ UNCHANGED peopleVars PROVE PeopleTypes'
    OBVIOUS
  <1>1. CASE UNCHANGED peopleVars
    BY <1>1 DEF PeopleTypes, peopleVars
  <1>2. ASSUME NEW r \in TrackedRooms, NEW i \in People,
               OnParticipantConnected(r, i) \/ OnParticipantDisconnected(r, i)
        PROVE  PeopleTypes'
    BY <1>2 DEF PeopleTypes, OnParticipantConnected, OnParticipantDisconnected
  <1>3. ASSUME NEW r \in TrackedRooms, NEW i \in present[r], OnDataPacket(r, i)
        PROVE  PeopleTypes'
    <2>1. i \in People /\ knownIn[i] \in TrackedRooms \cup {NoRoomKnown}
      BY DEF PeopleTypes
    <2>2. sender' \in [identity : People \cup {NoTarget},
                  room : TrackedRooms \cup {NoRoomKnown}, found : TrackedRooms \cup {NoRoomKnown}]
      BY <1>3, <2>1 DEF OnDataPacket
    <2> QED
      BY <1>3, <2>2 DEF PeopleTypes, OnDataPacket
  <1> QED
    BY <1>1, <1>2, <1>3 DEF PeopleNext, DataArrives

LEMMA CallingAre ==
  ASSUME NEW a \in Calling
  PROVE  /\ a.doing \in {"record", "delete"} => a.pub \in Publications
         /\ a.doing = "quality" => a.pub \in Publications /\ a.quality \in VideoQualities
         /\ a.doing = "enable" => a.pub \in Publications /\ a.on \in BOOLEAN
  <1>1. CASE a = Idle
    BY <1>1 DEF Idle
  <1>2. CASE a \in [doing : {"record", "delete"}, pub : Publications]
    BY <1>2
  <1>3. CASE a \in [doing : {"quality"}, pub : Publications, quality : VideoQualities]
    BY <1>3
  <1>4. CASE a \in [doing : {"enable"}, pub : Publications, on : BOOLEAN]
    BY <1>4
  <1> QED
    BY <1>1, <1>2, <1>3, <1>4 DEF Calling

LEMMA RecordTypesKept ==
  ASSUME SettingTypes, record \in [Publications -> Record], NEW p \in Publications,
         (\E kind \in {"bare", "full"} : NewRecord(p, kind)) \/ DeleteRecord(p)
  PROVE  SettingTypes' /\ record' \in [Publications -> Record]
  BY TrackingAssumption DEF SettingTypes, NewRecord, DeleteRecord, Record

LEMMA CallingKept ==
  ASSUME calling \in [Subscribers -> Calling], NEW s \in Subscribers, NEW c \in Calling
  PROVE  [calling EXCEPT ![s] = c] \in [Subscribers -> Calling]
  OBVIOUS

LEMMA TrackingTypeStep == TrackingTypeOK /\ [TrackingNext]_trackingVars => TrackingTypeOK'
  <1> SUFFICES ASSUME TrackingTypeOK, [TrackingNext]_trackingVars PROVE TrackingTypeOK'
    OBVIOUS
  <1> USE DEF trackVars, settingVars
  <1>0. /\ PeopleTypes /\ SdkTypes /\ SettingTypes
        /\ record \in [Publications -> Record] /\ calling \in [Subscribers -> Calling]
    BY TrackingTypesAre
  <1>a. Idle \in Calling
    BY DEF Calling
  <1>1. /\ PeopleTypes' /\ SdkTypes' /\ SettingTypes'
        /\ record' \in [Publications -> Record] /\ calling' \in [Subscribers -> Calling]
        => TrackingTypeOK'
    BY DEF TrackingTypeOK, PeopleTypes, SdkTypes, SettingTypes, Calling, Record
  <1>2. ASSUME UNCHANGED trackVars PROVE SdkTypes' /\ SettingTypes' /\ record' \in [Publications -> Record]
                                          /\ calling' \in [Subscribers -> Calling]
    BY <1>0, <1>2 DEF SdkTypes, SettingTypes
  <1>3. ASSUME UNCHANGED peopleVars PROVE PeopleTypes'
    BY <1>0, <1>3, PeopleTypesKept
  <1>4. CASE UNCHANGED trackingVars
    BY <1>1, <1>2, <1>3, <1>4 DEF trackingVars
  <1>5. CASE PeopleNext
    <2>1. UNCHANGED trackVars
      BY <1>5 DEF PeopleNext, DataArrives, OnParticipantConnected, OnParticipantDisconnected, OnDataPacket
    <2> QED
      BY <1>0, <1>1, <1>2, <1>5, <2>1, PeopleTypesKept
  <1>6. ASSUME NEW p \in Publications, SdkFollows(p) PROVE TrackingTypeOK'
    <2>1. UNCHANGED <<peopleVars, record, calling, settingVars>>
      BY <1>6 DEF SdkFollows
    <2>2. SdkTypes'
      BY <1>0, <1>6 DEF SdkFollows, SdkTypes
    <2>3. SettingTypes'
      BY <1>0, <2>1 DEF SettingTypes
    <2> QED
      BY <1>0, <1>1, <1>3, <2>1, <2>2, <2>3
  <1>7. ASSUME NEW p \in Publications, OnTrackSubscribed(p) \/ OnTrackUnsubscribed(p) PROVE TrackingTypeOK'
    <2>1. /\ UNCHANGED <<peopleVars, wanted, delivered, calling>> /\ callbacks[p] # <<>>
          /\ callbacks' = [callbacks EXCEPT ![p] = Tail(@)]
          /\ NewRecord(p, "full") \/ DeleteRecord(p)
      BY <1>7 DEF OnTrackSubscribed, OnTrackUnsubscribed
    <2>2. SdkTypes'
      <3>1. Tail(callbacks[p]) \in Seq({"subscribed", "unsubscribed"})
        BY <1>0, <2>1 DEF SdkTypes
      <3> QED
        BY <1>0, <2>1, <3>1 DEF SdkTypes
    <2>3. SettingTypes' /\ record' \in [Publications -> Record]
      BY <1>0, <2>1, RecordTypesKept
    <2> QED
      BY <1>0, <1>1, <1>3, <2>1, <2>2, <2>3
  <1>8. ASSUME NEW s \in Subscribers, NEW p \in Publications, SubscribeToTrack(s, p) \/ UnsubscribeFromTrack(s, p)
        PROVE  TrackingTypeOK'
    <2>1. PICK want \in BOOLEAN, doing \in {"record", "delete"} : Ask(s, p, want, doing)
      BY <1>8 DEF SubscribeToTrack, UnsubscribeFromTrack
    <2>2. [doing |-> doing, pub |-> p] \in Calling
      BY DEF Calling
    <2>3. calling' \in [Subscribers -> Calling]
      BY <1>0, <2>1, <2>2, CallingKept DEF Ask
    <2>4. SdkTypes' /\ SettingTypes' /\ record' \in [Publications -> Record] /\ UNCHANGED peopleVars
      BY <1>0, <2>1 DEF Ask, SdkTypes, SettingTypes
    <2> QED
      BY <1>1, <1>3, <2>3, <2>4
  <1>9. ASSUME NEW s \in Subscribers, Recorded(s) PROVE TrackingTypeOK'
    <2>1. /\ UNCHANGED <<peopleVars, wanted, delivered, callbacks>>
          /\ calling' = [calling EXCEPT ![s] = Idle] /\ calling[s].doing \in {"record", "delete"}
          /\ NewRecord(calling[s].pub, "bare") \/ DeleteRecord(calling[s].pub)
      BY <1>9 DEF Recorded
    <2>2. PICK p \in Publications : p = calling[s].pub
      BY <1>0, <2>1, CallingAre
    <2>3. SettingTypes' /\ record' \in [Publications -> Record]
      BY <1>0, <2>1, <2>2, RecordTypesKept
    <2>4. calling' \in [Subscribers -> Calling]
      BY <1>0, <1>a, <2>1, CallingKept
    <2>5. SdkTypes'
      BY <1>0, <2>1 DEF SdkTypes
    <2> QED
      BY <1>1, <1>3, <2>1, <2>3, <2>4, <2>5
  <1>10. ASSUME NEW s \in Subscribers, NEW p \in Publications, UnsubscribeTrack(s, p) PROVE TrackingTypeOK'
    <2>1. /\ UNCHANGED <<peopleVars, delivered, callbacks, calling>>
          /\ wanted' = [wanted EXCEPT ![p] = FALSE] /\ DeleteRecord(p)
      BY <1>10 DEF UnsubscribeTrack
    <2>2. SettingTypes' /\ record' \in [Publications -> Record]
      BY <1>0, <2>1, RecordTypesKept
    <2>3. SdkTypes'
      BY <1>0, <2>1 DEF SdkTypes
    <2> QED
      BY <1>0, <1>1, <1>3, <2>1, <2>2, <2>3
  <1>11. ASSUME NEW s \in Subscribers, NEW p \in Publications, NEW q \in VideoQualities, SetTrackQuality(s, p, q)
         PROVE  TrackingTypeOK'
    <2>1. [doing |-> "quality", pub |-> p, quality |-> q] \in Calling
      BY DEF Calling
    <2>2. calling' \in [Subscribers -> Calling]
      BY <1>0, <1>11, <2>1, CallingKept DEF SetTrackQuality
    <2>3. SdkTypes' /\ SettingTypes' /\ record' \in [Publications -> Record] /\ UNCHANGED peopleVars
      BY <1>0, <1>11 DEF SetTrackQuality, SdkTypes, SettingTypes
    <2> QED
      BY <1>1, <1>3, <2>2, <2>3
  <1>12. ASSUME NEW s \in Subscribers, NEW p \in Publications, NEW on \in BOOLEAN, EnableTrack(s, p, on)
         PROVE  TrackingTypeOK'
    <2>1. [doing |-> "enable", pub |-> p, on |-> on] \in Calling
      BY DEF Calling
    <2>2. calling' \in [Subscribers -> Calling]
      BY <1>0, <1>12, <2>1, CallingKept DEF EnableTrack
    <2>3. SdkTypes' /\ SettingTypes' /\ record' \in [Publications -> Record] /\ UNCHANGED peopleVars
      BY <1>0, <1>12 DEF EnableTrack, SdkTypes, SettingTypes
    <2> QED
      BY <1>1, <1>3, <2>2, <2>3
  <1>13. ASSUME NEW s \in Subscribers, NEW p \in Publications, SetTrackShape(s, p) PROVE TrackingTypeOK'
    <2>1. /\ SdkTypes' /\ SettingTypes' /\ record' \in [Publications -> Record] /\ UNCHANGED peopleVars
          /\ UNCHANGED calling
      BY <1>0, <1>13 DEF SetTrackShape, SdkTypes, SettingTypes
    <2> QED
      BY <1>0, <1>1, <1>3, <2>1
  <1>14. ASSUME NEW s \in Subscribers, TellSdk(s) PROVE TrackingTypeOK'
    <2>1. PICK c \in Calling : c = calling[s]
      BY <1>0
    <2>2. /\ UNCHANGED <<peopleVars, wanted, delivered, callbacks, record, preferred, shaped, fresh>>
          /\ calling' = [calling EXCEPT ![s] = Idle]
          /\ \/ c.doing = "quality" /\ asked' = [asked EXCEPT ![c.pub] = c.quality] /\ UNCHANGED enabled
             \/ c.doing = "enable" /\ enabled' = [enabled EXCEPT ![c.pub] = c.on] /\ UNCHANGED asked
      BY <1>14, <2>1 DEF TellSdk
    <2>3. asked' \in [Publications -> VideoQualities]
      BY <1>0, <2>1, <2>2, CallingAre DEF SettingTypes
    <2>4. enabled' \in [Publications -> BOOLEAN]
      BY <1>0, <2>1, <2>2, CallingAre DEF SettingTypes
    <2>5. calling' \in [Subscribers -> Calling]
      BY <1>0, <1>a, <2>2, CallingKept
    <2>6. SdkTypes' /\ SettingTypes'
      BY <1>0, <2>2, <2>3, <2>4 DEF SdkTypes, SettingTypes
    <2> QED
      BY <1>0, <1>1, <1>3, <2>2, <2>5, <2>6
  <1> QED
    BY <1>4, <1>5, <1>6, <1>7, <1>8, <1>9, <1>10, <1>11, <1>12, <1>13, <1>14 DEF TrackingNext, TracksNext

LEMMA TrackingAlwaysTyped == TrackingSpec => []TrackingTypeOK
  <1>1. TrackingInit => TrackingTypeOK
    <2> SUFFICES ASSUME TrackingInit PROVE TrackingTypeOK
      OBVIOUS
    <2>1. PeopleTypes
      <3>1. present \in [TrackedRooms -> SUBSET People]
        BY DEF TrackingInit
      <3> QED
        BY <3>1 DEF TrackingInit, PeopleTypes
    <2>2. SettingTypes
      BY TrackingAssumption DEF TrackingInit, SettingTypes
    <2>3. SdkTypes
      BY DEF TrackingInit, SdkTypes
    <2>4. record \in [Publications -> Record] /\ calling \in [Subscribers -> Calling]
      BY DEF TrackingInit, Record, Calling
    <2> QED
      BY <2>1, <2>2, <2>3, <2>4, TrackingTypesAre
  <1> QED
    BY <1>1, TrackingTypeStep, PTL DEF TrackingSpec


-------------------------------------------------------------------------------
\* A step of the rooms is a step of the system that runs, and leaves the others alone.
LEMMA RoomSteps ==
  [Next]_roomVars =>
    /\ [QualityNext]_qualityVars /\ [~sendPanicked /\ EventsNext]_eventVars
    /\ [ThrottleNext]_throttleVars /\ [HandlersNext]_handlerVars
    /\ [CoordinatorNext]_coordinatorVars /\ [TrackingNext]_trackingVars
    /\ [PermissionsNext]_permissionVars /\ [ConnectionQualityNext]_connectionQualityVars
    /\ [SubscriptionNext]_subscriptionVars /\ [UniversalEventsNext]_universalVars
    /\ [UtilitiesNext]_utilityVars /\ [RoomCallsNext]_roomCallVars
  <1>1. CASE UNCHANGED roomVars
    <2>1. /\ UNCHANGED <<qualityVars, eventVars, throttleVars, handlerVars, coordinatorVars>>
          /\ UNCHANGED <<trackingVars, permissionVars, connectionQualityVars>>
          /\ UNCHANGED <<subscriptionVars, universalVars, utilityVars, roomCallVars>>
      BY <1>1 DEF roomVars
    <2> QED
      BY <2>1
  <1>2. CASE Next
    <2>1. (QualityNext) \/ UNCHANGED qualityVars
      BY <1>2 DEF Next, OthersRest, Coordinators
    <2>2. (~sendPanicked /\ EventsNext) \/ UNCHANGED eventVars
      BY <1>2 DEF Next, OthersRest, Coordinators
    <2>3. (ThrottleNext) \/ UNCHANGED throttleVars
      BY <1>2 DEF Next, OthersRest, Coordinators
    <2>4. (HandlersNext) \/ UNCHANGED handlerVars
      BY <1>2 DEF Next, OthersRest, Coordinators
    <2>5. (ParticipantsNext \/ GroupsNext \/ ActivityNext \/ BookNext) \/ UNCHANGED coordinatorVars
      BY <1>2 DEF Next, OthersRest, Coordinators
    <2>6. (PermissionsNext) \/ UNCHANGED permissionVars
      BY <1>2 DEF Next, OthersRest, Coordinators
    <2>7. (ConnectionQualityNext) \/ UNCHANGED connectionQualityVars
      BY <1>2 DEF Next, OthersRest, Coordinators
    <2>8. (SubscriptionNext) \/ UNCHANGED subscriptionVars
      BY <1>2 DEF Next, OthersRest, Coordinators
    <2>9. (UniversalEventsNext) \/ UNCHANGED universalVars
      BY <1>2 DEF Next, OthersRest, Coordinators
    <2>10. (UtilitiesNext) \/ UNCHANGED utilityVars
      BY <1>2 DEF Next, OthersRest, Coordinators
    <2>11. (RoomCallsNext) \/ UNCHANGED roomCallVars
      BY <1>2 DEF Next, OthersRest, Coordinators
    <2>12. TrackingNext \/ UNCHANGED trackingVars
      <3>1. CASE system \notin {"people", "tracks"}
        <4>1. UNCHANGED <<peopleVars, trackVars>>
          BY <1>2, <3>1 DEF Next, OthersRest, Coordinators
        <4> QED
          BY <4>1 DEF trackingVars
      <3>2. CASE system \in {"people", "tracks"}
        BY <1>2, <3>2 DEF Next, OthersRest, TrackingNext, Coordinators
      <3> QED
        BY <3>1, <3>2
    <2> QED
      BY <2>1, <2>2, <2>3, <2>4, <2>5, <2>6, <2>7, <2>8, <2>9, <2>10, <2>11, <2>12 DEF CoordinatorNext
  <1> QED
    BY <1>1, <1>2

\* All that is kept of the rooms, of which one system runs and the others rest, for any
\* number of rooms, participants, publications and goroutines, and one caller that
\* subscribes: the invariants of its systems hold together.
THEOREM RoomCorrect ==
  ASSUME \A s, t \in Subscribers : s = t
  PROVE  Spec => []RoomOK
  <1>1. /\ Init => QualityInit /\ EventsInit /\ ThrottleInit /\ ProcessedInit /\ CoordinatorInit
        /\ Init => TrackingInit /\ PermissionsInit /\ ConnectionQualityInit /\ SubscriptionInit
        /\ Init => UniversalEventsInit /\ UtilitiesInit /\ RoomCallsInit
    BY DEF Init
  <1>2. [Next]_roomVars =>
          /\ [QualityNext]_qualityVars /\ [~sendPanicked /\ EventsNext]_eventVars
          /\ [ThrottleNext]_throttleVars /\ [HandlersNext]_handlerVars
          /\ [CoordinatorNext]_coordinatorVars /\ [TrackingNext]_trackingVars
          /\ [PermissionsNext]_permissionVars /\ [ConnectionQualityNext]_connectionQualityVars
          /\ [SubscriptionNext]_subscriptionVars /\ [UniversalEventsNext]_universalVars
          /\ [UtilitiesNext]_utilityVars /\ [RoomCallsNext]_roomCallVars
    BY RoomSteps
  <1>3. Spec => [](QualityTypeOK /\ OptimalFollowsConnection) /\ []EventsTypeOK
    BY <1>1, <1>2, OptimalAlwaysFollows, EventsAlwaysTyped, PTL DEF Spec, QualitySpec, EventsSpec
  <1>4. Spec => []ThrottledInEveryMinute /\ []HandledByAll
    BY <1>1, <1>2, ThrottledAlways, EventsAlwaysHandedToAll, PTL DEF Spec
  <1>5. Spec => []BookIsRight /\ [](CoordinatorTypeOK /\ GraphCountsOnce /\ BusyAreNotified)
    BY <1>1, <1>2, BookAlwaysRight, CoordinatorCounts, PTL DEF Spec, CoordinatorSpec
  <1>6. Spec => /\ []TrackingTypeOK /\ [](PresentAreKnown /\ SenderInItsRoom) /\ []QualityAskedFor
    <2>1. TrackingSpec => []QualityAskedFor
      BY QualityAlwaysAskedFor
    <2> QED
      BY <1>1, <1>2, <2>1, TrackingAlwaysTyped, PresentAreAlwaysKnown, PTL DEF Spec, TrackingSpec
  <1>7. Spec => [](PermissionsTypeOK /\ HistoryExplains)
    BY <1>1, <1>2, HistoryAlwaysExplains, PTL DEF Spec, PermissionsSpec
  <1>8. Spec => [](ConnectionQualityTypeOK /\ StableIsCurrent /\ ChangesBalance)
    BY <1>1, <1>2, ConnectionAnswers, PTL DEF Spec, ConnectionQualitySpec
  <1>9. Spec => [](SubscriptionTypeOK /\ FiltersOnlyRefuse)
    BY <1>1, <1>2, FiltersAlwaysOnlyRefuse, PTL DEF Spec, SubscriptionSpec
  <1>10. Spec => [](UniversalEventsTypeOK /\ HandledInOrder /\ OnlyKnownRecorded)
    BY <1>1, <1>2, EventsAlwaysInOrder, PTL DEF Spec, UniversalEventsSpec
  <1>11. Spec => [](UtilitiesTypeOK /\ LeastLoadedIsLeast /\ TimeoutAfterLastLook)
    BY <1>1, <1>2, UtilitiesCorrect, PTL DEF Spec, UtilitiesSpec
  <1>12. Spec => [](RoomCallsTypeOK /\ AnsweredByOwnRoom /\ ToldOfItsRoom)
    BY <1>1, <1>2, AnsweredByOwnRoomAlways, PTL DEF Spec, RoomCallsSpec
  <1>13. /\ QualityTypeOK /\ OptimalFollowsConnection /\ EventsTypeOK
         /\ ThrottledInEveryMinute /\ HandledByAll
         /\ BookIsRight /\ CoordinatorTypeOK /\ GraphCountsOnce /\ BusyAreNotified
         /\ TrackingTypeOK /\ PresentAreKnown /\ SenderInItsRoom /\ QualityAskedFor
         /\ PermissionsTypeOK /\ HistoryExplains
         /\ ConnectionQualityTypeOK /\ StableIsCurrent /\ ChangesBalance
         /\ SubscriptionTypeOK /\ FiltersOnlyRefuse
         /\ UniversalEventsTypeOK /\ HandledInOrder /\ OnlyKnownRecorded
         /\ UtilitiesTypeOK /\ LeastLoadedIsLeast /\ TimeoutAfterLastLook
         /\ RoomCallsTypeOK /\ AnsweredByOwnRoom /\ ToldOfItsRoom
         => RoomOK
    BY DEF RoomOK
  <1> QED
    BY <1>3, <1>4, <1>5, <1>6, <1>7, <1>8, <1>9, <1>10, <1>11, <1>12, <1>13, PTL
===============================================================================
