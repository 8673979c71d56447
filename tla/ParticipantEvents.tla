--------------------------- MODULE ParticipantEvents ---------------------------
(***************************************************************************)
(* ParticipantEventProcessor: callers of QueueEvent, the goroutine         *)
(* processEvents that calls the handlers, callers of ProcessPendingEvents, *)
(* the goroutine processBatches with the timers of its batch, and Stop.    *)
(* Both goroutines receive from the one eventQueue.                        *)
(*                                                                         *)
(* One batch processor that takes every event (MetricsBatchProcessor);     *)
(* several share nothing but the lock.  Events are numbered as they are    *)
(* accepted; a receive from the closed queue gives the zero event.         *)
(*                                                                         *)
(* What is done with one event stands by itself: the ThrottleFilter that   *)
(* QueueEvent asks, and processEvent with its handlers, history and        *)
(* metrics, which the worker and callers of ProcessPendingEvents run side  *)
(* by side.                                                                *)
(***************************************************************************)
EXTENDS Integers, Sequences, FiniteSets

CONSTANTS
    ThrottledPeople, \* participants whose events are throttled
    MaxPerMinute,   \* of the ThrottleFilter
    Minute,         \* its window
    MaxThrottleTime, \* bound on its clock
    HandledTypes,   \* types handlers are registered for
    TypeHandlers,   \* handlers
    Processors,     \* goroutines that call processEvent
    EventHistorySize, \* p.historySize
    MaxProcessed    \* bound on the events processed

ASSUME HandlersAssumption ==
    /\ MaxPerMinute \in Nat \ {0} /\ Minute \in Nat \ {0} /\ MaxThrottleTime \in Nat
    /\ EventHistorySize \in Nat \ {0} /\ MaxProcessed \in Nat

CONSTANTS
    Callers,        \* goroutines that call QueueEvent
    MaxEvents,      \* bound on the events that are queued
    QueueLimit,     \* the capacity of eventQueue
    BatchSize,      \* GetBatchSize()
    MaxZeros        \* bound on the zero events a goroutine takes from the closed queue

ASSUME EventsAssumption ==
    /\ MaxEvents \in Nat /\ QueueLimit \in Nat \ {0}
    /\ BatchSize \in Nat \ {0} /\ MaxZeros \in Nat

VARIABLES
    accepted,       \* events numbered so far
    sending,        \* the event each caller of QueueEvent sends; 0 for none
    eventQueue,     \* what eventQueue holds
    lost,           \* events QueueEvent dropped, filtered or sent too late
    handling,       \* the event processEvents works on; 0 for none
    handled,        \* events whose handlers ran
    batch,          \* batchMap[processor]
    hasBatch,       \* whether batchMap has the key
    timer,          \* the timer in timers: none, armed, or fired
    strayTimers,    \* armed timers that are not in timers any more
    runningTimers,  \* timers that have fired and whose function has not run
    batched,        \* the batches ProcessBatch was called with
    worker,         \* where processEvents is
    batcher,        \* where processBatches is
    zeros,          \* zero events received
    stopStage,      \* how far Stop is
    sendPanicked    \* a send met the closed queue

eventVars ==
    <<accepted, sending, eventQueue, lost, handling, handled, batch, hasBatch, timer,
      strayTimers, runningTimers, batched, worker, batcher, zeros, stopStage, sendPanicked>>

Events == 1..MaxEvents

StopStage == {"running", "cancelled", "closed", "returned"}

EventsTypeOK ==
    /\ accepted \in 0..MaxEvents
    /\ sending \in [Callers -> 0..MaxEvents]
    /\ eventQueue \in Seq(Events) /\ Len(eventQueue) <= QueueLimit
    /\ lost \subseteq Events
    /\ handling \in 0..MaxEvents
    /\ handled \subseteq Events
    /\ batch \in Seq(0..MaxEvents)
    /\ hasBatch \in BOOLEAN
    /\ timer \in {"none", "armed", "fired"}
    /\ strayTimers \in Nat
    /\ runningTimers \in Nat
    /\ batched \subseteq Seq(0..MaxEvents)
    /\ worker \in {"select", "handle", "done"}
    /\ batcher \in {"select", "full", "done"}
    /\ zeros \in 0..MaxZeros
    /\ stopStage \in StopStage
    /\ sendPanicked \in BOOLEAN

EventsInit ==
    /\ accepted = 0
    /\ sending = [c \in Callers |-> 0]
    /\ eventQueue = <<>>
    /\ lost = {} /\ handled = {} /\ batched = {}
    /\ handling = 0
    /\ batch = <<>> /\ hasBatch = FALSE
    /\ timer = "none" /\ strayTimers = 0 /\ runningTimers = 0
    /\ worker = "select" /\ batcher = "select"
    /\ zeros = 0
    /\ stopStage = "running"
    /\ sendPanicked = FALSE

Cancelled == stopStage # "running"
Closed == stopStage \in {"closed", "returned"}

callerVars == <<accepted, sending, lost, sendPanicked>>
workerVars == <<handling, handled, worker>>
batchVars == <<batch, hasBatch, timer, strayTimers, runningTimers, batched, batcher>>

-------------------------------------------------------------------------------
(* QueueEvent().                                                             *)

\* An event is numbered; a filter may drop it.
QueueEvent(c) ==
    /\ sending[c] = 0
    /\ accepted < MaxEvents
    /\ accepted' = accepted + 1
    /\ \/ sending' = [sending EXCEPT ![c] = accepted + 1] /\ UNCHANGED lost
       \/ lost' = lost \cup {accepted + 1} /\ UNCHANGED sending
    /\ UNCHANGED <<eventQueue, workerVars, batchVars, zeros, stopStage, sendPanicked>>

Sent(c) ==
    /\ sending[c] # 0
    /\ IF Closed
       THEN /\ sendPanicked' = TRUE
            /\ lost' = lost \cup {sending[c]}
            /\ UNCHANGED eventQueue
       ELSE /\ Len(eventQueue) < QueueLimit
            /\ eventQueue' = Append(eventQueue, sending[c])
            /\ UNCHANGED <<lost, sendPanicked>>
    /\ sending' = [sending EXCEPT ![c] = 0]
    /\ UNCHANGED <<accepted, workerVars, batchVars, zeros, stopStage>>

\* The queue has been full for a second.
SendTimesOut(c) ==
    /\ sending[c] # 0
    /\ Len(eventQueue) = QueueLimit /\ ~Closed
    /\ lost' = lost \cup {sending[c]}
    /\ sending' = [sending EXCEPT ![c] = 0]
    /\ UNCHANGED <<accepted, eventQueue, workerVars, batchVars, zeros, stopStage, sendPanicked>>

-------------------------------------------------------------------------------
(* processEvents() and ProcessPendingEvents().                               *)

\* A receive: the first event, or the zero event of the closed and empty queue.
Receive(e) ==
    \/ eventQueue # <<>> /\ e = Head(eventQueue) /\ eventQueue' = Tail(eventQueue)
       /\ UNCHANGED zeros
    \/ eventQueue = <<>> /\ Closed /\ e = 0 /\ zeros < MaxZeros
       /\ zeros' = zeros + 1 /\ UNCHANGED eventQueue

WorkerTakes ==
    /\ worker = "select"
    /\ eventQueue # <<>>
    /\ Receive(Head(eventQueue))
    /\ handling' = Head(eventQueue)
    /\ worker' = "handle"
    /\ UNCHANGED <<callerVars, handled, batchVars, stopStage>>

WorkerHandles ==
    /\ worker = "handle"
    /\ handled' = handled \cup {handling}
    /\ handling' = 0
    /\ worker' = "select"
    /\ UNCHANGED <<callerVars, eventQueue, batchVars, zeros, stopStage>>

\* The context is cancelled, or the queue closed and empty.
WorkerEnds ==
    /\ worker = "select"
    /\ Cancelled
    /\ worker' = "done"
    /\ UNCHANGED <<callerVars, eventQueue, handling, handled, batchVars, zeros, stopStage>>

\* A caller of ProcessPendingEvents takes an event and runs its handlers.
ProcessPendingEvent ==
    /\ \E e \in 0..MaxEvents :
        /\ Receive(e)
        /\ handled' = handled \cup ({e} \ {0})
    /\ UNCHANGED <<callerVars, handling, worker, batchVars, stopStage>>

-------------------------------------------------------------------------------
(* processBatches() and the functions of its timers.                         *)

\* The first event of a batch starts a timer.
BatcherTakes ==
    /\ batcher = "select"
    /\ \E e \in 0..MaxEvents :
        /\ Receive(e)
        /\ batch' = Append(batch, e)
    /\ hasBatch' = TRUE
    /\ timer' = IF hasBatch THEN timer ELSE "armed"
    /\ batcher' = "full"
    /\ UNCHANGED <<callerVars, workerVars, strayTimers, runningTimers, batched, stopStage>>

\* Mutation of BatcherChecks: the timer of a full batch is stopped and its batch kept.
BatcherKeepsBatch ==
    /\ batcher = "full"
    /\ batcher' = "select"
    /\ IF Len(batch) >= BatchSize
       THEN timer' = "none" /\ batched' = batched \cup {batch} /\ UNCHANGED <<batch, hasBatch>>
       ELSE UNCHANGED <<timer, batched, batch, hasBatch>>
    /\ UNCHANGED <<callerVars, workerVars, eventQueue, strayTimers, runningTimers>>
    /\ UNCHANGED <<zeros, stopStage>>

\* The check whether the batch is full takes the lock anew: a timer may have taken the
\* batch meanwhile.  Stopping a timer that has fired does nothing.
BatcherChecks ==
    /\ batcher = "full"
    /\ batcher' = "select"
    /\ IF Len(batch) >= BatchSize
       THEN /\ timer' = "none"
            /\ batch' = <<>> /\ hasBatch' = FALSE
            /\ batched' = batched \cup {batch}
       ELSE UNCHANGED <<timer, batch, hasBatch, batched>>
    /\ UNCHANGED <<callerVars, workerVars, eventQueue, strayTimers, runningTimers>>
    /\ UNCHANGED <<zeros, stopStage>>

\* The context is cancelled: what is left is processed and the timers are stopped.
BatcherEnds ==
    /\ batcher = "select"
    /\ Cancelled
    /\ batcher' = "done"
    /\ batched' = IF batch = <<>> THEN batched ELSE batched \cup {batch}
    /\ batch' = <<>> /\ hasBatch' = FALSE
    /\ timer' = "none"
    /\ UNCHANGED <<callerVars, workerVars, eventQueue, strayTimers, runningTimers>>
    /\ UNCHANGED <<zeros, stopStage>>

TimerFires ==
    /\ \/ timer = "armed" /\ timer' = "fired" /\ UNCHANGED strayTimers
       \/ strayTimers > 0 /\ strayTimers' = strayTimers - 1 /\ UNCHANGED timer
    /\ runningTimers' = runningTimers + 1
    /\ UNCHANGED <<callerVars, workerVars, eventQueue, batch, hasBatch, batched, batcher, zeros,
                   stopStage>>

\* The function of a timer flushes whatever batch is there, its own or a later one, whose
\* timer is forgotten without being stopped; there may be none left.
TimerFlushes ==
    /\ runningTimers > 0
    /\ runningTimers' = runningTimers - 1
    /\ batched' = batched \cup {batch}
    /\ batch' = <<>> /\ hasBatch' = FALSE
    /\ timer' = "none"
    /\ strayTimers' = strayTimers + (IF timer = "armed" THEN 1 ELSE 0)
    /\ UNCHANGED <<callerVars, workerVars, eventQueue, batcher, zeros, stopStage>>

-------------------------------------------------------------------------------
(* Stop().                                                                   *)

EventsStop(from, to) ==
    /\ stopStage = from
    /\ stopStage' = to
    /\ UNCHANGED <<callerVars, eventQueue, workerVars, batchVars, zeros>>

EventsStopReturns == worker = "done" /\ batcher = "done" /\ EventsStop("closed", "returned")

EventsNext ==
    \/ \E c \in Callers : QueueEvent(c) \/ Sent(c) \/ SendTimesOut(c)
    \/ WorkerTakes \/ WorkerHandles \/ WorkerEnds \/ ProcessPendingEvent
    \/ BatcherTakes \/ BatcherChecks \/ BatcherEnds \/ TimerFires \/ TimerFlushes
    \/ EventsStop("running", "cancelled") \/ EventsStop("cancelled", "closed") \/ EventsStopReturns

EventsSpec == EventsInit /\ [][~sendPanicked /\ EventsNext]_eventVars

-------------------------------------------------------------------------------
(* ThrottleFilter.                                                           *)

VARIABLES
    throttleTime,   \* time.Now()
    throttled,      \* f.counts: the times of the events each participant got through
    passed          \* all of them, none cleaned up

throttleVars == <<throttleTime, throttled, passed>>

ThrottleInit ==
    /\ throttleTime = 0
    /\ throttled = [i \in ThrottledPeople |-> <<>>]
    /\ passed = [i \in ThrottledPeople |-> <<>>]

ThrottleTicks ==
    /\ throttleTime < MaxThrottleTime
    /\ throttleTime' = throttleTime + 1
    /\ UNCHANGED <<throttled, passed>>

\* Those of the times that are after the cutoff.
LastMinute(times) ==
    LET kept[n \in 0..Len(times)] ==
            IF n = 0 THEN <<>>
            ELSE IF times[n] > throttleTime - Minute THEN Append(kept[n - 1], times[n])
                 ELSE kept[n - 1]
    IN  kept[Len(times)]

\* Filter() for an event of i, under the lock: entries that are too old go, and the event
\* gets through unless as many as may are left.
Filter(i) ==
    LET times == LastMinute(throttled[i])
    IN  /\ IF Len(times) >= MaxPerMinute
           THEN /\ throttled' = [throttled EXCEPT ![i] = times]
                /\ UNCHANGED passed
           ELSE /\ throttled' = [throttled EXCEPT ![i] = Append(times, throttleTime)]
                /\ passed' = [passed EXCEPT ![i] = Append(@, throttleTime)]
        /\ UNCHANGED throttleTime

ThrottleNext == ThrottleTicks \/ \E i \in ThrottledPeople : Filter(i)

-------------------------------------------------------------------------------
(* processEvent().                                                           *)

VARIABLES
    eventHandlers,  \* p.handlers
    eventHistory,   \* p.eventHistory
    begun,          \* the events taken up: their type, and how many handlers it had
    processing,     \* what each goroutine does: [at, event, left, failed]
    eventMetrics,   \* p.processingMetrics
    ran             \* for each event the handlers that ran for it

handlerVars == <<eventHandlers, eventHistory, begun, processing, eventMetrics, ran>>

NotProcessing == [at |-> "idle", event |-> 0, left |-> <<>>, failed |-> FALSE]

ProcessedInit ==
    /\ eventHandlers = [t \in HandledTypes |-> <<>>]
    /\ eventHistory = <<>> /\ begun = <<>> /\ ran = <<>>
    /\ processing = [g \in Processors |-> NotProcessing]
    /\ eventMetrics = [processed |-> 0, failed |-> 0]

RegisterHandler(t, h) ==
    /\ \A i \in DOMAIN eventHandlers[t] : eventHandlers[t][i] # h
    /\ eventHandlers' = [eventHandlers EXCEPT ![t] = Append(@, h)]
    /\ UNCHANGED <<eventHistory, begun, processing, eventMetrics, ran>>

LatestEvents(history) ==
    IF Len(history) > EventHistorySize
    THEN SubSeq(history, Len(history) - EventHistorySize + 1, Len(history)) ELSE history

\* The event goes into the history ...
RecordHistory(g, t) ==
    /\ processing[g].at = "idle"
    /\ Len(begun) < MaxProcessed
    /\ begun' = Append(begun, [type |-> t, had |-> Len(eventHandlers[t])])
    /\ ran' = Append(ran, <<>>)
    /\ eventHistory' = LatestEvents(Append(eventHistory, Len(begun) + 1))
    /\ processing' = [processing EXCEPT ![g] = [@ EXCEPT !.at = "take", !.event = Len(begun) + 1]]
    /\ UNCHANGED <<eventHandlers, eventMetrics>>

\* ... the handlers of its type are taken, under the lock again ...
TakeHandlers(g) ==
    /\ processing[g].at = "take"
    /\ processing' = [processing EXCEPT
            ![g].at = "run", ![g].left = eventHandlers[begun[processing[g].event].type]]
    /\ UNCHANGED <<eventHandlers, eventHistory, begun, eventMetrics, ran>>

\* ... each is called, whether one before it failed or not ...
RunHandler(g) ==
    /\ processing[g].at = "run" /\ processing[g].left # <<>>
    /\ \E failed \in BOOLEAN :
          processing' = [processing EXCEPT
                ![g] = [processing[g] EXCEPT !.left = Tail(@), !.failed = @ \/ failed]]
    /\ ran' = [ran EXCEPT ![processing[g].event] = Append(@, Head(processing[g].left))]
    /\ UNCHANGED <<eventHandlers, eventHistory, begun, eventMetrics>>

\* ... and the event is counted.
CountEvent(g) ==
    /\ processing[g].at = "run" /\ processing[g].left = <<>>
    /\ eventMetrics' = IF processing[g].failed THEN [eventMetrics EXCEPT !.failed = @ + 1]
                       ELSE [eventMetrics EXCEPT !.processed = @ + 1]
    /\ processing' = [processing EXCEPT ![g] = NotProcessing]
    /\ UNCHANGED <<eventHandlers, eventHistory, begun, ran>>

\* GetEventHistory(limit): the newest ones.
GetEventHistory(limit) ==
    LET n == Len(eventHistory)
        wanted == IF limit = 0 \/ limit > n THEN n ELSE limit
    IN  SubSeq(eventHistory, n - wanted + 1, n)

HandlersNext ==
    \/ \E t \in HandledTypes : \/ \E h \in TypeHandlers : RegisterHandler(t, h)
                             \/ \E g \in Processors : RecordHistory(g, t)
    \/ \E g \in Processors : TakeHandlers(g) \/ RunHandler(g) \/ CountEvent(g)

-------------------------------------------------------------------------------
(* Properties.                                                               *)

InCallers == {sending[c] : c \in Callers} \ {0}
InQueue == {eventQueue[i] : i \in DOMAIN eventQueue}
InWorker == {handling} \ {0}
InBatch == {batch[i] : i \in DOMAIN batch} \ {0}
InBatches == (UNION {{b[i] : i \in DOMAIN b} : b \in batched}) \ {0}

\* No schedule of callers, worker, batcher and timers loses or repeats an event: each one
\* that was accepted is in exactly one place, up to the handlers or a batch.
EachEventInOnePlace ==
    LET places == <<InCallers, lost, InQueue, InWorker, handled, InBatch, InBatches>>
    IN  /\ UNION {places[i] : i \in DOMAIN places} = 1..accepted
        /\ \A i, j \in DOMAIN places : i # j => places[i] \cap places[j] = {}
        /\ \A b \in batched \cup {batch} : \A i, j \in DOMAIN b :
            b[i] = b[j] /\ b[i] # 0 => i = j

\* A batch never waits without a timer: however often the function of an older timer has
\* flushed a newer batch, what lies in batchMap will be flushed, by the check that
\* follows or by a timer that is armed or has fired.
BatchHasTimer ==
    hasBatch => batcher = "full" \/ timer = "armed" \/ strayTimers > 0 \/ runningTimers > 0

\* A participant never gets more events through than MaxPerMinute in any minute, wherever
\* that minute begins; and one that is refused has used up the minute before.
ThrottledInEveryMinute ==
    \A i \in ThrottledPeople :
        /\ \A k \in DOMAIN passed[i] : k + MaxPerMinute \in DOMAIN passed[i]
               => passed[i][k + MaxPerMinute] - passed[i][k] >= Minute
        /\ LastMinute(passed[i]) = LastMinute(throttled[i])

\* The history is of the latest events, in the order they were taken up, of whichever
\* goroutines; and an event that was counted was handed to every handler that was
\* registered when it was taken up, in order, each once, whatever others returned.
HandledByAll ==
    /\ eventHistory = LatestEvents([n \in DOMAIN begun |-> n])
    /\ \A limit \in 0..EventHistorySize : \A i \in DOMAIN GetEventHistory(limit) :
          GetEventHistory(limit)[i] = Len(begun) - Len(GetEventHistory(limit)) + i
    /\ eventMetrics.processed + eventMetrics.failed
          + Cardinality({g \in Processors : processing[g].at # "idle"}) = Len(begun)
    /\ \A n \in DOMAIN begun :
          LET registered == eventHandlers[begun[n].type]
              busy == {g \in Processors : processing[g].event = n}
              left == IF busy = {} THEN <<>> ELSE processing[CHOOSE g \in busy : TRUE].left
              all == ran[n] \o left
          IN  /\ all = SubSeq(registered, 1, Len(all))
              /\ (\A g \in busy : processing[g].at = "run") => Len(all) >= begun[n].had

\* MetricsBatchProcessor: "Batch all events for metrics": once the goroutines rest, an
\* event that was queued and not dropped is in a batch.
AllEventsBatched ==
    stopStage = "running" /\ eventQueue = <<>> /\ worker = "select" /\ batcher = "select"
        => handled \subseteq InBatch \cup InBatches
===============================================================================
