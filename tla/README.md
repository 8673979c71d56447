# A TLA+ development of the LiveKit agent SDK for Go

This directory holds TLA+ specifications of the parts of `pkg/agent` that carry the
SDK's own logic, the TLC configurations that check them on small instances, and
theorems about them with proofs checked by TLAPS. `PROJECT.json` lists the components,
the runs, the mutations each property is tested against, the source lines behind every
definition, the hazards of the code and the theorems.

## 1. The system

A `UniversalWorker` keeps one WebSocket connection to a LiveKit server. It registers,
answers availability requests, and runs one goroutine per assigned job; the goroutine
joins the job's room as a participant and calls the user's `UniversalHandler`. The
worker reports the status of each job and its own load, sends pings, reconnects with
backoff when the connection is lost, and stops on `Stop`, `StopWithTimeout` or when the
context of `Start` ends. Around it stand helpers: a priority queue of jobs, a pool of
resources, shutdown hooks, job recovery, resource limits and monitors, and for the media
of a job a pipeline with transcription, translation and speech stages.

| component | state it keeps | operations | talks to |
|---|---|---|---|
| worker connection (`universal_worker_websocket.go`, `Start`, `Stop`) | `conn`, `wsState`, `reconnecting`, `reconnectChan`, handler context, `healthCheck` | `connect`, `maintainConnection`, `sendPing`, `handleMessages`, `handleConnectionError`, `reconnect`, `Stop` | server, job lifecycle, status delivery |
| job lifecycle (`universal_worker.go`) | `activeJobs`, `rooms`, `pendingJobMetadata`, job contexts | `handleAvailabilityRequest`, `handleJobAssignment`, `runJobHandler`, `handleJobTermination`, room callbacks | connection, handler, room SDK |
| worker shutdown (`Stop`, `StopWithTimeout`) | `stopOnce`, `stopCh`, `doneCh`, the order of what is stopped | `Stop`, `StopWithTimeout`, hooks, `OnJobTerminated` | nearly everything |
| status delivery (`universal_helpers.go`) | `statusQueue`, `statusQueueChan`, retry counts | `updateJobStatus`, `queueStatusUpdate`, `handleStatusUpdateRetries`, `processStatusQueue` | connection, job lifecycle |
| load (`load_calculator.go`) | pending load, timer; window of loads; measured figures | `LoadBatcher.Start`, `Update`, `flush`, `Stop`; three calculators and the metrics collector | connection |
| job queue (`job_queue.go`) | heap, `waitChan`, `closed` | `Enqueue`, `Dequeue`, `DequeueWithContext`, `RemoveJob`, `Peek`, `Close`, priority calculators | its callers |
| resource pool (`resource_pool.go`) | channel of resources, counters, `closed` | `Acquire`, `Release`, `createAsync`, `cleanupIdle`, `Close` | its factory |
| network handler (`network_handler.go`) | partial-write buffers, partition flag, monitor | `WriteMessageWithRetry`, `DetectNetworkPartition`, `ResolveDNSWithRetry`, `NetworkMonitor` | connection |
| race protector (`race_protection.go`) | flags, terminations, pending updates | `CanAcceptJob`, `RecordTerminationRequest`, `CompleteTermination`, `QueueStatusUpdate`, `FlushPendingStatusUpdates` | its callers |
| job recovery (`job_recovery.go`) | saved jobs, attempts; fragments and checkpoints | `SaveJobForRecovery`, `AttemptJobRecovery`, `PartialMessageBuffer`, `JobCheckpoint` | worker, room SDK |
| shutdown hooks, timing, limits, monitor, protocol | lists, deadlines, samples and counters guarded by a mutex | phases of hooks; skew and back-pressure; limit checks; cycle detection; versions and unknown messages | worker, operating system |
| room records of the worker (`universal_worker.go`) | participants, tracks, publications, target, per job and per room | room SDK's callbacks, `SubscribeToTrack`, `PublishTrack`, `GetJobContext` and the other queries, the event processor | room SDK, job lifecycle, handler |
| participants (`participant_*.go`, `multi_participant_coordinator.go`) | event queue, batches, participants, groups, activities, permissions | queue, process, register, group, request | room SDK, handler |
| tracks (`quality_controller.go`, `track_subscription_manager.go`) | quality monitors, settings, filters, measurements | start and stop monitoring, adapt, subscribe, measure | room SDK |
| media (`media_pipeline*.go`) | stages, tracks, buffers, receivers, circuit breakers, provider connections, figures | add, process, stop, route, connect, translate, speak, broadcast | external providers |
| job utilities (`utils.go`) | loads of a fleet | `LoadBalancer`, `WaitForParticipant` | room SDK |

What makes it hard: the driver goroutine, several readers, one goroutine per job, the room
SDK's callbacks and the callers of `Stop` share a handful of fields under one lock that is
released between a decision and the act that follows from it; connections fail in several
ways; and most failures are only noticed by a timer.

What must hold, component by component:

- **Connection.** The `reconnecting` flag is never left set with nobody bound to release
  it; a worker without a connection always has a reconnection on its way; a lost connection
  is noticed; after Stop the goroutines end. Nobody else reads a reader's connection, a
  stopped worker holds no open connection, and a connection is given up for missing pongs
  only if it was pinged: these three do not hold (section 7).
- **Job lifecycle.** No record outlives the job's goroutine; the worker never loses its hold
  on a running handler; an ended job's last status is terminal; room callbacks find the room
  of their job.
- **Reporting.** A status update is in one place until it is sent or given up, is given up
  only after all its retries, never waits for the tick, and is settled in the end; the latest
  load is pending until it is handed over, the last one before Stop included. A message kept
  after a failed write goes out once and in its place.
- **Queue and pool.** Consumers never all sleep beside a job, the limit holds; a resource has
  one owner, the counters agree with the channel, a closed pool leaks nothing.
- **Recovery, shutdown, race protector.** A saved job is not forgotten by an older attempt; a
  job's termination is run by one guard; Stop returns when everything it waits for is stopped.
- **Participants and tracks.** Groups and members agree; each queued event is in one place; a
  waiting batch has a timer; starting and stopping monitors leaves one loop while there are
  tracks; the worker's records of a room agree with the room once callbacks and calls rest.
- **Media.** Stages see the samples of a track in order; a stopped track has no goroutine, and
  Stop returns; routes and connections agree; a transcription reaches one frame, the speech of
  no language is lost; a breaker opens and closes as a circuit breaker does.

## 2. Modules

| module | models | run | proofs |
|---|---|---|---|
| `WorkerConnection` | the connection, its driver, readers, error reports, Stop | `connection*` | `WorkerConnectionProofs` |
| `JobLifecycle` | jobs from request to end, updateLoad, room callbacks, Stop | `lifecycle` | `JobLifecycleProofs` |
| `JobQueue` | the priority queue, its blocked consumers, priorities of jobs | `collections` | `CollectionsProofs` |
| `ResourcePool` | the pool, its users, creators, cleanup, Close | `collections` | `CollectionsProofs` |
| `ServerLink` | what reporting sees of the connection | `reporting` | `ReportingProofs` |
| `StatusDelivery` (extends `ServerLink`) | status updates and their retries | `reporting` | `ReportingProofs` |
| `LoadReporting` (extends `ServerLink`) | load updates, timers, late flushes; metrics, the collector, the three calculators | `reporting` | `ReportingProofs` |
| `NetworkHandler` | writes with a kept message, DNS retries, partition, monitor | `reporting` | `ReportingProofs` |
| `RaceProtection` | flags, guards, terminations, queued updates, cleanup | `reporting` | `ReportingProofs` |
| `JobRecovery` | saved jobs and overlapping attempts; fragments of a message, checkpoints | `reporting` | `ReportingProofs` |
| `WorkerShutdown` | Stop and StopWithTimeout of the whole worker | `reporting` | `ReportingProofs` |
| `ShutdownHooks` | both hook managers | `reporting` | `ReportingProofs` |
| `TimingManager` | deadlines under skew, back-pressure, guards | `reporting` | `ReportingProofs` |
| `ResourceMonitor` | samples, limits, cycles | `reporting` | `ReportingProofs` |
| `ResourceLimiter` | limits of memory, CPU and files, guarded calls | `reporting` | `ReportingProofs` |
| `ProtocolHandler` | versions, unknown messages, upgrade, the server's URL | `reporting` | `ReportingProofs` |
| `RoomTracking` | participants and tracks the worker records | `room` | `RoomProofs` |
| `RoomCalls` | what the worker answers about jobs and rooms | `room` | `RoomProofs` |
| `UniversalEvents` | the worker's event queue and handlers | `room` | `RoomProofs` |
| `ParticipantEvents` | event queue, worker, batches, throttle, handlers | `room` | `RoomProofs` |
| `Coordinator` | participants, groups, activities, rules, events | `room` | `RoomProofs` |
| `Permissions` | permissions, policies, requests, history | `room` | `RoomProofs` |
| `QualityController` | monitoring loop, adaptation of quality | `room` | `RoomProofs` |
| `TrackSubscription` | settings and filters of subscriptions; measurements of the connection | `room` | `RoomProofs` |
| `JobUtilities` | the load balancer, waiting for a participant | `room` | `RoomProofs` |
| `MediaPipeline` | stages, buffers, a track's goroutines, Stop | `media` | `MediaProofs` |
| `WebRTCRouting` | receivers, routing table, connections' goroutines | `media` | `MediaProofs` |
| `RealtimeTranscription` | connecting, its callbacks, transcriptions in frames | `media` | `MediaProofs` |
| `Breaker` | an abstract circuit breaker | `media`, as a property | |
| `TranslationStage` | limiter, breaker, calls of several goroutines | `media` | `MediaProofs` |
| `SpeechStage` | speech of the languages of a frame, in parallel | `media` | `MediaProofs` |
| `Broadcast` | the broadcasting stage and its callbacks | `media` | `MediaProofs` |
| `StageObservers` | callbacks of transcriptions; figures of the stages | `media` | `MediaProofs` |

`SharedLemmas` states no part of the system: it holds what the proofs use of sequences, of finite
sets and of functions defined by recursion.

`MCWorkerConnection`, `MCJobLifecycle`, `MCCollections`, `MCReporting`, `MCRoom` and `MCMedia`
instantiate them. The last four hold several systems that share nothing, or only the
connection: `Systems` names those of a run, a behaviour chooses one of them in its initial
state and leaves the others at rest, and the state space is the sum of theirs and not the
product. `system = "groups"`, `"activities"` and `"book"` are three parts of `Coordinator`
that do not read each other, split in the same way.

Variables carry the name of the field or of the goroutine's program counter they stand for
(`wsState`, `conn`, `reconnecting`, `token` for what `reconnectChan` holds, `rpc` for the
readers of `handleMessages`, `gpc` for the goroutines of jobs). One action is one critical
section, one atomic or channel operation, or one call to the network or the room SDK; two
neighbouring operations are one action only where nothing of what lies between them can be
seen by another goroutine. The order of operations inside a function is the order of the
program counter's values. Operators whose comment begins with "Mutation of" are not part
of a specification: each is a plausible slip in the operator below it.

**WorkerConnection.** The driver is `Start`'s `connect` and then `maintainConnection`; the
readers are the goroutines started by `Start` and by each `reconnect`; each of them can be
inside `handleConnectionError`, whose four steps (the compare-and-swap, the teardown under
the lock, the cancellation of the handler, the send on `reconnectChan`) interleave with
everybody else's. A connection is up, mute (writes succeed, nothing comes), closed by the
server, reset or closed by the worker. `missed` and `pongSeen` are `healthCheck`; whether the
last pong is stale when a tick comes is a free choice, except that a stale pong stays stale
until the next. Identities of connections and readers are used again once nothing refers to
them, so that a small set stands for any number of reconnections.

**JobLifecycle.** The server asks about a job, assigns it if it was accepted, and may terminate
it; the reader takes messages one after the other and runs the handlers of requests and
terminations itself; each assignment starts a goroutine. `rooms` is keyed by room name, as in
the code, so two jobs in one room share an entry. `status` is the local variable of each
`updateLoad`, between the critical section that computes it and the send. The connection does
not fail here.

**StatusDelivery, LoadReporting, ServerLink.** `ServerLink` keeps of the connection what the
reporting code reads: whether `sendMessage` finds it, and how far `StopWithTimeout` is. A write
may fail while the link is online: it breaks before it is torn down. `failures` and `failedOn`
are history variables. The load batcher's `timer.Stop()` does not stop a flush whose timer has
run out, so late flushes are a state of their own.

**JobQueue.** The heap is the set of its items, of which `Less` picks the first; `clock` orders
enqueue times, which are taken to grow strictly. **ResourcePool** follows each lock, channel
and atomic operation of the pool one by one: `Release` counts `inUse` down, sends, and counts
`available` up, with the other callers in between. Its factory and the `Close` of its resources may
fail. **ResourceLimiter** lets time pass in every state: memory is collected while the ticker runs on.

**The other objects.** An object whose methods each hold its mutex from beginning to end has one
action per method. Where a method releases the lock and goes on with what it read, calls back, or
waits for a goroutine, it is several actions with a program counter per caller: the guards of
`RaceProtection`, the attempts of `JobRecovery`, the monitors of `QualityController`, the batch
timers of `ParticipantEvents`, the callers of `UniversalEvents` and `RoomTracking`, the
controllers of `MediaPipeline`, the goroutines of `SpeechStage`, the tracks' goroutines of
`WebRTCRouting` (which look a connection up under the lock and send to it without). Measured figures, answers of
handlers and providers and errors of the network are choices of the environment from a small set.
`Permissions`, `ProtocolHandler`, `LoadReporting`, `QualityController`, `ResourceMonitor` and
`JobUtilities` also hold algorithms, each checked against a definition that says what is
computed and not how.

**TranslationStage and Breaker.** `Breaker` is a circuit breaker seen from outside: closed until
the failures in a row reach a limit, open until a trial is due, on trial until the next outcome.
The stage keeps `closed` and `open` only, never enters the half-open state it declares, and
lets calls that began before it opened report later. `TranslationBreaks` is the abstract
specification under the mapping `phase`, which reads the trial off the timer.

## 3. Runs

Passing runs:

| run | instance | states | shows |
|---|---|---|---|
| `connection` | 2 connections, 2 readers, 1 failure, 1 job message, context cancelled at any time, missed-pong limit 1 | 2.8 million | `FlagBacked`, `RecoveryPending` |
| `connection_loss` | 2 connections, 2 readers, 1 failure, no Stop | 234,000 | `LossNoticed` (liveness) |
| `connection_stop` | 2 connections, 2 readers, `StopWithTimeout` at any time | 108,000 | `GoroutinesEnd` (liveness) |
| `lifecycle` | 2 jobs, 2 rooms, `MaxJobs` 1, 1 room disconnection, Stop | 1.8 million | the invariants of `JobLifecycle` |
| `collections` | queue: 2 jobs, 4 priorities, 3 consumers, 4 enqueues, limit 2; pool: 2 users, 2 creators, 4 resources, sizes 1 to 2 | 93,000 | queue and pool |
| `reporting` | 2 updates, 3 retries, 2 connections; 4 loads; 15 further systems | 387,000 | delivery, batcher, writes, terminations, recovery, cycles; `UpdateSettles` (liveness) |
| `room` | 15 systems, 2 tracks, participants, groups, rooms, callers | 437,000 | loops, events, batches, groups, records |
| `media` | 10 systems, 3 packets, 2 pipelines of a track, 2 goroutines for a stage, 2 routed tracks | 629,000 | order, release, routes, speech; `StopGoesOn` (liveness); `TranslationBreaks` (refinement) |

`CollectionsOK`, `ReportingOK`, `RoomOK` and `MediaOK` hold, for each system of the run, its type
invariant and further claims that are named in the module of the system. Those worth knowing:
`StagesInOrder` (the bubble sort of the stages is stable under additions and removals),
`WrittenInOrder` and `ClosedAreQuiet` (routing), `CallsCounted` (translation), `BroadcastToAll`,
`CalledOncePerRegistration` and `MetricsOfLastCalls` (observers), `PresentAreKnown` and
`SenderInItsRoom` (participants), `AnsweredByOwnRoom` and `ToldOfItsRoom` (rooms),
`HistoryExplains` (permissions), `ChangesBalance` (connection quality), `HandledInOrder` and
`OnlyKnownRecorded` (events of the worker), `HandledByAll` and `ThrottledInEveryMinute` (events of
participants), `BookIsRight` and `BusyAreNotified` (coordinator), `PartsInOrder` (fragments),
`ProcsRestored` (limiter), `OutOfMemoryNoticed` (monitor), `RateIsExact` (back-pressure),
`LowerNumbersFirst` (hooks), `PredictionFollowsTrend` and `LoadInRange` (calculators),
`ReturnsWhenStopped` and `ToldTwiceAtMost` (Stop).

Runs that TLC finds violated, each about a sentence of the repository the code does not keep
(section 7): `pinged_before_lost`, `termination_cancels`, `status_survives`, `stop_monitoring`.

The bounds, and why they are enough:

- `Conns`, `Readers` = 2: the races are between an old and a new connection or reader; older
  ones have the same choices as the old one. Identities are reused.
- `MaxFaults`: failures the environment injects. One failure already leads to any number of
  reconnections, since dialling, writing and registering may fail for other reasons at no cost.
- `MissedLimit` = 0 or 1 instead of 3: it delays the first ping timeout and changes nothing
  after it.
- `InboxBound` = 1: messages buffered in a connection; the properties do not depend on more.
- `Jobs`, `Rooms` = 2 with rooms chosen freely: jobs interact in pairs, through a shared room or
  the shared limit. `MaxDisconnects` = 1 for each behaviour: a second one reports FAILED again.
- Three consumers against one token, two of which can be woken or cancelled beside the third.
- `MaxEnqueues`, `MaxLoads` = 4, `MaxConnections` = 2: enough for a limit to be reached, left and
  reached again, for a late flush to meet two newer loads, and for an outage in between.
- `Tracks`, `Monitors`, `Loops`, `Callers` = 2 in `room`: a loop ends and another begins while two
  callers start and stop different tracks. `QueueLimit` = 1, `BatchSize` = 2, `MaxEvents` = 4: the
  queue is full with one event, and a batch is flushed for its size and for its time.
- `MaxPackets` = 3 with `BufferSize` = 2: the buffer overflows. `Narrow` (in `MCMedia`) keeps at
  most two of pipelines and stages at a time, since a frame meets the stages through one snapshot.
- `RoutedTracks`, `Removers`, `MaxRouted` = 2: packets of two tracks, or two of one track, on their
  way to a receiver that two goroutines remove and that connects again. `Restorers` = 2 and
  `CheckInterval` = 2: a throttling meets one whose value is not put back yet.
- Two guards, attempts, translators, speakers' languages and notifiers: each second one overlaps
  the first at every step. `MaxSaves` = 2 lets a job be saved again while an attempt runs.
- `MaxFailures` = 2, `BufferLimit` = 3, `HistoryLimit` = 2, `HistorySize` = 2, `WindowSize` = 3,
  `Buckets` = 2 stand for larger numbers of the code: a limit is reached and passed.
- Four dependencies among three nodes: loops, double edges, shared nodes and cycles of each length.

The theorems of section 5 hold without these bounds.

`CHECK_DEADLOCK FALSE` stands in every configuration because each of these systems may stop:
a worker that was stopped, jobs that have all ended, updates that are settled, a bound reached.

## 4. Fairness

`WorkerConnection!FairSpec`: every goroutine that can take a step takes it in the end (weak
fairness of the driver's steps, of `handleConnectionError`, of readers and of Stop): the Go
scheduler. The `select` of `maintainConnection` chooses at random among the ready cases and the
ticker keeps its tick, so a case that is ready again and again is taken: strong fairness of its
exits, of the ping and of the reconnection token. A stale pong is met again and again because
time passes between ticks. A connection whose peer has gone is reset in the end by TCP. Nothing
is assumed of the server: it may never answer. `MCReporting!FairSpec`: weak fairness of the
retry goroutine and of each caller of `updateJobStatus`; nothing is assumed of the connection.
`MediaPipeline!PipelineFairness`: weak fairness of the receiver's and the processor's steps and of
each step of Stop and StopProcessingTrack, the Go scheduler again; nothing makes packets arrive,
and a receiver that waits for one is waited for: `StopGoesOn` supposes that the track has ended.

## 5. Proofs

All proofs are by TLAPS (SMT, Zenon and LS4) and rest on the `ASSUME`s of the modules only,
which say that the sentinels are not among the identities and that bounds are naturals. TLC
evaluates each of them in a run.

- `WorkerConnectionProofs`: `TypeCorrect`, `FlagAlwaysBacked`, `RecoveryAlwaysPending`, for any
  number of connections, readers, failures and messages. The two invariants are inductive only
  together with four facts: until `maintainConnection` runs nobody reports errors and what
  `Start`'s connect has published is intact (`StartPhase`); a dialled connection that is not
  published yet is nobody else's (`FreshConnection`); a reader that reports an error has left
  its loop, so it cannot report twice (`ReporterGone`); and a step of Stop means a closed
  `stopCh` (`StopSignalled`).
- `JobLifecycleProofs`: the type invariant and all four safety invariants, for any jobs, rooms,
  `MaxJobs` and disconnections. `NothingOutlivesItsJob` is not inductive: a second assignment of
  a job would restart its goroutine under its records, and the entry of a room could be another
  name's. The invariant adds that each message about a job is sent once and meets the phase and
  goroutine it was sent for (`MessagesFresh`, `UnassignedIdle`) and that an entry of `rooms` is
  under its own room's name (`RoomsByName`).
- `CollectionsProofs`: `QueueTypeCorrect` with the limit, and `ConsumersNeverAllAsleep`, which is
  inductive as it stands together with the finiteness of the queue. `ResourcesHaveOneOwner` and
  `ClosedLeaksNothing`, for any users, creators and resources: `OneOwner` says nothing of a
  resource on its way between its owners, so the invariant follows what each goroutine holds in
  each of its steps (`HeldApart`, `FreshApart`, `RemovedApart`, `OwnersHold`), and every resource
  alive is with one of them (`Accounted`). `CountersAlwaysAgree`: while the pool is open, `available`
  is what lies in the channel, with those taken and not yet subtracted, less those returned and not
  yet added (`Takers`, `Returners`; likewise creators and cleanup), and `inUse` is what is lent, so both agree when nothing is under way.
- `ReportingProofs`: `QueueAlwaysAnnounced`, `UpdatesAlwaysOnce`, `AlwaysGivenUpAfterRetries`,
  `LatestAlwaysPending`, `FinalStatusAlwaysHanded`. That a queued update was announced must hold
  in the retry goroutine's whole loop, not only where it waits (`AnnouncedThroughout`); the places
  of updates are sets that partition them, with sequences that repeat nothing (`Partitioned`); a
  waiting update has failed once more than it was retried (`RetriesCounted`, which needs the
  partition); what the batcher holds is the latest load, with a timer or flush behind it
  (`LoadKept`). Further `TerminatesOnce`, where the one guard that terminates is named instead of
  counted (`OneTerminates`); `SavedUntilTried`, where a failure is counted with the job before it is
  counted in the record, so that records and goroutines under way never claim more tries than were
  made (`Tried`); and `MessagesWrittenInOrder`, where a kept message is the last of its type that
  may still be written. `NeverCalledAfterStop`: once Stop has returned the monitor's goroutine is
  over (`MonitorIsOver`). `ProcsAlwaysRestored`: unless one throttling
  began before the value of another was put back, only one value waits at a time, it is the full
  number, and a throttling reads the full number (`ThrottlingInv`); nothing is assumed of the
  interval or of how long checks and sleeps last. `LowerNumbersAlwaysFirst` rests on `SortHooksSorts`: the two nested
  loops of `sortHooks` are one walk through numbered pairs, and by induction over their numbers the
  places before the outer index are in order and not after any later one (`SortedUpTo`). `ResumptionCorrect`: a part appended is later than all
  kept, and a complete text is the parts of one message (`BufferInv`); a copy of a checkpoint
  is one state of it, since it is taken and written under the lock (`CheckpointInv`). `ShutdownCorrect`: what is
  stopped is a beginning of the steps of the one call that is inside `stopOnce` (`StopInv`), and a
  job's handler was told by the loop over the jobs, by the job's own end, or by both (`ToldInv`).
  `DeadlinesAlwaysMove`: a deadline moves with every change of the offset and by as much; the average of
  the samples is a number, however many there are (`AverageIsNumber`). `ReportingCorrect` composes
  these, the types of the components and the following into all of `ReportingOK`. What the
  limit looks at is the end of all events that was not cleaned up, and what was is older than the
  window (`RateInv`), so that the loop over it counts exactly the events within the window
  (`RateIsExact`). Messages of unknown types are counted once by type and once in all: the
  total lacks exactly the calls between the two counts (`ProtocolInv`, `UnknownCountsAgree`). `CyclesAlwaysNoticed`, for any finite set of nodes and any
  edges added in any order: the search from a point ends, since it visits a node more or has a
  neighbour less before it (`Left`), so that there is a function that solves its recursion, by
  induction over what is left (`SearchExists`). A cycle it reports is one, since the path it keeps
  is a path of the graph (`Stacked`, `ClosesIsCycle`); and if it reports none, it has visited all
  neighbours of what it visited, and none was where it began (`LeftBehind`, `SearchRight`), so that
  no path leads back there. It is enough to search from one node: the first cycle of a graph leads
  through the edge just added (`CycleOfNewEdge`). `Reached`, which the invariant is stated with,
  takes at most as many steps as there are edges (`ReachedIsLeadsTo`). A built URL is built from itself again (`URLSettles`).
  The slope of the prediction has the sign of the trend: for values that never fall, the sum of
  the products of places and values is no less than the product of their sums over their number,
  Chebyshev's inequality, shown by the differences of all pairs (`NeverFalls`, `SlopeSign`); an average
  of loads and a prediction that is cut at the bounds stay within them (`LoadAlwaysRight`). Places of the array of
  hooks that a loop has still to read were written when it began, and what is moved meanwhile leaves none
  of them empty (`HandlerTyped`).
- `RoomProofs`: `MembershipsMirror`, inductive with the types of the two maps. `OneLoopAlways`: while a
  StopMonitoring waits nothing is monitored, and two loops that run are the same, a form that needs no
  count (`LoopWhileMonitored`). `BatchAlwaysHasTimer`, where a timer that has fired is counted until
  its function is through, also when it flushed another batch (`TimerCounted`).
  `EventsAlwaysInOnePlace`, for any sizes of the queue and of the batches: the places partition the
  events, no two callers send the same, and no sequence holds one twice (`EventsApart`).
  `RecordsAlwaysAgree`, for one caller of the worker, the precondition the property has in its run:
  what a call is about to record and what callbacks are on their way decide what the record will be,
  and the last of them agrees with the SDK (`RecordsFollow`). `AnsweredByOwnRoomAlways`: whoever has no
  context yet cannot have been found under a job or a name, and the record of a name that one
  room alone bears is its job's (`CallsInv`). `PresentAreAlwaysKnown`: an identity that was never in two
  rooms at once is in at most one, and its record names it (`PeopleInv`). `UtilitiesCorrect`: in whatever order
  the map of the workers is ranged over, what the loop holds after the first of them is the least
  loaded of those (`LeastOf`, by induction over their number); a wait that timed out looked once
  more after its deadline and did not find the participant (`WaitersInv`). `QualityAlwaysAskedFor`: a
  record made anew says HIGH, and any other says what the SDK was asked for last or what the one caller
  is about to ask it for (`QualityFollows`). `FiltersAlwaysOnlyRefuse`: a filter added refuses what it
  refuses and nothing it does not (`RefusedByOne`). `OptimalAlwaysFollows`: every quality is put back
  into the policy's range before it is recorded (`ClampStays`, `UpdateStays`). The same gives
  `ChangesWithinPolicy`, an action property that is proved and in no run. `EventsAlwaysInOrder`: an event
  handled is earlier than all that are queued, and later than every one of its type that a handler to which
  it is still owed was run with (`HandlingInv`). `BookAlwaysRight`: of a participant the book
  is right about, at most one event is under way, and it makes the book right (`BookFollows`).
  `HistoryAlwaysExplains`: the last update in the history that names a participant explains the
  permissions (`ExplainedBy`), which an update appended keeps for the others and a cut keeps for all
  whom it still names. `EventsAlwaysHandedToAll`: the handlers that ran for an event and those its
  goroutine has left are, put together, the first of the handlers of its type (`Handed`), which one
  more registration only makes more; and the events taken up are those counted and those with one
  goroutine (`EventsHanded`, `EventsCounted`). `CoordinatorCounts`: the activities of a participant are
  the sum of those of each type (`TotalOfClasses`), and a table sums to the same by rows and by columns
  (`TotalByRowsOrColumns`). `ThrottledAlways`: of the times of what got through, the filter keeps the
  end that is within the minute, and what it dropped is older (`ThrottleKept`), so that a minute that
  holds one too many would have held the limit already when the last of them came. `ConnectionAnswers`:
  the history is in the order of its times and ends with the current quality (`HistoryCurrent`), and
  what the changes told, being told and not yet told add to a quality is one for the current one and
  minus one for the first (`BalanceKept`). `RoomCorrect` composes these and the types into all of
  `RoomOK`, for one caller that subscribes, the precondition of `RecordsFollow`.
- `MediaProofs`: `SpeechNeverLost`, for any speakers and languages. What the provider gave for a
  language is with its goroutine, in the channel or in the map (`Traced`), and the channel is
  closed when all goroutines are done and collected when it is empty (`Closing`).
  `TranslationIsCircuitBreaker`, the refinement of `Breaker`, for any number of goroutines: no code
  makes the breaker half open, and a closed one has failed less often than the limit (`BreakerInv`).
  `TranscriptionsIncludedOnce`: a transcription that may still be included is later than all that were.
  `RoutesAlwaysAgree`: a track's list names the receivers that are connected and have the track, and
  names none twice (`RoutesMatch`, `RoutesOnce`), which rests on what the loop of `RemoveReceiver`
  computes (`WithoutReceiverFilters`). `RoutingCorrect` adds that a removed connection is closed and
  quiet (`ClosedAreQuiet`) and that each receiver is written a track's packets in order
  (`WrittenInOrder`), however the tracks' goroutines, removals and reconnections come between lookup and
  send: the packet a track's goroutine has on its way is the newest of that track, and the connection
  it looked up and those of the receivers left hold only older ones of it (`Awaited`, `WritesInv`).
  `PacketsAlwaysInOrder`, `ReleasedAlwaysQuiet` and `PipelineTypeCorrect` share `PipelineInv`: the numbers of a track's packets grow through output, stages and input, and all are
  older than what will arrive; the goroutines of a pipeline are counted by the WaitGroup that Stop
  waits for; a pipeline is in `mp.tracks` or nobody can find it any more. `CallsAlwaysCounted`: the
  goroutines that are about to record a call are finitely many, whether or not all goroutines are,
  and the counter lacks exactly their calls (`CountInv`). `CalledAlwaysOnce`: what is due was numbered
  when it came, so that no later event brings it again, and a call that waits is with one goroutine,
  once (`CallsKept`). `DelaysAlwaysAgree`: the smoothed average of two numbers lies between them
  (`SmoothedBetween`), so that it stays between the least and the greatest delay.
  `StagesAlwaysInOrder`: the loops of `sortStages` are one walk through pairs of places; a swap exchanges
  two neighbours of different priorities, so that the stages of any one priority, taken out of the
  sequence by a loop (`StagesIn`), stay what they were (`SortIsStable`), and after each pass the end is
  in order (`SortOrders`). `BroadcastAlwaysToAll`: each frame's snapshot is walked from its first
  callback on, and those it has passed were called (`HeardRight`); one more call makes one more of one
  sum (`TotalChanged`). `FiguresAlwaysAgree`: the i-th last call is in the i-th bucket behind the index,
  modulo their number (`RingOf`, kept by `RingMoves`), so that buckets in use and last calls that took
  any time are in bijection (`RingCounts`), and the quotient of their sum lies between the extremes
  (`RingMean`). `MediaCorrect` composes these and the types of the components into all of `MediaOK`.
- `SharedLemmas`: what appending to, and taking from, a sequence leaves of its elements and their
  order; induction over numbers, sequences and finite sets where TLAPS has none to instantiate; sums
  over finite sets (the folds of the community modules choose an element, and the sum is shown not to
  depend on it), counts, averages, and loops that keep a part of a sequence.

Recursive definitions. `sortStages`, `sortHooks`, the search for the least loaded worker, the
removal of a stage or of a receiver and the average of the clock's samples are loops, and modelled
by functions `f[n \in Nat]` that recurse on `n`; `detectCycle` recurses on a point of its search. The library's theorems about induction take an operator, which no installed prover instantiates. `SharedLemmas` states
induction for sets of numbers instead (`SetInduction`: a set with 0 and with the successor of each of
its members has all numbers), proves from it that a recursion of this form has a function that
solves it (`RecursionExists`), and that what every step of a loop keeps, the loop keeps
(`LoopStays`); the prover instantiates these, since they quantify over sets and functions only.

Only model-checked: liveness (`LossNoticed`, `GoroutinesEnd`, `UpdateSettles`, `StopGoesOn`), which
is out of TLAPS's reach under fairness.

## 6. Not modelled, and the plan

Not modelled:

- `examples/`: programs that use the SDK, one of them an HLS recorder with codecs, encryption and
  face detection of its own. They are a large part of the repository's lines and none of the SDK's.
- Test support (`test_utils.go`, `internal/`): mocks and assertions.
- Interfaces, options and records (`types.go`, `universal_handler.go`, `worker_interface.go`,
  parts of `universal_types.go`). What the worker does with a handler's answers is in `JobLifecycle`.
- `SimpleJobHandler` and those methods of `JobUtils` that hand their arguments on to the room SDK.
- Wire formats, codecs, audio, HTTP, WebRTC negotiation and the samples of the operating system:
  an answer comes, fails, or never comes.

Of the SDK, the server and the network the models keep what the worker can observe.

Planned, in this order:

1. An abstract queue implemented by `JobQueue`, and delivery at most once as an abstract
   specification of `StatusDelivery`.
2. `WorkerConnection` composed with `StatusDelivery`, in the place of `ServerLink`.

## 7. What the code does differently from what it says

Runs show (the counterexamples are TLC's):

- **`pinged_before_lost`**: after one ping timeout nothing resets `missedPings` or `lastPong` but
  a pong, and beyond the limit `sendPing` returns before it sends: each new connection is torn
  down at the first tick, and no pong can come.
- **`status_survives`**: an update that fails while the worker is disconnected uses up its three
  retries within the outage, since each requeue signals the retry goroutine at once.
- **`termination_cancels`**: a termination handled before the job's goroutine has stored its record
  is lost.
- **`stop_monitoring`**: `StopMonitoring` waits for the monitoring loop with the lock held that a
  loop whose tick has come waits for; neither goes on.

Further sentences that TLC refutes, each stated in its module with a comment (they have no run of
their own, and no run checks them):

- `HandlersNeverShareConnection` (`WorkerConnection`): a cancelled reader can load the new
  connection and read beside its successor. `StopClosesConnection`: Stop during a connect leaves
  the connection open.
- `AvailableJobWakes` (`JobQueue`): two jobs enqueued at once wake one of two consumers.
- `DeadlineInWorkerClock` (`TimingManager`): a change of the clock's offset moves the deadlines in
  the wrong direction.
- `HandlerRunsOnce` (`ShutdownHooks`): a hook removed while the handler's loop runs shifts the list
  under it.
- `AlwaysRestored` (`ResourceLimiter`): a throttling that begins before the last one's value is put
  back takes the lowered GOMAXPROCS for the one to restore, and puts it back last, against "Reduce
  GOMAXPROCS temporarily" and "Restore after a delay" (`resource_limiter.go:380`, `390`). It takes a
  memory check that outlasts a short interval, so that the next tick is there at once.
- `AllEventsBatched` (`ParticipantEvents`): worker, batcher and `ProcessPendingEvents` receive from
  one queue, and an event that one of them takes the others never see: what the worker handles is
  in no batch, what is in a batch is never handled.
- `DisconnectCloses` (`RealtimeTranscription`): a Disconnect during the set-up does nothing, and the
  connection comes up after it.
- `LastReportIsCurrent` (`TrackSubscription`): two callbacks may run in the other order than the
  updates they tell of.
- `TimeoutBoundsCall` (`WorkerShutdown`): hooks run inside `stopOnce`; one that does not return
  keeps `StopWithTimeout`.
- `SentIsComplete` (`JobRecovery`): what is left of a message given up stays in the buffer.

Met while modelling, because one actor in any schedule shows them:

- Connection: a half-open connection before the first pong is kept for ever (`sendPing` counts from
  the first pong on); a silent server blocks `waitForRegistration`, whose timer is looked at between
  reads; `buildWebSocketURL` takes "host:port" with an alphabetic host for a scheme and loses the
  host.
- Load and status: `updateLoad` computes and sends in two steps, so that the older of two statuses
  can be the last one sent, against "Once this limit is reached, the worker reports as full"
  (`types.go`); nothing sets `isReconnecting` of the `StatusUpdateRaceProtector`, so it never queues;
  `QueueStatusUpdate` of the other protector reads its flag outside the lock; `flush` ignores the
  error of what it sends; `WriteMessageWithRetry` drops, and reports as written, the message a kept
  one displaces.
- Jobs: `jobsFailed` counts only the acceptances that could not be sent, and failed handlers count as
  completed; two jobs of one room name share and erase the room's and the trackers' records, also
  after one of them was terminated; a recovered job has no room records; callbacks before the job
  is recorded are lost; `OnRoomDisconnected` is not told of a normal end; a closed room reports
  FAILED, and the handler's end SUCCESS after it.
- Stop: `OnJobTerminated` is called by Stop with `w.mu` held and again at the job's own end; `Start`
  returns as soon as `stopCh` is closed; the connection is closed before the load batcher hands its
  last status over; job queue, resource pool, quality controller and coordinator are never stopped.
- What the worker makes and never asks: its subscription manager, connection monitor, permission
  manager and job queue (nothing dequeues); the resource monitor is never made, whatever the option;
  the pipeline's metrics collector is never fed.
- `ResourcePool` passes `MaxSize` when two users create together, and sends on a closed channel when
  Close comes between `createAsync`'s check and its send; `JobQueue.Close` panics when called twice,
  and consumers of a closed empty queue spin; `DefaultPriorityCalculator` gives a ROOM job with
  unrecognised metadata HIGH, although its comment says "(if no metadata)".
- Participants: approved permission requests are never applied and `RequestPermissionChange` of the
  worker is not implemented; the history is cut to ten by updates only; speakers are never unmarked;
  rules with a threshold of 50 or more never fire, and their action does nothing; the coordinator's
  events are handed over by goroutines in any order, and its Stop emits none.
- Tracks: "enabled" of `GetTrackStats` is never true after `EnableTrack`; a renewed record forgets
  the preferred quality; LOST counts above EXCELLENT in averages; `CalculateOptimalQuality` ignores
  limits its comment says it respects; `PublishData` loses `reliable` when destinations are given.
- Media: a translation response that is not JSON counts as a success of the API and never trips the
  breaker; `StreamingErrors` stays 0; the averages take 0 as "none", the warm-up resets them but not
  the rings behind them; silence between segments counts as latency of transcription;
  `RemoveAllCallbacks` stops neither copied nor started callbacks.
- A `TimingGuard`'s context keeps the deadline it had when it was made.
