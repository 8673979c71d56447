------------------------------ MODULE MCReporting ------------------------------
\* What a worker reports, job statuses and its load, over a connection that is lost and
\* made again until the worker stops; and the objects that guard a worker and its jobs
\* (network handler, race protector, job recovery, resource monitor and limiter, timing
\* manager, shutdown hooks, protocol handler), the calculation of a load, the stop of a
\* worker, and what a job is resumed from.  But for the connection they share nothing: in
\* each behaviour one of them, or an independent part of one, runs and the others rest.
EXTENDS StatusDelivery, LoadReporting, NetworkHandler, RaceProtection, JobRecovery,
        ResourceMonitor, ResourceLimiter, TimingManager, ShutdownHooks, ProtocolHandler,
        WorkerShutdown

CONSTANT Systems

VARIABLE system

vars ==
    <<system, linkVars, statusVars, batcherVars, networkVars, raceVars, recoveryVars,
      monitorVars, limiterVars, timingVars, hookVars, protocolVars, loadVars, shutdownVars,
      resumptionVars>>

MCOptionSets ==
    {{}, {"limits", "batching"}, {"cpuLoad", "monitoring"}, {"calculator", "cpuLoad"}}

Init ==
    /\ system \in Systems
    /\ LinkInit /\ StatusInit /\ BatcherInit /\ NetworkInit /\ RaceInit /\ RecoveryInit
    /\ MonitorInit /\ LimiterInit /\ TimingInit /\ HooksInit /\ ProtocolInit
    /\ LoadInit /\ ShutdownInit /\ ResumptionInit
    /\ system # "limiter" => ~enforcing
    /\ system # "calculation" => calculator = "default"
    /\ system # "shutdown" => options = {}

OthersRest ==
    /\ UNCHANGED system
    /\ system \notin {"statuses", "load"} => UNCHANGED linkVars
    /\ system # "statuses" => UNCHANGED statusVars
    /\ system # "load" => UNCHANGED batcherVars
    /\ system # "writes" => UNCHANGED writeVars
    /\ system # "network" => UNCHANGED <<partitioned, inactive, dnsVars, netMonitorVars>>
    /\ system # "race" => UNCHANGED raceVars
    /\ system # "recovery" => UNCHANGED recoveryVars
    /\ system # "graph" => UNCHANGED graphVars
    /\ system # "monitor" => UNCHANGED <<sampler, memoryVars, goroutineVars, guarded>>
    /\ system # "limiter" => UNCHANGED limiterVars
    /\ system # "deadlines" => UNCHANGED skewVars
    /\ system # "rate" => UNCHANGED <<workerClock, rateVars, timingGuards>>
    /\ system # "manager" => UNCHANGED managerVars
    /\ system # "handler" => UNCHANGED handlerVars
    /\ system \notin {"manager", "handler"} => UNCHANGED added
    /\ system # "protocol" => UNCHANGED protocolVars
    /\ system # "calculation" => UNCHANGED loadVars
    /\ system # "shutdown" => UNCHANGED shutdownVars
    /\ system # "resumption" => UNCHANGED resumptionVars

Next ==
    \/ system = "statuses" /\ StatusNext /\ UNCHANGED linkVars /\ OthersRest
    \/ system = "load" /\ BatcherNext /\ UNCHANGED linkVars /\ OthersRest
    \/ system \in {"statuses", "load"} /\ LinkNext /\ UNCHANGED <<statusVars, batcherVars>>
       /\ OthersRest
    \/ system \in {"writes", "network"} /\ NetworkNext /\ OthersRest
    \/ system = "race" /\ RaceNext /\ OthersRest
    \/ system = "recovery" /\ RecoveryNext /\ OthersRest
    \/ system \in {"graph", "monitor"} /\ MonitorNext /\ OthersRest
    \/ system = "limiter" /\ LimiterNext /\ OthersRest
    \/ system \in {"deadlines", "rate"} /\ TimingNext /\ OthersRest
    \/ system \in {"manager", "handler"} /\ HooksNext /\ OthersRest
    \/ system = "protocol" /\ ProtocolNext /\ OthersRest
    \/ system = "calculation" /\ LoadCalculationNext /\ OthersRest
    \/ system = "shutdown" /\ ShutdownNext /\ OthersRest
    \/ system = "resumption" /\ ResumptionNext /\ OthersRest

\* The scheduler runs every goroutine that can take a step.
FairSpec ==
    /\ Init /\ [][Next]_vars
    /\ WF_statusVars(system = "statuses" /\ Retrier)
    /\ \A u \in Updates : WF_statusVars(system = "statuses" /\ UpdateStep(u))

\* The types; of the monitor, the limiter, the timing manager, the hooks, the protocol
\* handler, the calculators, the worker's stop and the fragments what else is claimed of them.
ReportingOK ==
    /\ system = "statuses" => StatusTypeOK
    /\ system = "load" => BatcherTypeOK
    /\ system \in {"writes", "network"} => NetworkTypeOK /\ NoCallbackAfterStop
    /\ system = "race" => RaceTypeOK
    /\ system = "recovery" => RecoveryTypeOK
    /\ system \in {"graph", "monitor"} => MonitorTypeOK /\ OutOfMemoryNoticed
    /\ system = "limiter" => LimiterTypeOK /\ ProcsRestored
    /\ system \in {"deadlines", "rate"} => TimingTypeOK /\ RateIsExact /\ DeadlinesMoveWithOffset
    /\ system \in {"manager", "handler"} => HooksTypeOK /\ LowerNumbersFirst
    /\ system = "protocol" => ProtocolTypeOK /\ UnknownCountsAgree /\ WebSocketURLSettles
    /\ system = "calculation" => LoadTypeOK /\ PredictionFollowsTrend /\ LoadInRange
    /\ system = "shutdown" => ShutdownTypeOK /\ ReturnsWhenStopped /\ ToldTwiceAtMost
    /\ system = "resumption" => ResumptionTypeOK /\ PartsInOrder /\ CopiesAreStates

MCSkews == {-3, 0, 2}
MCPriority == [h \in HookNames |-> IF h \in {"h1", "h2"} THEN 1 ELSE 2]
MCVersions == {<<1, 0>>, <<0, 8>>}
MCMinVersion == <<0, 9>>
MCMaxVersion == <<2>>
===============================================================================
