---------------------------- MODULE LoadReporting -----------------------------
(***************************************************************************)
(* LoadBatcher: the latest worker status waits until a timer runs out.     *)
(* Every method is a critical section of b.mu; flush, which the timer runs *)
(* in a goroutine of its own, keeps the lock while it sends.  Stopping a   *)
(* timer that has run out does not stop its flush, so several can wait for *)
(* the lock.  A status is its position among the calls of Update.          *)
(*                                                                         *)
(* What updateLoad makes a load of: metrics built under w.mu and from the  *)
(* SystemMetricsCollector, and the three calculators, of which the         *)
(* predictive one keeps a window of the loads its base gave.  A load of    *)
(* 1.0 is Whole.  Quotients are rounded down.  Several goroutines report   *)
(* at once: what each read may be old when it is used.                     *)
(*                                                                         *)
(* The two share nothing: each has a specification of its own.             *)
(***************************************************************************)
EXTENDS ServerLink, Integers, Sequences, FiniteSets, SequencesExt, Functions

-------------------------------------------------------------------------------
(* The batcher.                                                              *)

CONSTANT MaxLoads       \* bound on the calls of Update

ASSUME LoadAssumption == MaxLoads \in Nat

VARIABLES
    given,          \* the status of the last call of Update that was not ignored
    pending,        \* b.pendingStatus and b.pendingLoad; 0 is nil
    timer,          \* b.timer, named after the call of Update that set it; 0 is nil
    armed,          \* timers that run
    flushes,        \* timers whose flush waits for b.mu
    batcherClosed,  \* b.closed
    handed,         \* the last status given to UpdateStatus
    told            \* the last status that was sent

batcherVars == <<given, pending, timer, armed, flushes, batcherClosed, handed, told>>

BatcherTypeOK ==
    /\ given \in 0..MaxLoads
    /\ pending \in 0..MaxLoads
    /\ timer \in 0..MaxLoads
    /\ armed \subseteq 1..MaxLoads
    /\ flushes \subseteq 1..MaxLoads
    /\ armed \cap flushes = {}
    /\ batcherClosed \in BOOLEAN
    /\ handed \in 0..MaxLoads
    /\ told \in 0..handed

BatcherInit ==
    /\ given = 0 /\ pending = 0 /\ timer = 0
    /\ armed = {} /\ flushes = {}
    /\ batcherClosed = FALSE
    /\ handed = 0 /\ told = 0

\* worker.UpdateStatus: sent when the worker is connected and the write succeeds. Its error
\* is ignored.
HandOver ==
    /\ handed' = pending
    /\ (online /\ told' = pending) \/ UNCHANGED told

\* Mutation of Update: the timer is stopped, and a new one is set only if there was none.
UpdateOnce ==
    /\ ~batcherClosed
    /\ given < MaxLoads
    /\ given' = given + 1
    /\ pending' = given'
    /\ timer' = IF timer = 0 THEN given' ELSE timer
    /\ armed' = IF timer = 0 THEN armed \cup {given'} ELSE armed \ {timer}
    /\ UNCHANGED <<flushes, batcherClosed, handed, told>>

\* Update(): the timer is stopped, and a new one set. A closed batcher ignores the call.
Update ==
    /\ ~batcherClosed
    /\ given < MaxLoads
    /\ given' = given + 1
    /\ pending' = given'
    /\ timer' = given'
    /\ armed' = (armed \ {timer}) \cup {given'}
    /\ UNCHANGED <<flushes, batcherClosed, handed, told>>

\* Mutation of TimerFires: the timer is one that fires again and again.
TimerFiresAgain(t) ==
    /\ t \in armed
    /\ flushes' = flushes \cup {t}
    /\ UNCHANGED <<given, pending, timer, armed, batcherClosed, handed, told>>

TimerFires(t) ==
    /\ t \in armed
    /\ armed' = armed \ {t}
    /\ flushes' = flushes \cup {t}
    /\ UNCHANGED <<given, pending, timer, batcherClosed, handed, told>>

\* flush(): nothing when the batcher is closed or nothing is pending.
Flush(t) ==
    /\ t \in flushes
    /\ flushes' = flushes \ {t}
    /\ \/ /\ ~batcherClosed /\ pending # 0
          /\ HandOver
          /\ pending' = 0
          /\ timer' = 0
       \/ /\ batcherClosed \/ pending = 0
          /\ UNCHANGED <<pending, timer, handed, told>>
    /\ UNCHANGED <<given, armed, batcherClosed>>

\* Mutation of StopBatcher: the pending status is left to the timer that was stopped.
StopBatcherForgetting ==
    /\ stopper = "closed" /\ ~batcherClosed
    /\ batcherClosed' = TRUE
    /\ armed' = armed \ {timer}
    /\ UNCHANGED <<given, pending, timer, flushes, handed, told>>

\* Stop(): what is pending is sent; it is called once the connection is closed.
StopBatcher ==
    /\ stopper = "closed" /\ ~batcherClosed
    /\ batcherClosed' = TRUE
    /\ armed' = armed \ {timer}
    /\ \/ pending # 0 /\ HandOver
       \/ pending = 0 /\ UNCHANGED <<handed, told>>
    /\ UNCHANGED <<given, pending, timer, flushes>>

-------------------------------------------------------------------------------
BatcherNext ==
    \/ Update \/ StopBatcher
    \/ \E t \in 1..MaxLoads : TimerFires(t) \/ Flush(t)

BatcherSpec ==
    /\ LinkInit /\ BatcherInit
    /\ [][\/ BatcherNext /\ UNCHANGED linkVars
          \/ LinkNext /\ UNCHANGED batcherVars]_<<linkVars, batcherVars>>

-------------------------------------------------------------------------------
(* Properties. *)

\* However timers that have run out, their late flushes and new updates interleave, a
\* status that was not handed to the worker yet is the one kept, and something will run
\* that hands it over: a timer or a flush that waits for the lock.
LatestPending ==
    ~batcherClosed /\ handed # given =>
        /\ pending = given
        /\ armed # {} \/ flushes # {}

\* Once the batcher is stopped, the last status it accepted has been handed to the worker,
\* whatever timers were running, and no late flush hands over an older one.
FinalStatusHanded == batcherClosed => handed = given

-------------------------------------------------------------------------------
(* The calculation.                                                          *)

CONSTANTS
    LoadReporters,      \* goroutines that run updateLoad
    Calculators,        \* of "default", "cpu-memory", "predictive"
    LoadMaxJobs,        \* metrics.MaxJobs, 0 for no limit
    MostJobs,           \* bound on the jobs that run at once
    CPUSamples,         \* goroutines for each core the runtime may report
    MemorySamples,      \* of memory used, of Total
    Total,              \* memory taken from the system, 0 for none
    WindowSize,         \* p.windowSize: 10
    MaxCalculations     \* bound on the loads calculated

Whole == 100

ASSUME CalculationAssumption ==
    /\ Calculators \subseteq {"default", "cpu-memory", "predictive"}
    /\ LoadMaxJobs \in Nat /\ MostJobs \in Nat /\ Total \in Nat
    /\ CPUSamples \subseteq Nat /\ MemorySamples \subseteq 0..Total
    /\ WindowSize \in Nat \ {0} /\ MaxCalculations \in Nat /\ IsFiniteSet(LoadReporters)

VARIABLES
    calculator,         \* which calculator the worker was given
    jobCount,           \* len(w.activeJobs)
    runtimeStats,       \* what the runtime would report
    cpuPercent, memoryPercent,  \* of the collector
    collecting,         \* whether collectLoop runs
    loads,              \* p.history
    reporter,           \* what each goroutine does, and with which metrics
    calculated          \* how many loads were calculated, and the last with its window

collectorVars == <<runtimeStats, cpuPercent, memoryPercent, collecting>>
loadVars == <<calculator, jobCount, collectorVars, loads, reporter, calculated>>

LoadMetrics == [jobs : 0..MostJobs, cpu : 0..Whole, memory : 0..Whole]
NoMetrics == [jobs |-> 0, cpu |-> 0, memory |-> 0]

LoadTypeOK ==
    /\ calculator \in Calculators
    /\ jobCount \in 0..MostJobs
    /\ runtimeStats \in [cpu : CPUSamples, memory : MemorySamples]
    /\ cpuPercent \in 0..Whole /\ memoryPercent \in 0..Whole
    /\ collecting \in BOOLEAN
    /\ loads \in Seq(Nat) /\ Len(loads) <= WindowSize
    /\ reporter \in [LoadReporters ->
            [at : {"idle", "metrics", "calculate", "predict"}, metrics : LoadMetrics, base : Nat]]
    /\ calculated \in [count : 0..MaxCalculations, window : Seq(Nat), answer : Nat]

LoadInit ==
    /\ calculator \in Calculators
    /\ jobCount = 0
    /\ runtimeStats \in [cpu : CPUSamples, memory : MemorySamples]
    /\ cpuPercent = 0 /\ memoryPercent = 0
    /\ collecting = TRUE
    /\ loads = <<>>
    /\ reporter = [r \in LoadReporters |-> [at |-> "idle", metrics |-> NoMetrics, base |-> 0]]
    /\ calculated = [count |-> 0, window |-> <<0>>, answer |-> 0]

-------------------------------------------------------------------------------
(* The calculators.                                                          *)

AtMostWhole(load) == IF load > Whole THEN Whole ELSE load

Clamped(load) == IF load < 0 THEN 0 ELSE AtMostWhole(load)

\* A tenth for each job when there is no limit; over the limit the load is over Whole.
JobLoad(jobs) ==
    IF LoadMaxJobs > 0 THEN (jobs * Whole) \div LoadMaxJobs ELSE AtMostWhole(jobs * 10)

\* The weights are 0.4, 0.3 and 0.3.
CPUMemoryLoad(metrics) ==
    Clamped((4 * JobLoad(metrics.jobs) + 3 * metrics.cpu + 3 * metrics.memory) \div 10)

BaseLoad(metrics) ==
    IF calculator = "cpu-memory" THEN CPUMemoryLoad(metrics) ELSE JobLoad(metrics.jobs)

Windowed(window) ==
    IF Len(window) > WindowSize
    THEN SubSeq(window, Len(window) - WindowSize + 1, Len(window)) ELSE window

\* The slope of the line through the window, by least squares, as a fraction.
Slope(window) ==
    LET n == Len(window)
        x == [i \in 1..n |-> i - 1]
        SumOfProducts(f, g) == FoldFunction(+, 0, [i \in 1..n |-> f[i] * g[i]])
        SumOf(f) == FoldFunction(+, 0, f)
    IN  [over |-> n * SumOfProducts(x, window) - SumOf(x) * SumOf(window),
         by |-> n * SumOfProducts(x, x) - SumOf(x) * SumOf(x)]

\* A fifth of the slope is added, from three loads on.
Predicted(window) ==
    LET slope == Slope(window)
    IN  IF Len(window) < 3 THEN Last(window)
        ELSE Clamped(Last(window) + slope.over \div (5 * slope.by))

-------------------------------------------------------------------------------
(* The metrics.                                                              *)

\* collect(): the goroutines stand for the load of the CPU, 100 of them for each core.
Collected ==
    /\ cpuPercent' = AtMostWhole(runtimeStats.cpu)
    /\ memoryPercent' = IF Total > 0 THEN (runtimeStats.memory * Whole) \div Total ELSE memoryPercent

CollectorTicks ==
    /\ collecting
    /\ Collected
    /\ UNCHANGED <<calculator, jobCount, runtimeStats, collecting, loads, reporter, calculated>>

CollectorStops ==
    /\ collecting
    /\ collecting' = FALSE
    /\ UNCHANGED <<calculator, jobCount, runtimeStats, cpuPercent, memoryPercent, loads, reporter,
                   calculated>>

SystemChanges ==
    /\ runtimeStats' \in [cpu : CPUSamples, memory : MemorySamples]
    /\ UNCHANGED <<calculator, jobCount, cpuPercent, memoryPercent, collecting, loads, reporter,
                   calculated>>

JobsChange(jobs) ==
    /\ jobCount' = jobs
    /\ UNCHANGED <<calculator, collectorVars, loads, reporter, calculated>>

-------------------------------------------------------------------------------
(* A report.                                                                 *)

\* buildLoadMetrics() counts the jobs under w.mu ...
BuildLoadMetrics(r) ==
    /\ reporter[r].at = "idle"
    /\ calculated.count + Cardinality({o \in LoadReporters : reporter[o].at # "idle"}) < MaxCalculations
    /\ reporter' = [reporter EXCEPT ![r].at = "metrics", ![r].metrics.jobs = jobCount]
    /\ UNCHANGED <<calculator, jobCount, collectorVars, loads, calculated>>

\* ... and has the collector collect once more, if there is one.
CollectsForReport(r) ==
    /\ reporter[r].at = "metrics"
    /\ IF calculator = "cpu-memory"
       THEN /\ Collected
            /\ reporter' = [reporter EXCEPT ![r].at = "calculate",
                    ![r].metrics.cpu = cpuPercent', ![r].metrics.memory = memoryPercent']
       ELSE /\ reporter' = [reporter EXCEPT ![r].at = "calculate"]
            /\ UNCHANGED <<cpuPercent, memoryPercent>>
    /\ UNCHANGED <<calculator, jobCount, runtimeStats, collecting, loads, calculated>>

Answered(window, answer) ==
    calculated' = [count |-> calculated.count + 1, window |-> window, answer |-> answer]

\* The base of the predictive calculator is asked before the lock is taken.
Calculate(r) ==
    LET base == BaseLoad(reporter[r].metrics) IN
    /\ reporter[r].at = "calculate"
    /\ IF calculator = "predictive"
       THEN /\ reporter' = [reporter EXCEPT ![r].at = "predict", ![r].base = base]
            /\ UNCHANGED calculated
       ELSE /\ reporter' = [reporter EXCEPT ![r].at = "idle", ![r].metrics = NoMetrics]
            /\ Answered(<<base>>, base)
    /\ UNCHANGED <<calculator, jobCount, collectorVars, loads>>

\* Under the lock: what was calculated first is not always what is kept first.
CalculatePredicted(r) ==
    /\ reporter[r].at = "predict"
    /\ loads' = Windowed(Append(loads, reporter[r].base))
    /\ Answered(loads', Predicted(loads'))
    /\ reporter' = [reporter EXCEPT ![r].at = "idle", ![r].metrics = NoMetrics, ![r].base = 0]
    /\ UNCHANGED <<calculator, jobCount, collectorVars>>

LoadCalculationNext ==
    \/ CollectorTicks \/ CollectorStops \/ SystemChanges
    \/ \E jobs \in 0..MostJobs : JobsChange(jobs)
    \/ \E r \in LoadReporters :
        BuildLoadMetrics(r) \/ CollectsForReport(r) \/ Calculate(r) \/ CalculatePredicted(r)

LoadCalculationSpec == LoadInit /\ [][LoadCalculationNext]_loadVars

-------------------------------------------------------------------------------
(* Properties.                                                               *)

Rising(window) == \A i \in 2..Len(window) : window[i - 1] <= window[i]
Falling(window) == \A i \in 2..Len(window) : window[i - 1] >= window[i]

\* A prediction errs to the side the loads move to: rising loads are answered with no less
\* than the last of them, falling ones with no more, equal ones with themselves, however
\* the reports that made the window overtook each other.  (Over Whole an answer is cut.)
PredictionFollowsTrend ==
    LET window == calculated.window IN
    /\ Rising(window) => calculated.answer >= AtMostWhole(Last(window))
    /\ Falling(window) => calculated.answer <= Last(window)

\* A load over Whole is answered only if more jobs run than may, before there are three.
LoadInRange ==
    calculated.answer > Whole =>
        LoadMaxJobs > 0 /\ LoadMaxJobs < MostJobs /\ Len(calculated.window) < 3
===============================================================================
