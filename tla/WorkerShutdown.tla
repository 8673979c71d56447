---------------------------- MODULE WorkerShutdown -----------------------------
(***************************************************************************)
(* Stop and StopWithTimeout of UniversalWorker: whoever comes first stops  *)
(* the worker's parts one after the other inside w.stopOnce, and whoever   *)
(* comes later waits for it.  Start returns when stopCh is closed.         *)
(*                                                                         *)
(* The parts are told apart by name only; what stopping one does is in the *)
(* part's module.  Jobs end on their own and when they are cancelled.      *)
(***************************************************************************)
EXTENDS Naturals, Sequences, SequencesExt, FiniteSets

CONSTANTS
    Stoppers,       \* goroutines that stop the worker
    RunningJobs,    \* jobs the worker runs
    OptionSets,     \* the options a worker may be made with
    NoStopper

ASSUME ShutdownAssumption ==
    /\ NoStopper \notin Stoppers
    /\ OptionSets \subseteq SUBSET {"limits", "monitoring", "batching", "calculator", "cpuLoad"}

VARIABLES
    options,        \* what this worker was made with
    once,           \* who is inside w.stopOnce, and whether it is over
    stopCall,        \* what each goroutine does: call, step of the call
    expired,        \* whether the timeout of a StopWithTimeout is over
    stopped,        \* the parts that were stopped, in order
    jobs,           \* of each job: running, cancelled or ended
    muHeld,         \* the stopCall that holds w.mu while it calls the handler
    toldJobs,       \* how often OnJobTerminated was called for each job
    startReturned   \* whether Start returned

shutdownVars == <<options, once, stopCall, expired, stopped, jobs, muHeld, toldJobs, startReturned>>

(* What NewUniversalWorker() and Start() make of the options.  The monitoring of resources  *)
(* is never made, whatever the option says; metrics are collected for the worker's own     *)
(* calculation of its load only.                                                           *)
NewUniversalWorker(opts) ==
    {"conn", "eventProcessor"}
        \cup {part \in {"resourceLimiter"} : "limits" \in opts}
        \cup {part \in {"loadBatcher"} : "batching" \in opts}
        \cup {part \in {"metricsCollector"} : "cpuLoad" \in opts /\ "calculator" \notin opts}

\* A part is stopped if there is one.
IfThere(part) == IF part \in NewUniversalWorker(options) THEN <<part>> ELSE <<>>

\* The parts, in the order in which they are stopped.
Parts ==
    IfThere("conn") \o IfThere("resourceLimiter") \o IfThere("resourceMonitor")
        \o IfThere("loadBatcher") \o IfThere("eventProcessor") \o IfThere("metricsCollector")

\* What each call does inside the once; only StopWithTimeout runs the hooks.
Steps(call) ==
    CASE call = "Stop" -> <<"stopCh", "messageHandler", "jobs">> \o Parts \o <<"doneCh">>
      [] call = "StopWithTimeout" -> <<"stopCh", "preStop", "messageHandler", "jobs">>
                                        \o Parts \o <<"cleanup", "doneCh">>

Calls == {"Stop", "StopWithTimeout"}

ShutdownTypeOK ==
    /\ options \in OptionSets
    /\ once \in [by : Stoppers \cup {NoStopper}, over : BOOLEAN]
    /\ \A s \in Stoppers :
        /\ stopCall[s].call \in Calls \cup {"none"}
        /\ stopCall[s].at \in {"idle", "once", "step", "hook", "stuck", "waiting", "nil", "timeout"}
    /\ expired \in [Stoppers -> BOOLEAN]
    /\ IsInjective(stopped)
    /\ jobs \in [RunningJobs -> {"running", "cancelled", "ended"}]
    /\ muHeld \in Stoppers \cup {NoStopper}
    /\ toldJobs \in [RunningJobs -> Nat]
    /\ startReturned \in BOOLEAN

ShutdownInit ==
    /\ options \in OptionSets
    /\ once = [by |-> NoStopper, over |-> FALSE]
    /\ stopCall = [s \in Stoppers |-> [call |-> "none", at |-> "idle"]]
    /\ expired = [s \in Stoppers |-> FALSE]
    /\ stopped = <<>>
    /\ jobs = [j \in RunningJobs |-> "running"]
    /\ muHeld = NoStopper
    /\ toldJobs = [j \in RunningJobs |-> 0]
    /\ startReturned = FALSE

-------------------------------------------------------------------------------
(* The calls.                                                                *)

CallStop(s, call) ==
    /\ stopCall[s].at = "idle"
    /\ stopCall' = [stopCall EXCEPT ![s] = [call |-> call, at |-> "once"]]
    /\ UNCHANGED <<options, once, expired, stopped, jobs, muHeld, toldJobs, startReturned>>

TimeoutExpires(s) ==
    /\ stopCall[s].call = "StopWithTimeout" /\ ~expired[s]
    /\ expired' = [expired EXCEPT ![s] = TRUE]
    /\ UNCHANGED <<options, once, stopCall, stopped, jobs, muHeld, toldJobs, startReturned>>

EnterOnce(s) ==
    /\ stopCall[s].at = "once"
    /\ once.by = NoStopper
    /\ once' = [once EXCEPT !.by = s]
    /\ stopCall' = [stopCall EXCEPT ![s].at = "step"]
    /\ UNCHANGED <<options, expired, stopped, jobs, muHeld, toldJobs, startReturned>>

\* Do() returns to those that came later when the first is through.
OnceIsOver(s) ==
    /\ stopCall[s].at = "once"
    /\ once.over
    /\ stopCall' = [stopCall EXCEPT ![s].at = "waiting"]
    /\ UNCHANGED <<options, once, expired, stopped, jobs, muHeld, toldJobs, startReturned>>

NextStep(s) == Steps(stopCall[s].call)[Len(stopped) + 1]

\* The parts there are: stopCh and a connection are closed, the others told to stop.
StopsPart(s) ==
    /\ stopCall[s].at = "step"
    /\ NextStep(s) \notin {"preStop", "cleanup", "jobs", "doneCh"}
    /\ stopped' = Append(stopped, NextStep(s))
    /\ UNCHANGED <<options, once, stopCall, expired, jobs, muHeld, toldJobs, startReturned>>

\* A hook runs in this goroutine, whether the timeout is over or not.
HooksBegin(s) ==
    /\ stopCall[s].at = "step"
    /\ NextStep(s) \in {"preStop", "cleanup"}
    /\ stopCall' = [stopCall EXCEPT ![s].at = "hook"]
    /\ UNCHANGED <<options, once, expired, stopped, jobs, muHeld, toldJobs, startReturned>>

HooksReturn(s) ==
    /\ stopCall[s].at = "hook"
    /\ stopped' = Append(stopped, NextStep(s))
    /\ stopCall' = [stopCall EXCEPT ![s].at = "step"]
    /\ UNCHANGED <<options, once, expired, jobs, muHeld, toldJobs, startReturned>>

\* A hook that stops the worker waits for the once it runs in.
HookStopsWorker(s) ==
    /\ stopCall[s].at = "hook"
    /\ stopCall' = [stopCall EXCEPT ![s].at = "stuck"]
    /\ UNCHANGED <<options, once, expired, stopped, jobs, muHeld, toldJobs, startReturned>>

-------------------------------------------------------------------------------
(* The jobs.                                                                 *)

Unended == {j \in RunningJobs : jobs[j] # "ended"}

\* StopWithTimeout() cancels every job in one critical section.
CancelJobs(s) ==
    /\ stopCall[s].at = "step" /\ NextStep(s) = "jobs"
    /\ stopCall[s].call = "StopWithTimeout" /\ muHeld = NoStopper
    /\ jobs' = [j \in RunningJobs |-> IF j \in Unended THEN "cancelled" ELSE jobs[j]]
    /\ stopped' = Append(stopped, "jobs")
    /\ UNCHANGED <<options, once, stopCall, expired, muHeld, toldJobs, startReturned>>

\* Stop() calls OnJobTerminated for each job it cancels with w.mu locked.
TerminateJobsBegins(s) ==
    /\ stopCall[s].at = "step" /\ NextStep(s) = "jobs"
    /\ stopCall[s].call = "Stop" /\ muHeld = NoStopper
    /\ muHeld' = s
    /\ UNCHANGED <<options, once, stopCall, expired, stopped, jobs, toldJobs, startReturned>>

TerminateJob(s, j) ==
    /\ muHeld = s /\ stopCall[s].at = "step"
    /\ jobs[j] = "running"
    /\ jobs' = [jobs EXCEPT ![j] = "cancelled"]
    /\ toldJobs' = [toldJobs EXCEPT ![j] = @ + 1]
    /\ UNCHANGED <<options, once, stopCall, expired, stopped, muHeld, startReturned>>

\* A handler that asks the worker for something from OnJobTerminated waits for w.mu.
HandlerAsksWorker(s) ==
    /\ muHeld = s /\ stopCall[s].at = "step" /\ \E j \in RunningJobs : jobs[j] = "cancelled"
    /\ stopCall' = [stopCall EXCEPT ![s].at = "stuck"]
    /\ UNCHANGED <<options, once, expired, stopped, jobs, muHeld, toldJobs, startReturned>>

TerminateJobsEnds(s) ==
    /\ muHeld = s /\ stopCall[s].at = "step"
    /\ \A j \in RunningJobs : jobs[j] # "running"
    /\ muHeld' = NoStopper
    /\ stopped' = Append(stopped, "jobs")
    /\ UNCHANGED <<options, once, stopCall, expired, jobs, toldJobs, startReturned>>

\* runJobHandler() is through: the job is deleted under w.mu, and OnJobTerminated called.
JobEnds(j) ==
    /\ jobs[j] # "ended" /\ muHeld = NoStopper
    /\ jobs' = [jobs EXCEPT ![j] = "ended"]
    /\ toldJobs' = [toldJobs EXCEPT ![j] = @ + 1]
    /\ UNCHANGED <<options, once, stopCall, expired, stopped, muHeld, startReturned>>

-------------------------------------------------------------------------------
(* The end.                                                                  *)

\* close(doneCh) is the last thing in the once.
CloseDone(s) ==
    /\ stopCall[s].at = "step" /\ NextStep(s) = "doneCh"
    /\ stopped' = Append(stopped, "doneCh")
    /\ once' = [once EXCEPT !.over = TRUE]
    /\ stopCall' = [stopCall EXCEPT ![s].at = "waiting"]
    /\ UNCHANGED <<options, expired, jobs, muHeld, toldJobs, startReturned>>

\* Stop() returns; StopWithTimeout() waits for doneCh or the timeout, whichever is there.
StopReturns(s) ==
    /\ stopCall[s].at = "waiting"
    /\ stopCall[s].call = "StopWithTimeout" => "doneCh" \in ToSet(stopped)
    /\ stopCall' = [stopCall EXCEPT ![s].at = "nil"]
    /\ UNCHANGED <<options, once, expired, stopped, jobs, muHeld, toldJobs, startReturned>>

StopTimesOut(s) ==
    /\ stopCall[s].at = "waiting"
    /\ expired[s]
    /\ stopCall' = [stopCall EXCEPT ![s].at = "timeout"]
    /\ UNCHANGED <<options, once, expired, stopped, jobs, muHeld, toldJobs, startReturned>>

\* Start() returns as soon as stopCh is closed.
StartReturns ==
    /\ ~startReturned
    /\ "stopCh" \in ToSet(stopped)
    /\ startReturned' = TRUE
    /\ UNCHANGED <<options, once, stopCall, expired, stopped, jobs, muHeld, toldJobs>>

ShutdownNext ==
    \/ \E s \in Stoppers :
        \/ \E call \in Calls : CallStop(s, call)
        \/ TimeoutExpires(s) \/ EnterOnce(s) \/ OnceIsOver(s)
        \/ StopsPart(s) \/ HooksBegin(s) \/ HooksReturn(s) \/ HookStopsWorker(s)
        \/ CancelJobs(s) \/ TerminateJobsBegins(s) \/ HandlerAsksWorker(s) \/ TerminateJobsEnds(s)
        \/ \E j \in RunningJobs : TerminateJob(s, j)
        \/ CloseDone(s) \/ StopReturns(s) \/ StopTimesOut(s)
    \/ \E j \in RunningJobs : JobEnds(j)
    \/ StartReturns

ShutdownSpec == ShutdownInit /\ [][ShutdownNext]_shutdownVars

-------------------------------------------------------------------------------
(* Properties.                                                               *)

\* Whoever returns, first or later and in time or not, finds every part stopped, and every
\* job cancelled or ended: the timeout is looked at when there is nothing left to wait for.
\* What runs on its own is stopped: the limiter and the collector when they were made.
ReturnsWhenStopped ==
    \A s \in Stoppers : stopCall[s].at \in {"waiting", "nil", "timeout"} =>
        /\ {"stopCh", "messageHandler", "jobs", "doneCh"} \cup ToSet(Parts) \subseteq ToSet(stopped)
        /\ \A j \in RunningJobs : jobs[j] # "running"
        /\ "limits" \in options => "resourceLimiter" \in ToSet(stopped)
        /\ "metricsCollector" \in ToSet(stopped) => "cpuLoad" \in options

\* A job's handler is told of its end once by the worker's stop, and once by the job's own.
ToldTwiceAtMost ==
    \A j \in RunningJobs :
        /\ toldJobs[j] <= 2
        /\ jobs[j] = "ended" => toldJobs[j] >= 1

\* The timeout bounds the call.  The code breaks this: the hooks run inside the once, one
\* that does not return keeps StopWithTimeout() for ever.
TimeoutBoundsCall ==
    \A s \in Stoppers : ~(expired[s] /\ stopCall[s].at = "stuck")
===============================================================================
