----------------------------- MODULE TimingManager -----------------------------
(***************************************************************************)
(* TimingManager: the offset of the server's clock, the deadlines of jobs  *)
(* adjusted for it, and a window over recorded events that says when to    *)
(* slow down.  TimingGuard runs operations under all three.                *)
(*                                                                         *)
(* Time is counted in units; the clock is the worker's.                    *)
(***************************************************************************)
EXTENDS Integers, Sequences, FiniteSets, SequencesExt

CONSTANTS
    TimedJobs,          \* job IDs
    Skews,              \* serverTime - receivedAt of a sample
    MaxSkewSamples,
    SkewThreshold,
    Deadlines,          \* deadlines a job may be given
    Window, RateLimit,  \* of the BackpressureController
    MaxClock,           \* bound on the worker's clock
    MaxTimedEvents,     \* bound on the events recorded
    TimingGuards,       \* goroutines that execute a TimingGuard
    NoDeadline

ASSUME TimingAssumption ==
    /\ Skews \subseteq Int /\ Deadlines \subseteq Int
    /\ MaxSkewSamples \in Nat \ {0} /\ SkewThreshold \in Nat
    /\ Window \in Nat \ {0} /\ RateLimit \in Nat /\ MaxClock \in Nat /\ MaxTimedEvents \in Nat
    /\ NoDeadline \notin [original : Int, adjusted : Int, offset : Int]

VARIABLES
    workerClock,              \* time.Now()
    skewSamples,
    serverTimeOffset,
    deadlines,          \* of each job: original, adjusted, and the offset when it was set
    recordedEvents,     \* b.events
    allEvents,          \* every event recorded, none cleaned up
    lastCleanup,
    timingGuards        \* what each guarded operation does, and for which job

skewVars == <<skewSamples, serverTimeOffset, deadlines>>
rateVars == <<recordedEvents, allEvents, lastCleanup>>
timingVars == <<workerClock, skewVars, rateVars, timingGuards>>

DeadlineContext == [original : Int, adjusted : Int, offset : Int]

TimingTypeOK ==
    /\ workerClock \in 0..MaxClock /\ lastCleanup \in 0..MaxClock
    /\ skewSamples \in Seq(Int) /\ Len(skewSamples) <= MaxSkewSamples
    /\ serverTimeOffset \in Int
    /\ \A j \in TimedJobs : deadlines[j] \in DeadlineContext \cup {NoDeadline}
    /\ recordedEvents \in Seq(0..MaxClock) /\ allEvents \in Seq(0..MaxClock)
    /\ timingGuards \in [TimingGuards -> {"idle", "asking", "delayed", "recording", "running"}]

TimingInit ==
    /\ workerClock = 0 /\ lastCleanup = 0
    /\ skewSamples = <<>> /\ serverTimeOffset = 0
    /\ deadlines = [j \in TimedJobs |-> NoDeadline]
    /\ recordedEvents = <<>> /\ allEvents = <<>>
    /\ timingGuards = [g \in TimingGuards |-> "idle"]

ClockTicks ==
    /\ workerClock < MaxClock
    /\ workerClock' = workerClock + 1
    /\ UNCHANGED <<skewVars, rateVars, timingGuards>>

-------------------------------------------------------------------------------
(* Clock skew and deadlines.                                             *)

\* Durations are divided towards zero.
Quotient(total, n) == IF total >= 0 THEN total \div n ELSE -((-total) \div n)

Average(samples) ==
    LET Sum[i \in 0..Len(samples)] == IF i = 0 THEN 0 ELSE Sum[i - 1] + samples[i]
    IN  Quotient(Sum[Len(samples)], Len(samples))

Magnitude(d) == IF d < 0 THEN -d ELSE d

\* Mutation of Adjusted: a deadline is moved to what the offset makes of the original.
AdjustedAnew(d, adjustment) == [d EXCEPT !.adjusted = d.original + adjustment]

\* adjustDeadlinesForSkew() moves a deadline by the change of the offset.
Adjusted(d, adjustment) == [d EXCEPT !.adjusted = @ + adjustment]

\* The offset follows the average of the latest samples, as long as that is over the
\* threshold; a smaller one changes nothing.
UpdateServerTime(skew) ==
    LET appended == Append(skewSamples, skew)
        samples == IF Len(appended) > MaxSkewSamples THEN Tail(appended) ELSE appended
        average == Average(samples)
    IN  /\ skewSamples' = samples
        /\ IF Magnitude(average) > SkewThreshold
           THEN /\ serverTimeOffset' = average
                /\ deadlines' = [j \in TimedJobs |->
                        IF deadlines[j] = NoDeadline THEN NoDeadline
                        ELSE Adjusted(deadlines[j], average - serverTimeOffset)]
           ELSE UNCHANGED <<serverTimeOffset, deadlines>>
        /\ UNCHANGED <<workerClock, rateVars, timingGuards>>

SetDeadline(j, deadline) ==
    /\ deadlines' = [deadlines EXCEPT ![j] =
            [original |-> deadline, adjusted |-> deadline - serverTimeOffset,
             offset |-> serverTimeOffset]]
    /\ UNCHANGED <<workerClock, skewSamples, serverTimeOffset, rateVars, timingGuards>>

RemoveDeadline(j) ==
    /\ deadlines' = [deadlines EXCEPT ![j] = NoDeadline]
    /\ UNCHANGED <<workerClock, skewSamples, serverTimeOffset, rateVars, timingGuards>>

DeadlineExceeded(j) == deadlines[j] # NoDeadline /\ workerClock > deadlines[j].adjusted

-------------------------------------------------------------------------------
(* Back-pressure.                                                        *)

\* The events at the end of the list that are after the cutoff.
CurrentRate ==
    Cardinality({i \in DOMAIN recordedEvents :
        \A k \in i..Len(recordedEvents) : recordedEvents[k] > workerClock - Window})

ShouldApplyBackpressure == CurrentRate >= RateLimit

\* Mutation of CleanedUp: all that was recorded before is forgotten.
CleanedUpWhole(events) == SelectSeq(events, LAMBDA t : t = workerClock)

\* cleanup() drops the events at the front of the list that are before the cutoff.
CleanedUp(events) ==
    LET dropped == {i \in DOMAIN events : \A k \in 1..i : events[k] < workerClock - Window}
    IN  SubSeq(events, Cardinality(dropped) + 1, Len(events))

\* Cleaning up is left to the first event after each window.
Record ==
    LET appended == Append(recordedEvents, workerClock)
        due == workerClock - lastCleanup > Window
    IN  /\ Len(allEvents) < MaxTimedEvents
        /\ allEvents' = Append(allEvents, workerClock)
        /\ recordedEvents' = IF due THEN CleanedUp(appended) ELSE appended
        /\ lastCleanup' = IF due THEN workerClock ELSE lastCleanup

RecordEvent ==
    /\ Record
    /\ UNCHANGED <<workerClock, skewVars, timingGuards>>

-------------------------------------------------------------------------------
(* TimingGuard.                                                          *)

GuardMoves(g, from, to) ==
    /\ timingGuards[g] = from
    /\ timingGuards' = [timingGuards EXCEPT ![g] = to]

\* Past the deadline the operation does not run at all.
GuardBegins(g, j) ==
    /\ ~DeadlineExceeded(j)
    /\ GuardMoves(g, "idle", "asking")
    /\ UNCHANGED <<workerClock, skewVars, rateVars>>

\* The delay is zero at the limit itself.
GuardChecksRate(g) ==
    /\ GuardMoves(g, "asking", IF ShouldApplyBackpressure /\ CurrentRate > RateLimit
                               THEN "delayed" ELSE "recording")
    /\ UNCHANGED <<workerClock, skewVars, rateVars>>

DelayEnds(g) ==
    /\ GuardMoves(g, "delayed", "recording")
    /\ UNCHANGED <<workerClock, skewVars, rateVars>>

GuardRuns(g) ==
    /\ GuardMoves(g, "recording", "running")
    /\ Record
    /\ UNCHANGED <<workerClock, skewVars>>

GuardReturns(g) ==
    /\ GuardMoves(g, "running", "idle")
    /\ UNCHANGED <<workerClock, skewVars, rateVars>>

TimingNext ==
    \/ ClockTicks \/ RecordEvent
    \/ \E skew \in Skews : UpdateServerTime(skew)
    \/ \E j \in TimedJobs : (\E d \in Deadlines : SetDeadline(j, d)) \/ RemoveDeadline(j)
    \/ \E g \in TimingGuards :
        \/ \E j \in TimedJobs : GuardBegins(g, j)
        \/ GuardChecksRate(g) \/ DelayEnds(g) \/ GuardRuns(g) \/ GuardReturns(g)

TimingSpec == TimingInit /\ [][TimingNext]_timingVars

-------------------------------------------------------------------------------
(* Properties.                                                           *)

\* The rate is that of all events ever recorded: what was cleaned up, and when, does not show.
RateIsExact ==
    CurrentRate = Cardinality({i \in DOMAIN allEvents : allEvents[i] > workerClock - Window})

\* However often the offset changed since, a deadline has moved by what it changed in all.
DeadlinesMoveWithOffset ==
    \A j \in TimedJobs : deadlines[j] # NoDeadline =>
        deadlines[j].adjusted - (deadlines[j].original - deadlines[j].offset)
            = serverTimeOffset - deadlines[j].offset

\* An adjusted deadline is the original in the worker's clock, as SetDeadline() makes it.  The
\* code breaks this: adjustDeadlinesForSkew() moves a deadline the other way.
DeadlineInWorkerClock ==
    \A j \in TimedJobs : deadlines[j] # NoDeadline =>
        deadlines[j].adjusted = deadlines[j].original - serverTimeOffset
===============================================================================
