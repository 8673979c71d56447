----------------------------- MODULE StageObservers -----------------------------
(***************************************************************************)
(* What the stages of a pipeline tell those who watch them.  The           *)
(* transcription and the translation stage call back for every event: the  *)
(* callbacks are copied under the stage's lock and each is started in a    *)
(* goroutine of its own.  And the stages keep figures of their latencies:  *)
(* a ring of the last calls, averages that a new latency moves by a tenth, *)
(* the time each transcription took, the delays of routed packets.         *)
(*                                                                         *)
(* A latency is a number of small units, and an average is rounded down to *)
(* one: the code keeps fractions.                                          *)
(***************************************************************************)
EXTENDS Integers, Sequences, SequencesExt, FiniteSets, FiniteSetsExt

CONSTANTS
    Observers,      \* callbacks that are registered
    Notifiers,      \* goroutines that report events: data channels, processEvents
    Watched,        \* goroutines that call Process
    MaxCallbacks,   \* bound on the callbacks registered at once
    MaxNotified,    \* bound on the events and frames
    Latencies,      \* the latencies of the calls
    Delays,         \* the delays of routed packets
    Buckets,        \* latencyBuckets, the length of a ring
    MaxMeasured,    \* bound on the latencies of one figure
    MaxTime         \* bound on the clock

ASSUME ObserversAssumption ==
    /\ Latencies \subseteq Nat /\ Delays \subseteq Nat /\ Buckets \in Nat \ {0}
    /\ {MaxCallbacks, MaxNotified, MaxMeasured, MaxTime} \subseteq Nat

VARIABLES
    callbacks,      \* transcriptionCallbacks, or translationCallbacks
    beforeCallbacks, \* beforeTranscriptionCallbacks, or beforeTranslationCallbacks
    notified,       \* events reported, numbered
    notifying,      \* the calls each notifier has still to start
    started,        \* goroutines of callbacks that run
    called,         \* calls made, of callbacks and of before-callbacks
    due,            \* the calls owed when their event or frame came
    before,         \* the before-callbacks each Process has still to call
    framesSeen      \* framesSeen Process was given, numbered

callbackVars ==
    <<callbacks, beforeCallbacks, notified, notifying, started, called, due, before, framesSeen>>

VARIABLES
    ring,           \* apiMetrics: the latency and the first-token buckets, with their index
    timing,         \* what each call has yet to record
    warm,           \* whether warmUp is over
    average,        \* AverageLatencyMs and AverageTimeToFirstToken of the stats
    measured,       \* the latencies recorded in each ring, in order
    averaged        \* the latencies each average was made of

figureVars == <<ring, timing, warm, average, measured, averaged>>

VARIABLES
    time,           \* the clock
    segmentStart,   \* CurrentSegmentStartTime; 0 for none
    segmentAverage, \* AverageLatencyMs of the transcription
    firstAudio,     \* when the first packet was written
    segments,       \* the latencies of the transcriptions
    cameAt          \* when the transcription of each notifier came; 0 for none

segmentVars == <<time, segmentStart, segmentAverage, firstAudio, segments, cameAt>>

VARIABLES
    delay,          \* WebRTCRoutingStats: the minimum, maximum and average latency
    delays          \* the latencies of the packets routed

delayVars == <<delay, delays>>

Call == [kind : {"event", "frame"}, number : Nat, nth : Nat, to : Observers]

Figures == {"call", "firstToken"}

NoToken == -1

Timing == [at : {"idle", "token", "stats"}, latency : Nat, firstToken : Nat \cup {NoToken}]

Untimed == [at |-> "idle", latency |-> 0, firstToken |-> NoToken]

ObserversTypeOK ==
    /\ callbacks \in Seq(Observers) /\ beforeCallbacks \in Seq(Observers)
    /\ notified \in Nat /\ framesSeen \in Nat
    /\ \A n \in Notifiers : notifying[n] \in Seq(Call)
    /\ \A p \in Watched : before[p] \in Seq(Call)
    /\ started \cup called \cup due \subseteq Call

FiguresTypeOK ==
    /\ \A f \in Figures : /\ ring[f].bucket \in [0..(Buckets - 1) -> Nat]
                          /\ ring[f].index \in 0..(Buckets - 1)
                          /\ measured[f] \in Seq(Latencies) /\ average[f] \in Nat
    /\ timing \in [Notifiers -> Timing]

CallbacksInit ==
    /\ callbacks = <<>> /\ beforeCallbacks = <<>>
    /\ notified = 0 /\ framesSeen = 0
    /\ notifying = [n \in Notifiers |-> <<>>]
    /\ before = [p \in Watched |-> <<>>]
    /\ started = {} /\ called = {} /\ due = {}

FiguresInit ==
    /\ ring = [f \in Figures |-> [bucket |-> [b \in 0..(Buckets - 1) |-> 0], index |-> 0]]
    /\ timing = [n \in Notifiers |-> Untimed]
    /\ warm = FALSE
    /\ average = [f \in Figures |-> 0]
    /\ measured = [f \in Figures |-> <<>>]
    /\ averaged = [f \in Figures |-> {}]

SegmentsInit ==
    /\ time = 1
    /\ segmentStart = 0 /\ firstAudio = 0
    /\ segmentAverage = 0
    /\ segments = <<>>
    /\ cameAt = [n \in Notifiers |-> 0]

DelaysInit ==
    /\ delay = [min |-> 0, max |-> 0, average |-> 0]
    /\ delays = <<>>

-------------------------------------------------------------------------------
(* Callbacks.                                                                *)

AddCallback(o) ==
    /\ Len(callbacks) < MaxCallbacks
    /\ callbacks' = Append(callbacks, o)
    /\ UNCHANGED <<beforeCallbacks, notified, notifying, started, called, due, before, framesSeen>>

AddBeforeCallback(o) ==
    /\ Len(beforeCallbacks) < MaxCallbacks
    /\ beforeCallbacks' = Append(beforeCallbacks, o)
    /\ UNCHANGED <<callbacks, notified, notifying, started, called, due, before, framesSeen>>

\* It stops neither what was copied nor what has been started.
RemoveAllCallbacks ==
    /\ callbacks' = <<>> /\ beforeCallbacks' = <<>>
    /\ UNCHANGED <<notified, notifying, started, called, due, before, framesSeen>>

\* The calls that the callbacks registered now are owed.
Copied(registered, kind, number) ==
    [i \in DOMAIN registered |->
        [kind |-> kind, number |-> number, nth |-> i, to |-> registered[i]]]

\* notifyTranscription() and notifyTranslation() copy the callbacks under the lock ...
NotifyCallbacks(n) ==
    /\ notifying[n] = <<>>
    /\ notified + framesSeen < MaxNotified
    /\ notified' = notified + 1
    /\ LET calls == Copied(callbacks, "event", notified + 1)
       IN  notifying' = [notifying EXCEPT ![n] = calls] /\ due' = due \cup ToSet(calls)
    /\ UNCHANGED <<callbacks, beforeCallbacks, started, called, before, framesSeen>>

\* ... and start them without it.
StartCallback(n) ==
    /\ notifying[n] # <<>>
    /\ notifying' = [notifying EXCEPT ![n] = Tail(@)]
    /\ started' = started \cup {Head(notifying[n])}
    /\ UNCHANGED <<callbacks, beforeCallbacks, notified, called, due, before, framesSeen>>

CallbackRuns(call) ==
    /\ call \in started
    /\ started' = started \ {call}
    /\ called' = called \cup {call}
    /\ UNCHANGED <<callbacks, beforeCallbacks, notified, notifying, due, before, framesSeen>>

\* callBeforeTranscriptionCallbacks() copies likewise, and calls them in turn itself.
CallBefore(p) ==
    /\ before[p] = <<>>
    /\ notified + framesSeen < MaxNotified
    /\ framesSeen' = framesSeen + 1
    /\ LET calls == Copied(beforeCallbacks, "frame", framesSeen + 1)
       IN  before' = [before EXCEPT ![p] = calls] /\ due' = due \cup ToSet(calls)
    /\ UNCHANGED <<callbacks, beforeCallbacks, notified, notifying, started, called>>

BeforeCallbackReturns(p) ==
    /\ before[p] # <<>>
    /\ before' = [before EXCEPT ![p] = Tail(@)]
    /\ called' = called \cup {Head(before[p])}
    /\ UNCHANGED <<callbacks, beforeCallbacks, notified, notifying, started, due, framesSeen>>

CallbacksNext ==
    \/ \E o \in Observers : AddCallback(o) \/ AddBeforeCallback(o)
    \/ RemoveAllCallbacks
    \/ \E n \in Notifiers : NotifyCallbacks(n) \/ StartCallback(n)
    \/ \E call \in started : CallbackRuns(call)
    \/ \E p \in Watched : CallBefore(p) \/ BeforeCallbackReturns(p)

-------------------------------------------------------------------------------
(* The figures of the calls to a provider.                                   *)

\* A latency moves an average by a tenth; an average of zero is none yet.
Smoothed(old, latency) == IF old = 0 THEN latency ELSE (9 * old + latency) \div 10

\* The oldest bucket is overwritten.
Recorded(r, latency) ==
    [bucket |-> [r.bucket EXCEPT ![r.index] = latency], index |-> (r.index + 1) % Buckets]

Records(f, latency) ==
    /\ ring' = [ring EXCEPT ![f] = Recorded(@, latency)]
    /\ measured' = [measured EXCEPT ![f] = Append(@, latency)]

Averages(f, latency) ==
    /\ average' = [average EXCEPT ![f] = Smoothed(@, latency)]
    /\ averaged' = [averaged EXCEPT ![f] = @ \cup {latency}]

\* callOpenAIWithMetrics(), and the speech stage's callOpenAITTS: the call is over, and
\* recordAPILatency is called, whether a first token came or not.
RecordAPILatency(c, latency) ==
    /\ timing[c].at = "idle"
    /\ Len(measured["call"]) < MaxMeasured
    /\ Records("call", latency)
    /\ \E firstToken \in {l \in Latencies : l <= latency} \cup {NoToken} :
          timing' = [timing EXCEPT ![c] =
                        [at |-> IF firstToken = NoToken THEN "stats" ELSE "token",
                         latency |-> latency, firstToken |-> firstToken]]
    /\ UNCHANGED <<warm, average, averaged>>

\* recordTimeToFirstToken(): under both locks, the metrics' and the stats'.
RecordTimeToFirstToken(c) ==
    /\ timing[c].at = "token"
    /\ Records("firstToken", timing[c].firstToken)
    /\ Averages("firstToken", timing[c].firstToken)
    /\ timing' = [timing EXCEPT ![c].at = "stats"]
    /\ UNCHANGED warm

\* updateStats(): what Process took is the call's latency and a bit; a failure has no
\* average.
UpdateAverage(c) ==
    /\ timing[c].at = "stats"
    /\ timing' = [timing EXCEPT ![c] = Untimed]
    /\ \/ Averages("call", timing[c].latency)
       \/ UNCHANGED <<average, averaged>>
    /\ UNCHANGED <<ring, warm, measured>>

\* The end of warmUp() takes the averages back, and leaves the rings.
ResetAverages ==
    /\ ~warm
    /\ warm' = TRUE
    /\ average' = [f \in Figures |-> 0]
    /\ averaged' = [f \in Figures |-> {}]
    /\ UNCHANGED <<ring, timing, measured>>

\* GetAPIMetrics(): the average over the buckets that are not zero.
Used(f) == {b \in 0..(Buckets - 1) : ring[f].bucket[b] > 0}

RollingAverage(f) ==
    IF Used(f) = {} THEN 0
    ELSE FoldFunction(+, 0, [b \in Used(f) |-> ring[f].bucket[b]]) \div Cardinality(Used(f))

FiguresNext ==
    \/ \E c \in Notifiers : \/ \E l \in Latencies : RecordAPILatency(c, l)
                            \/ RecordTimeToFirstToken(c) \/ UpdateAverage(c)
    \/ ResetAverages

-------------------------------------------------------------------------------
(* The time a transcription took.                                            *)

TimePasses ==
    /\ time < MaxTime
    /\ time' = time + 1
    /\ UNCHANGED <<segmentStart, segmentAverage, firstAudio, segments, cameAt>>

\* A packet was written: the first one begins a segment.
AudioSent ==
    /\ segmentStart = 0
    /\ segmentStart' = time /\ firstAudio' = time
    /\ UNCHANGED <<time, segmentAverage, segments, cameAt>>

\* A transcription comes; its time is taken before the callbacks are started ...
TranscriptionArrives(n) ==
    /\ cameAt[n] = 0
    /\ Len(segments) + Cardinality({m \in Notifiers : cameAt[m] # 0}) < MaxMeasured
    /\ cameAt' = [cameAt EXCEPT ![n] = time]
    /\ UNCHANGED <<time, segmentStart, segmentAverage, firstAudio, segments>>

\* ... and updateStats() with it after them: the segment ends and the next one begins,
\* unless a later transcription was counted meanwhile.
UpdateSegment(n) ==
    /\ cameAt[n] # 0
    /\ IF segmentStart # 0 /\ segmentStart < cameAt[n]
       THEN /\ segments' = Append(segments, cameAt[n] - segmentStart)
            /\ segmentAverage' = Smoothed(segmentAverage, cameAt[n] - segmentStart)
            /\ segmentStart' = cameAt[n]
       ELSE UNCHANGED <<segments, segmentAverage, segmentStart>>
    /\ cameAt' = [cameAt EXCEPT ![n] = 0]
    /\ UNCHANGED <<time, firstAudio>>

SegmentsNext ==
    \/ TimePasses \/ AudioSent
    \/ \E n \in Notifiers : TranscriptionArrives(n) \/ UpdateSegment(n)

-------------------------------------------------------------------------------
(* The delays of routed packets.                                             *)

\* updateStats() of the routing stage, for a packet with a timestamp: a minimum of zero
\* is none yet.
UpdateDelay(latency) ==
    /\ Len(delays) < MaxMeasured
    /\ delay' = [min |-> IF delay.min = 0 \/ latency < delay.min THEN latency ELSE delay.min,
                 max |-> IF latency > delay.max THEN latency ELSE delay.max,
                 average |-> Smoothed(delay.average, latency)]
    /\ delays' = Append(delays, latency)

DelaysNext == \E l \in Delays : UpdateDelay(l)

-------------------------------------------------------------------------------
(* Properties.                                                               *)

Pending ==
    UNION ({ToSet(notifying[n]) : n \in Notifiers} \cup {ToSet(before[p]) : p \in Watched})

\* Every callback registered when an event or a frame came is called with it once for
\* each time it was registered, however callbacks are added and removed meanwhile; none
\* is called twice or with an event from before it was registered.
CalledOncePerRegistration ==
    /\ called \cup started \cup Pending = due
    /\ called \cap started = {} /\ (called \cup started) \cap Pending = {}

\* The last calls recorded that took any time.
Latest(f) ==
    {i \in DOMAIN measured[f] : i > Len(measured[f]) - Buckets /\ measured[f][i] > 0}

\* The API metrics are of the last calls made, as many as there are buckets, in whichever
\* order the goroutines recorded them: what the buckets hold beside zeros is what those
\* calls took, and their average lies between the shortest and the longest of them.
MetricsOfLastCalls ==
    \A f \in Figures :
        /\ Cardinality(Used(f)) = Cardinality(Latest(f))
        /\ \A l \in Latencies \ {0} :
               Cardinality({b \in Used(f) : ring[f].bucket[b] = l})
                  = Cardinality({i \in Latest(f) : measured[f][i] = l})
        /\ Latest(f) # {} =>
               LET took == {measured[f][i] : i \in Latest(f)}
               IN  RollingAverage(f) \in Min(took)..Max(took)

\* A smoothed average lies between the shortest and the longest latency it was made of,
\* though zero stands both for no latency and for a short one.
AveragesBetween ==
    \A f \in Figures :
        IF averaged[f] = {} THEN average[f] = 0
        ELSE average[f] \in Min(averaged[f])..Max(averaged[f])

\* The latencies of the transcriptions are positive and follow on one another without gap
\* or overlap: together they last from the first packet to the latest transcription
\* counted, even when two connections report out of order.
SegmentsFollowOn ==
    /\ \A i \in DOMAIN segments : segments[i] > 0
    /\ segmentStart = firstAudio + FoldFunction(+, 0, segments)
    /\ segmentStart <= time

\* The figures of the routed packets are those of the delays there were, unless one was
\* zero, which the minimum and the average take for none.
DelaysAgree ==
    delays # <<>> /\ 0 \notin ToSet(delays) =>
        /\ delay.min = Min(ToSet(delays)) /\ delay.max = Max(ToSet(delays))
        /\ delay.average \in delay.min..delay.max
===============================================================================
