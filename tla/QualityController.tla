--------------------------- MODULE QualityController ---------------------------
(***************************************************************************)
(* QualityController: the monitors of the tracks, the goroutine            *)
(* monitorLoop that adapts their quality once a tick, and the callers that *)
(* start and stop monitoring.  StopMonitoring of the last track closes     *)
(* stopCh and waits for the loop with qc.mu held.                          *)
(*                                                                         *)
(* A monitor is an object of its own: the loop works on the monitors it    *)
(* copied under the lock, and one of them may have been removed since and  *)
(* its track be monitored again.  The statistics, which nothing in the     *)
(* package but its tests fills in, are a verdict about the network.        *)
(***************************************************************************)
EXTENDS Naturals, FiniteSets

CONSTANTS
    Tracks,         \* the tracks that are monitored
    Monitors,       \* identities of TrackQualityMonitor objects, used again when unreachable
    NoMonitor,      \* a track that is not monitored
    Loops,          \* identities of monitorLoop goroutines
    Policies        \* adaptation policies: records [min, max] of qualities

VideoQuality == 0..3
LOW == 0
MEDIUM == 1
HIGH == 2
OFF == 3

ASSUME QualityAssumption ==
    /\ NoMonitor \notin Monitors
    /\ Policies \subseteq [min : VideoQuality, max : VideoQuality]
    /\ \A p \in Policies : p.min <= p.max

VARIABLES
    monitors,       \* qc.monitors: the monitor of each track
    monitor,        \* the TrackQualityMonitor objects
    subscribed,     \* Subscription.CurrentQuality of each track
    policy,         \* qc.adaptationPolicy
    stopClosed,     \* whether qc.stopCh is closed
    stopping,       \* whether StopMonitoring waits for the loops, holding qc.mu
    loop,           \* where each loop is
    todo,           \* the monitors a loop copied and has not updated yet
    copied          \* the policy a loop copied

qualityVars ==
    <<monitors, monitor, subscribed, policy, stopClosed, stopping, loop, todo, copied>>

\* Conditions, worst first: high loss, high RTT, freezes, jitter or a saturated link ask
\* for less; nothing of the kind and no headroom; headroom.
Network == {"poor", "fair", "good"}

Monitor == [track : Tracks, quality : VideoQuality, adapt : BOOLEAN]

LoopPc == {"none", "select", "lock", "update"}

QualityTypeOK ==
    /\ monitors \in [Tracks -> Monitors \cup {NoMonitor}]
    /\ monitor \in [Monitors -> Monitor]
    /\ subscribed \in [Tracks -> VideoQuality]
    /\ policy \in Policies
    /\ stopClosed \in BOOLEAN
    /\ stopping \in BOOLEAN
    /\ loop \in [Loops -> LoopPc]
    /\ todo \in [Loops -> SUBSET Monitors]
    /\ copied \in [Loops -> Policies]

\* handleTrackSubscribed gives each subscription HIGH.
QualityInit ==
    /\ monitors = [t \in Tracks |-> NoMonitor]
    /\ \E t \in Tracks : monitor = [m \in Monitors |->
            [track |-> t, quality |-> LOW, adapt |-> FALSE]]
    /\ subscribed = [t \in Tracks |-> HIGH]
    /\ policy \in Policies
    /\ stopClosed = FALSE
    /\ stopping = FALSE
    /\ loop = [l \in Loops |-> "none"]
    /\ todo = [l \in Loops |-> {}]
    /\ copied = [l \in Loops |-> policy]

-------------------------------------------------------------------------------
(* The callers.  Each operation is one critical section of qc.mu, which      *)
(* StopMonitoring keeps while it waits.                                      *)

Monitored == {t \in Tracks : monitors[t] # NoMonitor}

Running == {l \in Loops : loop[l] # "none"}

\* Nothing refers to m: it is not in the map nor in a loop's copy.
Unused(m) == (\A t \in Tracks : monitors[t] # m) /\ (\A l \in Loops : m \notin todo[l])

SetAdaptationPolicy(p) ==
    /\ ~stopping
    /\ policy' = p
    /\ UNCHANGED <<monitors, monitor, subscribed, stopClosed, stopping, loop, todo, copied>>

\* Mutation of StartLoop: every track starts a loop.
StartLoopAlways == \E l \in Loops \ Running : loop' = [loop EXCEPT ![l] = "select"]

\* The first track starts the loop.
StartLoop ==
    IF Monitored = {}
    THEN \E l \in Loops \ Running : loop' = [loop EXCEPT ![l] = "select"]
    ELSE UNCHANGED loop

StartMonitoring(t) ==
    /\ ~stopping
    /\ monitors[t] = NoMonitor
    /\ \E m \in Monitors :
        /\ Unused(m)
        /\ monitors' = [monitors EXCEPT ![t] = m]
        /\ monitor' = [monitor EXCEPT ![m] =
                [track |-> t, quality |-> subscribed[t], adapt |-> TRUE]]
    /\ StartLoop
    /\ UNCHANGED <<subscribed, policy, stopClosed, stopping, todo, copied>>

\* StopMonitoring() up to wg.Wait(); it does not ask whether the track was monitored.
StopMonitoring(t) ==
    /\ ~stopping
    /\ monitors' = [monitors EXCEPT ![t] = NoMonitor]
    /\ stopping' = (Monitored \subseteq {t})
    /\ stopClosed' = stopping'
    /\ UNCHANGED <<monitor, subscribed, policy, loop, todo, copied>>

\* wg.Wait() returns; stopCh is made anew and the lock released.
StopReturns ==
    /\ stopping
    /\ Running = {}
    /\ stopping' = FALSE
    /\ stopClosed' = FALSE
    /\ UNCHANGED <<monitors, monitor, subscribed, policy, loop, todo, copied>>

EnableAdaptation(t, enabled) ==
    /\ ~stopping
    /\ monitors[t] # NoMonitor
    /\ monitor' = [monitor EXCEPT ![monitors[t]].adapt = enabled]
    /\ UNCHANGED <<monitors, subscribed, policy, stopClosed, stopping, loop, todo, copied>>

-------------------------------------------------------------------------------
(* updateTrackQuality().                                                     *)

decreaseQuality(q) == IF q = HIGH THEN MEDIUM ELSE LOW

increaseQuality(q) == IF q = LOW THEN MEDIUM ELSE HIGH

\* Mutation of Clamp: only the upper limit is applied.
ClampAbove(q, p) == IF q > p.max THEN p.max ELSE q

Clamp(q, p) == IF q > p.max THEN p.max ELSE IF q < p.min THEN p.min ELSE q

TargetQuality(q, p, network) ==
    Clamp(CASE network = "poor" -> decreaseQuality(q)
            [] network = "good" -> increaseQuality(q)
            [] OTHER -> q, p)

\* early: MinTimeBetweenChanges has not passed since the monitor's last change.
Update(m, p, network, early) ==
    LET now == monitor[m]
        target == TargetQuality(now.quality, p, network)
    IN  IF now.adapt /\ ~early /\ target # now.quality
        THEN /\ monitor' = [monitor EXCEPT ![m].quality = target]
             /\ subscribed' = [subscribed EXCEPT ![now.track] = target]
        ELSE UNCHANGED <<monitor, subscribed>>

-------------------------------------------------------------------------------
(* CalculateOptimalQuality(), for a caller that chooses by the connection's  *)
(* quality instead.                                                          *)

DefaultQualityAdaptationPolicy == [min |-> LOW, max |-> HIGH]

CalculateOptimalQuality(connection, p) ==
    CASE connection = "excellent" -> p.max
      [] connection = "good" -> IF p.max = HIGH THEN MEDIUM ELSE p.max
      [] connection = "poor" -> p.min
      [] OTHER -> MEDIUM

-------------------------------------------------------------------------------
(* monitorLoop().                                                            *)

Goto(l, from, to) == loop[l] = from /\ loop' = [loop EXCEPT ![l] = to]

LoopTicks(l) ==
    /\ Goto(l, "select", "lock")
    /\ UNCHANGED <<monitors, monitor, subscribed, policy, stopClosed, stopping, todo, copied>>

LoopEnds(l) ==
    /\ stopClosed
    /\ Goto(l, "select", "none")
    /\ UNCHANGED <<monitors, monitor, subscribed, policy, stopClosed, stopping, todo, copied>>

\* updateAllMonitors() copies the monitors and the policy under the read lock.
LoopCopies(l) ==
    /\ ~stopping
    /\ Goto(l, "lock", "update")
    /\ todo' = [todo EXCEPT ![l] = {monitors[t] : t \in Monitored}]
    /\ copied' = [copied EXCEPT ![l] = policy]
    /\ UNCHANGED <<monitors, monitor, subscribed, policy, stopClosed, stopping>>

LoopUpdates(l) ==
    /\ loop[l] = "update"
    /\ \E m \in todo[l], network \in Network, early \in BOOLEAN :
        /\ Update(m, copied[l], network, early)
        /\ todo' = [todo EXCEPT ![l] = @ \ {m}]
    /\ UNCHANGED <<monitors, policy, stopClosed, stopping, loop, copied>>

LoopDone(l) ==
    /\ todo[l] = {}
    /\ Goto(l, "update", "select")
    /\ UNCHANGED <<monitors, monitor, subscribed, policy, stopClosed, stopping, todo, copied>>

-------------------------------------------------------------------------------
LoopStep(l) == LoopTicks(l) \/ LoopEnds(l) \/ LoopCopies(l) \/ LoopUpdates(l) \/ LoopDone(l)

QualityNext ==
    \/ \E p \in Policies : SetAdaptationPolicy(p)
    \/ \E t \in Tracks : StartMonitoring(t) \/ StopMonitoring(t)
    \/ \E t \in Tracks, e \in BOOLEAN : EnableAdaptation(t, e)
    \/ StopReturns
    \/ \E l \in Loops : LoopStep(l)

QualitySpec == QualityInit /\ [][QualityNext]_qualityVars

-------------------------------------------------------------------------------
(* Properties.                                                               *)

\* Whatever callers start and stop, one loop runs as long as a track is monitored, and
\* none is left over once StopMonitoring of the last track has returned.
OneLoopWhileMonitored ==
    ~stopping => Cardinality(Running) = IF Monitored = {} THEN 0 ELSE 1

\* A quality that was changed is one its policy allows: what a subscription asks for is
\* within the bounds of the policy the loop copied, even on a step from OFF, for
\* monitors that were removed meanwhile too.
ChangesWithinPolicy ==
    [][\A t \in Tracks : subscribed'[t] # subscribed[t] =>
        \E l \in Loops : loop[l] = "update" /\ subscribed'[t] \in copied[l].min..copied[l].max
       ]_qualityVars

\* "If this was the last monitored track, the monitoring loop is also stopped": the loop
\* never waits for the lock that StopMonitoring holds while it waits for the loop.
StopMonitoringReturns ==
    ~(stopping /\ \E l \in Loops : loop[l] = "lock")

\* A better connection never gets a lower quality, under the default policy and any other
\* that allows MEDIUM; and as long as it does, nothing but what it allows is chosen.  (A
\* policy from HIGH to HIGH has GOOD connections get MEDIUM, below POOR ones.)
OptimalFollowsConnection ==
    \A p \in {policy, DefaultQualityAdaptationPolicy} :
        p.min <= MEDIUM /\ MEDIUM <= p.max /\ p.max # OFF =>
            LET Optimal(connection) == CalculateOptimalQuality(connection, p)
            IN  /\ Optimal("poor") <= Optimal("good") /\ Optimal("good") <= Optimal("excellent")
                /\ \A c \in {"excellent", "good", "poor", "lost"} : Optimal(c) \in p.min..p.max
===============================================================================
