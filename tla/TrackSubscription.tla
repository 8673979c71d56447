--------------------------- MODULE TrackSubscription ---------------------------
(***************************************************************************)
(* TrackSubscriptionManager: which publications are to be subscribed to,   *)
(* and the priority of a source.  A filter is the set of publications it   *)
(* admits.  The worker creates one and leaves its use to handlers.         *)
(*                                                                         *)
(* ConnectionQualityMonitor: the quality of a participant's connection,    *)
(* its latest measurements, and a callback for its changes that is run     *)
(* when the lock is released.  Qualities are the numbers of                *)
(* livekit.ConnectionQuality, LOST the highest.  Time is counted in units. *)
(*                                                                         *)
(* The two share nothing: each has a specification of its own.             *)
(***************************************************************************)
EXTENDS Integers, Sequences, SequencesExt

-------------------------------------------------------------------------------
(* The subscriptions.                                                        *)

CONSTANTS
    Offered,            \* remote publications
    OfferedKind,        \* "audio", "video" or "none" of each
    Sources,            \* livekit.TrackSource, some without a priority at first
    FirstPriorities,    \* the priorities a new manager has, a function on some sources
    GivenPriorities,    \* priorities a source may be given
    Filters,            \* sets of publications that filters admit
    MaxFilters          \* bound on the filters added

ASSUME SubscriptionAssumption ==
    /\ OfferedKind \in [Offered -> {"audio", "video", "none"}]
    /\ FirstPriorities \in [DOMAIN FirstPriorities -> Int] /\ DOMAIN FirstPriorities \subseteq Sources
    /\ GivenPriorities \subseteq Int
    /\ Filters \subseteq SUBSET Offered /\ MaxFilters \in Nat

VARIABLES
    autoSubscribe,
    subscribeKind,      \* tm.subscribeAudio, tm.subscribeVideo
    sourcePriorities,
    filters,
    refusedSince        \* publications some filter refused since the filters were cleared

subscriptionVars == <<autoSubscribe, subscribeKind, sourcePriorities, filters, refusedSince>>

\* 0 for a source without a priority.
GetSourcePriority(source) ==
    IF source \in DOMAIN sourcePriorities THEN sourcePriorities[source] ELSE 0

SubscriptionTypeOK ==
    /\ autoSubscribe \in BOOLEAN /\ subscribeKind \in [{"audio", "video"} -> BOOLEAN]
    /\ DOMAIN sourcePriorities \subseteq Sources
    /\ \A s \in Sources : GetSourcePriority(s) \in Int
    /\ filters \in Seq(Filters) /\ refusedSince \subseteq Offered

SubscriptionInit ==
    /\ autoSubscribe = TRUE
    /\ subscribeKind = [k \in {"audio", "video"} |-> TRUE]
    /\ sourcePriorities = FirstPriorities
    /\ filters = <<>> /\ refusedSince = {}

SetAutoSubscribe(enabled) ==
    /\ autoSubscribe' = enabled
    /\ UNCHANGED <<subscribeKind, sourcePriorities, filters, refusedSince>>

SetSubscribeKind(k, enabled) ==
    /\ subscribeKind' = [subscribeKind EXCEPT ![k] = enabled]
    /\ UNCHANGED <<autoSubscribe, sourcePriorities, filters, refusedSince>>

SetSourcePriority(source, priority) ==
    /\ sourcePriorities' = [s \in DOMAIN sourcePriorities \cup {source} |->
                                IF s = source THEN priority ELSE sourcePriorities[s]]
    /\ UNCHANGED <<autoSubscribe, subscribeKind, filters, refusedSince>>

AddFilter(filter) ==
    /\ Len(filters) < MaxFilters
    /\ filters' = Append(filters, filter)
    /\ refusedSince' = refusedSince \cup (Offered \ filter)
    /\ UNCHANGED <<autoSubscribe, subscribeKind, sourcePriorities>>

ClearFilters ==
    /\ filters' = <<>> /\ refusedSince' = {}
    /\ UNCHANGED <<autoSubscribe, subscribeKind, sourcePriorities>>

\* A publication of another kind than audio and video is held up by filters only.
ShouldAutoSubscribe(p) ==
    /\ autoSubscribe
    /\ OfferedKind[p] \in DOMAIN subscribeKind => subscribeKind[OfferedKind[p]]
    /\ \A n \in DOMAIN filters : p \in filters[n]

SubscriptionNext ==
    \/ \E enabled \in BOOLEAN :
        SetAutoSubscribe(enabled) \/ \E k \in {"audio", "video"} : SetSubscribeKind(k, enabled)
    \/ \E source \in Sources, priority \in GivenPriorities : SetSourcePriority(source, priority)
    \/ \E filter \in Filters : AddFilter(filter)
    \/ ClearFilters

SubscriptionSpec == SubscriptionInit /\ [][SubscriptionNext]_subscriptionVars

-------------------------------------------------------------------------------
(* Properties.                                                               *)

\* A filter can only take away: what one refused is not subscribed to until the filters are
\* cleared, whatever is added or switched on after it.
FiltersOnlyRefuse ==
    \A p \in Offered : ShouldAutoSubscribe(p) => p \notin refusedSince

-------------------------------------------------------------------------------
(* The quality of a connection.                                              *)

CONSTANTS
    Updaters,           \* goroutines that call UpdateQuality
    Qualities,          \* qualities that are measured
    HistorySize,        \* cm.historySize: 10
    Durations,          \* asked of GetAverageQuality and IsStable
    MaxQualityTime,     \* bound on the clock
    MaxReports          \* bound on the changes reported

POOR == 0
GOOD == 1
LOST == 3

ASSUME ConnectionQualityAssumption ==
    /\ IsFiniteSet(Updaters)
    /\ Qualities \subseteq POOR..LOST /\ GOOD \in Qualities
    /\ HistorySize \in Nat \ {0} /\ Durations \subseteq Nat \ {0}
    /\ MaxQualityTime \in Nat /\ MaxReports \in Nat

VARIABLES
    qualityTime,        \* time.Now()
    watchedPeer,        \* whether cm.participant is set
    currentQuality,
    qualityHistory,
    callbackSet,        \* whether cm.qualityChangeCallback is set
    reporting,          \* the change each updater runs the callback for, if any
    reports,            \* the changes reported, in the order the callbacks ran
    unreported          \* the changes nobody was told of

connectionQualityVars ==
    <<qualityTime, watchedPeer, currentQuality, qualityHistory, callbackSet, reporting,
      reports, unreported>>

Measurement == [quality : Qualities, at : 0..MaxQualityTime]
Change == [from : Qualities, to : Qualities]
NoChange == [from |-> GOOD, to |-> GOOD]

ConnectionQualityTypeOK ==
    /\ qualityTime \in 0..MaxQualityTime /\ watchedPeer \in BOOLEAN
    /\ currentQuality \in Qualities
    /\ qualityHistory \in Seq(Measurement) /\ Len(qualityHistory) <= HistorySize
    /\ callbackSet \in BOOLEAN
    /\ reporting \in [Updaters -> Change]
    /\ reports \in Seq(Change) /\ unreported \in Seq(Change)

ConnectionQualityInit ==
    /\ qualityTime = 0 /\ watchedPeer = FALSE
    /\ currentQuality = GOOD /\ qualityHistory = <<>>
    /\ callbackSet \in BOOLEAN
    /\ reporting = [u \in Updaters |-> NoChange]
    /\ reports = <<>> /\ unreported = <<>>

QualityTimePasses ==
    /\ qualityTime < MaxQualityTime
    /\ qualityTime' = qualityTime + 1
    /\ UNCHANGED <<watchedPeer, currentQuality, qualityHistory, callbackSet, reporting,
                   reports, unreported>>

Bounded == Len(reports) + Len(unreported) + Cardinality({u \in Updaters : reporting[u] # NoChange})
             < MaxReports

Told(to) == IF currentQuality = to THEN <<>> ELSE <<[from |-> currentQuality, to |-> to]>>

\* A participant starts with a GOOD connection and no measurements; the callback is not run.
StartMonitoringPeer ==
    /\ Bounded
    /\ watchedPeer' = TRUE
    /\ currentQuality' = GOOD
    /\ qualityHistory' = <<>>
    /\ unreported' = unreported \o Told(GOOD)
    /\ UNCHANGED <<qualityTime, callbackSet, reporting, reports>>

\* What was measured stays, and measurements go on.
StopMonitoringPeer ==
    /\ watchedPeer' = FALSE
    /\ UNCHANGED <<qualityTime, currentQuality, qualityHistory, callbackSet, reporting,
                   reports, unreported>>

SetQualityChangeCallback(set) ==
    /\ callbackSet' = set
    /\ UNCHANGED <<qualityTime, watchedPeer, currentQuality, qualityHistory, reporting,
                   reports, unreported>>

LatestMeasurements(history) ==
    IF Len(history) > HistorySize
    THEN SubSeq(history, Len(history) - HistorySize + 1, Len(history)) ELSE history

\* The measurement, under the lock; it needs no participant.
UpdateQuality(u, quality) ==
    /\ reporting[u] = NoChange
    /\ Bounded
    /\ currentQuality' = quality
    /\ qualityHistory' = LatestMeasurements(
            Append(qualityHistory, [quality |-> quality, at |-> qualityTime]))
    /\ IF callbackSet /\ currentQuality # quality
       THEN /\ reporting' = [reporting EXCEPT
                    ![u] = [from |-> currentQuality, to |-> quality]]
            /\ UNCHANGED unreported
       ELSE /\ unreported' = unreported \o Told(quality)
            /\ UNCHANGED reporting
    /\ UNCHANGED <<qualityTime, watchedPeer, callbackSet, reports>>

\* The callback, outside the lock.
QualityCallbackRuns(u) ==
    /\ reporting[u] # NoChange
    /\ reports' = Append(reports, reporting[u])
    /\ reporting' = [reporting EXCEPT ![u] = NoChange]
    /\ UNCHANGED <<qualityTime, watchedPeer, currentQuality, qualityHistory, callbackSet,
                   unreported>>

ConnectionQualityNext ==
    \/ QualityTimePasses \/ StartMonitoringPeer \/ StopMonitoringPeer
    \/ \E set \in BOOLEAN : SetQualityChangeCallback(set)
    \/ \E u \in Updaters :
        (\E quality \in Qualities : UpdateQuality(u, quality)) \/ QualityCallbackRuns(u)

ConnectionQualitySpec == ConnectionQualityInit /\ [][ConnectionQualityNext]_connectionQualityVars

-------------------------------------------------------------------------------
(* Answers.                                                                  *)

RecentMeasurements(duration) ==
    LET kept[n \in 0..Len(qualityHistory)] ==
            IF n = 0 THEN <<>>
            ELSE IF qualityHistory[n].at > qualityTime - duration
                 THEN Append(kept[n - 1], qualityHistory[n]) ELSE kept[n - 1]
    IN  kept[Len(qualityHistory)]

GetAverageQuality(duration) ==
    LET recent == RecentMeasurements(duration)
        Sum[n \in 0..Len(recent)] == IF n = 0 THEN 0 ELSE Sum[n - 1] + recent[n].quality
    IN  IF recent = <<>> THEN currentQuality ELSE Sum[Len(recent)] \div Len(recent)

IsStable(duration) ==
    LET recent == RecentMeasurements(duration)
    IN  Len(qualityHistory) < 2 \/ \A n \in DOMAIN recent : recent[n].quality = recent[1].quality

-------------------------------------------------------------------------------
(* Properties.                                                               *)

\* Whatever was dropped from the history or forgotten with a participant, a connection that
\* is called stable has the quality that is its current one on average.
StableIsCurrent ==
    \A duration \in Durations :
        IsStable(duration) => GetAverageQuality(duration) = currentQuality

\* No change is told twice or from a quality that was not there, in whatever order the
\* callbacks run: for every quality, the changes to it and from it make up for each other,
\* but for the first quality and the current one.
ChangesBalance ==
    LET To(told, q) == Cardinality({n \in DOMAIN told : told[n].to = q})
        From(told, q) == Cardinality({n \in DOMAIN told : told[n].from = q})
        Telling(q) == Cardinality({u \in Updaters : reporting[u] # NoChange /\ reporting[u].to = q})
                    - Cardinality({u \in Updaters : reporting[u] # NoChange /\ reporting[u].from = q})
        One(q, r) == IF q = r THEN 1 ELSE 0
    IN  \A q \in Qualities :
            (To(reports, q) - From(reports, q)) + (To(unreported, q) - From(unreported, q)) + Telling(q)
                = One(q, currentQuality) - One(q, GOOD)

\* The last change told leads to the current quality.  The code breaks this: two callbacks
\* may run in the other order than their updates.
LastReportIsCurrent ==
    (reports # <<>> /\ unreported = <<>> /\ \A u \in Updaters : reporting[u] = NoChange)
        => Last(reports).to = currentQuality
===============================================================================
