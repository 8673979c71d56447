-------------------------------- MODULE MCRoom --------------------------------
\* What the SDK keeps of the rooms of its jobs, beside the jobs: quality monitors, the
\* event processors, the coordinator of participants, the permissions, subscriptions and
\* connection qualities, the worker's own records, and the utilities for handlers.  They
\* share nothing: in each behaviour one of them runs and the others rest.
EXTENDS QualityController, ParticipantEvents, Coordinator, RoomTracking, Permissions,
        TrackSubscription, UniversalEvents, JobUtilities, RoomCalls, TLC

CONSTANT Systems

VARIABLE system

roomVars ==
    <<system, qualityVars, eventVars, throttleVars, handlerVars, coordinatorVars, trackingVars, permissionVars,
      connectionQualityVars, subscriptionVars, universalVars, utilityVars, roomCallVars>>

LowToHigh == [min |-> LOW, max |-> HIGH]
MediumOnly == [min |-> MEDIUM, max |-> MEDIUM]
MCPolicies == {LowToHigh, MediumOnly}

MCGrants == {[publish |-> FALSE, data |-> TRUE], [publish |-> TRUE, data |-> FALSE]}
MCCaps ==
    {[manage |-> TRUE, send |-> TRUE, recipients |-> {}],
     [manage |-> FALSE, send |-> TRUE, recipients |-> Members]}

MCOfferedKind == [p \in Offered |-> IF p = "mic" THEN "audio" ELSE "none"]
MCFirstPriorities == [s \in {"camera"} |-> 1]
MCFilters == {Offered, {"mic"}}
MCFleetMax == [w \in Fleet |-> IF w = "w1" THEN 0 ELSE 1]
MCHandlerType == [h \in EventHandlers |-> QualityType]

\* The coordinator's operations share the participants only: groups, activities, and the
\* book kept from the events each run with the participants coming and going.
Coordinators == {"groups", "activities", "book"}

Init ==
    /\ system \in Systems
    /\ QualityInit /\ EventsInit /\ ThrottleInit /\ ProcessedInit /\ CoordinatorInit /\ TrackingInit /\ PermissionsInit
    /\ ConnectionQualityInit /\ SubscriptionInit /\ UniversalEventsInit /\ UtilitiesInit
    /\ RoomCallsInit
    /\ system # "quality" => policy = LowToHigh /\ \A m \in Monitors :
                                monitor[m].track = CHOOSE t \in Tracks : TRUE
    /\ system # "tracks" => \A p \in Publications : ~wanted[p]
    /\ system # "permissions" => hour = 12
    /\ system # "connection" => ~callbackSet
    /\ system # "utilities" => ~awaited
    /\ system # "calls" => nameOf = [j \in RoomJobs |-> CHOOSE n \in RoomNames : TRUE]

OthersRest ==
    /\ UNCHANGED system
    /\ system # "quality" => UNCHANGED qualityVars
    /\ system # "events" => UNCHANGED eventVars
    /\ system # "throttle" => UNCHANGED throttleVars
    /\ system # "handlers" => UNCHANGED handlerVars
    /\ system \notin Coordinators => UNCHANGED coordinatorVars
    /\ system # "people" => UNCHANGED peopleVars
    /\ system # "tracks" => UNCHANGED trackVars
    /\ system # "permissions" => UNCHANGED permissionVars
    /\ system # "connection" => UNCHANGED connectionQualityVars
    /\ system # "subscription" => UNCHANGED subscriptionVars
    /\ system # "universal" => UNCHANGED universalVars
    /\ system # "utilities" => UNCHANGED utilityVars
    /\ system # "calls" => UNCHANGED roomCallVars

Next ==
    \/ system = "quality" /\ QualityNext /\ OthersRest
    \/ system = "events" /\ ~sendPanicked /\ EventsNext /\ OthersRest
    \/ system = "throttle" /\ ThrottleNext /\ OthersRest
    \/ system = "handlers" /\ HandlersNext /\ OthersRest
    \/ system \in Coordinators /\ ParticipantsNext /\ OthersRest
    \/ system = "groups" /\ GroupsNext /\ OthersRest
    \/ system = "activities" /\ ActivityNext /\ OthersRest
    \/ system = "book" /\ BookNext /\ OthersRest
    \/ system = "people" /\ PeopleNext /\ OthersRest
    \/ system = "tracks" /\ TracksNext /\ OthersRest
    \/ system = "permissions" /\ PermissionsNext /\ OthersRest
    \/ system = "connection" /\ ConnectionQualityNext /\ OthersRest
    \/ system = "subscription" /\ SubscriptionNext /\ OthersRest
    \/ system = "universal" /\ UniversalEventsNext /\ OthersRest
    \/ system = "utilities" /\ UtilitiesNext /\ OthersRest
    \/ system = "calls" /\ RoomCallsNext /\ OthersRest

Spec == Init /\ [][Next]_roomVars

\* The types, and what is claimed of the participants the worker knows, their permissions
\* and connections, what it subscribes to, the events it hands on, and the utilities.
RoomOK ==
    /\ system = "quality" => QualityTypeOK /\ OptimalFollowsConnection
    /\ system = "events" => EventsTypeOK
    /\ system = "throttle" => ThrottledInEveryMinute
    /\ system = "handlers" => HandledByAll
    /\ system \in Coordinators => CoordinatorTypeOK /\ BookIsRight /\ GraphCountsOnce /\ BusyAreNotified
    /\ system = "people" => TrackingTypeOK /\ PresentAreKnown /\ SenderInItsRoom
    /\ system = "tracks" => TrackingTypeOK /\ QualityAskedFor
    /\ system = "permissions" => PermissionsTypeOK /\ HistoryExplains
    /\ system = "connection" => ConnectionQualityTypeOK /\ StableIsCurrent /\ ChangesBalance
    /\ system = "subscription" => SubscriptionTypeOK /\ FiltersOnlyRefuse
    /\ system = "universal" => UniversalEventsTypeOK /\ HandledInOrder /\ OnlyKnownRecorded
    /\ system = "utilities" => UtilitiesTypeOK /\ LeastLoadedIsLeast /\ TimeoutAfterLastLook
    /\ system = "calls" => RoomCallsTypeOK /\ AnsweredByOwnRoom /\ ToldOfItsRoom

Symmetry == Permutations(Monitors) \cup Permutations(Tracks) \cup Permutations(Callers)
===============================================================================
