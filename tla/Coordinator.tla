------------------------------- MODULE Coordinator -------------------------------
(***************************************************************************)
(* MultiParticipantCoordinator: participants, the groups they are in and   *)
(* their interactions.  A membership is kept twice, in the Groups of the   *)
(* participant and in the Participants of the group.  Every operation is   *)
(* one critical section of c.mu; an event starts a goroutine for each      *)
(* handler, and nothing orders these.  The handlers here are of a user who *)
(* keeps a book of the participants from the events about them.            *)
(*                                                                         *)
(* Groups is a slice that may name a group twice; which groups it names is *)
(* all that is asked of it.  The built-in coordination rules change        *)
(* nothing: executeAction only logs.                                       *)
(***************************************************************************)
EXTENDS Naturals, Sequences, FiniteSets, Functions

CONSTANTS
    Identities,         \* identities of participants
    GroupIds,           \* IDs of groups
    GroupLimits,        \* what SizeBasedGroupRule may be made with; 0 for no rule
    ActivityTypes,      \* what participants do
    MaxActivities,      \* the length of ActivityHistory
    RuleThresholds,     \* thresholds an ActivityBasedRule may be made with
    MaxDelivering,      \* bound on the handlers' goroutines that have not run
    MaxInteractions     \* bound on the interactions kept

ASSUME CoordinatorAssumption ==
    /\ IsFiniteSet(Identities) /\ IsFiniteSet(ActivityTypes)
    /\ GroupLimits \subseteq Nat /\ RuleThresholds \subseteq Nat
    /\ MaxActivities \in Nat /\ MaxInteractions \in Nat /\ MaxDelivering \in Nat

VARIABLES
    participants,   \* the identities in c.participants
    listed,         \* Groups of each participant
    groups,         \* the IDs in c.groups
    members,        \* Participants of each group
    limit,          \* the SizeBasedGroupRule among the Rules of each group
    history,        \* ActivityHistory of each participant, oldest first
    quietFor,       \* participants whose LastActivity is older than activityThreshold
    rules,          \* thresholds of the ActivityBasedRules among coordinationRules
    notified,       \* whom the rules had the last evaluation notify
    interactions,   \* c.interactions, oldest first
    renewed,        \* identities that were registered again while they were in a group
    following,      \* whether the book's handlers are registered
    delivering,     \* goroutines that are to tell the book: how many of each event
    book,           \* the participants the user's book holds
    unsettled       \* identities the book may be wrong about

activityVars == <<history, quietFor, rules, notified>>
bookVars == <<following, delivering, book, unsettled>>
coordinatorVars ==
    <<participants, listed, groups, members, limit, interactions, renewed,
      activityVars, bookVars>>

Interaction == [from : Identities, to : Identities, both : BOOLEAN]

\* The events the book is kept from; handlers for others are as good as none.
CoordinationEvent == {"participant_registered", "participant_unregistered"} \X Identities

CoordinatorTypeOK ==
    /\ participants \subseteq Identities
    /\ listed \in [Identities -> SUBSET GroupIds]
    /\ groups \subseteq GroupIds
    /\ members \in [GroupIds -> SUBSET Identities]
    /\ limit \in [GroupIds -> GroupLimits \cup {0}]
    /\ history \in [Identities -> Seq(ActivityTypes)]
    /\ \A p \in Identities : Len(history[p]) <= MaxActivities
    /\ quietFor \subseteq participants
    /\ rules \subseteq RuleThresholds /\ notified \subseteq Identities
    /\ interactions \in Seq(Interaction)
    /\ renewed \subseteq Identities
    /\ following \in BOOLEAN
    /\ delivering \in [CoordinationEvent -> 0..MaxDelivering]
    /\ book \subseteq Identities /\ unsettled \subseteq Identities

CoordinatorInit ==
    /\ participants = {}
    /\ listed = [p \in Identities |-> {}]
    /\ groups = {}
    /\ members = [g \in GroupIds |-> {}]
    /\ limit = [g \in GroupIds |-> 0]
    /\ history = [p \in Identities |-> <<>>]
    /\ quietFor = {} /\ rules = {} /\ notified = {}
    /\ interactions = <<>>
    /\ renewed = {}
    /\ following = FALSE
    /\ delivering = [e \in CoordinationEvent |-> 0]
    /\ book = {} /\ unsettled = {}

-------------------------------------------------------------------------------
(* Events.                                                                   *)

About(p) == {e \in CoordinationEvent : e[2] = p}
Started == {e \in CoordinationEvent : delivering[e] > 0}

RegisterBookHandlers ==
    /\ ~following
    /\ following' = TRUE
    /\ UNCHANGED <<participants, listed, groups, members, limit, interactions, renewed,
                   activityVars, delivering, book, unsettled>>

\* emitEvent() starts a goroutine for the handler of the event, if there is one.  The book
\* is not to be relied on for who has an event that is not heard of or meets another.
emitEvent(type, p) ==
    LET heard == following /\ Started \cap About(p) = {}
    IN  /\ FoldFunction(+, 0, delivering) < MaxDelivering
        /\ delivering' = IF following THEN [delivering EXCEPT ![<<type, p>>] = @ + 1] ELSE delivering
        /\ unsettled' = IF heard THEN unsettled \ {p} ELSE unsettled \cup {p}
        /\ UNCHANGED <<following, book>>

\* A goroutine calls the handler.
HandlerRuns(e) ==
    /\ delivering[e] > 0
    /\ delivering' = [delivering EXCEPT ![e] = @ - 1]
    /\ book' = IF e[1] = "participant_registered" THEN book \cup {e[2]} ELSE book \ {e[2]}
    /\ UNCHANGED <<participants, listed, groups, members, limit, interactions, renewed,
                   activityVars, following, unsettled>>

-------------------------------------------------------------------------------
(* Participants.                                                             *)

\* RegisterParticipant() makes a new record, for an identity that has one too.
RegisterParticipant(p) ==
    /\ participants' = participants \cup {p}
    /\ listed' = [listed EXCEPT ![p] = {}]
    /\ history' = [history EXCEPT ![p] = <<>>]
    /\ quietFor' = quietFor \ {p}
    /\ renewed' = IF listed[p] # {} THEN renewed \cup {p} ELSE renewed
    /\ emitEvent("participant_registered", p)
    /\ UNCHANGED <<groups, members, limit, interactions, rules, notified>>

\* Mutation of LeaveGroups: the participant stays in groups others are in.
LeaveEmptyGroups(p) ==
    LET emptied == {g \in listed[p] : members[g] = {p}}
    IN  /\ members' = [g \in GroupIds |-> IF g \in emptied THEN {} ELSE members[g]]
        /\ groups' = groups \ emptied
        /\ limit' = [g \in GroupIds |-> IF g \in emptied THEN 0 ELSE limit[g]]

\* The participant leaves the groups its record lists; a group left empty is deleted.
LeaveGroups(p) ==
    LET left == [g \in GroupIds |-> IF g \in listed[p] THEN members[g] \ {p} ELSE members[g]]
        emptied == {g \in listed[p] : left[g] = {}}
    IN  /\ members' = left
        /\ groups' = groups \ emptied
        /\ limit' = [g \in GroupIds |-> IF g \in emptied THEN 0 ELSE limit[g]]

UnregisterParticipant(p) ==
    /\ p \in participants
    /\ LeaveGroups(p)
    /\ participants' = participants \ {p}
    /\ listed' = [listed EXCEPT ![p] = {}]
    /\ history' = [history EXCEPT ![p] = <<>>]
    /\ quietFor' = quietFor \ {p}
    /\ emitEvent("participant_unregistered", p)
    /\ UNCHANGED <<interactions, renewed, rules, notified>>

-------------------------------------------------------------------------------
(* Activities and the rules over them.                                       *)

AddCoordinationRule(threshold) ==
    /\ rules' = rules \cup {threshold}
    /\ UNCHANGED <<participants, listed, groups, members, limit, interactions, renewed,
                   history, quietFor, notified, bookVars>>

Latest(seq) == IF Len(seq) > MaxActivities
               THEN SubSeq(seq, Len(seq) - MaxActivities + 1, Len(seq)) ELSE seq

\* ActivityBasedRule: who has done more than its threshold within its window, which holds
\* the latest recent[q] of q's activities.
ActivityBasedRule(threshold, recent) == {q \in participants : recent[q] > threshold}

\* ProximityRule suggests nothing.
ProximityRule == {}

evaluateRules(recent) ==
    ProximityRule \cup UNION {ActivityBasedRule(threshold, recent) : threshold \in rules}

\* The rules are evaluated, under the lock, over the histories with the new activity;
\* executeAction does nothing with whom they suggest to notify.
UpdateParticipantActivity(p, type) ==
    /\ p \in participants
    /\ history' = [history EXCEPT ![p] = Latest(Append(@, type))]
    /\ quietFor' = quietFor \ {p}
    /\ \E recent \in [Identities -> 0..MaxActivities] :
        /\ \A q \in Identities : recent[q] <= Len(history'[q])
        /\ recent[p] > 0 \/ MaxActivities = 0
        /\ notified' = evaluateRules(recent)
    /\ UNCHANGED <<participants, listed, groups, members, limit, interactions, renewed,
                   rules, bookVars>>

\* activityThreshold passes.
FallsQuiet(p) ==
    /\ p \in participants \ quietFor
    /\ quietFor' = quietFor \cup {p}
    /\ UNCHANGED <<participants, listed, groups, members, limit, interactions, renewed,
                   history, rules, notified, bookVars>>

-------------------------------------------------------------------------------
(* Groups.                                                                   *)

\* The caller may add a rule to the group it gets.
CreateGroup(g, max) ==
    /\ g \notin groups
    /\ groups' = groups \cup {g}
    /\ members' = [members EXCEPT ![g] = {}]
    /\ limit' = [limit EXCEPT ![g] = max]
    /\ UNCHANGED <<participants, listed, interactions, renewed, activityVars, bookVars>>

CanJoinGroup(g) == limit[g] = 0 \/ Cardinality(members[g]) < limit[g]

\* Mutation of AddParticipantToGroup: only the group is told.
AddToGroupOnly(p, g) ==
    /\ p \in participants /\ g \in groups
    /\ CanJoinGroup(g)
    /\ members' = [members EXCEPT ![g] = @ \cup {p}]
    /\ UNCHANGED <<participants, listed, groups, limit, interactions, renewed, activityVars, bookVars>>

AddParticipantToGroup(p, g) ==
    /\ p \in participants /\ g \in groups
    /\ CanJoinGroup(g)
    /\ members' = [members EXCEPT ![g] = @ \cup {p}]
    /\ listed' = [listed EXCEPT ![p] = @ \cup {g}]
    /\ UNCHANGED <<participants, groups, limit, interactions, renewed, activityVars, bookVars>>

\* A group that is left empty this way stays.
RemoveParticipantFromGroup(p, g) ==
    /\ p \in participants /\ g \in groups
    /\ members' = [members EXCEPT ![g] = @ \ {p}]
    /\ listed' = [listed EXCEPT ![p] = @ \ {g}]
    /\ UNCHANGED <<participants, groups, limit, interactions, renewed, activityVars, bookVars>>

-------------------------------------------------------------------------------
(* Interactions.                                                             *)

\* interactionWindow has passed for the oldest ones.
Recent(seq) == {SubSeq(seq, i, Len(seq)) : i \in 1..Len(seq) + 1}

\* The interaction is appended before the search for its counterpart; Bidirectional is set
\* on copies of the two, so what is kept never has it.
RecordInteraction(f, t) ==
    /\ Len(interactions) < MaxInteractions
    /\ interactions' \in Recent(Append(interactions, [from |-> f, to |-> t, both |-> FALSE]))
    /\ UNCHANGED <<participants, listed, groups, members, limit, renewed, activityVars, bookVars>>

-------------------------------------------------------------------------------
CoordinatorStop ==
    /\ participants' = {}
    /\ listed' = [p \in Identities |-> {}]
    /\ groups' = {}
    /\ members' = [g \in GroupIds |-> {}]
    /\ limit' = [g \in GroupIds |-> 0]
    /\ history' = [p \in Identities |-> <<>>]
    /\ quietFor' = {}
    /\ interactions' = <<>>
    /\ unsettled' = unsettled \cup participants
    /\ UNCHANGED <<renewed, rules, notified, following, delivering, book>>

ParticipantsNext ==
    \/ \E p \in Identities : RegisterParticipant(p) \/ UnregisterParticipant(p)
    \/ CoordinatorStop

GroupsNext ==
    \/ \E g \in GroupIds, max \in GroupLimits \cup {0} : CreateGroup(g, max)
    \/ \E p \in Identities, g \in GroupIds :
        AddParticipantToGroup(p, g) \/ RemoveParticipantFromGroup(p, g)

ActivityNext ==
    \/ \E p \in Identities, type \in ActivityTypes : UpdateParticipantActivity(p, type)
    \/ \E p \in Identities : FallsQuiet(p)
    \/ \E threshold \in RuleThresholds : AddCoordinationRule(threshold)

BookNext ==
    \/ RegisterBookHandlers
    \/ \E e \in CoordinationEvent : HandlerRuns(e)
    \/ \E f, t \in Identities : RecordInteraction(f, t)

CoordinatorNext == ParticipantsNext \/ GroupsNext \/ ActivityNext \/ BookNext

CoordinatorSpec == CoordinatorInit /\ [][CoordinatorNext]_coordinatorVars

-------------------------------------------------------------------------------
(* Properties.                                                               *)

\* GetParticipantGroups() and GetGroupMembers().
GroupsOf(p) == IF p \in participants THEN listed[p] \cap groups ELSE {}
MembersOf(g) == IF g \in groups THEN members[g] ELSE {}

\* The two records of a membership agree through any sequence of operations, deletions and
\* new groups of an old ID included: whoever lists a group is in it, and a member that does
\* not list its group was registered again while it was in one.
GroupsMirror ==
    \A p \in Identities, g \in GroupIds :
        /\ g \in listed[p] => p \in participants /\ g \in groups /\ p \in members[g]
        /\ p \in MembersOf(g) /\ p \notin renewed => g \in GroupsOf(p)

\* GetActiveParticipants(), and GetParticipantInteractions(): their places in the list.
ActiveParticipants == participants \ quietFor
InteractionsOf(p) ==
    {n \in DOMAIN interactions : interactions[n].from = p \/ interactions[n].to = p}

Count(seq, Test(_)) == Cardinality({n \in DOMAIN seq : Test(seq[n])})

\* GetInteractionGraph(): an interaction both ways counts in both directions.
InteractionGraph == [f \in Identities |-> [t \in Identities |->
    Count(interactions, LAMBDA i : i.from = f /\ i.to = t)
        + Count(interactions, LAMBDA i : i.both /\ i.to = f /\ i.from = t)]]

\* GetActivityMetrics().
ActivityMetrics ==
    [total |-> FoldFunction(+, 0, [p \in participants |-> Len(history[p])]),
     byType |-> [type \in ActivityTypes |-> FoldFunction(+, 0,
        [p \in participants |-> Count(history[p], LAMBDA a : a = type)])],
     active |-> Cardinality(ActiveParticipants)]

\* What a user learns from the events is who is registered: once every handler has run, its
\* book is right about all whose latest event was emitted while it was followed and no
\* other event about them was being delivered, up to Stop(), of which no event tells.
BookIsRight ==
    \A p \in Identities \ unsettled :
        Started \cap About(p) = {} /\ following => (p \in book <=> p \in participants)

\* The graph, the participants' own interactions and the list count the same: nothing that
\* is kept counts both ways, though interactions both ways are recognised.
GraphCountsOnce ==
    \A p \in Identities :
        FoldFunction(+, 0, InteractionGraph[p])
            + FoldFunction(+, 0, [f \in Identities \ {p} |-> InteractionGraph[f][p]])
        = Cardinality(InteractionsOf(p))

\* The metrics agree with each other, and a rule that waits for more activities than the
\* history holds never notifies anybody.
BusyAreNotified ==
    /\ ActivityMetrics.total = FoldFunction(+, 0, ActivityMetrics.byType)
    /\ (\A threshold \in rules : threshold >= MaxActivities) => notified = {}
===============================================================================
