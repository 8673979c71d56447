------------------------------ MODULE Permissions ------------------------------
(***************************************************************************)
(* ParticipantPermissionManager: what the worker knows of the permissions  *)
(* of participants, the requests to change them and the policies that      *)
(* judge a request.  A request is judged and recorded; it is the room's    *)
(* update that changes a permission.                                       *)
(*                                                                         *)
(* Every operation is one critical section of m.mu.                        *)
(***************************************************************************)
EXTENDS Naturals, Sequences, SequencesExt

CONSTANTS
    Members,            \* identities of participants
    Grants,             \* permissions an update, a request or the defaults may hold
    CapabilitySets,     \* AgentCapabilities the agent may be given
    Hours,              \* hours of the day that are told apart
    AllowedFrom, AllowedTo,     \* TimeBasedPolicy.allowedHours
    HistoryLimit,       \* changes kept by an update: 10
    MaxChanges,         \* bound on the changes recorded of a participant
    MaxPolicies,        \* bound on the policies added
    NoPermission        \* a nil *livekit.ParticipantPermission

Permission == [publish : BOOLEAN, data : BOOLEAN]

ASSUME PermissionAssumption ==
    /\ NoPermission \notin Permission /\ Grants \subseteq Permission
    /\ CapabilitySets \subseteq [manage : BOOLEAN, send : BOOLEAN, recipients : SUBSET Members]
    /\ HistoryLimit \in Nat \ {0} /\ MaxChanges \in Nat /\ MaxPolicies \in Nat

VARIABLES
    permissions,        \* m.permissions
    policies,           \* m.policies
    defaults,           \* m.defaults
    agentCaps,          \* m.agentCaps
    hour                \* time.Now().Hour()

permissionVars == <<permissions, policies, defaults, agentCaps, hour>>

Nullable == Permission \cup {NoPermission}

PermissionChange == [from : Nullable, to : Permission, update : BOOLEAN, approved : BOOLEAN]

Unknown == [known |-> FALSE, current |-> NoPermission, requested |-> NoPermission,
            history |-> <<>>, mute |-> FALSE]

PermissionsTypeOK ==
    /\ \A i \in Members :
        /\ permissions[i].known \in BOOLEAN /\ permissions[i].mute \in BOOLEAN
        /\ permissions[i].current \in Nullable /\ permissions[i].requested \in Nullable
        /\ permissions[i].history \in Seq(PermissionChange)
        /\ ~permissions[i].known => permissions[i] = Unknown
    /\ policies \in Seq({"role", "time"})
    /\ defaults \in Permission
    /\ agentCaps \in [manage : BOOLEAN, send : BOOLEAN, recipients : SUBSET Members]
    /\ hour \in Hours

PermissionsInit ==
    /\ permissions = [i \in Members |-> Unknown]
    /\ policies = <<>>
    /\ defaults = [publish |-> FALSE, data |-> TRUE]
    /\ agentCaps = [manage |-> TRUE, send |-> TRUE, recipients |-> {}]
    /\ hour \in Hours

-------------------------------------------------------------------------------
(* Updates of the room.                                                      *)

\* An update keeps the latest changes only; the first permission of a participant is no
\* change.
Trimmed(history) ==
    IF Len(history) > HistoryLimit
    THEN SubSeq(history, Len(history) - HistoryLimit + 1, Len(history)) ELSE history

UpdateParticipantPermissions(i, perms) ==
    LET old == permissions[i].current
        change == [from |-> old, to |-> perms, update |-> TRUE, approved |-> TRUE]
    IN  /\ Len(permissions[i].history) < MaxChanges
        /\ permissions' = [permissions EXCEPT
                ![i].known = TRUE,
                ![i].current = perms,
                ![i].history = IF old = NoPermission THEN @ ELSE Trimmed(Append(@, change))]
        /\ UNCHANGED <<policies, defaults, agentCaps, hour>>

RemovePermissions(i) ==
    /\ permissions' = [permissions EXCEPT ![i] = Unknown]
    /\ UNCHANGED <<policies, defaults, agentCaps, hour>>

\* SetCustomRestriction("no_data_receive"): the entry it makes has no permission.
SetCustomRestriction(i, enabled) ==
    /\ permissions' = [permissions EXCEPT ![i].known = TRUE, ![i].mute = enabled]
    /\ UNCHANGED <<policies, defaults, agentCaps, hour>>

-------------------------------------------------------------------------------
(* Requests.                                                                 *)

\* RoleBasedPolicy approves whatever is asked; TimeBasedPolicy refuses to let someone
\* publish outside its hours.
Approves(kind, requested) ==
    kind = "time" => \/ AllowedFrom <= hour /\ hour < AllowedTo
                     \/ ~requested.publish /\ ~requested.data

\* The defaults become the permission of a participant that is not known.
Asked(i) == IF permissions[i].known THEN permissions[i].current ELSE defaults

RequestPermissionChange(i, requested) ==
    LET approved == \A p \in DOMAIN policies : Approves(policies[p], requested)
        change == [from |-> Asked(i), to |-> requested, update |-> FALSE, approved |-> approved]
    IN  /\ agentCaps.manage
        /\ Len(permissions[i].history) < MaxChanges
        /\ permissions' = [permissions EXCEPT
                ![i].known = TRUE,
                ![i].current = Asked(i),
                ![i].requested = requested,
                ![i].history = Append(@, change)]
        /\ UNCHANGED <<policies, defaults, agentCaps, hour>>

AddPolicy(kind) ==
    /\ Len(policies) < MaxPolicies
    /\ policies' = Append(policies, kind)
    /\ UNCHANGED <<permissions, defaults, agentCaps, hour>>

SetDefaultPermissions(perms) ==
    /\ defaults' = perms
    /\ UNCHANGED <<permissions, policies, agentCaps, hour>>

SetAgentCapabilities(caps) ==
    /\ agentCaps' = caps
    /\ UNCHANGED <<permissions, policies, defaults, hour>>

HourPasses ==
    /\ hour' \in Hours
    /\ UNCHANGED <<permissions, policies, defaults, agentCaps>>

-------------------------------------------------------------------------------
(* Answers.                                                                  *)

GetParticipantPermissions(i) ==
    IF permissions[i].current # NoPermission THEN permissions[i].current ELSE defaults

CanSendDataTo(i) ==
    /\ agentCaps.send
    /\ agentCaps.recipients = {} \/ i \in agentCaps.recipients
    /\ permissions[i].current # NoPermission => permissions[i].current.data
    /\ ~permissions[i].mute

PermissionsNext ==
    \/ \E i \in Members :
        \/ \E perms \in Grants :
            UpdateParticipantPermissions(i, perms) \/ RequestPermissionChange(i, perms)
        \/ RemovePermissions(i)
        \/ \E enabled \in BOOLEAN : SetCustomRestriction(i, enabled)
    \/ \E kind \in {"role", "time"} : AddPolicy(kind)
    \/ \E perms \in Grants : SetDefaultPermissions(perms)
    \/ \E caps \in CapabilitySets : SetAgentCapabilities(caps)
    \/ HourPasses

PermissionsSpec == PermissionsInit /\ [][PermissionsNext]_permissionVars

-------------------------------------------------------------------------------
(* Properties.                                                               *)

\* The history explains the permission: every change starts from what the latest update
\* before it made, whatever was requested and approved between, and the permission, and
\* whether data may be sent, is what the latest update made of it.
HistoryExplains ==
    \A i \in Members :
        LET history == permissions[i].history
            Latest(n) == SelectLastInSubSeq(history, 1, n, LAMBDA c : c.update)
            Made(n) == history[Latest(n)].to
        IN  /\ \A n \in DOMAIN history : Latest(n - 1) > 0 => history[n].from = Made(n - 1)
            /\ Latest(Len(history)) > 0 =>
                   /\ permissions[i].current = Made(Len(history))
                   /\ CanSendDataTo(i) => Made(Len(history)).data
===============================================================================
