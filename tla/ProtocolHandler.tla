---------------------------- MODULE ProtocolHandler ----------------------------
(***************************************************************************)
(* ProtocolHandler: the version the server announced, messages of unknown  *)
(* types counted twice, in an atomic counter and in a map under the lock,  *)
(* and the registry of message handlers; beside it PerformUpgrade, which   *)
(* races an upgrade against a timeout.                                     *)
(*                                                                         *)
(* p.mu is Go's RWMutex: a writer that waits keeps new readers out, also   *)
(* one that reads already and asks again, as GetProtocolMetrics does.      *)
(***************************************************************************)
EXTENDS Naturals, Sequences, FiniteSets, FiniteSetsExt, SequencesExt

CONSTANTS
    ProtocolCallers,            \* goroutines that use the handler
    UnknownTypes,               \* message types nobody handles, until someone registers
    Versions,                   \* versions a server may announce, as strings of characters
    MinVersion, MaxVersion,     \* MinSupportedVersion, MaxSupportedVersion
    MaxUnknown,                 \* bound on the messages counted
    Segments,                   \* names a path is made of
    MaxPath                     \* bound on the length of a path

ASSUME ProtocolAssumption ==
    /\ IsFiniteSet(ProtocolCallers) /\ IsFiniteSet(UnknownTypes)
    /\ MaxUnknown \in Nat /\ MaxPath \in Nat

VARIABLES
    serverVersion,
    versionMismatchDetected,
    unknownMessageCount,
    unsupportedMessageTypes,
    strictMode,
    registry,           \* types in the MessageTypeRegistry
    readers,            \* goroutines that hold p.mu for reading
    protocolCalls,      \* what each goroutine is to do, once it has p.mu
    upgrade             \* what PerformUpgrade has come to, its function, and the rollback

lockVars == <<readers, protocolCalls>>
versionVars == <<serverVersion, versionMismatchDetected>>
countVars == <<unknownMessageCount, unsupportedMessageTypes>>
protocolVars == <<versionVars, countVars, strictMode, registry, lockVars, upgrade>>

NoVersion == <<>>

Idling == [wants |-> "nothing"]

WriteCalls ==
    [wants : {"set version"}, version : Versions \cup {NoVersion}]
        \cup [wants : {"count"}, type : UnknownTypes]
        \cup [wants : {"set strict"}, strict : BOOLEAN]

ProtocolTypeOK ==
    /\ serverVersion \in Versions \cup {NoVersion}
    /\ versionMismatchDetected \in BOOLEAN /\ strictMode \in BOOLEAN
    /\ unknownMessageCount \in 0..MaxUnknown
    /\ unsupportedMessageTypes \in [UnknownTypes -> 0..MaxUnknown]
    /\ registry \subseteq UnknownTypes
    /\ readers \subseteq ProtocolCallers
    /\ protocolCalls \in [ProtocolCallers -> WriteCalls \cup {Idling, [wants |-> "metrics"]}]
    /\ upgrade \in [call : {"idle", "waiting", "returned", "rolled back"},
                    func : {"none", "running", "done", "failed"}]

ProtocolInit ==
    /\ serverVersion = NoVersion /\ versionMismatchDetected = FALSE
    /\ unknownMessageCount = 0
    /\ unsupportedMessageTypes = [t \in UnknownTypes |-> 0]
    /\ strictMode = FALSE /\ registry = {}
    /\ readers = {} /\ protocolCalls = [c \in ProtocolCallers |-> Idling]
    /\ upgrade = [call |-> "idle", func |-> "none"]

Waiting == {c \in ProtocolCallers : protocolCalls[c] \in WriteCalls}

Asks(c, call) == protocolCalls[c] = Idling /\ protocolCalls' = [protocolCalls EXCEPT ![c] = call]

\* The caller gets the lock for writing, and leaves it at the end of the step.
Writes(c, what) ==
    /\ protocolCalls[c].wants = what /\ readers = {}
    /\ protocolCalls' = [protocolCalls EXCEPT ![c] = Idling]

-------------------------------------------------------------------------------
(* Versions are compared as strings.                                         *)

Precedes(v, w) ==
    \E k \in 0..Len(v) :
        /\ \A i \in 1..k : i <= Len(w) /\ v[i] = w[i]
        /\ IF k = Len(v) THEN k < Len(w) ELSE k < Len(w) /\ v[k + 1] < w[k + 1]

IsVersionCompatible(v) == ~Precedes(v, MinVersion) /\ ~Precedes(MaxVersion, v)

Mismatched == {v \in Versions : ~IsVersionCompatible(v)}

\* ValidateProtocolMessage() does this for the server's registration response.
SetServerVersion(c, v) ==
    /\ Asks(c, [wants |-> "set version", version |-> v])
    /\ UNCHANGED <<versionVars, countVars, strictMode, registry, readers, upgrade>>

\* A mismatch that was once detected stays.
NegotiateVersion(c) ==
    /\ Writes(c, "set version")
    /\ serverVersion' = protocolCalls[c].version
    /\ versionMismatchDetected' =
        (versionMismatchDetected \/ protocolCalls[c].version \in Mismatched)
    /\ UNCHANGED <<countVars, strictMode, registry, readers, upgrade>>

-------------------------------------------------------------------------------
(* Unknown messages.                                                         *)

\* The counter goes up before the lock is asked for.
HandleUnknownMessage(c, type) ==
    /\ unknownMessageCount < MaxUnknown
    /\ Asks(c, [wants |-> "count", type |-> type])
    /\ unknownMessageCount' = unknownMessageCount + 1
    /\ UNCHANGED <<versionVars, unsupportedMessageTypes, strictMode, registry, readers, upgrade>>

\* Mutation of CountType: a type is counted when it is seen first.
CountTypeOnce(counts, type) == [counts EXCEPT ![type] = 1]

CountType(counts, type) == [counts EXCEPT ![type] = @ + 1]

CountUnknown(c) ==
    /\ Writes(c, "count")
    /\ unsupportedMessageTypes' = CountType(unsupportedMessageTypes, protocolCalls[c].type)
    /\ UNCHANGED <<versionVars, unknownMessageCount, strictMode, registry, readers, upgrade>>

SetStrictMode(c, strict) ==
    /\ Asks(c, [wants |-> "set strict", strict |-> strict])
    /\ UNCHANGED <<versionVars, countVars, strictMode, registry, readers, upgrade>>

StrictModeSet(c) ==
    /\ Writes(c, "set strict")
    /\ strictMode' = protocolCalls[c].strict
    /\ UNCHANGED <<versionVars, countVars, registry, readers, upgrade>>

RegisterHandler(type) ==
    /\ registry' = registry \cup {type}
    /\ UNCHANGED <<versionVars, countVars, strictMode, lockVars, upgrade>>

-------------------------------------------------------------------------------
(* GetProtocolMetrics holds the lock and calls GetUnsupportedMessageTypes,   *)
(* which takes it again.                                                     *)

MetricsBegin(c) ==
    /\ Waiting = {}
    /\ Asks(c, [wants |-> "metrics"])
    /\ readers' = readers \cup {c}
    /\ UNCHANGED <<versionVars, countVars, strictMode, registry, upgrade>>

MetricsEnd(c) ==
    /\ protocolCalls[c].wants = "metrics" /\ Waiting = {}
    /\ protocolCalls' = [protocolCalls EXCEPT ![c] = Idling]
    /\ readers' = readers \ {c}
    /\ UNCHANGED <<versionVars, countVars, strictMode, registry, upgrade>>

-------------------------------------------------------------------------------
(* buildWebSocketURL(), of the server's URL and the path the options name.    *)

Paths == UNION {[1..n -> Segments] : n \in 0..MaxPath}

\* A URL as it is parsed, slash standing for a trailing one.  "host:port" without a scheme
\* is a scheme and an opaque rest, unless the host begins with a digit.
ServerURL ==
    [scheme : {"http", "https", "ws", "wss", "other", "opaque", "none"},
     path : Paths, slash : BOOLEAN, protocol : BOOLEAN]

\* The segment comes once; a path that ends with it loses its trailing slash.
AppendSegment(u, segment) ==
    IF IsSuffix(segment, u.path) THEN [u EXCEPT !.slash = FALSE]
    ELSE [u EXCEPT !.path = @ \o segment, !.slash = FALSE]

WebSocketScheme(scheme) == IF scheme \in {"https", "wss"} THEN "wss" ELSE "ws"

\* Of an opaque URL the rest is kept as it is, the host taken for an unknown scheme.
buildWebSocketURL(u, segment) ==
    IF u.scheme = "opaque" THEN [u EXCEPT !.protocol = TRUE]
    ELSE [AppendSegment(u, segment) EXCEPT
            !.scheme = WebSocketScheme(u.scheme), !.protocol = TRUE]

-------------------------------------------------------------------------------
(* PerformUpgrade.                                                           *)

Upgrades(from, to) ==
    /\ upgrade = from /\ upgrade' = to
    /\ UNCHANGED <<versionVars, countVars, strictMode, registry, lockVars>>

PerformUpgrade ==
    Upgrades([call |-> "idle", func |-> "none"], [call |-> "waiting", func |-> "running"])

\* The function may end after the call has returned.
UpgradeFuncEnds ==
    \E call \in {"waiting", "rolled back"}, func \in {"done", "failed"} :
        Upgrades([call |-> call, func |-> "running"], [call |-> call, func |-> func])

UpgradeReturns ==
    \/ Upgrades([call |-> "waiting", func |-> "done"], [call |-> "returned", func |-> "done"])
    \/ Upgrades([call |-> "waiting", func |-> "failed"], [call |-> "rolled back", func |-> "failed"])

\* The timeout rolls back whatever the function does, or has done.
UpgradeTimesOut ==
    \E func \in {"running", "done", "failed"} :
        Upgrades([call |-> "waiting", func |-> func], [call |-> "rolled back", func |-> func])

ProtocolNext ==
    \/ \E c \in ProtocolCallers :
        \/ \E v \in Versions \cup {NoVersion} : SetServerVersion(c, v)
        \/ \E type \in UnknownTypes : HandleUnknownMessage(c, type)
        \/ \E strict \in BOOLEAN : SetStrictMode(c, strict)
        \/ NegotiateVersion(c) \/ CountUnknown(c) \/ StrictModeSet(c)
        \/ MetricsBegin(c) \/ MetricsEnd(c)
    \/ \E type \in UnknownTypes : RegisterHandler(type)
    \/ PerformUpgrade \/ UpgradeFuncEnds \/ UpgradeReturns \/ UpgradeTimesOut

ProtocolSpec == ProtocolInit /\ [][ProtocolNext]_protocolVars

-------------------------------------------------------------------------------
(* Properties.                                                               *)

\* The two counts of unknown messages differ by the messages that are being counted.
UnknownCountsAgree ==
    unknownMessageCount
        = FoldFunction(+, 0, unsupportedMessageTypes)
          + Cardinality({c \in ProtocolCallers : protocolCalls[c].wants = "count"})

\* buildWebSocketURL(): the worker connects over the security the URL it was given names, to
\* the server's own path with the segment at its end, once (an opaque URL keeps what it
\* has); and the URL of one worker's connection, given to another, leads to the same place.
WebSocketURLSettles ==
    \A u \in ServerURL : \A segment \in Paths \ {<<>>} :
        LET built == buildWebSocketURL(u, segment)
        IN  /\ (built.scheme = "wss") <=> (u.scheme \in {"https", "wss"})
            /\ u.scheme # "opaque" =>
                  IsPrefix(u.path, built.path) /\ IsSuffix(segment, built.path) /\ ~built.slash
            /\ buildWebSocketURL(built, segment) = built
===============================================================================
