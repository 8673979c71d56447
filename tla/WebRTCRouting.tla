------------------------------ MODULE WebRTCRouting ------------------------------
(***************************************************************************)
(* WebRTCRoutingStage: the connections to the receivers, the routing table *)
(* from a track to the receivers of its packets, and for each connection a *)
(* channel of packets and a goroutine that writes them.  A connection is   *)
(* known by the receiver's ID, and an ID may be connected again after it   *)
(* was removed: connections are numbered as they are made.                 *)
(*                                                                         *)
(* wrs.mu is held in RemoveReceiver while the goroutine is waited for, so  *)
(* the removal is two steps and no other holder of wrs.mu is between them. *)
(***************************************************************************)
EXTENDS Integers, Sequences, FiniteSets

CONSTANTS
    Receivers,      \* IDs of receivers
    RoutedTracks,   \* IDs of the tracks whose packets are routed
    Removers,       \* goroutines that call RemoveReceiver
    MaxConns,       \* bound on the connections made
    ChanSize,       \* capacity of packetChan
    MaxRouted       \* bound on the packets routed

None == "none"

ASSUME RoutingAssumption ==
    MaxConns \in Nat /\ ChanSize \in Nat /\ MaxRouted \in Nat /\ None \notin Removers

VARIABLES
    conns,          \* the connections made so far
    connections,    \* wrs.connections: the connection of each connected ID
    routingTable,   \* wrs.routingTable: for each track in it its receivers, in order
    lockedBy,       \* the remover that holds wrs.mu while it waits, or None
    removing,       \* what each remover does: [at, id]
    router,         \* the goroutine of each track: [number, left, to], see Routing
    routedSoFar,    \* number of packets that came so far
    routerStats     \* ActiveConnections, TotalConnections, FailedConnections

routingVars == <<conns, connections, routingTable, lockedBy, removing, router, routedSoFar, routerStats>>

Packet == [number : 1..MaxRouted, track : RoutedTracks]

(* What routePacket holds: the number of its packet, the receivers still   *)
(* to be given it, and the connection looked up for the first, or 0.       *)
Routing == [number : 0..MaxRouted, left : Seq(Receivers), to : Nat]

RouterConnection ==
    [id : Receivers, localTracks : SUBSET RoutedTracks, packetChan : Seq(Packet),
     closed : BOOLEAN, forwarding : BOOLEAN, written : Seq(Packet),
     state : {"new", "failed", "closed"}]

Conns == 1..Len(conns)

RoutingTypeOK ==
    /\ conns \in Seq(RouterConnection)
    /\ \A i \in Conns : Len(conns[i].packetChan) <= ChanSize
    /\ DOMAIN connections \subseteq Receivers /\ \A r \in DOMAIN connections : connections[r] \in Conns
    /\ DOMAIN routingTable \subseteq RoutedTracks
    /\ \A t \in DOMAIN routingTable : routingTable[t] \in Seq(Receivers)
    /\ lockedBy \in Removers \cup {None}
    /\ removing \in [Removers -> [at : {"idle", "failed", "lock", "wait"}, id : Receivers \cup {None}]]
    /\ router \in [RoutedTracks -> Routing]
    /\ \A t \in RoutedTracks : router[t].to # 0 =>
          router[t].left # <<>> /\ router[t].to \in Conns /\ conns[router[t].to].id = Head(router[t].left)
    /\ routedSoFar \in 0..MaxRouted
    /\ routerStats \in [active : Int, total : Nat, failed : Nat]

Resting == [at |-> "idle", id |-> None]
NoPacket == [number |-> 0, left |-> <<>>, to |-> 0]

(* NewWebRTCRoutingStage *)
RoutingInit ==
    /\ conns = <<>> /\ connections = <<>> /\ routingTable = <<>>
    /\ lockedBy = None
    /\ removing = [g \in Removers |-> Resting]
    /\ router = [t \in RoutedTracks |-> NoPacket]
    /\ routedSoFar = 0
    /\ routerStats = [active |-> 0, total |-> 0, failed |-> 0]

Unlocked == lockedBy = None

(* Once a map loses or gains a key. *)
With(f, k, v) == [x \in DOMAIN f \cup {k} |-> IF x = k THEN v ELSE f[x]]
Without(f, K) == [x \in DOMAIN f \ K |-> f[x]]

-------------------------------------------------------------------------------

(* pion may refuse any of the calls that make the connection; the peer     *)
(* connection is closed then and nothing is kept.                          *)
NewConnection(r) ==
    [id |-> r, localTracks |-> {}, packetChan |-> <<>>, closed |-> FALSE,
     forwarding |-> TRUE, written |-> <<>>, state |-> "new"]

CreateReceiver(r) ==
    /\ Unlocked /\ r \notin DOMAIN connections /\ Len(conns) < MaxConns
    /\ conns' = Append(conns, NewConnection(r))
    /\ connections' = With(connections, r, Len(conns'))
    /\ routerStats' = [routerStats EXCEPT !.active = @ + 1, !.total = @ + 1]
    /\ UNCHANGED <<routingTable, lockedBy, removing, router, routedSoFar>>

Routes(t) == IF t \in DOMAIN routingTable THEN routingTable[t] ELSE <<>>

\* Mutation of AddTrackToReceiver: a track is added again.
AddTrackAgain(r, t) ==
    /\ Unlocked /\ r \in DOMAIN connections
    /\ conns' = [conns EXCEPT ![connections[r]].localTracks = @ \cup {t}]
    /\ routingTable' = With(routingTable, t, Append(Routes(t), r))
    /\ Len(routingTable'[t]) <= 2
    /\ UNCHANGED <<connections, lockedBy, removing, router, routedSoFar, routerStats>>

AddTrackToReceiver(r, t) ==
    /\ Unlocked /\ r \in DOMAIN connections
    /\ t \notin conns[connections[r]].localTracks
    /\ conns' = [conns EXCEPT ![connections[r]].localTracks = @ \cup {t}]
    /\ routingTable' = With(routingTable, t, Append(Routes(t), r))
    /\ UNCHANGED <<connections, lockedBy, removing, router, routedSoFar, routerStats>>

\* Mutation of FilteredRoutes: the routes of a removed receiver stay.
KeptRoutes(r) == routingTable

WithoutReceiver(s, r) ==
    LET kept[i \in 0..Len(s)] ==
            IF i = 0 THEN <<>> ELSE IF s[i] # r THEN Append(kept[i - 1], s[i]) ELSE kept[i - 1]
    IN kept[Len(s)]

(* What is left of the routes without a receiver: a track with none leaves *)
(* the table.                                                              *)
FilteredRoutes(r) ==
    LET kept == [t \in DOMAIN routingTable |-> WithoutReceiver(routingTable[t], r)]
    IN Without(kept, {t \in DOMAIN kept : kept[t] = <<>>})

CallRemoveReceiver(g, r) ==
    /\ removing[g] = Resting
    /\ removing' = [removing EXCEPT ![g] = [at |-> "lock", id |-> r]]
    /\ UNCHANGED <<conns, connections, routingTable, lockedBy, router, routedSoFar, routerStats>>

(* RemoveReceiver takes wrs.mu and closes closeChan ...                    *)
RemoveReceiver(g) ==
    LET r == removing[g].id IN
    /\ removing[g].at = "lock" /\ Unlocked
    /\ IF r \in DOMAIN connections
       THEN /\ conns' = [conns EXCEPT ![connections[r]].closed = TRUE]
            /\ lockedBy' = g
            /\ removing' = [removing EXCEPT ![g].at = "wait"]
       ELSE /\ removing' = [removing EXCEPT ![g] = Resting]
            /\ UNCHANGED <<conns, lockedBy>>
    /\ UNCHANGED <<connections, routingTable, router, routedSoFar, routerStats>>

\* Mutation of FinishRemoval: the goroutine is not waited for.
RemovalDoesNotWait(g) ==
    LET r == removing[g].id IN
    /\ removing[g].at = "wait"
    /\ conns' = [conns EXCEPT ![connections[r]].state = "closed"]
    /\ routingTable' = FilteredRoutes(r)
    /\ connections' = Without(connections, {r})
    /\ routerStats' = [routerStats EXCEPT !.active = @ - 1]
    /\ lockedBy' = None
    /\ removing' = [removing EXCEPT ![g] = Resting]
    /\ UNCHANGED <<router, routedSoFar>>

(* ... and, when the goroutine has ended, closes the peer connection and   *)
(* takes the receiver out.                                                 *)
FinishRemoval(g) ==
    LET r == removing[g].id IN
    /\ removing[g].at = "wait" /\ ~conns[connections[r]].forwarding
    /\ conns' = [conns EXCEPT ![connections[r]].state = "closed"]
    /\ routingTable' = FilteredRoutes(r)
    /\ connections' = Without(connections, {r})
    /\ routerStats' = [routerStats EXCEPT !.active = @ - 1]
    /\ lockedBy' = None
    /\ removing' = [removing EXCEPT ![g] = Resting]
    /\ UNCHANGED <<router, routedSoFar>>

(* pion reports a failure in a goroutine of its own, which counts it and   *)
(* removes the receiver by its ID.                                         *)
ConnectionFails(g, i) ==
    /\ removing[g] = Resting /\ conns[i].state = "new"
    /\ conns' = [conns EXCEPT ![i].state = "failed"]
    /\ removing' = [removing EXCEPT ![g] = [at |-> "failed", id |-> conns[i].id]]
    /\ UNCHANGED <<connections, routingTable, lockedBy, router, routedSoFar, routerStats>>

HandleConnectionStateChange(g) ==
    /\ removing[g].at = "failed"
    /\ routerStats' = [routerStats EXCEPT !.failed = @ + 1]
    /\ removing' = [removing EXCEPT ![g].at = "lock"]
    /\ UNCHANGED <<conns, connections, routingTable, lockedBy, router, routedSoFar>>

-------------------------------------------------------------------------------
(* Packets.  The stage is run by the processing goroutine of each track:   *)
(* packets of several tracks are on their way at once, one of each.        *)

(* The receivers are read under wrs.mu; each is looked up on its own later.*)
Process(t) ==
    /\ Unlocked /\ router[t] = NoPacket /\ routedSoFar < MaxRouted
    /\ routedSoFar' = routedSoFar + 1
    /\ router' = IF Routes(t) = <<>> THEN router
                 ELSE [router EXCEPT ![t] = [number |-> routedSoFar', left |-> Routes(t), to |-> 0]]
    /\ UNCHANGED <<conns, connections, routingTable, lockedBy, removing, routerStats>>

Given(w) ==
    IF Tail(w.left) = <<>> THEN NoPacket ELSE [number |-> w.number, left |-> Tail(w.left), to |-> 0]

(* A receiver that is gone is skipped; the connection of another is kept   *)
(* when wrs.mu is given up, and may be removed before the packet is sent.  *)
LookUp(t) ==
    LET r == Head(router[t].left) IN
    /\ router[t].left # <<>> /\ router[t].to = 0 /\ Unlocked
    /\ router' = [router EXCEPT ![t] = IF r \in DOMAIN connections THEN [@ EXCEPT !.to = connections[r]]
                                       ELSE Given(@)]
    /\ UNCHANGED <<conns, connections, routingTable, lockedBy, removing, routedSoFar, routerStats>>

(* The send does not wait: one whose channel is full misses the packet.    *)
RoutePacket(t) ==
    LET i == router[t].to IN
    /\ i # 0
    /\ conns' = IF Len(conns[i].packetChan) >= ChanSize THEN conns
                ELSE [conns EXCEPT ![i].packetChan =
                                       Append(@, [number |-> router[t].number, track |-> t])]
    /\ router' = [router EXCEPT ![t] = Given(@)]
    /\ UNCHANGED <<connections, routingTable, lockedBy, removing, routedSoFar, routerStats>>

(* forwardPackets: with a packet and a closed closeChan select takes       *)
(* either.  A packet of a track the receiver does not have is not written. *)
ForwardPacket(i) ==
    /\ conns[i].forwarding /\ conns[i].packetChan # <<>>
    /\ LET p == Head(conns[i].packetChan) IN
       conns' = [conns EXCEPT
           ![i].packetChan = Tail(@),
           ![i].written = IF p.track \in conns[i].localTracks THEN Append(@, p) ELSE @]
    /\ UNCHANGED <<connections, routingTable, lockedBy, removing, router, routedSoFar, routerStats>>

ForwarderEnds(i) ==
    /\ conns[i].forwarding /\ conns[i].closed
    /\ conns' = [conns EXCEPT ![i].forwarding = FALSE]
    /\ UNCHANGED <<connections, routingTable, lockedBy, removing, router, routedSoFar, routerStats>>

RoutingNext ==
    \/ \E r \in Receivers : CreateReceiver(r)
    \/ \E r \in Receivers, t \in RoutedTracks : AddTrackToReceiver(r, t)
    \/ \E g \in Removers : RemoveReceiver(g) \/ FinishRemoval(g) \/ HandleConnectionStateChange(g)
    \/ \E g \in Removers, r \in Receivers : CallRemoveReceiver(g, r)
    \/ \E g \in Removers, i \in Conns : ConnectionFails(g, i)
    \/ \E t \in RoutedTracks : Process(t) \/ LookUp(t) \/ RoutePacket(t)
    \/ \E i \in Conns : ForwardPacket(i) \/ ForwarderEnds(i)

RoutingSpec == RoutingInit /\ [][RoutingNext]_routingVars

-------------------------------------------------------------------------------
(* The routing table, the connections and the local tracks say the same: a *)
(* receiver is routed a track, and once, exactly when it is connected and  *)
(* was given the track, and the active connections are counted.            *)
RoutesAgree ==
    /\ \A r \in Receivers, t \in RoutedTracks :
          Cardinality({j \in DOMAIN Routes(t) : Routes(t)[j] = r})
              = IF r \in DOMAIN connections /\ t \in conns[connections[r]].localTracks THEN 1 ELSE 0
    /\ routerStats.active = Cardinality(DOMAIN connections)

(* A connection that was removed writes nothing more: its goroutine ended  *)
(* before the peer connection was closed; and no connection is removed     *)
(* without it.                                                             *)
ClosedAreQuiet ==
    \A i \in Conns :
        /\ conns[i].state = "closed" => ~conns[i].forwarding
        /\ (\A r \in DOMAIN connections : connections[r] # i) => conns[i].state = "closed"

(* A receiver is written the packets of each of its tracks in the order    *)
(* they came, and no packet twice, through removals and reconnections.     *)
InTurn(p, q) == p.track = q.track => p.number < q.number

WrittenInOrder ==
    \A i \in Conns :
        LET all == conns[i].written \o conns[i].packetChan
        IN \A j, k \in 1..Len(all) : j < k => InTurn(all[j], all[k])
===============================================================================
