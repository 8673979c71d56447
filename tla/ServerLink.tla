------------------------------ MODULE ServerLink ------------------------------
(***************************************************************************)
(* What the reporting parts of the worker see of its connection: whether   *)
(* sendMessage finds wsState connected, and how far StopWithTimeout is.    *)
(* WorkerConnection says in detail how the connection is lost and made.    *)
(***************************************************************************)
EXTENDS Naturals

CONSTANT MaxConnections     \* bound on the connections made

ASSUME LinkAssumption == MaxConnections \in Nat \ {0}

VARIABLES
    online,         \* wsState is Connected and w.conn is set
    connections,    \* connections made so far
    stopper         \* how far StopWithTimeout is

linkVars == <<online, connections, stopper>>

StopperPc == {"running", "signalled", "closed"}

LinkTypeOK ==
    /\ online \in BOOLEAN
    /\ connections \in 1..MaxConnections
    /\ stopper \in StopperPc

LinkInit ==
    /\ online = TRUE
    /\ connections = 1
    /\ stopper = "running"

\* handleConnectionError tears the connection down.
ConnectionLost ==
    /\ online
    /\ online' = FALSE
    /\ UNCHANGED <<connections, stopper>>

\* connect publishes a new one; a reconnection under way may still do so after Stop.
Reconnected ==
    /\ ~online
    /\ connections < MaxConnections
    /\ online' = TRUE
    /\ connections' = connections + 1
    /\ UNCHANGED stopper

\* StopWithTimeout closes stopCh, ...
StopSignals ==
    /\ stopper = "running"
    /\ stopper' = "signalled"
    /\ UNCHANGED <<online, connections>>

\* ... and then the connection; the load batcher is stopped after that.
StopDisconnects ==
    /\ stopper = "signalled"
    /\ stopper' = "closed"
    /\ online' = FALSE
    /\ UNCHANGED connections

LinkNext == ConnectionLost \/ Reconnected \/ StopSignals \/ StopDisconnects
===============================================================================
