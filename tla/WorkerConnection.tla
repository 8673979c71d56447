--------------------------- MODULE WorkerConnection ---------------------------
(***************************************************************************)
(* The WebSocket connection of a UniversalWorker: Start's first connect,   *)
(* the maintainConnection loop (ping ticker, reconnect token, backoff),    *)
(* the handleMessages goroutines, handleConnectionError, and the two ways  *)
(* of stopping.  Each action is one critical section, one channel          *)
(* operation, one atomic operation or one network call of the Go code.     *)
(*                                                                         *)
(* The goroutines:                                                         *)
(*   - the driver: the goroutine inside Start until registration, then     *)
(*     maintainConnection (they never run at the same time);               *)
(*   - one reader per call of handleMessages, each with its own context;   *)
(*   - the caller of Stop or StopWithTimeout.                              *)
(* The server, the network and the clock are the environment.              *)
(***************************************************************************)
EXTENDS Naturals, Sequences, FiniteSets

CONSTANTS
    Conns,          \* identities of WebSocket connections, reused once unreachable
    NoConn,         \* the nil *websocket.Conn
    Readers,        \* identities of handleMessages goroutines, and of their contexts
    NoReader,       \* the nil CancelFunc
    Driver,         \* the goroutine of Start, then of maintainConnection
    Stops,          \* the ways of stopping the users of the worker employ
    MaxFaults,      \* bound on the failures the environment injects
    MaxJobMessages, \* bound on the job messages the server sends
    MissedLimit,    \* missedPings beyond this make the connection unhealthy; 3 in the code
    InboxBound      \* bound on messages buffered in one connection

ASSUME ConnectionAssumption ==
    /\ NoConn \notin Conns
    /\ NoReader \notin Readers
    /\ Driver \notin Readers
    /\ Stops \subseteq {"Stop", "StopWithTimeout", "Context"}
    /\ MaxFaults \in Nat /\ MaxJobMessages \in Nat /\ InboxBound \in Nat \ {0}
    /\ MissedLimit \in Nat

VARIABLES
    \* fields of UniversalWorker
    wsState,        \* w.wsState
    conn,           \* w.conn
    reconnecting,   \* w.reconnecting, the atomic flag
    token,          \* whether w.reconnectChan (capacity 1) holds its token
    handler,        \* the context behind w.messageHandlerCancel
    cancelled,      \* the handler contexts that were cancelled
    missed,         \* w.healthCheck.missedPings, counted up to one past its limit
    pongSeen,       \* ~w.healthCheck.lastPong.IsZero()
    stopCh,         \* whether w.stopCh is closed
    ctxDone,        \* whether the context given to Start is done
    \* goroutines
    pc,             \* where the driver is
    dconn,          \* the local variable conn of connect()
    maintaining,    \* FALSE while the driver is Start's first connect
    hce,            \* where each goroutine is inside handleConnectionError
    rpc,            \* where each reader is in handleMessages
    rconn,          \* the connection a reader loaded in readMessage
    stopPc,         \* where the caller of Stop or StopWithTimeout is
    \* environment
    link,           \* the state of each connection
    inbox,          \* messages sent by the server and not yet read
    pending,        \* requests the server has not answered
    faults, jobsSent

workerVars == <<wsState, conn, reconnecting, token, handler, cancelled>>
healthVars == <<missed, pongSeen>>
driverVars == <<pc, dconn, maintaining>>
readerVars == <<rpc, rconn>>
stopVars   == <<stopCh, ctxDone, stopPc>>
netVars    == <<link, inbox, pending>>
envVars    == <<faults, jobsSent>>
vars == <<workerVars, healthVars, driverVars, hce, readerVars, stopVars, netVars, envVars>>

Procs == Readers \cup {Driver}

WebSocketState == {"Disconnected", "Connecting", "Connected", "Reconnecting"}

DriverPc ==
    {"begin", "dial", "install", "register", "wait", "await", "publish", "spawn",
     "finish", "idle", "backoff", "exited"}

\* "none" is outside; the others name the next step of handleConnectionError.
HcePc == {"none", "cas", "teardown", "cancel", "signal"}

ReaderPc == {"off", "select", "load", "read", "failed"}

StopPc == {"none", "cancel", "check", "close", "cancelT", "closeT", "done", "panicked"}

\* up: working; bye: the peer sent a normal close; dead: reset or close handshake
\* done; mute: half open, nothing arrives; closed: closed by this side.
LinkState == {"unused", "up", "bye", "dead", "mute", "closed"}

Message == {"registered", "refused", "pong", "job"}

Request == {"register", "ping"}

TypeOK ==
    /\ wsState \in WebSocketState
    /\ conn \in Conns \cup {NoConn}
    /\ reconnecting \in BOOLEAN
    /\ token \in BOOLEAN
    /\ handler \in Readers \cup {NoReader}
    /\ cancelled \in SUBSET Readers
    /\ missed \in 0..(MissedLimit + 1)
    /\ pongSeen \in BOOLEAN
    /\ stopCh \in BOOLEAN
    /\ ctxDone \in BOOLEAN
    /\ pc \in DriverPc
    /\ dconn \in Conns \cup {NoConn}
    /\ maintaining \in BOOLEAN
    /\ hce \in [Procs -> HcePc]
    /\ rpc \in [Readers -> ReaderPc]
    /\ rconn \in [Readers -> Conns \cup {NoConn}]
    /\ stopPc \in StopPc
    /\ link \in [Conns -> LinkState]
    /\ inbox \in [Conns -> Seq(Message)]
    /\ pending \in [Conns -> SUBSET Request]
    /\ faults \in Nat
    /\ jobsSent \in Nat

Init ==
    /\ wsState = "Disconnected"
    /\ conn = NoConn
    /\ reconnecting = FALSE
    /\ token = FALSE
    /\ handler = NoReader
    /\ cancelled = {}
    /\ missed = 0
    /\ pongSeen = FALSE
    /\ stopCh = FALSE
    /\ ctxDone = FALSE
    /\ pc = "dial"
    /\ dconn = NoConn
    /\ maintaining = FALSE
    /\ hce = [p \in Procs |-> "none"]
    /\ rpc = [r \in Readers |-> "off"]
    /\ rconn = [r \in Readers |-> NoConn]
    /\ stopPc = "none"
    /\ link = [c \in Conns |-> "unused"]
    /\ inbox = [c \in Conns |-> <<>>]
    /\ pending = [c \in Conns |-> {}]
    /\ faults = 0
    /\ jobsSent = 0

-------------------------------------------------------------------------------
(* Operations on connections. *)

\* A connection that goes down to l loses what was buffered and what was asked.
Down(c, l) ==
    /\ link' = [d \in Conns |-> IF d = c THEN l ELSE link[d]]
    /\ inbox' = [d \in Conns |-> IF d = c THEN <<>> ELSE inbox[d]]
    /\ pending' = [d \in Conns |-> IF d = c THEN {} ELSE pending[d]]

\* Conn.Close on a connection, or nothing on NoConn.
Close(c) == Down(c, "closed")

\* A connection no goroutine can reach: the runtime may reuse its identity.
Unreachable(c) == c \notin {conn, dconn} /\ \A r \in Readers : rconn[r] # c

\* What a write may do: a half-open or closing peer can still accept bytes.
CanWrite(c) == link[c] \in {"up", "mute", "bye"}
MayFailWrite(c) == link[c] \in {"bye", "dead", "closed"}

\* A message can be read while one is buffered; once the connection is down and
\* nothing is buffered, reading returns an error.
CanRead(c) == link[c] \in {"up", "mute", "bye"} /\ inbox[c] # <<>>
Consume(c) == inbox' = [inbox EXCEPT ![c] = Tail(@)] /\ UNCHANGED <<link, pending>>
ReadFails(c) == link[c] \in {"dead", "closed"} \/ (link[c] = "bye" /\ inbox[c] = <<>>)

Idle == pc = "idle" /\ hce[Driver] = "none"

-------------------------------------------------------------------------------
(* connect(), called by Start and by reconnect(). *)

\* connect() returns an error.  Start gives up; reconnect() resets the flag and
\* maintainConnection backs off.
ConnectFails ==
    /\ pc' = IF maintaining THEN "backoff" ELSE "exited"
    /\ reconnecting' = IF maintaining THEN FALSE ELSE reconnecting
    /\ dconn' = NoConn
    /\ UNCHANGED <<wsState, conn, token, handler, cancelled, maintaining>>

Dial(c) ==
    /\ pc = "dial"
    /\ ~ctxDone
    /\ Unreachable(c)
    /\ dconn' = c
    /\ link' = [link EXCEPT ![c] = "up"]
    /\ inbox' = [inbox EXCEPT ![c] = <<>>]
    /\ pending' = [pending EXCEPT ![c] = {}]
    /\ pc' = "install"
    /\ UNCHANGED <<workerVars, healthVars, maintaining, hce, readerVars, stopVars, envVars>>

DialFails ==
    /\ pc = "dial"
    /\ \/ ctxDone /\ UNCHANGED faults
       \/ faults < MaxFaults /\ faults' = faults + 1
    /\ ConnectFails
    /\ UNCHANGED <<healthVars, hce, readerVars, stopVars, netVars, jobsSent>>

Install ==
    /\ pc = "install"
    /\ conn' = dconn
    /\ wsState' = "Connecting"
    /\ pc' = "register"
    /\ UNCHANGED <<reconnecting, token, handler, cancelled, healthVars, dconn, maintaining,
                   hce, readerVars, stopVars, netVars, envVars>>

\* sendRegister through sendMessage: w.conn and w.wsState are read together.
Sendable == conn # NoConn /\ wsState \in {"Connecting", "Connected"}

SendRegister ==
    /\ pc = "register"
    /\ Sendable /\ CanWrite(conn)
    /\ pending' = [pending EXCEPT ![conn] = @ \cup {"register"}]
    /\ pc' = "wait"
    /\ UNCHANGED <<workerVars, healthVars, dconn, maintaining, hce, readerVars, stopVars,
                   link, inbox, envVars>>

SendRegisterFails ==
    /\ pc = "register"
    /\ Sendable => MayFailWrite(conn)
    /\ Close(dconn)
    /\ ConnectFails
    /\ UNCHANGED <<healthVars, hce, readerVars, stopVars, envVars>>

\* waitForRegistration: its loop looks at ctx and the ten-second timer between two
\* messages only, then blocks in readMessage, which sets no read deadline.
AwaitLoop ==
    /\ pc = "wait"
    /\ \/ /\ ctxDone
          /\ Close(dconn)
          /\ ConnectFails
       \/ /\ ~ctxDone
          /\ pc' = "await"
          /\ UNCHANGED <<workerVars, dconn, maintaining, netVars>>
    /\ UNCHANGED <<healthVars, hce, readerVars, stopVars, envVars>>

\* One message is read.  Any other than the registration response is discarded, and
\* the timer may have expired by then.
AwaitRead ==
    /\ pc = "await"
    /\ conn # NoConn /\ CanRead(conn)
    /\ \/ /\ Head(inbox[conn]) = "registered"
          /\ pc' = "publish"
          /\ Consume(conn)
          /\ UNCHANGED <<workerVars, dconn, maintaining>>
       \/ /\ Head(inbox[conn]) # "registered"
          /\ Close(dconn)
          /\ ConnectFails
       \/ /\ Head(inbox[conn]) \in {"pong", "job"}
          /\ pc' = "wait"
          /\ Consume(conn)
          /\ UNCHANGED <<workerVars, dconn, maintaining>>
    /\ UNCHANGED <<healthVars, hce, readerVars, stopVars, envVars>>

AwaitFails ==
    /\ pc = "await"
    /\ conn # NoConn => ReadFails(conn)
    /\ Close(dconn)
    /\ ConnectFails
    /\ UNCHANGED <<healthVars, hce, readerVars, stopVars, envVars>>

Publish ==
    /\ pc = "publish"
    /\ wsState' = "Connected"
    /\ dconn' = NoConn
    /\ pc' = "spawn"
    /\ UNCHANGED <<conn, reconnecting, token, handler, cancelled, healthVars, maintaining,
                   hce, readerVars, stopVars, netVars, envVars>>

\* A fresh context and a handleMessages goroutine.  In Start the maintenance loop
\* is started next to it.
SpawnReader(r) ==
    /\ pc = "spawn"
    /\ rpc[r] = "off" /\ hce[r] = "none"
    /\ rpc' = [rpc EXCEPT ![r] = "select"]
    /\ handler' = r
    /\ cancelled' = cancelled \ {r}
    /\ pc' = IF maintaining THEN "finish" ELSE "idle"
    /\ maintaining' = TRUE
    /\ UNCHANGED <<wsState, conn, reconnecting, token, healthVars, dconn, hce, rconn,
                   stopVars, netVars, envVars>>

-------------------------------------------------------------------------------
(* maintainConnection(): select over ctx, stopCh, the ping ticker and the token. *)

\* Mutation of DriverExits: the loop does not select on stopCh.
DriverExitsOnContextOnly ==
    /\ Idle
    /\ ctxDone
    /\ pc' = "exited"
    /\ UNCHANGED <<workerVars, healthVars, dconn, maintaining, hce, readerVars, stopVars,
                   netVars, envVars>>

DriverExits ==
    /\ Idle
    /\ stopCh \/ ctxDone
    /\ pc' = "exited"
    /\ UNCHANGED <<workerVars, healthVars, dconn, maintaining, hce, readerVars, stopVars,
                   netVars, envVars>>

\* sendPing.  stale stands for time.Since(lastPong) > PingTimeout, which needs a first
\* pong and, once it holds, holds until the next pong; with the default options (ping
\* every 10s, timeout 2s) a tick normally finds the last pong stale.  Too many stale
\* ticks: nothing is sent, an error is reported.
PingTimesOut ==
    /\ Idle
    /\ pongSeen
    /\ missed >= MissedLimit
    /\ missed' = MissedLimit + 1
    /\ hce' = [hce EXCEPT ![Driver] = "cas"]
    /\ UNCHANGED <<workerVars, pongSeen, driverVars, readerVars, stopVars, netVars, envVars>>

\* Mutation of PingSends: an error from sendMessage is only logged.
PingSendsIgnoringErrors(stale) ==
    /\ Idle
    /\ IF stale THEN pongSeen /\ missed < MissedLimit ELSE missed = 0
    /\ missed' = IF stale THEN missed + 1 ELSE missed
    /\ pending' = IF Sendable /\ CanWrite(conn)
                  THEN [pending EXCEPT ![conn] = @ \cup {"ping"}]
                  ELSE pending
    /\ UNCHANGED <<workerVars, pongSeen, driverVars, hce, readerVars, stopVars, link, inbox,
                   envVars>>

PingSends(stale) ==
    /\ Idle
    /\ IF stale THEN pongSeen /\ missed < MissedLimit ELSE missed = 0
    /\ missed' = IF stale THEN missed + 1 ELSE missed
    /\ \/ /\ Sendable /\ CanWrite(conn)
          /\ pending' = [pending EXCEPT ![conn] = @ \cup {"ping"}]
          /\ UNCHANGED hce
       \/ /\ Sendable => MayFailWrite(conn)
          /\ hce' = [hce EXCEPT ![Driver] = "cas"]
          /\ UNCHANGED pending
    /\ UNCHANGED <<workerVars, pongSeen, driverVars, readerVars, stopVars, link, inbox, envVars>>

ReceiveToken ==
    /\ Idle
    /\ token
    /\ token' = FALSE
    /\ pc' = "begin"
    /\ UNCHANGED <<wsState, conn, reconnecting, handler, cancelled, healthVars, dconn,
                   maintaining, hce, readerVars, stopVars, netVars, envVars>>

\* reconnect(): the first critical section.
BeginReconnect ==
    /\ pc = "begin"
    /\ Close(conn)
    /\ conn' = NoConn
    /\ wsState' = "Reconnecting"
    /\ pc' = "dial"
    /\ UNCHANGED <<reconnecting, token, handler, cancelled, healthVars, dconn, maintaining,
                   hce, readerVars, stopVars, envVars>>

\* Mutation of FinishReconnect: the flag is not released.
FinishReconnectKeepingFlag ==
    /\ pc = "finish"
    /\ pc' = "idle"
    /\ UNCHANGED <<workerVars, healthVars, dconn, maintaining, hce, readerVars, stopVars,
                   netVars, envVars>>

\* reconnect(): after the load update, the flag is released.
FinishReconnect ==
    /\ pc = "finish"
    /\ reconnecting' = FALSE
    /\ pc' = "idle"
    /\ UNCHANGED <<wsState, conn, token, handler, cancelled, healthVars, dconn, maintaining,
                   hce, readerVars, stopVars, netVars, envVars>>

\* Mutation of Backoff: the token is not put back.
BackoffForgettingToken ==
    /\ pc = "backoff"
    /\ pc' = "idle"
    /\ UNCHANGED <<workerVars, healthVars, dconn, maintaining, hce, readerVars, stopVars,
                   netVars, envVars>>

\* The sleep is over; the token is put back unless one is there.
Backoff ==
    /\ pc = "backoff"
    /\ token' = TRUE
    /\ pc' = "idle"
    /\ UNCHANGED <<wsState, conn, reconnecting, handler, cancelled, healthVars, dconn,
                   maintaining, hce, readerVars, stopVars, netVars, envVars>>

-------------------------------------------------------------------------------
(* handleConnectionError(), run by the driver and by readers. *)

HceCas(p) ==
    /\ hce[p] = "cas"
    /\ reconnecting' = TRUE
    /\ hce' = [hce EXCEPT ![p] = IF reconnecting THEN "none" ELSE "teardown"]
    /\ UNCHANGED <<wsState, conn, token, handler, cancelled, healthVars, driverVars,
                   readerVars, stopVars, netVars, envVars>>

HceTeardown(p) ==
    /\ hce[p] = "teardown"
    /\ wsState' = "Disconnected"
    /\ Close(conn)
    /\ conn' = NoConn
    /\ hce' = [hce EXCEPT ![p] = "cancel"]
    /\ UNCHANGED <<reconnecting, token, handler, cancelled, healthVars, driverVars,
                   readerVars, stopVars, envVars>>

\* Mutation of StopMessageHandler: the nil check is missing.
StopMessageHandlerUnchecked ==
    /\ cancelled' = cancelled \cup {handler}
    /\ handler' = NoReader

\* stopMessageHandler().
StopMessageHandler ==
    /\ cancelled' = IF handler = NoReader THEN cancelled ELSE cancelled \cup {handler}
    /\ handler' = NoReader

HceCancel(p) ==
    /\ hce[p] = "cancel"
    /\ StopMessageHandler
    /\ hce' = [hce EXCEPT ![p] = "signal"]
    /\ UNCHANGED <<wsState, conn, reconnecting, token, healthVars, driverVars, readerVars,
                   stopVars, netVars, envVars>>

HceSignal(p) ==
    /\ hce[p] = "signal"
    /\ token' = TRUE
    /\ reconnecting' = IF token THEN FALSE ELSE reconnecting
    /\ hce' = [hce EXCEPT ![p] = "none"]
    /\ UNCHANGED <<wsState, conn, handler, cancelled, healthVars, driverVars, readerVars,
                   stopVars, netVars, envVars>>

-------------------------------------------------------------------------------
(* handleMessages(). *)

CtxDone(r) == ctxDone \/ r \in cancelled

ReaderLeaves(r) ==
    /\ rpc' = [rpc EXCEPT ![r] = "off"]
    /\ rconn' = [rconn EXCEPT ![r] = NoConn]
    /\ cancelled' = cancelled \ {r}

\* The select at the head of the loop.
ReaderSelect(r) ==
    /\ rpc[r] = "select"
    /\ \/ (CtxDone(r) \/ stopCh) /\ ReaderLeaves(r)
       \/ /\ ~CtxDone(r) /\ ~stopCh
          /\ rpc' = [rpc EXCEPT ![r] = "load"]
          /\ UNCHANGED <<rconn, cancelled>>
    /\ UNCHANGED <<wsState, conn, reconnecting, token, handler, healthVars, driverVars, hce,
                   stopVars, netVars, envVars>>

\* readMessage(): load w.conn under the read lock.
ReaderLoad(r) ==
    /\ rpc[r] = "load"
    /\ rpc' = [rpc EXCEPT ![r] = IF conn = NoConn THEN "failed" ELSE "read"]
    /\ rconn' = [rconn EXCEPT ![r] = conn]
    /\ UNCHANGED <<workerVars, healthVars, driverVars, hce, stopVars, netVars, envVars>>

\* readMessage() returns a message and handleServerMessage runs.
ReaderReads(r) ==
    /\ rpc[r] = "read"
    /\ CanRead(rconn[r])
    /\ Consume(rconn[r])
    /\ IF Head(inbox[rconn[r]]) = "pong"
       THEN missed' = 0 /\ pongSeen' = TRUE
       ELSE UNCHANGED healthVars
    /\ rpc' = [rpc EXCEPT ![r] = "select"]
    /\ rconn' = [rconn EXCEPT ![r] = NoConn]
    /\ UNCHANGED <<workerVars, driverVars, hce, stopVars, envVars>>

\* readMessage() returns an error.  Reading the peer's close frame answers it, after
\* which nothing can be written.  Apart from cancellation, a normal close ends the
\* goroutine without reporting anything.
ReaderFails(r) ==
    /\ rpc[r] = "read"
    /\ ReadFails(rconn[r])
    /\ IF link[rconn[r]] = "bye"
       THEN ReaderLeaves(r) /\ Down(rconn[r], "dead")
       ELSE /\ rpc' = [rpc EXCEPT ![r] = "failed"]
            /\ rconn' = [rconn EXCEPT ![r] = NoConn]
            /\ UNCHANGED <<cancelled, netVars>>
    /\ UNCHANGED <<wsState, conn, reconnecting, token, handler, healthVars, driverVars, hce,
                   stopVars, envVars>>

\* The check of ctx.Err() after an error: the goroutine either returns or goes on to
\* handleConnectionError, in which it may be delayed.
ReaderReports(r) ==
    /\ rpc[r] = "failed"
    /\ ReaderLeaves(r)
    /\ hce' = IF CtxDone(r) THEN hce ELSE [hce EXCEPT ![r] = "cas"]
    /\ UNCHANGED <<wsState, conn, reconnecting, token, handler, healthVars, driverVars, stopVars, netVars, envVars>>

-------------------------------------------------------------------------------
(* Stop() and StopWithTimeout(), guarded by stopOnce. *)

StopBegins ==
    /\ stopPc = "none"
    /\ stopCh' = TRUE
    /\ \/ ("Stop" \in Stops \/ (ctxDone /\ maintaining)) /\ stopPc' = "cancel"
       \/ "StopWithTimeout" \in Stops /\ stopPc' = "cancelT"
    /\ UNCHANGED <<workerVars, healthVars, driverVars, hce, readerVars, ctxDone, netVars, envVars>>

StopCancels ==
    /\ stopPc \in {"cancel", "cancelT"}
    /\ StopMessageHandler
    /\ stopPc' = IF stopPc = "cancel" THEN "check" ELSE "closeT"
    /\ UNCHANGED <<wsState, conn, reconnecting, token, healthVars, driverVars, hce,
                   readerVars, stopCh, ctxDone, netVars, envVars>>

\* Stop reads w.conn twice without the lock: once for the nil check, once for Close.
StopChecks ==
    /\ stopPc = "check"
    /\ stopPc' = IF conn = NoConn THEN "done" ELSE "close"
    /\ UNCHANGED <<workerVars, healthVars, driverVars, hce, readerVars, stopCh, ctxDone,
                   netVars, envVars>>

StopCloses ==
    /\ stopPc = "close"
    /\ Close(conn)
    /\ stopPc' = IF conn = NoConn THEN "panicked" ELSE "done"
    /\ UNCHANGED <<workerVars, healthVars, driverVars, hce, readerVars, stopCh, ctxDone,
                   envVars>>

\* StopWithTimeout closes under the lock and records the state.
StopClosesLocked ==
    /\ stopPc = "closeT"
    /\ Close(conn)
    /\ wsState' = "Disconnected"
    /\ stopPc' = "done"
    /\ UNCHANGED <<conn, reconnecting, token, handler, cancelled, healthVars, driverVars, hce,
                   readerVars, stopCh, ctxDone, envVars>>

\* The caller of Start cancels its context; Start then calls Stop.
CancelContext ==
    /\ ~ctxDone /\ "Context" \in Stops
    /\ ctxDone' = TRUE
    /\ UNCHANGED <<workerVars, healthVars, driverVars, hce, readerVars, stopCh, stopPc,
                   netVars, envVars>>

-------------------------------------------------------------------------------
(* The environment: the server and the network, on the connections in use. *)

\* The server answers a request; refusing a registration is a fault.
ServerReplies(c) ==
    /\ ~Unreachable(c)
    /\ link[c] = "up"
    /\ Len(inbox[c]) < InboxBound
    /\ \/ /\ "register" \in pending[c]
          /\ pending' = [pending EXCEPT ![c] = @ \ {"register"}]
          /\ \/ /\ inbox' = [inbox EXCEPT ![c] = Append(@, "registered")]
                /\ UNCHANGED faults
             \/ /\ faults < MaxFaults
                /\ faults' = faults + 1
                /\ inbox' = [inbox EXCEPT ![c] = Append(@, "refused")]
       \/ /\ "ping" \in pending[c]
          /\ pending' = [pending EXCEPT ![c] = @ \ {"ping"}]
          /\ inbox' = [inbox EXCEPT ![c] = Append(@, "pong")]
          /\ UNCHANGED faults
    /\ UNCHANGED <<workerVars, healthVars, driverVars, hce, readerVars, stopVars, link, jobsSent>>

\* An availability request, an assignment or a termination, sent to a worker whose
\* registration the server has answered.
ServerSendsJob(c) ==
    /\ link[c] = "up" /\ c = conn
    /\ "register" \notin pending[c]
    /\ pc \notin {"dial", "install", "register"}
    /\ Len(inbox[c]) < InboxBound
    /\ jobsSent < MaxJobMessages
    /\ jobsSent' = jobsSent + 1
    /\ inbox' = [inbox EXCEPT ![c] = Append(@, "job")]
    /\ UNCHANGED <<workerVars, healthVars, driverVars, hce, readerVars, stopVars, link,
                   pending, faults>>

LinkFault(c) ==
    /\ ~Unreachable(c)
    /\ link[c] \in {"up", "mute"}
    /\ faults < MaxFaults
    /\ faults' = faults + 1
    /\ Down(c, "dead")
    /\ UNCHANGED <<workerVars, healthVars, driverVars, hce, readerVars, stopVars, jobsSent>>

ServerCloses(c) ==
    /\ ~Unreachable(c)
    /\ link[c] = "up"
    /\ faults < MaxFaults
    /\ faults' = faults + 1
    /\ link' = [link EXCEPT ![c] = "bye"]
    /\ UNCHANGED <<workerVars, healthVars, driverVars, hce, readerVars, stopVars, inbox,
                   pending, jobsSent>>

\* The peer of a connection it has closed resets it in the end.
LinkResets(c) ==
    /\ ~Unreachable(c)
    /\ link[c] = "bye"
    /\ Down(c, "dead")
    /\ UNCHANGED <<workerVars, healthVars, driverVars, hce, readerVars, stopVars, envVars>>

LinkGoesMute(c) ==
    /\ ~Unreachable(c)
    /\ link[c] = "up"
    /\ faults < MaxFaults
    /\ faults' = faults + 1
    /\ link' = [link EXCEPT ![c] = "mute"]
    /\ UNCHANGED <<workerVars, healthVars, driverVars, hce, readerVars, stopVars, inbox,
                   pending, jobsSent>>

-------------------------------------------------------------------------------
DriverStep ==
    \/ \E c \in Conns : Dial(c)
    \/ DialFails \/ Install \/ SendRegister \/ SendRegisterFails
    \/ AwaitLoop \/ AwaitRead \/ AwaitFails \/ Publish
    \/ \E r \in Readers : SpawnReader(r)
    \/ BeginReconnect \/ FinishReconnect \/ Backoff

StaleTick == PingTimesOut \/ PingSends(TRUE)
PingTick == StaleTick \/ PingSends(FALSE)

HandleConnectionError(p) == HceCas(p) \/ HceTeardown(p) \/ HceCancel(p) \/ HceSignal(p)

ReaderStep(r) ==
    ReaderSelect(r) \/ ReaderLoad(r) \/ ReaderReads(r) \/ ReaderFails(r) \/ ReaderReports(r)

StopStep == StopCancels \/ StopChecks \/ StopCloses \/ StopClosesLocked

Environment ==
    \/ CancelContext
    \/ \E c \in Conns : \/ ServerReplies(c) \/ ServerSendsJob(c)
                        \/ LinkFault(c) \/ ServerCloses(c)
                        \/ LinkResets(c) \/ LinkGoesMute(c)

\* A panic in Stop takes the whole process down.
Crashed == stopPc = "panicked"

Next ==
    /\ ~Crashed
    /\ \/ DriverStep \/ DriverExits \/ PingTick \/ ReceiveToken
       \/ \E p \in Procs : HandleConnectionError(p)
       \/ \E r \in Readers : ReaderStep(r)
       \/ StopBegins \/ StopStep
       \/ Environment

Spec == Init /\ [][Next]_vars

\* Goroutines are scheduled fairly.  The select of maintainConnection picks a ready
\* case at random and the ticker keeps its tick, so a case that is ready again and
\* again is taken: strong fairness.  Time passes, so the last pong grows stale.  Start
\* calls Stop once its context is done.  TCP resets a connection whose peer is gone.
\* The server promises nothing.
Fairness ==
    /\ WF_vars(~Crashed /\ DriverStep)
    /\ SF_vars(~Crashed /\ DriverExits)
    /\ SF_vars(~Crashed /\ PingTick)
    /\ SF_vars(~Crashed /\ StaleTick)
    /\ SF_vars(~Crashed /\ ReceiveToken)
    /\ \A p \in Procs : WF_vars(~Crashed /\ HandleConnectionError(p))
    /\ \A r \in Readers : WF_vars(~Crashed /\ ReaderStep(r))
    /\ WF_vars(~Crashed /\ StopStep)
    /\ WF_vars(~Crashed /\ ctxDone /\ maintaining /\ StopBegins)
    /\ \A c \in Conns : WF_vars(~Crashed /\ LinkResets(c))

FairSpec == Spec /\ Fairness

-------------------------------------------------------------------------------
(* Properties. *)

InReconnect ==
    /\ maintaining
    /\ pc \in {"begin", "dial", "install", "register", "wait", "await", "publish", "spawn",
              "finish"}

\* The reconnecting flag, once set, always has somebody bound to release it: a token
\* to be received, a reconnection in progress, or a handleConnectionError that has
\* not signalled yet.  A flag left set would turn every later error report into
\* "Reconnection already in progress, skipping".
FlagBacked ==
    maintaining /\ pc # "exited" /\ reconnecting =>
        \/ token
        \/ InReconnect
        \/ \E p \in Procs : hce[p] \in {"teardown", "cancel", "signal"}

\* A worker that has no connection, or whose connection it closed itself, has a
\* reconnection under way or requested, unless it is being stopped.
RecoveryPending ==
    /\ maintaining /\ pc # "exited" /\ ~stopCh
    /\ conn = NoConn \/ link[conn] = "closed"
    => \/ token
       \/ pc \in {"begin", "dial", "install", "backoff"}
       \/ \E p \in Procs : hce[p] \in {"cancel", "signal"}

Stopping == stopCh \/ ctxDone \/ Crashed

\* A connection lost while in use (reset, or closed by the server) does not stay the
\* worker's connection: the reader's report or, when that is swallowed or never made,
\* the next ping drops it.
LossNoticed ==
    \A c \in Conns :
        (maintaining /\ conn = c /\ link[c] \in {"dead", "bye"})
            ~> (conn # c \/ link[c] \notin {"dead", "bye"} \/ Stopping)

\* The bound on readers is reached: every identity is a goroutine still running.
OutOfReaders == \A r \in Readers : rpc[r] # "off" \/ hce[r] # "none"

\* After Stop every goroutine returns, except one that is blocked reading (and the
\* driver of an instance with too few readers).
GoroutinesEnd ==
    stopCh ~> \/ Crashed
              \/ /\ pc \in {"exited", "await"} \/ (pc = "spawn" /\ OutOfReaders)
                 /\ hce[Driver] = "none"
                 /\ \A r \in Readers : rpc[r] \in {"off", "read"} /\ hce[r] = "none"
-------------------------------------------------------------------------------
(* What the comments and tests of the repository say and the code does not do. *)

\* "TestNoMultipleMessageHandlerGoroutines verifies only one handler runs at a time":
\* no two goroutines read from one connection.
HandlersNeverShareConnection ==
    \A r \in Readers :
        rpc[r] = "read" =>
            /\ \A q \in Readers \ {r} : rpc[q] = "read" => rconn[q] # rconn[r]
            /\ pc = "await" => rconn[r] # conn

\* "Close WebSocket connection" (Stop): once Stop has returned and the goroutine that
\* maintains the connection is gone, the worker holds no open connection.
StopClosesConnection ==
    stopPc = "done" /\ pc = "exited" /\ conn # NoConn => link[conn] # "up"

\* "If a ping response isn't received within this duration, the connection is considered
\* lost" (PingTimeout): a connection that works is given up for missed pings only when a
\* ping was sent on it and its pong was not handled yet.
PingedBeforeGivenUp ==
    [][PingTimesOut /\ Sendable /\ link[conn] = "up"
           => "ping" \in pending[conn] \/ \E i \in DOMAIN inbox[conn] : inbox[conn][i] = "pong"]_vars
===============================================================================
