------------------------ MODULE WorkerConnectionProofs ------------------------
(***************************************************************************)
(* Proofs about WorkerConnection: for any number of connections and        *)
(* readers and any bounds, the types are respected, the reconnecting flag  *)
(* always has somebody bound to release it, and a worker without a         *)
(* connection always has a reconnection under way or requested.            *)
(***************************************************************************)
EXTENDS WorkerConnection, TLAPS

USE DEF workerVars, healthVars, driverVars, readerVars, stopVars, netVars, envVars

-------------------------------------------------------------------------------
(* Types.  The Boolean variables are proved apart from the others; that a reader
   which reads has a connection to read from is part of the induction. *)

FlagTypes ==
    /\ reconnecting \in BOOLEAN
    /\ token \in BOOLEAN
    /\ pongSeen \in BOOLEAN
    /\ stopCh \in BOOLEAN
    /\ ctxDone \in BOOLEAN
    /\ maintaining \in BOOLEAN

ValueTypes ==
    /\ wsState \in WebSocketState
    /\ conn \in Conns \cup {NoConn}
    /\ handler \in Readers \cup {NoReader}
    /\ cancelled \in SUBSET Readers
    /\ missed \in 0..(MissedLimit + 1)
    /\ pc \in DriverPc
    /\ dconn \in Conns \cup {NoConn}
    /\ hce \in [Procs -> HcePc]
    /\ rpc \in [Readers -> ReaderPc]
    /\ rconn \in [Readers -> Conns \cup {NoConn}]
    /\ stopPc \in StopPc
    /\ link \in [Conns -> LinkState]
    /\ inbox \in [Conns -> Seq(Message)]
    /\ pending \in [Conns -> SUBSET Request]
    /\ faults \in Nat
    /\ jobsSent \in Nat
    /\ \A r \in Readers : rpc[r] = "read" => rconn[r] \in Conns

LEMMA TypeParts == FlagTypes /\ ValueTypes => TypeOK
BY DEF TypeOK, FlagTypes, ValueTypes

LEMMA TypeInit == Init => FlagTypes /\ ValueTypes
<1> SUFFICES ASSUME Init PROVE FlagTypes /\ ValueTypes
  OBVIOUS
<1>1. FlagTypes
  BY DEF Init, FlagTypes
<1>2. ValueTypes
  BY ConnectionAssumption DEF Init, ValueTypes, WebSocketState, DriverPc, HcePc, ReaderPc, StopPc, LinkState, Message, Request
<1> QED
  BY <1>1, <1>2

NetTypes ==
    /\ link \in [Conns -> LinkState]
    /\ inbox \in [Conns -> Seq(Message)]
    /\ pending \in [Conns -> SUBSET Request]

LEMMA DownTypes ==
    ASSUME NEW c, NEW l \in LinkState, NetTypes, Down(c, l)
    PROVE  NetTypes'
BY DEF Down, NetTypes, Request

LEMMA CloseTypes == ASSUME NEW c, NetTypes, Close(c) PROVE NetTypes'
BY DownTypes DEF Close, LinkState

LEMMA ConsumeTypes ==
    ASSUME NEW c \in Conns, NetTypes, inbox[c] # <<>>, Consume(c)
    PROVE  NetTypes'
<1>1. Tail(inbox[c]) \in Seq(Message)
  BY DEF NetTypes
<1> QED
  BY <1>1 DEF Consume, NetTypes

LEMMA FlagTypesStep == FlagTypes /\ [Next]_vars => FlagTypes'
<1> SUFFICES ASSUME FlagTypes, [Next]_vars PROVE FlagTypes'
  OBVIOUS
<1>1. CASE \E c \in Conns : Dial(c)
  BY <1>1, FlagTypes DEF Dial, FlagTypes
<1>2. CASE DialFails
  BY <1>2, FlagTypes DEF DialFails, ConnectFails, FlagTypes
<1>3. CASE Install
  BY <1>3, FlagTypes DEF Install, FlagTypes
<1>4. CASE SendRegister
  BY <1>4, FlagTypes DEF SendRegister, FlagTypes
<1>5. CASE SendRegisterFails
  BY <1>5, FlagTypes DEF SendRegisterFails, Close, Down, ConnectFails, FlagTypes
<1>6. CASE AwaitLoop
  BY <1>6, FlagTypes DEF AwaitLoop, Close, Down, ConnectFails, FlagTypes
<1>7. CASE AwaitRead
  BY <1>7, FlagTypes DEF AwaitRead, Consume, Close, Down, ConnectFails, FlagTypes
<1>8. CASE AwaitFails
  BY <1>8, FlagTypes DEF AwaitFails, Close, Down, ConnectFails, FlagTypes
<1>9. CASE Publish
  BY <1>9, FlagTypes DEF Publish, FlagTypes
<1>10. CASE \E r \in Readers : SpawnReader(r)
  BY <1>10, FlagTypes DEF SpawnReader, FlagTypes
<1>11. CASE BeginReconnect
  BY <1>11, FlagTypes DEF BeginReconnect, Close, Down, FlagTypes
<1>12. CASE FinishReconnect
  BY <1>12, FlagTypes DEF FinishReconnect, FlagTypes
<1>13. CASE Backoff
  BY <1>13, FlagTypes DEF Backoff, FlagTypes
<1>14. CASE DriverExits
  BY <1>14, FlagTypes DEF DriverExits, FlagTypes
<1>15. CASE PingTimesOut
  BY <1>15, FlagTypes DEF PingTimesOut, FlagTypes
<1>16. CASE \E stale \in BOOLEAN : PingSends(stale)
  BY <1>16, FlagTypes DEF PingSends, FlagTypes
<1>17. CASE ReceiveToken
  BY <1>17, FlagTypes DEF ReceiveToken, FlagTypes
<1>18. CASE \E p \in Procs : HceCas(p)
  BY <1>18, FlagTypes DEF HceCas, FlagTypes
<1>19. CASE \E p \in Procs : HceTeardown(p)
  BY <1>19, FlagTypes DEF HceTeardown, Close, Down, FlagTypes
<1>20. CASE \E p \in Procs : HceCancel(p)
  BY <1>20, FlagTypes DEF HceCancel, StopMessageHandler, FlagTypes
<1>21. CASE \E p \in Procs : HceSignal(p)
  BY <1>21, FlagTypes DEF HceSignal, FlagTypes
<1>22. CASE \E r \in Readers : ReaderSelect(r)
  BY <1>22, FlagTypes DEF ReaderSelect, ReaderLeaves, FlagTypes
<1>23. CASE \E r \in Readers : ReaderLoad(r)
  BY <1>23, FlagTypes DEF ReaderLoad, FlagTypes
<1>24. CASE \E r \in Readers : ReaderReads(r)
  BY <1>24, FlagTypes DEF ReaderReads, Consume, FlagTypes
<1>25. CASE \E r \in Readers : ReaderFails(r)
  BY <1>25, FlagTypes DEF ReaderFails, ReaderLeaves, Down, FlagTypes
<1>26. CASE \E r \in Readers : ReaderReports(r)
  BY <1>26, FlagTypes DEF ReaderReports, ReaderLeaves, FlagTypes
<1>27. CASE StopBegins
  BY <1>27, FlagTypes DEF StopBegins, FlagTypes
<1>28. CASE StopCancels
  BY <1>28, FlagTypes DEF StopCancels, StopMessageHandler, FlagTypes
<1>29. CASE StopChecks
  BY <1>29, FlagTypes DEF StopChecks, FlagTypes
<1>30. CASE StopCloses
  BY <1>30, FlagTypes DEF StopCloses, Close, Down, FlagTypes
<1>31. CASE StopClosesLocked
  BY <1>31, FlagTypes DEF StopClosesLocked, Close, Down, FlagTypes
<1>32. CASE CancelContext
  BY <1>32, FlagTypes DEF CancelContext, FlagTypes
<1>33. CASE \E c \in Conns : ServerReplies(c)
  BY <1>33, FlagTypes DEF ServerReplies, FlagTypes
<1>34. CASE \E c \in Conns : ServerSendsJob(c)
  BY <1>34, FlagTypes DEF ServerSendsJob, FlagTypes
<1>35. CASE \E c \in Conns : LinkFault(c)
  BY <1>35, FlagTypes DEF LinkFault, Down, FlagTypes
<1>36. CASE \E c \in Conns : ServerCloses(c)
  BY <1>36, FlagTypes DEF ServerCloses, FlagTypes
<1>37. CASE \E c \in Conns : LinkResets(c)
  BY <1>37, FlagTypes DEF LinkResets, Down, FlagTypes
<1>38. CASE \E c \in Conns : LinkGoesMute(c)
  BY <1>38, FlagTypes DEF LinkGoesMute, FlagTypes
<1>39. CASE UNCHANGED vars
  BY <1>39, FlagTypes DEF FlagTypes, vars
<1> QED
  BY <1>1, <1>2, <1>3, <1>4, <1>5, <1>6, <1>7, <1>8, <1>9, <1>10, <1>11, <1>12, <1>13, <1>14, <1>15,
     <1>16, <1>17, <1>18, <1>19, <1>20, <1>21, <1>22, <1>23, <1>24, <1>25, <1>26, <1>27, <1>28,
     <1>29, <1>30, <1>31, <1>32, <1>33, <1>34, <1>35, <1>36, <1>37, <1>38, <1>39
  DEF Next, DriverStep, PingTick, StaleTick, HandleConnectionError, ReaderStep, StopStep, Environment

LEMMA ValueTypesStep == ValueTypes /\ [Next]_vars => ValueTypes'
<1> SUFFICES ASSUME ValueTypes, [Next]_vars PROVE ValueTypes'
  OBVIOUS
<1> USE ConnectionAssumption DEF WebSocketState, DriverPc, HcePc, ReaderPc, StopPc, LinkState, Message, Request
<1>1. CASE \E c \in Conns : Dial(c)
  BY <1>1, ValueTypes DEF Dial, ValueTypes
<1>2. CASE DialFails
  BY <1>2, ValueTypes DEF DialFails, ConnectFails, ValueTypes
<1>3. CASE Install
  BY <1>3, ValueTypes DEF Install, ValueTypes
<1>4. CASE SendRegister
  BY <1>4, ValueTypes DEF SendRegister, Sendable, CanWrite, ValueTypes
<1>5. CASE SendRegisterFails
  BY <1>5, ValueTypes DEF SendRegisterFails, Close, Down, ConnectFails, ValueTypes
<1>6. CASE AwaitLoop
  <2>1. CASE Close(dconn) /\ ConnectFails
    BY <2>1, <1>6, CloseTypes DEF ValueTypes, NetTypes, AwaitLoop, ConnectFails
  <2>2. CASE UNCHANGED <<workerVars, dconn, netVars>> /\ pc' = "await"
    BY <2>2, <1>6 DEF ValueTypes, AwaitLoop
  <2> QED
    BY <2>1, <2>2, <1>6 DEF AwaitLoop
<1>7. CASE AwaitRead
  <2>1. CASE Close(dconn) /\ ConnectFails
    BY <2>1, <1>7, CloseTypes DEF ValueTypes, NetTypes, AwaitRead, ConnectFails
  <2>2. CASE Consume(conn) /\ pc' \in {"publish", "wait"} /\ UNCHANGED <<workerVars, dconn>>
    <3>1. conn \in Conns /\ inbox[conn] # <<>>
      BY <1>7 DEF AwaitRead, CanRead, ValueTypes
    <3> QED
      BY <3>1, <2>2, <1>7, ConsumeTypes DEF ValueTypes, NetTypes, AwaitRead
  <2> QED
    BY <2>1, <2>2, <1>7 DEF AwaitRead
<1>8. CASE AwaitFails
  BY <1>8, ValueTypes DEF AwaitFails, Close, Down, ConnectFails, ValueTypes
<1>9. CASE Publish
  BY <1>9, ValueTypes DEF Publish, ValueTypes
<1>10. CASE \E r \in Readers : SpawnReader(r)
  BY <1>10, ValueTypes DEF SpawnReader, ValueTypes
<1>11. CASE BeginReconnect
  BY <1>11, ValueTypes DEF BeginReconnect, Close, Down, ValueTypes
<1>12. CASE FinishReconnect
  BY <1>12, ValueTypes DEF FinishReconnect, ValueTypes
<1>13. CASE Backoff
  BY <1>13, ValueTypes DEF Backoff, ValueTypes
<1>14. CASE DriverExits
  BY <1>14, ValueTypes DEF DriverExits, ValueTypes
<1>15. CASE PingTimesOut
  BY <1>15, ValueTypes DEF PingTimesOut, Procs, ValueTypes
<1>16. CASE \E stale \in BOOLEAN : PingSends(stale)
  <2>1. pending' \in [Conns -> SUBSET Request]
    <3>1. CASE Sendable /\ pending' = [pending EXCEPT ![conn] = @ \cup {"ping"}]
      BY <3>1 DEF ValueTypes, Sendable
    <3>2. CASE UNCHANGED pending
      BY <3>2 DEF ValueTypes
    <3> QED
      BY <3>1, <3>2, <1>16 DEF PingSends
  <2>2. missed' \in 0..(MissedLimit + 1)
    BY <1>16 DEF PingSends, ValueTypes
  <2>3. hce' \in [Procs -> HcePc]
    BY <1>16 DEF PingSends, ValueTypes, Procs
  <2> QED
    BY <2>1, <2>2, <2>3, <1>16 DEF ValueTypes, PingSends
<1>17. CASE ReceiveToken
  BY <1>17, ValueTypes DEF ReceiveToken, ValueTypes
<1>18. CASE \E p \in Procs : HceCas(p)
  BY <1>18, ValueTypes DEF HceCas, ValueTypes
<1>19. CASE \E p \in Procs : HceTeardown(p)
  BY <1>19, ValueTypes DEF HceTeardown, Close, Down, ValueTypes
<1>20. CASE \E p \in Procs : HceCancel(p)
  BY <1>20, ValueTypes DEF HceCancel, StopMessageHandler, ValueTypes
<1>21. CASE \E p \in Procs : HceSignal(p)
  BY <1>21, ValueTypes DEF HceSignal, ValueTypes
<1>22. CASE \E r \in Readers : ReaderSelect(r)
  <2> PICK r \in Readers : ReaderSelect(r)
    BY <1>22
  <2>1. rpc' \in [Readers -> ReaderPc] /\ rconn' \in [Readers -> Conns \cup {NoConn}]
    BY DEF ReaderSelect, ReaderLeaves, ValueTypes
  <2> QED
    BY <2>1 DEF ReaderSelect, ReaderLeaves, ValueTypes
<1>23. CASE \E r \in Readers : ReaderLoad(r)
  BY <1>23, ValueTypes DEF ReaderLoad, ValueTypes
<1>24. CASE \E r \in Readers : ReaderReads(r)
  <2> PICK r \in Readers : ReaderReads(r)
    BY <1>24
  <2>1. rconn[r] \in Conns /\ inbox[rconn[r]] # <<>>
    BY DEF ReaderReads, CanRead, ValueTypes
  <2>2. NetTypes'
    BY <2>1, ConsumeTypes DEF ReaderReads, ValueTypes, NetTypes
  <2>3. missed' \in 0..(MissedLimit + 1)
    BY DEF ReaderReads, ValueTypes
  <2> QED
    BY <2>2, <2>3 DEF ReaderReads, ValueTypes, NetTypes
<1>25. CASE \E r \in Readers : ReaderFails(r)
  <2> PICK r \in Readers : ReaderFails(r)
    BY <1>25
  <2>1. NetTypes'
    BY DownTypes DEF ReaderFails, ValueTypes, NetTypes
  <2>2. rpc' \in [Readers -> ReaderPc] /\ rconn' \in [Readers -> Conns \cup {NoConn}]
    BY DEF ReaderFails, ReaderLeaves, ValueTypes
  <2>3. cancelled' \subseteq Readers
    BY DEF ReaderFails, ReaderLeaves, ValueTypes
  <2>4. \A q \in Readers : rpc'[q] = "read" => rconn'[q] \in Conns
    BY DEF ReaderFails, ReaderLeaves, ValueTypes
  <2> QED
    BY <2>1, <2>2, <2>3, <2>4 DEF ReaderFails, ValueTypes, NetTypes
<1>26. CASE \E r \in Readers : ReaderReports(r)
  <2> PICK r \in Readers : ReaderReports(r)
    BY <1>26
  <2>1. hce' \in [Procs -> HcePc]
    BY DEF ReaderReports, ValueTypes, Procs
  <2> QED
    BY <2>1 DEF ReaderReports, ReaderLeaves, ValueTypes
<1>27. CASE StopBegins
  BY <1>27, ValueTypes DEF StopBegins, ValueTypes
<1>28. CASE StopCancels
  BY <1>28, ValueTypes DEF StopCancels, StopMessageHandler, ValueTypes
<1>29. CASE StopChecks
  BY <1>29, ValueTypes DEF StopChecks, ValueTypes
<1>30. CASE StopCloses
  BY <1>30, ValueTypes DEF StopCloses, Close, Down, ValueTypes
<1>31. CASE StopClosesLocked
  BY <1>31, ValueTypes DEF StopClosesLocked, Close, Down, ValueTypes
<1>32. CASE CancelContext
  BY <1>32, ValueTypes DEF CancelContext, ValueTypes
<1>33. CASE \E c \in Conns : ServerReplies(c)
  <2> PICK c \in Conns : ServerReplies(c)
    BY <1>33
  <2>1. inbox' \in [Conns -> Seq(Message)]
    <3>1. PICK m \in Message : inbox' = [inbox EXCEPT ![c] = Append(@, m)]
      BY DEF ServerReplies
    <3> QED
      BY <3>1 DEF ValueTypes
  <2>2. pending' \in [Conns -> SUBSET Request]
    <3>1. PICK q \in Request : pending' = [pending EXCEPT ![c] = @ \ {q}]
      BY DEF ServerReplies
    <3> QED
      BY <3>1 DEF ValueTypes
  <2>3. faults' \in Nat
    BY DEF ServerReplies, ValueTypes
  <2> QED
    BY <2>1, <2>2, <2>3 DEF ServerReplies, ValueTypes
<1>34. CASE \E c \in Conns : ServerSendsJob(c)
  BY <1>34, ValueTypes DEF ServerSendsJob, ValueTypes
<1>35. CASE \E c \in Conns : LinkFault(c)
  BY <1>35, ValueTypes DEF LinkFault, Down, ValueTypes
<1>36. CASE \E c \in Conns : ServerCloses(c)
  BY <1>36, ValueTypes DEF ServerCloses, ValueTypes
<1>37. CASE \E c \in Conns : LinkResets(c)
  BY <1>37, ValueTypes DEF LinkResets, Down, ValueTypes
<1>38. CASE \E c \in Conns : LinkGoesMute(c)
  BY <1>38, ValueTypes DEF LinkGoesMute, ValueTypes
<1>39. CASE UNCHANGED vars
  BY <1>39, ValueTypes DEF ValueTypes, vars
<1> QED
  BY <1>1, <1>2, <1>3, <1>4, <1>5, <1>6, <1>7, <1>8, <1>9, <1>10, <1>11, <1>12, <1>13, <1>14, <1>15,
     <1>16, <1>17, <1>18, <1>19, <1>20, <1>21, <1>22, <1>23, <1>24, <1>25, <1>26, <1>27, <1>28,
     <1>29, <1>30, <1>31, <1>32, <1>33, <1>34, <1>35, <1>36, <1>37, <1>38, <1>39
  DEF Next, DriverStep, PingTick, StaleTick, HandleConnectionError, ReaderStep, StopStep, Environment

\* Every variable keeps to the values of its type, whatever the interleaving.
THEOREM TypeCorrect == Spec => []TypeOK
<1>1. FlagTypes /\ ValueTypes /\ [Next]_vars => (FlagTypes /\ ValueTypes)'
  BY FlagTypesStep, ValueTypesStep
<1> QED
  BY <1>1, TypeInit, TypeParts, PTL DEF Spec

-------------------------------------------------------------------------------
(* The reconnecting flag and the pending reconnection.  Both need to know what    *)
(* Start's first connect leaves behind, that a dialled connection is nobody       *)
(* else's, that a reader which reports has left its loop, and that a step of Stop  *)
(* implies the closed stopCh.                                                      *)

StartPhase ==
    ~maintaining =>
        /\ ~reconnecting /\ ~token
        /\ pc \notin {"begin", "finish", "idle", "backoff"}
        /\ \A p \in Procs : hce[p] = "none"
        /\ \A r \in Readers : rpc[r] = "off"
        /\ pc \in {"register", "wait", "await", "publish", "spawn"} /\ ~stopCh =>
               conn \in Conns /\ link[conn] # "closed"

FreshConnection ==
    pc = "install" => dconn \in Conns /\ dconn # conn /\ link[dconn] # "closed"

ReporterGone == \A r \in Readers : rpc[r] # "off" => hce[r] = "none"

StopSignalled == stopPc # "none" => stopCh

\* Until maintainConnection runs, nobody reports errors and nothing is torn down.
LEMMA StartPhaseStep ==
    ASSUME FlagTypes, ValueTypes, StartPhase, FreshConnection, StopSignalled, [Next]_vars
    PROVE  StartPhase'
<1> USE ConnectionAssumption DEF StartPhase, FlagTypes, ValueTypes, Idle, FreshConnection, StopSignalled
<1>1. CASE \E c \in Conns : Dial(c)
  BY <1>1 DEF Dial
<1>2. CASE DialFails
  BY <1>2 DEF DialFails, ConnectFails
<1>3. CASE Install
  BY <1>3 DEF Install
<1>4. CASE SendRegister
  BY <1>4 DEF SendRegister, Sendable, CanWrite
<1>5. CASE SendRegisterFails
  BY <1>5 DEF SendRegisterFails, Close, Down, ConnectFails
<1>6. CASE AwaitLoop
  BY <1>6 DEF AwaitLoop, Close, Down, ConnectFails
<1>7. CASE AwaitRead
  <2>1. CASE ConnectFails
    BY <2>1, <1>7 DEF AwaitRead, ConnectFails
  <2>2. CASE Consume(conn) /\ pc' \in {"publish", "wait"} /\ UNCHANGED <<workerVars, maintaining>>
    BY <2>2, <1>7 DEF AwaitRead, Consume
  <2> QED
    BY <2>1, <2>2, <1>7 DEF AwaitRead
<1>8. CASE AwaitFails
  BY <1>8 DEF AwaitFails, Close, Down, ConnectFails
<1>9. CASE Publish
  BY <1>9 DEF Publish
<1>10. CASE \E r \in Readers : SpawnReader(r)
  BY <1>10 DEF SpawnReader
<1>11. CASE BeginReconnect
  BY <1>11 DEF BeginReconnect, Close, Down
<1>12. CASE FinishReconnect
  BY <1>12 DEF FinishReconnect
<1>13. CASE Backoff
  BY <1>13 DEF Backoff
<1>14. CASE DriverExits
  BY <1>14 DEF DriverExits
<1>15. CASE PingTimesOut
  BY <1>15 DEF PingTimesOut, Procs
<1>16. CASE \E stale \in BOOLEAN : PingSends(stale)
  BY <1>16 DEF PingSends, Sendable, CanWrite, MayFailWrite, Procs
<1>17. CASE ReceiveToken
  BY <1>17 DEF ReceiveToken
<1>18. CASE \E p \in Procs : HceCas(p)
  BY <1>18 DEF HceCas
<1>19. CASE \E p \in Procs : HceTeardown(p)
  BY <1>19 DEF HceTeardown, Close, Down
<1>20. CASE \E p \in Procs : HceCancel(p)
  BY <1>20 DEF HceCancel, StopMessageHandler
<1>21. CASE \E p \in Procs : HceSignal(p)
  BY <1>21 DEF HceSignal
<1>22. CASE \E r \in Readers : ReaderSelect(r)
  BY <1>22 DEF ReaderSelect, ReaderLeaves
<1>23. CASE \E r \in Readers : ReaderLoad(r)
  BY <1>23 DEF ReaderLoad
<1>24. CASE \E r \in Readers : ReaderReads(r)
  BY <1>24 DEF ReaderReads, CanRead, Consume
<1>25. CASE \E r \in Readers : ReaderFails(r)
  BY <1>25 DEF ReaderFails, ReaderLeaves, Down
<1>26. CASE \E r \in Readers : ReaderReports(r)
  BY <1>26 DEF ReaderReports, ReaderLeaves
<1>27. CASE StopBegins
  BY <1>27 DEF StopBegins
<1>28. CASE StopCloses
  BY <1>28 DEF StopCloses, Close, Down
<1>29. CASE StopClosesLocked
  BY <1>29 DEF StopClosesLocked, Close, Down
<1>30. CASE \E c \in Conns : LinkFault(c)
  BY <1>30 DEF LinkFault, Down
<1>31. CASE \E c \in Conns : ServerCloses(c)
  BY <1>31 DEF ServerCloses
<1>32. CASE \E c \in Conns : LinkResets(c)
  BY <1>32 DEF LinkResets, Down
<1>33. CASE \E c \in Conns : LinkGoesMute(c)
  BY <1>33 DEF LinkGoesMute
<1>34. CASE UNCHANGED <<maintaining, reconnecting, token, pc, hce, rpc, stopCh, conn, link>>
  BY <1>34
<1> QED
  BY <1>1, <1>2, <1>3, <1>4, <1>5, <1>6, <1>7, <1>8, <1>9, <1>10, <1>11, <1>12, <1>13, <1>14, <1>15,
     <1>16, <1>17, <1>18, <1>19, <1>20, <1>21, <1>22, <1>23, <1>24, <1>25, <1>26, <1>27, <1>28,
     <1>29, <1>30, <1>31, <1>32, <1>33, <1>34
  DEF Next, DriverStep, PingTick, StaleTick, HandleConnectionError, ReaderStep, StopStep,
      Environment, vars, StopCancels, StopChecks, CancelContext, ServerReplies, ServerSendsJob

\* Between dialling and installing, nobody else knows the connection.
LEMMA FreshConnectionStep ==
    ASSUME FlagTypes, ValueTypes, FreshConnection, [Next]_vars
    PROVE  FreshConnection'
<1> USE ConnectionAssumption DEF FreshConnection, ValueTypes, Unreachable
<1>1. CASE \E c \in Conns : Dial(c)
  BY <1>1 DEF Dial
<1>2. CASE DialFails
  BY <1>2 DEF DialFails, ConnectFails
<1>3. CASE Install
  BY <1>3 DEF Install
<1>4. CASE SendRegister
  BY <1>4 DEF SendRegister, Sendable, CanWrite
<1>5. CASE SendRegisterFails
  BY <1>5 DEF SendRegisterFails, Close, Down, ConnectFails
<1>6. CASE AwaitLoop
  BY <1>6 DEF AwaitLoop, Close, Down, ConnectFails
<1>7. CASE AwaitRead
  BY <1>7 DEF AwaitRead, CanRead, Consume, Close, Down, ConnectFails, Message
<1>8. CASE AwaitFails
  BY <1>8 DEF AwaitFails, Close, Down, ConnectFails
<1>9. CASE Publish
  BY <1>9 DEF Publish
<1>10. CASE \E r \in Readers : SpawnReader(r)
  BY <1>10 DEF SpawnReader
<1>11. CASE BeginReconnect
  BY <1>11 DEF BeginReconnect, Close, Down
<1>12. CASE FinishReconnect
  BY <1>12 DEF FinishReconnect
<1>13. CASE Backoff
  BY <1>13 DEF Backoff
<1>14. CASE DriverExits
  BY <1>14 DEF DriverExits
<1>15. CASE ReceiveToken
  BY <1>15 DEF ReceiveToken
<1>16. CASE \E p \in Procs : HceTeardown(p)
  BY <1>16 DEF HceTeardown, Close, Down
<1>17. CASE \E r \in Readers : ReaderReads(r)
  BY <1>17 DEF ReaderReads, CanRead, Consume
<1>18. CASE \E r \in Readers : ReaderFails(r)
  BY <1>18 DEF ReaderFails, ReaderLeaves, Down
<1>19. CASE StopCloses
  BY <1>19 DEF StopCloses, Close, Down
<1>20. CASE StopClosesLocked
  BY <1>20 DEF StopClosesLocked, Close, Down
<1>21. CASE \E c \in Conns : LinkFault(c)
  BY <1>21 DEF LinkFault, Down
<1>22. CASE \E c \in Conns : ServerCloses(c)
  BY <1>22 DEF ServerCloses
<1>23. CASE \E c \in Conns : LinkResets(c)
  BY <1>23 DEF LinkResets, Down
<1>24. CASE \E c \in Conns : LinkGoesMute(c)
  BY <1>24 DEF LinkGoesMute
<1>25. CASE UNCHANGED <<pc, dconn, conn, link>>
  BY <1>25
<1> QED
  BY <1>1, <1>2, <1>3, <1>4, <1>5, <1>6, <1>7, <1>8, <1>9, <1>10, <1>11, <1>12, <1>13, <1>14, <1>15,
     <1>16, <1>17, <1>18, <1>19, <1>20, <1>21, <1>22, <1>23, <1>24, <1>25
  DEF Next, DriverStep, PingTick, StaleTick, HandleConnectionError, ReaderStep, StopStep,
      Environment, vars, PingTimesOut, PingSends, HceCas, HceCancel, HceSignal, ReaderSelect,
      ReaderLeaves, ReaderLoad, ReaderReports, StopBegins, StopCancels, StopChecks, CancelContext,
      ServerReplies, ServerSendsJob

\* Stop closes stopCh first.
LEMMA StopSignalledStep ==
    ASSUME FlagTypes, ValueTypes, StopSignalled, [Next]_vars
    PROVE  StopSignalled'
<1> USE ConnectionAssumption DEF StopSignalled
<1>1. CASE StopBegins
  BY <1>1 DEF StopBegins
<1>2. CASE StopCancels
  BY <1>2 DEF StopCancels, StopMessageHandler
<1>3. CASE StopChecks
  BY <1>3 DEF StopChecks
<1>4. CASE StopCloses
  BY <1>4 DEF StopCloses, Close, Down
<1>5. CASE StopClosesLocked
  BY <1>5 DEF StopClosesLocked, Close, Down
<1>6. CASE UNCHANGED <<stopPc, stopCh>>
  BY <1>6
<1> QED
  BY <1>1, <1>2, <1>3, <1>4, <1>5, <1>6
  DEF Next, DriverStep, PingTick, StaleTick, HandleConnectionError, ReaderStep, StopStep,
      Environment, vars, Dial, DialFails, ConnectFails, Install, SendRegister, SendRegisterFails,
      Close, Down, AwaitLoop, AwaitRead, Consume, AwaitFails, Publish, SpawnReader, BeginReconnect,
      FinishReconnect, Backoff, DriverExits, PingTimesOut, PingSends, ReceiveToken, HceCas,
      HceTeardown, HceCancel, HceSignal, ReaderSelect, ReaderLeaves, ReaderLoad, ReaderReads,
      ReaderFails, ReaderReports, CancelContext, ServerReplies, ServerSendsJob, LinkFault,
      ServerCloses, LinkResets, LinkGoesMute

\* A goroutine reports its error after it has left handleMessages.
LEMMA ReporterGoneStep ==
    ASSUME FlagTypes, ValueTypes, ReporterGone, [Next]_vars
    PROVE  ReporterGone'
<1> USE ConnectionAssumption DEF ReporterGone, ValueTypes, Idle
<1>1. CASE \E r \in Readers : SpawnReader(r)
  BY <1>1 DEF SpawnReader
<1>2. CASE PingTimesOut
  BY <1>2 DEF PingTimesOut, Procs
<1>3. CASE \E stale \in BOOLEAN : PingSends(stale)
  BY <1>3 DEF PingSends, Sendable, CanWrite, MayFailWrite, Procs
<1>4. CASE \E p \in Procs : HceCas(p)
  BY <1>4 DEF HceCas
<1>5. CASE \E p \in Procs : HceTeardown(p)
  BY <1>5 DEF HceTeardown, Close, Down
<1>6. CASE \E p \in Procs : HceCancel(p)
  BY <1>6 DEF HceCancel, StopMessageHandler
<1>7. CASE \E p \in Procs : HceSignal(p)
  BY <1>7 DEF HceSignal
<1>8. CASE \E r \in Readers : ReaderSelect(r)
  BY <1>8 DEF ReaderSelect, ReaderLeaves
<1>9. CASE \E r \in Readers : ReaderLoad(r)
  BY <1>9 DEF ReaderLoad
<1>10. CASE \E r \in Readers : ReaderReads(r)
  BY <1>10 DEF ReaderReads, CanRead, Consume
<1>11. CASE \E r \in Readers : ReaderFails(r)
  BY <1>11 DEF ReaderFails, ReaderLeaves, Down
<1>12. CASE \E r \in Readers : ReaderReports(r)
  BY <1>12 DEF ReaderReports, ReaderLeaves
<1>13. CASE UNCHANGED <<rpc, hce>>
  BY <1>13
<1> QED
  BY <1>1, <1>2, <1>3, <1>4, <1>5, <1>6, <1>7, <1>8, <1>9, <1>10, <1>11, <1>12, <1>13
  DEF Next, DriverStep, PingTick, StaleTick, HandleConnectionError, ReaderStep, StopStep,
      Environment, vars, Dial, DialFails, ConnectFails, Install, SendRegister, SendRegisterFails,
      Close, Down, AwaitLoop, AwaitRead, Consume, AwaitFails, Publish, BeginReconnect,
      FinishReconnect, Backoff, DriverExits, ReceiveToken, StopBegins, StopCancels, StopChecks,
      StopCloses, StopClosesLocked, CancelContext, ServerReplies, ServerSendsJob, LinkFault,
      ServerCloses, LinkResets, LinkGoesMute

\* No step leaves the flag set with nobody bound to release it.
LEMMA FlagBackedStep ==
    ASSUME FlagTypes, ValueTypes, StartPhase, ReporterGone, FlagBacked, [Next]_vars
    PROVE  FlagBacked'
<1> USE ConnectionAssumption DEF ReporterGone, FlagBacked, InReconnect, StartPhase, ValueTypes, Idle
<1>1. CASE \E c \in Conns : Dial(c)
  BY <1>1 DEF Dial
<1>2. CASE DialFails
  BY <1>2 DEF DialFails, ConnectFails
<1>3. CASE Install
  BY <1>3 DEF Install
<1>4. CASE SendRegister
  BY <1>4 DEF SendRegister, Sendable, CanWrite
<1>5. CASE SendRegisterFails
  BY <1>5 DEF SendRegisterFails, Close, Down, ConnectFails
<1>6. CASE AwaitLoop
  BY <1>6 DEF AwaitLoop, Close, Down, ConnectFails
<1>7. CASE AwaitRead
  BY <1>7 DEF AwaitRead, CanRead, Consume, Close, Down, ConnectFails, Message
<1>8. CASE AwaitFails
  BY <1>8 DEF AwaitFails, Close, Down, ConnectFails
<1>9. CASE Publish
  BY <1>9 DEF Publish
<1>10. CASE \E r \in Readers : SpawnReader(r)
  BY <1>10 DEF SpawnReader
<1>11. CASE BeginReconnect
  BY <1>11 DEF BeginReconnect, Close, Down
<1>12. CASE FinishReconnect
  BY <1>12 DEF FinishReconnect
<1>13. CASE Backoff
  BY <1>13 DEF Backoff
<1>14. CASE DriverExits
  BY <1>14 DEF DriverExits
<1>15. CASE PingTimesOut
  BY <1>15 DEF PingTimesOut, Procs
<1>16. CASE \E stale \in BOOLEAN : PingSends(stale)
  BY <1>16 DEF PingSends, Sendable, CanWrite, MayFailWrite, Procs
<1>17. CASE ReceiveToken
  BY <1>17 DEF ReceiveToken
<1>18. CASE \E p \in Procs : HceCas(p)
  BY <1>18 DEF HceCas
<1>19. CASE \E p \in Procs : HceTeardown(p)
  BY <1>19 DEF HceTeardown, Close, Down
<1>20. CASE \E p \in Procs : HceCancel(p)
  BY <1>20 DEF HceCancel, StopMessageHandler
<1>21. CASE \E p \in Procs : HceSignal(p)
  BY <1>21 DEF HceSignal
<1>22. CASE \E r \in Readers : ReaderReports(r)
  BY <1>22, SMTT(30) DEF ReaderReports, ReaderLeaves
<1>23. CASE UNCHANGED <<maintaining, pc, reconnecting, token, hce>>
  BY <1>23
<1> QED
  BY <1>1, <1>2, <1>3, <1>4, <1>5, <1>6, <1>7, <1>8, <1>9, <1>10, <1>11, <1>12, <1>13, <1>14, <1>15,
     <1>16, <1>17, <1>18, <1>19, <1>20, <1>21, <1>22, <1>23
  DEF Next, DriverStep, PingTick, StaleTick, HandleConnectionError, ReaderStep, StopStep,
      Environment, vars, ReaderSelect, ReaderLeaves, ReaderLoad, ReaderReads, Consume, ReaderFails,
      Down, StopBegins, StopCancels, StopChecks, StopCloses, Close, StopClosesLocked, CancelContext,
      ServerReplies, ServerSendsJob, LinkFault, ServerCloses, LinkResets, LinkGoesMute

\* No step leaves the worker without a connection and without a reconnection.
LEMMA RecoveryPendingStep ==
    ASSUME FlagTypes, ValueTypes, StartPhase, FreshConnection, StopSignalled, ReporterGone, RecoveryPending, [Next]_vars
    PROVE  RecoveryPending'
<1> USE ConnectionAssumption DEF ReporterGone, RecoveryPending, StartPhase, FreshConnection, StopSignalled, ValueTypes, Idle
<1>1. CASE \E c \in Conns : Dial(c)
  BY <1>1 DEF Dial
<1>2. CASE DialFails
  BY <1>2 DEF DialFails, ConnectFails
<1>3. CASE Install
  BY <1>3 DEF Install
<1>4. CASE SendRegister
  BY <1>4 DEF SendRegister, Sendable, CanWrite
<1>5. CASE SendRegisterFails
  BY <1>5 DEF SendRegisterFails, Close, Down, ConnectFails
<1>6. CASE AwaitLoop
  BY <1>6 DEF AwaitLoop, Close, Down, ConnectFails
<1>7. CASE AwaitRead
  BY <1>7 DEF AwaitRead, CanRead, Consume, Close, Down, ConnectFails, Message
<1>8. CASE AwaitFails
  BY <1>8 DEF AwaitFails, Close, Down, ConnectFails
<1>9. CASE Publish
  BY <1>9 DEF Publish
<1>10. CASE \E r \in Readers : SpawnReader(r)
  BY <1>10 DEF SpawnReader
<1>11. CASE BeginReconnect
  BY <1>11 DEF BeginReconnect, Close, Down
<1>12. CASE FinishReconnect
  BY <1>12 DEF FinishReconnect
<1>13. CASE Backoff
  BY <1>13 DEF Backoff
<1>14. CASE DriverExits
  BY <1>14 DEF DriverExits
<1>15. CASE PingTimesOut
  BY <1>15 DEF PingTimesOut, Procs
<1>16. CASE \E stale \in BOOLEAN : PingSends(stale)
  BY <1>16 DEF PingSends, Sendable, CanWrite, MayFailWrite, Procs
<1>17. CASE ReceiveToken
  BY <1>17 DEF ReceiveToken
<1>18. CASE \E p \in Procs : HceCas(p)
  BY <1>18 DEF HceCas
<1>19. CASE \E p \in Procs : HceTeardown(p)
  BY <1>19 DEF HceTeardown, Close, Down
<1>20. CASE \E p \in Procs : HceCancel(p)
  BY <1>20 DEF HceCancel, StopMessageHandler
<1>21. CASE \E p \in Procs : HceSignal(p)
  BY <1>21 DEF HceSignal
<1>22. CASE \E r \in Readers : ReaderReads(r)
  BY <1>22 DEF ReaderReads, CanRead, Consume
<1>23. CASE \E r \in Readers : ReaderFails(r)
  BY <1>23 DEF ReaderFails, ReaderLeaves, Down
<1>24. CASE \E r \in Readers : ReaderReports(r)
  BY <1>24 DEF ReaderReports, ReaderLeaves
<1>25. CASE StopBegins
  BY <1>25 DEF StopBegins
<1>26. CASE StopCloses
  BY <1>26 DEF StopCloses, Close, Down
<1>27. CASE StopClosesLocked
  BY <1>27 DEF StopClosesLocked, Close, Down
<1>28. CASE \E c \in Conns : LinkFault(c)
  BY <1>28 DEF LinkFault, Down
<1>29. CASE \E c \in Conns : ServerCloses(c)
  BY <1>29 DEF ServerCloses
<1>30. CASE \E c \in Conns : LinkResets(c)
  BY <1>30 DEF LinkResets, Down
<1>31. CASE \E c \in Conns : LinkGoesMute(c)
  BY <1>31 DEF LinkGoesMute
<1>32. CASE UNCHANGED <<maintaining, pc, stopCh, conn, link, token, hce>>
  BY <1>32
<1> QED
  BY <1>1, <1>2, <1>3, <1>4, <1>5, <1>6, <1>7, <1>8, <1>9, <1>10, <1>11, <1>12, <1>13, <1>14, <1>15,
     <1>16, <1>17, <1>18, <1>19, <1>20, <1>21, <1>22, <1>23, <1>24, <1>25, <1>26, <1>27, <1>28,
     <1>29, <1>30, <1>31, <1>32
  DEF Next, DriverStep, PingTick, StaleTick, HandleConnectionError, ReaderStep, StopStep,
      Environment, vars, ReaderSelect, ReaderLeaves, ReaderLoad, StopCancels, StopChecks,
      CancelContext, ServerReplies, ServerSendsJob

IInv ==
    /\ FlagTypes /\ ValueTypes
    /\ StartPhase /\ FreshConnection /\ ReporterGone /\ StopSignalled
    /\ FlagBacked /\ RecoveryPending

LEMMA IInvInit == Init => IInv
<1> SUFFICES ASSUME Init PROVE IInv
  OBVIOUS
<1>1. StartPhase /\ FreshConnection /\ ReporterGone /\ StopSignalled
  BY DEF Init, StartPhase, FreshConnection, ReporterGone, StopSignalled
<1>2. FlagBacked /\ RecoveryPending
  BY DEF Init, FlagBacked, RecoveryPending
<1> QED
  BY <1>1, <1>2, TypeInit DEF IInv

LEMMA IInvStep == IInv /\ [Next]_vars => IInv'
BY FlagTypesStep, ValueTypesStep, StartPhaseStep, FreshConnectionStep, ReporterGoneStep,
   StopSignalledStep, FlagBackedStep, RecoveryPendingStep DEF IInv

\* The reconnecting flag always has somebody bound to release it: no interleaving of
\* error reports, reconnections and Stop leaves it set for good while the maintenance
\* loop runs.
THEOREM FlagAlwaysBacked == Spec => []FlagBacked
<1>1. IInv => FlagBacked
  BY DEF IInv
<1> QED
  BY <1>1, IInvInit, IInvStep, PTL DEF Spec

\* A worker that lost its connection always has a reconnection under way or requested,
\* until it is stopped.
THEOREM RecoveryAlwaysPending == Spec => []RecoveryPending
<1>1. IInv => RecoveryPending
  BY DEF IInv
<1> QED
  BY <1>1, IInvInit, IInvStep, PTL DEF Spec
===============================================================================
