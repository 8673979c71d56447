---------------------------- MODULE NetworkHandler ----------------------------
(***************************************************************************)
(* NetworkHandler: one place all writes to the connection go through, one  *)
(* at a time, which keeps a message whose write ended in a temporary error *)
(* and writes it in place of the next one; DNS lookups with retries; and   *)
(* NetworkMonitor, which polls it for a partition.                         *)
(*                                                                         *)
(* The connection is any WebSocketConn: how a write ends is its choice.    *)
(***************************************************************************)
EXTENDS Naturals, Sequences

CONSTANTS
    MessageTypes,   \* WebSocket message types
    Resolvers,      \* goroutines that resolve a host
    MaxWrites,      \* bound on the calls of WriteMessageWithRetry
    MaxDNSRetries   \* n.maxDNSRetries

ASSUME NetworkAssumption == MaxWrites \in Nat /\ MaxDNSRetries \in Nat \ {0}

VARIABLES
    msgs,           \* the type of each message given to WriteMessageWithRetry, in order
    written,        \* the messages a connection took, in order
    nilReturned,    \* the calls that returned nil
    partialWrite,   \* the number of the message in n.partialWriteBuffer, or 0
    partitioned,    \* n.networkPartitionDetected
    inactive,       \* partitionTimeout has passed since n.lastNetworkActivity
    resolving,      \* retries of each lookup under way, and whether it is one
    dnsFailures,    \* n.dnsFailureCount, counted to MaxWrites
    monitor,        \* the goroutine of NetworkMonitor
    monitorStop     \* where Stop of the monitor has got to

networkVars ==
    <<msgs, written, nilReturned, partialWrite, partitioned, inactive, resolving, dnsFailures,
      monitor, monitorStop>>

NetworkTypeOK ==
    /\ msgs \in Seq(MessageTypes)
    /\ written \in Seq(1..Len(msgs))
    /\ nilReturned \subseteq 1..Len(msgs)
    /\ partialWrite \in 0..Len(msgs)
    /\ partitioned \in BOOLEAN /\ inactive \in BOOLEAN
    /\ resolving \in [Resolvers -> [active : BOOLEAN, retries : 0..MaxDNSRetries]]
    /\ dnsFailures \in 0..MaxWrites
    /\ monitor \in {"none", "waiting", "calling", "ended"}
    /\ monitorStop \in {"not called", "waiting", "returned"}

NetworkInit ==
    /\ msgs = <<>> /\ written = <<>> /\ nilReturned = {}
    /\ partialWrite = 0
    /\ partitioned = FALSE /\ inactive = FALSE
    /\ resolving = [r \in Resolvers |-> [active |-> FALSE, retries |-> 0]]
    /\ dnsFailures = 0
    /\ monitor = "none" /\ monitorStop = "not called"

writeVars == <<msgs, written, nilReturned, partialWrite>>
dnsVars == <<resolving, dnsFailures>>
netMonitorVars == <<monitor, monitorStop>>

-------------------------------------------------------------------------------
(* WriteMessageWithRetry: what is kept goes first if it has the type of    *)
(* the message, and is dropped otherwise.                                  *)

KeptFor(type) == IF partialWrite # 0 /\ msgs[partialWrite] = type THEN partialWrite ELSE 0

\* The message this call writes: the one kept, or its own.
MessageOf(type) == IF KeptFor(type) # 0 THEN KeptFor(type) ELSE Len(msgs) + 1

\* Mutation of AfterWrite: the buffer keeps a message that was written.
AfterWriteKept(m) == m

\* What clearPartialWrite() leaves of the message written.
AfterWrite(m) == 0

Hand(type) ==
    /\ Len(msgs) < MaxWrites
    /\ msgs' = Append(msgs, type)

WriteSucceeds(type) ==
    /\ Hand(type)
    /\ written' = Append(written, MessageOf(type))
    /\ nilReturned' = nilReturned \cup {Len(msgs) + 1}
    /\ partialWrite' = AfterWrite(MessageOf(type))
    /\ partitioned' = FALSE /\ inactive' = FALSE
    /\ UNCHANGED <<dnsVars, netMonitorVars>>

\* A temporary error keeps the message for the next call.
WriteTemporaryError(type) ==
    /\ Hand(type)
    /\ partialWrite' = MessageOf(type)
    /\ UNCHANGED <<written, nilReturned, partitioned, inactive, dnsVars, netMonitorVars>>

\* Any other error, of the deadline too, leaves what was kept; one of the network is noted.
WriteFails(type) ==
    /\ Hand(type)
    /\ partialWrite' = KeptFor(type)
    /\ partitioned' \in {partitioned, TRUE}
    /\ UNCHANGED <<written, nilReturned, inactive, dnsVars, netMonitorVars>>

-------------------------------------------------------------------------------
(* Partitions.                                                               *)

ActivityAges ==
    /\ ~inactive /\ inactive' = TRUE
    /\ UNCHANGED <<writeVars, partitioned, dnsVars, netMonitorVars>>

UpdateNetworkActivity ==
    /\ inactive' = FALSE /\ partitioned' = FALSE
    /\ UNCHANGED <<writeVars, dnsVars, netMonitorVars>>

SetNetworkPartition(detected) ==
    /\ partitioned' = detected
    /\ UNCHANGED <<writeVars, inactive, dnsVars, netMonitorVars>>

DetectNetworkPartition == partitioned \/ inactive

-------------------------------------------------------------------------------
(* ResolveDNSWithRetry.                                                      *)

ResolveBegins(r) ==
    /\ ~resolving[r].active
    /\ resolving' = [resolving EXCEPT ![r] = [active |-> TRUE, retries |-> 0]]
    /\ UNCHANGED <<writeVars, partitioned, inactive, dnsFailures, netMonitorVars>>

Resolved(r) == resolving' = [resolving EXCEPT ![r] = [active |-> FALSE, retries |-> 0]]

LookupSucceeds(r) ==
    /\ resolving[r].active
    /\ Resolved(r)
    /\ dnsFailures' = 0
    /\ UNCHANGED <<writeVars, partitioned, inactive, netMonitorVars>>

\* A host that is not found, and the last retry, end it; the wait before the next is cut
\* short by the context.
LookupFails(r) ==
    /\ resolving[r].active
    /\ dnsFailures' = IF dnsFailures < MaxWrites THEN dnsFailures + 1 ELSE dnsFailures
    /\ \/ Resolved(r)
       \/ /\ resolving[r].retries + 1 < MaxDNSRetries
          /\ resolving' = [resolving EXCEPT ![r].retries = @ + 1]
    /\ UNCHANGED <<writeVars, partitioned, inactive, netMonitorVars>>

ResolveCancelled(r) ==
    /\ resolving[r].active
    /\ Resolved(r)
    /\ UNCHANGED <<writeVars, partitioned, inactive, dnsFailures, netMonitorVars>>

-------------------------------------------------------------------------------
(* NetworkMonitor.                                                           *)

MonitorStarts ==
    /\ monitor = "none" /\ monitorStop = "not called"
    /\ monitor' = "waiting"
    /\ UNCHANGED <<writeVars, partitioned, inactive, dnsVars, monitorStop>>

\* The ticker and stopChan are both ready: select takes either.
MonitorTicks ==
    /\ monitor = "waiting"
    /\ DetectNetworkPartition
    /\ monitor' = "calling"
    /\ UNCHANGED <<writeVars, partitioned, inactive, dnsVars, monitorStop>>

PartitionCallbackReturns ==
    /\ monitor = "calling"
    /\ monitor' = "waiting"
    /\ UNCHANGED <<writeVars, partitioned, inactive, dnsVars, monitorStop>>

MonitorEnds ==
    /\ monitor = "waiting" /\ monitorStop # "not called"
    /\ monitor' = "ended"
    /\ UNCHANGED <<writeVars, partitioned, inactive, dnsVars, monitorStop>>

MonitorStopBegins ==
    /\ monitorStop = "not called"
    /\ monitorStop' = "waiting"
    /\ UNCHANGED <<writeVars, partitioned, inactive, dnsVars, monitor>>

\* Mutation of MonitorDone: Stop does not wait for the goroutine.
MonitorSignalled == TRUE

\* What m.wg.Wait() waits for.
MonitorDone == monitor \in {"none", "ended"}

MonitorStopReturns ==
    /\ monitorStop = "waiting" /\ MonitorDone
    /\ monitorStop' = "returned"
    /\ UNCHANGED <<writeVars, partitioned, inactive, dnsVars, monitor>>

NetworkNext ==
    \/ \E type \in MessageTypes :
        WriteSucceeds(type) \/ WriteTemporaryError(type) \/ WriteFails(type)
    \/ \E detected \in BOOLEAN : SetNetworkPartition(detected)
    \/ ActivityAges \/ UpdateNetworkActivity
    \/ \E r \in Resolvers :
        ResolveBegins(r) \/ LookupSucceeds(r) \/ LookupFails(r) \/ ResolveCancelled(r)
    \/ MonitorStarts \/ MonitorTicks \/ PartitionCallbackReturns \/ MonitorEnds
    \/ MonitorStopBegins \/ MonitorStopReturns

NetworkSpec == NetworkInit /\ [][NetworkNext]_networkVars

-------------------------------------------------------------------------------
(* Properties.                                                               *)

\* Over failures of every kind and messages of several types, no message is written twice,
\* and what is written of one type goes out in the order it was handed over.
WrittenOnceInOrder ==
    \A i, k \in 1..Len(written) :
        i < k => /\ written[i] # written[k]
                 /\ msgs[written[i]] = msgs[written[k]] => written[i] < written[k]

\* After Stop of the monitor has returned, the callback does not run.
NoCallbackAfterStop == monitorStop = "returned" => monitor # "calling"
===============================================================================
