---------------------------- MODULE StatusDelivery ----------------------------
(***************************************************************************)
(* How a job status reaches the server.  updateJobStatus, called by many   *)
(* goroutines, sends it; an update that could not be sent is appended to   *)
(* statusQueue, and statusQueueChan is signalled.  One goroutine,          *)
(* handleStatusUpdateRetries, takes the whole queue on every signal and on *)
(* every tick of a second, and sends each update again, three times at     *)
(* most.                                                                   *)
(*                                                                         *)
(* The race protector that updateJobStatus asks first never queues an      *)
(* update: nothing marks it as reconnecting.                               *)
(***************************************************************************)
EXTENDS ServerLink, Sequences, Functions

CONSTANTS
    Updates,        \* calls of updateJobStatus, each with its status
    MaxRetries,     \* 3 in processStatusQueue
    TokenLimit      \* the capacity of statusQueueChan

ASSUME StatusAssumption == MaxRetries \in Nat /\ TokenLimit \in Nat \ {0}

VARIABLES
    caller,         \* where each call of updateJobStatus is
    statusQueue,    \* w.statusQueue
    retryCount,     \* the retryCount of each update
    tokens,         \* what w.statusQueueChan holds
    retrier,        \* where handleStatusUpdateRetries is
    batch,          \* what is left of the local queue of processStatusQueue
    sent,           \* updates written to a connection
    dropped,        \* updates given up
    failures,       \* history: failed sends of each update
    failedOn        \* history: connections made at the first failure of each update

statusVars == <<caller, statusQueue, retryCount, tokens, retrier, batch, sent, dropped,
                failures, failedOn>>

CallerPc == {"idle", "send", "append", "announce", "done"}
RetrierPc == {"select", "take", "each", "requeue", "announce", "off"}

StatusTypeOK ==
    /\ LinkTypeOK
    /\ caller \in [Updates -> CallerPc]
    /\ statusQueue \in Seq(Updates)
    /\ retryCount \in [Updates -> 0..MaxRetries]
    /\ tokens \in 0..TokenLimit
    /\ retrier \in RetrierPc
    /\ batch \in Seq(Updates)
    /\ sent \subseteq Updates /\ dropped \subseteq Updates
    /\ failures \in [Updates -> Nat]
    /\ failedOn \in [Updates -> Nat]

StatusInit ==
    /\ caller = [u \in Updates |-> "idle"]
    /\ statusQueue = <<>>
    /\ retryCount = [u \in Updates |-> 0]
    /\ tokens = 0
    /\ retrier = "select"
    /\ batch = <<>>
    /\ sent = {} /\ dropped = {}
    /\ failures = [u \in Updates |-> 0]
    /\ failedOn = [u \in Updates |-> 0]

-------------------------------------------------------------------------------
\* sendMessage. A connection that breaks makes writes fail before it is torn down.
SendSucceeds(u) ==
    /\ online
    /\ sent' = sent \cup {u}
    /\ UNCHANGED <<failures, failedOn>>

SendFails(u) ==
    /\ failures' = [failures EXCEPT ![u] = @ + 1]
    /\ failedOn' = [failedOn EXCEPT ![u] = IF failures[u] = 0 THEN connections ELSE @]
    /\ UNCHANGED sent

\* Mutation of AppendUpdate: the update replaces the queue.
AppendUpdateAlone(u) == statusQueue' = <<u>>

\* queueStatusUpdate: the append is under w.mu, the signal comes after it.
AppendUpdate(u) == statusQueue' = Append(statusQueue, u)

\* Mutation of Announce: no signal is sent while the retry goroutine works.
AnnounceWhenIdle ==
    tokens' = IF retrier = "select" /\ tokens < TokenLimit THEN tokens + 1 ELSE tokens

Announce == tokens' = IF tokens < TokenLimit THEN tokens + 1 ELSE tokens

-------------------------------------------------------------------------------
(* updateJobStatus(). *)

CallerGoes(u, from, to) == caller[u] = from /\ caller' = [caller EXCEPT ![u] = to]

UpdateBegins(u) ==
    /\ CallerGoes(u, "idle", "send")
    /\ UNCHANGED <<statusQueue, retryCount, tokens, retrier, batch, sent, dropped, failures,
                   failedOn>>

UpdateSends(u) ==
    /\ \/ CallerGoes(u, "send", "done") /\ SendSucceeds(u)
       \/ CallerGoes(u, "send", "append") /\ SendFails(u)
    /\ UNCHANGED <<statusQueue, retryCount, tokens, retrier, batch, dropped>>

UpdateQueues(u) ==
    /\ CallerGoes(u, "append", "announce")
    /\ AppendUpdate(u)
    /\ UNCHANGED <<retryCount, tokens, retrier, batch, sent, dropped, failures, failedOn>>

UpdateAnnounces(u) ==
    /\ CallerGoes(u, "announce", "done")
    /\ Announce
    /\ UNCHANGED <<statusQueue, retryCount, retrier, batch, sent, dropped, failures, failedOn>>

-------------------------------------------------------------------------------
(* handleStatusUpdateRetries() and processStatusQueue(). *)

RetrierGoes(from, to) == retrier = from /\ retrier' = to

\* The select: a signal, the tick of the second, or the closed stopCh.
RetrierWakes ==
    /\ RetrierGoes("select", "take")
    /\ tokens > 0
    /\ tokens' = tokens - 1
    /\ UNCHANGED <<caller, statusQueue, retryCount, batch, sent, dropped, failures, failedOn>>

RetrierTicks ==
    /\ RetrierGoes("select", "take")
    /\ UNCHANGED <<caller, statusQueue, retryCount, tokens, batch, sent, dropped, failures,
                   failedOn>>

RetrierStops ==
    /\ RetrierGoes("select", "off")
    /\ stopper # "running"
    /\ UNCHANGED <<caller, statusQueue, retryCount, tokens, batch, sent, dropped, failures,
                   failedOn>>

\* Mutation of TakeQueue: the queue taken is not reset.
TakeQueueKeeping ==
    /\ RetrierGoes("take", "each")
    /\ batch' = statusQueue
    /\ UNCHANGED <<caller, statusQueue, retryCount, tokens, sent, dropped, failures, failedOn>>

TakeQueue ==
    /\ RetrierGoes("take", "each")
    /\ batch' = statusQueue
    /\ statusQueue' = <<>>
    /\ UNCHANGED <<caller, retryCount, tokens, sent, dropped, failures, failedOn>>

RetriesEnd ==
    /\ batch = <<>>
    /\ RetrierGoes("each", "select")
    /\ UNCHANGED <<caller, statusQueue, retryCount, tokens, batch, sent, dropped, failures,
                   failedOn>>

\* Mutation of MaxRetriesExceeded: one retry too few.
GivesUpEarly(u) == retryCount[u] >= MaxRetries - 1

MaxRetriesExceeded(u) == retryCount[u] >= MaxRetries

GiveUp ==
    /\ retrier = "each" /\ batch # <<>>
    /\ MaxRetriesExceeded(Head(batch))
    /\ dropped' = dropped \cup {Head(batch)}
    /\ batch' = Tail(batch)
    /\ UNCHANGED <<caller, statusQueue, retryCount, tokens, retrier, sent, failures, failedOn>>

\* The update is requeued with its count raised.
CountRetry(u) == retryCount' = [retryCount EXCEPT ![u] = @ + 1]

Retry ==
    /\ retrier = "each" /\ batch # <<>>
    /\ ~MaxRetriesExceeded(Head(batch))
    /\ \/ SendSucceeds(Head(batch)) /\ batch' = Tail(batch) /\ UNCHANGED <<retrier, retryCount>>
       \/ SendFails(Head(batch)) /\ RetrierGoes("each", "requeue") /\ CountRetry(Head(batch))
          /\ UNCHANGED batch
    /\ UNCHANGED <<caller, statusQueue, tokens, dropped>>

Requeue ==
    /\ RetrierGoes("requeue", "announce")
    /\ AppendUpdate(Head(batch))
    /\ batch' = Tail(batch)
    /\ UNCHANGED <<caller, retryCount, tokens, sent, dropped, failures, failedOn>>

RequeueAnnounces ==
    /\ RetrierGoes("announce", "each")
    /\ Announce
    /\ UNCHANGED <<caller, statusQueue, retryCount, batch, sent, dropped, failures, failedOn>>

-------------------------------------------------------------------------------
UpdateStep(u) == UpdateSends(u) \/ UpdateQueues(u) \/ UpdateAnnounces(u)

Retrier ==
    \/ RetrierWakes \/ RetrierTicks \/ RetrierStops \/ TakeQueue \/ RetriesEnd \/ GiveUp
    \/ Retry \/ Requeue \/ RequeueAnnounces

StatusNext == Retrier \/ \E u \in Updates : UpdateBegins(u) \/ UpdateStep(u)

StatusSpec ==
    /\ LinkInit /\ StatusInit
    /\ [][\/ StatusNext /\ UNCHANGED linkVars
          \/ LinkNext /\ UNCHANGED statusVars]_<<linkVars, statusVars>>

-------------------------------------------------------------------------------
(* Properties. *)

Place == {"hand", "queue", "batch", "sent", "dropped"}

At(u, p) ==
    \/ p = "hand" /\ caller[u] \in {"idle", "send", "append"}
    \/ p = "queue" /\ u \in Range(statusQueue)
    \/ p = "batch" /\ u \in Range(batch)
    \/ p = "sent" /\ u \in sent
    \/ p = "dropped" /\ u \in dropped

\* However the appends of many goroutines interleave with the retry goroutine taking the
\* queue and putting updates back, each update is in exactly one place, once: none is lost
\* without being given up, none is sent twice, none is given up after it was sent.
EachUpdateOnce ==
    /\ \A u \in Updates : \E p \in Place : \A q \in Place : At(u, q) <=> q = p
    /\ IsInjective(statusQueue) /\ IsInjective(batch)

\* An update is given up only after its first send and all its retries have failed.
GivenUpAfterRetries == \A u \in dropped : failures[u] = MaxRetries + 1

\* A queued update does not depend on the tick: while the retry goroutine waits, and
\* nobody is between its append and its signal, there is a signal for it.
QueueAnnounced ==
    statusQueue # <<>> /\ retrier = "select" /\ (\A u \in Updates : caller[u] # "announce")
        => tokens > 0

\* Under the fairness of the scheduler every update is sent or given up, unless the
\* worker stops.
UpdateSettles ==
    \A u \in Updates :
        caller[u] = "send" ~> u \in sent \cup dropped \/ stopper # "running"

\* updateJobStatus is to "queue this update during reconnection": an update is not given
\* up before it was tried on a later connection than the one it failed on.
StatusSurvivesReconnection == \A u \in dropped : connections > failedOn[u]
===============================================================================
