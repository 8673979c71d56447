---------------------------- MODULE ReportingProofs ----------------------------
(***************************************************************************)
(* Of the ways a worker reports to the server, for any number of updates,  *)
(* retries, connections and loads: a queued status update is announced to  *)
(* the retry goroutine, it is in one place at a time and is given up only  *)
(* after all its retries; the load batcher never loses the latest load; a  *)
(* termination is run once; a saved job is not forgotten before it was     *)
(* tried often enough; no kept message is written twice or overtaken, and  *)
(* nobody is called after Stop.  Processors are put back, hooks run in the *)
(* order of their priorities, fragments keep theirs, and whoever stops a   *)
(* worker returns when all of it has stopped.  A deadline moves by as      *)
(* much as the offset of the clock changed since it was set; the limit on  *)
(* events counts exactly those within its window, unknown messages are     *)
(* counted alike by type and in all, and a predicted load follows the      *)
(* trend within its bounds.  All of these hold together, and the monitor's *)
(* search finds a cycle of dependencies exactly when there is one.         *)
(***************************************************************************)
EXTENDS MCReporting, SharedLemmas

\* QueueAnnounced looks at the retry goroutine while it waits. It goes to wait from its loop,
\* so what holds there must hold in the loop too, from the moment the queue was taken.
AnnouncedThroughout ==
    /\ tokens \in Nat
    /\ statusQueue # <<>> /\ retrier \in {"select", "each", "requeue"}
       /\ (\A u \in Updates : caller[u] # "announce")
           => tokens > 0
    /\ caller \in [Updates -> CallerPc]

LEMMA AnnounceLeavesToken ==
  ASSUME tokens \in Nat, Announce
  PROVE  tokens' \in Nat /\ tokens' > 0
  BY StatusAssumption DEF Announce

\* A call of updateJobStatus keeps it.
LEMMA UpdateKeepsAnnounced ==
  ASSUME AnnouncedThroughout, NEW u \in Updates, UpdateBegins(u) \/ UpdateStep(u)
  PROVE  AnnouncedThroughout'
  <1> USE DEF AnnouncedThroughout, CallerPc, CallerGoes
  <1>1. CASE UpdateBegins(u)
    BY <1>1 DEF UpdateBegins
  <1>2. CASE UpdateSends(u)
    BY <1>2 DEF UpdateSends
  <1>3. CASE UpdateQueues(u)
    <2>1. caller'[u] = "announce"
      BY <1>3 DEF UpdateQueues
    <2> QED
      BY <1>3, <2>1 DEF UpdateQueues
  <1>4. CASE UpdateAnnounces(u)
    <2>1. tokens' \in Nat /\ tokens' > 0
      BY <1>4, AnnounceLeavesToken DEF UpdateAnnounces
    <2> QED
      BY <1>4, <2>1 DEF UpdateAnnounces
  <1> QED
    BY <1>1, <1>2, <1>3, <1>4 DEF UpdateStep

\* The retry goroutine keeps it.
LEMMA RetrierKeepsAnnounced ==
  ASSUME AnnouncedThroughout, Retrier
  PROVE  AnnouncedThroughout'
  <1> USE DEF AnnouncedThroughout, RetrierGoes
  <1>1. CASE RetrierWakes
    BY <1>1 DEF RetrierWakes
  <1>2. CASE RetrierTicks \/ RetrierStops
    BY <1>2 DEF RetrierTicks, RetrierStops
  <1>3. CASE TakeQueue
    BY <1>3 DEF TakeQueue
  <1>4. CASE RetriesEnd
    BY <1>4 DEF RetriesEnd
  <1>5. CASE GiveUp
    BY <1>5 DEF GiveUp
  <1>6. CASE Retry
    BY <1>6 DEF Retry
  <1>7. CASE Requeue
    BY <1>7 DEF Requeue
  <1>8. CASE RequeueAnnounces
    <2>1. tokens' \in Nat /\ tokens' > 0
      BY <1>8, AnnounceLeavesToken DEF RequeueAnnounces
    <2> QED
      BY <1>8, <2>1 DEF RequeueAnnounces
  <1> QED
    BY <1>1, <1>2, <1>3, <1>4, <1>5, <1>6, <1>7, <1>8 DEF Retrier

\* A queued update never depends on the tick of the retry goroutine.
THEOREM QueueAlwaysAnnounced == StatusSpec => []QueueAnnounced
  <1> DEFINE Step == \/ StatusNext /\ UNCHANGED linkVars
                     \/ LinkNext /\ UNCHANGED statusVars
  <1>1. StatusInit => AnnouncedThroughout
    BY DEF StatusInit, AnnouncedThroughout, CallerPc
  <1>2. AnnouncedThroughout /\ [Step]_<<linkVars, statusVars>> => AnnouncedThroughout'
    <2> SUFFICES ASSUME AnnouncedThroughout, [Step]_<<linkVars, statusVars>>
                 PROVE  AnnouncedThroughout'
      OBVIOUS
    <2>1. CASE StatusNext
      BY <2>1, UpdateKeepsAnnounced, RetrierKeepsAnnounced DEF StatusNext
    <2>2. CASE UNCHANGED statusVars
      BY <2>2 DEF statusVars, AnnouncedThroughout
    <2> QED
      BY <2>1, <2>2
  <1>3. AnnouncedThroughout => QueueAnnounced
    BY DEF AnnouncedThroughout, QueueAnnounced
  <1> QED
    BY <1>1, <1>2, <1>3, PTL DEF StatusSpec

-------------------------------------------------------------------------------
(* Every update is in one place.  Places are sets here: five that are disjoint and
   together hold every update. *)

InHand == {u \in Updates : caller[u] \in {"idle", "send", "append"}}

Apart(H, Q, B, S, D) ==
    /\ H \cup Q \cup B \cup S \cup D = Updates
    /\ H \cap (Q \cup B \cup S \cup D) = {}
    /\ Q \cap (B \cup S \cup D) = {}
    /\ B \cap (S \cup D) = {}
    /\ S \cap D = {}

\* The batch is empty outside the loop: what is taken does not overwrite anything.
Partitioned ==
    /\ caller \in [Updates -> CallerPc]
    /\ statusQueue \in Seq(Updates) /\ IsInjective(statusQueue)
    /\ batch \in Seq(Updates) /\ IsInjective(batch)
    /\ retrier \in {"select", "take", "off"} => batch = <<>>
    /\ retrier = "requeue" => batch # <<>>
    /\ Apart(InHand, Range(statusQueue), Range(batch), sent, dropped)

LEMMA PartitionedOnce == Partitioned => EachUpdateOnce
  <1> SUFFICES ASSUME Partitioned, NEW u \in Updates
               PROVE  \E p \in Place : \A q \in Place : At(u, q) <=> q = p
    BY DEF Partitioned, EachUpdateOnce
  <1>1. CASE u \in InHand
    <2>1. \A q \in Place : At(u, q) <=> q = "hand"
      BY <1>1 DEF Partitioned, Apart, InHand, Place, At
    <2> QED
      BY <2>1 DEF Place
  <1>2. CASE u \in Range(statusQueue)
    <2>1. \A q \in Place : At(u, q) <=> q = "queue"
      BY <1>2 DEF Partitioned, Apart, InHand, Place, At
    <2> QED
      BY <2>1 DEF Place
  <1>3. CASE u \in Range(batch)
    <2>1. \A q \in Place : At(u, q) <=> q = "batch"
      BY <1>3 DEF Partitioned, Apart, InHand, Place, At
    <2> QED
      BY <2>1 DEF Place
  <1>4. CASE u \in sent
    <2>1. \A q \in Place : At(u, q) <=> q = "sent"
      BY <1>4 DEF Partitioned, Apart, InHand, Place, At
    <2> QED
      BY <2>1 DEF Place
  <1>5. CASE u \in dropped
    <2>1. \A q \in Place : At(u, q) <=> q = "dropped"
      BY <1>5 DEF Partitioned, Apart, InHand, Place, At
    <2> QED
      BY <2>1 DEF Place
  <1> QED
    BY <1>1, <1>2, <1>3, <1>4, <1>5 DEF Partitioned, Apart

LEMMA PartitionedInit == StatusInit => Partitioned
  <1> SUFFICES ASSUME StatusInit PROVE Partitioned
    OBVIOUS
  <1>1. InHand = Updates /\ caller \in [Updates -> CallerPc]
    BY DEF StatusInit, InHand, CallerPc
  <1>2. Apart(InHand, Range(statusQueue), Range(batch), sent, dropped)
    BY <1>1, EmptyRange DEF StatusInit, Apart
  <1> QED
    BY <1>1, <1>2, EmptyRange DEF StatusInit, Partitioned

LEMMA UpdateKeepsPartition ==
  ASSUME Partitioned, NEW u \in Updates, UpdateBegins(u) \/ UpdateStep(u)
  PROVE  Partitioned'
  <1> USE DEF CallerGoes
  <1>0. /\ caller \in [Updates -> CallerPc]
        /\ Apart(InHand, Range(statusQueue), Range(batch), sent, dropped)
    BY DEF Partitioned
  <1>1. CASE UpdateBegins(u) \/ UpdateAnnounces(u)
    <2>1. InHand' = InHand /\ caller' \in [Updates -> CallerPc]
      BY <1>0, <1>1 DEF UpdateBegins, UpdateAnnounces, InHand, CallerPc
    <2> QED
      BY <1>1, <2>1 DEF UpdateBegins, UpdateAnnounces, Partitioned
  <1>2. CASE UpdateSends(u)
    <2>1. caller' \in [Updates -> CallerPc]
      BY <1>0, <1>2 DEF UpdateSends, CallerPc
    <2>2. /\ u \in InHand
          /\ \/ InHand' = InHand \ {u} /\ sent' = sent \cup {u}
             \/ InHand' = InHand /\ sent' = sent
      BY <1>0, <1>2 DEF UpdateSends, SendSucceeds, SendFails, InHand
    <2>3. Apart(InHand, Range(statusQueue), Range(batch), sent, dropped)'
      BY <1>0, <1>2, <2>2 DEF UpdateSends, Apart
    <2> QED
      BY <1>2, <2>1, <2>3 DEF UpdateSends, Partitioned
  <1>3. CASE UpdateQueues(u)
    <2>1. caller' \in [Updates -> CallerPc] /\ u \in InHand /\ InHand' = InHand \ {u}
      BY <1>0, <1>3 DEF UpdateQueues, InHand, CallerPc
    <2>2. u \notin Range(statusQueue)
      BY <1>0, <2>1 DEF Apart
    <2>3. /\ statusQueue' \in Seq(Updates) /\ IsInjective(statusQueue')
          /\ Range(statusQueue') = Range(statusQueue) \cup {u}
      BY <1>3, <2>2, AppendsNew DEF UpdateQueues, AppendUpdate, Partitioned
    <2>4. Apart(InHand, Range(statusQueue), Range(batch), sent, dropped)'
      BY <1>0, <1>3, <2>1, <2>3 DEF UpdateQueues, Apart
    <2> QED
      BY <1>3, <2>1, <2>3, <2>4 DEF UpdateQueues, Partitioned
  <1> QED
    BY <1>1, <1>2, <1>3 DEF UpdateStep

LEMMA RetrierKeepsPartition ==
  ASSUME Partitioned, Retrier
  PROVE  Partitioned'
  <1> USE DEF RetrierGoes
  <1>0. Apart(InHand, Range(statusQueue), Range(batch), sent, dropped)
    BY DEF Partitioned
  <1>a. batch # <<>> =>
          /\ Head(batch) \in Updates /\ Head(batch) \in Range(batch)
          /\ Tail(batch) \in Seq(Updates) /\ IsInjective(Tail(batch))
          /\ Range(Tail(batch)) = Range(batch) \ {Head(batch)}
    BY TakesHead DEF Partitioned
  <1>1. CASE RetrierWakes \/ RetrierTicks \/ RetrierStops \/ RetriesEnd \/ RequeueAnnounces
    <2>1. UNCHANGED <<caller, statusQueue, batch, sent, dropped>> /\ InHand' = InHand
      BY <1>1 DEF RetrierWakes, RetrierTicks, RetrierStops, RetriesEnd, RequeueAnnounces, InHand
    <2> QED
      BY <1>1, <2>1
      DEF RetrierWakes, RetrierTicks, RetrierStops, RetriesEnd, RequeueAnnounces, Partitioned
  <1>2. CASE TakeQueue
    <2>1. /\ batch = <<>> /\ batch' = statusQueue /\ statusQueue' = <<>>
          /\ UNCHANGED <<caller, sent, dropped>> /\ InHand' = InHand
      BY <1>2 DEF TakeQueue, Partitioned, InHand
    <2>2. Apart(InHand, Range(statusQueue), Range(batch), sent, dropped)'
      BY <1>0, <2>1, EmptyRange DEF Apart
    <2> QED
      BY <1>2, <2>1, <2>2, EmptyRange DEF TakeQueue, Partitioned
  <1>3. CASE GiveUp
    <2>1. /\ batch # <<>> /\ batch' = Tail(batch) /\ dropped' = dropped \cup {Head(batch)}
          /\ UNCHANGED <<caller, statusQueue, sent, retrier>> /\ InHand' = InHand
          /\ retrier = "each"
      BY <1>3 DEF GiveUp, InHand
    <2>2. Apart(InHand, Range(statusQueue), Range(batch), sent, dropped)'
      BY <1>0, <1>a, <2>1 DEF Apart
    <2> QED
      BY <1>a, <2>1, <2>2 DEF Partitioned
  <1>4. CASE Retry
    <2>1. /\ batch # <<>> /\ retrier = "each"
          /\ UNCHANGED <<caller, statusQueue, dropped>> /\ InHand' = InHand
      BY <1>4 DEF Retry, InHand
    <2>2. \/ sent' = sent \cup {Head(batch)} /\ batch' = Tail(batch) /\ retrier' = retrier
          \/ UNCHANGED <<sent, batch>> /\ retrier' = "requeue"
      BY <1>4 DEF Retry, SendSucceeds, SendFails
    <2>3. Apart(InHand, Range(statusQueue), Range(batch), sent, dropped)'
      <3>1. CASE sent' = sent \cup {Head(batch)} /\ batch' = Tail(batch)
        BY <1>0, <1>a, <2>1, <3>1 DEF Apart
      <3>2. CASE UNCHANGED <<sent, batch>>
        BY <1>0, <2>1, <3>2 DEF Apart
      <3> QED
        BY <2>2, <3>1, <3>2
    <2> QED
      BY <1>a, <2>1, <2>2, <2>3 DEF Partitioned
  <1>5. CASE Requeue
    <2>1. /\ batch # <<>> /\ batch' = Tail(batch) /\ retrier' = "announce"
          /\ statusQueue' = Append(statusQueue, Head(batch))
          /\ UNCHANGED <<caller, sent, dropped>> /\ InHand' = InHand
      BY <1>5 DEF Requeue, AppendUpdate, Partitioned, InHand
    <2>2. Head(batch) \notin Range(statusQueue)
      BY <1>0, <1>a, <2>1 DEF Apart
    <2>3. /\ statusQueue' \in Seq(Updates) /\ IsInjective(statusQueue')
          /\ Range(statusQueue') = Range(statusQueue) \cup {Head(batch)}
      BY <1>a, <2>1, <2>2, AppendsNew DEF Partitioned
    <2>4. Apart(InHand, Range(statusQueue), Range(batch), sent, dropped)'
      BY <1>0, <1>a, <2>1, <2>3 DEF Apart
    <2> QED
      BY <1>a, <2>1, <2>3, <2>4 DEF Partitioned
  <1> QED
    BY <1>1, <1>2, <1>3, <1>4, <1>5 DEF Retrier

THEOREM AlwaysPartitioned == StatusSpec => []Partitioned
  <1> DEFINE Step == \/ StatusNext /\ UNCHANGED linkVars
                     \/ LinkNext /\ UNCHANGED statusVars
  <1>1. Partitioned /\ [Step]_<<linkVars, statusVars>> => Partitioned'
    <2> SUFFICES ASSUME Partitioned, [Step]_<<linkVars, statusVars>>
                 PROVE  Partitioned'
      OBVIOUS
    <2>1. CASE StatusNext
      BY <2>1, UpdateKeepsPartition, RetrierKeepsPartition DEF StatusNext
    <2>2. CASE UNCHANGED statusVars
      BY <2>2 DEF statusVars, Partitioned, InHand
    <2> QED
      BY <2>1, <2>2
  <1> QED
    BY <1>1, PartitionedInit, PTL DEF StatusSpec

\* No update is lost, sent twice, or given up after it was sent.
THEOREM UpdatesAlwaysOnce == StatusSpec => []EachUpdateOnce
  BY AlwaysPartitioned, PartitionedOnce, PTL

-------------------------------------------------------------------------------
(* Retries are counted.  An update that waits has failed once more than it was retried;
   that it waits in one place only is what keeps the two counts together. *)

Waits(u) == caller[u] = "append" \/ u \in Range(statusQueue) \/ u \in Range(batch)

RetriesCounted ==
    /\ failures \in [Updates -> Nat]
    /\ retryCount \in [Updates -> 0..MaxRetries]
    /\ \A u \in Updates :
        /\ caller[u] \in {"idle", "send"} => failures[u] = 0 /\ retryCount[u] = 0
        /\ Waits(u) => failures[u] = retryCount[u] + 1
        /\ u \in dropped => failures[u] = MaxRetries + 1

LEMMA CountedInit == StatusInit => RetriesCounted
  BY EmptyRange, StatusAssumption DEF StatusInit, RetriesCounted, Waits

LEMMA UpdateKeepsCount ==
  ASSUME Partitioned, RetriesCounted, NEW u \in Updates, UpdateBegins(u) \/ UpdateStep(u)
  PROVE  RetriesCounted'
  <1> USE DEF CallerGoes
  <1>0. caller \in [Updates -> CallerPc]
    BY DEF Partitioned
  <1>1. CASE UpdateBegins(u)
    <2>1. \A v \in Updates : Waits(v)' => Waits(v)
      BY <1>0, <1>1 DEF UpdateBegins, Waits
    <2> QED
      BY <1>0, <1>1, <2>1 DEF UpdateBegins, RetriesCounted
  <1>2. CASE UpdateSends(u) /\ SendSucceeds(u)
    <2>1. \A v \in Updates : Waits(v)' => Waits(v)
      BY <1>0, <1>2 DEF UpdateSends, SendSucceeds, SendFails, RetriesCounted, Waits
    <2>2. UNCHANGED <<failures, retryCount, dropped>>
      BY <1>2 DEF UpdateSends, SendSucceeds
    <2>3. \A v \in Updates : caller'[v] \in {"idle", "send"} => caller[v] \in {"idle", "send"}
      BY <1>0, <1>2 DEF UpdateSends
    <2> QED
      BY <2>1, <2>2, <2>3 DEF RetriesCounted
  <1>3. CASE UpdateSends(u) /\ SendFails(u)
    <2>1. /\ caller[u] = "send" /\ failures[u] = 0 /\ retryCount[u] = 0
          /\ u \notin dropped
      BY <1>0, <1>3 DEF UpdateSends, RetriesCounted, Partitioned, Apart, InHand
    <2>2. /\ failures' = [failures EXCEPT ![u] = 1]
          /\ UNCHANGED <<retryCount, dropped, statusQueue, batch>>
      BY <1>3, <2>1 DEF UpdateSends, SendFails, RetriesCounted
    <2>3. \A v \in Updates \ {u} : caller'[v] = caller[v]
      BY <1>0, <1>3 DEF UpdateSends
    <2>4. caller'[u] \in {"append", "done"}
      BY <1>0, <1>3 DEF UpdateSends
    <2> QED
      BY <2>1, <2>2, <2>3, <2>4 DEF RetriesCounted, Waits
  <1>4. CASE UpdateQueues(u)
    <2>1. /\ caller[u] = "append" /\ u \notin Range(statusQueue)
      BY <1>4 DEF UpdateQueues, Partitioned, Apart, InHand
    <2>2. Range(statusQueue') = Range(statusQueue) \cup {u}
      BY <1>4, <2>1, AppendsNew DEF UpdateQueues, AppendUpdate, Partitioned
    <2>3. \A v \in Updates : Waits(v)' => Waits(v)
      BY <1>0, <1>4, <2>1, <2>2 DEF UpdateQueues, Waits
    <2> QED
      BY <1>0, <1>4, <2>3 DEF UpdateQueues, RetriesCounted
  <1>5. CASE UpdateAnnounces(u)
    <2>1. \A v \in Updates : Waits(v)' => Waits(v)
      BY <1>0, <1>5 DEF UpdateAnnounces, Waits
    <2> QED
      BY <1>0, <1>5, <2>1 DEF UpdateAnnounces, RetriesCounted
  <1> QED
    BY <1>1, <1>2, <1>3, <1>4, <1>5 DEF UpdateStep, UpdateSends

LEMMA RetrierKeepsCount ==
  ASSUME Partitioned, RetriesCounted, Retrier
  PROVE  RetriesCounted'
  <1> USE DEF RetrierGoes
  <1>a. batch # <<>> =>
          /\ Head(batch) \in Updates /\ Head(batch) \in Range(batch)
          /\ Range(Tail(batch)) = Range(batch) \ {Head(batch)}
    BY TakesHead DEF Partitioned
  <1>1. CASE RetrierWakes \/ RetrierTicks \/ RetrierStops \/ RetriesEnd \/ RequeueAnnounces
    BY <1>1 DEF RetrierWakes, RetrierTicks, RetrierStops, RetriesEnd, RequeueAnnounces,
                RetriesCounted, Waits
  <1>2. CASE TakeQueue
    <2>1. \A v \in Updates : Waits(v)' => Waits(v)
      BY <1>2, EmptyRange DEF TakeQueue, Waits
    <2> QED
      BY <1>2, <2>1 DEF TakeQueue, RetriesCounted
  <1>3. CASE GiveUp
    <2> DEFINE h == Head(batch)
    <2>1. /\ h \in Updates /\ Waits(h) /\ dropped' = dropped \cup {h}
          /\ UNCHANGED <<caller, statusQueue, retryCount, failures>>
          /\ retryCount[h] >= MaxRetries
      BY <1>a, <1>3 DEF GiveUp, MaxRetriesExceeded, Waits
    <2>2. failures[h] = MaxRetries + 1
      BY <2>1, StatusAssumption DEF RetriesCounted
    <2>3. \A v \in Updates : Waits(v)' => Waits(v)
      BY <1>a, <1>3 DEF GiveUp, Waits
    <2> QED
      BY <2>1, <2>2, <2>3 DEF RetriesCounted
  <1>4. CASE Retry /\ SendSucceeds(Head(batch))
    <2>1. UNCHANGED <<caller, statusQueue, dropped, failures>>
      BY <1>4 DEF Retry, SendSucceeds
    <2>2. \/ Range(batch') \subseteq Range(batch) /\ retryCount' = retryCount
          \/ SendFails(Head(batch))
      BY <1>a, <1>4 DEF Retry
    <2>3. /\ batch # <<>> /\ Head(batch) \in Updates
          /\ failures[Head(batch)] \in Nat
      BY <1>a, <1>4 DEF Retry, RetriesCounted
    <2>4. ~SendFails(Head(batch))
      <3>1. SUFFICES ASSUME SendFails(Head(batch)) PROVE FALSE
        OBVIOUS
      <3>2. failures'[Head(batch)] = failures[Head(batch)] + 1
        BY <2>3, <3>1 DEF SendFails, RetriesCounted
      <3> QED
        BY <2>1, <2>3, <3>2
    <2> QED
      BY <2>1, <2>2, <2>4 DEF RetriesCounted, Waits
  <1>5. CASE Retry /\ ~SendSucceeds(Head(batch))
    <2> DEFINE h == Head(batch)
    <2>1. /\ h \in Updates /\ Waits(h) /\ caller[h] \notin {"idle", "send"} /\ h \notin dropped
      BY <1>a, <1>5 DEF Retry, Waits, Partitioned, Apart, InHand
    <2>2. /\ failures' = [failures EXCEPT ![h] = failures[h] + 1]
          /\ retryCount' = [retryCount EXCEPT ![h] = retryCount[h] + 1]
          /\ UNCHANGED <<caller, statusQueue, dropped, batch>>
      BY <1>5 DEF Retry, SendFails, CountRetry
    <2>3. retryCount[h] + 1 \in 0..MaxRetries
      BY <1>5, <2>1, StatusAssumption DEF Retry, MaxRetriesExceeded, RetriesCounted
    <2>4. failures[h] + 1 \in Nat
      BY <2>1 DEF RetriesCounted
    <2>5. failures' \in [Updates -> Nat] /\ retryCount' \in [Updates -> 0..MaxRetries]
      BY <2>1, <2>2, <2>3, <2>4 DEF RetriesCounted
    <2>6. ASSUME NEW v \in Updates
          PROVE  /\ caller'[v] \in {"idle", "send"} => failures'[v] = 0 /\ retryCount'[v] = 0
                 /\ Waits(v)' => failures'[v] = retryCount'[v] + 1
                 /\ v \in dropped' => failures'[v] = MaxRetries + 1
      BY <2>1, <2>2 DEF RetriesCounted, Waits
    <2> QED
      BY <2>5, <2>6 DEF RetriesCounted
  <1>6. CASE Requeue
    <2>1. /\ batch # <<>> /\ batch' = Tail(batch)
          /\ statusQueue' = Append(statusQueue, Head(batch))
          /\ UNCHANGED <<caller, dropped, failures, retryCount>>
      BY <1>6 DEF Requeue, AppendUpdate, Partitioned
    <2>2. Range(statusQueue') = Range(statusQueue) \cup {Head(batch)}
      BY <1>a, <2>1, AppendsNew DEF Partitioned, Apart
    <2>3. \A v \in Updates : Waits(v)' => Waits(v)
      BY <1>a, <2>1, <2>2 DEF Waits
    <2> QED
      BY <2>1, <2>3 DEF RetriesCounted
  <1> QED
    BY <1>1, <1>2, <1>3, <1>4, <1>5, <1>6 DEF Retrier

\* No update is given up before its first send and all its retries have failed.
THEOREM AlwaysGivenUpAfterRetries == StatusSpec => []GivenUpAfterRetries
  <1> DEFINE Step == \/ StatusNext /\ UNCHANGED linkVars
                     \/ LinkNext /\ UNCHANGED statusVars
  <1>1. Partitioned /\ RetriesCounted /\ [Step]_<<linkVars, statusVars>> => RetriesCounted'
    <2> SUFFICES ASSUME Partitioned, RetriesCounted, [Step]_<<linkVars, statusVars>>
                 PROVE  RetriesCounted'
      OBVIOUS
    <2>1. CASE StatusNext
      BY <2>1, UpdateKeepsCount, RetrierKeepsCount DEF StatusNext
    <2>2. CASE UNCHANGED statusVars
      BY <2>2 DEF statusVars, RetriesCounted, Waits
    <2> QED
      BY <2>1, <2>2
  <1>2. Partitioned /\ RetriesCounted => GivenUpAfterRetries
    BY DEF Partitioned, Apart, RetriesCounted, GivenUpAfterRetries
  <1> QED
    BY <1>1, <1>2, CountedInit, AlwaysPartitioned, PTL DEF StatusSpec

-------------------------------------------------------------------------------
\* What is pending is the latest load; without it, the latest was handed over; and with it,
\* a timer or a flush is there. A closed batcher handed the latest over.
LoadKept ==
    /\ given \in Nat
    /\ pending \in {0, given}
    /\ ~batcherClosed /\ pending = 0 => handed = given
    /\ ~batcherClosed /\ pending # 0 => armed # {} \/ flushes # {}
    /\ batcherClosed => handed = given

LEMMA LoadKeptByStep ==
  ASSUME LoadKept, BatcherNext
  PROVE  LoadKept'
  <1> USE DEF LoadKept
  <1>1. CASE Update
    <2>1. given' \in armed' /\ given' \in Nat
      BY <1>1 DEF Update
    <2> QED
      BY <1>1, <2>1 DEF Update
  <1>2. CASE StopBatcher
    BY <1>2 DEF StopBatcher, HandOver
  <1>3. ASSUME NEW t \in 1..MaxLoads, TimerFires(t)
        PROVE  LoadKept'
    <2>1. t \in flushes'
      BY <1>3 DEF TimerFires
    <2> QED
      BY <1>3, <2>1 DEF TimerFires
  <1>4. ASSUME NEW t \in 1..MaxLoads, Flush(t)
        PROVE  LoadKept'
    BY <1>4 DEF Flush, HandOver
  <1> QED
    BY <1>1, <1>2, <1>3, <1>4 DEF BatcherNext

THEOREM LoadAlwaysKept == BatcherSpec => []LoadKept
  <1> DEFINE Step == \/ BatcherNext /\ UNCHANGED linkVars
                     \/ LinkNext /\ UNCHANGED batcherVars
  <1>1. BatcherInit => LoadKept
    BY DEF BatcherInit, LoadKept
  <1>2. LoadKept /\ [Step]_<<linkVars, batcherVars>> => LoadKept'
    <2> SUFFICES ASSUME LoadKept, [Step]_<<linkVars, batcherVars>>
                 PROVE  LoadKept'
      OBVIOUS
    <2>1. CASE BatcherNext
      BY <2>1, LoadKeptByStep
    <2>2. CASE UNCHANGED batcherVars
      BY <2>2 DEF batcherVars, LoadKept
    <2> QED
      BY <2>1, <2>2
  <1> QED
    BY <1>1, <1>2, PTL DEF BatcherSpec

\* A load that was not handed over is pending, and something runs that hands it over.
THEOREM LatestAlwaysPending == BatcherSpec => []LatestPending
  <1>1. LoadKept => LatestPending
    BY DEF LoadKept, LatestPending
  <1> QED
    BY <1>1, LoadAlwaysKept, PTL

\* A batcher that was stopped has handed over the last load it accepted.
THEOREM FinalStatusAlwaysHanded == BatcherSpec => []FinalStatusHanded
  <1>1. LoadKept => FinalStatusHanded
    BY DEF LoadKept, FinalStatusHanded
  <1> QED
    BY <1>1, LoadAlwaysKept, PTL

-------------------------------------------------------------------------------
(* RaceProtection.                                                           *)

\* Of the guards, which terminate: one for each record that says requested, and no other.
Terminates(g, j) == guards[g].at = "terminating" /\ guards[g].job = j

OneTerminates ==
    /\ RaceTypeOK
    /\ \A j \in GuardedJobs :
        terminations[j].state = "requested" <=> \E g \in Guards : Terminates(g, j)
    /\ \A j \in GuardedJobs : \A g, h \in Guards : Terminates(g, j) /\ Terminates(h, j) => g = h

LEMMA CountedInRange ==
  ASSUME NEW n \in 0..MaxRequests
  PROVE  Counted(n) \in 0..MaxRequests
  BY RaceAssumption DEF Counted

LEMMA RaceTypeInit == RaceInit => RaceTypeOK
  <1> SUFFICES ASSUME RaceInit PROVE RaceTypeOK
    OBVIOUS
  <1>1. (CHOOSE j \in GuardedJobs : TRUE) \in GuardedJobs
    BY RaceAssumption
  <1>2. guards \in [Guards -> [at : GuardAt, job : GuardedJobs, status : JobStatusPriority]]
    BY <1>1 DEF RaceInit, GuardAt, JobStatusPriority
  <1>3. terminations \in [GuardedJobs -> TerminationState]
    BY RaceAssumption DEF RaceInit, NoTermination, TerminationState
  <1>4. pendingStatus \in [GuardedJobs -> JobStatusPriority \cup {NoUpdate}]
    BY DEF RaceInit
  <1>5. disconnecting \in BOOLEAN /\ reconnecting \in BOOLEAN
    BY DEF RaceInit
  <1>6. droppedJobs = 0 /\ droppedUpdates = 0
    BY DEF RaceInit
  <1>7. droppedJobs \in 0..MaxRequests /\ droppedUpdates \in 0..MaxRequests
    BY <1>6, RaceAssumption
  <1> QED
    BY <1>2, <1>3, <1>4, <1>5, <1>7 DEF RaceTypeOK

\* One step per operation.
LEMMA RaceTypeNext == RaceTypeOK /\ [RaceNext]_raceVars => RaceTypeOK'
  <1> SUFFICES ASSUME RaceTypeOK, [RaceNext]_raceVars PROVE RaceTypeOK'
    OBVIOUS
  <1> USE RaceAssumption DEF RaceTypeOK
  <1>1. ASSUME NEW on \in BOOLEAN, SetDisconnecting(on) \/ SetReconnecting(on)
        PROVE  RaceTypeOK'
    BY <1>1 DEF SetDisconnecting, SetReconnecting
  <1>2. ASSUME NEW g \in Guards, NEW j \in GuardedJobs, ExecuteAccept(g, j)
        PROVE  RaceTypeOK'
    BY <1>2, CountedInRange DEF ExecuteAccept, GuardAt
  <1>3. ASSUME NEW g \in Guards, NEW j \in GuardedJobs, ExecuteTermination(g, j)
        PROVE  RaceTypeOK'
    <2>1. Counted(terminations[j].requests) \in 0..MaxRequests
      BY CountedInRange DEF TerminationState
    <2>2. terminations' \in [GuardedJobs -> TerminationState]
      BY <1>3, <2>1 DEF ExecuteTermination, TerminationState
    <2>3. guards' \in [Guards -> [at : GuardAt, job : GuardedJobs, status : JobStatusPriority]]
      BY <1>3 DEF ExecuteTermination, GuardAt
    <2> QED
      BY <1>3, <2>2, <2>3 DEF ExecuteTermination
  <1>4. ASSUME NEW g \in Guards, NEW j \in GuardedJobs, NEW s \in JobStatusPriority,
               QueueStatusUpdate(g, j, s)
        PROVE  RaceTypeOK'
    BY <1>4 DEF QueueStatusUpdate, GuardAt
  <1>5. ASSUME NEW g \in Guards, AcceptJob(g) \/ OperationReturns(g)
        PROVE  RaceTypeOK'
    BY <1>5 DEF AcceptJob, OperationReturns, GuardGoes, GuardAt
  <1>6. ASSUME NEW g \in Guards, CompleteTermination(g)
        PROVE  RaceTypeOK'
    BY <1>6 DEF CompleteTermination, GuardGoes, GuardAt, TerminationState
  <1>7. ASSUME NEW g \in Guards, StatusQueued(g)
        PROVE  RaceTypeOK'
    BY <1>7, CountedInRange DEF StatusQueued, GuardGoes, GuardAt
  <1>8. ASSUME NEW old \in SUBSET GuardedJobs, CleanupOldTerminations(old)
        PROVE  RaceTypeOK'
    BY <1>8 DEF CleanupOldTerminations, NoTermination, TerminationState
  <1>9. CASE FlushPendingStatusUpdates
    BY <1>9 DEF FlushPendingStatusUpdates
  <1>10. CASE UNCHANGED raceVars
    BY <1>10 DEF raceVars
  <1> QED
    BY <1>1, <1>2, <1>3, <1>4, <1>5, <1>6, <1>7, <1>8, <1>9, <1>10 DEF RaceNext

LEMMA OneTerminatesInit == RaceInit => OneTerminates
  BY RaceTypeInit DEF RaceInit, OneTerminates, Terminates, NoTermination

\* A step that touches neither the records nor who terminates keeps it.
LEMMA OthersTerminateNothing ==
  ASSUME OneTerminates, RaceTypeOK', UNCHANGED terminations,
         \A g \in Guards, j \in GuardedJobs : Terminates(g, j)' <=> Terminates(g, j)
  PROVE  OneTerminates'
  BY DEF OneTerminates

LEMMA OneTerminatesNext == OneTerminates /\ [RaceNext]_raceVars => OneTerminates'
  <1> SUFFICES ASSUME OneTerminates, [RaceNext]_raceVars PROVE OneTerminates'
    OBVIOUS
  <1>1. RaceTypeOK /\ RaceTypeOK'
    BY RaceTypeNext DEF OneTerminates
  <1>2. ASSUME NEW g \in Guards, NEW j \in GuardedJobs, ExecuteTermination(g, j)
        PROVE  OneTerminates'
    <2>1. CASE terminations[j].state = "none"
      <3>1. terminations'[j].state = "requested"
            /\ \A k \in GuardedJobs \ {j} : terminations'[k] = terminations[k]
        BY <1>1, <1>2, <2>1 DEF ExecuteTermination, RaceTypeOK
      <3>2. guards[g].at = "idle" /\ Terminates(g, j)'
            /\ \A h \in Guards \ {g} : guards'[h] = guards[h]
        BY <1>1, <1>2, <2>1 DEF ExecuteTermination, FirstRequest, RaceTypeOK, Terminates
      <3>3. \A h \in Guards : ~Terminates(h, j)
        BY <2>1 DEF OneTerminates
      <3>4. \A h \in Guards, k \in GuardedJobs :
              Terminates(h, k)' <=> Terminates(h, k) \/ (h = g /\ k = j)
        BY <3>2, <3>3 DEF Terminates
      <3> QED
        BY <1>1, <3>1, <3>3, <3>4 DEF OneTerminates
    <2>2. CASE terminations[j].state # "none"
      <3>1. \A k \in GuardedJobs : terminations'[k].state = terminations[k].state
        BY <1>1, <1>2, <2>2 DEF ExecuteTermination, RaceTypeOK
      <3>2. UNCHANGED guards
        BY <1>2, <2>2 DEF ExecuteTermination, FirstRequest
      <3> QED
        BY <1>1, <3>1, <3>2 DEF OneTerminates, Terminates
    <2> QED
      BY <2>1, <2>2
  <1>3. ASSUME NEW g \in Guards, CompleteTermination(g)
        PROVE  OneTerminates'
    <2>1. PICK j \in GuardedJobs : j = guards[g].job /\ Terminates(g, j)
      BY <1>1, <1>3 DEF CompleteTermination, GuardGoes, RaceTypeOK, Terminates
    <2>2. terminations[j].state = "requested"
      BY <2>1 DEF OneTerminates
    <2>3. terminations'[j].state = "completed"
          /\ \A k \in GuardedJobs \ {j} : terminations'[k] = terminations[k]
      BY <1>1, <1>3, <2>1, <2>2 DEF CompleteTermination, RaceTypeOK
    <2>4. \A h \in Guards, k \in GuardedJobs : Terminates(h, k)' <=> Terminates(h, k) /\ h # g
      BY <1>1, <1>3 DEF CompleteTermination, GuardGoes, RaceTypeOK, Terminates
    <2>5. \A h \in Guards : ~Terminates(h, j)'
      BY <2>1, <2>4 DEF OneTerminates
    <2>6. \A h \in Guards, k \in GuardedJobs \ {j} : Terminates(h, k)' <=> Terminates(h, k)
      BY <2>1, <2>4 DEF Terminates
    <2> QED
      BY <1>1, <2>1, <2>3, <2>5, <2>6 DEF OneTerminates
  <1>4. ASSUME NEW old \in SUBSET GuardedJobs, CleanupOldTerminations(old)
        PROVE  OneTerminates'
    <2>1. \A j \in GuardedJobs :
            terminations'[j].state = "requested" <=> terminations[j].state = "requested"
      BY <1>4 DEF CleanupOldTerminations, Forgettable, NoTermination
    <2>2. UNCHANGED guards
      BY <1>4 DEF CleanupOldTerminations
    <2> QED
      BY <1>1, <2>1, <2>2 DEF OneTerminates, Terminates
  <1>5. ASSUME NEW g \in Guards, NEW j \in GuardedJobs, NEW s \in JobStatusPriority,
               ExecuteAccept(g, j) \/ QueueStatusUpdate(g, j, s)
        PROVE  OneTerminates'
    <2>1. \A h \in Guards, k \in GuardedJobs : Terminates(h, k)' <=> Terminates(h, k)
      <3> SUFFICES ASSUME NEW h \in Guards, NEW k \in GuardedJobs
                   PROVE  Terminates(h, k)' <=> Terminates(h, k)
        OBVIOUS
      <3>1. CASE h = g
        BY <1>1, <1>5, <3>1 DEF ExecuteAccept, QueueStatusUpdate, RaceTypeOK, Terminates
      <3>2. CASE h # g
        BY <1>1, <1>5, <3>2 DEF ExecuteAccept, QueueStatusUpdate, RaceTypeOK, Terminates
      <3> QED
        BY <3>1, <3>2
    <2>2. UNCHANGED terminations
      BY <1>5 DEF ExecuteAccept, QueueStatusUpdate
    <2> QED
      BY <1>1, <2>1, <2>2, OthersTerminateNothing
  <1>6. ASSUME NEW g \in Guards, AcceptJob(g) \/ OperationReturns(g) \/ StatusQueued(g)
        PROVE  OneTerminates'
    <2>1. guards[g].at # "terminating" /\ guards'[g].at # "terminating"
          /\ \A h \in Guards \ {g} : guards'[h] = guards[h]
      BY <1>1, <1>6 DEF AcceptJob, OperationReturns, StatusQueued, GuardGoes, RaceTypeOK
    <2>2. \A h \in Guards, k \in GuardedJobs : Terminates(h, k)' <=> Terminates(h, k)
      BY <2>1 DEF Terminates
    <2>3. UNCHANGED terminations
      BY <1>6 DEF AcceptJob, OperationReturns, StatusQueued
    <2> QED
      BY <1>1, <2>2, <2>3, OthersTerminateNothing
  <1>7. CASE FlushPendingStatusUpdates \/ UNCHANGED raceVars
    BY <1>1, <1>7, OthersTerminateNothing DEF FlushPendingStatusUpdates, raceVars, Terminates
  <1>8. ASSUME NEW on \in BOOLEAN, SetDisconnecting(on) \/ SetReconnecting(on)
        PROVE  OneTerminates'
    BY <1>1, <1>8, OthersTerminateNothing DEF SetDisconnecting, SetReconnecting, Terminates
  <1> QED
    BY <1>2, <1>3, <1>4, <1>5, <1>6, <1>7, <1>8 DEF RaceNext, JobStatusPriority

LEMMA OneTerminatesCounted == OneTerminates => TerminatedOnce
  <1> SUFFICES ASSUME OneTerminates, NEW j \in GuardedJobs
               PROVE  Cardinality({g \in Guards : guards[g].at = "terminating" /\ guards[g].job = j})
                        = (IF terminations[j].state = "requested" THEN 1 ELSE 0)
    BY DEF TerminatedOnce
  <1> DEFINE Of == {g \in Guards : guards[g].at = "terminating" /\ guards[g].job = j}
  <1>1. CASE terminations[j].state = "requested"
    <2>1. PICK g \in Guards : Terminates(g, j)
      BY <1>1 DEF OneTerminates
    <2>2. Of = {g}
      BY <2>1 DEF OneTerminates, Terminates
    <2> QED
      BY <1>1, <2>2, FS_Singleton
  <1>2. CASE terminations[j].state # "requested"
    <2>1. Of = {}
      BY <1>2 DEF OneTerminates, Terminates
    <2> QED
      BY <1>2, <2>1, FS_EmptySet
  <1> QED
    BY <1>1, <1>2

\* For any number of guards, jobs and requests, a job's termination is run by one guard at a
\* time, exactly while its record says requested.
THEOREM TerminatesOnce == RaceSpec => []TerminatedOnce
  <1>1. RaceSpec => []OneTerminates
    BY OneTerminatesInit, OneTerminatesNext, PTL DEF RaceSpec
  <1> QED
    BY <1>1, OneTerminatesCounted, PTL

-------------------------------------------------------------------------------
(* JobRecoveryManager.  An attempt that failed is counted first in             *)
(* attemptsFailed and later in the record: what a record has, and what the     *)
(* goroutines are about to add to it, was counted.                             *)

Failing(j) == {a \in Attempts : recoveries[a][j] = "failed"}

Tried(j, n) == attemptsFailed[j] = 4 \/ n + Cardinality(Failing(j)) <= attemptsFailed[j]

RecoveryInv ==
    /\ RecoveryTypeOK
    /\ \A j \in RecoverableJobs : pendingRecovery[j] # 0 => records[pendingRecovery[j]].job = j
    /\ \A a \in Attempts, j \in RecoverableJobs : recoveries[a][j] = "recovered" => j \in recovered
    /\ \A j \in RecoverableJobs : Tried(j, 0)
    /\ \A i \in 1..Len(records) : Tried(records[i].job, records[i].tries)
    /\ NotForgottenEarly

LEMMA FailingFinite ==
  ASSUME NEW j \in RecoverableJobs
  PROVE  IsFiniteSet(Failing(j)) /\ Cardinality(Failing(j)) \in Nat
  BY FS_Subset, FS_CardinalityType, RecoveryAssumption DEF Failing

LEMMA RecoveryInvInit == RecoveryInit => RecoveryInv
  <1> SUFFICES ASSUME RecoveryInit PROVE RecoveryInv
    OBVIOUS
  <1> USE RecoveryAssumption DEF RecoveryInit, Nothing, NoRecoveries
  <1>1. records = <<>> /\ Len(records) = 0
    OBVIOUS
  <1>2. RecoveryTypeOK
    BY DEF RecoveryTypeOK, RecoverableJob, RecoveryAt
  <1>3. ASSUME NEW j \in RecoverableJobs PROVE Tried(j, 0)
    <2>1. Failing(j) = {}
      BY DEF Failing
    <2> QED
      BY <2>1, FS_EmptySet DEF Tried
  <1> QED
    BY <1>1, <1>2, <1>3 DEF RecoveryInv, NotForgottenEarly

LEMMA RecoveryTypes ==
  ASSUME RecoveryTypeOK
  PROVE  /\ Len(records) \in Nat
         /\ \A i \in 1..Len(records) :
              records[i].job \in RecoverableJobs /\ records[i].tries \in 0..3
         /\ \A j \in RecoverableJobs : attemptsFailed[j] \in 0..4
         /\ \A j \in RecoverableJobs : pendingRecovery[j] \in 0..Len(records)
  <1>1. Len(records) \in Nat /\ \A i \in 1..Len(records) : records[i] \in RecoverableJob
    BY DEF RecoveryTypeOK
  <1>2. \A i \in 1..Len(records) : records[i].job \in RecoverableJobs /\ records[i].tries \in 0..3
    BY <1>1 DEF RecoverableJob
  <1> QED
    BY <1>1, <1>2 DEF RecoveryTypeOK

LEMMA FewerFailing ==
  ASSUME RecoveryTypeOK, NEW j \in RecoverableJobs, NEW n \in Nat, Tried(j, n),
         attemptsFailed'[j] = attemptsFailed[j], Failing(j)' \subseteq Failing(j)
  PROVE  Tried(j, n)'
  <1>1. /\ Cardinality(Failing(j)) \in Nat /\ Cardinality(Failing(j)') \in Nat
        /\ Cardinality(Failing(j)') <= Cardinality(Failing(j))
    BY FailingFinite, FS_Subset, FS_CardinalityType
  <1>2. attemptsFailed[j] \in Nat
    BY RecoveryTypes
  <1> QED
    BY <1>1, <1>2 DEF Tried

\* Most steps neither try a job nor forget one for another reason than they may.
LEMMA OthersKeep ==
  ASSUME RecoveryInv, RecoveryTypeOK',
         UNCHANGED attemptsFailed, Len(records') = Len(records),
         \A i \in 1..Len(records) :
            records'[i].job = records[i].job /\ records'[i].tries = records[i].tries,
         \A a \in Attempts, j \in RecoverableJobs :
            \/ recoveries'[a][j] = recoveries[a][j]
            \/ recoveries'[a][j] \notin {"failed", "recovered"}
            \/ recoveries'[a][j] = "recovered" /\ j \in recovered',
         recovered \subseteq recovered', refused \subseteq refused',
         \A j \in RecoverableJobs :
            \/ pendingRecovery'[j] = pendingRecovery[j]
            \/ pendingRecovery'[j] = 0 /\ j \in recovered' \cup refused'
  PROVE  RecoveryInv'
  <1> USE RecoveryTypes DEF RecoveryInv
  <1>1. ASSUME NEW j \in RecoverableJobs, NEW n \in Nat, Tried(j, n) PROVE Tried(j, n)'
    <2>1. Failing(j)' \subseteq Failing(j)
      BY DEF Failing
    <2> QED
      BY <1>1, <2>1, FewerFailing
  <1>2. NotForgottenEarly'
    BY DEF NotForgottenEarly
  <1>3. \A j \in RecoverableJobs : Tried(j, 0)'
    BY <1>1
  <1>4. \A i \in 1..Len(records') : Tried(records[i].job, records[i].tries)'
    <2> SUFFICES ASSUME NEW i \in 1..Len(records) PROVE Tried(records[i].job, records[i].tries)'
      OBVIOUS
    <2>1. Tried(records[i].job, records[i].tries)
      OBVIOUS
    <2>2. Tried(records'[i].job, records'[i].tries)
      BY <2>1
    <2>3. records'[i].job \in RecoverableJobs /\ records'[i].tries \in Nat
      OBVIOUS
    <2> QED
      BY <1>1, <2>2, <2>3 DEF Tried, Failing
  <1>5. \A j \in RecoverableJobs : pendingRecovery'[j] # 0 => records'[pendingRecovery'[j]].job = j
    OBVIOUS
  <1>6. \A a \in Attempts, j \in RecoverableJobs : recoveries'[a][j] = "recovered" => j \in recovered'
    OBVIOUS
  <1> QED
    BY <1>2, <1>3, <1>4, <1>5, <1>6

\* A recovery moves on: nobody else's does.
LEMMA RecoveryMoves ==
  ASSUME RecoveryTypeOK, NEW a \in Attempts, NEW j \in RecoverableJobs,
         NEW to \in RecoveryAt, recoveries' = [recoveries EXCEPT ![a][j] = to]
  PROVE  /\ recoveries' \in [Attempts -> [RecoverableJobs -> RecoveryAt]]
         /\ recoveries'[a][j] = to
         /\ \A b \in Attempts, k \in RecoverableJobs :
              b # a \/ k # j => recoveries'[b][k] = recoveries[b][k]
  BY DEF RecoveryTypeOK

LEMMA SaveKeeps ==
  ASSUME RecoveryInv, NEW j \in RecoverableJobs, SaveJobForRecovery(j)
  PROVE  RecoveryInv'
  <1> DEFINE new == [job |-> j, tries |-> 0, stale |-> FALSE]
  <1> USE RecoveryTypes DEF RecoveryInv
  <1>1. /\ records \in Seq(RecoverableJob) /\ new \in RecoverableJob
        /\ records' = Append(records, new)
        /\ pendingRecovery' = [pendingRecovery EXCEPT ![j] = Len(records) + 1]
        /\ UNCHANGED <<taken, asking, recoveries, recovered, refused, attemptsFailed>>
    BY DEF SaveJobForRecovery, RecoveryTypeOK, RecoverableJob
  <1>2. /\ records' \in Seq(RecoverableJob) /\ Len(records) \in Nat /\ Len(records') = Len(records) + 1
        /\ \A i \in 1..Len(records) : records'[i] = records[i]
        /\ records'[Len(records) + 1] = new
    BY <1>1
  <1>3. RecoveryTypeOK'
    BY <1>1, <1>2 DEF RecoveryTypeOK
  <1>4. \A k, n : Tried(k, n)' <=> Tried(k, n)
    BY <1>1 DEF Tried, Failing
  <1>5. ASSUME NEW i \in 1..Len(records') PROVE Tried(records[i].job, records[i].tries)'
    <2>1. CASE i \in 1..Len(records)
      BY <1>2, <2>1, <1>1 DEF Tried, Failing
    <2>2. CASE i = Len(records) + 1
      <3>1. records'[i].job = j /\ records'[i].tries = 0 /\ Tried(j, 0)
        BY <1>2, <2>2
      <3> QED
        BY <3>1, <1>1 DEF Tried, Failing
    <2> QED
      BY <1>2, <2>1, <2>2
  <1>6. pendingRecovery'[j] # 0 /\ \A k \in RecoverableJobs \ {j} : pendingRecovery'[k] = pendingRecovery[k]
    BY <1>1, <1>2 DEF RecoveryTypeOK
  <1>7. NotForgottenEarly'
    <2> SUFFICES ASSUME NEW i \in 1..Len(records')
                 PROVE  LET k == records'[i].job
                        IN pendingRecovery'[k] # 0 \/ k \in recovered \cup refused \/ attemptsFailed[k] = 4
      BY <1>1 DEF NotForgottenEarly
    <2>1. CASE records'[i].job = j
      BY <1>6, <2>1
    <2>2. CASE records'[i].job # j
      <3>1. i \in 1..Len(records) /\ records'[i] = records[i]
        BY <1>2, <2>2
      <3> QED
        BY <1>6, <2>2, <3>1 DEF NotForgottenEarly
    <2> QED
      BY <2>1, <2>2
  <1>8. \A k \in RecoverableJobs : pendingRecovery'[k] # 0 => records'[pendingRecovery'[k]].job = k
    <2> SUFFICES ASSUME NEW k \in RecoverableJobs, pendingRecovery'[k] # 0
                 PROVE  records'[pendingRecovery'[k]].job = k
      OBVIOUS
    <2>1. CASE k = j
      BY <1>1, <1>2, <2>1 DEF RecoveryTypeOK
    <2>2. CASE k # j
      BY <1>2, <1>6, <2>2
    <2> QED
      BY <2>1, <2>2
  <1>9. \A k \in RecoverableJobs : Tried(k, 0)'
    BY <1>4
  <1> QED
    BY <1>1, <1>3, <1>5, <1>7, <1>8, <1>9

LEMMA AttemptKeeps ==
  ASSUME RecoveryInv, NEW a \in Attempts, AttemptJobRecovery(a) \/ AttemptReturns(a)
  PROVE  RecoveryInv'
  <1> USE RecoveryTypes DEF RecoveryInv
  <1>1. UNCHANGED <<records, pendingRecovery, recovered, refused, attemptsFailed>>
    BY DEF AttemptJobRecovery, AttemptReturns
  <1>2. /\ recoveries' \in [Attempts -> [RecoverableJobs -> RecoveryAt]]
        /\ \A b \in Attempts, j \in RecoverableJobs :
              recoveries'[b][j] = recoveries[b][j] \/ recoveries'[b][j] = "none"
    <2>1. CASE AttemptJobRecovery(a)
      BY <2>1 DEF AttemptJobRecovery, RecoveryTypeOK
    <2>2. CASE AttemptReturns(a)
      BY <2>2 DEF AttemptReturns, RecoveryTypeOK, NoRecoveries, RecoveryAt
    <2> QED
      BY <2>1, <2>2
  <1>3. taken' \in [Attempts -> [RecoverableJobs -> 0..Len(records)]]
        /\ asking' \in [Attempts -> SUBSET RecoverableJobs]
    <2>1. CASE AttemptJobRecovery(a)
      BY <2>1 DEF AttemptJobRecovery, RecoveryTypeOK
    <2>2. CASE AttemptReturns(a)
      BY <2>2 DEF AttemptReturns, RecoveryTypeOK, Nothing
    <2> QED
      BY <2>1, <2>2
  <1>4. RecoveryTypeOK'
    BY <1>1, <1>2, <1>3 DEF RecoveryTypeOK
  <1> HIDE DEF RecoveryInv
  <1> QED
    BY <1>1, <1>2, <1>4, OthersKeep

LEMMA AskKeeps ==
  ASSUME RecoveryInv, NEW a \in Attempts, NEW j \in RecoverableJobs,
         AskHandler(a, j) \/ AskHandlerRefuses(a, j) \/ RecoverJob(a, j) \/ RecoveryEnds(a, j)
  PROVE  RecoveryInv'
  <1> USE RecoveryTypes DEF RecoveryInv, RecoveryGoes, RemoveFromRecovery
  <1>1. CASE AskHandler(a, j)
    <2>1. /\ recoveries' = [recoveries EXCEPT ![a][j] = "connecting"] /\ "connecting" \in RecoveryAt
          /\ asking' = [asking EXCEPT ![a] = @ \ {j}]
          /\ UNCHANGED <<records, pendingRecovery, taken, recovered, refused, attemptsFailed>>
      BY <1>1 DEF AskHandler, RecoveryAt
    <2>2. RecoveryTypeOK'
      BY <2>1, RecoveryMoves DEF RecoveryTypeOK
    <2>3. \A b \in Attempts, k \in RecoverableJobs :
            recoveries'[b][k] = recoveries[b][k] \/ recoveries'[b][k] = "connecting"
      BY <2>1, RecoveryMoves
    <2> HIDE DEF RecoveryInv
    <2> QED
      BY <2>1, <2>2, <2>3, OthersKeep
  <1>2. CASE AskHandlerRefuses(a, j)
    <2>1. RecoveryTypeOK'
      BY <1>2 DEF AskHandlerRefuses, RecoveryTypeOK
    <2>2. UNCHANGED <<records, recoveries, recovered, attemptsFailed>> /\ refused' = refused \cup {j}
      BY <1>2 DEF AskHandlerRefuses
    <2>3. \A k \in RecoverableJobs : pendingRecovery'[k] = IF k = j THEN 0 ELSE pendingRecovery[k]
      BY <1>2 DEF AskHandlerRefuses, RecoveryTypeOK
    <2>4. \A k \in RecoverableJobs : \/ pendingRecovery'[k] = pendingRecovery[k]
                                     \/ pendingRecovery'[k] = 0 /\ k \in refused'
      BY <2>2, <2>3
    <2> HIDE DEF RecoveryInv
    <2> QED
      BY <2>1, <2>2, <2>4, OthersKeep
  <1>3. CASE RecoverJob(a, j)
    <2>1. /\ recoveries' = [recoveries EXCEPT ![a][j] = "recovered"] /\ "recovered" \in RecoveryAt
          /\ recovered' = recovered \cup {j}
          /\ UNCHANGED <<records, pendingRecovery, taken, asking, refused, attemptsFailed>>
      BY <1>3 DEF RecoverJob, RecoveryAt
    <2>2. RecoveryTypeOK'
      BY <2>1, RecoveryMoves DEF RecoveryTypeOK
    <2>3. \A b \in Attempts, k \in RecoverableJobs :
            \/ recoveries'[b][k] = recoveries[b][k]
            \/ recoveries'[b][k] = "recovered" /\ k \in recovered'
      <3>1. recoveries'[a][j] = "recovered" /\ j \in recovered'
        BY <2>1, RecoveryMoves
      <3>2. \A b \in Attempts, k \in RecoverableJobs :
              b # a \/ k # j => recoveries'[b][k] = recoveries[b][k]
        BY <2>1, RecoveryMoves
      <3> QED
        BY <3>1, <3>2
    <2> HIDE DEF RecoveryInv
    <2> QED
      BY <2>1, <2>2, <2>3, OthersKeep
  <1>4. CASE RecoveryEnds(a, j)
    <2>1. /\ recoveries' = [recoveries EXCEPT ![a][j] = "ended"] /\ "ended" \in RecoveryAt
          /\ pendingRecovery' = [pendingRecovery EXCEPT ![j] = 0] /\ j \in recovered
          /\ UNCHANGED <<records, taken, asking, recovered, refused, attemptsFailed>>
      BY <1>4 DEF RecoveryEnds, RecoveryAt
    <2>2. RecoveryTypeOK'
      BY <2>1, RecoveryMoves DEF RecoveryTypeOK
    <2>3. \A b \in Attempts, k \in RecoverableJobs :
            recoveries'[b][k] = recoveries[b][k] \/ recoveries'[b][k] = "ended"
      BY <2>1, RecoveryMoves
    <2>4. \A k \in RecoverableJobs : \/ pendingRecovery'[k] = pendingRecovery[k]
                                     \/ pendingRecovery'[k] = 0 /\ k \in recovered
      <3>1. \A k \in RecoverableJobs : pendingRecovery'[k] = IF k = j THEN 0 ELSE pendingRecovery[k]
        BY <2>1 DEF RecoveryTypeOK
      <3> QED
        BY <2>1, <3>1
    <2> HIDE DEF RecoveryInv
    <2> QED
      BY <2>1, <2>2, <2>3, <2>4, OthersKeep
  <1> QED
    BY <1>1, <1>2, <1>3, <1>4

LEMMA AgeKeeps ==
  ASSUME RecoveryInv, NEW i \in 1..Len(records), RecordAges(i)
  PROVE  RecoveryInv'
  <1> USE RecoveryTypes DEF RecoveryInv
  <1>1. /\ records' = [records EXCEPT ![i].stale = TRUE]
        /\ UNCHANGED <<pendingRecovery, taken, asking, recoveries, recovered, refused, attemptsFailed>>
    BY DEF RecordAges
  <1>2. records[i] \in RecoverableJob /\ records \in Seq(RecoverableJob)
    BY DEF RecoveryTypeOK
  <1>3. [records[i] EXCEPT !.stale = TRUE] \in RecoverableJob
    BY <1>2 DEF RecoverableJob
  <1>4. records' \in Seq(RecoverableJob) /\ Len(records') = Len(records)
    BY <1>1, <1>2, <1>3
  <1>5. \A k \in 1..Len(records) :
          records'[k].job = records[k].job /\ records'[k].tries = records[k].tries
    BY <1>1, <1>2 DEF RecoverableJob
  <1>6. RecoveryTypeOK'
    BY <1>1, <1>4 DEF RecoveryTypeOK
  <1> HIDE DEF RecoveryInv
  <1> QED
    BY <1>1, <1>4, <1>5, <1>6, OthersKeep

\* A failure is counted in attemptsFailed when it comes ...
LEMMA FailureKeeps ==
  ASSUME RecoveryInv, NEW a \in Attempts, NEW j \in RecoverableJobs, RecoverJobFails(a, j)
  PROVE  RecoveryInv'
  <1> USE RecoveryTypes DEF RecoveryInv
  <1>1. /\ recoveries[a][j] = "connecting"
        /\ recoveries' = [recoveries EXCEPT ![a][j] = "failed"] /\ "failed" \in RecoveryAt
        /\ UNCHANGED <<records, pendingRecovery, taken, asking, recovered, refused>>
    BY DEF RecoverJobFails, RecoveryGoes, RecoveryAt
  <1>2. /\ attemptsFailed' \in [RecoverableJobs -> 0..4]
        /\ attemptsFailed'[j] = IF attemptsFailed[j] < 4 THEN attemptsFailed[j] + 1 ELSE 4
        /\ \A k \in RecoverableJobs \ {j} : attemptsFailed'[k] = attemptsFailed[k]
    BY DEF RecoverJobFails, RecoveryTypeOK
  <1>3. RecoveryTypeOK'
    BY <1>1, <1>2, RecoveryMoves DEF RecoveryTypeOK
  <1>4. /\ recoveries'[a][j] = "failed"
        /\ \A b \in Attempts, k \in RecoverableJobs :
              b # a \/ k # j => recoveries'[b][k] = recoveries[b][k]
    <2> HIDE DEF RecoveryInv
    <2>1. RecoveryTypeOK
      BY DEF RecoveryInv
    <2>2. recoveries' = [recoveries EXCEPT ![a][j] = "failed"] /\ "failed" \in RecoveryAt
      BY <1>1
    <2>3. recoveries'[a][j] = "failed" /\ recoveries' \in [Attempts -> [RecoverableJobs -> RecoveryAt]]
      BY <2>1, <2>2, RecoveryMoves
    <2>4. \A b \in Attempts, k \in RecoverableJobs :
            b # a \/ k # j => recoveries'[b][k] = recoveries[b][k]
      BY <2>1, <2>2, RecoveryMoves
    <2> QED
      BY <2>3, <2>4
  <1>5. Failing(j)' = Failing(j) \cup {a} /\ a \notin Failing(j)
    BY <1>1, <1>4 DEF Failing
  <1>6. Cardinality(Failing(j)') = Cardinality(Failing(j)) + 1 /\ Cardinality(Failing(j)) \in Nat
    BY <1>5, FailingFinite, FS_AddElement
  <1>7. \A k \in RecoverableJobs \ {j} : Failing(k)' = Failing(k)
    BY <1>4 DEF Failing
  <1>8. ASSUME NEW k \in RecoverableJobs, NEW n \in Nat, Tried(k, n) PROVE Tried(k, n)'
    <2>1. CASE k = j
      BY <1>2, <1>6, <1>8, <2>1, SMTT(30) DEF Tried
    <2>2. CASE k # j
      BY <1>2, <1>7, <1>8, <2>2 DEF Tried
    <2> QED
      BY <2>1, <2>2
  <1>9. ASSUME NEW i \in 1..Len(records) PROVE Tried(records[i].job, records[i].tries)'
    <2>1. /\ Tried(records[i].job, records[i].tries)
          /\ records[i].job \in RecoverableJobs /\ records[i].tries \in Nat
      OBVIOUS
    <2> QED
      BY <1>1, <1>8, <2>1 DEF Tried, Failing
  <1>10. \A k \in RecoverableJobs : attemptsFailed[k] = 4 => attemptsFailed'[k] = 4
    BY <1>2
  <1>11. NotForgottenEarly'
    BY <1>1, <1>10 DEF NotForgottenEarly
  <1>12. \A b \in Attempts, k \in RecoverableJobs : recoveries'[b][k] = "recovered" => k \in recovered
    BY <1>4
  <1> QED
    BY <1>1, <1>3, <1>8, <1>9, <1>11, <1>12

\* ... and in the record, if there is one by then, when its goroutine goes on.
LEMMA IncrementKeeps ==
  ASSUME RecoveryInv, NEW a \in Attempts, NEW j \in RecoverableJobs, IncrementRecoveryAttempts(a, j)
  PROVE  RecoveryInv'
  <1> USE RecoveryTypes DEF RecoveryInv
  <1> DEFINE p == pendingRecovery[j]
  <1>1. /\ recoveries[a][j] = "failed"
        /\ recoveries' = [recoveries EXCEPT ![a][j] = "ended"] /\ "ended" \in RecoveryAt
        /\ UNCHANGED <<taken, asking, recovered, refused, attemptsFailed>>
    BY DEF IncrementRecoveryAttempts, RecoveryGoes, RecoveryAt
  <1>2. /\ recoveries'[a][j] = "ended" /\ recoveries' \in [Attempts -> [RecoverableJobs -> RecoveryAt]]
        /\ \A b \in Attempts, k \in RecoverableJobs :
              b # a \/ k # j => recoveries'[b][k] = recoveries[b][k]
    <2> HIDE DEF RecoveryInv
    <2>1. RecoveryTypeOK
      BY DEF RecoveryInv
    <2>2. recoveries' = [recoveries EXCEPT ![a][j] = "ended"] /\ "ended" \in RecoveryAt
      BY <1>1
    <2>3. recoveries'[a][j] = "ended" /\ recoveries' \in [Attempts -> [RecoverableJobs -> RecoveryAt]]
      BY <2>1, <2>2, RecoveryMoves
    <2>4. \A b \in Attempts, k \in RecoverableJobs :
            b # a \/ k # j => recoveries'[b][k] = recoveries[b][k]
      BY <2>1, <2>2, RecoveryMoves
    <2> QED
      BY <2>3, <2>4
  <1>3. \A b \in Attempts, k \in RecoverableJobs :
          recoveries'[b][k] = recoveries[b][k] \/ recoveries'[b][k] = "ended"
    BY <1>2
  <1>4. /\ Cardinality(Failing(j)') = Cardinality(Failing(j)) - 1
        /\ Cardinality(Failing(j)) \in Nat \ {0} /\ Cardinality(Failing(j)') \in Nat
    <2>1. a \in Failing(j) /\ Failing(j)' = Failing(j) \ {a}
      BY <1>1, <1>2 DEF Failing
    <2> HIDE DEF RecoveryInv
    <2>2. IsFiniteSet(Failing(j)) /\ Cardinality(Failing(j)) \in Nat
      BY FailingFinite
    <2>3. Cardinality(Failing(j)) # 0
      BY <2>1, <2>2, FS_EmptySet
    <2>4. Cardinality(Failing(j) \ {a}) = Cardinality(Failing(j)) - 1
      BY <2>1, <2>2, FS_RemoveElement
    <2> QED
      BY <2>1, <2>2, <2>3, <2>4
  <1>5. CASE p = 0
    <2>1. UNCHANGED <<records, pendingRecovery>>
      BY <1>5 DEF IncrementRecoveryAttempts
    <2>2. RecoveryTypeOK'
      BY <1>1, <1>2, <2>1 DEF RecoveryTypeOK
    <2> HIDE DEF RecoveryInv
    <2> QED
      BY <1>1, <1>3, <2>1, <2>2, OthersKeep
  <1>6. CASE p # 0 /\ MaxAttemptsExceeded(records[p].tries + 1)
    <2>1. pendingRecovery' = [pendingRecovery EXCEPT ![j] = 0] /\ UNCHANGED records
      BY <1>6 DEF IncrementRecoveryAttempts, RemoveFromRecovery
    <2>2. RecoveryTypeOK'
      BY <1>1, <1>2, <2>1 DEF RecoveryTypeOK
    <2>3. p \in 1..Len(records) /\ records[p].job = j /\ records[p].tries = 3
      BY <1>6 DEF MaxAttemptsExceeded
    <2>4. attemptsFailed[j] = 4
      <3>1. Tried(j, 3) /\ attemptsFailed[j] \in 0..4
        BY <2>3
      <3> QED
        BY <1>4, <3>1 DEF Tried
    <2>5. \A k \in RecoverableJobs : pendingRecovery'[k] = IF k = j THEN 0 ELSE pendingRecovery[k]
      BY <2>1 DEF RecoveryTypeOK
    <2>6. NotForgottenEarly'
      BY <1>1, <2>1, <2>4, <2>5 DEF NotForgottenEarly
    <2>7. ASSUME NEW k \in RecoverableJobs, NEW n \in Nat, Tried(k, n) PROVE Tried(k, n)'
      <3>1. Failing(k)' \subseteq Failing(k)
        BY <1>3 DEF Failing
      <3> QED
        BY <1>1, <2>7, <3>1, FewerFailing
    <2>8. ASSUME NEW i \in 1..Len(records) PROVE Tried(records[i].job, records[i].tries)'
      <3>1. /\ Tried(records[i].job, records[i].tries)
            /\ records[i].job \in RecoverableJobs /\ records[i].tries \in Nat
        OBVIOUS
      <3> QED
        BY <2>1, <2>7, <3>1 DEF Tried, Failing
    <2> QED
      BY <1>1, <1>3, <2>1, <2>2, <2>5, <2>6, <2>7, <2>8
  <1>7. CASE p # 0 /\ ~MaxAttemptsExceeded(records[p].tries + 1)
    <2>1. records' = [records EXCEPT ![p].tries = @ + 1] /\ UNCHANGED pendingRecovery
      BY <1>7 DEF IncrementRecoveryAttempts
    <2>2. /\ p \in 1..Len(records) /\ records[p] \in RecoverableJob /\ records \in Seq(RecoverableJob)
          /\ records[p].job = j /\ records[p].tries + 1 \in 0..3
      <3>1. p \in 1..Len(records) /\ records[p].job = j
        BY <1>7
      <3>2. records[p].tries \in 0..3 /\ records[p].tries + 1 \in 0..3
        BY <1>7, <3>1 DEF MaxAttemptsExceeded
      <3>3. records \in Seq(RecoverableJob) /\ records[p] \in RecoverableJob
        BY <3>1 DEF RecoveryTypeOK
      <3> QED
        BY <3>1, <3>2, <3>3
    <2>3. [records[p] EXCEPT !.tries = @ + 1] \in RecoverableJob
      BY <2>2 DEF RecoverableJob
    <2>4. /\ records' \in Seq(RecoverableJob) /\ Len(records') = Len(records)
          /\ records'[p] = [records[p] EXCEPT !.tries = @ + 1]
          /\ \A i \in 1..Len(records) \ {p} : records'[i] = records[i]
      BY <2>1, <2>2, <2>3
    <2>5. records'[p].job = j /\ records'[p].tries = records[p].tries + 1
      BY <2>2, <2>4 DEF RecoverableJob
    <2>6. RecoveryTypeOK'
      BY <1>1, <1>2, <2>1, <2>4 DEF RecoveryTypeOK
    <2>7. ASSUME NEW k \in RecoverableJobs, NEW n \in Nat, Tried(k, n) PROVE Tried(k, n)'
      <3>1. Failing(k)' \subseteq Failing(k)
        BY <1>3 DEF Failing
      <3> QED
        BY <1>1, <2>7, <3>1, FewerFailing
    <2>8. Tried(records[p].job, records[p].tries)'
      <3>1. Tried(j, records[p].tries) /\ records[p].tries \in Nat /\ attemptsFailed[j] \in Nat
        BY <2>2, SMTT(30)
      <3>2. attemptsFailed[j] = 4 \/ records'[p].tries + Cardinality(Failing(j)') <= attemptsFailed[j]
        BY <1>4, <2>5, <3>1 DEF Tried
      <3> QED
        BY <1>1, <2>1, <2>5, <3>2 DEF Tried, Failing
    <2>9. ASSUME NEW i \in 1..Len(records') PROVE Tried(records[i].job, records[i].tries)'
      <3>1. CASE i = p
        BY <2>1, <2>8, <3>1
      <3>2. CASE i # p
        <4>1. Tried(records'[i].job, records'[i].tries) /\ records'[i].tries \in Nat
              /\ records'[i].job \in RecoverableJobs
          BY <2>4, <3>2
        <4> QED
          BY <2>7, <4>1 DEF Tried, Failing
      <3> QED
        BY <3>1, <3>2
    <2>10. \A i \in 1..Len(records) : records'[i].job = records[i].job
      BY <2>2, <2>4, <2>5
    <2>11. NotForgottenEarly'
      BY <1>1, <2>1, <2>4, <2>10 DEF NotForgottenEarly
    <2> QED
      BY <1>1, <1>3, <2>1, <2>4, <2>6, <2>7, <2>9, <2>10, <2>11
  <1> QED
    BY <1>5, <1>6, <1>7

\* What is kept of the records, whatever recoveries do to them at the same time.
LEMMA RecoveryAlways == RecoverySpec => []RecoveryInv
  <1>1. RecoveryInv /\ [RecoveryNext]_recoveryVars => RecoveryInv'
    <2> SUFFICES ASSUME RecoveryInv, [RecoveryNext]_recoveryVars PROVE RecoveryInv'
      OBVIOUS
    <2>1. CASE UNCHANGED recoveryVars
      BY <2>1 DEF recoveryVars, RecoveryInv, RecoveryTypeOK, Tried, Failing, NotForgottenEarly
    <2>2. CASE RecoveryNext
      BY <2>2, SaveKeeps, AgeKeeps, AttemptKeeps, AskKeeps, FailureKeeps, IncrementKeeps
      DEF RecoveryNext
    <2> QED
      BY <2>1, <2>2
  <1> QED
    BY <1>1, RecoveryInvInit, PTL DEF RecoverySpec

\* For any number of jobs, attempts and records: while recoveries overlap and jobs are saved
\* again, a saved job stays until it is recovered, refused, or failed more than three times.
THEOREM SavedUntilTried == RecoverySpec => []NotForgottenEarly
  <1>1. RecoveryInv => NotForgottenEarly
    BY DEF RecoveryInv
  <1> QED
    BY <1>1, RecoveryAlways, PTL

-------------------------------------------------------------------------------
(* NetworkHandler.  A message that is kept is the last of its type that may    *)
(* still be written.                                                           *)

KeptIsNext ==
    /\ msgs \in Seq(MessageTypes) /\ written \in Seq(1..Len(msgs))
    /\ partialWrite \in 0..Len(msgs)
    /\ partialWrite # 0 => \A i \in 1..Len(written) :
            msgs[written[i]] = msgs[partialWrite] => written[i] < partialWrite
    /\ WrittenOnceInOrder

LEMMA HandKeeps ==
  ASSUME KeptIsNext, NEW type \in MessageTypes,
         WriteSucceeds(type) \/ WriteTemporaryError(type) \/ WriteFails(type)
  PROVE  KeptIsNext'
  <1> DEFINE m == MessageOf(type)
  <1> USE DEF KeptIsNext
  <1>1. /\ msgs' = Append(msgs, type) /\ msgs' \in Seq(MessageTypes)
        /\ Len(msgs) \in Nat /\ Len(msgs') = Len(msgs) + 1
        /\ \A i \in 1..Len(msgs) : msgs'[i] = msgs[i]
        /\ msgs'[Len(msgs) + 1] = type
    <2>1. msgs' = Append(msgs, type)
      BY DEF WriteSucceeds, WriteTemporaryError, WriteFails, Hand
    <2> QED
      BY <2>1
  <1>2. /\ Len(written) \in Nat /\ \A i \in 1..Len(written) : written[i] \in 1..Len(msgs)
        /\ written \in Seq(1..Len(msgs'))
    BY <1>1
  <1>3. KeptFor(type) \in 0..Len(msgs) /\ (KeptFor(type) # 0 => msgs[KeptFor(type)] = type /\ KeptFor(type) = partialWrite)
    BY <1>1 DEF KeptFor
  <1>4. m \in 1..Len(msgs') /\ msgs'[m] = type
    BY <1>1, <1>3 DEF MessageOf
  <1>5. \A i \in 1..Len(written) : msgs'[written[i]] = type => written[i] < m
    BY <1>1, <1>2, <1>3 DEF MessageOf
  <1>6. CASE written' = written
    <2>1. partialWrite' \in {0, m, KeptFor(type)}
      BY DEF WriteSucceeds, WriteTemporaryError, WriteFails, AfterWrite
    <2>2. WrittenOnceInOrder'
      <3>1. \A i \in 1..Len(written) : msgs'[written[i]] = msgs[written[i]]
        BY <1>1, <1>2
      <3> QED
        BY <1>6, <3>1, SMTT(30) DEF WrittenOnceInOrder
    <2>3. KeptFor(type) # 0 => KeptFor(type) = m
      BY DEF MessageOf
    <2> QED
      BY <1>1, <1>2, <1>3, <1>4, <1>5, <1>6, <2>1, <2>2, <2>3
  <1>7. CASE WriteSucceeds(type)
    <2>1. /\ written' = Append(written, m) /\ partialWrite' = 0
          /\ written' \in Seq(1..Len(msgs')) /\ Len(written') = Len(written) + 1
          /\ \A i \in 1..Len(written) : written'[i] = written[i]
          /\ written'[Len(written) + 1] = m
      BY <1>2, <1>4, <1>7 DEF WriteSucceeds, AfterWrite
    <2>2. ASSUME NEW i \in 1..Len(written'), NEW k \in 1..Len(written'), i < k
          PROVE  /\ written'[i] # written'[k]
                 /\ msgs'[written'[i]] = msgs'[written'[k]] => written'[i] < written'[k]
      <3>1. CASE k \in 1..Len(written)
        <4>1. i \in 1..Len(written) /\ written'[i] = written[i] /\ written'[k] = written[k]
          BY <1>2, <2>1, <2>2, <3>1
        <4>2. msgs'[written[i]] = msgs[written[i]] /\ msgs'[written[k]] = msgs[written[k]]
          BY <1>1, <1>2, <3>1, <4>1
        <4> QED
          BY <2>2, <3>1, <4>1, <4>2 DEF WrittenOnceInOrder
      <3>2. CASE k = Len(written) + 1
        <4>1. i \in 1..Len(written) /\ written'[i] = written[i] /\ written'[k] = m
          BY <1>2, <2>1, <2>2, <3>2
        <4>2. written[i] # m
          <5>1. written[i] = m => msgs'[written[i]] = type
            BY <1>4
          <5> QED
            BY <1>2, <1>4, <1>5, <4>1, <5>1
        <4> QED
          BY <1>4, <1>5, <4>1, <4>2
      <3>3. k \in 1..Len(written) \/ k = Len(written) + 1
        BY <1>2, <2>1
      <3> QED
        BY <3>1, <3>2, <3>3
    <2>3. WrittenOnceInOrder'
      BY <2>2 DEF WrittenOnceInOrder
    <2> QED
      BY <1>1, <2>1, <2>3
  <1> QED
    BY <1>6, <1>7 DEF WriteTemporaryError, WriteFails

\* For any number of messages and types and any failures: a message that was kept after a
\* temporary error is not written twice and does not overtake another of its type.
THEOREM MessagesWrittenInOrder == NetworkSpec => []WrittenOnceInOrder
  <1>1. NetworkInit => KeptIsNext
    <2> SUFFICES ASSUME NetworkInit PROVE KeptIsNext
      OBVIOUS
    <2>1. msgs = <<>> /\ written = <<>> /\ Len(msgs) = 0 /\ Len(written) = 0 /\ partialWrite = 0
      BY DEF NetworkInit
    <2> QED
      BY <2>1 DEF KeptIsNext, WrittenOnceInOrder
  <1>2. KeptIsNext /\ [NetworkNext]_networkVars => KeptIsNext'
    <2> SUFFICES ASSUME KeptIsNext, [NetworkNext]_networkVars PROVE KeptIsNext'
      OBVIOUS
    <2>1. CASE UNCHANGED writeVars
      BY <2>1 DEF writeVars, KeptIsNext, WrittenOnceInOrder
    <2>2. CASE \E type \in MessageTypes :
                  WriteSucceeds(type) \/ WriteTemporaryError(type) \/ WriteFails(type)
      BY <2>2, HandKeeps
    <2> QED
      BY <2>1, <2>2 DEF NetworkNext, networkVars, writeVars, SetNetworkPartition, ActivityAges,
        UpdateNetworkActivity, ResolveBegins, LookupSucceeds, LookupFails, ResolveCancelled,
        MonitorStarts, MonitorTicks, PartitionCallbackReturns, MonitorEnds, MonitorStopBegins,
        MonitorStopReturns
  <1>3. KeptIsNext => WrittenOnceInOrder
    BY DEF KeptIsNext
  <1> QED
    BY <1>1, <1>2, <1>3, PTL DEF NetworkSpec


\* What holds of the monitor of a network: once Stop has returned its goroutine is over, or was
\* never started.
MonitorIsOver == monitorStop = "returned" => monitor \in {"none", "ended"}

LEMMA NetworkTypeInit == NetworkInit => NetworkTypeOK /\ MonitorIsOver
  <1> SUFFICES ASSUME NetworkInit PROVE NetworkTypeOK /\ MonitorIsOver
    OBVIOUS
  <1>1. /\ msgs = <<>> /\ written = <<>> /\ Len(msgs) = 0 /\ partialWrite = 0 /\ nilReturned = {}
    BY DEF NetworkInit
  <1>2. /\ msgs \in Seq(MessageTypes) /\ written \in Seq(1..Len(msgs))
        /\ nilReturned \subseteq 1..Len(msgs) /\ partialWrite \in 0..Len(msgs)
    BY <1>1
  <1>3. /\ partitioned \in BOOLEAN /\ inactive \in BOOLEAN /\ dnsFailures \in 0..MaxWrites
        /\ resolving \in [Resolvers -> [active : BOOLEAN, retries : 0..MaxDNSRetries]]
    <2>1. [active |-> FALSE, retries |-> 0] \in [active : BOOLEAN, retries : 0..MaxDNSRetries]
      BY NetworkAssumption
    <2>2. 0 \in 0..MaxWrites
      BY NetworkAssumption
    <2> QED
      BY <2>1, <2>2 DEF NetworkInit
  <1>4. monitor = "none" /\ monitorStop = "not called"
    BY DEF NetworkInit
  <1> QED
    BY <1>2, <1>3, <1>4 DEF NetworkTypeOK, MonitorIsOver

LEMMA WriteKeepsType ==
  ASSUME NetworkTypeOK, NEW type \in MessageTypes,
         WriteSucceeds(type) \/ WriteTemporaryError(type) \/ WriteFails(type)
  PROVE  NetworkTypeOK'
  <1>1. /\ msgs' = Append(msgs, type) /\ msgs' \in Seq(MessageTypes)
        /\ Len(msgs) \in Nat /\ Len(msgs') = Len(msgs) + 1
        /\ partialWrite \in 0..Len(msgs) /\ nilReturned \subseteq 1..Len(msgs)
    <2>1. msgs' = Append(msgs, type)
      BY DEF WriteSucceeds, WriteTemporaryError, WriteFails, Hand
    <2>2. /\ msgs \in Seq(MessageTypes)
          /\ partialWrite \in 0..Len(msgs) /\ nilReturned \subseteq 1..Len(msgs)
      BY DEF NetworkTypeOK
    <2> QED
      BY <2>1, <2>2
  <1>2. KeptFor(type) \in 0..Len(msgs) /\ MessageOf(type) \in 1..Len(msgs')
    BY <1>1 DEF KeptFor, MessageOf
  <1>3. written \in Seq(1..Len(msgs')) /\ written' \in Seq(1..Len(msgs'))
    <2>1. written \in Seq(1..Len(msgs))
      BY DEF NetworkTypeOK
    <2>2. written \in Seq(1..Len(msgs'))
      <3>1. Len(written) \in Nat /\ \A i \in 1..Len(written) : written[i] \in 1..Len(msgs)
        BY <2>1
      <3> QED
        BY <1>1, <2>1, <3>1
    <2>3. written' = written \/ written' = Append(written, MessageOf(type))
      BY DEF WriteSucceeds, WriteTemporaryError, WriteFails
    <2>4. \A S : \A s \in Seq(S), e \in S : Append(s, e) \in Seq(S)
      OBVIOUS
    <2> QED
      BY <1>2, <2>2, <2>3, <2>4
  <1>4. nilReturned' \subseteq 1..Len(msgs') /\ partialWrite' \in 0..Len(msgs')
    <2>1. /\ nilReturned' \in {nilReturned, nilReturned \cup {Len(msgs) + 1}}
          /\ partialWrite' \in {0, MessageOf(type), KeptFor(type)}
      BY DEF WriteSucceeds, WriteTemporaryError, WriteFails, AfterWrite
    <2> QED
      BY <1>1, <1>2, <2>1
  <1>5. partitioned' \in BOOLEAN /\ inactive' \in BOOLEAN
    BY DEF WriteSucceeds, WriteTemporaryError, WriteFails, NetworkTypeOK
  <1>6. UNCHANGED <<resolving, dnsFailures, monitor, monitorStop>>
    BY DEF WriteSucceeds, WriteTemporaryError, WriteFails, dnsVars, netMonitorVars
  <1> QED
    BY <1>1, <1>3, <1>4, <1>5, <1>6 DEF NetworkTypeOK

LEMMA LookupKeepsType ==
  ASSUME NetworkTypeOK, NEW r \in Resolvers,
         ResolveBegins(r) \/ LookupSucceeds(r) \/ LookupFails(r) \/ ResolveCancelled(r)
  PROVE  NetworkTypeOK'
  <1>1. UNCHANGED <<msgs, written, nilReturned, partialWrite, partitioned, inactive, monitor,
                    monitorStop>>
    BY DEF ResolveBegins, LookupSucceeds, LookupFails, ResolveCancelled, writeVars, netMonitorVars
  <1>2. dnsFailures' \in 0..MaxWrites
    <2>1. \/ dnsFailures' \in {0, dnsFailures}
          \/ dnsFailures < MaxWrites /\ dnsFailures' = dnsFailures + 1
      BY DEF ResolveBegins, LookupSucceeds, LookupFails, ResolveCancelled
    <2>2. dnsFailures \in 0..MaxWrites
      BY DEF NetworkTypeOK
    <2> QED
      BY <2>1, <2>2, NetworkAssumption
  <1>3. resolving' \in [Resolvers -> [active : BOOLEAN, retries : 0..MaxDNSRetries]]
    <2> DEFINE idle == [active |-> FALSE, retries |-> 0]
               next == [resolving[r] EXCEPT !.retries = @ + 1]
    <2>1. resolving[r] \in [active : BOOLEAN, retries : 0..MaxDNSRetries]
      BY DEF NetworkTypeOK
    <2>2. idle \in [active : BOOLEAN, retries : 0..MaxDNSRetries]
      BY NetworkAssumption
    <2>3. resolving[r].retries + 1 < MaxDNSRetries
          => next \in [active : BOOLEAN, retries : 0..MaxDNSRetries]
      BY <2>1, NetworkAssumption
    <2>4. [active |-> TRUE, retries |-> 0] \in [active : BOOLEAN, retries : 0..MaxDNSRetries]
      BY NetworkAssumption
    <2>5. CASE ResolveBegins(r)
      BY <2>4, <2>5 DEF ResolveBegins, NetworkTypeOK
    <2>6. CASE LookupSucceeds(r) \/ ResolveCancelled(r)
      BY <2>2, <2>6 DEF LookupSucceeds, ResolveCancelled, Resolved, NetworkTypeOK
    <2>7. CASE LookupFails(r)
      BY <2>2, <2>3, <2>7 DEF LookupFails, Resolved, NetworkTypeOK
    <2> QED
      BY <2>5, <2>6, <2>7
  <1> QED
    BY <1>1, <1>2, <1>3 DEF NetworkTypeOK

\* However the monitor's tick, its callback and Stop interleave, the callback does not run after
\* Stop has returned: Stop waits for the goroutine, and none is started any more.
THEOREM NeverCalledAfterStop == NetworkSpec => [](NetworkTypeOK /\ NoCallbackAfterStop)
  <1>1. NetworkTypeOK /\ MonitorIsOver /\ [NetworkNext]_networkVars
        => (NetworkTypeOK /\ MonitorIsOver)'
    <2> SUFFICES ASSUME NetworkTypeOK, MonitorIsOver, [NetworkNext]_networkVars
                 PROVE  (NetworkTypeOK /\ MonitorIsOver)'
      OBVIOUS
    <2>1. CASE UNCHANGED networkVars
      BY <2>1 DEF networkVars, NetworkTypeOK, MonitorIsOver
    <2>2. CASE \E type \in MessageTypes :
                  WriteSucceeds(type) \/ WriteTemporaryError(type) \/ WriteFails(type)
      <3>1. UNCHANGED <<monitor, monitorStop>>
        BY <2>2 DEF WriteSucceeds, WriteTemporaryError, WriteFails, netMonitorVars
      <3> QED
        BY <2>2, <3>1, WriteKeepsType DEF MonitorIsOver
    <2>3. CASE \E r \in Resolvers :
                  ResolveBegins(r) \/ LookupSucceeds(r) \/ LookupFails(r) \/ ResolveCancelled(r)
      <3>1. UNCHANGED <<monitor, monitorStop>>
        BY <2>3 DEF ResolveBegins, LookupSucceeds, LookupFails, ResolveCancelled, netMonitorVars
      <3> QED
        BY <2>3, <3>1, LookupKeepsType DEF MonitorIsOver
    <2>4. CASE (\E detected \in BOOLEAN : SetNetworkPartition(detected))
               \/ ActivityAges \/ UpdateNetworkActivity
      BY <2>4 DEF SetNetworkPartition, ActivityAges, UpdateNetworkActivity, writeVars, dnsVars,
         netMonitorVars, NetworkTypeOK, MonitorIsOver
    <2>5. CASE MonitorStarts \/ MonitorTicks \/ PartitionCallbackReturns \/ MonitorEnds
               \/ MonitorStopBegins \/ MonitorStopReturns
      <3>1. UNCHANGED <<msgs, written, nilReturned, partialWrite, partitioned, inactive, resolving,
                        dnsFailures>>
        BY <2>5 DEF MonitorStarts, MonitorTicks, PartitionCallbackReturns, MonitorEnds,
           MonitorStopBegins, MonitorStopReturns, writeVars, dnsVars
      <3>2. /\ monitor' \in {"none", "waiting", "calling", "ended"}
            /\ monitorStop' \in {"not called", "waiting", "returned"}
            /\ MonitorIsOver'
        BY <2>5 DEF MonitorStarts, MonitorTicks, PartitionCallbackReturns, MonitorEnds,
           MonitorStopBegins, MonitorStopReturns, MonitorDone, NetworkTypeOK, MonitorIsOver
      <3> QED
        BY <3>1, <3>2 DEF NetworkTypeOK
    <2> QED
      BY <2>1, <2>2, <2>3, <2>4, <2>5 DEF NetworkNext
  <1>2. MonitorIsOver => NoCallbackAfterStop
    BY DEF MonitorIsOver, NoCallbackAfterStop
  <1> QED
    BY <1>1, <1>2, NetworkTypeInit, PTL DEF NetworkSpec

-------------------------------------------------------------------------------
(* ResourceLimiter.  As long as no throttling overlapped another, one        *)
(* goroutine at most has a value to put back, and that is all the processors.*)

AllPutBack ==
    /\ \A b \in Restorers : putBack[b] \in {0, CPUs}
    /\ \A b, c \in Restorers : putBack[b] # 0 /\ putBack[c] # 0 => b = c
    /\ checking = "throttling" => currentProcs = CPUs /\ \A b \in Restorers : putBack[b] = 0
    /\ Unthrottled => procs = CPUs

ThrottlingInv == DOMAIN putBack = Restorers /\ (~overlapped => AllPutBack)

\* A step that neither throttles nor puts anything back.
LEMMA ThrottlingUntouched ==
  ASSUME ThrottlingInv, UNCHANGED <<procs, currentProcs, putBack, overlapped>>,
         checking # "throttling", checking' # "throttling"
  PROVE  ThrottlingInv'
  BY DEF ThrottlingInv, AllPutBack, Unthrottled

LEMMA ThrottleKeeps ==
  ASSUME ThrottlingInv, NEW usage \in Usages, CheckCPUUsage(usage)
  PROVE  ThrottlingInv'
  <1>1. CASE Throttle(usage)
    <2>1. /\ checking = "cpu" /\ checking' = "throttling" /\ currentProcs' = procs
          /\ UNCHANGED putBack
          /\ ~overlapped' => ~overlapped /\ \A b \in Restorers : putBack[b] = 0
      BY <1>1 DEF CheckCPUUsage, Throttle
    <2>2. ~overlapped' => procs = CPUs
      BY <2>1 DEF ThrottlingInv, AllPutBack, Unthrottled
    <2> QED
      BY <2>1, <2>2 DEF ThrottlingInv, AllPutBack, Unthrottled
  <1>2. CASE checking' = "descriptors" /\ UNCHANGED procsVars
    BY <1>2, ThrottlingUntouched DEF CheckCPUUsage, procsVars
  <1> QED
    BY <1>1, <1>2 DEF CheckCPUUsage

LEMMA LoweringKeeps ==
  ASSUME ThrottlingInv, NEW b \in Restorers, ProcsLowered(b) \/ RestoreProcs(b)
  PROVE  ThrottlingInv'
  <1>1. CASE ProcsLowered(b)
    <2>1. /\ checking = "throttling" /\ checking' = "descriptors" /\ UNCHANGED overlapped
          /\ putBack' = [putBack EXCEPT ![b] = currentProcs]
      BY <1>1 DEF ProcsLowered
    <2>2. ASSUME ~overlapped
          PROVE  AllPutBack'
      <3>1. currentProcs = CPUs /\ \A c \in Restorers : putBack[c] = 0
        BY <2>1, <2>2 DEF ThrottlingInv, AllPutBack
      <3>2. putBack'[b] = CPUs /\ \A c \in Restorers \ {b} : putBack'[c] = 0
        BY <2>1, <3>1 DEF ThrottlingInv
      <3>3. CPUs # 0
        BY LimiterAssumption
      <3> QED
        BY <2>1, <3>2, <3>3 DEF AllPutBack, Unthrottled
    <2> QED
      BY <2>1, <2>2 DEF ThrottlingInv
  <1>2. CASE RestoreProcs(b)
    <2>1. /\ putBack[b] # 0 /\ procs' = putBack[b] /\ putBack' = [putBack EXCEPT ![b] = 0]
          /\ UNCHANGED <<checking, currentProcs, overlapped>>
      BY <1>2 DEF RestoreProcs
    <2>2. ASSUME ~overlapped
          PROVE  AllPutBack'
      <3>1. procs' = CPUs /\ checking # "throttling"
            /\ \A c \in Restorers \ {b} : putBack[c] = 0
        BY <2>1, <2>2 DEF ThrottlingInv, AllPutBack
      <3>2. \A c \in Restorers : putBack'[c] = 0
        BY <2>1, <3>1 DEF ThrottlingInv
      <3> QED
        BY <2>1, <3>1, <3>2 DEF AllPutBack, Unthrottled
    <2> QED
      BY <2>1, <2>2 DEF ThrottlingInv
  <1> QED
    BY <1>1, <1>2

\* For any usages, quota, number of processors and interval between the checks, however long
\* these take: once nothing is being lowered or left to be put back the process has all its
\* processors again, unless a throttling began before another's value was put back.
THEOREM ProcsAlwaysRestored == LimiterSpec => []ProcsRestored
  <1>1. LimiterInit => ThrottlingInv
    BY DEF LimiterInit, ThrottlingInv, AllPutBack, Unthrottled
  <1>2. ThrottlingInv /\ [LimiterNext]_limiterVars => ThrottlingInv'
    <2> SUFFICES ASSUME ThrottlingInv, [LimiterNext]_limiterVars PROVE ThrottlingInv'
      OBVIOUS
    <2>1. CASE UNCHANGED <<checking, procs, currentProcs, putBack, overlapped>>
      BY <2>1 DEF ThrottlingInv, AllPutBack, Unthrottled
    <2>2. CASE Tick \/ LimiterStops \/ MemoryCollected
      BY <2>2, ThrottlingUntouched DEF Tick, LimiterStops, MemoryCollected, procsVars
    <2>3. ASSUME NEW over \in BOOLEAN, CheckMemoryUsage(over) \/ CheckFileDescriptors(over)
          PROVE  ThrottlingInv'
      BY <2>3, ThrottlingUntouched DEF CheckMemoryUsage, CheckFileDescriptors, procsVars
    <2> QED
      BY <2>1, <2>2, <2>3, ThrottleKeeps, LoweringKeeps
      DEF LimiterNext, limiterVars, procsVars, Tenth, LimitedExecute, LimitedReturns
  <1>3. ThrottlingInv => ProcsRestored
    BY DEF ThrottlingInv, AllPutBack, ProcsRestored
  <1> QED
    BY <1>1, <1>2, <1>3, PTL DEF LimiterSpec


-------------------------------------------------------------------------------
(* ShutdownHookManager.  That sortHooks sorts, whatever the list, comes first: *)
(* its loop over all pairs as one loop over the numbers of the pairs.          *)

LEMMA NextPair ==
  ASSUME NEW n \in Nat \ {0}, NEW q \in Nat
  PROVE  /\ q \div n \in Nat /\ q % n \in 0..(n - 1)
         /\ (q % n) + 1 < n => (q + 1) \div n = q \div n /\ (q + 1) % n = (q % n) + 1
         /\ (q % n) + 1 = n => (q + 1) \div n = (q \div n) + 1 /\ (q + 1) % n = 0
  <1>1. q \div n \in Nat /\ q % n \in 0..(n - 1) /\ q = (n * (q \div n)) + (q % n)
    OBVIOUS
  <1>2. /\ (q + 1) \div n \in Nat /\ (q + 1) % n \in 0..(n - 1)
        /\ q + 1 = (n * ((q + 1) \div n)) + ((q + 1) % n)
    OBVIOUS
  <1>3. ASSUME NEW a \in Nat, NEW b \in 0..(n - 1), NEW c \in Nat, NEW d \in 0..(n - 1),
               n * a + b = n * c + d
        PROVE  a = c /\ b = d
    <2>1. ~(a + 1 <= c)
      <3>1. a + 1 <= c => n * (a + 1) <= n * c
        OBVIOUS
      <3>2. n * (a + 1) = n * a + n
        OBVIOUS
      <3> QED
        BY <1>3, <3>1, <3>2
    <2>2. ~(c + 1 <= a)
      <3>1. c + 1 <= a => n * (c + 1) <= n * a
        OBVIOUS
      <3>2. n * (c + 1) = n * c + n
        OBVIOUS
      <3> QED
        BY <1>3, <3>1, <3>2
    <2>3. a = c
      BY <2>1, <2>2
    <2> QED
      BY <1>3, <2>3
  <1> DEFINE a == q \div n   b == q % n   c == (q + 1) \div n   d == (q + 1) % n
  <1>4. a \in Nat /\ b \in 0..(n - 1) /\ q = n * a + b
    BY <1>1
  <1>5. c \in Nat /\ d \in 0..(n - 1) /\ q + 1 = n * c + d
    BY <1>2
  <1> HIDE DEF a, b, c, d
  <1>6. b + 1 < n => c = a /\ d = b + 1
    <2> SUFFICES ASSUME b + 1 < n PROVE c = a /\ d = b + 1
      OBVIOUS
    <2>1. b + 1 \in 0..(n - 1) /\ n * a + (b + 1) = n * c + d
      BY <1>4, <1>5
    <2> QED
      BY <1>3, <1>4, <1>5, <2>1
  <1>7. b + 1 = n => c = a + 1 /\ d = 0
    <2> SUFFICES ASSUME b + 1 = n PROVE c = a + 1 /\ d = 0
      OBVIOUS
    <2>1. n * (a + 1) = n * a + n
      BY <1>4
    <2>2. n * (a + 1) + 0 = n * c + d /\ a + 1 \in Nat /\ 0 \in 0..(n - 1)
      BY <1>4, <1>5, <2>1
    <2> QED
      BY <1>3, <1>5, <2>2
  <1> QED
    BY <1>4, <1>6, <1>7 DEF a, b, c, d

\* After the pairs up to (i + 1, j): the first i hooks are where they belong, and none of the
\* first j comes before the next.
SortedUpTo(hooks, n, i, j) ==
    /\ \A a \in 1..i, b \in 1..n : a < b => Before(hooks[a], hooks[b])
    /\ \A b \in 1..j : i + 1 < b => Before(hooks[i + 1], hooks[b])

LEMMA ExchangeKeeps ==
  ASSUME NEW n \in Nat, NEW hooks \in [1..n -> HookNames], NEW i \in 1..n, NEW j \in 1..n
  PROVE  /\ Exchange(hooks, i, j) \in [1..n -> HookNames]
         /\ Range(Exchange(hooks, i, j)) = Range(hooks)
  <1> DEFINE new == [hooks EXCEPT ![i] = hooks[j], ![j] = hooks[i]]
  <1>1. new \in [1..n -> HookNames] /\ \A k \in 1..n :
            new[k] = IF k = j THEN hooks[i] ELSE IF k = i THEN hooks[j] ELSE hooks[k]
    OBVIOUS
  <1> HIDE DEF new
  <1>2. Range(new) = Range(hooks)
    <2>1. ASSUME NEW x \in Range(new) PROVE x \in Range(hooks)
      BY <1>1, <2>1 DEF Range
    <2>2. ASSUME NEW x \in Range(hooks) PROVE x \in Range(new)
      <3>1. PICK k \in 1..n : x = hooks[k]
        BY <2>2 DEF Range
      <3>2. x = new[IF k = i THEN j ELSE IF k = j THEN i ELSE k]
        BY <1>1, <3>1
      <3> QED
        BY <1>1, <3>1, <3>2 DEF Range
    <2> QED
      BY <2>1, <2>2
  <1> QED
    BY <1>1, <1>2 DEF Exchange, new

LEMMA ExchangeSorts ==
  ASSUME NEW n \in Nat, NEW hooks \in [1..n -> HookNames], NEW i \in Nat, NEW j \in 0..(n - 1),
         SortedUpTo(hooks, n, i, j)
  PROVE  LET next == IF i + 1 < j + 1 THEN Exchange(hooks, i + 1, j + 1) ELSE hooks
         IN  SortedUpTo(next, n, i, j + 1)
  <1> DEFINE next == IF i + 1 < j + 1 THEN Exchange(hooks, i + 1, j + 1) ELSE hooks
  <1> SUFFICES SortedUpTo(next, n, i, j + 1)
    OBVIOUS
  <1>1. CASE ~(i + 1 < j + 1)
    BY <1>1 DEF SortedUpTo
  <1>2. CASE i + 1 < j + 1
    <2>1. i + 1 \in 1..n /\ j + 1 \in 1..n
      BY <1>2
    <2>2. \A h, g, k \in HookNames :
             /\ Before(h, g) \/ Before(g, h)
             /\ Before(h, g) /\ Before(g, k) => Before(h, k)
             /\ Before(h, h)
      BY HooksAssumption DEF Before
    <2>3. CASE Before(hooks[i + 1], hooks[j + 1])
      <3>1. next = hooks
        BY <1>2, <2>3 DEF Exchange
      <3> HIDE DEF next
      <3> QED
        BY <2>1, <2>3, <3>1 DEF SortedUpTo
    <2>4. CASE ~Before(hooks[i + 1], hooks[j + 1])
      <3>1. /\ next \in [1..n -> HookNames]
            /\ next[i + 1] = hooks[j + 1] /\ next[j + 1] = hooks[i + 1]
            /\ \A k \in 1..n : k # i + 1 /\ k # j + 1 => next[k] = hooks[k]
        <4>1. next = [hooks EXCEPT ![i + 1] = hooks[j + 1], ![j + 1] = hooks[i + 1]]
          BY <1>2, <2>4 DEF Exchange
        <4> QED
          BY <1>2, <2>1, <4>1
      <3> HIDE DEF next
      <3>2. Before(hooks[j + 1], hooks[i + 1])
        BY <2>1, <2>2, <2>4
      <3>3. ASSUME NEW a \in 1..i, NEW b \in 1..n, a < b
            PROVE  Before(next[a], next[b])
        <4>1. a \in 1..n /\ a # i + 1 /\ a # j + 1 /\ a < i + 1 /\ a < j + 1
          BY <1>2, <2>1
        <4>2. next[a] = hooks[a]
          BY <3>1, <4>1
        <4> QED
          BY <2>1, <3>1, <3>3, <4>1, <4>2 DEF SortedUpTo
      <3>4. ASSUME NEW b \in 1..(j + 1), i + 1 < b
            PROVE  Before(next[i + 1], next[b])
        <4>1. CASE b = j + 1
          BY <3>1, <3>2, <4>1
        <4>2. CASE b # j + 1
          <5>1. b \in 1..j /\ b \in 1..n /\ b # i + 1
            BY <3>4, <4>2
          <5>2. Before(hooks[i + 1], hooks[b]) /\ next[b] = hooks[b]
            BY <3>1, <3>4, <4>2, <5>1 DEF SortedUpTo
          <5> QED
            BY <2>1, <2>2, <3>1, <3>2, <5>1, <5>2
        <4> QED
          BY <4>1, <4>2
      <3> QED
        BY <3>3, <3>4 DEF SortedUpTo
    <2> QED
      BY <2>3, <2>4
  <1> QED
    BY <1>1, <1>2

\* sortHooks() keeps the hooks and puts them in the order of their priorities.
LEMMA SortHooksSorts ==
  ASSUME NEW hooks \in Seq(HookNames)
  PROVE  /\ SortHooks(hooks) \in Seq(HookNames) /\ Len(SortHooks(hooks)) = Len(hooks)
         /\ Range(SortHooks(hooks)) = Range(hooks)
         /\ \A i, j \in 1..Len(hooks) :
                i < j => Before(SortHooks(hooks)[i], SortHooks(hooks)[j])
  <1> DEFINE n == Len(hooks)
             V == [1..n -> HookNames]
             Pair(h, p) == LET i == ((p - 1) \div n) + 1
                               j == ((p - 1) % n) + 1
                           IN  IF i < j THEN Exchange(h, i, j) ELSE h
             Loop(f) == [p \in 0..n * n |->
                            IF p = 0 THEN hooks
                            ELSE LET i == ((p - 1) \div n) + 1
                                     j == ((p - 1) % n) + 1
                                 IN  IF i < j THEN Exchange(f[p - 1], i, j) ELSE f[p - 1]]
             G == [s \in Nat \X V |-> IF s[1] \in 1..(n * n) THEN Pair(s[2], s[1]) ELSE s[2]]
             passed == CHOOSE f : f = Loop(f)
  <1>1. SortHooks(hooks) = passed[n * n]
    BY DEF SortHooks
  <1>2. n \in Nat /\ n * n \in Nat /\ hooks \in V
    OBVIOUS
  <1>3. ASSUME NEW p \in 1..(n * n), NEW h \in V
        PROVE  /\ n # 0 /\ p - 1 \in Nat
               /\ (p - 1) \div n \in Nat /\ (p - 1) % n \in 0..(n - 1)
               /\ Pair(h, p) \in V /\ Range(Pair(h, p)) = Range(h)
    <2>1. n # 0 /\ p - 1 \in Nat
      <3>1. n = 0 => n * n = 0
        BY <1>2
      <3> QED
        BY <1>2, <3>1
    <2>2. (p - 1) \div n \in Nat /\ (p - 1) % n \in 0..(n - 1)
      <3> HIDE DEF n
      <3> QED
        BY <1>2, <2>1, NextPair
    <2> DEFINE i == ((p - 1) \div n) + 1   j == ((p - 1) % n) + 1
    <2>3. i \in Nat \ {0} /\ j \in 1..n
      BY <1>2, <2>1, <2>2
    <2> HIDE DEF i, j
    <2>4. Pair(h, p) = IF i < j THEN Exchange(h, i, j) ELSE h
      BY DEF i, j
    <2>5. i < j => i \in 1..n
      BY <1>2, <2>3
    <2>6. Pair(h, p) \in V /\ Range(Pair(h, p)) = Range(h)
      <3> HIDE DEF n, Pair
      <3> QED
        BY <1>2, <2>3, <2>4, <2>5, ExchangeKeeps
    <2> QED
      BY <2>1, <2>2, <2>6
  <1>4. \E f : f = Loop(f)
    <2>1. G \in StepFunctions(V)
      <3>1. \A s \in Nat \X V : s[2] \in V
        OBVIOUS
      <3>2. \A p \in 1..(n * n), h \in V : Pair(h, p) \in V
        BY <1>3
      <3> HIDE DEF V, Pair, n
      <3> QED
        BY <3>1, <3>2 DEF StepFunctions
    <2>2. PICK f : Follows(f, V, hooks, G, n * n)
      <3> HIDE DEF G, V, n
      <3> QED
        BY <1>2, <2>1, RecursionExists
    <2>3. ASSUME NEW p \in 1..(n * n)
          PROVE  f[p] = Pair(f[p - 1], p)
      <3> HIDE DEF V, Pair, n
      <3>1. p \in Nat /\ p - 1 \in 0..(n * n) /\ f[p - 1] \in V
        BY <1>2, <2>2 DEF Follows
      <3> QED
        BY <2>2, <3>1 DEF Follows
    <2>4. f[0] = hooks /\ f = [p \in 0..(n * n) |-> f[p]] /\ \A p \in 0..(n * n) : p # 0 => p \in 1..(n * n)
      <3> HIDE DEF V, n, G
      <3> QED
        BY <1>2, <2>2 DEF Follows
    <2>5. f = [p \in 0..(n * n) |-> IF p = 0 THEN hooks ELSE Pair(f[p - 1], p)]
      <3> HIDE DEF n, Pair
      <3> QED
        BY <2>3, <2>4
    <2> QED
      BY <2>5
  <1>5. passed = Loop(passed)
    BY <1>4
  <1> HIDE DEF passed
  <1>6. passed[0] = hooks /\ \A p \in 1..(n * n) : passed[p] = Pair(passed[p - 1], p)
    <2>1. 0 \in 0..(n * n) /\ \A p \in 1..(n * n) : p \in 0..(n * n) /\ p # 0
      <3> HIDE DEF n
      <3> QED
        BY <1>2
    <2>2. /\ Loop(passed)[0] = hooks
          /\ \A p \in 1..(n * n) : Loop(passed)[p] = Pair(passed[p - 1], p)
      BY <2>1
    <2> HIDE DEF Loop
    <2> QED
      BY <1>5, <2>2
  <1> DEFINE Kept == {h \in V : Range(h) = Range(hooks)}
             After(p) == n # 0 => SortedUpTo(passed[p], n, p \div n, p % n)
             T == {p \in Nat : p <= n * n => passed[p] \in Kept /\ After(p)}
  <1>7. 0 \in T
    <2>1. n # 0 => 0 \div n = 0 /\ 0 % n = 0
      <3> HIDE DEF n
      <3> QED
        BY <1>2
    <2>2. After(0)
      <3> HIDE DEF n
      <3> QED
        BY <1>2, <2>1 DEF SortedUpTo
    <2> QED
      BY <1>2, <1>6, <2>2
  <1>8. ASSUME NEW p \in T PROVE p + 1 \in T
    <2> SUFFICES ASSUME p + 1 <= n * n
                 PROVE  passed[p + 1] \in Kept /\ After(p + 1)
      OBVIOUS
    <2> DEFINE q == p + 1   i == p \div n   j == p % n
    <2>1. p \in Nat /\ q \in 1..(n * n) /\ q - 1 = p /\ passed[p] \in Kept /\ After(p)
      <3> HIDE DEF n, After, Kept
      <3> QED
        BY <1>2, <1>8
    <2>2. passed[q] = Pair(passed[p], q)
      <3> HIDE DEF Pair, n
      <3> QED
        BY <1>6, <2>1
    <2>3. n # 0 /\ i \in Nat /\ j \in 0..(n - 1) /\ passed[q] \in Kept
      <3> HIDE DEF Pair, n
      <3> QED
        BY <1>3, <2>1, <2>2
    <2>4. SortedUpTo(passed[q], n, i, j + 1)
      <3>1. Pair(passed[p], q) = IF i + 1 < j + 1 THEN Exchange(passed[p], i + 1, j + 1) ELSE passed[p]
        BY <2>1
      <3>2. SortedUpTo(passed[p], n, i, j) /\ passed[p] \in V
        BY <2>1, <2>3
      <3> HIDE DEF Pair, n, i, j
      <3> QED
        BY <1>2, <2>2, <2>3, <3>1, <3>2, ExchangeSorts
    <2>5. /\ j + 1 < n => q \div n = i /\ q % n = j + 1
          /\ j + 1 = n => q \div n = i + 1 /\ q % n = 0
      <3> HIDE DEF n
      <3> QED
        BY <1>2, <2>1, <2>3, NextPair
    <2>6. After(q)
      <3>1. CASE j + 1 < n
        BY <2>4, <2>5, <3>1
      <3>2. CASE j + 1 = n
        <4>1. SortedUpTo(passed[q], n, i + 1, 0)
          <5> HIDE DEF n, i, j, q
          <5> QED
            BY <1>2, <2>3, <2>4, <3>2 DEF SortedUpTo
        <4> QED
          BY <2>5, <3>2, <4>1
      <3>3. j + 1 < n \/ j + 1 = n
        <4> HIDE DEF n, i, j
        <4> QED
          BY <1>2, <2>3
      <3> QED
        BY <3>1, <3>2, <3>3
    <2> QED
      BY <2>3, <2>6
  <1>9. T = Nat
    <2>1. T \subseteq Nat
      OBVIOUS
    <2> HIDE DEF T
    <2> QED
      BY <1>7, <1>8, <2>1, SetInduction
  <1>10. passed[n * n] \in Kept /\ After(n * n)
    <2>1. n * n \in T
      BY <1>2, <1>9
    <2> HIDE DEF n, After, Kept
    <2> QED
      BY <1>2, <2>1
  <1>11. n # 0 => (n * n) \div n = n
    <2> HIDE DEF n
    <2> QED
      BY <1>2
  <1>12. ASSUME NEW i \in 1..n, NEW j \in 1..n, i < j
         PROVE  Before(passed[n * n][i], passed[n * n][j])
    <2>1. n # 0
      BY <1>2, <1>12
    <2>2. SortedUpTo(passed[n * n], n, n, (n * n) % n)
      BY <1>10, <1>11, <2>1
    <2> HIDE DEF n
    <2> QED
      BY <1>12, <2>2 DEF SortedUpTo
  <1>13. passed[n * n] \in Seq(HookNames) /\ Len(passed[n * n]) = n
    BY <1>2, <1>10
  <1> QED
    BY <1>1, <1>10, <1>12, <1>13


LEMMA RemovedIsShifted ==
  ASSUME NEW S, NEW s \in Seq(S), NEW i \in 1..Len(s)
  PROVE  /\ RemoveAt(s, i) \in Seq(S) /\ Len(RemoveAt(s, i)) = Len(s) - 1
         /\ \A k \in 1..(Len(s) - 1) :
                RemoveAt(s, i)[k] = IF k < i THEN s[k] ELSE s[k + 1]
  <1> DEFINE before == SubSeq(s, 1, i - 1)   after == SubSeq(s, i + 1, Len(s))
  <1>1. Len(s) \in Nat /\ \A k \in 1..Len(s) : s[k] \in S
    OBVIOUS
  <1>2. /\ before \in Seq(S) /\ Len(before) = i - 1
        /\ \A k \in 1..(i - 1) : before[k] = s[k]
    BY <1>1
  <1>3. /\ after \in Seq(S) /\ Len(after) = Len(s) - i
        /\ \A k \in 1..(Len(s) - i) : after[k] = s[k + i]
    BY <1>1
  <1> HIDE DEF before, after
  <1>4. /\ before \o after \in Seq(S) /\ Len(before \o after) = Len(s) - 1
        /\ \A k \in 1..(Len(s) - 1) :
              (before \o after)[k] = IF k < i THEN before[k] ELSE after[k - (i - 1)]
    <2>1. /\ before \o after \in Seq(S) /\ Len(before \o after) = Len(before) + Len(after)
          /\ \A k \in 1..(Len(before) + Len(after)) : (before \o after)[k] =
                IF k <= Len(before) THEN before[k] ELSE after[k - Len(before)]
      <3>1. before \in Seq(S) /\ after \in Seq(S)
        BY <1>2, <1>3
      <3> QED
        BY <3>1
    <2>2. Len(before) + Len(after) = Len(s) - 1 /\ i \in Nat
      BY <1>1, <1>2, <1>3
    <2>3. \A k \in 1..(Len(s) - 1) : k <= Len(before) <=> k < i
      BY <1>1, <1>2, <2>2
    <2> QED
      BY <1>2, <2>1, <2>2, <2>3
  <1>5. ASSUME NEW k \in 1..(Len(s) - 1)
        PROVE  (before \o after)[k] = IF k < i THEN s[k] ELSE s[k + 1]
    <2>1. CASE k < i
      <3>1. k \in 1..(i - 1)
        BY <1>1, <2>1
      <3> QED
        BY <1>2, <1>4, <2>1, <3>1
    <2>2. CASE ~(k < i)
      <3>1. k - (i - 1) \in 1..(Len(s) - i) /\ (k - (i - 1)) + i = k + 1
        BY <1>1, <2>2
      <3> QED
        BY <1>3, <1>4, <2>2, <3>1
    <2> QED
      BY <2>1, <2>2
  <1> QED
    BY <1>4, <1>5 DEF RemoveAt, before, after

InOrder(list) == \A i, j \in 1..Len(list) : i < j => Before(list[i], list[j])

ManagerInv ==
    /\ managed \in Seq(HookNames) /\ InOrder(managed)
    /\ \A e \in Executors : InOrder(managerRuns[e].copy)
    /\ DOMAIN managerRuns = Executors

LEMMA ManagerAddKeeps ==
  ASSUME ManagerInv, NEW h \in HookNames, ManagerAddHook(h)
  PROVE  ManagerInv'
  <1>1. managed \in Seq(HookNames) /\ Append(managed, h) \in Seq(HookNames)
    BY DEF ManagerInv
  <1>2. managed' = SortHooks(Append(managed, h)) /\ UNCHANGED managerRuns
    BY DEF ManagerAddHook
  <1>3. managed' \in Seq(HookNames) /\ InOrder(managed')
    BY <1>1, <1>2, SortHooksSorts DEF InOrder
  <1> QED
    BY <1>2, <1>3 DEF ManagerInv, InOrder

LEMMA ManagerRemoveKeeps ==
  ASSUME ManagerInv, NEW i \in 1..Len(managed), ManagerRemoveHook(i)
  PROVE  ManagerInv'
  <1>1. managed \in Seq(HookNames) /\ Len(managed) \in Nat /\ InOrder(managed)
    BY DEF ManagerInv
  <1>2. managed' = RemoveAt(managed, i) /\ UNCHANGED managerRuns
    BY DEF ManagerRemoveHook
  <1>3. /\ managed' \in Seq(HookNames) /\ Len(managed') = Len(managed) - 1
        /\ \A k \in 1..(Len(managed) - 1) :
              managed'[k] = IF k < i THEN managed[k] ELSE managed[k + 1]
    BY <1>1, <1>2, RemovedIsShifted
  <1>4. InOrder(managed')
    <2> SUFFICES ASSUME NEW a \in 1..Len(managed'), NEW b \in 1..Len(managed'), a < b
                 PROVE  Before(managed'[a], managed'[b])
      BY DEF InOrder
    <2> DEFINE from(k) == IF k < i THEN k ELSE k + 1
    <2>1. /\ from(a) \in 1..Len(managed) /\ from(b) \in 1..Len(managed) /\ from(a) < from(b)
          /\ managed'[a] = managed[from(a)] /\ managed'[b] = managed[from(b)]
      BY <1>1, <1>3
    <2> HIDE DEF from
    <2> QED
      BY <1>1, <2>1 DEF InOrder
  <1> QED
    BY <1>2, <1>3, <1>4 DEF ManagerInv, InOrder

LEMMA ManagerRunKeeps ==
  ASSUME ManagerInv, NEW e \in Executors,
         \/ ManagerExecutePhase(e) \/ ExecuteHook(e) \/ HookEnds(e) \/ ManagerPhaseEnds(e)
  PROVE  ManagerInv'
  <1>1. UNCHANGED managed
    BY DEF ManagerExecutePhase, ExecuteHook, HookEnds, ManagerPhaseEnds
  <1>2. /\ DOMAIN managerRuns' = Executors
        /\ \A d \in Executors : d # e => managerRuns'[d] = managerRuns[d]
    BY DEF ManagerExecutePhase, ExecuteHook, HookEnds, ManagerPhaseEnds, ManagerInv
  <1>3. managerRuns'[e].copy \in {managed, managerRuns[e].copy, <<>>}
    <2>1. CASE ManagerExecutePhase(e)
      BY <2>1 DEF ManagerExecutePhase, ManagerInv, NotRunning
    <2>2. CASE ExecuteHook(e)
      BY <2>2 DEF ExecuteHook, ManagerInv
    <2>3. CASE HookEnds(e)
      BY <2>3 DEF HookEnds, ManagerInv
    <2>4. CASE ManagerPhaseEnds(e)
      BY <2>4 DEF ManagerPhaseEnds, ManagerInv, NotRunning
    <2> QED
      BY <2>1, <2>2, <2>3, <2>4
  <1>4. InOrder(<<>>)
    BY DEF InOrder
  <1> QED
    BY <1>1, <1>2, <1>3, <1>4 DEF ManagerInv

\* The manager's list and the copies of it, in the order of the priorities.
LEMMA ManagerAlwaysRight == HooksSpec => []ManagerInv
  <1>1. HooksInit => ManagerInv
    <2> SUFFICES ASSUME HooksInit PROVE ManagerInv
      OBVIOUS
    <2>1. managed = <<>> /\ \A e \in Executors : managerRuns[e].copy = <<>>
      BY DEF HooksInit, NotRunning
    <2>2. InOrder(<<>>) /\ DOMAIN managerRuns = Executors
      BY DEF InOrder, HooksInit
    <2> QED
      BY <2>1, <2>2 DEF ManagerInv
  <1>2. ManagerInv /\ [HooksNext]_hookVars => ManagerInv'
    <2> SUFFICES ASSUME ManagerInv, [HooksNext]_hookVars PROVE ManagerInv'
      OBVIOUS
    <2>1. CASE UNCHANGED <<managed, managerRuns>>
      BY <2>1 DEF ManagerInv
    <2>2. CASE ManagerClearHooks
      <3>1. managed' = <<>> /\ UNCHANGED managerRuns
        BY <2>2 DEF ManagerClearHooks
      <3> QED
        BY <3>1 DEF ManagerInv, InOrder
    <2> QED
      BY <2>1, <2>2, ManagerAddKeeps, ManagerRemoveKeeps, ManagerRunKeeps
      DEF HooksNext, hookVars, managerVars, HandlerAddHook, OverdueReturns, HandlerRemoveHook,
          HandlerExecutePhase, HandlerRunsHook, HandlerPhaseEnds
  <1> QED
    BY <1>1, <1>2, PTL DEF HooksSpec

\* "Lower numbers run first", for any hooks and priorities and however adding, removing and
\* clearing interleave with phases that run: the list of the manager is always in the order of
\* the priorities, and so is every copy of it that is run.
THEOREM LowerNumbersAlwaysFirst == HooksSpec => []LowerNumbersFirst
  <1>1. ManagerInv => LowerNumbersFirst
    BY DEF ManagerInv, InOrder, LowerNumbersFirst
  <1> QED
    BY <1>1, ManagerAlwaysRight, PTL


-------------------------------------------------------------------------------
(* Resumption.  Every part in the buffer was sent before the next one, and    *)
(* what was complete is of a message that was begun.                          *)

SentBefore(f) ==
    \/ f.message < sending.message
    \/ f.message = sending.message /\ f.part < sending.part

BufferInv ==
    /\ ResumptionTypeOK
    /\ sending.message = 0 => sending.part = Fragments + 1
    /\ \A n \in DOMAIN buffer : SentBefore(buffer[n])
    /\ completed # <<>> => completed[1].message <= sending.message
    /\ PartsInOrder

CheckpointInv == checkpoint \in states /\ CopiesAreStates

LEMMA FragmentsNumbered ==
  ASSUME BufferInv
  PROVE  /\ \A n \in DOMAIN buffer : buffer[n].message \in Nat /\ buffer[n].part \in Nat
         /\ completed # <<>> => completed[1].message \in Nat
         /\ sending.message \in Nat /\ sending.part \in Nat
  <1>1. /\ buffer \in Seq(Fragment) /\ completed \in Seq(Fragment)
        /\ sending \in [message : 0..MaxFragmented, type : MessageType, part : 1..(Fragments + 1)]
    BY DEF BufferInv, ResumptionTypeOK
  <1>2. /\ \A n \in DOMAIN buffer : buffer[n] \in Fragment
        /\ completed # <<>> => completed[1] \in Fragment
    BY <1>1
  <1>3. \A f \in Fragment : f.message \in Nat /\ f.part \in Nat
    BY DEF Fragment
  <1> QED
    BY <1>1, <1>2, <1>3, ResumptionAssumption

LEMMA BufferInit == ResumptionInit => BufferInv /\ CheckpointInv
  <1> SUFFICES ASSUME ResumptionInit PROVE BufferInv /\ CheckpointInv
    OBVIOUS
  <1>1. /\ buffer = <<>> /\ Len(buffer) = 0 /\ buffer \in Seq(Fragment) /\ DOMAIN buffer = {}
        /\ completed = <<>> /\ completed \in Seq(Fragment)
    BY DEF ResumptionInit
  <1>2. /\ sending = [message |-> 0, type |-> "none", part |-> Fragments + 1]
        /\ sending \in [message : 0..MaxFragmented, type : MessageType, part : 1..(Fragments + 1)]
    BY ResumptionAssumption DEF ResumptionInit, MessageType
  <1>3. /\ checkpoint \in Checkpoint /\ copies \in [CheckpointReaders -> Checkpoint]
        /\ states = {checkpoint} /\ \A r \in CheckpointReaders : copies[r] = checkpoint
    BY DEF ResumptionInit, Checkpoint, EmptyCheckpoint
  <1>4. bufferType \in MessageType
    BY DEF ResumptionInit, MessageType
  <1> QED
    BY <1>1, <1>2, <1>3, <1>4, ResumptionAssumption
    DEF BufferInv, CheckpointInv, ResumptionTypeOK, PartsInOrder, CopiesAreStates

LEMMA NextMessageKeeps ==
  ASSUME BufferInv, NEW type \in {"text", "binary"}, NextMessage(type)
  PROVE  BufferInv'
  <1> DEFINE Sendings == [message : 0..MaxFragmented, type : MessageType, part : 1..(Fragments + 1)]
  <1>1. /\ sending \in Sendings /\ sending.message < MaxFragmented
        /\ sending' = [message |-> sending.message + 1, type |-> type, part |-> 1]
        /\ UNCHANGED <<buffer, bufferType, completed, checkpoint, copies, states>>
    BY DEF NextMessage, checkpointVars, BufferInv, ResumptionTypeOK
  <1>2. sending' \in Sendings /\ sending'.message # 0 /\ sending.message < sending'.message
    BY <1>1, ResumptionAssumption DEF MessageType
  <1>3. /\ buffer \in Seq(Fragment) /\ completed \in Seq(Fragment)
        /\ \A n \in DOMAIN buffer : buffer[n].message \in Nat /\ SentBefore(buffer[n])
        /\ completed # <<>> => completed[1].message \in Nat /\ completed[1].message <= sending.message
    BY FragmentsNumbered DEF BufferInv, ResumptionTypeOK
  <1>4. (\A n \in DOMAIN buffer : SentBefore(buffer[n]))'
    BY <1>1, <1>2, <1>3 DEF SentBefore
  <1>5. (completed # <<>> => completed[1].message <= sending.message)'
    BY <1>1, <1>2, <1>3
  <1>6. ResumptionTypeOK'
    BY <1>1, <1>2 DEF BufferInv, ResumptionTypeOK
  <1>7. PartsInOrder'
    BY <1>1 DEF BufferInv, PartsInOrder, IsJSON, WholeMessage
  <1> QED
    BY <1>1, <1>2, <1>4, <1>5, <1>6, <1>7 DEF BufferInv

LEMMA AppendFragmentKeeps ==
  ASSUME BufferInv, AppendFragment
  PROVE  BufferInv'
  <1> DEFINE Sendings == [message : 0..MaxFragmented, type : MessageType, part : 1..(Fragments + 1)]
             kept == IF bufferType # sending.type THEN <<>> ELSE buffer
             fragment == [message |-> sending.message, part |-> sending.part]
  <1>1. /\ sending \in Sendings /\ sending.part <= Fragments
        /\ sending' = [sending EXCEPT !.part = @ + 1]
        /\ bufferType' = sending.type
        /\ buffer' = IF Len(kept) + 1 > BufferLimit THEN kept ELSE Append(kept, fragment)
        /\ UNCHANGED <<completed, checkpoint, copies, states>>
    BY DEF AppendFragment, checkpointVars, BufferInv, ResumptionTypeOK
  <1>2. /\ sending' \in Sendings /\ sending'.message = sending.message
        /\ sending'.part = sending.part + 1 /\ sending.message \in 1..MaxFragmented
        /\ sending.part \in 1..Fragments
    BY <1>1, ResumptionAssumption DEF BufferInv
  <1>3. /\ buffer \in Seq(Fragment) /\ Len(buffer) <= BufferLimit
        /\ completed # <<>> => IsJSON(completed)
        /\ \A n \in DOMAIN buffer : SentBefore(buffer[n])
        /\ completed # <<>> => completed[1].message <= sending.message
        /\ completed # <<>> => \A n \in DOMAIN buffer : buffer[n].message >= completed[1].message
        /\ \A m, n \in DOMAIN buffer : m < n =>
              \/ buffer[m].message < buffer[n].message
              \/ buffer[m].message = buffer[n].message /\ buffer[m].part < buffer[n].part
    BY DEF BufferInv, ResumptionTypeOK, PartsInOrder
  <1>4. /\ kept \in Seq(Fragment) /\ Len(kept) \in Nat /\ Len(kept) <= BufferLimit
        /\ DOMAIN kept = 1..Len(kept)
        /\ \A n \in DOMAIN kept : n \in DOMAIN buffer /\ kept[n] = buffer[n]
    <2>1. CASE bufferType # sending.type
      <3>1. kept = <<>>
        BY <2>1
      <3>2. <<>> \in Seq(Fragment) /\ Len(<<>>) = 0 /\ DOMAIN <<>> = {}
        OBVIOUS
      <3> HIDE DEF kept
      <3> QED
        BY <3>1, <3>2, ResumptionAssumption
    <2>2. CASE bufferType = sending.type
      <3>1. kept = buffer
        BY <2>2
      <3> HIDE DEF kept
      <3> QED
        BY <1>3, <3>1
    <2> QED
      BY <2>1, <2>2
  <1>5. fragment \in Fragment /\ fragment.message = sending.message /\ fragment.part = sending.part
    BY <1>2 DEF Fragment
  <1> HIDE DEF kept, fragment
  <1>6. /\ buffer' \in Seq(Fragment) /\ Len(buffer') \in Nat /\ DOMAIN buffer' = 1..Len(buffer')
        /\ Len(buffer') <= BufferLimit
        /\ \A n \in 1..Len(buffer') :
              \/ n \in DOMAIN buffer /\ buffer'[n] = buffer[n] /\ n <= Len(kept)
              \/ n = Len(kept) + 1 /\ n = Len(buffer') /\ buffer'[n] = fragment
    <2>1. CASE Len(kept) + 1 > BufferLimit
      BY <1>1, <1>4, <2>1
    <2>2. CASE ~(Len(kept) + 1 > BufferLimit)
      <3>1. /\ buffer' = Append(kept, fragment)
            /\ Append(kept, fragment) \in Seq(Fragment)
            /\ Len(Append(kept, fragment)) = Len(kept) + 1
            /\ \A n \in 1..Len(kept) : Append(kept, fragment)[n] = kept[n]
            /\ Append(kept, fragment)[Len(kept) + 1] = fragment
        BY <1>1, <1>4, <1>5, <2>2
      <3> QED
        BY <1>4, <2>2, <3>1, ResumptionAssumption
    <2> QED
      BY <2>1, <2>2
  <1>7. \A n \in DOMAIN buffer : buffer[n].message \in Nat /\ buffer[n].part \in Nat
    BY FragmentsNumbered
  <1>8. (\A n \in DOMAIN buffer : SentBefore(buffer[n]))'
    <2> SUFFICES ASSUME NEW n \in DOMAIN buffer' PROVE SentBefore(buffer[n])'
      OBVIOUS
    <2>1. CASE n \in DOMAIN buffer /\ buffer'[n] = buffer[n]
      <3>1. SentBefore(buffer[n])
        BY <1>3, <2>1
      <3> QED
        BY <1>2, <1>7, <2>1, <3>1 DEF SentBefore
    <2>2. CASE buffer'[n] = fragment
      BY <1>2, <1>5, <2>2 DEF SentBefore
    <2> QED
      BY <1>6, <2>1, <2>2
  <1>9. ResumptionTypeOK'
    BY <1>1, <1>2, <1>6 DEF BufferInv, ResumptionTypeOK
  <1>10. ASSUME NEW m \in DOMAIN buffer', NEW n \in DOMAIN buffer', m < n
         PROVE  \/ buffer'[m].message < buffer'[n].message
                \/ buffer'[m].message = buffer'[n].message /\ buffer'[m].part < buffer'[n].part
    <2>1. m \in DOMAIN buffer /\ buffer'[m] = buffer[m]
      <3>1. m \in 1..Len(buffer') /\ n \in 1..Len(buffer') /\ Len(buffer') \in Nat
        BY <1>6, <1>10
      <3>2. m # Len(buffer')
        BY <1>10, <3>1
      <3> QED
        BY <1>6, <3>1, <3>2
    <2>2. CASE n \in DOMAIN buffer /\ buffer'[n] = buffer[n]
      BY <1>3, <1>10, <2>1, <2>2
    <2>3. CASE buffer'[n] = fragment
      BY <1>3, <1>5, <2>1, <2>3 DEF SentBefore
    <2> QED
      BY <1>6, <2>2, <2>3
  <1>11. completed # <<>> => completed[1].message \in Nat
    BY FragmentsNumbered
  <1>12. completed # <<>> => \A n \in DOMAIN buffer' : buffer'[n].message >= completed[1].message
    BY <1>2, <1>3, <1>5, <1>6, <1>7, <1>11
  <1>13. PartsInOrder'
    <2>1. completed' = completed /\ (completed # <<>> => IsJSON(completed))'
      <3>1. completed' = completed
        BY <1>1
      <3>2. completed # <<>> => IsJSON(completed)
        BY <1>3
      <3> QED
        BY <3>1, <3>2 DEF IsJSON, WholeMessage
    <2>2. \A m, n \in DOMAIN buffer' : m < n =>
              \/ buffer'[m].message < buffer'[n].message
              \/ buffer'[m].message = buffer'[n].message /\ buffer'[m].part < buffer'[n].part
      BY <1>10
    <2> QED
      BY <1>12, <2>1, <2>2 DEF PartsInOrder
  <1>14. sending'.message # 0 /\ (completed' # <<>> => completed'[1].message <= sending'.message)
    BY <1>1, <1>2, <1>3
  <1> QED
    BY <1>8, <1>9, <1>13, <1>14 DEF BufferInv

\* A buffer that is emptied, or taken as the message it holds.
LEMMA EmptyingKeeps ==
  ASSUME BufferInv, GetComplete \/ ClearBuffer
  PROVE  BufferInv'
  <1>1. /\ buffer' = <<>> /\ DOMAIN buffer' = {} /\ Len(buffer') = 0 /\ buffer' \in Seq(Fragment)
        /\ UNCHANGED <<bufferType, sending, checkpoint, copies, states>>
    <2>1. buffer' = <<>> /\ UNCHANGED <<bufferType, sending, checkpoint, copies, states>>
      BY DEF GetComplete, ClearBuffer, checkpointVars
    <2> QED
      BY <2>1
  <1>2. CASE completed' = completed
    <2>1. PartsInOrder'
      BY <1>1, <1>2 DEF BufferInv, PartsInOrder, IsJSON, WholeMessage
    <2> QED
      BY <1>1, <1>2, <2>1, ResumptionAssumption DEF BufferInv, ResumptionTypeOK
  <1>3. CASE GetComplete
    <2>1. /\ completed' = buffer /\ buffer # <<>> /\ IsJSON(buffer) /\ buffer \in Seq(Fragment)
          /\ \A n \in DOMAIN buffer : SentBefore(buffer[n])
      BY <1>3 DEF GetComplete, BufferInv, ResumptionTypeOK
    <2>2. 1 \in DOMAIN buffer /\ buffer[1].message \in Nat
      <3>1. 1 \in DOMAIN buffer /\ buffer[1] \in Fragment
        BY <2>1
      <3> QED
        BY <3>1 DEF Fragment
    <2>3. buffer[1].message <= sending.message
      <3>1. sending.message \in Nat
        BY DEF BufferInv, ResumptionTypeOK
      <3> QED
        BY <2>1, <2>2, <3>1 DEF SentBefore
    <2>4. PartsInOrder'
      <3>1. IsJSON(completed)'
        BY <2>1 DEF IsJSON, WholeMessage
      <3> QED
        BY <1>1, <3>1 DEF PartsInOrder
    <2> QED
      BY <1>1, <2>1, <2>3, <2>4, ResumptionAssumption DEF BufferInv, ResumptionTypeOK
  <1> QED
    BY <1>2, <1>3 DEF ClearBuffer

LEMMA CheckpointKeepsBuffer ==
  ASSUME BufferInv, UNCHANGED bufferVars,
         checkpoint' \in Checkpoint, copies' \in [CheckpointReaders -> Checkpoint],
         states' \subseteq Checkpoint
  PROVE  BufferInv'
  <1>1. UNCHANGED <<buffer, bufferType, sending, completed>>
    BY DEF bufferVars
  <1>2. ResumptionTypeOK'
    BY <1>1 DEF BufferInv, ResumptionTypeOK
  <1> QED
    BY <1>1, <1>2 DEF BufferInv, SentBefore, PartsInOrder, IsJSON, WholeMessage

LEMMA CheckpointStepKeeps ==
  ASSUME BufferInv, CheckpointInv,
         \/ \E k \in CheckpointKeys, value \in CheckpointValues : SaveCheckpoint(k, value)
         \/ ClearCheckpoint
         \/ \E r \in CheckpointReaders : GetAllCheckpoints(r)
  PROVE  BufferInv' /\ CheckpointInv'
  <1>1. /\ checkpoint \in Checkpoint /\ copies \in [CheckpointReaders -> Checkpoint]
        /\ states \subseteq Checkpoint
    BY DEF BufferInv, ResumptionTypeOK
  <1>2. ASSUME NEW data \in Checkpoint, CheckpointChanges(data)
        PROVE  BufferInv' /\ CheckpointInv'
    <2>1. /\ UNCHANGED <<bufferVars, copies>> /\ checkpoint' = data
          /\ states' = states \cup {data}
      BY <1>2 DEF CheckpointChanges
    <2> QED
      BY <1>1, <2>1, CheckpointKeepsBuffer DEF CheckpointInv, CopiesAreStates
  <1>3. ASSUME NEW r \in CheckpointReaders, GetAllCheckpoints(r)
        PROVE  BufferInv' /\ CheckpointInv'
    <2>1. /\ UNCHANGED <<bufferVars, checkpoint, states>>
          /\ copies' = [copies EXCEPT ![r] = checkpoint]
      BY <1>3 DEF GetAllCheckpoints
    <2> QED
      BY <1>1, <2>1, CheckpointKeepsBuffer DEF CheckpointInv, CopiesAreStates
  <1>4. /\ EmptyCheckpoint \in Checkpoint
        /\ \A k \in CheckpointKeys, value \in CheckpointValues :
                [checkpoint EXCEPT ![k] = value] \in Checkpoint
    BY <1>1 DEF EmptyCheckpoint, Checkpoint
  <1> QED
    BY <1>2, <1>3, <1>4 DEF SaveCheckpoint, ClearCheckpoint

\* For any number of messages, parts and values: whatever fragments are refused or dropped,
\* the parts in the buffer are in the order they were sent, what was complete was one whole
\* message and none before it is there any more; and a copy of a checkpoint is what it was at
\* one moment.
THEOREM ResumptionCorrect ==
  ResumptionSpec => [](ResumptionTypeOK /\ PartsInOrder /\ CopiesAreStates)
  <1>1. BufferInv /\ CheckpointInv /\ [ResumptionNext]_resumptionVars
        => BufferInv' /\ CheckpointInv'
    <2> SUFFICES ASSUME BufferInv, CheckpointInv, [ResumptionNext]_resumptionVars
                 PROVE  BufferInv' /\ CheckpointInv'
      OBVIOUS
    <2>1. CASE UNCHANGED resumptionVars
      <3>1. UNCHANGED bufferVars /\ UNCHANGED <<checkpoint, copies, states>>
        BY <2>1 DEF resumptionVars, checkpointVars
      <3> QED
        BY <3>1, CheckpointKeepsBuffer DEF BufferInv, ResumptionTypeOK, CheckpointInv, CopiesAreStates
    <2>2. CASE (\E type \in {"text", "binary"} : NextMessage(type))
               \/ AppendFragment \/ GetComplete \/ ClearBuffer
      <3>1. UNCHANGED <<checkpoint, copies, states>>
        BY <2>2 DEF NextMessage, AppendFragment, GetComplete, ClearBuffer, checkpointVars
      <3>2. CheckpointInv'
        BY <3>1 DEF CheckpointInv, CopiesAreStates
      <3> QED
        BY <2>2, <3>2, NextMessageKeeps, AppendFragmentKeeps, EmptyingKeeps
    <2> QED
      BY <2>1, <2>2, CheckpointStepKeeps DEF ResumptionNext
  <1>2. BufferInv /\ CheckpointInv => ResumptionTypeOK /\ PartsInOrder /\ CopiesAreStates
    BY DEF BufferInv, CheckpointInv
  <1> QED
    BY <1>1, <1>2, BufferInit, PTL DEF ResumptionSpec


-------------------------------------------------------------------------------
(* The stop of a worker.  What is stopped is always the beginning of the steps *)
(* of the call inside the once.                                                *)

LEMMA JoinedRange ==
  ASSUME NEW S, NEW s \in Seq(S), NEW t \in Seq(S)
  PROVE  /\ s \o t \in Seq(S) /\ Range(s \o t) = Range(s) \cup Range(t)
         /\ IsInjective(s) /\ IsInjective(t) /\ Range(s) \cap Range(t) = {} => IsInjective(s \o t)
  <1> DEFINE st == s \o t
  <1>1. /\ st \in Seq(S) /\ Len(s) \in Nat /\ Len(t) \in Nat /\ Len(st) = Len(s) + Len(t)
        /\ DOMAIN s = 1..Len(s) /\ DOMAIN t = 1..Len(t) /\ DOMAIN st = 1..Len(st)
    OBVIOUS
  <1>2. \A i \in 1..(Len(s) + Len(t)) : st[i] = IF i <= Len(s) THEN s[i] ELSE t[i - Len(s)]
    OBVIOUS
  <1> HIDE DEF st
  <1>3. /\ \A i \in DOMAIN s : i \in DOMAIN st /\ st[i] = s[i]
        /\ \A i \in DOMAIN t : i + Len(s) \in DOMAIN st /\ st[i + Len(s)] = t[i]
        /\ \A i \in DOMAIN st :
              \/ i \in DOMAIN s /\ st[i] = s[i]
              \/ i - Len(s) \in DOMAIN t /\ st[i] = t[i - Len(s)]
    BY <1>1, <1>2
  <1>4. Range(st) = Range(s) \cup Range(t)
    BY <1>3 DEF Range
  <1>5. ASSUME IsInjective(s), IsInjective(t), Range(s) \cap Range(t) = {},
               NEW i \in DOMAIN st, NEW k \in DOMAIN st, st[i] = st[k]
        PROVE  i = k
    <2>1. CASE i \in DOMAIN s /\ st[i] = s[i]
      <3>1. st[k] \in Range(s) /\ st[k] \notin Range(t)
        BY <1>5, <2>1 DEF Range
      <3>2. k \in DOMAIN s /\ st[k] = s[k]
        BY <1>3, <3>1 DEF Range
      <3> QED
        BY <1>5, <2>1, <3>2 DEF IsInjective
    <2>2. CASE i - Len(s) \in DOMAIN t /\ st[i] = t[i - Len(s)]
      <3>1. st[k] \in Range(t) /\ st[k] \notin Range(s)
        BY <1>5, <2>2 DEF Range
      <3>2. k - Len(s) \in DOMAIN t /\ st[k] = t[k - Len(s)]
        BY <1>3, <3>1 DEF Range
      <3>3. i - Len(s) = k - Len(s)
        BY <1>5, <2>2, <3>2 DEF IsInjective
      <3> QED
        BY <1>1, <3>3
    <2> QED
      BY <1>3, <2>1, <2>2
  <1>6. IsInjective(s) /\ IsInjective(t) /\ Range(s) \cap Range(t) = {} => IsInjective(st)
    BY <1>5 DEF IsInjective
  <1> QED
    BY <1>1, <1>4, <1>6 DEF st

LEMMA OneElement ==
  ASSUME NEW S, NEW e \in S
  PROVE  <<e>> \in Seq(S) /\ Range(<<e>>) = {e} /\ IsInjective(<<e>>)
  BY DEF Range, IsInjective

StepNames ==
    {"stopCh", "preStop", "messageHandler", "jobs", "conn", "resourceLimiter", "resourceMonitor",
     "loadBatcher", "eventProcessor", "metricsCollector", "cleanup", "doneCh"}

LEMMA JoinedPart ==
  ASSUME NEW s \in Seq(StepNames), IsInjective(s), NEW part \in StepNames, part \notin Range(s)
  PROVE  /\ s \o IfThere(part) \in Seq(StepNames) /\ IsInjective(s \o IfThere(part))
         /\ Range(s \o IfThere(part)) = IF part \in NewUniversalWorker(options)
                                       THEN Range(s) \cup {part} ELSE Range(s)
  <1>1. CASE part \in NewUniversalWorker(options)
    <2> DEFINE t == <<part>>
    <2>1. IfThere(part) = t
      BY <1>1 DEF IfThere
    <2>2. t \in Seq(StepNames) /\ Range(t) = {part} /\ IsInjective(t)
      BY OneElement
    <2> HIDE DEF t
    <2>3. Range(s) \cap Range(t) = {}
      BY <2>2
    <2>4. /\ s \o t \in Seq(StepNames) /\ IsInjective(s \o t)
          /\ Range(s \o t) = Range(s) \cup Range(t)
      BY <2>2, <2>3, JoinedRange
    <2> QED
      BY <1>1, <2>1, <2>2, <2>4
  <1>2. CASE part \notin NewUniversalWorker(options)
    <2>1. IfThere(part) = <<>>
      BY <1>2 DEF IfThere
    <2>2. <<>> \in Seq(StepNames) /\ Range(<<>>) = {} /\ IsInjective(<<>>)
      BY EmptyRange
    <2>3. /\ s \o <<>> \in Seq(StepNames) /\ IsInjective(s \o <<>>)
          /\ Range(s \o <<>>) = Range(s) \cup {}
      BY <2>2, JoinedRange
    <2> QED
      BY <1>2, <2>1, <2>3
  <1> QED
    BY <1>1, <1>2

LEMMA PartsInjective ==
  /\ Parts \in Seq(StepNames) /\ IsInjective(Parts)
  /\ Range(Parts) = NewUniversalWorker(options)
  <1> DEFINE p1 == IfThere("conn")
             p2 == p1 \o IfThere("resourceLimiter")
             p3 == p2 \o IfThere("resourceMonitor")
             p4 == p3 \o IfThere("loadBatcher")
             p5 == p4 \o IfThere("eventProcessor")
             p6 == p5 \o IfThere("metricsCollector")
             There == NewUniversalWorker(options)
             If(part) == IF part \in There THEN {part} ELSE {}
  <1>0. "conn" \in There /\ "resourceMonitor" \notin There
    BY DEF NewUniversalWorker
  <1>1. p1 \in Seq(StepNames) /\ IsInjective(p1) /\ Range(p1) = {"conn"}
    <2>1. "conn" \in StepNames
      BY DEF StepNames
    <2>2. <<"conn">> \in Seq(StepNames) /\ IsInjective(<<"conn">>) /\ Range(<<"conn">>) = {"conn"}
      BY <2>1, OneElement
    <2>3. p1 = <<"conn">>
      BY <1>0 DEF IfThere
    <2> QED
      BY <2>2, <2>3
  <1> HIDE DEF p1
  <1>2. /\ p2 \in Seq(StepNames) /\ IsInjective(p2)
        /\ Range(p2) = {"conn"} \cup If("resourceLimiter")
    <2>1. "resourceLimiter" \in StepNames /\ "resourceLimiter" \notin Range(p1)
      BY <1>1 DEF StepNames
    <2> QED
      BY <1>1, <2>1, JoinedPart
  <1> HIDE DEF p2
  <1>3. p3 \in Seq(StepNames) /\ IsInjective(p3) /\ Range(p3) = Range(p2)
    <2>1. "resourceMonitor" \in StepNames /\ "resourceMonitor" \notin Range(p2)
      BY <1>2 DEF StepNames
    <2> QED
      BY <1>0, <1>2, <2>1, JoinedPart
  <1> HIDE DEF p3
  <1>4. /\ p4 \in Seq(StepNames) /\ IsInjective(p4)
        /\ Range(p4) = Range(p3) \cup If("loadBatcher")
    <2>1. "loadBatcher" \in StepNames /\ "loadBatcher" \notin Range(p3)
      BY <1>2, <1>3 DEF StepNames
    <2> QED
      BY <1>3, <2>1, JoinedPart
  <1> HIDE DEF p4
  <1>5. /\ p5 \in Seq(StepNames) /\ IsInjective(p5)
        /\ Range(p5) = Range(p4) \cup If("eventProcessor")
    <2>1. "eventProcessor" \in StepNames /\ "eventProcessor" \notin Range(p4)
      BY <1>2, <1>3, <1>4 DEF StepNames
    <2> QED
      BY <1>4, <2>1, JoinedPart
  <1> HIDE DEF p5
  <1>6. /\ p6 \in Seq(StepNames) /\ IsInjective(p6)
        /\ Range(p6) = Range(p5) \cup If("metricsCollector")
    <2>1. "metricsCollector" \in StepNames /\ "metricsCollector" \notin Range(p5)
      BY <1>2, <1>3, <1>4, <1>5 DEF StepNames
    <2> QED
      BY <1>5, <2>1, JoinedPart
  <1>7. Parts = p6
    BY DEF Parts, p1, p2, p3, p4, p5
  <1>8. There \subseteq {"conn", "resourceLimiter", "loadBatcher", "eventProcessor",
                         "metricsCollector"}
    BY DEF NewUniversalWorker
  <1> HIDE DEF p6, There
  <1>9. Range(p6) = There
    <2>1. Range(p6) = {"conn"} \cup If("resourceLimiter") \cup If("loadBatcher")
                        \cup If("eventProcessor") \cup If("metricsCollector")
      <3> HIDE DEF If
      <3> QED
        BY <1>2, <1>3, <1>4, <1>5, <1>6
    <2>2. \A part : If(part) \subseteq There /\ (part \in There => part \in If(part))
      OBVIOUS
    <2> HIDE DEF If
    <2>3. Range(p6) \subseteq There
      BY <1>0, <2>1, <2>2
    <2>4. There \subseteq Range(p6)
      BY <1>8, <2>1, <2>2
    <2> QED
      BY <2>3, <2>4
  <1> QED
    BY <1>6, <1>7, <1>9 DEF There

Beginning(call) ==
    IF call = "Stop" THEN <<"stopCh", "messageHandler", "jobs">>
    ELSE <<"stopCh", "preStop", "messageHandler", "jobs">>

End(call) == IF call = "Stop" THEN <<"doneCh">> ELSE <<"cleanup", "doneCh">>

StepsOf == [call \in Calls |-> Steps(call)]

LEMMA StepsEndWithDone ==
  ASSUME NEW call \in Calls
  PROVE  LET s == StepsOf[call]
         IN  /\ s \in Seq(StepNames) /\ IsInjective(s)
             /\ Len(s) \in Nat \ {0} /\ s[Len(s)] = "doneCh"
             /\ {"stopCh", "messageHandler", "jobs", "doneCh"} \cup NewUniversalWorker(options)
                    \subseteq Range(s)
             /\ "metricsCollector" \in Range(s) => "cpuLoad" \in options
  <1> DEFINE b == Beginning(call)   e == End(call)   There == NewUniversalWorker(options)
             front == b \o Parts   s == front \o e
  <1>1. /\ b \in Seq(StepNames) /\ IsInjective(b)
        /\ Range(b) = {"stopCh", "messageHandler", "jobs"}
              \cup (IF call = "Stop" THEN {} ELSE {"preStop"})
    <2>1. CASE call = "Stop"
      <3>1. b = <<"stopCh", "messageHandler", "jobs">>
        BY <2>1 DEF Beginning
      <3>2. b \in Seq(StepNames)
        BY <3>1 DEF StepNames
      <3>3. DOMAIN b = 1..3 /\ b[1] = "stopCh" /\ b[2] = "messageHandler" /\ b[3] = "jobs"
        BY <3>1
      <3> HIDE DEF b
      <3> QED
        BY <2>1, <3>2, <3>3 DEF Range, IsInjective
    <2>2. CASE call # "Stop"
      <3>1. b = <<"stopCh", "preStop", "messageHandler", "jobs">>
        BY <2>2 DEF Beginning
      <3>2. b \in Seq(StepNames)
        BY <3>1 DEF StepNames
      <3>3. /\ DOMAIN b = 1..4 /\ b[1] = "stopCh" /\ b[2] = "preStop" /\ b[3] = "messageHandler"
            /\ b[4] = "jobs"
        BY <3>1
      <3> HIDE DEF b
      <3> QED
        BY <2>2, <3>2, <3>3 DEF Range, IsInjective
    <2> QED
      BY <2>1, <2>2
  <1>2. /\ e \in Seq(StepNames) /\ IsInjective(e) /\ Len(e) \in Nat \ {0} /\ e[Len(e)] = "doneCh"
        /\ Range(e) = {"doneCh"} \cup (IF call = "Stop" THEN {} ELSE {"cleanup"})
    <2>1. CASE call = "Stop"
      <3>1. e = <<"doneCh">>
        BY <2>1 DEF End
      <3>2. e \in Seq(StepNames) /\ Len(e) = 1
        BY <3>1 DEF StepNames
      <3>3. DOMAIN e = 1..1 /\ e[1] = "doneCh"
        BY <3>1
      <3> HIDE DEF e
      <3> QED
        BY <2>1, <3>2, <3>3 DEF Range, IsInjective
    <2>2. CASE call # "Stop"
      <3>1. e = <<"cleanup", "doneCh">>
        BY <2>2 DEF End
      <3>2. e \in Seq(StepNames) /\ Len(e) = 2
        BY <3>1 DEF StepNames
      <3>3. DOMAIN e = 1..2 /\ e[1] = "cleanup" /\ e[2] = "doneCh"
        BY <3>1
      <3> HIDE DEF e
      <3> QED
        BY <2>2, <3>2, <3>3 DEF Range, IsInjective
    <2> QED
      BY <2>1, <2>2
  <1>3. StepsOf[call] = s
    <2>1. CASE call = "Stop"
      BY <2>1 DEF StepsOf, Steps, Beginning, End
    <2>2. CASE call = "StopWithTimeout"
      <3>1. Steps(call) = <<"stopCh", "preStop", "messageHandler", "jobs">> \o Parts
                              \o <<"cleanup", "doneCh">>
        BY <2>2 DEF Steps
      <3>2. /\ b = <<"stopCh", "preStop", "messageHandler", "jobs">>
            /\ e = <<"cleanup", "doneCh">>
        BY <2>2 DEF Beginning, End
      <3> QED
        BY <3>1, <3>2 DEF StepsOf
    <2> QED
      BY <2>1, <2>2 DEF Calls
  <1> HIDE DEF b, e
  <1>4. There \subseteq {"conn", "resourceLimiter", "loadBatcher", "eventProcessor",
                         "metricsCollector"}
    BY DEF NewUniversalWorker
  <1>5. "metricsCollector" \in There => "cpuLoad" \in options
    BY DEF NewUniversalWorker
  <1> HIDE DEF There
  <1>6. /\ front \in Seq(StepNames) /\ Range(front) = Range(b) \cup There
        /\ IsInjective(front)
    <2>1. Range(b) \cap There = {}
      BY <1>1, <1>4
    <2>2. Parts \in Seq(StepNames) /\ IsInjective(Parts) /\ Range(Parts) = There
      BY PartsInjective DEF There
    <2> QED
      BY <1>1, <2>1, <2>2, JoinedRange
  <1> HIDE DEF front
  <1>7. /\ s \in Seq(StepNames) /\ Range(s) = Range(front) \cup Range(e) /\ IsInjective(s)
    <2>1. Range(front) \cap Range(e) = {}
      BY <1>1, <1>2, <1>4, <1>6
    <2> QED
      BY <1>2, <1>6, <2>1, JoinedRange
  <1>8. Len(s) \in Nat \ {0} /\ s[Len(s)] = "doneCh"
    <2>1. Len(s) = Len(front) + Len(e) /\ Len(front) \in Nat
      BY <1>2, <1>6
    <2>2. s[Len(front) + Len(e)] = e[Len(e)]
      BY <1>2, <1>6, <2>1
    <2> QED
      BY <1>2, <2>1, <2>2
  <1> HIDE DEF s
  <1>9. {"stopCh", "messageHandler", "jobs", "doneCh"} \cup There \subseteq Range(s)
    BY <1>1, <1>2, <1>6, <1>7
  <1>10. "metricsCollector" \in Range(s) => "cpuLoad" \in options
    <2>1. "metricsCollector" \notin Range(b) \cup Range(e)
      BY <1>1, <1>2
    <2> QED
      BY <1>5, <1>6, <1>7, <2>1
  <1> QED
    BY <1>3, <1>7, <1>8, <1>9, <1>10 DEF There


\* What is stopped is the beginning of the steps of a call, up to the one that is next.
IsBeginning(s, steps) ==
    /\ Len(s) \in Nat /\ DOMAIN s = 1..Len(s) /\ Len(s) <= Len(steps)
    /\ \A i \in 1..Len(s) : s[i] = steps[i]

LEMMA BeginningGrows ==
  ASSUME NEW steps \in Seq(StepNames), NEW s \in Seq(StepNames), IsBeginning(s, steps),
         Len(s) < Len(steps)
  PROVE  LET next == Append(s, steps[Len(s) + 1])
         IN  /\ next \in Seq(StepNames) /\ IsBeginning(next, steps) /\ Len(next) = Len(s) + 1
             /\ Range(next) = Range(s) \cup {steps[Len(s) + 1]}
  <1> DEFINE e == steps[Len(s) + 1]   next == Append(s, e)
  <1>1. Len(s) \in Nat /\ Len(steps) \in Nat /\ e \in StepNames
    OBVIOUS
  <1> HIDE DEF e
  <1>2. /\ next \in Seq(StepNames) /\ Len(next) = Len(s) + 1 /\ DOMAIN next = 1..Len(next)
        /\ \A i \in 1..Len(s) : next[i] = s[i]
        /\ next[Len(s) + 1] = e
    BY <1>1
  <1>3. Range(next) = Range(s) \cup {e}
    BY <1>1, AppendRange
  <1> HIDE DEF next
  <1>4. \A i \in 1..Len(next) : next[i] = steps[i]
    BY <1>1, <1>2 DEF IsBeginning, e
  <1> QED
    BY <1>1, <1>2, <1>3, <1>4 DEF IsBeginning, next, e

StopCallTypes ==
    /\ options \in OptionSets
    /\ once \in [by : Stoppers \cup {NoStopper}, over : BOOLEAN]
    /\ stopCall \in [Stoppers -> [call : Calls \cup {"none"},
                                  at : {"idle", "once", "step", "hook", "stuck", "waiting", "nil",
                                        "timeout"}]]
    /\ expired \in [Stoppers -> BOOLEAN]
    /\ jobs \in [RunningJobs -> {"running", "cancelled", "ended"}]
    /\ muHeld \in Stoppers \cup {NoStopper}
    /\ startReturned \in BOOLEAN

Begun == stopCall[once.by].call

StopInv ==
    /\ StopCallTypes
    /\ \A s \in Stoppers : stopCall[s].at # "idle" => stopCall[s].call \in Calls
    /\ stopped \in Seq(StepNames)
    /\ once.by = NoStopper => stopped = <<>> /\ ~once.over /\ muHeld = NoStopper
    /\ once.by # NoStopper =>
        /\ stopCall[once.by].at # "idle"
        /\ IsBeginning(stopped, StepsOf[Begun])
        /\ once.over => Len(stopped) = Len(StepsOf[Begun])
    /\ \A s \in Stoppers : stopCall[s].at \in {"step", "hook"} =>
        /\ once.by = s /\ ~once.over /\ Len(stopped) < Len(StepsOf[Begun])
        /\ stopCall[s].at = "hook" => NextStep(s) \in {"preStop", "cleanup"}
    /\ \A s \in Stoppers : stopCall[s].at \in {"waiting", "nil", "timeout"} => once.over
    /\ muHeld # NoStopper =>
        /\ once.by = muHeld /\ ~once.over
        /\ stopCall[muHeld].at \in {"step", "stuck"} /\ NextStep(muHeld) = "jobs"
    /\ "jobs" \in Range(stopped) => \A j \in RunningJobs : jobs[j] # "running"

ToldInv ==
    /\ jobs \in [RunningJobs -> {"running", "cancelled", "ended"}]
    /\ toldJobs \in [RunningJobs -> Nat]
    /\ \A j \in RunningJobs :
        /\ jobs[j] = "running" => toldJobs[j] = 0
        /\ jobs[j] = "cancelled" => toldJobs[j] <= 1
        /\ jobs[j] = "ended" => toldJobs[j] \in 1..2

LEMMA ToldInit == ShutdownInit => ToldInv
  BY DEF ShutdownInit, ToldInv

LEMMA ToldStep == ToldInv /\ [ShutdownNext]_shutdownVars => ToldInv'
  <1> SUFFICES ASSUME ToldInv, [ShutdownNext]_shutdownVars PROVE ToldInv'
    OBVIOUS
  <1>1. CASE UNCHANGED <<jobs, toldJobs>>
    BY <1>1 DEF ToldInv
  <1>2. ASSUME NEW s \in Stoppers, CancelJobs(s) PROVE ToldInv'
    BY <1>2 DEF CancelJobs, ToldInv, Unended
  <1>3. ASSUME NEW s \in Stoppers, NEW j \in RunningJobs, TerminateJob(s, j) PROVE ToldInv'
    BY <1>3 DEF TerminateJob, ToldInv
  <1>4. ASSUME NEW j \in RunningJobs, JobEnds(j) PROVE ToldInv'
    BY <1>4 DEF JobEnds, ToldInv
  <1> QED
    BY <1>1, <1>2, <1>3, <1>4
    DEF ShutdownNext, shutdownVars, CallStop, TimeoutExpires, EnterOnce, OnceIsOver, StopsPart,
        HooksBegin, HooksReturn, HookStopsWorker, TerminateJobsBegins, HandlerAsksWorker,
        TerminateJobsEnds, CloseDone, StopReturns, StopTimesOut, StartReturns

LEMMA StepsStay ==
  ASSUME UNCHANGED options
  PROVE  StepsOf' = StepsOf
  BY DEF StepsOf, Steps, Parts, IfThere, NewUniversalWorker

LEMMA NextStepIs ==
  ASSUME NEW s \in Stoppers, stopCall[s].call \in Calls
  PROVE  NextStep(s) = StepsOf[stopCall[s].call][Len(stopped) + 1]
  BY DEF NextStep, StepsOf


LEMMA NextStepStays ==
  ASSUME NEW s \in Stoppers, UNCHANGED <<options, stopped>>, stopCall'[s].call = stopCall[s].call
  PROVE  NextStep(s)' = NextStep(s)
  BY DEF NextStep, Steps, Parts, IfThere, NewUniversalWorker

\* A goroutine goes on in its call, and nothing is stopped meanwhile.
GoesOn(s) ==
    \/ stopCall'[s] = stopCall[s]
    \/ /\ stopCall[s].at = "idle" /\ stopCall'[s].at = "once" /\ stopCall'[s].call \in Calls
    \/ /\ stopCall[s].at # "idle" /\ stopCall'[s].call = stopCall[s].call
       /\ \/ stopCall'[s].at = "waiting" /\ once.over
          \/ stopCall'[s].at \in {"nil", "timeout"} /\ stopCall[s].at = "waiting"
          \/ stopCall'[s].at = "hook" /\ stopCall[s].at = "step"
             /\ NextStep(s) \in {"preStop", "cleanup"}
          \/ stopCall'[s].at = "stuck" /\ stopCall[s].at \in {"step", "hook"}

LEMMA GoingOnKeeps ==
  ASSUME StopInv, StopCallTypes', UNCHANGED <<options, once, stopped, muHeld, jobs>>,
         NEW s \in Stoppers, \A t \in Stoppers : t # s => stopCall'[t] = stopCall[t], GoesOn(s)
  PROVE  StopInv'
  <1>1. StepsOf' = StepsOf
    BY StepsStay
  <1>2. once.by # NoStopper => once.by \in Stoppers /\ Begun' = Begun
    BY DEF StopInv, StopCallTypes, GoesOn, Begun
  <1>3. \A t \in Stoppers : stopCall[t].at # "idle"
            => /\ stopCall'[t].at # "idle" /\ stopCall'[t].call = stopCall[t].call
               /\ NextStep(t)' = NextStep(t)
    <2>1. \A t \in Stoppers : stopCall[t].at # "idle"
            => stopCall'[t].at # "idle" /\ stopCall'[t].call = stopCall[t].call
      BY DEF GoesOn
    <2> QED
      BY <2>1, NextStepStays
  <1>4. \A t \in Stoppers : stopCall'[t].at # "idle" => stopCall'[t].call \in Calls
    BY DEF StopInv, GoesOn
  <1>5. once'.by # NoStopper =>
            /\ stopCall'[once'.by].at # "idle"
            /\ IsBeginning(stopped', StepsOf'[Begun'])
            /\ once'.over => Len(stopped') = Len(StepsOf'[Begun'])
    <2>1. once' = once /\ stopped' = stopped
      OBVIOUS
    <2> QED
      BY <1>1, <1>2, <1>3, <2>1 DEF StopInv
  <1>6. ASSUME NEW t \in Stoppers, stopCall'[t].at \in {"step", "hook"}
        PROVE  /\ once'.by = t /\ ~once'.over /\ Len(stopped') < Len(StepsOf'[Begun'])
               /\ stopCall'[t].at = "hook" => NextStep(t)' \in {"preStop", "cleanup"}
    <2>1. /\ stopCall[t].at \in {"step", "hook"}
          /\ stopCall'[t].at = "hook" => stopCall[t].at = "hook" \/ NextStep(t) \in {"preStop", "cleanup"}
      BY <1>6 DEF GoesOn
    <2>2. /\ once.by = t /\ ~once.over /\ Len(stopped) < Len(StepsOf[Begun])
          /\ stopCall[t].at = "hook" => NextStep(t) \in {"preStop", "cleanup"}
      BY <2>1 DEF StopInv
    <2>3. NextStep(t)' = NextStep(t) /\ Begun' = Begun
      <3>1. t # NoStopper
        BY ShutdownAssumption
      <3> QED
        BY <1>2, <1>3, <2>1, <2>2, <3>1
    <2> QED
      BY <1>1, <2>1, <2>2, <2>3
  <1>7. \A t \in Stoppers : stopCall'[t].at \in {"waiting", "nil", "timeout"} => once'.over
    BY DEF StopInv, GoesOn
  <1>8. muHeld' # NoStopper =>
            /\ once'.by = muHeld' /\ ~once'.over
            /\ stopCall'[muHeld'].at \in {"step", "stuck"} /\ NextStep(muHeld)' = "jobs"
    <2> SUFFICES ASSUME muHeld # NoStopper
                 PROVE  /\ once.by = muHeld /\ ~once.over
                        /\ stopCall'[muHeld].at \in {"step", "stuck"} /\ NextStep(muHeld)' = "jobs"
      OBVIOUS
    <2>1. /\ muHeld \in Stoppers /\ once.by = muHeld /\ ~once.over
          /\ stopCall[muHeld].at \in {"step", "stuck"} /\ NextStep(muHeld) = "jobs"
      BY DEF StopInv, StopCallTypes
    <2>2. NextStep(muHeld)' = NextStep(muHeld)
      <3>1. stopCall'[muHeld].call = stopCall[muHeld].call
        BY <1>3, <2>1
      <3> QED
        BY <3>1 DEF NextStep, Steps, Parts, IfThere, NewUniversalWorker
    <2> QED
      BY <2>1, <2>2 DEF GoesOn
  <1> QED
    BY <1>4, <1>5, <1>6, <1>7, <1>8 DEF StopInv

LEMMA CallsGoOn ==
  ASSUME StopInv, NEW s \in Stoppers,
         \/ \E call \in Calls : CallStop(s, call)
         \/ TimeoutExpires(s) \/ OnceIsOver(s) \/ HooksBegin(s) \/ HookStopsWorker(s)
         \/ HandlerAsksWorker(s) \/ StopReturns(s) \/ StopTimesOut(s)
  PROVE  StopInv'
  <1> DEFINE Ats == {"idle", "once", "step", "hook", "stuck", "waiting", "nil", "timeout"}
             OnlyGoesOn ==
                /\ stopCall' \in [Stoppers -> [call : Calls \cup {"none"}, at : Ats]]
                /\ \A t \in Stoppers : t # s => stopCall'[t] = stopCall[t]
                /\ GoesOn(s)
  <1>1. UNCHANGED <<options, once, stopped, muHeld, jobs>>
    BY DEF CallStop, TimeoutExpires, OnceIsOver, HooksBegin, HookStopsWorker, HandlerAsksWorker,
       StopReturns, StopTimesOut
  <1>2. StopCallTypes
    BY DEF StopInv
  <1>3. ASSUME NEW call \in Calls \cup {"none"}, NEW at \in Ats,
               stopCall' = [stopCall EXCEPT ![s] = [call |-> call, at |-> at]]
        PROVE  /\ stopCall' \in [Stoppers -> [call : Calls \cup {"none"}, at : Ats]]
               /\ stopCall'[s].call = call /\ stopCall'[s].at = at
               /\ \A t \in Stoppers : t # s => stopCall'[t] = stopCall[t]
    BY <1>2, <1>3 DEF StopCallTypes
  <1>4. ASSUME NEW at \in Ats, stopCall' = [stopCall EXCEPT ![s].at = at]
        PROVE  /\ stopCall' \in [Stoppers -> [call : Calls \cup {"none"}, at : Ats]]
               /\ stopCall'[s].call = stopCall[s].call /\ stopCall'[s].at = at
               /\ \A t \in Stoppers : t # s => stopCall'[t] = stopCall[t]
    BY <1>2, <1>4 DEF StopCallTypes
  <1>5. OnlyGoesOn
    <2>1. ASSUME NEW call \in Calls, CallStop(s, call) PROVE OnlyGoesOn
      <3>1. stopCall' = [stopCall EXCEPT ![s] = [call |-> call, at |-> "once"]] /\ stopCall[s].at = "idle"
        BY <2>1 DEF CallStop
      <3>2. call \in Calls \cup {"none"} /\ "once" \in Ats
        OBVIOUS
      <3> HIDE DEF Ats
      <3>3. /\ stopCall' \in [Stoppers -> [call : Calls \cup {"none"}, at : Ats]]
            /\ stopCall'[s].call = call /\ stopCall'[s].at = "once"
            /\ \A t \in Stoppers : t # s => stopCall'[t] = stopCall[t]
        BY <1>3, <3>1, <3>2
      <3>4. GoesOn(s)
        BY <3>1, <3>3 DEF GoesOn
      <3> QED
        BY <3>3, <3>4
    <2>2. CASE TimeoutExpires(s)
      BY <1>2, <2>2 DEF TimeoutExpires, GoesOn, StopCallTypes
    <2>3. CASE OnceIsOver(s)
      BY <1>4, <2>3 DEF OnceIsOver, GoesOn
    <2>4. CASE HooksBegin(s)
      BY <1>4, <2>4 DEF HooksBegin, GoesOn
    <2>5. CASE HookStopsWorker(s) \/ HandlerAsksWorker(s)
      BY <1>4, <2>5 DEF HookStopsWorker, HandlerAsksWorker, GoesOn
    <2>6. CASE StopReturns(s) \/ StopTimesOut(s)
      BY <1>4, <2>6 DEF StopReturns, StopTimesOut, GoesOn
    <2> QED
      BY <2>1, <2>2, <2>3, <2>4, <2>5, <2>6
  <1>6. expired' \in [Stoppers -> BOOLEAN] /\ startReturned' \in BOOLEAN
    BY <1>2 DEF CallStop, TimeoutExpires, OnceIsOver, HooksBegin, HookStopsWorker,
       HandlerAsksWorker, StopReturns, StopTimesOut, StopCallTypes
  <1>7. StopCallTypes'
    BY <1>1, <1>2, <1>5, <1>6 DEF StopCallTypes
  <1> QED
    BY <1>1, <1>5, <1>7, GoingOnKeeps

\* The first to come begins with nothing stopped.
LEMMA EnterKeeps ==
  ASSUME StopInv, NEW s \in Stoppers, EnterOnce(s)
  PROVE  StopInv'
  <1>1. /\ stopCall[s].at = "once" /\ once.by = NoStopper
        /\ once' = [once EXCEPT !.by = s] /\ stopCall' = [stopCall EXCEPT ![s].at = "step"]
        /\ UNCHANGED <<options, expired, stopped, jobs, muHeld, toldJobs, startReturned>>
    BY DEF EnterOnce
  <1>2. /\ StopCallTypes /\ stopped = <<>> /\ ~once.over /\ muHeld = NoStopper
        /\ s # NoStopper /\ stopCall[s].call \in Calls
    BY <1>1, ShutdownAssumption DEF StopInv
  <1>3. /\ once'.by = s /\ once'.over = once.over
        /\ stopCall'[s].at = "step" /\ stopCall'[s].call = stopCall[s].call
        /\ \A t \in Stoppers : t # s => stopCall'[t] = stopCall[t]
    BY <1>1, <1>2 DEF StopCallTypes
  <1>4. StopCallTypes'
    BY <1>1, <1>2 DEF StopCallTypes
  <1>5. \A t \in Stoppers : stopCall[t].at \notin {"step", "hook", "waiting", "nil", "timeout"}
    BY <1>1, <1>2, ShutdownAssumption DEF StopInv
  <1>6. /\ StepsOf' = StepsOf /\ Begun' = stopCall[s].call
        /\ StepsOf[Begun'] \in Seq(StepNames) /\ Len(StepsOf[Begun']) \in Nat \ {0}
    <2>1. StepsOf' = StepsOf
      BY <1>1, StepsStay
    <2>2. Begun' = stopCall[s].call
      BY <1>3 DEF Begun
    <2> QED
      BY <1>2, <2>1, <2>2, StepsEndWithDone
  <1>7. /\ stopped' = <<>> /\ Len(stopped') = 0 /\ DOMAIN stopped' = 1..0 /\ stopped' \in Seq(StepNames)
        /\ Range(stopped') = {}
    <2>1. stopped' = <<>>
      BY <1>1, <1>2
    <2> QED
      BY <2>1, EmptyRange
  <1>8. IsBeginning(stopped', StepsOf'[Begun'])
    BY <1>6, <1>7 DEF IsBeginning
  <1>9. \A t \in Stoppers : stopCall'[t].at # "idle" => stopCall'[t].call \in Calls
    BY <1>2, <1>3 DEF StopInv
  <1>10. \A t \in Stoppers : stopCall'[t].at \in {"step", "hook"} => t = s
    BY <1>3, <1>5
  <1>11. \A t \in Stoppers : stopCall'[t].at \notin {"waiting", "nil", "timeout"}
    BY <1>3, <1>5
  <1>12. Len(stopped') < Len(StepsOf'[Begun'])
    BY <1>6, <1>7
  <1> QED
    BY <1>1, <1>2, <1>3, <1>4, <1>7, <1>8, <1>9, <1>10, <1>11, <1>12 DEF StopInv


\* A step is done: the next one is the last, or there is one after it.
LEMMA StepDoneKeeps ==
  ASSUME StopInv, StopCallTypes', NEW s \in Stoppers, stopCall[s].at \in {"step", "hook"},
         UNCHANGED options, stopped' = Append(stopped, NextStep(s)), muHeld' = NoStopper,
         stopCall'[s].call = stopCall[s].call,
         \A t \in Stoppers : t # s => stopCall'[t] = stopCall[t],
         once'.by = once.by,
         \/ stopCall'[s].at = "step" /\ ~once'.over /\ NextStep(s) # "doneCh"
         \/ stopCall'[s].at = "waiting" /\ once'.over /\ NextStep(s) = "doneCh",
         "jobs" \in Range(stopped) \cup {NextStep(s)} => \A j \in RunningJobs : jobs'[j] # "running"
  PROVE  StopInv'
  <1> DEFINE c == stopCall[s].call   steps == StepsOf[c]   n == Len(stopped)
  <1>1. /\ once.by = s /\ s # NoStopper /\ ~once.over /\ c \in Calls /\ Begun = c
        /\ stopped \in Seq(StepNames) /\ IsBeginning(stopped, steps) /\ n < Len(steps)
    BY ShutdownAssumption DEF StopInv, Begun
  <1>2. /\ steps \in Seq(StepNames) /\ Len(steps) \in Nat \ {0} /\ steps[Len(steps)] = "doneCh"
        /\ IsInjective(steps)
    BY <1>1, StepsEndWithDone
  <1>3. NextStep(s) = steps[n + 1]
    BY <1>1, NextStepIs
  <1>4. StepsOf' = StepsOf /\ Begun' = c
    BY <1>1, StepsStay DEF Begun
  <1> HIDE DEF steps, c
  <1>5. /\ stopped' \in Seq(StepNames) /\ IsBeginning(stopped', steps) /\ Len(stopped') = n + 1
        /\ Range(stopped') = Range(stopped) \cup {NextStep(s)}
    BY <1>1, <1>2, <1>3, BeginningGrows
  <1>6. n \in Nat /\ (NextStep(s) = "doneCh" <=> n + 1 = Len(steps))
    <2>1. n \in Nat /\ n + 1 \in DOMAIN steps /\ Len(steps) \in DOMAIN steps
      BY <1>1, <1>2
    <2> QED
      BY <1>2, <1>3, <2>1 DEF IsInjective
  <1>7. StepsOf'[Begun'] = steps
    BY <1>4 DEF steps
  <1>8. \A t \in Stoppers : t # s => stopCall[t].at \notin {"step", "hook", "waiting", "nil", "timeout"}
    BY <1>1 DEF StopInv
  <1>9. \A t \in Stoppers : stopCall'[t].at # "idle" => stopCall'[t].call \in Calls
    BY <1>1 DEF StopInv, c
  <1>10. once'.by # NoStopper =>
            /\ stopCall'[once'.by].at # "idle"
            /\ IsBeginning(stopped', StepsOf'[Begun'])
            /\ once'.over => Len(stopped') = Len(StepsOf'[Begun'])
    BY <1>1, <1>5, <1>6, <1>7
  <1>11. ASSUME NEW t \in Stoppers, stopCall'[t].at \in {"step", "hook"}
         PROVE  /\ once'.by = t /\ ~once'.over /\ Len(stopped') < Len(StepsOf'[Begun'])
                /\ stopCall'[t].at # "hook"
    <2>1. t = s
      BY <1>8, <1>11
    <2>2. stopCall'[s].at = "step" /\ ~once'.over /\ NextStep(s) # "doneCh"
      BY <1>11, <2>1
    <2>3. n + 1 < Len(steps)
      BY <1>1, <1>2, <1>6, <2>2
    <2> QED
      BY <1>1, <1>5, <1>7, <2>1, <2>2, <2>3
  <1>12. \A t \in Stoppers : stopCall'[t].at \in {"waiting", "nil", "timeout"} => once'.over
    BY <1>8
  <1>13. "jobs" \in Range(stopped') => \A j \in RunningJobs : jobs'[j] # "running"
    BY <1>5
  <1>14. once'.by # NoStopper
    BY <1>1
  <1> QED
    BY <1>5, <1>9, <1>10, <1>11, <1>12, <1>13, <1>14 DEF StopInv

LEMMA StepsKeep ==
  ASSUME StopInv, NEW s \in Stoppers,
         \/ StopsPart(s) \/ HooksReturn(s) \/ CancelJobs(s) \/ TerminateJobsEnds(s) \/ CloseDone(s)
  PROVE  StopInv'
  <1>1. /\ StopCallTypes
        /\ "jobs" \in Range(stopped) => \A j \in RunningJobs : jobs[j] # "running"
        /\ s # NoStopper
    BY ShutdownAssumption DEF StopInv
  <1>2. /\ stopCall[s].at \in {"step", "hook"}
        /\ UNCHANGED <<options, expired, startReturned>>
        /\ once'.by = once.by
    BY <1>1 DEF StopsPart, HooksReturn, CancelJobs, TerminateJobsEnds, CloseDone, StopCallTypes
  <1>3. once.by = s /\ ~once.over
    BY <1>2 DEF StopInv
  <1>4. stopCall[s].at = "hook" => NextStep(s) \in {"preStop", "cleanup"}
    BY DEF StopInv
  <1>5. muHeld # NoStopper => NextStep(s) = "jobs" /\ stopCall[s].at # "hook"
    <2>1. muHeld # NoStopper => muHeld = s /\ stopCall[muHeld].at \in {"step", "stuck"}
      BY <1>3 DEF StopInv
    <2>2. muHeld # NoStopper => NextStep(muHeld) = "jobs"
      BY DEF StopInv
    <2>3. muHeld = s => NextStep(muHeld) = NextStep(s)
      BY DEF NextStep
    <2> QED
      BY <2>1, <2>2, <2>3
  <1>6. CASE StopsPart(s)
    <2>1. /\ NextStep(s) \notin {"jobs", "doneCh"} /\ stopCall[s].at = "step"
          /\ stopped' = Append(stopped, NextStep(s))
          /\ UNCHANGED <<once, stopCall, jobs, muHeld>>
      BY <1>6 DEF StopsPart
    <2>2. StopCallTypes'
      BY <1>1, <1>2, <2>1 DEF StopCallTypes
    <2> QED
      BY <1>1, <1>2, <1>3, <1>5, <2>1, <2>2, StepDoneKeeps
  <1>7. CASE HooksReturn(s)
    <2>1. /\ stopCall[s].at = "hook"
          /\ stopped' = Append(stopped, NextStep(s))
          /\ stopCall' = [stopCall EXCEPT ![s].at = "step"]
          /\ UNCHANGED <<once, jobs, muHeld>>
      BY <1>7 DEF HooksReturn
    <2>2. /\ stopCall'[s].at = "step" /\ stopCall'[s].call = stopCall[s].call
          /\ \A t \in Stoppers : t # s => stopCall'[t] = stopCall[t]
          /\ StopCallTypes'
      BY <1>1, <1>2, <2>1 DEF StopCallTypes
    <2> QED
      BY <1>1, <1>2, <1>3, <1>4, <1>5, <2>1, <2>2, StepDoneKeeps
  <1>8. CASE CancelJobs(s)
    <2>1. /\ NextStep(s) = "jobs" /\ stopCall[s].at = "step" /\ muHeld = NoStopper
          /\ stopped' = Append(stopped, NextStep(s))
          /\ jobs' = [j \in RunningJobs |-> IF j \in Unended THEN "cancelled" ELSE jobs[j]]
          /\ UNCHANGED <<once, stopCall, muHeld>>
      BY <1>8 DEF CancelJobs
    <2>2. StopCallTypes' /\ \A j \in RunningJobs : jobs'[j] # "running"
      BY <1>1, <1>2, <2>1 DEF StopCallTypes, Unended
    <2> QED
      BY <1>1, <1>2, <1>3, <2>1, <2>2, StepDoneKeeps
  <1>9. CASE TerminateJobsEnds(s)
    <2>1. /\ muHeld = s /\ stopCall[s].at = "step" /\ \A j \in RunningJobs : jobs[j] # "running"
          /\ muHeld' = NoStopper
          /\ stopped' = Append(stopped, "jobs")
          /\ UNCHANGED <<once, stopCall, jobs>>
      BY <1>9 DEF TerminateJobsEnds
    <2>2. StopCallTypes' /\ NextStep(s) = "jobs"
      BY <1>1, <1>2, <1>5, <2>1 DEF StopCallTypes
    <2> QED
      BY <1>1, <1>2, <1>3, <2>1, <2>2, StepDoneKeeps
  <1>10. CASE CloseDone(s)
    <2>1. /\ NextStep(s) = "doneCh" /\ stopCall[s].at = "step"
          /\ stopped' = Append(stopped, NextStep(s))
          /\ once' = [once EXCEPT !.over = TRUE]
          /\ stopCall' = [stopCall EXCEPT ![s].at = "waiting"]
          /\ UNCHANGED <<jobs, muHeld>>
      BY <1>10 DEF CloseDone
    <2>2. /\ stopCall'[s].at = "waiting" /\ stopCall'[s].call = stopCall[s].call
          /\ \A t \in Stoppers : t # s => stopCall'[t] = stopCall[t]
          /\ once'.over /\ StopCallTypes'
      BY <1>1, <1>2, <2>1 DEF StopCallTypes
    <2> QED
      BY <1>1, <1>2, <1>3, <1>5, <2>1, <2>2, StepDoneKeeps
  <1> QED
    BY <1>6, <1>7, <1>8, <1>9, <1>10

\* The jobs are told while the rest stands still.
LEMMA JobsKeep ==
  ASSUME StopInv,
         \/ \E s \in Stoppers : TerminateJobsBegins(s) \/ \E j \in RunningJobs : TerminateJob(s, j)
         \/ \E j \in RunningJobs : JobEnds(j)
         \/ StartReturns
         \/ UNCHANGED shutdownVars
  PROVE  StopInv'
  <1>1. UNCHANGED <<options, once, stopCall, expired, stopped>>
    BY DEF TerminateJobsBegins, TerminateJob, JobEnds, StartReturns, shutdownVars
  <1>2. StopCallTypes /\ \A t \in Stoppers : t # NoStopper
    BY ShutdownAssumption DEF StopInv
  <1>3. /\ jobs' \in [RunningJobs -> {"running", "cancelled", "ended"}]
        /\ \A j \in RunningJobs : jobs[j] # "running" => jobs'[j] # "running"
        /\ startReturned' \in BOOLEAN
    BY <1>2 DEF TerminateJobsBegins, TerminateJob, JobEnds, StartReturns, shutdownVars,
       StopCallTypes
  <1>4. \/ muHeld' = muHeld
        \/ \E s \in Stoppers : muHeld' = s /\ stopCall[s].at = "step" /\ NextStep(s) = "jobs"
    BY DEF TerminateJobsBegins, TerminateJob, JobEnds, StartReturns, shutdownVars
  <1>5. StopCallTypes'
    BY <1>1, <1>2, <1>3, <1>4 DEF StopCallTypes
  <1>6. StepsOf' = StepsOf /\ Begun' = Begun
    BY <1>1, StepsStay DEF Begun
  <1>7. \A t : NextStep(t)' = NextStep(t)
    BY <1>1 DEF NextStep, Steps, Parts, IfThere, NewUniversalWorker
  <1>8. muHeld' # NoStopper =>
            /\ once'.by = muHeld' /\ ~once'.over
            /\ stopCall'[muHeld'].at \in {"step", "stuck"} /\ NextStep(muHeld)' = "jobs"
    <2>1. CASE muHeld' = muHeld
      <3>1. NextStep(muHeld)' = NextStep(muHeld)
        BY <1>1, <2>1 DEF NextStep, Steps, Parts, IfThere, NewUniversalWorker
      <3> QED
        BY <1>1, <2>1, <3>1 DEF StopInv
    <2>2. ASSUME NEW s \in Stoppers, muHeld' = s, stopCall[s].at = "step", NextStep(s) = "jobs"
          PROVE  /\ once'.by = muHeld' /\ ~once'.over
                 /\ stopCall'[muHeld'].at \in {"step", "stuck"} /\ NextStep(muHeld)' = "jobs"
      <3>1. NextStep(muHeld)' = NextStep(s)
        BY <1>1, <2>2 DEF NextStep, Steps, Parts, IfThere, NewUniversalWorker
      <3> QED
        BY <1>1, <2>2, <3>1 DEF StopInv
    <2> QED
      BY <1>4, <2>1, <2>2
  <1>9. /\ \A t \in Stoppers : stopCall'[t].at # "idle" => stopCall'[t].call \in Calls
        /\ stopped' \in Seq(StepNames)
        /\ \A t \in Stoppers : stopCall'[t].at \in {"waiting", "nil", "timeout"} => once'.over
    BY <1>1 DEF StopInv
  <1>10. once'.by = NoStopper => stopped' = <<>> /\ ~once'.over /\ muHeld' = NoStopper
    BY <1>1, <1>8 DEF StopInv
  <1>11. once'.by # NoStopper =>
            /\ stopCall'[once'.by].at # "idle"
            /\ IsBeginning(stopped', StepsOf'[Begun'])
            /\ once'.over => Len(stopped') = Len(StepsOf'[Begun'])
    BY <1>1, <1>6 DEF StopInv
  <1>12. \A t \in Stoppers : stopCall'[t].at \in {"step", "hook"} =>
            /\ once'.by = t /\ ~once'.over /\ Len(stopped') < Len(StepsOf'[Begun'])
            /\ stopCall'[t].at = "hook" => NextStep(t)' \in {"preStop", "cleanup"}
    BY <1>1, <1>6, <1>7 DEF StopInv
  <1>13. "jobs" \in Range(stopped') => \A j \in RunningJobs : jobs'[j] # "running"
    BY <1>1, <1>3 DEF StopInv
  <1> QED
    BY <1>5, <1>8, <1>9, <1>10, <1>11, <1>12, <1>13 DEF StopInv

LEMMA StopInvInit == ShutdownInit => StopInv
  <1> SUFFICES ASSUME ShutdownInit PROVE StopInv
    OBVIOUS
  <1>1. /\ once.by = NoStopper /\ once.over = FALSE /\ stopped = <<>> /\ muHeld = NoStopper
        /\ \A s \in Stoppers : stopCall[s].at = "idle"
    BY DEF ShutdownInit
  <1>2. stopped \in Seq(StepNames) /\ Range(stopped) = {}
    BY <1>1, EmptyRange
  <1>3. StopCallTypes
    BY DEF ShutdownInit, StopCallTypes
  <1> QED
    BY <1>1, <1>2, <1>3 DEF StopInv

LEMMA StopInvStep == StopInv /\ [ShutdownNext]_shutdownVars => StopInv'
  BY CallsGoOn, EnterKeeps, StepsKeep, JobsKeep DEF ShutdownNext

\* For any goroutines that stop a worker, jobs and options, whatever the order of the calls, the
\* hooks and the timeouts: whoever returns finds every part stopped and no job running, and the
\* handler of a job is told of its end twice at most, and once at least.
THEOREM ShutdownCorrect ==
  ShutdownSpec => [](ShutdownTypeOK /\ ReturnsWhenStopped /\ ToldTwiceAtMost)
  <1>1. StopInv /\ ToldInv => ShutdownTypeOK /\ ReturnsWhenStopped /\ ToldTwiceAtMost
    <2> SUFFICES ASSUME StopInv, ToldInv
                 PROVE  ShutdownTypeOK /\ ReturnsWhenStopped /\ ToldTwiceAtMost
      OBVIOUS
    <2>1. ToldTwiceAtMost
      BY DEF ToldInv, ToldTwiceAtMost
    <2>2. IsInjective(stopped)
      <3>1. CASE once.by = NoStopper
        BY <3>1, EmptyRange DEF StopInv
      <3>2. CASE once.by # NoStopper
        <4>1. Begun \in Calls /\ IsBeginning(stopped, StepsOf[Begun])
          BY <3>2 DEF StopInv, StopCallTypes, Begun
        <4>2. IsInjective(StepsOf[Begun]) /\ StepsOf[Begun] \in Seq(StepNames)
          BY <4>1, StepsEndWithDone
        <4>3. DOMAIN stopped \subseteq DOMAIN StepsOf[Begun]
          BY <4>1, <4>2 DEF IsBeginning
        <4> QED
          BY <4>1, <4>2, <4>3 DEF IsBeginning, IsInjective
      <3> QED
        BY <3>1, <3>2
    <2>3. ShutdownTypeOK
      BY <2>2 DEF StopInv, StopCallTypes, ToldInv, ShutdownTypeOK
    <2>4. ASSUME NEW s \in Stoppers, stopCall[s].at \in {"waiting", "nil", "timeout"}
          PROVE  /\ {"stopCh", "messageHandler", "jobs", "doneCh"} \cup ToSet(Parts) \subseteq ToSet(stopped)
                 /\ \A j \in RunningJobs : jobs[j] # "running"
                 /\ "limits" \in options => "resourceLimiter" \in ToSet(stopped)
                 /\ "metricsCollector" \in ToSet(stopped) => "cpuLoad" \in options
      <3>1. once.over /\ once.by # NoStopper
        BY <2>4 DEF StopInv
      <3>2. /\ Begun \in Calls /\ IsBeginning(stopped, StepsOf[Begun])
            /\ Len(stopped) = Len(StepsOf[Begun])
        BY <3>1 DEF StopInv, StopCallTypes, Begun
      <3>3. /\ StepsOf[Begun] \in Seq(StepNames)
            /\ {"stopCh", "messageHandler", "jobs", "doneCh"} \cup NewUniversalWorker(options)
                    \subseteq Range(StepsOf[Begun])
            /\ "metricsCollector" \in Range(StepsOf[Begun]) => "cpuLoad" \in options
        BY <3>2, StepsEndWithDone
      <3>4. Range(stopped) = Range(StepsOf[Begun])
        BY <3>2, <3>3 DEF IsBeginning, Range
      <3>5. ToSet(stopped) = Range(stopped) /\ ToSet(Parts) = NewUniversalWorker(options)
        BY PartsInjective DEF ToSet, Range
      <3>6. "limits" \in options => "resourceLimiter" \in NewUniversalWorker(options)
        BY DEF NewUniversalWorker
      <3>7. \A j \in RunningJobs : jobs[j] # "running"
        BY <3>3, <3>4 DEF StopInv
      <3> QED
        BY <3>3, <3>4, <3>5, <3>6, <3>7
    <2> QED
      BY <2>1, <2>3, <2>4 DEF ReturnsWhenStopped
  <1> QED
    BY <1>1, StopInvInit, StopInvStep, ToldInit, ToldStep, PTL DEF ShutdownSpec


-------------------------------------------------------------------------------
(* Deadlines move with the offset of the server's clock.                      *)

LEMMA AverageIsNumber ==
  ASSUME NEW n \in Nat \ {0}, NEW s \in [1..n -> Int], Len(s) = n
  PROVE  Average(s) \in Int
  <1> DEFINE Sum(f) == [i \in 0..n |-> IF i = 0 THEN 0 ELSE f[i - 1] + s[i]]
             G == [p \in Nat \X Int |-> IF p[1] \in 1..n THEN p[2] + s[p[1]] ELSE p[2]]
             sum == CHOOSE f : f = Sum(f)
  <1>1. Average(s) = Quotient(sum[n], n)
    BY DEF Average
  <1>2. \E f : f = Sum(f)
    <2>1. G \in StepFunctions(Int)
      <3>1. \A p \in Nat \X Int : (IF p[1] \in 1..n THEN p[2] + s[p[1]] ELSE p[2]) \in Int
        OBVIOUS
      <3> QED
        BY <3>1 DEF StepFunctions
    <2>2. PICK f : Follows(f, Int, 0, G, n)
      <3> DEFINE V == Int   a == 0
      <3>1. G \in StepFunctions(V) /\ a \in V
        BY <2>1
      <3> HIDE DEF G, V, a
      <3>2. \E f : Follows(f, V, a, G, n)
        BY <3>1, RecursionExists
      <3> QED
        BY <3>2 DEF V, a
    <2>3. /\ f \in [0..n -> Int] /\ f[0] = 0
          /\ \A i \in 1..n : f[i] = f[i - 1] + s[i]
      <3>1. ASSUME NEW i \in 1..n PROVE f[i] = f[i - 1] + s[i]
        <4>1. i \in Nat /\ f[i - 1] \in Int /\ f[i] = G[<<i, f[i - 1]>>]
          <5> HIDE DEF G
          <5> QED
            BY <2>2 DEF Follows
        <4> QED
          BY <4>1
      <3> QED
        BY <2>2, <3>1 DEF Follows
    <2>4. f = Sum(f)
      <3>1. f = [i \in 0..n |-> f[i]] /\ \A i \in 0..n : i # 0 => i \in 1..n
        BY <2>3
      <3> QED
        BY <2>3, <3>1
    <2> QED
      BY <2>4
  <1>3. sum = Sum(sum)
    BY <1>2
  <1> HIDE DEF sum
  <1>4. sum[0] \in Int /\ \A i \in 1..n : sum[i - 1] \in Int => sum[i] \in Int
    BY <1>3
  <1>5. sum[n] \in Int
    <2>1. \A i \in 0..n : sum[i] \in Int
      <3> DEFINE V == Int
      <3>1. sum[0] \in V /\ \A i \in 1..n : sum[i - 1] \in V => sum[i] \in V
        BY <1>4
      <3> HIDE DEF V
      <3>2. \A i \in 0..n : sum[i] \in V
        BY <3>1, LoopStays
      <3> QED
        BY <3>2 DEF V
    <2> QED
      BY <2>1
  <1> QED
    BY <1>1, <1>5 DEF Quotient

\* The deadlines, in numbers.
DeadlinesInv ==
    /\ skewSamples \in Seq(Int) /\ Len(skewSamples) <= MaxSkewSamples
    /\ serverTimeOffset \in Int
    /\ deadlines \in [TimedJobs -> DeadlineContext \cup {NoDeadline}]
    /\ DeadlinesMoveWithOffset

LEMMA SampleKeepsDeadlines ==
  ASSUME DeadlinesInv, NEW skew \in Skews, UpdateServerTime(skew)
  PROVE  DeadlinesInv'
  <1> DEFINE appended == Append(skewSamples, skew)
             samples == IF Len(appended) > MaxSkewSamples THEN Tail(appended) ELSE appended
             average == Average(samples)
  <1>1. /\ skewSamples' = samples
        /\ \/ UNCHANGED <<serverTimeOffset, deadlines>>
           \/ /\ serverTimeOffset' = average
              /\ deadlines' = [j \in TimedJobs |->
                    IF deadlines[j] = NoDeadline THEN NoDeadline
                    ELSE Adjusted(deadlines[j], average - serverTimeOffset)]
    BY DEF UpdateServerTime
  <1>2. samples \in Seq(Int) /\ Len(samples) <= MaxSkewSamples /\ Len(samples) \in Nat \ {0}
    <2>1. skewSamples \in Seq(Int) /\ skew \in Int /\ Len(skewSamples) <= MaxSkewSamples
          /\ MaxSkewSamples \in Nat \ {0}
      BY TimingAssumption DEF DeadlinesInv
    <2>2. appended \in Seq(Int) /\ Len(appended) = Len(skewSamples) + 1 /\ Len(skewSamples) \in Nat
          /\ appended # <<>>
      BY <2>1
    <2> HIDE DEF appended
    <2>3. Tail(appended) \in Seq(Int) /\ Len(Tail(appended)) = Len(appended) - 1
      BY <2>2
    <2> QED
      BY <2>1, <2>2, <2>3
  <1> HIDE DEF samples
  <1>3. average \in Int
    <2>1. samples \in [1..Len(samples) -> Int]
      BY <1>2
    <2> DEFINE n == Len(samples)
    <2>2. n \in Nat \ {0} /\ samples \in [1..n -> Int] /\ Len(samples) = n
      BY <1>2, <2>1
    <2> HIDE DEF n
    <2> QED
      BY <2>2, AverageIsNumber
  <1> HIDE DEF average
  <1>4. CASE UNCHANGED <<serverTimeOffset, deadlines>>
    BY <1>1, <1>2, <1>4 DEF DeadlinesInv, DeadlinesMoveWithOffset
  <1>5. CASE /\ serverTimeOffset' = average
             /\ deadlines' = [j \in TimedJobs |->
                   IF deadlines[j] = NoDeadline THEN NoDeadline
                   ELSE Adjusted(deadlines[j], average - serverTimeOffset)]
    <2>1. ASSUME NEW j \in TimedJobs, deadlines[j] # NoDeadline
          PROVE  /\ deadlines[j] \in DeadlineContext /\ deadlines'[j] \in DeadlineContext
                 /\ deadlines'[j].original = deadlines[j].original /\ deadlines'[j].offset = deadlines[j].offset
                 /\ deadlines'[j].adjusted = deadlines[j].adjusted + (average - serverTimeOffset)
      <3>1. deadlines[j] \in DeadlineContext /\ average - serverTimeOffset \in Int
        BY <1>3, <2>1 DEF DeadlinesInv
      <3>2. deadlines'[j] = [deadlines[j] EXCEPT !.adjusted = @ + (average - serverTimeOffset)]
        BY <1>5, <2>1 DEF Adjusted
      <3> QED
        BY <3>1, <3>2 DEF DeadlineContext
    <2>2. \A j \in TimedJobs : deadlines[j] = NoDeadline => deadlines'[j] = NoDeadline
      BY <1>5
    <2>3. deadlines' \in [TimedJobs -> DeadlineContext \cup {NoDeadline}]
      <3>1. DOMAIN deadlines' = TimedJobs /\ deadlines' = [j \in TimedJobs |-> deadlines'[j]]
        BY <1>5
      <3> QED
        BY <2>1, <2>2, <3>1
    <2>4. ASSUME NEW j \in TimedJobs, deadlines'[j] # NoDeadline
          PROVE  deadlines'[j].adjusted - (deadlines'[j].original - deadlines'[j].offset)
                    = serverTimeOffset' - deadlines'[j].offset
      <3>1. deadlines[j] # NoDeadline
        BY <2>2, <2>4
      <3>2. deadlines[j].adjusted - (deadlines[j].original - deadlines[j].offset)
               = serverTimeOffset - deadlines[j].offset
        BY <3>1 DEF DeadlinesInv, DeadlinesMoveWithOffset
      <3>3. /\ deadlines[j].adjusted \in Int /\ deadlines[j].original \in Int /\ deadlines[j].offset \in Int
            /\ serverTimeOffset \in Int
        BY <2>1, <3>1 DEF DeadlineContext, DeadlinesInv
      <3> QED
        BY <1>3, <1>5, <2>1, <3>1, <3>2, <3>3
    <2> QED
      BY <1>1, <1>2, <1>3, <1>5, <2>3, <2>4 DEF DeadlinesInv, DeadlinesMoveWithOffset
  <1> QED
    BY <1>1, <1>4, <1>5

\* What is kept of the samples and of the deadlines.
LEMMA DeadlinesAlways == TimingSpec => []DeadlinesInv
  <1>1. TimingInit => DeadlinesInv
    BY TimingAssumption DEF TimingInit, DeadlinesInv, DeadlinesMoveWithOffset
  <1>2. DeadlinesInv /\ [TimingNext]_timingVars => DeadlinesInv'
    <2> SUFFICES ASSUME DeadlinesInv, [TimingNext]_timingVars PROVE DeadlinesInv'
      OBVIOUS
    <2>1. ASSUME UNCHANGED skewVars PROVE DeadlinesInv'
      BY <2>1 DEF skewVars, DeadlinesInv, DeadlinesMoveWithOffset
    <2>2. CASE \/ UNCHANGED timingVars \/ ClockTicks \/ RecordEvent
               \/ \E g \in TimingGuards :
                    \/ \E j \in TimedJobs : GuardBegins(g, j)
                    \/ GuardChecksRate(g) \/ DelayEnds(g) \/ GuardRuns(g) \/ GuardReturns(g)
      <3>1. UNCHANGED skewVars
        BY <2>2 DEF timingVars, ClockTicks, RecordEvent, GuardBegins, GuardChecksRate, DelayEnds,
             GuardRuns, GuardReturns
      <3> QED
        BY <2>1, <3>1
    <2>3. ASSUME NEW skew \in Skews, UpdateServerTime(skew)
          PROVE  DeadlinesInv'
      BY <2>3, SampleKeepsDeadlines
    <2>4. ASSUME NEW j \in TimedJobs, NEW d \in Deadlines, SetDeadline(j, d)
          PROVE  DeadlinesInv'
      <3> DEFINE set == [original |-> d, adjusted |-> d - serverTimeOffset, offset |-> serverTimeOffset]
      <3>1. d \in Int /\ serverTimeOffset \in Int
        BY TimingAssumption DEF DeadlinesInv
      <3>2. /\ set \in DeadlineContext /\ set.original = d /\ set.adjusted = d - serverTimeOffset
            /\ set.offset = serverTimeOffset
        BY <3>1 DEF DeadlineContext
      <3>3. deadlines' = [deadlines EXCEPT ![j] = set] /\ UNCHANGED <<skewSamples, serverTimeOffset>>
        BY <2>4 DEF SetDeadline
      <3> HIDE DEF set
      <3> QED
        BY <3>1, <3>2, <3>3 DEF DeadlinesInv, DeadlinesMoveWithOffset
    <2>5. ASSUME NEW j \in TimedJobs, RemoveDeadline(j)
          PROVE  DeadlinesInv'
      BY <2>5 DEF RemoveDeadline, DeadlinesInv, DeadlinesMoveWithOffset
    <2> QED
      BY <2>2, <2>3, <2>4, <2>5 DEF TimingNext
  <1> QED
    BY <1>1, <1>2, PTL DEF TimingSpec

(* For any jobs, deadlines, skews and threshold: however often the offset  *)
(* of the server's clock changed, a deadline has moved by what it changed  *)
(* since the deadline was set, in all.                                     *)
THEOREM DeadlinesAlwaysMove == TimingSpec => []DeadlinesMoveWithOffset
  <1>1. DeadlinesInv => DeadlinesMoveWithOffset
    BY DEF DeadlinesInv
  <1> QED
    BY <1>1, DeadlinesAlways, PTL

-------------------------------------------------------------------------------
(* What the reports keep has the types they claim.                           *)

LEMMA LinkTypeKept == LinkTypeOK /\ (LinkNext \/ UNCHANGED linkVars) => LinkTypeOK'
  <1> USE LinkAssumption DEF LinkTypeOK, StopperPc
  <1> SUFFICES ASSUME LinkTypeOK, LinkNext \/ UNCHANGED linkVars
               PROVE  LinkTypeOK'
    OBVIOUS
  <1>1. CASE ConnectionLost
    BY <1>1 DEF ConnectionLost
  <1>2. CASE Reconnected
    BY <1>2 DEF Reconnected
  <1>3. CASE StopSignals
    BY <1>3 DEF StopSignals
  <1>4. CASE StopDisconnects
    BY <1>4 DEF StopDisconnects
  <1>5. CASE UNCHANGED linkVars
    BY <1>5 DEF linkVars
  <1> QED
    BY <1>1, <1>2, <1>3, <1>4, <1>5 DEF LinkNext

\* What the sequences and the counts of an update do not say.
StatusTyped ==
    /\ LinkTypeOK
    /\ tokens \in 0..TokenLimit /\ retrier \in RetrierPc
    /\ failedOn \in [Updates -> Nat]

LEMMA SendTyped ==
  ASSUME failedOn \in [Updates -> Nat], LinkTypeOK, NEW u \in Updates,
         SendSucceeds(u) \/ SendFails(u)
  PROVE  failedOn' \in [Updates -> Nat]
  <1>1. connections \in Nat
    BY LinkAssumption DEF LinkTypeOK
  <1> QED
    BY <1>1 DEF SendSucceeds, SendFails

LEMMA AnnounceTyped == ASSUME tokens \in 0..TokenLimit, Announce PROVE tokens' \in 0..TokenLimit
  BY StatusAssumption DEF Announce

LEMMA StatusTypedStep ==
  ASSUME StatusTyped, Partitioned, StatusNext, UNCHANGED linkVars
  PROVE  StatusTyped'
  <1>0. LinkTypeOK'
    BY LinkTypeKept DEF StatusTyped
  <1>1. ASSUME NEW u \in Updates, UpdateBegins(u) PROVE StatusTyped'
    BY <1>0, <1>1 DEF UpdateBegins, StatusTyped
  <1>2. ASSUME NEW u \in Updates, UpdateSends(u) PROVE StatusTyped'
    <2>1. failedOn' \in [Updates -> Nat]
      BY <1>2, SendTyped DEF UpdateSends, StatusTyped
    <2> QED
      BY <1>0, <1>2, <2>1 DEF UpdateSends, StatusTyped
  <1>3. ASSUME NEW u \in Updates, UpdateQueues(u) PROVE StatusTyped'
    BY <1>0, <1>3 DEF UpdateQueues, StatusTyped
  <1>4. ASSUME NEW u \in Updates, UpdateAnnounces(u) PROVE StatusTyped'
    BY <1>0, <1>4, AnnounceTyped DEF UpdateAnnounces, StatusTyped
  <1>5. CASE RetrierWakes
    BY <1>0, <1>5, StatusAssumption DEF RetrierWakes, RetrierGoes, RetrierPc, StatusTyped
  <1>6. CASE RetrierTicks \/ RetrierStops \/ TakeQueue \/ RetriesEnd \/ GiveUp \/ Requeue
    BY <1>0, <1>6 DEF RetrierTicks, RetrierStops, TakeQueue, RetriesEnd, GiveUp, Requeue, RetrierGoes,
       RetrierPc, StatusTyped
  <1>7. CASE RequeueAnnounces
    BY <1>0, <1>7, AnnounceTyped DEF RequeueAnnounces, RetrierGoes, RetrierPc, StatusTyped
  <1>8. CASE Retry
    <2>1. Head(batch) \in Updates
      BY <1>8 DEF Retry, Partitioned
    <2>2. failedOn' \in [Updates -> Nat]
      BY <1>8, <2>1, SendTyped DEF Retry, StatusTyped
    <2> QED
      BY <1>0, <1>8, <2>2 DEF Retry, RetrierGoes, RetrierPc, StatusTyped
  <1> QED
    BY <1>1, <1>2, <1>3, <1>4, <1>5, <1>6, <1>7, <1>8 DEF StatusNext, Retrier, UpdateStep

LEMMA StatusAlwaysTyped == StatusSpec => []StatusTypeOK
  <1> DEFINE Step == \/ StatusNext /\ UNCHANGED linkVars
                     \/ LinkNext /\ UNCHANGED statusVars
  <1>1. LinkInit /\ StatusInit => StatusTyped
    BY LinkAssumption, StatusAssumption
    DEF LinkInit, StatusInit, StatusTyped, LinkTypeOK, StopperPc, RetrierPc
  <1>2. StatusTyped /\ Partitioned /\ [Step]_<<linkVars, statusVars>> => StatusTyped'
    <2> SUFFICES ASSUME StatusTyped, Partitioned, [Step]_<<linkVars, statusVars>>
                 PROVE  StatusTyped'
      OBVIOUS
    <2>1. CASE StatusNext /\ UNCHANGED linkVars
      BY <2>1, StatusTypedStep
    <2>2. CASE (LinkNext \/ UNCHANGED linkVars) /\ UNCHANGED statusVars
      <3>1. LinkTypeOK'
        BY <2>2, LinkTypeKept DEF StatusTyped
      <3> QED
        BY <2>2, <3>1 DEF statusVars, StatusTyped
    <2> QED
      BY <2>1, <2>2
  <1>3. StatusTyped /\ Partitioned /\ RetriesCounted => StatusTypeOK
    BY DEF StatusTyped, Partitioned, Apart, RetriesCounted, StatusTypeOK
  <1>4. Partitioned /\ RetriesCounted /\ [Step]_<<linkVars, statusVars>> => RetriesCounted'
    <2> SUFFICES ASSUME Partitioned, RetriesCounted, [Step]_<<linkVars, statusVars>>
                 PROVE  RetriesCounted'
      OBVIOUS
    <2>1. CASE StatusNext
      BY <2>1, UpdateKeepsCount, RetrierKeepsCount DEF StatusNext
    <2>2. CASE UNCHANGED statusVars
      BY <2>2 DEF statusVars, RetriesCounted, Waits
    <2> QED
      BY <2>1, <2>2
  <1> QED
    BY <1>1, <1>2, <1>3, <1>4, CountedInit, AlwaysPartitioned, PTL DEF StatusSpec

\* Timers and flushes are named after calls of Update that were made.
BatcherTyped ==
    /\ BatcherTypeOK
    /\ armed \subseteq 1..given /\ flushes \subseteq 1..given
    /\ pending \in {0, given} /\ handed <= given

LEMMA BatcherTypedStep == BatcherTyped /\ BatcherNext => BatcherTyped'
  <1> SUFFICES ASSUME BatcherTyped, BatcherNext PROVE BatcherTyped'
    OBVIOUS
  <1> USE LoadAssumption DEF BatcherTyped, BatcherTypeOK
  <1>1. CASE Update
    <2>1. /\ given' = given + 1 /\ given' \in 1..MaxLoads /\ pending' = given' /\ timer' = given'
          /\ armed' = (armed \ {timer}) \cup {given'}
          /\ UNCHANGED <<flushes, batcherClosed, handed, told>>
      BY <1>1 DEF Update
    <2>2. 1..given \subseteq 1..given' /\ given' \notin 1..given /\ given' \in 1..given'
      BY <2>1
    <2>3. armed' \subseteq 1..given' /\ flushes' \subseteq 1..given' /\ armed' \cap flushes' = {}
      BY <2>1, <2>2
    <2>4. given' \in 0..MaxLoads /\ 1..given' \subseteq 1..MaxLoads /\ handed' <= given'
      BY <2>1
    <2> QED
      BY <2>1, <2>3, <2>4
  <1>2. ASSUME HandOver, pending # 0, UNCHANGED given
        PROVE  handed' \in 0..MaxLoads /\ handed' = given' /\ told' \in 0..handed'
    BY <1>2 DEF HandOver
  <1>3. CASE StopBatcher
    <2>1. armed' \subseteq armed /\ UNCHANGED <<given, pending, timer, flushes>> /\ batcherClosed' = TRUE
      BY <1>3 DEF StopBatcher
    <2>2. CASE pending # 0 /\ HandOver
      BY <1>2, <2>1, <2>2
    <2>3. CASE UNCHANGED <<handed, told>>
      BY <2>1, <2>3
    <2> QED
      BY <1>3, <2>2, <2>3 DEF StopBatcher
  <1>4. ASSUME NEW t \in 1..MaxLoads, TimerFires(t) PROVE BatcherTyped'
    BY <1>4 DEF TimerFires
  <1>5. ASSUME NEW t \in 1..MaxLoads, Flush(t) PROVE BatcherTyped'
    <2>1. flushes' \subseteq flushes /\ UNCHANGED <<given, armed, batcherClosed>>
      BY <1>5 DEF Flush
    <2>2. CASE pending # 0 /\ HandOver /\ pending' = 0 /\ timer' = 0
      BY <1>2, <2>1, <2>2
    <2>3. CASE UNCHANGED <<pending, timer, handed, told>>
      BY <2>1, <2>3
    <2> QED
      BY <1>5, <2>2, <2>3 DEF Flush
  <1> QED
    BY <1>1, <1>3, <1>4, <1>5 DEF BatcherNext

LEMMA BatcherAlwaysTyped == BatcherSpec => []BatcherTypeOK
  <1>1. BatcherInit => BatcherTyped
    <2> SUFFICES ASSUME BatcherInit PROVE BatcherTyped
      OBVIOUS
    <2>1. /\ given = 0 /\ pending = 0 /\ timer = 0 /\ handed = 0 /\ told = 0
          /\ armed = {} /\ flushes = {} /\ batcherClosed = FALSE
      BY DEF BatcherInit
    <2>2. 0 \in 0..MaxLoads /\ 0 \in 0..0 /\ 0 <= 0
      BY LoadAssumption
    <2>3. armed \subseteq 1..MaxLoads /\ flushes \subseteq 1..MaxLoads /\ armed \cap flushes = {}
      BY <2>1
    <2>4. armed \subseteq 1..given /\ flushes \subseteq 1..given
      BY <2>1
    <2>5. BatcherTypeOK
      BY <2>1, <2>2, <2>3, Zenon DEF BatcherTypeOK
    <2> QED
      BY <2>1, <2>2, <2>4, <2>5, Zenon DEF BatcherTyped
  <1>2. BatcherTyped /\ [\/ BatcherNext /\ UNCHANGED linkVars
                         \/ LinkNext /\ UNCHANGED batcherVars]_<<linkVars, batcherVars>>
        => BatcherTyped'
    <2> SUFFICES ASSUME BatcherTyped, [\/ BatcherNext /\ UNCHANGED linkVars
                                       \/ LinkNext /\ UNCHANGED batcherVars]_<<linkVars, batcherVars>>
                 PROVE  BatcherTyped'
      OBVIOUS
    <2>1. CASE BatcherNext
      BY <2>1, BatcherTypedStep
    <2>2. CASE UNCHANGED batcherVars
      BY <2>2 DEF batcherVars, BatcherTyped, BatcherTypeOK
    <2> QED
      BY <2>1, <2>2
  <1>3. BatcherTyped => BatcherTypeOK
    BY DEF BatcherTyped
  <1> QED
    BY <1>1, <1>2, <1>3, PTL DEF BatcherSpec

LEMMA RaceAlwaysTyped == RaceSpec => []RaceTypeOK
  BY RaceTypeInit, RaceTypeNext, PTL DEF RaceSpec

-------------------------------------------------------------------------------
(* What a monitor and a limiter keep.                                        *)

\* A throttling leaves at least one processor, and adds none: the usage is over the quota.
LEMMA ThrottledInRange ==
  ASSUME NEW usage \in Usages, usage > Quota, procs \in 1..CPUs
  PROVE  TargetProcs(usage) \in 1..CPUs
  <1> DEFINE p == procs   u == usage   q == Quota
  <1>1. p \in Nat /\ u \in Nat /\ q \in Nat /\ u > q /\ CPUs \in Nat /\ 1 <= p /\ p <= CPUs
    BY LimiterAssumption
  <1>a. TargetProcs(usage) = IF (p * q) \div u < 1 THEN 1 ELSE (p * q) \div u
    BY DEF TargetProcs
  <1> HIDE DEF p, u, q
  <1>2. u \in Nat \ {0} /\ 0 \in Int /\ p \in Int /\ p * q \in Int /\ 0 * u <= p * q /\ p * q <= p * u
    <2>1. PICK d \in Nat : u = q + d
      <3>1. u - q \in Nat /\ u = q + (u - q)
        BY <1>1
      <3> QED
        BY <3>1
    <2>2. p * u = p * q + p * d /\ p * q \in Nat /\ p * d \in Nat
      BY <1>1, <2>1
    <2> QED
      BY <1>1, <2>2
  <1>3. (p * q) \div u \in 0..p
    BY <1>2, QuotientBetween
  <1> QED
    BY <1>a, <1>1, <1>3

LEMMA SleepsPass ==
  ASSUME delay \in [Restorers -> 0..1], sleeps \in 0..3, Tenth
  PROVE  delay' \in [Restorers -> 0..1] /\ sleeps' \in 0..3
  <1>1. sleeps' = TenthLess(sleeps) /\ delay' = [b \in Restorers |-> TenthLess(delay[b])]
    BY DEF Tenth
  <1>2. \A n \in 0..1 : TenthLess(n) \in 0..1
    BY DEF TenthLess
  <1>3. TenthLess(sleeps) \in 0..3
    BY DEF TenthLess
  <1>4. \A b \in Restorers : TenthLess(delay[b]) \in 0..1
    BY <1>2
  <1> QED
    BY <1>1, <1>3, <1>4

LEMMA TickerRuns ==
  ASSUME untilTick \in 1..CheckInterval, tickPending \in BOOLEAN, Tenth
  PROVE  untilTick' \in 1..CheckInterval /\ tickPending' \in BOOLEAN
  <1>1. CASE UNCHANGED <<untilTick, tickPending>>
    BY <1>1
  <1>2. CASE untilTick > 1 /\ untilTick' = untilTick - 1 /\ UNCHANGED tickPending
    BY <1>2, LimiterAssumption
  <1>3. CASE untilTick' = CheckInterval /\ tickPending' = TRUE
    BY <1>3, LimiterAssumption
  <1> QED
    BY <1>1, <1>2, <1>3 DEF Tenth

LEMMA LimiterTypeStep == LimiterTypeOK /\ [LimiterNext]_limiterVars => LimiterTypeOK'
  <1> SUFFICES ASSUME LimiterTypeOK, [LimiterNext]_limiterVars PROVE LimiterTypeOK'
    OBVIOUS
  <1> USE LimiterAssumption DEF LimiterTypeOK, Checks, tickerVars, procsVars
  <1>1. CASE UNCHANGED limiterVars
    BY <1>1 DEF limiterVars
  <1>2. CASE Tenth
    <2>1. delay' \in [Restorers -> 0..1] /\ sleeps' \in 0..3
      BY <1>2, SleepsPass
    <2>2. untilTick' \in 1..CheckInterval /\ tickPending' \in BOOLEAN
      BY <1>2, TickerRuns
    <2> QED
      BY <1>2, <2>1, <2>2 DEF Tenth
  <1>3. CASE Tick \/ LimiterStops \/ MemoryCollected
    BY <1>3 DEF Tick, LimiterStops, MemoryCollected
  <1>4. ASSUME NEW c \in Checks, Violated(c)
        PROVE  violations' \in [Checks -> 0..MaxViolations]
    BY <1>4 DEF Violated
  <1>5. ASSUME NEW over \in BOOLEAN, CheckMemoryUsage(over) \/ CheckFileDescriptors(over)
        PROVE  LimiterTypeOK'
    <2>1. violations' \in [Checks -> 0..MaxViolations]
      BY <1>4, <1>5 DEF CheckMemoryUsage, CheckFileDescriptors
    <2> QED
      BY <1>5, <2>1 DEF CheckMemoryUsage, CheckFileDescriptors
  <1>6. ASSUME NEW usage \in Usages, CheckCPUUsage(usage)
        PROVE  LimiterTypeOK'
    <2>1. violations' \in [Checks -> 0..MaxViolations]
      BY <1>4, <1>6 DEF CheckCPUUsage
    <2>2. CASE checking' = "descriptors" /\ UNCHANGED procsVars
      BY <1>6, <2>1, <2>2 DEF CheckCPUUsage
    <2>3. CASE usage > Quota + 50 /\ Throttle(usage)
      <3>1. usage > Quota
        BY <2>3
      <3>2. targetProcs' \in 1..CPUs /\ currentProcs' \in 1..CPUs
        BY <2>3, <3>1, ThrottledInRange DEF Throttle
      <3>3. /\ checking' = "throttling" /\ firstSample' = FALSE
            /\ UNCHANGED <<sleeps, untilTick, tickPending, enforcing, procs, putBack, delay, limited>>
        BY <1>6, <2>3, Zenon DEF CheckCPUUsage, Throttle
      <3>4. overlapped' \in BOOLEAN
        BY <2>3 DEF Throttle
      <3>5. currentProcs' \in 0..CPUs /\ targetProcs' \in 0..CPUs
            /\ currentProcs' > 0 /\ targetProcs' > 0
        <4> HIDE DEF LimiterTypeOK
        <4> QED
          BY <3>2
      <3>6. "throttling" \in Checks \cup {"tick", "collecting", "throttling", "stopped"}
        OBVIOUS
      <3>7. /\ sleeps' \in 0..3 /\ untilTick' \in 1..CheckInterval /\ tickPending' \in BOOLEAN
            /\ enforcing' \in BOOLEAN /\ procs' \in 1..CPUs /\ putBack' \in [Restorers -> 0..CPUs]
            /\ delay' \in [Restorers -> 0..1] /\ limited' \subseteq LimitedCalls
        BY <3>3, Zenon
      <3>8. checking' = "throttling" /\ firstSample' \in BOOLEAN
        BY <3>3
      <3> QED
        BY <2>1, <3>4, <3>5, <3>6, <3>7, <3>8, Zenon
    <2> QED
      BY <1>6, <2>2, <2>3 DEF CheckCPUUsage
  <1>7. ASSUME NEW b \in Restorers, ProcsLowered(b) \/ RestoreProcs(b)
        PROVE  LimiterTypeOK'
    BY <1>7 DEF ProcsLowered, RestoreProcs
  <1>8. ASSUME NEW c \in LimitedCalls, (\E low \in BOOLEAN : LimitedExecute(c, low)) \/ LimitedReturns(c)
        PROVE  LimiterTypeOK'
    BY <1>8 DEF LimitedExecute, LimitedReturns
  <1> QED
    BY <1>1, <1>2, <1>3, <1>5, <1>6, <1>7, <1>8 DEF LimiterNext

LEMMA LimiterAlwaysTyped == LimiterSpec => []LimiterTypeOK
  <1>1. LimiterInit => LimiterTypeOK
    <2> SUFFICES ASSUME LimiterInit PROVE LimiterTypeOK
      OBVIOUS
    <2>1. violations \in [Checks -> 0..MaxViolations]
      BY LimiterAssumption DEF LimiterInit
    <2>2. putBack \in [Restorers -> 0..CPUs] /\ delay \in [Restorers -> 0..1]
      BY LimiterAssumption DEF LimiterInit
    <2>3. untilTick \in 1..CheckInterval /\ sleeps \in 0..3
      BY LimiterAssumption DEF LimiterInit
    <2>4. procs \in 1..CPUs /\ currentProcs \in 0..CPUs /\ targetProcs \in 0..CPUs
      BY LimiterAssumption DEF LimiterInit
    <2>5. checking = "tick" /\ tickPending \in BOOLEAN /\ enforcing \in BOOLEAN
          /\ firstSample \in BOOLEAN /\ overlapped \in BOOLEAN /\ limited \subseteq LimitedCalls
      BY DEF LimiterInit
    <2> QED
      BY <2>1, <2>2, <2>3, <2>4, <2>5 DEF LimiterTypeOK
  <1> QED
    BY <1>1, LimiterTypeStep, PTL DEF LimiterSpec

\* Between two samples of the memory the flag follows the last one; and there were no more
\* increases than there are goroutines.
MonitorInv ==
    /\ MonitorTypeOK
    /\ goroutineIncreases <= lastGoroutineCount
    /\ sampler # "memory" /\ lastMemory > MemoryLimit => oomDetected

LEMMA MonitorInvStep == MonitorInv /\ [MonitorNext]_monitorVars => MonitorInv'
  <1> SUFFICES ASSUME MonitorInv, [MonitorNext]_monitorVars PROVE MonitorInv'
    OBVIOUS
  <1> USE MonitorAssumption DEF MonitorInv, MonitorTypeOK, memoryVars, goroutineVars, graphVars
  <1>1. CASE UNCHANGED monitorVars
    BY <1>1 DEF monitorVars
  <1>2. ASSUME NEW alloc \in 0..MaxMemory, SampleMemory(alloc)
        PROVE  MonitorInv'
    BY <1>2 DEF SampleMemory
  <1>3. CASE CheckMemory
    BY <1>3 DEF CheckMemory, OverLimit
  <1>4. ASSUME NEW count \in 1..MaxGoroutines, CheckGoroutineLeaks(count)
        PROVE  MonitorInv'
    <2>1. Increases(count) \in 0..count
      BY DEF Increases
    <2>2. Increases(count) \in 0..MaxGoroutines /\ Increases(count) <= count /\ count \in 0..MaxGoroutines
      BY <2>1
    <2> QED
      BY <1>4, <2>2 DEF CheckGoroutineLeaks
  <1>5. CASE MonitorStops
    BY <1>5 DEF MonitorStops
  <1>6. ASSUME NEW from \in Nodes, NEW to \in Nodes, AddDependency(from, to)
        PROVE  MonitorInv'
    <2>1. dependencies' = [dependencies EXCEPT ![from] = Append(@, to)]
      BY <1>6 DEF AddDependency
    <2>2. dependencies' \in [Nodes -> Seq(Nodes)]
      BY <2>1
    <2>3. circularDepDetected' \in BOOLEAN /\ UNCHANGED <<sampler, memoryVars, goroutineVars, guarded>>
      BY <1>6 DEF AddDependency
    <2> QED
      BY <2>2, <2>3
  <1>7. ASSUME NEW c \in GuardedCalls, ExecuteWithProtection(c) \/ GuardAsks(c) \/ GuardedReturns(c)
        PROVE  MonitorInv'
    <2> DEFINE Guarded == [at : {"idle", "asking", "running"}, retries : 0..MaxGuardRetries]
    <2>1. guarded[c] \in Guarded /\ NotGuarded \in Guarded
      BY DEF NotGuarded
    <2>2. \E g \in Guarded : guarded' = [guarded EXCEPT ![c] = g]
      <3>1. CASE ExecuteWithProtection(c)
        <4>1. [guarded[c] EXCEPT !.at = "asking"] \in Guarded
          BY <2>1
        <4>2. guarded' = [guarded EXCEPT ![c] = [guarded[c] EXCEPT !.at = "asking"]]
          BY <3>1, Zenon DEF ExecuteWithProtection
        <4> HIDE DEF Guarded
        <4> QED
          BY <4>1, <4>2, Zenon
      <3>2. CASE GuardAsks(c)
        <4> DEFINE g == IF IsHealthy THEN [at |-> "running", retries |-> 0]
                        ELSE IF guarded[c].retries + 1 < MaxGuardRetries
                        THEN [at |-> "asking", retries |-> guarded[c].retries + 1]
                        ELSE NotGuarded
        <4>1. g \in Guarded
          BY <2>1
        <4>2. guarded' = [guarded EXCEPT ![c] = g]
          BY <3>2, Zenon DEF GuardAsks
        <4> HIDE DEF Guarded, g
        <4> QED
          BY <4>1, <4>2, Zenon
      <3>3. CASE GuardedReturns(c)
        <4> HIDE DEF Guarded
        <4> QED
          BY <2>1, <3>3, Zenon DEF GuardedReturns
      <3> QED
        BY <1>7, <3>1, <3>2, <3>3
    <2> HIDE DEF Guarded
    <2>5. guarded' \in [GuardedCalls -> Guarded]
      BY <2>2 DEF Guarded
    <2>3. UNCHANGED <<sampler, memoryVars, goroutineVars, graphVars>>
      BY <1>7 DEF ExecuteWithProtection, GuardAsks, GuardedReturns
    <2> QED
      BY <2>5, <2>3 DEF Guarded
  <1> QED
    BY <1>1, <1>2, <1>3, <1>4, <1>5, <1>6, <1>7 DEF MonitorNext

\* For any memory and limit: whenever the monitor waits for its tick, memory over the limit
\* is flagged.
LEMMA MonitorAlwaysNotices == MonitorSpec => [](MonitorTypeOK /\ OutOfMemoryNoticed)
  <1>1. MonitorInit => MonitorInv
    <2> SUFFICES ASSUME MonitorInit PROVE MonitorInv
      OBVIOUS
    <2>1. dependencies \in [Nodes -> Seq(Nodes)]
      BY DEF MonitorInit
    <2>2. guarded \in [GuardedCalls -> [at : {"idle", "asking", "running"}, retries : 0..MaxGuardRetries]]
      BY MonitorAssumption DEF MonitorInit, NotGuarded
    <2>3. /\ lastMemory \in 0..MaxMemory /\ previousMemory \in 0..MaxMemory
          /\ lastGoroutineCount \in 0..MaxGoroutines /\ goroutineIncreases \in 0..MaxGoroutines
          /\ goroutineIncreases <= lastGoroutineCount /\ ~(lastMemory > MemoryLimit)
      BY MonitorAssumption DEF MonitorInit
    <2>4. /\ sampler = "waiting" /\ oomDetected = FALSE /\ leakDetected = FALSE
          /\ circularDepDetected = FALSE
      BY DEF MonitorInit
    <2>5. MonitorTypeOK
      BY <2>1, <2>2, <2>3, <2>4, Zenon DEF MonitorTypeOK
    <2> QED
      BY <2>3, <2>5, Zenon DEF MonitorInv
  <1>2. MonitorInv => MonitorTypeOK /\ OutOfMemoryNoticed
    BY DEF MonitorInv, OutOfMemoryNoticed
  <1> QED
    BY <1>1, <1>2, MonitorInvStep, PTL DEF MonitorSpec

-------------------------------------------------------------------------------
(* The window of the back-pressure controller: of the events recorded, which  *)
(* came in the order of the clock, the first ones are Old, and only those *)
(* before the window.                                                         *)

\* The numbers up to one of them are as many as it says.
LEMMA InitialSegment ==
  ASSUME NEW n \in Nat, NEW S \in SUBSET (1..n), \A i \in S : \A k \in 1..i : k \in S
  PROVE  Cardinality(S) \in 0..n /\ S = 1..Cardinality(S)
  <1>1. \E m \in 0..n : S = 1..m
    <2>1. CASE S = {}
      <3>1. 0 \in 0..n /\ 1..0 = {}
        OBVIOUS
      <3> QED
        BY <2>1, <3>1
    <2>2. CASE S # {}
      <3>1. IsFiniteSet(S) /\ S \subseteq Nat
        <4>1. IsFiniteSet(1..n) /\ 1..n \subseteq Nat
          BY FS_Interval
        <4>2. IsFiniteSet(S)
          BY <4>1, FS_Subset
        <4> QED
          BY <4>1, <4>2
      <3>2. PICK m \in S : \A y \in S : y <= m
        BY <2>2, <3>1, FiniteHasEnds
      <3>3. m \in 1..n /\ m \in 0..n
        OBVIOUS
      <3>4. \A y \in S : y \in 1..m
        BY <3>2, <3>3
      <3>5. \A y \in 1..m : y \in S
        OBVIOUS
      <3>6. S = 1..m
        BY <3>4, <3>5
      <3> QED
        BY <3>3, <3>6
    <2> QED
      BY <2>1, <2>2
  <1>2. PICK m \in 0..n : S = 1..m
    BY <1>1
  <1>3. Cardinality(1..m) = m
    BY <1>2, FS_Interval
  <1> QED
    BY <1>2, <1>3

\* recordedEvents is the end of allEvents, what was Old before it.
RateInv ==
    /\ workerClock \in 0..MaxClock /\ lastCleanup \in 0..MaxClock
    /\ recordedEvents \in Seq(0..MaxClock) /\ allEvents \in Seq(0..MaxClock)
    /\ \A i, k \in 1..Len(allEvents) : i <= k => allEvents[i] <= allEvents[k]
    /\ \A i \in 1..Len(allEvents) : allEvents[i] <= workerClock
    /\ \E d \in Nat :
        /\ Len(allEvents) = d + Len(recordedEvents)
        /\ \A i \in 1..Len(recordedEvents) : recordedEvents[i] = allEvents[d + i]
        /\ \A i \in 1..d : allEvents[i] < workerClock - Window
    /\ timingGuards \in [TimingGuards -> {"idle", "asking", "delayed", "recording", "running"}]

LEMMA RateAlwaysExact == RateInv => RateIsExact
  <1> SUFFICES ASSUME RateInv PROVE RateIsExact
    OBVIOUS
  <1> DEFINE cutoff == workerClock - Window
             n == Len(recordedEvents)
             S == {i \in DOMAIN recordedEvents :
                     \A k \in i..n : recordedEvents[k] > cutoff}
             T == {i \in DOMAIN allEvents : allEvents[i] > cutoff}
  <1>1. PICK d \in Nat :
            /\ Len(allEvents) = d + Len(recordedEvents)
            /\ \A i \in 1..Len(recordedEvents) : recordedEvents[i] = allEvents[d + i]
            /\ \A i \in 1..d : allEvents[i] < workerClock - Window
    BY DEF RateInv
  <1>2. /\ cutoff \in Int /\ n \in Nat /\ DOMAIN recordedEvents = 1..n
        /\ DOMAIN allEvents = 1..(d + n)
        /\ \A i \in 1..n : recordedEvents[i] \in Int /\ recordedEvents[i] = allEvents[d + i]
        /\ \A i \in 1..(d + n) : allEvents[i] \in Int
        /\ \A i \in 1..d : allEvents[i] < cutoff
    <2>1. /\ recordedEvents \in Seq(0..MaxClock) /\ allEvents \in Seq(0..MaxClock)
          /\ workerClock \in Int /\ Window \in Int /\ MaxClock \in Nat
      BY TimingAssumption DEF RateInv
    <2>2. n \in Nat /\ DOMAIN recordedEvents = 1..n /\ \A i \in 1..n : recordedEvents[i] \in Int
      BY <2>1
    <2>3. Len(allEvents) = d + n
      BY <1>1
    <2>4. DOMAIN allEvents = 1..(d + n)
      BY <2>1, <2>3
    <2>5. \A i \in 1..(d + n) : allEvents[i] \in Int
      <3>1. \A i \in DOMAIN allEvents : allEvents[i] \in Int
        BY <2>1
      <3> QED
        BY <2>4, <3>1
    <2>6. /\ \A i \in 1..n : recordedEvents[i] = allEvents[d + i]
          /\ \A i \in 1..d : allEvents[i] < cutoff
      BY <1>1
    <2>7. cutoff \in Int
      BY <2>1
    <2> QED
      BY <2>2, <2>4, <2>5, <2>6, <2>7, Zenon
  <1>3. \A i, k \in 1..(d + n) : i <= k => allEvents[i] <= allEvents[k]
    BY <1>1 DEF RateInv
  <1>4. CurrentRate = Cardinality(S) /\ (RateIsExact <=> Cardinality(S) = Cardinality(T))
    BY DEF CurrentRate, RateIsExact
  <1> HIDE DEF cutoff, n
  <1>5. S = {i \in 1..n : recordedEvents[i] > cutoff}
    <2>1. ASSUME NEW i \in 1..n, recordedEvents[i] > cutoff, NEW k \in i..n
          PROVE  recordedEvents[k] > cutoff
      <3>1. k \in 1..n /\ d + i \in 1..(d + n) /\ d + k \in 1..(d + n) /\ d + i <= d + k
        BY <1>2
      <3>2. allEvents[d + i] <= allEvents[d + k]
        BY <1>3, <3>1
      <3> QED
        BY <1>2, <2>1, <3>1, <3>2
    <2>2. \A i \in 1..n : i \in i..n
      BY <1>2
    <2> QED
      BY <1>2, <2>1, <2>2
  <1>6. T = {i \in 1..(d + n) : allEvents[i] > cutoff}
    BY <1>2
  <1> HIDE DEF S, T
  <1> DEFINE F == [i \in S |-> d + i]
  <1>7. F \in Bijection(S, T)
    <2>1. \A i \in S : d + i \in T /\ i \in Nat
      BY <1>1, <1>2, <1>5, <1>6
    <2>2. F \in [S -> T]
      BY <2>1
    <2>3. \A i, k \in S : F[i] = F[k] => i = k
      BY <1>1, <2>1
    <2>4. ASSUME NEW t \in T PROVE \E i \in S : F[i] = t
      <3>1. t \in 1..(d + n) /\ allEvents[t] > cutoff
        BY <1>6
      <3>2. t \notin 1..d
        BY <1>2, <3>1
      <3>3. t - d \in 1..n /\ d + (t - d) = t
        BY <1>1, <1>2, <3>1, <3>2
      <3>4. t - d \in S
        BY <1>2, <1>5, <3>1, <3>3
      <3> QED
        BY <3>3, <3>4
    <2> QED
      BY <2>2, <2>3, <2>4 DEF Bijection, Injection, Surjection, IsInjective
  <1>8. IsFiniteSet(S)
    <2>1. IsFiniteSet(1..n) /\ S \subseteq 1..n
      BY <1>2, <1>5, FS_Interval
    <2> QED
      BY <2>1, FS_Subset
  <1>9. ExistsBijection(S, T)
    BY <1>7 DEF ExistsBijection
  <1> QED
    BY <1>4, <1>8, <1>9, FS_Bijection

LEMMA CleanedUpEnd ==
  ASSUME workerClock \in Nat, NEW events \in Seq(0..MaxClock)
  PROVE  \E m \in 0..Len(events) :
           /\ CleanedUp(events) \in Seq(0..MaxClock)
           /\ Len(CleanedUp(events)) = Len(events) - m
           /\ \A i \in 1..Len(events) - m : CleanedUp(events)[i] = events[m + i]
           /\ \A i \in 1..m : events[i] < workerClock - Window
  <1> DEFINE Old == {i \in DOMAIN events : \A k \in 1..i : events[k] < workerClock - Window}
             m == Cardinality(Old)
  <1>1. CleanedUp(events) = SubSeq(events, m + 1, Len(events))
    BY DEF CleanedUp
  <1>2. /\ Len(events) \in Nat /\ Old \in SUBSET (1..Len(events))
        /\ \A i \in Old : \A k \in 1..i : k \in Old
    OBVIOUS
  <1>3. \A i \in Old : i \in 1..i /\ events[i] < workerClock - Window
    OBVIOUS
  <1> HIDE DEF Old
  <1>4. m \in 0..Len(events) /\ Old = 1..m
    BY <1>2, InitialSegment
  <1> HIDE DEF m
  <1>5. \A i \in 1..m : events[i] < workerClock - Window
    BY <1>3, <1>4
  <1>6. /\ CleanedUp(events) \in Seq(0..MaxClock)
        /\ Len(CleanedUp(events)) = Len(events) - m
        /\ \A i \in 1..Len(events) - m : CleanedUp(events)[i] = events[m + i]
    BY <1>1, <1>4, EndOfSequence
  <1> QED
    BY <1>4, <1>5, <1>6, Zenon

LEMMA RecordKeeps ==
  ASSUME RateInv, Record, UNCHANGED workerClock,
         timingGuards' \in [TimingGuards -> {"idle", "asking", "delayed", "recording", "running"}]
  PROVE  RateInv'
  <1> DEFINE c == workerClock
             appended == Append(recordedEvents, c)
             n == Len(recordedEvents)
  <1>1. PICK d \in Nat :
            /\ Len(allEvents) = d + n
            /\ \A i \in 1..n : recordedEvents[i] = allEvents[d + i]
            /\ \A i \in 1..d : allEvents[i] < c - Window
    BY DEF RateInv
  <1>2. /\ c \in 0..MaxClock /\ c \in Nat /\ n \in Nat
        /\ recordedEvents \in Seq(0..MaxClock) /\ allEvents \in Seq(0..MaxClock)
    BY TimingAssumption DEF RateInv
  <1>3. /\ allEvents' = Append(allEvents, c) /\ lastCleanup' \in 0..MaxClock
        /\ recordedEvents' = appended \/ recordedEvents' = CleanedUp(appended)
    BY <1>2 DEF Record, RateInv
  <1>4. /\ allEvents' \in Seq(0..MaxClock) /\ Len(allEvents') = d + n + 1
        /\ \A i \in 1..(d + n) : allEvents'[i] = allEvents[i]
        /\ allEvents'[d + n + 1] = c
    <2>1. PICK a \in Seq(0..MaxClock) : a = allEvents
      BY <1>2
    <2>2. PICK b : b = Append(a, c)
      OBVIOUS
    <2>3. /\ b \in Seq(0..MaxClock) /\ Len(b) = Len(a) + 1
          /\ \A i \in 1..Len(a) : b[i] = a[i]
          /\ b[Len(a) + 1] = c
      BY <1>2, <2>2
    <2>4. Len(a) = d + n /\ b = allEvents'
      BY <1>1, <1>3, <2>1, <2>2, Zenon
    <2> QED
      BY <2>1, <2>3, <2>4
  <1>5. /\ appended \in Seq(0..MaxClock) /\ Len(appended) = n + 1
        /\ \A i \in 1..n : appended[i] = recordedEvents[i]
        /\ appended[n + 1] = c
    BY <1>2
  <1> HIDE DEF appended
  <1>6. \A i \in 1..(n + 1) : appended[i] = allEvents'[d + i]
    <2> SUFFICES ASSUME NEW i \in 1..(n + 1) PROVE appended[i] = allEvents'[d + i]
      OBVIOUS
    <2>1. CASE i \in 1..n
      <3>1. d + i \in 1..(d + n)
        BY <1>1, <1>2, <2>1
      <3> QED
        BY <1>1, <1>4, <1>5, <2>1, <3>1
    <2>2. CASE i = n + 1
      <3>1. d + i = d + n + 1
        BY <1>1, <1>2, <2>2
      <3> QED
        BY <1>4, <1>5, <2>2, <3>1
    <2> QED
      BY <1>2, <2>1, <2>2
  <1>7. /\ \A i, k \in 1..Len(allEvents') : i <= k => allEvents'[i] <= allEvents'[k]
        /\ \A i \in 1..Len(allEvents') : allEvents'[i] <= c
    <2>1. /\ \A i, k \in 1..(d + n) : i <= k => allEvents[i] <= allEvents[k]
          /\ \A i \in 1..(d + n) : allEvents[i] <= c
      BY <1>1 DEF RateInv
    <2>2. \A i \in 1..Len(allEvents') : i \in 1..(d + n) \/ i = d + n + 1
      BY <1>1, <1>2, <1>4
    <2>3. \A i \in 1..Len(allEvents') : allEvents'[i] <= c
      BY <1>2, <1>4, <2>1, <2>2
    <2>4. ASSUME NEW i \in 1..Len(allEvents'), NEW k \in 1..Len(allEvents'), i <= k
          PROVE  allEvents'[i] <= allEvents'[k]
      <3>1. CASE k = d + n + 1
        BY <1>4, <2>3, <3>1
      <3>2. CASE k \in 1..(d + n)
        <4>1. i \in 1..(d + n)
          BY <1>1, <1>2, <2>4, <3>2
        <4> QED
          BY <1>4, <2>1, <2>4, <3>2, <4>1
      <3> QED
        BY <2>2, <3>1, <3>2
    <2> QED
      BY <2>3, <2>4
  <1>8. \E e \in Nat :
            /\ Len(allEvents') = e + Len(recordedEvents')
            /\ \A i \in 1..Len(recordedEvents') : recordedEvents'[i] = allEvents'[e + i]
            /\ \A i \in 1..e : allEvents'[i] < c - Window
    <2>1. \A i \in 1..d : allEvents'[i] < c - Window
      <3>1. \A i \in 1..d : i \in 1..(d + n)
        BY <1>1, <1>2
      <3> QED
        BY <1>1, <1>4, <3>1
    <2>2. CASE recordedEvents' = appended
      <3>1. Len(allEvents') = d + Len(recordedEvents')
        BY <1>1, <1>2, <1>4, <1>5, <2>2
      <3> QED
        BY <1>1, <1>5, <1>6, <2>1, <2>2, <3>1
    <2>3. CASE recordedEvents' = CleanedUp(appended)
      <3>0. Len(appended) = n + 1 /\ appended \in Seq(0..MaxClock) /\ workerClock \in Nat
        BY <1>2, <1>5
      <3>4. PICK m \in 0..Len(appended) :
              /\ CleanedUp(appended) \in Seq(0..MaxClock)
              /\ Len(CleanedUp(appended)) = Len(appended) - m
              /\ \A i \in 1..Len(appended) - m : CleanedUp(appended)[i] = appended[m + i]
              /\ \A i \in 1..m : appended[i] < workerClock - Window
        BY <3>0, CleanedUpEnd, Zenon
      <3>1. /\ m \in 0..(n + 1) /\ Len(CleanedUp(appended)) = n + 1 - m
            /\ \A i \in 1..(n + 1 - m) : CleanedUp(appended)[i] = appended[m + i]
            /\ \A i \in 1..m : appended[i] < c - Window
        <4>1. Len(appended) = n + 1 /\ workerClock = c
          BY <3>0
        <4>2. m \in 0..(n + 1) /\ Len(CleanedUp(appended)) = n + 1 - m
          BY <3>4, <4>1
        <4>3. ASSUME NEW i \in 1..(n + 1 - m) PROVE CleanedUp(appended)[i] = appended[m + i]
          <5>1. i \in 1..Len(appended) - m
            BY <4>1
          <5> QED
            BY <3>4, <5>1, Zenon
        <4> QED
          BY <3>4, <4>2, <4>3, Zenon
      <3>2. d + m \in Nat /\ Len(allEvents') = (d + m) + Len(recordedEvents')
        BY <1>1, <1>2, <1>4, <2>3, <3>1
      <3>3. \A i \in 1..Len(recordedEvents') : recordedEvents'[i] = allEvents'[(d + m) + i]
        <4> SUFFICES ASSUME NEW i \in 1..(n + 1 - m)
                     PROVE  CleanedUp(appended)[i] = allEvents'[(d + m) + i]
          BY <2>3, <3>1
        <4>1. m + i \in 1..(n + 1) /\ d + (m + i) = (d + m) + i
          BY <1>1, <1>2, <3>1
        <4> QED
          BY <1>6, <3>1, <4>1
      <3>5. \A i \in 1..(d + m) : allEvents'[i] < c - Window
        <4> SUFFICES ASSUME NEW i \in 1..(d + m), i \notin 1..d
                     PROVE  allEvents'[i] < c - Window
          BY <2>1
        <4>1. i - d \in 1..m /\ i - d \in 1..(n + 1) /\ d + (i - d) = i
          BY <1>1, <1>2, <3>1
        <4> QED
          BY <1>6, <3>1, <4>1
      <3> QED
        BY <3>2, <3>3, <3>5
    <2> QED
      BY <1>3, <2>2, <2>3
  <1>9. recordedEvents' \in Seq(0..MaxClock)
    <2>1. CASE recordedEvents' = CleanedUp(appended)
      <3>1. CleanedUp(appended) \in Seq(0..MaxClock)
        <4>1. Len(appended) = n + 1 /\ appended \in Seq(0..MaxClock) /\ workerClock \in Nat
          BY <1>2, <1>5
        <4>2. \E m \in 0..Len(appended) :
                /\ CleanedUp(appended) \in Seq(0..MaxClock)
                /\ Len(CleanedUp(appended)) = Len(appended) - m
                /\ \A i \in 1..Len(appended) - m : CleanedUp(appended)[i] = appended[m + i]
                /\ \A i \in 1..m : appended[i] < workerClock - Window
          BY <4>1, CleanedUpEnd, Zenon
        <4> QED
          BY <4>1, <4>2, Zenon
      <3> QED
        BY <2>1, <3>1
    <2> QED
      BY <1>3, <1>5, <2>1
  <1> QED
    BY <1>2, <1>3, <1>4, <1>7, <1>8, <1>9 DEF RateInv

LEMMA RateInvStep == RateInv /\ [TimingNext]_timingVars => RateInv'
  <1> SUFFICES ASSUME RateInv, [TimingNext]_timingVars PROVE RateInv'
    OBVIOUS
  <1>1. ASSUME UNCHANGED <<workerClock, rateVars>>,
               timingGuards' \in [TimingGuards -> {"idle", "asking", "delayed", "recording", "running"}]
        PROVE  RateInv'
    BY <1>1 DEF RateInv, rateVars
  <1>2. CASE UNCHANGED timingVars
    BY <1>1, <1>2 DEF timingVars, RateInv
  <1>3. CASE ClockTicks
    <2>1. /\ workerClock' = workerClock + 1 /\ workerClock' \in 0..MaxClock
          /\ UNCHANGED <<recordedEvents, allEvents, lastCleanup, timingGuards>>
      BY <1>3, TimingAssumption DEF ClockTicks, RateInv, rateVars
    <2>2. /\ allEvents \in Seq(0..MaxClock) /\ workerClock \in Int /\ Window \in Int
          /\ \A i \in 1..Len(allEvents) : allEvents[i] \in Int
      BY TimingAssumption DEF RateInv
    <2>3. \A i \in 1..Len(allEvents) : allEvents[i] <= workerClock'
      BY <2>1, <2>2 DEF RateInv
    <2>4. PICK d \in Nat :
            /\ Len(allEvents) = d + Len(recordedEvents)
            /\ \A i \in 1..Len(recordedEvents) : recordedEvents[i] = allEvents[d + i]
            /\ \A i \in 1..d : allEvents[i] < workerClock - Window
      BY DEF RateInv
    <2>5. \A i \in 1..d : allEvents[i] < workerClock' - Window
      <3>1. Len(recordedEvents) \in Nat
        BY DEF RateInv
      <3>2. \A i \in 1..d : i \in 1..Len(allEvents)
        BY <2>4, <3>1
      <3> QED
        BY <2>1, <2>2, <2>4, <3>2
    <2> QED
      BY <2>1, <2>3, <2>4, <2>5 DEF RateInv
  <1>4. CASE RecordEvent
    BY <1>4, RecordKeeps DEF RecordEvent, RateInv
  <1>5. CASE \/ \E skew \in Skews : UpdateServerTime(skew)
             \/ \E j \in TimedJobs : (\E d \in Deadlines : SetDeadline(j, d)) \/ RemoveDeadline(j)
    <2>1. UNCHANGED <<workerClock, rateVars, timingGuards>>
      BY <1>5 DEF UpdateServerTime, SetDeadline, RemoveDeadline
    <2> QED
      BY <1>1, <2>1 DEF RateInv
  <1>6. ASSUME NEW g \in TimingGuards, NEW j \in TimedJobs, GuardBegins(g, j)
        PROVE  RateInv'
    BY <1>1, <1>6 DEF GuardBegins, GuardMoves, RateInv
  <1>7. ASSUME NEW g \in TimingGuards, GuardChecksRate(g) \/ DelayEnds(g) \/ GuardReturns(g)
        PROVE  RateInv'
    <2>1. timingGuards' \in [TimingGuards -> {"idle", "asking", "delayed", "recording", "running"}]
      BY <1>7 DEF GuardChecksRate, DelayEnds, GuardReturns, GuardMoves, RateInv
    <2> QED
      BY <1>1, <1>7, <2>1 DEF GuardChecksRate, DelayEnds, GuardReturns
  <1>8. ASSUME NEW g \in TimingGuards, GuardRuns(g)
        PROVE  RateInv'
    <2>1. timingGuards' \in [TimingGuards -> {"idle", "asking", "delayed", "recording", "running"}]
      BY <1>8 DEF GuardRuns, GuardMoves, RateInv
    <2> QED
      BY <1>8, <2>1, RecordKeeps DEF GuardRuns
  <1> QED
    BY <1>2, <1>3, <1>4, <1>5, <1>6, <1>7, <1>8 DEF TimingNext

\* For any events, window and guards, and whenever the list is cleaned up: the rate is that of
\* all events ever recorded, what was cleaned up does not show.
LEMMA RateAlwaysOfAll == TimingSpec => [](RateInv /\ RateIsExact)
  <1>1. TimingInit => RateInv
    <2> SUFFICES ASSUME TimingInit PROVE RateInv
      OBVIOUS
    <2>1. /\ workerClock = 0 /\ lastCleanup = 0 /\ recordedEvents = <<>> /\ allEvents = <<>>
          /\ Len(allEvents) = 0 /\ Len(recordedEvents) = 0
          /\ timingGuards \in [TimingGuards -> {"idle"}]
      BY DEF TimingInit
    <2>2. 0 \in Nat /\ Len(allEvents) = 0 + Len(recordedEvents) /\ 1..0 = {}
      BY <2>1
    <2> QED
      BY <2>1, <2>2, TimingAssumption DEF RateInv
  <1> QED
    BY <1>1, RateInvStep, RateAlwaysExact, PTL DEF TimingSpec

-------------------------------------------------------------------------------
(* The protocol handler.                                                     *)

\* Goroutines that counted a message and are to count its type.
Counting == {c \in ProtocolCallers : protocolCalls[c].wants = "count"}

ProtocolCall == WriteCalls \cup {Idling, [wants |-> "metrics"]}

\* A type was seen no more often than all were.
ProtocolInv ==
    /\ serverVersion \in Versions \cup {NoVersion}
    /\ versionMismatchDetected \in BOOLEAN /\ strictMode \in BOOLEAN
    /\ unknownMessageCount \in 0..MaxUnknown
    /\ unsupportedMessageTypes \in [UnknownTypes -> Nat]
    /\ unknownMessageCount = TotalOf(unsupportedMessageTypes) + Cardinality(Counting)
    /\ registry \subseteq UnknownTypes
    /\ readers \subseteq ProtocolCallers
    /\ protocolCalls \in [ProtocolCallers -> ProtocolCall]
    /\ upgrade \in [call : {"idle", "waiting", "returned", "rolled back"},
                    func : {"none", "running", "done", "failed"}]

LEMMA CountingFinite == IsFiniteSet(Counting) /\ Cardinality(Counting) \in Nat
  BY ProtocolAssumption, FS_Subset, FS_CardinalityType DEF Counting

LEMMA CallTypes ==
  ASSUME NEW call \in ProtocolCall
  PROVE  /\ call.wants = "set version" => call.version \in Versions \cup {NoVersion}
         /\ call.wants = "count" => call.type \in UnknownTypes
         /\ call.wants = "set strict" => call.strict \in BOOLEAN
  <1>1. CASE call \in [wants : {"set version"}, version : Versions \cup {NoVersion}]
    BY <1>1
  <1>2. CASE call \in [wants : {"count"}, type : UnknownTypes]
    BY <1>2
  <1>3. CASE call \in [wants : {"set strict"}, strict : BOOLEAN]
    <2>1. call.wants = "set strict" /\ call.strict \in BOOLEAN
      BY <1>3, Zenon
    <2> QED
      BY <2>1, Zenon
  <1>4. CASE call \in {Idling, [wants |-> "metrics"]}
    <2>1. call.wants \in {"nothing", "metrics"}
      BY <1>4 DEF Idling
    <2> QED
      BY <2>1, Zenon
  <1> QED
    BY <1>1, <1>2, <1>3, <1>4 DEF ProtocolCall, WriteCalls

\* A step that counts no message and no type.
LEMMA CountsRest ==
  ASSUME ProtocolInv, NEW c \in ProtocolCallers, NEW call \in ProtocolCall,
         call.wants # "count", protocolCalls[c].wants # "count",
         protocolCalls' = [protocolCalls EXCEPT ![c] = call],
         UNCHANGED countVars,
         serverVersion' \in Versions \cup {NoVersion},
         versionMismatchDetected' \in BOOLEAN, strictMode' \in BOOLEAN,
         registry' \subseteq UnknownTypes, readers' \subseteq ProtocolCallers, UNCHANGED upgrade
  PROVE  ProtocolInv'
  <1>1. protocolCalls' \in [ProtocolCallers -> ProtocolCall]
    BY DEF ProtocolInv
  <1>2. Counting' = Counting
    BY DEF ProtocolInv, Counting
  <1>3. UNCHANGED <<unknownMessageCount, unsupportedMessageTypes>>
    BY DEF countVars
  <1> HIDE DEF Counting
  <1> QED
    BY <1>1, <1>2, <1>3 DEF ProtocolInv

LEMMA ProtocolInvStep == ProtocolInv /\ [ProtocolNext]_protocolVars => ProtocolInv'
  <1> SUFFICES ASSUME ProtocolInv, [ProtocolNext]_protocolVars PROVE ProtocolInv'
    OBVIOUS
  <1> DEFINE Upgrading == [call : {"idle", "waiting", "returned", "rolled back"},
                           func : {"none", "running", "done", "failed"}]
  <1>0. /\ Idling \in ProtocolCall /\ Idling.wants # "count"
        /\ [wants |-> "metrics"] \in ProtocolCall
        /\ \A c \in ProtocolCallers : protocolCalls[c] \in ProtocolCall
    BY DEF ProtocolCall, Idling, ProtocolInv
  <1>1. ASSUME UNCHANGED <<versionVars, countVars, strictMode, lockVars>>,
               registry' \subseteq UnknownTypes, upgrade' \in Upgrading
        PROVE  ProtocolInv'
    <2>1. UNCHANGED <<serverVersion, versionMismatchDetected, unknownMessageCount,
                      unsupportedMessageTypes, strictMode, readers, protocolCalls>>
      BY <1>1 DEF versionVars, countVars, lockVars
    <2>2. Counting' = Counting
      BY <2>1 DEF Counting
    <2> HIDE DEF Counting
    <2> QED
      BY <1>1, <2>1, <2>2 DEF ProtocolInv
  <1>2. CASE UNCHANGED protocolVars
    BY <1>1, <1>2 DEF protocolVars, ProtocolInv
  <1>3. ASSUME NEW type \in UnknownTypes, RegisterHandler(type)
        PROVE  ProtocolInv'
    BY <1>1, <1>3 DEF RegisterHandler, ProtocolInv
  <1>4. CASE PerformUpgrade \/ UpgradeFuncEnds \/ UpgradeReturns \/ UpgradeTimesOut
    <2>3. ASSUME PerformUpgrade PROVE upgrade' \in Upgrading
      BY <2>3 DEF PerformUpgrade, Upgrades
    <2>4. ASSUME UpgradeFuncEnds PROVE upgrade' \in Upgrading
      <3>1. PICK call \in {"waiting", "rolled back"}, func \in {"done", "failed"} :
              upgrade' = [call |-> call, func |-> func]
        BY <2>4, Zenon DEF UpgradeFuncEnds, Upgrades
      <3> QED
        BY <3>1
    <2>5. ASSUME UpgradeReturns PROVE upgrade' \in Upgrading
      <3>1. \/ upgrade' = [call |-> "returned", func |-> "done"]
            \/ upgrade' = [call |-> "rolled back", func |-> "failed"]
        BY <2>5 DEF UpgradeReturns, Upgrades
      <3>2. CASE upgrade' = [call |-> "returned", func |-> "done"]
        BY <3>2
      <3>3. CASE upgrade' = [call |-> "rolled back", func |-> "failed"]
        BY <3>3
      <3> QED
        BY <3>1, <3>2, <3>3, Zenon
    <2>6. ASSUME UpgradeTimesOut PROVE upgrade' \in Upgrading
      <3>1. PICK func \in {"running", "done", "failed"} :
              upgrade' = [call |-> "rolled back", func |-> func]
        BY <2>6, Zenon DEF UpgradeTimesOut, Upgrades
      <3> QED
        BY <3>1
    <2>1. upgrade' \in Upgrading
      BY <1>4, <2>3, <2>4, <2>5, <2>6
    <2>2. UNCHANGED <<versionVars, countVars, strictMode, registry, lockVars>>
      BY <1>4 DEF PerformUpgrade, UpgradeFuncEnds, UpgradeReturns, UpgradeTimesOut, Upgrades
    <2> QED
      BY <1>1, <2>1, <2>2 DEF ProtocolInv
  <1>5. ASSUME NEW c \in ProtocolCallers, NEW v \in Versions \cup {NoVersion}, SetServerVersion(c, v)
        PROVE  ProtocolInv'
    <2> DEFINE call == [wants |-> "set version", version |-> v]
    <2>1. call \in ProtocolCall /\ call.wants # "count"
      BY DEF ProtocolCall, WriteCalls
    <2>2. protocolCalls[c] = Idling /\ protocolCalls' = [protocolCalls EXCEPT ![c] = call]
      BY <1>5 DEF SetServerVersion, Asks
    <2> HIDE DEF call
    <2> QED
      BY <1>0, <1>5, <2>1, <2>2, CountsRest DEF SetServerVersion, versionVars, ProtocolInv
  <1>6. ASSUME NEW c \in ProtocolCallers, NEW strict \in BOOLEAN, SetStrictMode(c, strict)
        PROVE  ProtocolInv'
    <2> DEFINE call == [wants |-> "set strict", strict |-> strict]
    <2>1. call \in ProtocolCall /\ call.wants # "count"
      BY DEF ProtocolCall, WriteCalls
    <2>2. protocolCalls[c] = Idling /\ protocolCalls' = [protocolCalls EXCEPT ![c] = call]
      BY <1>6 DEF SetStrictMode, Asks
    <2> HIDE DEF call
    <2> QED
      BY <1>0, <1>6, <2>1, <2>2, CountsRest DEF SetStrictMode, versionVars, ProtocolInv
  <1>7. ASSUME NEW c \in ProtocolCallers, NegotiateVersion(c)
        PROVE  ProtocolInv'
    <2>1. protocolCalls[c].wants = "set version" /\ protocolCalls' = [protocolCalls EXCEPT ![c] = Idling]
      BY <1>7 DEF NegotiateVersion, Writes
    <2>2. serverVersion' \in Versions \cup {NoVersion}
      BY <1>0, <1>7, <2>1, CallTypes DEF NegotiateVersion
    <2>3. versionMismatchDetected' \in BOOLEAN
      BY <1>7 DEF NegotiateVersion, ProtocolInv
    <2> QED
      BY <1>0, <1>7, <2>1, <2>2, <2>3, CountsRest DEF NegotiateVersion, ProtocolInv
  <1>8. ASSUME NEW c \in ProtocolCallers, StrictModeSet(c)
        PROVE  ProtocolInv'
    <2>1. protocolCalls[c].wants = "set strict" /\ protocolCalls' = [protocolCalls EXCEPT ![c] = Idling]
      BY <1>8 DEF StrictModeSet, Writes
    <2>2. strictMode' \in BOOLEAN
      BY <1>0, <1>8, <2>1, CallTypes DEF StrictModeSet
    <2> QED
      BY <1>0, <1>8, <2>1, <2>2, CountsRest DEF StrictModeSet, versionVars, ProtocolInv
  <1>9. ASSUME NEW c \in ProtocolCallers, MetricsBegin(c)
        PROVE  ProtocolInv'
    <2>1. protocolCalls[c] = Idling /\ protocolCalls' = [protocolCalls EXCEPT ![c] = [wants |-> "metrics"]]
      BY <1>9 DEF MetricsBegin, Asks
    <2> QED
      BY <1>0, <1>9, <2>1, CountsRest DEF MetricsBegin, versionVars, ProtocolInv
  <1>10. ASSUME NEW c \in ProtocolCallers, MetricsEnd(c)
         PROVE  ProtocolInv'
    <2>1. protocolCalls[c].wants = "metrics" /\ protocolCalls' = [protocolCalls EXCEPT ![c] = Idling]
      BY <1>10 DEF MetricsEnd
    <2> QED
      BY <1>0, <1>10, <2>1, CountsRest DEF MetricsEnd, versionVars, ProtocolInv
  <1>11. ASSUME NEW c \in ProtocolCallers, NEW type \in UnknownTypes, HandleUnknownMessage(c, type)
         PROVE  ProtocolInv'
    <2> DEFINE call == [wants |-> "count", type |-> type]
    <2>1. call \in ProtocolCall /\ call.wants = "count"
      BY DEF ProtocolCall, WriteCalls
    <2>2. /\ protocolCalls[c] = Idling /\ protocolCalls' = [protocolCalls EXCEPT ![c] = call]
          /\ unknownMessageCount < MaxUnknown /\ unknownMessageCount' = unknownMessageCount + 1
          /\ UNCHANGED <<serverVersion, versionMismatchDetected, unsupportedMessageTypes, strictMode,
                         registry, readers, upgrade>>
      BY <1>11 DEF HandleUnknownMessage, Asks, versionVars
    <2> HIDE DEF call
    <2>3. protocolCalls' \in [ProtocolCallers -> ProtocolCall]
      BY <2>1, <2>2 DEF ProtocolInv
    <2>4. c \notin Counting /\ Counting' = Counting \cup {c}
      BY <1>0, <2>1, <2>2 DEF Counting, ProtocolInv
    <2>5. Cardinality(Counting') = Cardinality(Counting) + 1
      BY <2>4, CountingFinite, FS_AddElement
    <2>6. PICK sum \in Nat, n \in Nat : sum = TotalOf(unsupportedMessageTypes) /\ n = Cardinality(Counting)
      BY TotalOfNats, CountingFinite, ProtocolAssumption DEF ProtocolInv
    <2>7. TotalOf(unsupportedMessageTypes') = sum
      BY <2>2, <2>6
    <2>8. /\ unknownMessageCount' \in 0..MaxUnknown
          /\ unknownMessageCount' = TotalOf(unsupportedMessageTypes') + Cardinality(Counting')
      <3>1. unknownMessageCount = sum + n /\ unknownMessageCount \in Nat /\ MaxUnknown \in Nat
        <4>1. unknownMessageCount = TotalOf(unsupportedMessageTypes) + Cardinality(Counting)
          BY Zenon DEF ProtocolInv
        <4>2. unknownMessageCount = sum + n
          BY <2>6, <4>1, Zenon
        <4> QED
          BY <4>2, ProtocolAssumption
      <3>2. Cardinality(Counting') = n + 1
        BY <2>5, <2>6, Zenon
      <3>3. sum + n + 1 = sum + (n + 1)
        OBVIOUS
      <3>4. unknownMessageCount' = sum + (n + 1)
        BY <2>2, <3>1, <3>3
      <3>5. unknownMessageCount' = TotalOf(unsupportedMessageTypes') + Cardinality(Counting')
        BY <2>7, <3>2, <3>4, Zenon
      <3>6. unknownMessageCount' \in 0..MaxUnknown
        BY <2>2, <3>1
      <3> QED
        BY <3>5, <3>6
    <2> HIDE DEF Counting
    <2> QED
      BY <2>2, <2>3, <2>8 DEF ProtocolInv
  <1>12. ASSUME NEW c \in ProtocolCallers, CountUnknown(c)
         PROVE  ProtocolInv'
    <2> DEFINE type == protocolCalls[c].type
               now == unsupportedMessageTypes[type] + 1
    <2>1. /\ protocolCalls[c].wants = "count" /\ protocolCalls' = [protocolCalls EXCEPT ![c] = Idling]
          /\ unsupportedMessageTypes' = [unsupportedMessageTypes EXCEPT ![type] = now]
          /\ UNCHANGED <<serverVersion, versionMismatchDetected, unknownMessageCount, strictMode,
                         registry, readers, upgrade>>
      BY <1>12 DEF CountUnknown, CountType, Writes, versionVars
    <2>2. type \in UnknownTypes
      BY <1>0, <2>1, CallTypes
    <2> HIDE DEF type
    <2>3. /\ unsupportedMessageTypes \in [UnknownTypes -> Nat] /\ unsupportedMessageTypes \in [UnknownTypes -> Int]
          /\ unsupportedMessageTypes[type] \in Nat /\ now \in Nat /\ now \in Int
      <3>1. unsupportedMessageTypes \in [UnknownTypes -> Nat]
        BY DEF ProtocolInv
      <3>2. \A counts \in [UnknownTypes -> Nat] : counts \in [UnknownTypes -> Int]
        OBVIOUS
      <3>3. unsupportedMessageTypes[type] \in Nat
        BY <2>2, <3>1
      <3> QED
        BY <3>1, <3>2, <3>3
    <2>4. TotalOf(unsupportedMessageTypes) \in Nat
      BY <2>3, TotalOfNats, ProtocolAssumption
    <2>5. TotalOf(unsupportedMessageTypes') = TotalOf(unsupportedMessageTypes) - unsupportedMessageTypes[type] + now
      <3> HIDE DEF now
      <3>1. TotalOf([unsupportedMessageTypes EXCEPT ![type] = now])
               = TotalOf(unsupportedMessageTypes) - unsupportedMessageTypes[type] + now
        BY <2>2, <2>3, TotalChanged, ProtocolAssumption
      <3> QED
        BY <2>1, <3>1
    <2>6. c \in Counting /\ Counting' = Counting \ {c}
      BY <1>0, <2>1 DEF Counting, ProtocolInv
    <2>7. Cardinality(Counting') = Cardinality(Counting) - 1
      BY <2>6, CountingFinite, FS_RemoveElement
    <2>8. PICK sum \in Nat, n \in Nat : sum = TotalOf(unsupportedMessageTypes) /\ n = Cardinality(Counting)
      BY <2>4, CountingFinite
    <2>9. TotalOf(unsupportedMessageTypes') = sum + 1
      BY <2>3, <2>5, <2>8
    <2>10. unknownMessageCount' = TotalOf(unsupportedMessageTypes') + Cardinality(Counting')
      <3>0. unknownMessageCount = TotalOf(unsupportedMessageTypes) + Cardinality(Counting)
        BY Zenon DEF ProtocolInv
      <3>1. unknownMessageCount = sum + n
        BY <2>8, <3>0, Zenon
      <3> HIDE DEF Counting
      <3> QED
        BY <2>1, <2>7, <2>8, <2>9, <3>1
    <2>11. unsupportedMessageTypes' \in [UnknownTypes -> Nat]
      BY <2>1, <2>3
    <2>12. protocolCalls' \in [ProtocolCallers -> ProtocolCall]
      BY <1>0, <2>1 DEF ProtocolInv
    <2> HIDE DEF Counting
    <2> QED
      BY <2>1, <2>10, <2>11, <2>12 DEF ProtocolInv
  <1> QED
    BY <1>2, <1>3, <1>4, <1>5, <1>6, <1>7, <1>8, <1>9, <1>10, <1>11, <1>12 DEF ProtocolNext

\* For any callers, types and versions: the counts of unknown messages differ by those that
\* are being counted, whoever waits for the lock.
LEMMA CountsAlwaysAgree == ProtocolSpec => [](ProtocolTypeOK /\ UnknownCountsAgree)
  <1>1. ProtocolInit => ProtocolInv
    <2> SUFFICES ASSUME ProtocolInit PROVE ProtocolInv
      OBVIOUS
    <2>1. Counting = {} /\ Cardinality(Counting) = 0
      BY FS_EmptySet DEF Counting, ProtocolInit, Idling
    <2>2. TotalOf(unsupportedMessageTypes) = 0
      BY TotalOfZeros, ProtocolAssumption DEF ProtocolInit
    <2>3. unsupportedMessageTypes \in [UnknownTypes -> Nat] /\ protocolCalls \in [ProtocolCallers -> ProtocolCall]
      BY DEF ProtocolInit, ProtocolCall
    <2> HIDE DEF Counting
    <2>4. unknownMessageCount = TotalOf(unsupportedMessageTypes) + Cardinality(Counting)
      BY <2>1, <2>2 DEF ProtocolInit
    <2>5. unknownMessageCount \in 0..MaxUnknown
      BY ProtocolAssumption DEF ProtocolInit
    <2>6. upgrade \in [call : {"idle", "waiting", "returned", "rolled back"},
                        func : {"none", "running", "done", "failed"}]
      BY DEF ProtocolInit
    <2>7. /\ serverVersion \in Versions \cup {NoVersion}
          /\ versionMismatchDetected \in BOOLEAN /\ strictMode \in BOOLEAN
          /\ registry \subseteq UnknownTypes /\ readers \subseteq ProtocolCallers
      BY DEF ProtocolInit
    <2> QED
      BY <2>3, <2>4, <2>5, <2>6, <2>7, Zenon DEF ProtocolInv
  <1>2. ProtocolInv => ProtocolTypeOK /\ UnknownCountsAgree
    <2> SUFFICES ASSUME ProtocolInv PROVE ProtocolTypeOK /\ UnknownCountsAgree
      OBVIOUS
    <2>1. UnknownCountsAgree
      BY Zenon DEF ProtocolInv, Counting, UnknownCountsAgree, TotalOf
    <2>2. PICK sum \in Nat, n \in Nat : sum = TotalOf(unsupportedMessageTypes) /\ n = Cardinality(Counting)
      BY TotalOfNats, CountingFinite, ProtocolAssumption DEF ProtocolInv
    <2>3. \A t \in UnknownTypes : unsupportedMessageTypes[t] <= sum /\ unsupportedMessageTypes[t] \in Nat
      BY <2>2, TotalOfNats, ProtocolAssumption DEF ProtocolInv
    <2>4. sum <= MaxUnknown
      <3>1. unknownMessageCount = sum + n /\ unknownMessageCount \in 0..MaxUnknown /\ MaxUnknown \in Nat
        BY <2>2, ProtocolAssumption DEF ProtocolInv
      <3> QED
        BY <3>1
    <2>5. unsupportedMessageTypes \in [UnknownTypes -> 0..MaxUnknown]
      <3>1. \A t \in UnknownTypes : unsupportedMessageTypes[t] \in 0..MaxUnknown
        BY <2>3, <2>4, ProtocolAssumption
      <3> QED
        BY <3>1 DEF ProtocolInv
    <2> QED
      BY <2>1, <2>5 DEF ProtocolInv, ProtocolTypeOK, ProtocolCall
  <1> QED
    BY <1>1, <1>2, ProtocolInvStep, PTL DEF ProtocolSpec

-------------------------------------------------------------------------------
(* The URL of the connection.                                                *)

LEMMA IsSuffixMeans ==
  ASSUME NEW S, NEW s \in Seq(S), NEW t \in Seq(S)
  PROVE  IsSuffix(s, t) <=>
            Len(s) <= Len(t) /\ \A i \in 1..Len(s) : s[i] = t[Len(t) - Len(s) + i]
  <1> DEFINE m == Len(s)   n == Len(t)   r == Reverse(s)   q == Reverse(t)
  <1>1. m \in Nat /\ n \in Nat
    OBVIOUS
  <1>2. /\ r \in Seq(S) /\ Len(r) = m /\ \A i \in 1..m : r[i] = s[m - i + 1]
        /\ q \in Seq(S) /\ Len(q) = n /\ \A i \in 1..n : q[i] = t[n - i + 1]
    BY <1>1 DEF Reverse
  <1>3. IsSuffix(s, t) <=> Len(r) <= Len(q) /\ SubSeq(r, 1, Len(r)) = SubSeq(q, 1, Len(r))
    BY DEF IsSuffix, IsPrefix
  <1> HIDE DEF m, n, r, q
  <1>4. ASSUME m <= n
        PROVE  SubSeq(r, 1, m) = SubSeq(q, 1, m) <=> \A i \in 1..m : s[i] = t[n - m + i]
    <2>1. /\ SubSeq(r, 1, m) \in Seq(S) /\ Len(SubSeq(r, 1, m)) = m
          /\ \A i \in 1..m : SubSeq(r, 1, m)[i] = r[i]
      BY <1>1, <1>2
    <2>2. /\ SubSeq(q, 1, m) \in Seq(S) /\ Len(SubSeq(q, 1, m)) = m
          /\ \A i \in 1..m : SubSeq(q, 1, m)[i] = q[i]
      BY <1>1, <1>2, <1>4
    <2>3. SubSeq(r, 1, m) = SubSeq(q, 1, m) <=> \A i \in 1..m : r[i] = q[i]
      BY <2>1, <2>2, SameSequences
    <2>4. ASSUME \A i \in 1..m : r[i] = q[i], NEW i \in 1..m PROVE s[i] = t[n - m + i]
      <3>1. m - i + 1 \in 1..m /\ m - i + 1 \in 1..n /\ m - (m - i + 1) + 1 = i /\ n - (m - i + 1) + 1 = n - m + i
        BY <1>1, <1>4
      <3> QED
        BY <1>2, <2>4, <3>1
    <2>5. ASSUME \A i \in 1..m : s[i] = t[n - m + i], NEW i \in 1..m PROVE r[i] = q[i]
      <3>1. PICK j \in 1..m : j = m - i + 1
        BY <1>1
      <3>2. i \in 1..n /\ n - m + j = n - i + 1
        BY <1>1, <1>4, <3>1
      <3>3. s[j] = t[n - m + j]
        BY <2>5
      <3>4. r[i] = s[j] /\ q[i] = t[n - i + 1]
        BY <1>2, <3>1, <3>2
      <3> QED
        BY <3>2, <3>3, <3>4
    <2> QED
      BY <2>3, <2>4, <2>5
  <1> QED
    BY <1>2, <1>3, <1>4 DEF m, n

\* The records of the URL, named for what the code sets in them.
URLOf(scheme, path, slash, protocol) ==
    [scheme |-> scheme, path |-> path, slash |-> slash, protocol |-> protocol]
Slashed(url, slash) == [url EXCEPT !.slash = slash]
Secured(url, scheme, protocol) == [url EXCEPT !.scheme = scheme, !.protocol = protocol]

LEMMA URLSlashed ==
  ASSUME NEW a, NEW b, NEW c, NEW d, NEW y
  PROVE  Slashed(URLOf(a, b, c, d), y) = URLOf(a, b, y, d)
  <1>1. [[scheme |-> a, path |-> b, slash |-> c, protocol |-> d] EXCEPT !.slash = y]
           = [scheme |-> a, path |-> b, slash |-> y, protocol |-> d]
    OBVIOUS
  <1> QED
    BY <1>1, Zenon DEF Slashed, URLOf

LEMMA URLSecured ==
  ASSUME NEW a, NEW b, NEW c, NEW d, NEW x, NEW y
  PROVE  Secured(URLOf(a, b, c, d), x, y) = URLOf(x, b, c, y)
  <1> DEFINE u == [scheme |-> a, path |-> b, slash |-> c, protocol |-> d]
             v == [scheme |-> x, path |-> b, slash |-> c, protocol |-> d]
  <1>2. [u EXCEPT !.scheme = x] = v
    OBVIOUS
  <1>3. [v EXCEPT !.protocol = y] = [scheme |-> x, path |-> b, slash |-> c, protocol |-> y]
    OBVIOUS
  <1> HIDE DEF u, v
  <1>4. [u EXCEPT !.scheme = x, !.protocol = y] = [[u EXCEPT !.scheme = x] EXCEPT !.protocol = y]
    BY Zenon
  <1>5. [u EXCEPT !.scheme = x, !.protocol = y] = [scheme |-> x, path |-> b, slash |-> c, protocol |-> y]
    BY <1>2, <1>3, <1>4, Zenon
  <1> QED
    BY <1>5, Zenon DEF u, Secured, URLOf

\* For any segments and any length of the paths: the URL that is built from a URL names the
\* security that was asked for, leads on from the server's own path and ends with the segment,
\* and building it once more changes nothing.
LEMMA URLSettles == WebSocketURLSettles
  <1> SUFFICES ASSUME NEW u \in ServerURL, NEW segment \in Paths \ {<<>>}
               PROVE  LET built == buildWebSocketURL(u, segment)
                      IN  /\ (built.scheme = "wss") <=> (u.scheme \in {"https", "wss"})
                          /\ u.scheme # "opaque" =>
                                /\ IsPrefix(u.path, built.path) /\ IsSuffix(segment, built.path)
                                /\ ~built.slash
                          /\ buildWebSocketURL(built, segment) = built
    BY Zenon DEF WebSocketURLSettles
  <1> DEFINE built == buildWebSocketURL(u, segment)
             p == u.path
  <1>1. /\ p \in Seq(Segments) /\ segment \in Seq(Segments)
        /\ u.scheme \in {"http", "https", "ws", "wss", "other", "opaque", "none"}
        /\ u.slash \in BOOLEAN /\ u.protocol \in BOOLEAN
    <2>1. ASSUME NEW path \in Paths PROVE path \in Seq(Segments)
      <3>1. PICK n \in 0..MaxPath : path \in [1..n -> Segments]
        BY DEF Paths
      <3>2. n \in Nat
        BY <3>1, ProtocolAssumption
      <3> QED
        BY <3>1, <3>2
    <2> QED
      BY <2>1 DEF ServerURL
  <1>2. CASE u.scheme = "opaque"
    <2>1. built = [u EXCEPT !.protocol = TRUE]
      BY <1>2 DEF buildWebSocketURL
    <2>2. built.scheme = "opaque" /\ built.protocol = TRUE
      BY <1>2, <2>1 DEF ServerURL
    <2>3. [built EXCEPT !.protocol = TRUE] = built
      BY <2>1 DEF ServerURL
    <2>4. buildWebSocketURL(built, segment) = built
      BY <2>2, <2>3 DEF buildWebSocketURL
    <2> HIDE DEF built
    <2> QED
      BY <1>2, <2>2, <2>4 DEF built
  <1>3. CASE u.scheme # "opaque"
    <2> DEFINE to == IF IsSuffix(segment, p) THEN p ELSE p \o segment
               end == [scheme |-> WebSocketScheme(u.scheme), path |-> to, slash |-> FALSE, protocol |-> TRUE]
    <2>1. /\ to \in Seq(Segments) /\ IsPrefix(p, to) /\ IsSuffix(segment, to)
      <3>1. /\ p \o segment \in Seq(Segments) /\ Len(p \o segment) = Len(p) + Len(segment)
            /\ \A i \in 1..Len(p) : (p \o segment)[i] = p[i]
            /\ \A i \in 1..Len(segment) : (p \o segment)[Len(p) + i] = segment[i]
            /\ Len(p) \in Nat /\ Len(segment) \in Nat
        BY <1>1
      <3>2. IsPrefix(p, p)
        BY <1>1 DEF IsPrefix
      <3>3. IsPrefix(p, p \o segment)
        <4>1. /\ SubSeq(p, 1, Len(p)) = p
              /\ SubSeq(p \o segment, 1, Len(p)) \in Seq(Segments)
              /\ Len(SubSeq(p \o segment, 1, Len(p))) = Len(p)
              /\ \A i \in 1..Len(p) : SubSeq(p \o segment, 1, Len(p))[i] = (p \o segment)[i]
          BY <1>1, <3>1
        <4>2. SubSeq(p \o segment, 1, Len(p)) = p
          BY <1>1, <3>1, <4>1, SameSequences
        <4> QED
          BY <3>1, <4>1, <4>2 DEF IsPrefix
      <3>4. IsSuffix(segment, p \o segment)
        <4>1. Len(p \o segment) - Len(segment) = Len(p) /\ Len(segment) <= Len(p \o segment)
          BY <3>1
        <4> QED
          BY <1>1, <3>1, <4>1, IsSuffixMeans
      <3> QED
        BY <1>1, <3>1, <3>2, <3>3, <3>4
    <2> DEFINE x == WebSocketScheme(u.scheme)
    <2>2. built = end
      <3>1. AppendSegment(u, segment) = URLOf(u.scheme, to, FALSE, u.protocol)
        <4>1. u = [scheme |-> u.scheme, path |-> p, slash |-> u.slash, protocol |-> u.protocol]
          BY DEF ServerURL
        <4>2. CASE IsSuffix(segment, p)
          <5>1. AppendSegment(u, segment) = [u EXCEPT !.slash = FALSE] /\ to = p
            BY <4>2, Zenon DEF AppendSegment
          <5> HIDE DEF to
          <5> QED
            BY <4>1, <5>1 DEF URLOf
        <4>3. CASE ~IsSuffix(segment, p)
          <5>1. AppendSegment(u, segment) = [u EXCEPT !.path = @ \o segment, !.slash = FALSE] /\ to = p \o segment
            BY <4>3, Zenon DEF AppendSegment
          <5> HIDE DEF to
          <5> QED
            BY <4>1, <5>1 DEF URLOf
        <4> QED
          BY <4>2, <4>3
      <3>2. built = Secured(AppendSegment(u, segment), x, TRUE)
        BY <1>3, Zenon DEF buildWebSocketURL, Secured
      <3> HIDE DEF to, x, built
      <3>3. PICK no, yes, a, d : no = FALSE /\ yes = TRUE /\ a = u.scheme /\ d = u.protocol
        BY Zenon
      <3>5. AppendSegment(u, segment) = URLOf(a, to, no, d) /\ built = Secured(AppendSegment(u, segment), x, yes)
        BY <3>1, <3>2, <3>3, Zenon
      <3>6. Secured(URLOf(a, to, no, d), x, yes) = URLOf(x, to, no, yes)
        BY URLSecured
      <3>4. built = URLOf(x, to, FALSE, TRUE)
        BY <3>3, <3>5, <3>6, Zenon
      <3> QED
        BY <3>4, Zenon DEF URLOf, x
    <2> HIDE DEF built, to
    <2>3. /\ end.scheme = x /\ end.path = to /\ end.slash = FALSE /\ end.protocol = TRUE
          /\ x \in {"ws", "wss"} /\ WebSocketScheme(x) = x
          /\ x = "wss" <=> u.scheme \in {"https", "wss"}
      BY DEF WebSocketScheme
    <2>4. buildWebSocketURL(end, segment) = end
      <3>3. PICK no, yes : no = FALSE /\ yes = TRUE
        BY Zenon
      <3>4. end = URLOf(x, to, no, yes)
        BY <3>3, Zenon DEF URLOf
      <3> HIDE DEF end, x
      <3>5. AppendSegment(end, segment) = Slashed(end, no)
        <4>1. IsSuffix(segment, end.path)
          BY <2>1, <2>3
        <4> QED
          BY <3>3, <4>1, Zenon DEF AppendSegment, Slashed
      <3>6. Slashed(URLOf(x, to, no, yes), no) = URLOf(x, to, no, yes)
        BY URLSlashed, Zenon
      <3>7. Secured(URLOf(x, to, no, yes), x, yes) = URLOf(x, to, no, yes)
        BY URLSecured
      <3>8. WebSocketScheme(end.scheme) = x /\ end.scheme # "opaque"
        BY <2>3
      <3>9. buildWebSocketURL(end, segment) = Secured(AppendSegment(end, segment), x, yes)
        BY <3>3, <3>8, Zenon DEF buildWebSocketURL, Secured
      <3> QED
        BY <3>4, <3>5, <3>6, <3>7, <3>9, Zenon
    <2> HIDE DEF end, x
    <2> QED
      BY <1>3, <2>1, <2>2, <2>3, <2>4 DEF built
  <1> QED
    BY <1>2, <1>3 DEF built

-------------------------------------------------------------------------------
(* The slope of a window: what Chebyshev's inequality says of the sums it is  *)
(* made of, for loads that only rise or only fall.                            *)

\* Sums as a loop over a list makes them.
LEMMA PartialSums ==
  ASSUME NEW n \in Nat, NEW f \in [1..n -> Int]
  PROVE  \E P \in [0..n -> Int] :
            P[0] = 0 /\ P[n] = TotalOf(f) /\ \A k \in 1..n : P[k] = P[k - 1] + f[k]
  <1> DEFINE Upto(k) == [i \in 1..k |-> f[i]]
             P == [k \in 0..n |-> TotalOf(Upto(k))]
  <1>1. \A k \in 0..n : Upto(k) \in Seq(Int) /\ Len(Upto(k)) = k
    OBVIOUS
  <1>2. ASSUME NEW k \in 1..n PROVE Upto(k) = Append(Upto(k - 1), f[k])
    <2>1. k - 1 \in 0..n /\ k \in 0..n /\ f[k] \in Int
      OBVIOUS
    <2>2. /\ Append(Upto(k - 1), f[k]) \in Seq(Int) /\ Len(Append(Upto(k - 1), f[k])) = k
          /\ \A i \in 1..k : Append(Upto(k - 1), f[k])[i] = f[i]
      BY <2>1
    <2>3. \A i \in 1..k : Upto(k)[i] = f[i]
      BY <2>1
    <2> HIDE DEF Upto
    <2>4. PICK s, u : s = Upto(k) /\ u = Append(Upto(k - 1), f[k])
      OBVIOUS
    <2>5. /\ s \in Seq(Int) /\ Len(s) = k /\ \A i \in 1..k : s[i] = f[i]
          /\ u \in Seq(Int) /\ Len(u) = k /\ \A i \in 1..k : u[i] = f[i]
      BY <1>1, <2>1, <2>2, <2>3, <2>4, Zenon
    <2>6. s = u
      BY <2>5, SameSequences
    <2> QED
      BY <2>4, <2>6, Zenon
  <1>3. Upto(0) = <<>> /\ Upto(n) = f
    <2>1. 1..0 = {}
      OBVIOUS
    <2>2. Upto(0) = <<>>
      BY <1>1
    <2> QED
      BY <2>2
  <1>4. \A k \in 0..n : P[k] = TotalOf(Upto(k))
    OBVIOUS
  <1>5. DOMAIN P = 0..n /\ P = [k \in 0..n |-> P[k]]
    OBVIOUS
  <1> HIDE DEF Upto, P
  <1>6. ASSUME NEW k \in 0..n PROVE P[k] \in Int
    BY <1>1, <1>4, TotalAppended, 0 \in Int
  <1>7. ASSUME NEW k \in 1..n PROVE P[k] = P[k - 1] + f[k]
    <2>1. k - 1 \in 0..n /\ k \in 0..n /\ f[k] \in Int
      OBVIOUS
    <2>2. TotalOf(Append(Upto(k - 1), f[k])) = TotalOf(Upto(k - 1)) + f[k]
      BY <1>1, <2>1, TotalAppended
    <2> QED
      BY <1>2, <1>4, <2>1, <2>2
  <1>8. P[0] = 0 /\ P[n] = TotalOf(f)
    BY <1>3, <1>4, TotalOfEmpty
  <1>9. P \in [0..n -> Int]
    BY <1>5, <1>6
  <1> QED
    BY <1>7, <1>8, <1>9

LEMMA ProductAtLeast ==
  ASSUME NEW d \in Nat \ {0}, NEW e \in Nat
  PROVE  d * e >= e
  <1>1. PICK c \in Nat : d = c + 1
    <2>1. d - 1 \in Nat /\ d = (d - 1) + 1
      OBVIOUS
    <2> QED
      BY <2>1
  <1>2. d * e = c * e + e /\ c * e \in Nat
    BY <1>1
  <1> QED
    BY <1>2

\* One more of the products of the differences.
LEMMA OneMoreDifference ==
  ASSUME NEW m \in Int, NEW t \in Int, NEW k \in Int, NEW a \in Int, NEW b \in Int, NEW c \in Int,
         NEW v \in Int
  PROVE  k * (m * t) - t * (a + (k - 1)) - m * (b + v) + (c + (k - 1) * v)
            = ((k - 1) * (m * t) - t * a - m * b + c) + (m - (k - 1)) * (t - v)
  OBVIOUS

LEMMA OneMoreValue ==
  ASSUME NEW m \in Int, NEW t \in Int, NEW a \in Int, NEW b \in Int, NEW c \in Int
  PROVE  (m + 1) * (c + m * t) - (a + m) * (b + t)
            = (m * c - a * b) + (m * (m * t) - t * a - m * b + c)
  OBVIOUS

\* Values that rise by at least g, against their places.
LEMMA TrendOfRising ==
  ASSUME NEW n \in Nat \ {0}, NEW g \in Nat, NEW w \in [1..n -> Int],
         \A i, k \in 1..n : i < k => w[k] - w[i] >= g
  PROVE  n * TotalOf([i \in 1..n |-> (i - 1) * w[i]]) - TotalOf([i \in 1..n |-> i - 1]) * TotalOf(w)
            >= g * (n - 1)
  <1> DEFINE x == [i \in 1..n |-> i - 1]
             xw == [i \in 1..n |-> (i - 1) * w[i]]
  <1>1. x \in [1..n -> Int] /\ xw \in [1..n -> Int]
    OBVIOUS
  <1>2. /\ \A k \in 1..n : x[k] = k - 1 /\ xw[k] = (k - 1) * w[k]
        /\ x = [i \in 1..n |-> i - 1] /\ xw = [i \in 1..n |-> (i - 1) * w[i]]
    OBVIOUS
  <1> HIDE DEF x, xw
  <1>3. PICK X \in [0..n -> Int] :
            X[0] = 0 /\ X[n] = TotalOf(x) /\ \A k \in 1..n : X[k] = X[k - 1] + x[k]
    BY <1>1, PartialSums
  <1>4. PICK W \in [0..n -> Int] :
            W[0] = 0 /\ W[n] = TotalOf(w) /\ \A k \in 1..n : W[k] = W[k - 1] + w[k]
    BY PartialSums
  <1>5. PICK Y \in [0..n -> Int] :
            Y[0] = 0 /\ Y[n] = TotalOf(xw) /\ \A k \in 1..n : Y[k] = Y[k - 1] + xw[k]
    BY <1>1, PartialSums
  <1>6. ASSUME NEW m \in 1..(n - 1)
        PROVE  m * (m * w[m + 1]) - w[m + 1] * X[m] - m * W[m] + Y[m] >= g
    <2> DEFINE t == w[m + 1]
               D == [k \in 0..m |-> k * (m * t) - t * X[k] - m * W[k] + Y[k]]
               Enough == {z \in Int : z >= 0}
    <2>1. /\ m \in Nat /\ m + 1 \in 1..n /\ t \in Int
          /\ \A k \in 0..m : k \in 0..n /\ k \in Int /\ X[k] \in Int /\ W[k] \in Int /\ Y[k] \in Int
          /\ \A k \in 1..m : k \in 1..n /\ k - 1 \in 0..m
      OBVIOUS
    <2> HIDE DEF t
    <2>2. ASSUME NEW k \in 1..m
          PROVE  D[k - 1] \in Int /\ D[k] \in Int /\ D[k] >= D[k - 1] + g
      <3> DEFINE a == X[k - 1]   b == W[k - 1]   c == Y[k - 1]   v == w[k]
      <3>1. /\ k \in Int /\ a \in Int /\ b \in Int /\ c \in Int /\ v \in Int /\ t \in Int /\ m \in Int
            /\ X[k] = a + (k - 1) /\ W[k] = b + v /\ Y[k] = c + (k - 1) * v
        <4>1. /\ k \in 1..n /\ k \in 0..m /\ k - 1 \in 0..m /\ k \in Int /\ k - 1 \in Int
              /\ t \in Int /\ m \in Int
          BY <2>1
        <4>2. X[k] = a + x[k] /\ W[k] = b + v /\ Y[k] = c + xw[k]
          BY <1>3, <1>4, <1>5, <4>1, Zenon
        <4>3. x[k] = k - 1 /\ xw[k] = (k - 1) * v
          BY <1>2, <4>1, Zenon
        <4>4. a \in Int /\ b \in Int /\ c \in Int /\ v \in Int
          BY <2>1, <4>1
        <4> QED
          BY <4>1, <4>2, <4>3, <4>4, Zenon
      <3>2. /\ D[k] = k * (m * t) - t * X[k] - m * W[k] + Y[k]
            /\ D[k - 1] = (k - 1) * (m * t) - t * a - m * b + c
        <4>1. k \in 0..m /\ k - 1 \in 0..m
          BY <2>1
        <4> QED
          BY <4>1, Zenon
      <3>3. t - v \in Nat /\ t - v >= g /\ m - (k - 1) \in Nat \ {0}
        <4>1. k \in 1..n /\ m + 1 \in 1..n /\ k < m + 1 /\ v \in Int
          BY <2>1, <3>1
        <4>2. w[m + 1] - w[k] >= g
          BY <4>1
        <4>3. t - v >= g
          BY <4>2, Zenon DEF t
        <4> HIDE DEF v
        <4> QED
          BY <2>1, <3>1, <4>1, <4>3
      <3> HIDE DEF D, a, b, c, v
      <3>4. (m - (k - 1)) * (t - v) >= t - v
        BY <3>3, ProductAtLeast
      <3>5. D[k] = D[k - 1] + (m - (k - 1)) * (t - v)
        BY <3>1, <3>2, OneMoreDifference
      <3>6. D[k - 1] \in Int
        BY <3>1, <3>2
      <3>7. (m - (k - 1)) * (t - v) \in Int
        BY <3>1
      <3>8. PICK p \in Int : p = (m - (k - 1)) * (t - v)
        BY <3>7, Zenon
      <3>9. t - v \in Int
        BY <3>3
      <3>10. PICK q \in Int : q = t - v
        BY <3>9, Zenon
      <3>11. PICK y \in Int : y = D[k - 1]
        BY <3>6, Zenon
      <3>12. p >= q /\ q >= g /\ D[k] = y + p
        BY <3>3, <3>4, <3>5, <3>8, <3>10, <3>11, Zenon
      <3>13. y + p \in Int /\ y + p >= y + g
        BY <3>12
      <3> QED
        BY <3>6, <3>11, <3>12, <3>13, Zenon
    <2>3. D[0] = 0 /\ D[m] = m * (m * t) - t * X[m] - m * W[m] + Y[m]
      BY <1>3, <1>4, <1>5, <2>1
    <2> HIDE DEF D
    <2>4. \A k \in 0..m : D[k] \in Enough
      <3>1. D[0] \in Enough /\ \A k \in 1..m : D[k - 1] \in Enough => D[k] \in Enough
        <4>1. 0 \in Enough
          OBVIOUS
        <4>2. ASSUME NEW k \in 1..m, D[k - 1] \in Enough PROVE D[k] \in Enough
          <5>1. PICK y, z : y = D[k - 1] /\ z = D[k]
            OBVIOUS
          <5>2. y \in Enough /\ z \in Int /\ z >= y + g
            BY <2>2, <4>2, <5>1, Zenon
          <5>3. z \in Enough
            BY <5>2
          <5> QED
            BY <5>1, <5>3, Zenon
        <4> HIDE DEF Enough
        <4> QED
          BY <2>3, <4>1, <4>2, Zenon
      <3> HIDE DEF Enough
      <3> QED
        BY <2>1, <3>1, LoopStays
    <2>5. D[m] >= g
      <3>1. m \in 1..m /\ m - 1 \in 0..m
        BY <2>1
      <3>2. D[m - 1] \in Enough /\ D[m] >= D[m - 1] + g /\ D[m - 1] \in Int /\ D[m] \in Int
        BY <2>2, <2>4, <3>1
      <3>3. PICK y, z : y = D[m - 1] /\ z = D[m]
        OBVIOUS
      <3>4. y \in Enough /\ z >= y + g /\ z \in Int
        BY <3>2, <3>3, Zenon
      <3>5. z >= g
        BY <3>4
      <3> QED
        BY <3>3, <3>5, Zenon
    <2> QED
      BY <2>3, <2>5 DEF t
  <1> DEFINE A == [k \in 0..(n - 1) |-> (k + 1) * Y[k + 1] - X[k + 1] * W[k + 1] - g * k]
             Enough == {z \in Int : z >= 0}
  <1>7. A[0] \in Enough
    <2>1. 0 + 1 = 1 /\ 1 \in 1..n /\ 1 \in 0..n /\ 0 \in 0..(n - 1) /\ 1 - 1 = 0
      OBVIOUS
    <2>2. X[1] = 0 /\ Y[1] = 0 /\ W[1] \in Int
      <3>1. x[1] = 0 /\ xw[1] = 0 * w[1] /\ w[1] \in Int
        BY <1>2, <2>1
      <3>2. X[1] = X[0] + x[1] /\ Y[1] = Y[0] + xw[1]
        BY <1>3, <1>5, <2>1
      <3> QED
        BY <1>3, <1>5, <2>1, <3>1, <3>2
    <2>3. A[0] = (0 + 1) * Y[0 + 1] - X[0 + 1] * W[0 + 1] - g * 0
      BY <2>1
    <2> HIDE DEF A
    <2> QED
      BY <2>1, <2>2, <2>3
  <1>8. ASSUME NEW m \in 1..(n - 1), A[m - 1] \in Enough PROVE A[m] \in Enough
    <2> DEFINE t == w[m + 1]   a == X[m]   b == W[m]   c == Y[m]
               more == m * (m * t) - t * a - m * b + c
    <2>1. /\ m \in Nat /\ m + 1 \in 1..n /\ m \in 0..n /\ (m + 1) - 1 = m /\ (m - 1) + 1 = m
          /\ m - 1 \in 0..(n - 1) /\ m \in 0..(n - 1)
      OBVIOUS
    <2>2. a \in Int /\ b \in Int /\ c \in Int /\ t \in Int /\ m \in Int /\ g \in Int
      BY <2>1
    <2>3. X[m + 1] = a + m /\ W[m + 1] = b + t /\ Y[m + 1] = c + m * t
      BY <1>2, <1>3, <1>4, <1>5, <2>1
    <2>4. /\ A[m] = (m + 1) * Y[m + 1] - X[m + 1] * W[m + 1] - g * m
          /\ A[m - 1] = m * c - a * b - g * (m - 1)
      BY <2>1
    <2>5. more >= g
      BY <1>6
    <2> HIDE DEF A, t, a, b, c
    <2>6. A[m] = ((m * c - a * b) + more) - g * m
      <3>1. (m + 1) * (c + m * t) - (a + m) * (b + t) = (m * c - a * b) + more
        BY <2>2, OneMoreValue
      <3> QED
        BY <2>3, <2>4, <3>1
    <2>7. more \in Int /\ m * c - a * b \in Int
      BY <2>2
    <2> HIDE DEF more
    <2>8. g * m = g * (m - 1) + g /\ g * (m - 1) \in Int
      BY <2>2
    <2>9. A[m] = A[m - 1] + more - g /\ A[m - 1] \in Int
      BY <2>2, <2>4, <2>6, <2>7, <2>8
    <2>10. PICK y, z : y = A[m - 1] /\ z = more
      OBVIOUS
    <2>11. y \in Enough /\ z \in Int /\ z >= g /\ A[m] = y + z - g
      BY <1>8, <2>5, <2>7, <2>9, <2>10, Zenon
    <2>12. y + z - g \in Enough
      BY <2>11
    <2> QED
      BY <2>11, <2>12, Zenon
  <1>9. A[n - 1] = n * Y[n] - X[n] * W[n] - g * (n - 1)
    <2>1. n - 1 \in 0..(n - 1) /\ (n - 1) + 1 = n
      OBVIOUS
    <2> QED
      BY <2>1
  <1> HIDE DEF A
  <1>10. A[n - 1] \in Enough
    <2>1. n - 1 \in Nat /\ n - 1 \in 0..(n - 1)
      OBVIOUS
    <2> HIDE DEF Enough
    <2>2. \A k \in 0..(n - 1) : A[k] \in Enough
      BY <1>7, <1>8, <2>1, LoopStays
    <2> QED
      BY <2>1, <2>2
  <1>11. n * Y[n] - X[n] * W[n] \in Int /\ g * (n - 1) \in Int
    <2>1. n \in 0..n /\ X[n] \in Int /\ Y[n] \in Int /\ W[n] \in Int
      OBVIOUS
    <2> QED
      BY <2>1
  <1>12. n * Y[n] - X[n] * W[n] >= g * (n - 1)
    BY <1>9, <1>10, <1>11
  <1> QED
    BY <1>2, <1>3, <1>4, <1>5, <1>12

LEMMA TotalOfNegated ==
  ASSUME NEW n \in Nat, NEW f \in [1..n -> Int]
  PROVE  TotalOf([i \in 1..n |-> -f[i]]) = -TotalOf(f) /\ TotalOf(f) \in Int
  <1> DEFINE h == [i \in 1..n |-> -f[i]]
  <1>1. h \in [1..n -> Int] /\ \A i \in 1..n : f[i] + h[i] = 0
    OBVIOUS
  <1>2. IsFiniteSet(1..n)
    BY FS_Interval
  <1> HIDE DEF h
  <1>3. [i \in 1..n |-> f[i] + h[i]] = [i \in 1..n |-> 0]
    BY <1>1
  <1>4. TotalOf([i \in 1..n |-> f[i] + h[i]]) = TotalOf(f) + TotalOf(h)
    BY <1>1, <1>2, TotalOfSums
  <1>5. TotalOf([i \in 1..n |-> 0]) = 0
    BY <1>2, TotalOfZeros
  <1>6. TotalOf(f) \in Int /\ TotalOf(h) \in Int
    BY <1>1, <1>2, TotalSteps
  <1>7. PICK a \in Int, b \in Int : a = TotalOf(f) /\ b = TotalOf(h)
    BY <1>6
  <1>8. a + b = 0
    BY <1>3, <1>4, <1>5, <1>7
  <1> QED
    BY <1>7, <1>8 DEF h

\* What does not fall from one place to the next does not fall at all.
LEMMA NeverFalls ==
  ASSUME NEW n \in Nat, NEW w \in [1..n -> Int], \A i \in 2..n : w[i - 1] <= w[i],
         NEW i \in 1..n, NEW k \in i..n
  PROVE  w[i] <= w[k]
  <1> DEFINE f == [j \in 0..(n - i) |-> w[i + j]]
             V == {z \in Int : w[i] <= z}
  <1>1. n - i \in Nat /\ w[i] \in Int
    OBVIOUS
  <1>2. f[0] \in V
    BY <1>1
  <1>3. ASSUME NEW j \in 1..(n - i), f[j - 1] \in V PROVE f[j] \in V
    <2>1. i + j \in 2..n /\ (i + j) - 1 = i + (j - 1) /\ i + j \in 1..n /\ i + (j - 1) \in 1..n
      BY <1>1
    <2>2. f[j] = w[i + j] /\ f[j - 1] = w[i + (j - 1)]
      BY <1>1
    <2>3. w[i + (j - 1)] <= w[i + j] /\ w[i + j] \in Int /\ w[i + (j - 1)] \in Int
      BY <2>1
    <2> HIDE DEF f
    <2> QED
      BY <1>1, <1>3, <2>2, <2>3
  <1>4. k - i \in 0..(n - i) /\ f[k - i] = w[k]
    BY <1>1
  <1> HIDE DEF f
  <1>5. f[k - i] \in V
    <2> HIDE DEF V
    <2> QED
      BY <1>1, <1>2, <1>3, <1>4, LoopStays
  <1> QED
    BY <1>4, <1>5

LEMMA SlopeSign ==
  ASSUME NEW w \in Seq(Nat), Len(w) >= 2
  PROVE  /\ Slope(w).over \in Int /\ Slope(w).by \in Nat \ {0}
         /\ Rising(w) => Slope(w).over >= 0
         /\ Falling(w) => Slope(w).over <= 0
  <1> DEFINE n == Len(w)
             x == [i \in 1..n |-> i - 1]
             xw == [i \in 1..n |-> (i - 1) * w[i]]
             xx == [i \in 1..n |-> (i - 1) * x[i]]
             over == n * TotalOf(xw) - TotalOf(x) * TotalOf(w)
             by == n * TotalOf(xx) - TotalOf(x) * TotalOf(x)
  <1>1. n \in Nat \ {0} /\ n - 1 >= 1 /\ w \in [1..n -> Int] /\ \A i \in 1..n : w[i] \in Int
    OBVIOUS
  <1>2. Slope(w).over = over /\ Slope(w).by = by
    <2>1. xw = [i \in 1..n |-> x[i] * w[i]] /\ xx = [i \in 1..n |-> x[i] * x[i]]
      OBVIOUS
    <2> HIDE DEF xw, xx
    <2> QED
      BY <2>1, Zenon DEF Slope, TotalOf
  <1>3. /\ x \in [1..n -> Int] /\ xw \in [1..n -> Int] /\ xx \in [1..n -> Int]
        /\ x = [i \in 1..n |-> i - 1] /\ xw = [i \in 1..n |-> (i - 1) * w[i]]
        /\ xx = [i \in 1..n |-> (i - 1) * x[i]]
        /\ \A i, k \in 1..n : i < k => x[k] - x[i] >= 1
    BY <1>1
  <1> HIDE DEF n, x, xw, xx
  <1>4. TotalOf(x) \in Int /\ TotalOf(xw) \in Int /\ TotalOf(xx) \in Int /\ TotalOf(w) \in Int
    BY <1>1, <1>3, TotalOfNegated
  <1>5. over \in Int /\ by \in Int
    BY <1>1, <1>4
  <1>6. by >= 1 * (n - 1)
    <2>1. n * TotalOf([i \in 1..n |-> (i - 1) * x[i]]) - TotalOf([i \in 1..n |-> i - 1]) * TotalOf(x)
            >= 1 * (n - 1)
      BY <1>1, <1>3, TrendOfRising, 1 \in Nat
    <2> QED
      BY <1>3, <2>1
  <1>7. ASSUME Rising(w) PROVE over >= 0
    <2>1. \A i, k \in 1..n : i < k => w[k] - w[i] >= 0
      <3> SUFFICES ASSUME NEW i \in 1..n, NEW k \in 1..n, i < k PROVE w[k] - w[i] >= 0
        OBVIOUS
      <3>1. \A j \in 2..n : w[j - 1] <= w[j]
        BY <1>7 DEF Rising, n
      <3>2. k \in i..n
        BY <1>1
      <3>3. w[i] <= w[k]
        BY <1>1, <3>1, <3>2, NeverFalls
      <3> QED
        BY <1>1, <3>3
    <2>2. n * TotalOf([i \in 1..n |-> (i - 1) * w[i]]) - TotalOf([i \in 1..n |-> i - 1]) * TotalOf(w)
            >= 0 * (n - 1)
      BY <1>1, <2>1, TrendOfRising, 0 \in Nat
    <2>3. 0 * (n - 1) = 0
      BY <1>1
    <2> QED
      BY <1>3, <2>2, <2>3
  <1>8. ASSUME Falling(w) PROVE over <= 0
    <2> DEFINE v == [i \in 1..n |-> -w[i]]
               xv == [i \in 1..n |-> (i - 1) * v[i]]
    <2>1. v \in [1..n -> Int] /\ \A i \in 1..n : v[i] = -w[i]
      BY <1>1
    <2>2. xv = [i \in 1..n |-> -xw[i]]
      <3>1. ASSUME NEW i \in 1..n PROVE (i - 1) * v[i] = -xw[i]
        <4>1. xw[i] = (i - 1) * w[i] /\ v[i] = -w[i] /\ w[i] \in Int /\ i \in Int
          BY <1>1, <1>3, <2>1
        <4> HIDE DEF v
        <4>2. (i - 1) * (-w[i]) = -((i - 1) * w[i])
          <5>1. \A a, b \in Int : (a - 1) * (-b) = -((a - 1) * b)
            OBVIOUS
          <5> QED
            BY <4>1, <5>1, Zenon
        <4> QED
          BY <4>1, <4>2
      <3> HIDE DEF v
      <3> QED
        BY <3>1
    <2>3. v = [i \in 1..n |-> -w[i]]
      OBVIOUS
    <2>4. \A i, k \in 1..n : i < k => v[k] - v[i] >= 0
      <3> SUFFICES ASSUME NEW i \in 1..n, NEW k \in 1..n, i < k PROVE v[k] - v[i] >= 0
        OBVIOUS
      <3>1. \A j \in 2..n : v[j - 1] <= v[j]
        <4>1. \A j \in 2..n : w[j - 1] >= w[j] /\ j \in 1..n /\ j - 1 \in 1..n
          BY <1>1, <1>8 DEF Falling, n
        <4> HIDE DEF v
        <4> SUFFICES ASSUME NEW j \in 2..n PROVE v[j - 1] <= v[j]
          OBVIOUS
        <4>2. PICK y, z : y = w[j - 1] /\ z = w[j]
          OBVIOUS
        <4>3. y \in Int /\ z \in Int /\ y >= z
          BY <1>1, <4>1, <4>2
        <4>4. v[j - 1] = -y /\ v[j] = -z
          BY <2>1, <4>1, <4>2
        <4> QED
          BY <4>3, <4>4
      <3>2. k \in i..n
        BY <1>1
      <3> HIDE DEF v
      <3>3. v[i] <= v[k]
        BY <1>1, <2>1, <3>1, <3>2, NeverFalls
      <3> QED
        BY <2>1, <3>3
    <2> HIDE DEF v
    <2>5. n * TotalOf(xv) - TotalOf([i \in 1..n |-> i - 1]) * TotalOf(v) >= 0 * (n - 1)
      BY <1>1, <2>1, <2>4, TrendOfRising, 0 \in Nat
    <2> HIDE DEF xv
    <2>6. TotalOf(xv) = -TotalOf(xw) /\ TotalOf(v) = -TotalOf(w)
      BY <1>1, <1>3, <2>2, <2>3, TotalOfNegated
    <2>7. PICK a \in Int, b \in Int, c \in Int : a = TotalOf(x) /\ b = TotalOf(xw) /\ c = TotalOf(w)
      BY <1>4
    <2>8. n * (-b) - a * (-c) >= 0 * (n - 1)
      BY <1>3, <2>5, <2>6, <2>7
    <2>9. n * (-b) - a * (-c) = -(n * b - a * c) /\ 0 * (n - 1) = 0 /\ n * b - a * c \in Int
      BY <1>1, <2>7
    <2>10. n * b - a * c <= 0
      BY <2>8, <2>9
    <2> QED
      BY <2>7, <2>10
  <1> HIDE DEF over, by
  <1> QED
    BY <1>1, <1>2, <1>5, <1>6, <1>7, <1>8

LEMMA SignOfQuotient ==
  ASSUME NEW s \in Int, NEW n \in Nat \ {0}
  PROVE  /\ s \div n \in Int
         /\ s >= 0 => s \div n >= 0
         /\ s <= 0 => s \div n <= 0
  <1>1. PICK q \in Int, r \in Int : q = s \div n /\ s = n * q + r /\ 0 <= r /\ r < n
    <2>1. s \div n \in Int /\ s % n \in Int /\ s = n * (s \div n) + (s % n) /\ 0 <= s % n /\ s % n < n
      OBVIOUS
    <2> QED
      BY <2>1
  <1>2. ASSUME s >= 0, q < 0 PROVE FALSE
    <2>1. PICK d \in Nat : q = -1 - d
      <3>1. -1 - q \in Nat /\ q = -1 - (-1 - q)
        BY <1>2
      <3> QED
        BY <3>1
    <2>2. n * q = -n - n * d /\ n * d \in Nat
      BY <2>1
    <2> QED
      BY <1>1, <1>2, <2>2
  <1>3. ASSUME s <= 0, q > 0 PROVE FALSE
    <2>1. PICK d \in Nat : q = 1 + d
      <3>1. q - 1 \in Nat /\ q = 1 + (q - 1)
        BY <1>3
      <3> QED
        BY <3>1
    <2>2. n * q = n + n * d /\ n * d \in Nat
      BY <2>1
    <2> QED
      BY <1>1, <1>3, <2>2
  <1> QED
    BY <1>1, <1>2, <1>3

\* What is predicted of a window, and of loads that only rise or only fall.
LEMMA PredictedWell ==
  ASSUME NEW w \in Seq(Nat), w # <<>>
  PROVE  /\ Predicted(w) \in Nat
         /\ Len(w) >= 3 => Predicted(w) <= Whole
         /\ Len(w) < 3 => Predicted(w) = Last(w)
         /\ Rising(w) => Predicted(w) >= AtMostWhole(Last(w))
         /\ Falling(w) => Predicted(w) <= Last(w)
  <1>1. Len(w) \in Nat /\ Last(w) \in Nat
    BY DEF Last
  <1>2. CASE Len(w) < 3
    <2>1. Predicted(w) = Last(w)
      BY <1>2 DEF Predicted
    <2> QED
      BY <1>1, <1>2, <2>1 DEF AtMostWhole, Whole
  <1>3. CASE Len(w) >= 3
    <2> DEFINE step == Slope(w).over \div (5 * Slope(w).by)
    <2>1. Predicted(w) = Clamped(Last(w) + step)
      BY <1>1, <1>3 DEF Predicted
    <2>2. /\ step \in Int
          /\ Rising(w) => step >= 0
          /\ Falling(w) => step <= 0
      <3>1. /\ Slope(w).over \in Int /\ Slope(w).by \in Nat \ {0}
            /\ Rising(w) => Slope(w).over >= 0
            /\ Falling(w) => Slope(w).over <= 0
        BY <1>1, <1>3, SlopeSign
      <3>2. PICK s \in Int, d \in Nat \ {0} : s = Slope(w).over /\ d = Slope(w).by
        BY <3>1
      <3>3. 5 * d \in Nat \ {0}
        BY <3>2
      <3>4. /\ s \div (5 * d) \in Int
            /\ s >= 0 => s \div (5 * d) >= 0
            /\ s <= 0 => s \div (5 * d) <= 0
        BY <3>2, <3>3, SignOfQuotient
      <3> QED
        BY <3>1, <3>2, <3>4
    <2> HIDE DEF step
    <2> QED
      BY <1>1, <1>3, <2>1, <2>2 DEF Clamped, AtMostWhole, Whole
  <1> QED
    BY <1>1, <1>2, <1>3

-------------------------------------------------------------------------------
(* The calculation of a load.                                                *)

\* A load is over Whole only when more jobs may run than are allowed.
Explained(load) == load > Whole => LoadMaxJobs > 0 /\ LoadMaxJobs < MostJobs

LEMMA JobLoadExplained ==
  ASSUME NEW many \in 0..MostJobs
  PROVE  JobLoad(many) \in Nat /\ Explained(JobLoad(many))
  <1> USE CalculationAssumption DEF Whole
  <1>1. CASE LoadMaxJobs > 0
    <2>1. LoadMaxJobs \in Nat \ {0} /\ many \in Nat /\ many * 100 \in Nat
      BY <1>1
    <2> DEFINE q == (many * 100) \div LoadMaxJobs
    <2>2. JobLoad(many) = q
      BY <1>1 DEF JobLoad
    <2>3. q \in Int /\ q >= 0
      BY <2>1, SignOfQuotient
    <2>4. ASSUME many <= LoadMaxJobs PROVE q <= 100
      <3>1. 0 * LoadMaxJobs <= many * 100 /\ many * 100 <= 100 * LoadMaxJobs
        BY <2>1, <2>4
      <3>2. q \in 0..100
        <4>1. PICK x \in Int, n \in Nat \ {0} : x = many * 100 /\ n = LoadMaxJobs
          BY <2>1
        <4>2. 0 * n <= x /\ x <= 100 * n
          BY <3>1, <4>1
        <4>3. x \div n \in 0..100
          BY <4>2, QuotientBetween
        <4> QED
          BY <4>1, <4>3
      <3> QED
        BY <3>2
    <2> HIDE DEF q
    <2> QED
      BY <1>1, <2>1, <2>2, <2>3, <2>4 DEF Explained
  <1>2. CASE ~(LoadMaxJobs > 0)
    BY <1>2 DEF JobLoad, AtMostWhole, Explained
  <1> QED
    BY <1>1, <1>2

LEMMA BaseLoadExplained ==
  ASSUME NEW metrics \in LoadMetrics
  PROVE  BaseLoad(metrics) \in Nat /\ Explained(BaseLoad(metrics))
  <1>1. metrics.jobs \in 0..MostJobs /\ metrics.cpu \in 0..Whole /\ metrics.memory \in 0..Whole
    BY DEF LoadMetrics
  <1>2. JobLoad(metrics.jobs) \in Nat /\ Explained(JobLoad(metrics.jobs))
    BY <1>1, JobLoadExplained
  <1>3. CPUMemoryLoad(metrics) \in 0..Whole
    <2> DEFINE s == 4 * JobLoad(metrics.jobs) + 3 * metrics.cpu + 3 * metrics.memory
    <2>1. s \in Int
      <3>1. metrics.cpu \in Int /\ metrics.memory \in Int
        BY <1>1 DEF Whole
      <3>2. PICK j \in Int : j = JobLoad(metrics.jobs)
        BY <1>2
      <3>3. 4 * j + 3 * metrics.cpu + 3 * metrics.memory \in Int
        BY <3>1
      <3> QED
        BY <3>2, <3>3
    <2>2. CPUMemoryLoad(metrics) = Clamped(s \div 10)
      BY DEF CPUMemoryLoad
    <2> HIDE DEF s
    <2>3. s \div 10 \in Int
      BY <2>1
    <2> QED
      BY <2>2, <2>3 DEF Clamped, AtMostWhole, Whole
  <1> QED
    BY <1>2, <1>3 DEF BaseLoad, Explained, Whole

LEMMA CollectedInRange ==
  ASSUME runtimeStats \in [cpu : CPUSamples, memory : MemorySamples],
         memoryPercent \in 0..Whole, Collected
  PROVE  cpuPercent' \in 0..Whole /\ memoryPercent' \in 0..Whole
  <1> USE CalculationAssumption DEF Whole
  <1>1. runtimeStats.cpu \in Nat /\ runtimeStats.memory \in 0..Total
    OBVIOUS
  <1>2. cpuPercent' \in 0..Whole
    BY <1>1 DEF Collected, AtMostWhole
  <1>3. ASSUME Total > 0 PROVE (runtimeStats.memory * 100) \div Total \in 0..100
    <2> DEFINE m == runtimeStats.memory
    <2>1. m \in Nat /\ m <= Total /\ Total \in Nat \ {0} /\ m * 100 \in Int
      BY <1>1, <1>3
    <2> HIDE DEF m
    <2>2. 0 * Total <= m * 100 /\ m * 100 <= 100 * Total
      BY <2>1
    <2>3. (m * 100) \div Total \in 0..100
      BY <2>1, <2>2, QuotientBetween
    <2> QED
      BY <2>3 DEF m
  <1>4. memoryPercent' \in 0..Whole
    BY <1>3 DEF Collected
  <1> QED
    BY <1>2, <1>4

LEMMA WindowedEnd ==
  ASSUME NEW s \in Seq(Nat), NEW b \in Nat, Len(s) <= WindowSize
  PROVE  LET t == Windowed(Append(s, b))
         IN  /\ t \in Seq(Nat) /\ t # <<>> /\ Len(t) <= WindowSize /\ Last(t) = b
             /\ \A i \in 1..Len(t) : t[i] = b \/ \E k \in 1..Len(s) : t[i] = s[k]
  <1> DEFINE a == Append(s, b)   n == Len(s)
  <1>1. /\ a \in Seq(Nat) /\ Len(a) = n + 1 /\ n \in Nat /\ a[n + 1] = b
        /\ \A k \in 1..n : a[k] = s[k]
        /\ WindowSize \in Nat \ {0}
    BY CalculationAssumption
  <1>2. Windowed(a) = IF Len(a) > WindowSize
                      THEN SubSeq(a, Len(a) - WindowSize + 1, Len(a)) ELSE a
    BY DEF Windowed
  <1> HIDE DEF a, n
  <1>3. \A k \in 1..(n + 1) : a[k] = b \/ \E i \in 1..n : a[k] = s[i]
    <2>1. \A k \in 1..(n + 1) : k \in 1..n \/ k = n + 1
      BY <1>1
    <2> QED
      BY <1>1, <2>1
  <1>4. CASE Len(a) > WindowSize
    <2> DEFINE d == Len(a) - WindowSize   t == SubSeq(a, d + 1, Len(a))
    <2>1. d \in 0..Len(a) /\ Len(a) - d = WindowSize /\ WindowSize \in 1..WindowSize /\ d + WindowSize = n + 1
      BY <1>1, <1>4
    <2> HIDE DEF d
    <2>2. /\ t \in Seq(Nat) /\ Len(t) = Len(a) - d
          /\ \A i \in 1..Len(a) - d : t[i] = a[d + i] /\ d + i \in 1..Len(a)
      BY <1>1, <2>1, EndOfSequence
    <2>3. Windowed(a) = t
      BY <1>2, <1>4 DEF d
    <2> HIDE DEF t
    <2>4. t[Len(t)] = b
      BY <1>1, <2>1, <2>2
    <2>5. t # <<>>
      BY <1>1, <2>1, <2>2
    <2>6. Last(t) = b
      BY <2>4 DEF Last
    <2>7. Len(t) <= WindowSize
      BY <2>1, <2>2
    <2>8. ASSUME NEW i \in 1..Len(t) PROVE t[i] = b \/ \E k \in 1..Len(s) : t[i] = s[k]
      <3>1. t[i] = a[d + i] /\ d + i \in 1..(n + 1)
        BY <1>1, <2>2
      <3> QED
        BY <1>3, <3>1, Zenon DEF n
    <2> QED
      BY <2>2, <2>3, <2>5, <2>6, <2>7, <2>8, Zenon DEF a
  <1>5. CASE ~(Len(a) > WindowSize)
    <2>1. a # <<>> /\ Windowed(a) = a /\ Last(a) = b /\ Len(a) <= WindowSize
      BY <1>1, <1>2, <1>5 DEF Last
    <2> QED
      BY <1>1, <1>3, <2>1 DEF a, n
  <1> QED
    BY <1>4, <1>5

Busy == {r \in LoadReporters : reporter[r].at # "idle"}

Reporter == [at : {"idle", "metrics", "calculate", "predict"}, metrics : LoadMetrics, base : Nat]

\* What is answered, and what is on its way to be.
LoadInv ==
    /\ LoadTypeOK
    /\ calculated.count + Cardinality(Busy) <= MaxCalculations
    /\ \A r \in LoadReporters : Explained(reporter[r].base)
    /\ \A i \in 1..Len(loads) : Explained(loads[i])
    /\ PredictionFollowsTrend /\ LoadInRange

LEMMA BusyFinite == IsFiniteSet(Busy) /\ Cardinality(Busy) \in Nat
  BY CalculationAssumption, FS_Subset, FS_CardinalityType DEF Busy

LEMMA BusyMoves ==
  ASSUME LoadInv, NEW r \in LoadReporters, NEW after \in Reporter,
         reporter' = [reporter EXCEPT ![r] = after]
  PROVE  /\ reporter[r].at = "idle" /\ after.at # "idle" => Cardinality(Busy') = Cardinality(Busy) + 1
         /\ reporter[r].at # "idle" /\ after.at = "idle" => Cardinality(Busy') = Cardinality(Busy) - 1
         /\ reporter[r].at # "idle" /\ after.at # "idle" => Busy' = Busy
         /\ reporter' \in [LoadReporters -> Reporter]
         /\ Explained(after.base) => \A o \in LoadReporters : Explained(reporter'[o].base)
  <1>1. reporter \in [LoadReporters -> Reporter]
    BY DEF LoadInv, LoadTypeOK, Reporter
  <1>2. CASE reporter[r].at = "idle" /\ after.at # "idle"
    <2>1. r \notin Busy /\ Busy' = Busy \cup {r}
      BY <1>1, <1>2 DEF Busy
    <2> QED
      BY <1>1, <1>2, <2>1, BusyFinite, FS_AddElement DEF LoadInv
  <1>3. CASE reporter[r].at # "idle" /\ after.at = "idle"
    <2>1. r \in Busy /\ Busy' = Busy \ {r}
      BY <1>1, <1>3 DEF Busy
    <2> QED
      BY <1>1, <1>3, <2>1, BusyFinite, FS_RemoveElement DEF LoadInv
  <1>4. CASE reporter[r].at # "idle" /\ after.at # "idle"
    <2>1. Busy' = Busy
      BY <1>1, <1>4 DEF Busy
    <2> QED
      BY <1>1, <1>4, <2>1 DEF LoadInv
  <1>5. CASE reporter[r].at = "idle" /\ after.at = "idle"
    BY <1>1, <1>5 DEF LoadInv
  <1> QED
    BY <1>2, <1>3, <1>4, <1>5

\* A step of a reporter that answers nothing.
LEMMA ReporterMoves ==
  ASSUME LoadInv, NEW r \in LoadReporters, NEW after \in Reporter,
         reporter' = [reporter EXCEPT ![r] = after], Explained(after.base), after.at # "idle",
         reporter[r].at # "idle" \/ calculated.count + Cardinality(Busy) < MaxCalculations,
         cpuPercent' \in 0..Whole, memoryPercent' \in 0..Whole,
         UNCHANGED <<calculator, jobCount, runtimeStats, collecting, loads, calculated>>
  PROVE  LoadInv'
  <1>1. /\ reporter[r].at = "idle" => Cardinality(Busy') = Cardinality(Busy) + 1
        /\ reporter[r].at # "idle" => Busy' = Busy
        /\ reporter' \in [LoadReporters -> Reporter]
        /\ \A o \in LoadReporters : Explained(reporter'[o].base)
    BY BusyMoves
  <1>2. PICK n \in Nat, c \in Nat : n = Cardinality(Busy) /\ c = calculated.count
    BY BusyFinite DEF LoadInv, LoadTypeOK
  <1>3. c + n <= MaxCalculations /\ MaxCalculations \in Nat
    BY <1>2, CalculationAssumption DEF LoadInv
  <1> HIDE DEF Busy
  <1>4. calculated'.count + Cardinality(Busy') <= MaxCalculations
    BY <1>1, <1>2, <1>3
  <1>5. LoadTypeOK'
    BY <1>1 DEF LoadInv, LoadTypeOK, Reporter
  <1>6. PredictionFollowsTrend' /\ LoadInRange'
    BY DEF LoadInv, PredictionFollowsTrend, LoadInRange, Rising, Falling, Last, AtMostWhole, Whole
  <1>7. \A i \in 1..Len(loads') : Explained(loads'[i])
    BY DEF LoadInv
  <1> QED
    BY <1>1, <1>4, <1>5, <1>6, <1>7 DEF LoadInv, Explained, Whole

\* A step that answers.
LEMMA ReporterAnswers ==
  ASSUME LoadInv, NEW r \in LoadReporters, NEW after \in Reporter, reporter[r].at # "idle",
         reporter' = [reporter EXCEPT ![r] = after], Explained(after.base), after.at = "idle",
         NEW window \in Seq(Nat), NEW answer \in Nat, Answered(window, answer),
         Rising(window) => answer >= AtMostWhole(Last(window)),
         Falling(window) => answer <= Last(window),
         answer > Whole => LoadMaxJobs > 0 /\ LoadMaxJobs < MostJobs /\ Len(window) < 3,
         loads' \in Seq(Nat), Len(loads') <= WindowSize, \A i \in 1..Len(loads') : Explained(loads'[i]),
         UNCHANGED <<calculator, jobCount, collectorVars>>
  PROVE  LoadInv'
  <1>1. /\ Cardinality(Busy') = Cardinality(Busy) - 1
        /\ reporter' \in [LoadReporters -> Reporter]
        /\ \A o \in LoadReporters : Explained(reporter'[o].base)
    BY BusyMoves
  <1>2. PICK n \in Nat, c \in Nat : n = Cardinality(Busy) /\ c = calculated.count
    BY BusyFinite DEF LoadInv, LoadTypeOK
  <1>3. c + n <= MaxCalculations /\ MaxCalculations \in Nat /\ n # 0
    <2>1. r \in Busy
      BY DEF Busy
    <2>2. n # 0
      BY <1>2, <2>1, BusyFinite, FS_EmptySet
    <2> QED
      BY <1>2, <2>2, CalculationAssumption DEF LoadInv
  <1> HIDE DEF Busy
  <1>4. calculated' = [count |-> c + 1, window |-> window, answer |-> answer]
    BY <1>2 DEF Answered
  <1>5. /\ calculated'.count = c + 1 /\ calculated'.window = window /\ calculated'.answer = answer
        /\ calculated'.count + Cardinality(Busy') <= MaxCalculations
        /\ calculated' \in [count : 0..MaxCalculations, window : Seq(Nat), answer : Nat]
    <2>1. Cardinality(Busy') = n - 1
      BY <1>1, <1>2, Zenon
    <2>2. c + 1 \in 0..MaxCalculations /\ (c + 1) + (n - 1) <= MaxCalculations
      BY <1>3
    <2>3. calculated'.count = c + 1 /\ calculated'.window = window /\ calculated'.answer = answer
      BY <1>4
    <2>4. calculated'.count + Cardinality(Busy') = (c + 1) + (n - 1)
      BY <2>1, <2>3, Zenon
    <2>5. calculated' \in [count : 0..MaxCalculations, window : Seq(Nat), answer : Nat]
      BY <1>4, <2>2
    <2> QED
      BY <2>2, <2>3, <2>4, <2>5, Zenon
  <1>6. LoadTypeOK'
    BY <1>1, <1>5 DEF LoadInv, LoadTypeOK, Reporter, collectorVars
  <1>7. PredictionFollowsTrend' /\ LoadInRange'
    BY <1>5 DEF PredictionFollowsTrend, LoadInRange, Rising, Falling, Last, AtMostWhole, Whole
  <1> QED
    BY <1>1, <1>5, <1>6, <1>7 DEF LoadInv, Explained, Whole

LEMMA LoadInvStep == LoadInv /\ [LoadCalculationNext]_loadVars => LoadInv'
  <1> SUFFICES ASSUME LoadInv, [LoadCalculationNext]_loadVars PROVE LoadInv'
    OBVIOUS
  <1>0. /\ \A r \in LoadReporters : reporter[r] \in Reporter
        /\ loads \in Seq(Nat) /\ Len(loads) <= WindowSize
        /\ cpuPercent \in 0..Whole /\ memoryPercent \in 0..Whole
        /\ runtimeStats \in [cpu : CPUSamples, memory : MemorySamples]
        /\ NoMetrics \in LoadMetrics
    BY CalculationAssumption DEF LoadInv, LoadTypeOK, Reporter, NoMetrics, LoadMetrics, Whole
  <1>1. ASSUME UNCHANGED <<calculator, loads, reporter, calculated>>, jobCount' \in 0..MostJobs,
               runtimeStats' \in [cpu : CPUSamples, memory : MemorySamples],
               cpuPercent' \in 0..Whole, memoryPercent' \in 0..Whole, collecting' \in BOOLEAN
        PROVE  LoadInv'
    <2>1. LoadTypeOK'
      BY <1>1 DEF LoadInv, LoadTypeOK
    <2>2. Busy' = Busy
      BY <1>1 DEF Busy
    <2>3. PredictionFollowsTrend' /\ LoadInRange'
      BY <1>1 DEF LoadInv, PredictionFollowsTrend, LoadInRange, Rising, Falling, Last, AtMostWhole, Whole
    <2> HIDE DEF Busy
    <2> QED
      BY <1>1, <2>1, <2>2, <2>3 DEF LoadInv, Explained, Whole
  <1>2. CASE UNCHANGED loadVars
    BY <1>0, <1>1, <1>2 DEF loadVars, collectorVars, LoadInv, LoadTypeOK
  <1>3. CASE CollectorTicks
    <2>1. cpuPercent' \in 0..Whole /\ memoryPercent' \in 0..Whole
      BY <1>0, <1>3, CollectedInRange DEF CollectorTicks
    <2> QED
      BY <1>0, <1>1, <1>3, <2>1 DEF CollectorTicks, LoadInv, LoadTypeOK
  <1>4. CASE CollectorStops
    BY <1>0, <1>1, <1>4 DEF CollectorStops, LoadInv, LoadTypeOK
  <1>5. CASE SystemChanges
    BY <1>0, <1>1, <1>5 DEF SystemChanges, LoadInv, LoadTypeOK
  <1>6. ASSUME NEW many \in 0..MostJobs, JobsChange(many) PROVE LoadInv'
    BY <1>0, <1>1, <1>6 DEF JobsChange, collectorVars, LoadInv, LoadTypeOK
  <1>7. ASSUME NEW r \in LoadReporters, BuildLoadMetrics(r) PROVE LoadInv'
    <2> DEFINE after == [reporter[r] EXCEPT !.at = "metrics", !.metrics.jobs = jobCount]
    <2>1. jobCount \in 0..MostJobs /\ reporter[r].metrics \in LoadMetrics /\ reporter[r].base \in Nat
      BY <1>0 DEF LoadInv, LoadTypeOK, Reporter
    <2>2. [reporter[r].metrics EXCEPT !.jobs = jobCount] \in LoadMetrics
      BY <2>1 DEF LoadMetrics
    <2>3. after \in Reporter /\ after.at = "metrics" /\ after.base = reporter[r].base
      BY <1>0, <2>2 DEF Reporter
    <2>4. reporter' = [reporter EXCEPT ![r] = after]
      BY <1>7 DEF BuildLoadMetrics
    <2>5. calculated.count + Cardinality(Busy) < MaxCalculations
      BY <1>7 DEF BuildLoadMetrics, Busy
    <2>6. UNCHANGED <<calculator, jobCount, collectorVars, loads, calculated>>
      BY <1>7 DEF BuildLoadMetrics
    <2>7. Explained(reporter[r].base)
      BY DEF LoadInv
    <2> HIDE DEF after
    <2> QED
      BY <1>0, <2>3, <2>4, <2>5, <2>6, <2>7, ReporterMoves DEF collectorVars
  <1>8. ASSUME NEW r \in LoadReporters, CollectsForReport(r) PROVE LoadInv'
    <2>1. Explained(reporter[r].base) /\ reporter[r].at # "idle"
      BY <1>8 DEF LoadInv, CollectsForReport
    <2>2. UNCHANGED <<calculator, jobCount, runtimeStats, collecting, loads, calculated>>
      BY <1>8 DEF CollectsForReport
    <2>3. CASE calculator = "cpu-memory"
      <3> DEFINE after == [reporter[r] EXCEPT !.at = "calculate", !.metrics.cpu = cpuPercent',
                                              !.metrics.memory = memoryPercent']
      <3>1. Collected /\ reporter' = [reporter EXCEPT ![r] = after]
        BY <1>8, <2>3 DEF CollectsForReport
      <3>2. cpuPercent' \in 0..Whole /\ memoryPercent' \in 0..Whole
        BY <1>0, <3>1, CollectedInRange
      <3>3. [reporter[r].metrics EXCEPT !.cpu = cpuPercent', !.memory = memoryPercent'] \in LoadMetrics
        BY <1>0, <3>2 DEF LoadMetrics, Reporter
      <3>4. after = [reporter[r] EXCEPT !.at = "calculate",
                        !.metrics = [reporter[r].metrics EXCEPT !.cpu = cpuPercent', !.memory = memoryPercent']]
        BY <1>0 DEF Reporter
      <3>5. after \in Reporter /\ after.at = "calculate" /\ after.base = reporter[r].base
        BY <1>0, <3>3, <3>4 DEF Reporter
      <3> HIDE DEF after
      <3> QED
        BY <2>1, <2>2, <3>1, <3>2, <3>5, ReporterMoves
    <2>4. CASE calculator # "cpu-memory"
      <3> DEFINE after == [reporter[r] EXCEPT !.at = "calculate"]
      <3>1. reporter' = [reporter EXCEPT ![r] = after] /\ UNCHANGED <<cpuPercent, memoryPercent>>
        BY <1>8, <2>4 DEF CollectsForReport
      <3>2. after \in Reporter /\ after.at = "calculate" /\ after.base = reporter[r].base
        BY <1>0 DEF Reporter
      <3> HIDE DEF after
      <3> QED
        BY <1>0, <2>1, <2>2, <3>1, <3>2, ReporterMoves
    <2> QED
      BY <2>3, <2>4
  <1>9. ASSUME NEW r \in LoadReporters, Calculate(r) PROVE LoadInv'
    <2> DEFINE base == BaseLoad(reporter[r].metrics)
    <2>1. base \in Nat /\ Explained(base)
      <3>1. reporter[r].metrics \in LoadMetrics
        BY <1>0 DEF Reporter
      <3> QED
        BY <3>1, BaseLoadExplained
    <2>2. /\ reporter[r].at = "calculate" /\ Explained(reporter[r].base)
          /\ UNCHANGED <<calculator, jobCount, collectorVars, loads>>
          /\ IF calculator = "predictive"
             THEN /\ reporter' = [reporter EXCEPT ![r].at = "predict", ![r].base = base]
                  /\ UNCHANGED calculated
             ELSE /\ reporter' = [reporter EXCEPT ![r].at = "idle", ![r].metrics = NoMetrics]
                  /\ Answered(<<base>>, base)
      BY <1>9 DEF Calculate, LoadInv
    <2> HIDE DEF base
    <2>3. CASE calculator = "predictive"
      <3> DEFINE after == [reporter[r] EXCEPT !.at = "predict", !.base = base]
      <3>1. reporter' = [reporter EXCEPT ![r] = after] /\ UNCHANGED calculated
        BY <2>2, <2>3
      <3>2. after \in Reporter /\ after.at = "predict" /\ after.base = base
        BY <1>0, <2>1 DEF Reporter
      <3> HIDE DEF after
      <3> QED
        BY <1>0, <2>1, <2>2, <3>1, <3>2, ReporterMoves DEF collectorVars
    <2>4. CASE calculator # "predictive"
      <3> DEFINE after == [reporter[r] EXCEPT !.at = "idle", !.metrics = NoMetrics]
                 window == <<base>>
      <3>1. reporter' = [reporter EXCEPT ![r] = after] /\ Answered(window, base)
        BY <2>2, <2>4
      <3>2. after \in Reporter /\ after.at = "idle" /\ after.base = reporter[r].base
        BY <1>0 DEF Reporter
      <3>3. window \in Seq(Nat) /\ Last(window) = base /\ Len(window) = 1
        BY <2>1 DEF Last
      <3>4. base >= AtMostWhole(base) /\ base <= base
        BY <2>1 DEF AtMostWhole, Whole
      <3>5. loads' \in Seq(Nat) /\ Len(loads') <= WindowSize /\ \A i \in 1..Len(loads') : Explained(loads'[i])
        BY <1>0, <2>2 DEF LoadInv
      <3>6. base > Whole => LoadMaxJobs > 0 /\ LoadMaxJobs < MostJobs /\ Len(window) < 3
        BY <2>1, <3>3 DEF Explained
      <3> HIDE DEF after, window
      <3> QED
        BY <2>1, <2>2, <3>1, <3>2, <3>3, <3>4, <3>5, <3>6, ReporterAnswers
    <2> QED
      BY <2>3, <2>4
  <1>10. ASSUME NEW r \in LoadReporters, CalculatePredicted(r) PROVE LoadInv'
    <2> DEFINE base == reporter[r].base
               after == [reporter[r] EXCEPT !.at = "idle", !.metrics = NoMetrics, !.base = 0]
               window == Windowed(Append(loads, base))
    <2>1. base \in Nat /\ Explained(base) /\ reporter[r].at = "predict"
      BY <1>0, <1>10 DEF Reporter, LoadInv, CalculatePredicted
    <2>2. /\ loads' = window /\ Answered(window, Predicted(window))
          /\ reporter' = [reporter EXCEPT ![r] = after]
          /\ UNCHANGED <<calculator, jobCount, collectorVars>>
      BY <1>10 DEF CalculatePredicted
    <2>3. after \in Reporter /\ after.at = "idle" /\ after.base = 0
      BY <1>0 DEF Reporter
    <2>4. Explained(0)
      BY DEF Explained, Whole
    <2> HIDE DEF base, after
    <2>5. /\ window \in Seq(Nat) /\ window # <<>> /\ Len(window) <= WindowSize /\ Last(window) = base
          /\ \A i \in 1..Len(window) : window[i] = base \/ \E k \in 1..Len(loads) : window[i] = loads[k]
      BY <1>0, <2>1, WindowedEnd
    <2> HIDE DEF window
    <2>6. \A i \in 1..Len(window) : Explained(window[i])
      BY <2>1, <2>5 DEF LoadInv
    <2>7. /\ Predicted(window) \in Nat
          /\ Len(window) >= 3 => Predicted(window) <= Whole
          /\ Len(window) < 3 => Predicted(window) = Last(window)
          /\ Rising(window) => Predicted(window) >= AtMostWhole(Last(window))
          /\ Falling(window) => Predicted(window) <= Last(window)
      BY <2>5, PredictedWell
    <2>8. Predicted(window) > Whole
            => LoadMaxJobs > 0 /\ LoadMaxJobs < MostJobs /\ Len(window) < 3
      <3>1. Len(window) \in Nat
        BY <2>5
      <3> QED
        BY <2>1, <2>5, <2>7, <3>1 DEF Explained, Whole
    <2> QED
      BY <2>1, <2>2, <2>3, <2>4, <2>5, <2>6, <2>7, <2>8, ReporterAnswers
  <1> QED
    BY <1>2, <1>3, <1>4, <1>5, <1>6, <1>7, <1>8, <1>9, <1>10 DEF LoadCalculationNext

\* For any reporters, calculators, samples, limits and size of the window, however the reports
\* overtake each other: a prediction errs to the side the loads move to, and a load over Whole
\* is answered only when more jobs run than may, before there are three.
LEMMA LoadAlwaysRight ==
  LoadCalculationSpec => [](LoadTypeOK /\ PredictionFollowsTrend /\ LoadInRange)
  <1>1. LoadInit => LoadInv
    <2> SUFFICES ASSUME LoadInit PROVE LoadInv
      OBVIOUS
    <2> USE CalculationAssumption
    <2>1. /\ calculated.count = 0 /\ calculated.window = <<0>> /\ calculated.answer = 0
          /\ Last(<<0>>) = 0 /\ Len(<<0>>) = 1 /\ loads = <<>> /\ Len(loads) = 0
      BY DEF LoadInit, Last
    <2>2. \A r \in LoadReporters : reporter[r] = [at |-> "idle", metrics |-> NoMetrics, base |-> 0]
      BY DEF LoadInit
    <2>3. LoadTypeOK
      <3>1. [at |-> "idle", metrics |-> NoMetrics, base |-> 0] \in Reporter
        BY DEF Reporter, LoadMetrics, NoMetrics, Whole
      <3>2. calculated \in [count : 0..MaxCalculations, window : Seq(Nat), answer : Nat]
        BY DEF LoadInit
      <3> QED
        BY <3>1, <3>2 DEF LoadInit, LoadTypeOK, Reporter, Whole
    <2>4. Busy = {} /\ Cardinality(Busy) = 0
      BY <2>2, FS_EmptySet DEF Busy
    <2>5. PredictionFollowsTrend /\ LoadInRange
      BY <2>1 DEF PredictionFollowsTrend, LoadInRange, AtMostWhole, Whole
    <2> HIDE DEF Busy
    <2> QED
      BY <2>1, <2>2, <2>3, <2>4, <2>5 DEF LoadInv, Explained, Whole
  <1>2. LoadInv => LoadTypeOK /\ PredictionFollowsTrend /\ LoadInRange
    BY DEF LoadInv
  <1> QED
    BY <1>1, <1>2, LoadInvStep, PTL DEF LoadCalculationSpec

-------------------------------------------------------------------------------
(* What the two lists of hooks hold.                                         *)

ManagerRun == [copy : Seq(HookNames), started : Nat, ended : Nat]

ManagerTyped ==
    /\ added \in [{"manager", "handler"} -> SUBSET HookNames]
    /\ managerRuns \in [Executors -> ManagerRun]
    /\ \A e \in Executors :
        /\ managerRuns[e].started <= Len(managerRuns[e].copy)
        /\ managerRuns[e].ended \in {managerRuns[e].started, managerRuns[e].started - 1}
    /\ overdue \subseteq HookNames

\* The first n places of an array were written.
Holds(array, n) == n <= Len(array) /\ \A k \in 1..n : array[k] \in HookNames

HandlerRun == [array : Nat, length : Nat, index : Nat, ran : Seq(HookNames)]

\* The loop of a phase only reads places that were written when it began: what is moved
\* meanwhile leaves no empty place among them.
HandlerTyped ==
    /\ arrays \in Seq(Seq(HookNames \cup {NoHook})) /\ arrays # <<>>
    /\ handled \in Nat /\ Holds(arrays[Len(arrays)], handled)
    /\ handlerRuns \in [Executors -> HandlerRun]
    /\ \A e \in Executors :
        /\ handlerRuns[e].array <= Len(arrays)
        /\ handlerRuns[e].length # 0 =>
            handlerRuns[e].array # 0 /\ Holds(arrays[handlerRuns[e].array], handlerRuns[e].length)

LEMMA ManagerTypedStep ==
  ASSUME ManagerTyped, managed \in Seq(HookNames), NEW e \in Executors,
         \/ ManagerExecutePhase(e) \/ ExecuteHook(e) \/ HookEnds(e) \/ ManagerPhaseEnds(e)
  PROVE  ManagerTyped'
  <1> DEFINE run == managerRuns[e]
  <1>1. /\ run \in ManagerRun /\ run.started <= Len(run.copy) /\ run.ended \in {run.started, run.started - 1}
        /\ run.copy \in Seq(HookNames) /\ Len(run.copy) \in Nat
        /\ run.started \in Nat /\ run.ended \in Nat
    BY DEF ManagerTyped, ManagerRun
  <1> HIDE DEF run
  <1>2. ASSUME NEW after \in ManagerRun, managerRuns' = [managerRuns EXCEPT ![e] = after],
               after.started <= Len(after.copy),
               after.ended \in {after.started, after.started - 1},
               overdue' \subseteq HookNames, UNCHANGED added
        PROVE  ManagerTyped'
    BY <1>2 DEF ManagerTyped
  <1>3. CASE ManagerExecutePhase(e)
    <2> DEFINE after == [run EXCEPT !.copy = managed]
    <2>1. after \in ManagerRun /\ after.copy = managed /\ after.started = run.started /\ after.ended = run.ended
      BY <1>1 DEF ManagerRun
    <2>2. run.started = 0 /\ Len(managed) \in Nat
      BY <1>3 DEF ManagerExecutePhase, NotRunning, run
    <2>3. managerRuns' = [managerRuns EXCEPT ![e] = after] /\ UNCHANGED <<added, overdue>>
      BY <1>3 DEF ManagerExecutePhase, run
    <2> HIDE DEF after
    <2> QED
      BY <1>1, <1>2, <2>1, <2>2, <2>3 DEF ManagerTyped
  <1>4. CASE ExecuteHook(e)
    <2> DEFINE after == [run EXCEPT !.started = @ + 1]
    <2>1. after \in ManagerRun /\ after.copy = run.copy /\ after.started = run.started + 1 /\ after.ended = run.ended
      BY <1>1 DEF ManagerRun
    <2>2. run.ended = run.started /\ run.started < Len(run.copy)
      BY <1>4 DEF ExecuteHook, run
    <2>3. managerRuns' = [managerRuns EXCEPT ![e] = after] /\ UNCHANGED <<added, overdue>>
      BY <1>4 DEF ExecuteHook, run
    <2>4. after.started <= Len(after.copy) /\ after.ended \in {after.started, after.started - 1}
      BY <1>1, <2>1, <2>2
    <2> HIDE DEF after
    <2> QED
      BY <1>2, <2>1, <2>3, <2>4 DEF ManagerTyped
  <1>5. CASE HookEnds(e)
    <2> DEFINE after == [run EXCEPT !.ended = @ + 1]
    <2>1. after \in ManagerRun /\ after.copy = run.copy /\ after.started = run.started /\ after.ended = run.ended + 1
      BY <1>1 DEF ManagerRun
    <2>2. run.ended < run.started
      BY <1>5 DEF HookEnds, run
    <2>3. managerRuns' = [managerRuns EXCEPT ![e] = after] /\ UNCHANGED added
      BY <1>5 DEF HookEnds, run
    <2>4. after.started <= Len(after.copy) /\ after.ended \in {after.started, after.started - 1}
      BY <1>1, <2>1, <2>2
    <2>5. run.copy[run.started] \in HookNames
      <3>1. run.started \in 1..Len(run.copy)
        BY <1>1, <2>2
      <3> QED
        BY <1>1, <3>1
    <2>6. overdue' \subseteq HookNames
      BY <1>5, <2>5 DEF HookEnds, ManagerTyped, run
    <2> HIDE DEF after
    <2> QED
      BY <1>2, <2>1, <2>3, <2>4, <2>6
  <1>6. CASE ManagerPhaseEnds(e)
    <2>1. /\ NotRunning \in ManagerRun /\ NotRunning.started <= Len(NotRunning.copy)
          /\ NotRunning.ended = NotRunning.started
      BY DEF NotRunning, ManagerRun
    <2>2. managerRuns' = [managerRuns EXCEPT ![e] = NotRunning] /\ UNCHANGED <<added, overdue>>
      BY <1>6 DEF ManagerPhaseEnds
    <2> QED
      BY <1>2, <2>1, <2>2 DEF ManagerTyped
  <1> QED
    BY <1>3, <1>4, <1>5, <1>6

\* Arrays are added and places written over, none is emptied.
LEMMA ArraysStay ==
  ASSUME HandlerTyped, UNCHANGED handlerRuns,
         arrays' \in Seq(Seq(HookNames \cup {NoHook})), Len(arrays) <= Len(arrays'),
         \A a \in 1..Len(arrays) :
            /\ Len(arrays'[a]) = Len(arrays[a])
            /\ \A k \in 1..Len(arrays[a]) : arrays[a][k] \in HookNames => arrays'[a][k] \in HookNames,
         handled' \in Nat, Holds(arrays'[Len(arrays')], handled')
  PROVE  HandlerTyped'
  <1>1. Len(arrays) \in Nat /\ Len(arrays') \in Nat /\ Len(arrays) # 0
    BY DEF HandlerTyped
  <1>2. ASSUME NEW a \in 1..Len(arrays), NEW n \in Nat, Holds(arrays[a], n) PROVE Holds(arrays'[a], n)
    <2>1. Len(arrays[a]) \in Nat
      BY DEF HandlerTyped
    <2>2. n <= Len(arrays[a]) /\ \A k \in 1..n : arrays[a][k] \in HookNames
      BY <1>2 DEF Holds
    <2>3. Len(arrays'[a]) = Len(arrays[a])
      BY <1>2
    <2>4. ASSUME NEW k \in 1..n PROVE arrays'[a][k] \in HookNames
      <3>1. k \in 1..Len(arrays[a])
        BY <1>2, <2>1, <2>2
      <3>2. arrays[a][k] \in HookNames
        BY <2>2
      <3> QED
        BY <1>2, <3>1, <3>2
    <2>5. n <= Len(arrays'[a])
      BY <2>2, <2>3
    <2> QED
      BY <2>4, <2>5 DEF Holds
  <1>3. ASSUME NEW e \in Executors
        PROVE  /\ handlerRuns[e].array <= Len(arrays')
               /\ handlerRuns[e].length # 0 =>
                    handlerRuns[e].array # 0 /\ Holds(arrays'[handlerRuns[e].array], handlerRuns[e].length)
    <2>1. handlerRuns[e].array \in Nat /\ handlerRuns[e].length \in Nat /\ handlerRuns[e].array <= Len(arrays)
      BY DEF HandlerTyped, HandlerRun
    <2>2. handlerRuns[e].array <= Len(arrays')
      BY <1>1, <2>1
    <2>3. ASSUME handlerRuns[e].length # 0
          PROVE  handlerRuns[e].array # 0 /\ Holds(arrays'[handlerRuns[e].array], handlerRuns[e].length)
      <3>1. handlerRuns[e].array # 0 /\ Holds(arrays[handlerRuns[e].array], handlerRuns[e].length)
        BY <2>3 DEF HandlerTyped
      <3>2. handlerRuns[e].array \in 1..Len(arrays)
        BY <1>1, <2>1, <3>1
      <3> QED
        BY <1>2, <2>1, <3>1, <3>2
    <2> QED
      BY <2>2, <2>3
  <1>4. arrays' # <<>>
    BY <1>1
  <1> QED
    BY <1>3, <1>4 DEF HandlerTyped, Holds

LEMMA HandlerAddKeeps ==
  ASSUME HandlerTyped, NEW h \in HookNames, HandlerAddHook(h)
  PROVE  HandlerTyped'
  <1> DEFINE S == HookNames \cup {NoHook}
             c == Len(arrays)
             full == arrays[c]
             m == IF handled = 0 THEN 1 ELSE 2 * handled
             grown == [i \in 1..m |-> IF i <= handled THEN full[i] ELSE IF i = handled + 1 THEN h ELSE NoHook]
  <1>1. /\ c \in Nat /\ c # 0 /\ c \in 1..c /\ arrays \in Seq(Seq(S)) /\ full \in Seq(S) /\ Len(full) \in Nat
        /\ handled \in Nat /\ handled <= Len(full) /\ \A k \in 1..handled : full[k] \in HookNames
    BY DEF HandlerTyped, Holds
  <1>2. /\ arrays' = IF handled < Len(full) THEN [arrays EXCEPT ![c][handled + 1] = h]
                     ELSE Append(arrays, grown)
        /\ handled' = handled + 1 /\ UNCHANGED handlerRuns
    BY DEF HandlerAddHook, Current
  <1> HIDE DEF full, grown
  <1>3. CASE handled < Len(full)
    <2> DEFINE set == [full EXCEPT ![handled + 1] = h]
    <2>1. arrays' = [arrays EXCEPT ![c] = set]
      BY <1>2, <1>3 DEF full
    <2>2. /\ set \in Seq(S) /\ Len(set) = Len(full) /\ set[handled + 1] = h
          /\ \A k \in 1..Len(full) : k # handled + 1 => set[k] = full[k]
      BY <1>1, <1>3
    <2> HIDE DEF set
    <2>3. /\ arrays' \in Seq(Seq(S)) /\ Len(arrays') = c /\ arrays'[c] = set
          /\ \A a \in 1..c : a # c => arrays'[a] = arrays[a]
      BY <1>1, <2>1, <2>2
    <2>4. ASSUME NEW a \in 1..c
          PROVE  /\ Len(arrays'[a]) = Len(arrays[a])
                 /\ \A k \in 1..Len(arrays[a]) :
                        arrays[a][k] \in HookNames => arrays'[a][k] \in HookNames
      <3>1. CASE a = c
        BY <2>2, <2>3, <3>1 DEF full
      <3>2. CASE a # c
        BY <2>3, <3>2
      <3> QED
        BY <3>1, <3>2
    <2>5. handled' \in Nat /\ Holds(arrays'[Len(arrays')], handled')
      <3>1. \A k \in 1..(handled + 1) : k \in 1..handled \/ k = handled + 1
        BY <1>1
      <3>2. \A k \in 1..(handled + 1) : set[k] \in HookNames
        BY <1>1, <1>3, <2>2, <3>1
      <3> QED
        BY <1>1, <1>2, <1>3, <2>2, <2>3, <3>2 DEF Holds
    <2> QED
      BY <1>1, <1>2, <2>3, <2>4, <2>5, ArraysStay
  <1>4. CASE ~(handled < Len(full))
    <2>1. /\ m \in Nat /\ handled + 1 <= m
      BY <1>1
    <2>2. /\ grown \in Seq(S) /\ Len(grown) = m
          /\ \A k \in 1..m : grown[k] = IF k <= handled THEN full[k] ELSE IF k = handled + 1 THEN h ELSE NoHook
      <3>1. \A k \in 1..m : (IF k <= handled THEN full[k] ELSE IF k = handled + 1 THEN h ELSE NoHook) \in S
        BY <1>1, <2>1
      <3> HIDE DEF m
      <3>2. grown \in [1..m -> S]
        BY <3>1 DEF grown
      <3> QED
        BY <2>1, <3>2 DEF grown
    <2>3. /\ arrays' \in Seq(Seq(S)) /\ Len(arrays') = c + 1 /\ arrays'[c + 1] = grown
          /\ \A a \in 1..c : arrays'[a] = arrays[a]
      BY <1>1, <1>2, <1>4, <2>2
    <2>4. handled' \in Nat /\ Holds(arrays'[Len(arrays')], handled')
      <3>1. \A k \in 1..(handled + 1) : grown[k] \in HookNames
        <4>1. \A k \in 1..(handled + 1) : k \in 1..m /\ (k \in 1..handled \/ k = handled + 1)
          BY <1>1, <2>1
        <4> HIDE DEF m, S
        <4>2. ASSUME NEW k \in 1..(handled + 1) PROVE grown[k] \in HookNames
          <5>1. k \in Int /\ k \in 1..m /\ (k \in 1..handled \/ k = handled + 1)
            BY <1>1, <4>1
          <5>2. CASE k \in 1..handled
            <6>1. k <= handled /\ full[k] \in HookNames
              BY <1>1, <5>2
            <6> QED
              BY <2>2, <5>1, <6>1
          <5>3. CASE k = handled + 1
            <6>1. ~(k <= handled)
              BY <1>1, <5>3
            <6> QED
              BY <2>2, <5>1, <5>3, <6>1
          <5> QED
            BY <5>1, <5>2, <5>3
        <4> QED
          BY <4>2
      <3> HIDE DEF m
      <3> QED
        BY <1>1, <1>2, <2>1, <2>2, <2>3, <3>1 DEF Holds
    <2> HIDE DEF m
    <2> QED
      BY <1>1, <1>2, <2>3, <2>4, ArraysStay
  <1> QED
    BY <1>3, <1>4

LEMMA HandlerRemoveKeeps ==
  ASSUME HandlerTyped, NEW i \in 1..handled, HandlerRemoveHook(i)
  PROVE  HandlerTyped'
  <1> DEFINE S == HookNames \cup {NoHook}
             c == Len(arrays)
             full == arrays[c]
             shifted == [k \in DOMAIN full |-> IF i <= k /\ k < handled THEN full[k + 1] ELSE full[k]]
  <1>1. /\ c \in Nat /\ c # 0 /\ c \in 1..c /\ arrays \in Seq(Seq(S)) /\ full \in Seq(S) /\ Len(full) \in Nat
        /\ handled \in Nat /\ handled <= Len(full) /\ \A k \in 1..handled : full[k] \in HookNames
        /\ DOMAIN full = 1..Len(full) /\ \A k \in 1..Len(full) : full[k] \in S
    BY DEF HandlerTyped, Holds
  <1>2. arrays' = [arrays EXCEPT ![c] = shifted] /\ handled' = handled - 1 /\ UNCHANGED handlerRuns
    BY DEF HandlerRemoveHook, Current
  <1> HIDE DEF full
  <1>3. /\ shifted \in [1..Len(full) -> S]
        /\ \A k \in 1..Len(full) : full[k] \in HookNames => shifted[k] \in HookNames
    <2>1. ASSUME NEW k \in 1..Len(full), i <= k, k < handled
          PROVE  full[k + 1] \in HookNames
      <3>1. k + 1 \in 1..handled
        BY <1>1, <2>1
      <3> QED
        BY <1>1, <3>1
    <2> QED
      BY <1>1, <2>1
  <1>4. shifted \in Seq(S) /\ Len(shifted) = Len(full)
    <2>1. Len(full) \in Nat /\ DOMAIN full = 1..Len(full)
      BY <1>1
    <2>2. \A k \in 1..Len(full) : (IF i <= k /\ k < handled THEN full[k + 1] ELSE full[k]) \in S
      BY <1>3
    <2> HIDE DEF S
    <2> QED
      BY <2>1, <2>2
  <1> HIDE DEF shifted
  <1>5. /\ arrays' \in Seq(Seq(S)) /\ Len(arrays') = c /\ arrays'[c] = shifted
        /\ \A a \in 1..c : a # c => arrays'[a] = arrays[a]
    BY <1>1, <1>2, <1>4
  <1>6. ASSUME NEW a \in 1..c
        PROVE  /\ Len(arrays'[a]) = Len(arrays[a])
               /\ \A k \in 1..Len(arrays[a]) :
                      arrays[a][k] \in HookNames => arrays'[a][k] \in HookNames
    <2>1. CASE a = c
      BY <1>3, <1>4, <1>5, <2>1 DEF full
    <2>2. CASE a # c
      BY <1>5, <2>2
    <2> QED
      BY <2>1, <2>2
  <1>7. handled' \in Nat /\ Holds(arrays'[Len(arrays')], handled')
    <2>1. handled' \in Nat /\ handled' <= Len(full) /\ \A k \in 1..handled' : k \in 1..handled /\ k \in 1..Len(full)
      BY <1>1, <1>2
    <2> QED
      BY <1>1, <1>3, <1>4, <1>5, <2>1 DEF Holds
  <1>8. UNCHANGED handlerRuns
    BY <1>2
  <1>9. Len(arrays) <= Len(arrays')
    <2>1. c <= c
      BY <1>1
    <2> QED
      BY <1>5, <2>1
  <1> QED
    BY <1>5, <1>6, <1>7, <1>8, <1>9, ArraysStay

LEMMA HandlerRunKeeps ==
  ASSUME HandlerTyped, NEW e \in Executors,
         HandlerExecutePhase(e) \/ HandlerRunsHook(e) \/ HandlerPhaseEnds(e)
  PROVE  HandlerTyped'
  <1> DEFINE run == handlerRuns[e]
  <1>1. /\ Len(arrays) \in Nat /\ Len(arrays) # 0
        /\ run \in HandlerRun /\ run.array \in Nat /\ run.length \in Nat /\ run.index \in Nat
        /\ run.ran \in Seq(HookNames) /\ run.array <= Len(arrays)
        /\ run.length # 0 => run.array # 0 /\ Holds(arrays[run.array], run.length)
    BY DEF HandlerTyped, HandlerRun
  <1>2. ASSUME NEW after \in HandlerRun, handlerRuns' = [handlerRuns EXCEPT ![e] = after],
               after.array <= Len(arrays),
               after.length # 0 => after.array # 0 /\ Holds(arrays[after.array], after.length),
               UNCHANGED <<arrays, handled>>
        PROVE  HandlerTyped'
    BY <1>2 DEF HandlerTyped, Holds
  <1> HIDE DEF run
  <1>3. CASE HandlerExecutePhase(e)
    <2> DEFINE after == [array |-> Len(arrays), length |-> handled, index |-> 0, ran |-> <<>>]
    <2>1. after \in HandlerRun /\ after.array = Len(arrays) /\ after.length = handled
      BY <1>1 DEF HandlerRun, HandlerTyped
    <2>2. handlerRuns' = [handlerRuns EXCEPT ![e] = after] /\ UNCHANGED <<arrays, handled>>
      BY <1>3 DEF HandlerExecutePhase, Current
    <2>3. Holds(arrays[Len(arrays)], handled)
      BY DEF HandlerTyped
    <2> HIDE DEF after
    <2>4. after.array <= Len(arrays) /\ after.array # 0
      BY <1>1, <2>1
    <2>5. Holds(arrays[after.array], after.length)
      BY <2>1, <2>3
    <2> QED
      BY <1>2, <2>1, <2>2, <2>4, <2>5
  <1>4. CASE HandlerRunsHook(e)
    <2> DEFINE hook == arrays[run.array][run.index + 1]
               moved == [run EXCEPT !.index = run.index + 1]
               after == [moved EXCEPT !.ran = Append(run.ran, hook)]
    <2>1. run.index < run.length /\ handlerRuns' = [handlerRuns EXCEPT ![e] = after] /\ UNCHANGED <<arrays, handled>>
      BY <1>4 DEF HandlerRunsHook, run
    <2>2. hook \in HookNames
      <3>1. run.index + 1 \in 1..run.length
        BY <1>1, <2>1
      <3> QED
        BY <1>1, <2>1, <3>1 DEF Holds
    <2> HIDE DEF hook
    <2>3. moved \in HandlerRun /\ moved.array = run.array /\ moved.length = run.length
      BY <1>1 DEF HandlerRun
    <2> HIDE DEF moved
    <2>4. Append(run.ran, hook) \in Seq(HookNames)
      BY <1>1, <2>2
    <2>5. after \in HandlerRun /\ after.array = run.array /\ after.length = run.length
      BY <2>3, <2>4 DEF HandlerRun
    <2> HIDE DEF after
    <2>6. /\ after.array <= Len(arrays)
          /\ after.length # 0 => after.array # 0 /\ Holds(arrays[after.array], after.length)
      BY <1>1, <2>5
    <2> QED
      BY <1>2, <2>1, <2>5, <2>6
  <1>5. CASE HandlerPhaseEnds(e)
    <2>1. NotLooping \in HandlerRun /\ NotLooping.array = 0 /\ NotLooping.length = 0
      BY DEF NotLooping, HandlerRun
    <2>2. handlerRuns' = [handlerRuns EXCEPT ![e] = NotLooping] /\ UNCHANGED <<arrays, handled>>
      BY <1>5 DEF HandlerPhaseEnds
    <2>3. NotLooping.array <= Len(arrays)
      BY <1>1, <2>1
    <2> QED
      BY <1>2, <2>1, <2>2, <2>3
  <1> QED
    BY <1>3, <1>4, <1>5

LEMMA HooksTypedStep ==
  ASSUME ManagerInv, ManagerTyped, HandlerTyped, [HooksNext]_hookVars
  PROVE  ManagerTyped' /\ HandlerTyped'
  <1>1. ASSUME UNCHANGED <<added, managerRuns, overdue>> PROVE ManagerTyped'
    BY <1>1 DEF ManagerTyped
  <1>2. ASSUME UNCHANGED handlerVars PROVE HandlerTyped'
    BY <1>2 DEF HandlerTyped, handlerVars, Holds
  <1>3. ASSUME NEW owner \in {"manager", "handler"}, NEW h \in HookNames, AddOnce(owner, h),
               UNCHANGED <<managerRuns, overdue>>
        PROVE  ManagerTyped'
    <2>1. added' \in [{"manager", "handler"} -> SUBSET HookNames]
      BY <1>3 DEF AddOnce, ManagerTyped
    <2> QED
      BY <1>3, <2>1 DEF ManagerTyped
  <1>4. CASE UNCHANGED hookVars
    BY <1>1, <1>2, <1>4 DEF hookVars, handlerVars
  <1>5. ASSUME NEW h \in HookNames, ManagerAddHook(h) PROVE ManagerTyped' /\ HandlerTyped'
    BY <1>2, <1>3, <1>5 DEF ManagerAddHook
  <1>6. ASSUME NEW h \in HookNames, HandlerAddHook(h) PROVE ManagerTyped' /\ HandlerTyped'
    BY <1>3, <1>6, HandlerAddKeeps DEF HandlerAddHook, managerVars
  <1>7. ASSUME NEW h \in HookNames, OverdueReturns(h) PROVE ManagerTyped' /\ HandlerTyped'
    <2>1. ManagerTyped'
      BY <1>7 DEF OverdueReturns, ManagerTyped
    <2> QED
      BY <1>2, <1>7, <2>1 DEF OverdueReturns
  <1>8. CASE (\E i \in 1..Len(managed) : ManagerRemoveHook(i)) \/ ManagerClearHooks
    BY <1>1, <1>2, <1>8 DEF ManagerRemoveHook, ManagerClearHooks
  <1>9. ASSUME NEW i \in 1..handled, HandlerRemoveHook(i) PROVE ManagerTyped' /\ HandlerTyped'
    BY <1>1, <1>9, HandlerRemoveKeeps DEF HandlerRemoveHook, managerVars
  <1>10. ASSUME NEW e \in Executors,
                \/ ManagerExecutePhase(e) \/ ExecuteHook(e) \/ HookEnds(e) \/ ManagerPhaseEnds(e)
         PROVE  ManagerTyped' /\ HandlerTyped'
    <2>1. ManagerTyped'
      BY <1>10, ManagerTypedStep DEF ManagerInv
    <2> QED
      BY <1>2, <1>10, <2>1 DEF ManagerExecutePhase, ExecuteHook, HookEnds, ManagerPhaseEnds
  <1>11. ASSUME NEW e \in Executors,
                HandlerExecutePhase(e) \/ HandlerRunsHook(e) \/ HandlerPhaseEnds(e)
         PROVE  ManagerTyped' /\ HandlerTyped'
    <2>1. HandlerTyped'
      BY <1>11, HandlerRunKeeps
    <2> QED
      BY <1>1, <1>11, <2>1 DEF HandlerExecutePhase, HandlerRunsHook, HandlerPhaseEnds, managerVars
  <1> QED
    BY <1>4, <1>5, <1>6, <1>7, <1>8, <1>9, <1>10, <1>11 DEF HooksNext

LEMMA HooksAlwaysTyped == HooksSpec => []HooksTypeOK
  <1>1. HooksInit => ManagerTyped /\ HandlerTyped
    <2> SUFFICES ASSUME HooksInit PROVE ManagerTyped /\ HandlerTyped
      OBVIOUS
    <2>1. ManagerTyped
      <3>1. NotRunning \in ManagerRun /\ NotRunning.started = 0 /\ NotRunning.ended = 0 /\ Len(NotRunning.copy) = 0
        BY DEF NotRunning, ManagerRun
      <3> QED
        BY <3>1 DEF HooksInit, ManagerTyped
    <2>2. HandlerTyped
      <3>1. NotLooping \in HandlerRun /\ NotLooping.array = 0 /\ NotLooping.length = 0
        BY DEF NotLooping, HandlerRun
      <3>2. arrays = << <<>> >> /\ Len(arrays) = 1 /\ arrays[1] = <<>> /\ handled = 0
        BY DEF HooksInit
      <3>3. <<>> \in Seq(HookNames \cup {NoHook}) /\ arrays \in Seq(Seq(HookNames \cup {NoHook})) /\ arrays # <<>>
        BY <3>2
      <3>4. Holds(arrays[Len(arrays)], handled)
        BY <3>2 DEF Holds
      <3> QED
        BY <3>1, <3>2, <3>3, <3>4 DEF HooksInit, HandlerTyped
    <2> QED
      BY <2>1, <2>2
  <1>2. ManagerInv /\ ManagerTyped /\ HandlerTyped /\ [HooksNext]_hookVars
        => ManagerTyped' /\ HandlerTyped'
    BY HooksTypedStep
  <1>3. ManagerInv /\ ManagerTyped /\ HandlerTyped => HooksTypeOK
    <2> SUFFICES ASSUME ManagerInv, ManagerTyped, HandlerTyped PROVE HooksTypeOK
      OBVIOUS
    <2>1. Len(arrays) \in Nat /\ Len(arrays) # 0
      BY DEF HandlerTyped
    <2>2. Len(arrays[Len(arrays)]) \in Nat
      BY <2>1 DEF HandlerTyped
    <2>3. handled \in 0..Len(arrays[Len(arrays)])
      BY <2>2 DEF HandlerTyped, Holds
    <2>4. ASSUME NEW e \in Executors
          PROVE  handlerRuns[e] \in [array : 0..Len(arrays), length : Nat, index : Nat, ran : Seq(HookNames)]
      <3>1. handlerRuns[e] \in HandlerRun /\ handlerRuns[e].array <= Len(arrays)
        BY DEF HandlerTyped
      <3> QED
        BY <2>1, <3>1 DEF HandlerRun
    <2>5. ASSUME NEW e \in Executors
          PROVE  /\ managerRuns[e] \in [copy : Seq(HookNames), started : Nat, ended : Nat]
                 /\ managerRuns[e].started <= Len(managerRuns[e].copy)
                 /\ managerRuns[e].ended \in {managerRuns[e].started, managerRuns[e].started - 1}
      BY DEF ManagerTyped, ManagerRun
    <2>6. /\ added \in [{"manager", "handler"} -> SUBSET HookNames] /\ overdue \subseteq HookNames
          /\ managed \in Seq(HookNames) /\ arrays \in Seq(Seq(HookNames \cup {NoHook}))
      BY DEF ManagerTyped, ManagerInv, HandlerTyped
    <2> QED
      BY <2>3, <2>4, <2>5, <2>6 DEF HooksTypeOK
  <1> QED
    BY <1>1, <1>2, <1>3, ManagerAlwaysRight, PTL DEF HooksSpec


-------------------------------------------------------------------------------
(* The reporting together.  A step of it is, for each system, one of its steps or none.      *)
LinkedStatusNext == \/ StatusNext /\ UNCHANGED linkVars
                    \/ LinkNext /\ UNCHANGED statusVars
LinkedBatcherNext == \/ BatcherNext /\ UNCHANGED linkVars
                     \/ LinkNext /\ UNCHANGED batcherVars

LEMMA LinkedSteps ==
  Next => /\ LinkedStatusNext \/ UNCHANGED <<linkVars, statusVars>>
          /\ LinkedBatcherNext \/ UNCHANGED <<linkVars, batcherVars>>
  <1> SUFFICES ASSUME Next
               PROVE  /\ LinkedStatusNext \/ UNCHANGED <<linkVars, statusVars>>
                      /\ LinkedBatcherNext \/ UNCHANGED <<linkVars, batcherVars>>
    OBVIOUS
  <1>1. CASE system = "statuses" /\ StatusNext /\ UNCHANGED linkVars /\ OthersRest
    BY <1>1 DEF OthersRest, LinkedStatusNext
  <1>2. CASE system = "load" /\ BatcherNext /\ UNCHANGED linkVars /\ OthersRest
    BY <1>2 DEF OthersRest, LinkedBatcherNext
  <1>3. CASE system \in {"statuses", "load"} /\ LinkNext /\ UNCHANGED <<statusVars, batcherVars>> /\ OthersRest
    BY <1>3 DEF LinkedStatusNext, LinkedBatcherNext
  <1>4. CASE system \notin {"statuses", "load"} /\ OthersRest
    BY <1>4 DEF OthersRest
  <1> QED
    BY <1>1, <1>2, <1>3, <1>4 DEF Next

LEMMA GuardedSteps ==
  Next => /\ NetworkNext \/ UNCHANGED networkVars
          /\ RaceNext \/ UNCHANGED raceVars
          /\ RecoveryNext \/ UNCHANGED recoveryVars
          /\ MonitorNext \/ UNCHANGED monitorVars
          /\ LimiterNext \/ UNCHANGED limiterVars
          /\ TimingNext \/ UNCHANGED timingVars
          /\ HooksNext \/ UNCHANGED hookVars
          /\ ProtocolNext \/ UNCHANGED protocolVars
          /\ LoadCalculationNext \/ UNCHANGED loadVars
          /\ ShutdownNext \/ UNCHANGED shutdownVars
          /\ ResumptionNext \/ UNCHANGED resumptionVars
  <1>1. Next => NetworkNext \/ UNCHANGED networkVars
    <2>1. OthersRest /\ ~NetworkNext /\ Next => UNCHANGED networkVars
      BY DEF Next, OthersRest, writeVars, dnsVars, netMonitorVars, networkVars
    <2>2. Next => OthersRest
      BY DEF Next
    <2> QED
      BY <2>1, <2>2
  <1>2. Next => RaceNext \/ UNCHANGED raceVars
    BY DEF Next, OthersRest
  <1>3. Next => RecoveryNext \/ UNCHANGED recoveryVars
    BY DEF Next, OthersRest
  <1>4. Next => MonitorNext \/ UNCHANGED monitorVars
    <2>1. OthersRest /\ ~MonitorNext /\ Next => UNCHANGED monitorVars
      BY DEF Next, OthersRest, graphVars, memoryVars, goroutineVars, monitorVars
    <2>2. Next => OthersRest
      BY DEF Next
    <2> QED
      BY <2>1, <2>2
  <1>5. Next => LimiterNext \/ UNCHANGED limiterVars
    BY DEF Next, OthersRest
  <1>6. Next => TimingNext \/ UNCHANGED timingVars
    <2>1. OthersRest /\ ~TimingNext /\ Next => UNCHANGED timingVars
      BY DEF Next, OthersRest, skewVars, rateVars, timingVars
    <2>2. Next => OthersRest
      BY DEF Next
    <2> QED
      BY <2>1, <2>2
  <1>7. Next => HooksNext \/ UNCHANGED hookVars
    <2>1. OthersRest /\ ~HooksNext /\ Next => UNCHANGED hookVars
      BY DEF Next, OthersRest, managerVars, handlerVars, hookVars
    <2>2. Next => OthersRest
      BY DEF Next
    <2> QED
      BY <2>1, <2>2
  <1>8. Next => ProtocolNext \/ UNCHANGED protocolVars
    BY DEF Next, OthersRest
  <1>9. Next => LoadCalculationNext \/ UNCHANGED loadVars
    BY DEF Next, OthersRest
  <1>10. Next => ShutdownNext \/ UNCHANGED shutdownVars
    BY DEF Next, OthersRest
  <1>11. Next => ResumptionNext \/ UNCHANGED resumptionVars
    BY DEF Next, OthersRest
  <1> QED
    BY <1>1, <1>2, <1>3, <1>4, <1>5, <1>6, <1>7, <1>8, <1>9, <1>10, <1>11

LEMMA ReportingSteps ==
  [Next]_vars =>
    /\ [LinkedStatusNext]_<<linkVars, statusVars>> /\ [LinkedBatcherNext]_<<linkVars, batcherVars>>
    /\ [NetworkNext]_networkVars /\ [RaceNext]_raceVars /\ [RecoveryNext]_recoveryVars
    /\ [MonitorNext]_monitorVars /\ [LimiterNext]_limiterVars /\ [TimingNext]_timingVars
    /\ [HooksNext]_hookVars /\ [ProtocolNext]_protocolVars /\ [LoadCalculationNext]_loadVars
    /\ [ShutdownNext]_shutdownVars /\ [ResumptionNext]_resumptionVars
  <1>1. CASE UNCHANGED vars
    <2>1. /\ UNCHANGED <<linkVars, statusVars, batcherVars, networkVars, raceVars, recoveryVars>>
          /\ UNCHANGED <<monitorVars, limiterVars, timingVars, hookVars, protocolVars>>
          /\ UNCHANGED <<loadVars, shutdownVars, resumptionVars>>
      BY <1>1 DEF vars
    <2> QED
      BY <2>1
  <1>2. CASE Next
    BY <1>2, LinkedSteps, GuardedSteps
  <1> QED
    BY <1>1, <1>2

LEMMA TimingTyped == RateInv /\ DeadlinesInv => TimingTypeOK
  BY DEF RateInv, DeadlinesInv, TimingTypeOK

\* All that is kept of what a worker reports and of the objects that guard it, of which one
\* runs and the others rest, for any numbers of updates, loads, messages, jobs, calls, samples,
\* hooks, callers and fragments: the invariants of all of them hold together.
THEOREM ReportingCorrect == FairSpec => []ReportingOK
  <1>1. /\ Init => LinkInit /\ StatusInit /\ BatcherInit /\ NetworkInit /\ RaceInit
        /\ Init => RecoveryInit /\ MonitorInit /\ LimiterInit /\ TimingInit /\ HooksInit
        /\ Init => ProtocolInit /\ LoadInit /\ ShutdownInit /\ ResumptionInit
    BY DEF Init
  <1>2. [Next]_vars =>
          /\ [LinkedStatusNext]_<<linkVars, statusVars>> /\ [LinkedBatcherNext]_<<linkVars, batcherVars>>
          /\ [NetworkNext]_networkVars /\ [RaceNext]_raceVars /\ [RecoveryNext]_recoveryVars
          /\ [MonitorNext]_monitorVars /\ [LimiterNext]_limiterVars /\ [TimingNext]_timingVars
          /\ [HooksNext]_hookVars /\ [ProtocolNext]_protocolVars /\ [LoadCalculationNext]_loadVars
          /\ [ShutdownNext]_shutdownVars /\ [ResumptionNext]_resumptionVars
    BY ReportingSteps
  <1>3. LimiterSpec => []ProcsRestored
    BY ProcsAlwaysRestored
  <1>4. FairSpec => []StatusTypeOK
    BY <1>1, <1>2, StatusAlwaysTyped, PTL DEF FairSpec, StatusSpec, LinkedStatusNext
  <1>5. FairSpec => []BatcherTypeOK
    BY <1>1, <1>2, BatcherAlwaysTyped, PTL DEF FairSpec, BatcherSpec, LinkedBatcherNext
  <1>6. FairSpec => [](NetworkTypeOK /\ NoCallbackAfterStop)
    BY <1>1, <1>2, NeverCalledAfterStop, PTL DEF FairSpec, NetworkSpec
  <1>7. FairSpec => []RaceTypeOK
    BY <1>1, <1>2, RaceAlwaysTyped, PTL DEF FairSpec, RaceSpec
  <1>8. FairSpec => []RecoveryInv
    BY <1>1, <1>2, RecoveryAlways, PTL DEF FairSpec, RecoverySpec
  <1>9. FairSpec => [](MonitorTypeOK /\ OutOfMemoryNoticed)
    BY <1>1, <1>2, MonitorAlwaysNotices, PTL DEF FairSpec, MonitorSpec
  <1>10. FairSpec => []LimiterTypeOK /\ []ProcsRestored
    BY <1>1, <1>2, LimiterAlwaysTyped, <1>3, PTL DEF FairSpec, LimiterSpec
  <1>11. FairSpec => [](RateInv /\ RateIsExact) /\ []DeadlinesInv
    BY <1>1, <1>2, RateAlwaysOfAll, DeadlinesAlways, PTL DEF FairSpec, TimingSpec
  <1>12. FairSpec => []HooksTypeOK /\ []LowerNumbersFirst
    BY <1>1, <1>2, HooksAlwaysTyped, LowerNumbersAlwaysFirst, PTL DEF FairSpec, HooksSpec
  <1>13. FairSpec => [](ProtocolTypeOK /\ UnknownCountsAgree)
    BY <1>1, <1>2, CountsAlwaysAgree, PTL DEF FairSpec, ProtocolSpec
  <1>14. FairSpec => [](LoadTypeOK /\ PredictionFollowsTrend /\ LoadInRange)
    BY <1>1, <1>2, LoadAlwaysRight, PTL DEF FairSpec, LoadCalculationSpec
  <1>15. FairSpec => [](ShutdownTypeOK /\ ReturnsWhenStopped /\ ToldTwiceAtMost)
    BY <1>1, <1>2, ShutdownCorrect, PTL DEF FairSpec, ShutdownSpec
  <1>16. FairSpec => [](ResumptionTypeOK /\ PartsInOrder /\ CopiesAreStates)
    BY <1>1, <1>2, ResumptionCorrect, PTL DEF FairSpec, ResumptionSpec
  <1>17. /\ StatusTypeOK /\ BatcherTypeOK /\ NetworkTypeOK /\ NoCallbackAfterStop /\ RaceTypeOK
         /\ RecoveryInv /\ MonitorTypeOK /\ OutOfMemoryNoticed /\ LimiterTypeOK /\ ProcsRestored
         /\ RateInv /\ RateIsExact /\ DeadlinesInv /\ HooksTypeOK /\ LowerNumbersFirst
         /\ ProtocolTypeOK /\ UnknownCountsAgree
         /\ LoadTypeOK /\ PredictionFollowsTrend /\ LoadInRange
         /\ ShutdownTypeOK /\ ReturnsWhenStopped /\ ToldTwiceAtMost
         /\ ResumptionTypeOK /\ PartsInOrder /\ CopiesAreStates
         => ReportingOK
    <2>1. RecoveryInv => RecoveryTypeOK
      BY DEF RecoveryInv
    <2>2. DeadlinesInv => DeadlinesMoveWithOffset
      BY DEF DeadlinesInv
    <2> QED
      BY <2>1, <2>2, TimingTyped, URLSettles DEF ReportingOK
  <1> QED
    BY <1>4, <1>5, <1>6, <1>7, <1>8, <1>9, <1>10, <1>11, <1>12, <1>13, <1>14, <1>15, <1>16, <1>17, PTL

-------------------------------------------------------------------------------
(* The graph of dependencies.  The nodes a node leads to are the least set with its   *)
(* neighbours and the neighbours of its members.                                      *)

Graph == [Nodes -> Seq(Nodes)]

ClosedUnder(G, C) == \A y \in C : ToSet(G[y]) \subseteq C

LeadsTo(G, n) ==
    {x \in Nodes : \A C \in SUBSET Nodes : ToSet(G[n]) \subseteq C /\ ClosedUnder(G, C) => x \in C}

Cyclic(G) == \E n \in Nodes : n \in LeadsTo(G, n)

LEMMA NeighborsAreNodes ==
  ASSUME NEW G \in Graph, NEW n \in Nodes
  PROVE  /\ ToSet(G[n]) \subseteq Nodes
         /\ Len(G[n]) \in Nat
         /\ \A j \in 1..Len(G[n]) : G[n][j] \in Nodes /\ G[n][j] \in ToSet(G[n])
         /\ \A x \in ToSet(G[n]) : \E j \in 1..Len(G[n]) : x = G[n][j]
  <1>1. G[n] \in Seq(Nodes)
    BY DEF Graph
  <1> QED
    BY <1>1 DEF ToSet

LEMMA LeadsToLeast ==
  ASSUME NEW G \in Graph, NEW n \in Nodes
  PROVE  /\ LeadsTo(G, n) \in SUBSET Nodes
         /\ ToSet(G[n]) \subseteq LeadsTo(G, n) /\ ClosedUnder(G, LeadsTo(G, n))
         /\ \A C \in SUBSET Nodes :
                ToSet(G[n]) \subseteq C /\ ClosedUnder(G, C) => LeadsTo(G, n) \subseteq C
  <1>1. ToSet(G[n]) \subseteq LeadsTo(G, n)
    BY NeighborsAreNodes DEF LeadsTo
  <1>2. ASSUME NEW y \in LeadsTo(G, n), NEW x \in ToSet(G[y])
        PROVE  x \in LeadsTo(G, n)
    <2>1. y \in Nodes
      BY DEF LeadsTo
    <2>2. x \in Nodes
      BY <2>1, NeighborsAreNodes
    <2>3. ASSUME NEW C \in SUBSET Nodes, ToSet(G[n]) \subseteq C, ClosedUnder(G, C)
          PROVE  x \in C
      <3>1. y \in C
        BY <2>3 DEF LeadsTo
      <3> QED
        BY <2>3, <3>1 DEF ClosedUnder
    <2> QED
      BY <2>2, <2>3 DEF LeadsTo
  <1>3. ClosedUnder(G, LeadsTo(G, n))
    BY <1>2 DEF ClosedUnder
  <1>4. LeadsTo(G, n) \in SUBSET Nodes
    BY DEF LeadsTo
  <1>5. ASSUME NEW C \in SUBSET Nodes, ToSet(G[n]) \subseteq C, ClosedUnder(G, C)
        PROVE  LeadsTo(G, n) \subseteq C
    BY <1>5 DEF LeadsTo
  <1> QED
    BY <1>1, <1>3, <1>4, <1>5

\* An edge more.
WithEdge(G, from, to) == [G EXCEPT ![from] = Append(@, to)]

OneEdgeMore(G, from, to, H) ==
    /\ H \in Graph
    /\ ToSet(H[from]) = ToSet(G[from]) \cup {to} /\ Len(H[from]) = Len(G[from]) + 1
    /\ \A n \in Nodes : n # from => H[n] = G[n]

LEMMA EdgeAdded ==
  ASSUME NEW G \in Graph, NEW from \in Nodes, NEW to \in Nodes, NEW H,
         H = WithEdge(G, from, to)
  PROVE  OneEdgeMore(G, from, to, H)
  <1>1. G[from] \in Seq(Nodes)
    BY DEF Graph
  <1>2. PICK s : s = Append(G[from], to)
    OBVIOUS
  <1>3. s \in Seq(Nodes) /\ Len(s) = Len(G[from]) + 1
    BY <1>1, <1>2
  <1>4. ToSet(s) = ToSet(G[from]) \cup {to}
    BY <1>1, <1>2 DEF ToSet
  <1>5. H = [G EXCEPT ![from] = s]
    BY <1>2 DEF WithEdge
  <1>6. H \in Graph /\ H[from] = s /\ \A n \in Nodes : n # from => H[n] = G[n]
    BY <1>3, <1>5 DEF Graph
  <1> QED
    BY <1>3, <1>4, <1>6 DEF OneEdgeMore

\* A cycle stays, and if there was none a cycle leads through the node the edge starts from.
LEMMA CycleOfNewEdge ==
  ASSUME NEW G \in Graph, NEW from \in Nodes, NEW to \in Nodes, NEW H,
         H = WithEdge(G, from, to)
  PROVE  /\ Cyclic(G) => Cyclic(H)
         /\ Cyclic(H) /\ ~Cyclic(G) => from \in LeadsTo(H, from)
  <1>1. /\ H \in Graph /\ ToSet(G[from]) \subseteq ToSet(H[from])
        /\ \A n \in Nodes : n # from => H[n] = G[n]
    <2>1. OneEdgeMore(G, from, to, H)
      BY EdgeAdded
    <2> QED
      BY <2>1 DEF OneEdgeMore
  <1>2. \A n \in Nodes : ToSet(G[n]) \subseteq ToSet(H[n])
    BY <1>1
  <1>3. ASSUME NEW n \in Nodes PROVE LeadsTo(G, n) \subseteq LeadsTo(H, n)
    <2>1. PICK C : C = LeadsTo(H, n)
      OBVIOUS
    <2>2. C \in SUBSET Nodes /\ ToSet(H[n]) \subseteq C /\ ClosedUnder(H, C)
      BY <1>1, <2>1, LeadsToLeast
    <2>3. ToSet(G[n]) \subseteq C /\ ClosedUnder(G, C)
      BY <1>2, <2>2 DEF ClosedUnder
    <2> QED
      BY <2>1, <2>2, <2>3, LeadsToLeast
  <1>4. ASSUME Cyclic(G) PROVE Cyclic(H)
    BY <1>3, <1>4 DEF Cyclic
  <1>5. ASSUME Cyclic(H), ~Cyclic(G), from \notin LeadsTo(H, from)
        PROVE  FALSE
    <2>1. PICK n \in Nodes : n \in LeadsTo(H, n)
      BY <1>5 DEF Cyclic
    <2>2. n # from /\ n \notin LeadsTo(G, n)
      BY <1>5, <2>1 DEF Cyclic
    <2>3. PICK A, F : A = LeadsTo(G, n) /\ F = LeadsTo(H, from)
      OBVIOUS
    <2>4. A \in SUBSET Nodes /\ ToSet(G[n]) \subseteq A /\ ClosedUnder(G, A)
      BY <2>3, LeadsToLeast
    <2>5. F \in SUBSET Nodes /\ ToSet(H[from]) \subseteq F /\ ClosedUnder(H, F)
      BY <1>1, <2>3, LeadsToLeast
    <2>6. CASE from \in A
      <3>1. ClosedUnder(H, A \cup F)
        <4>1. ASSUME NEW y \in A \cup F PROVE ToSet(H[y]) \subseteq A \cup F
          <5>1. CASE y \in F
            BY <2>5, <5>1 DEF ClosedUnder
          <5>2. CASE y = from
            BY <2>5, <5>2
          <5>3. CASE y \in A /\ y # from
            <6>1. H[y] = G[y]
              BY <1>1, <2>4, <5>3
            <6> QED
              BY <2>4, <5>3, <6>1 DEF ClosedUnder
          <5> QED
            BY <5>1, <5>2, <5>3
        <4> QED
          BY <4>1 DEF ClosedUnder
      <3>2. ToSet(H[n]) \subseteq A \cup F /\ A \cup F \in SUBSET Nodes
        BY <1>1, <2>2, <2>4, <2>5
      <3>3. LeadsTo(H, n) \subseteq A \cup F
        BY <1>1, <3>1, <3>2, LeadsToLeast
      <3>4. n \in F
        BY <2>1, <2>2, <2>3, <3>3
      <3>5. LeadsTo(H, n) \subseteq F
        <4>1. ToSet(H[n]) \subseteq F
          BY <2>5, <3>4 DEF ClosedUnder
        <4> QED
          BY <1>1, <2>5, <4>1, LeadsToLeast
      <3>6. A \subseteq LeadsTo(H, n)
        BY <1>3, <2>3
      <3> QED
        BY <1>5, <2>3, <2>6, <3>5, <3>6
    <2>7. CASE from \notin A
      <3>1. ClosedUnder(H, A)
        BY <1>1, <2>4, <2>7 DEF ClosedUnder
      <3>2. ToSet(H[n]) \subseteq A
        BY <1>1, <2>2, <2>4
      <3>3. LeadsTo(H, n) \subseteq A
        BY <1>1, <2>4, <3>1, <3>2, LeadsToLeast
      <3> QED
        BY <2>1, <2>2, <2>3, <3>3
    <2> QED
      BY <2>6, <2>7
  <1> QED
    BY <1>4, <1>5

\* What Reached computes: at most as many steps as there are nodes that an edge leads to.
Targets(G) == UNION {ToSet(G[n]) : n \in Nodes}

StepFrom(G, n, s) == ToSet(G[n]) \cup UNION {ToSet(G[m]) : m \in s}

LEMMA StepsLeadEverywhere ==
  ASSUME NEW G \in Graph, NEW n \in Nodes, NEW N \in Nat, NEW step,
         IsFiniteSet(Targets(G)), Cardinality(Targets(G)) <= N,
         step[0] = {}, \A k \in 1..N : step[k] = StepFrom(G, n, step[k - 1])
  PROVE  step[N] = LeadsTo(G, n)
  <1>1. PICK L, T : L = LeadsTo(G, n) /\ T = Targets(G)
    OBVIOUS
  <1>2. L \in SUBSET Nodes /\ ToSet(G[n]) \subseteq L /\ ClosedUnder(G, L)
    BY <1>1, LeadsToLeast
  <1>3. \A s \in SUBSET Nodes : StepFrom(G, n, s) \subseteq s => L \subseteq s
    <2>1. ASSUME NEW s \in SUBSET Nodes, StepFrom(G, n, s) \subseteq s PROVE L \subseteq s
      <3>1. ToSet(G[n]) \subseteq s /\ ClosedUnder(G, s)
        BY <2>1 DEF StepFrom, ClosedUnder
      <3> QED
        BY <1>1, <3>1, LeadsToLeast
    <2> QED
      BY <2>1
  <1>4. \A s \in SUBSET L : StepFrom(G, n, s) \subseteq L
    BY <1>2 DEF StepFrom, ClosedUnder
  <1>5. T \in SUBSET Nodes /\ \A s \in SUBSET Nodes : StepFrom(G, n, s) \subseteq T
    <2>1. \A m \in Nodes : ToSet(G[m]) \subseteq Nodes /\ ToSet(G[m]) \subseteq T
      BY <1>1, NeighborsAreNodes DEF Targets
    <2> QED
      BY <1>1, <2>1 DEF StepFrom, Targets
  <1>6. \A s, t \in SUBSET Nodes : s \subseteq t => StepFrom(G, n, s) \subseteq StepFrom(G, n, t)
    BY DEF StepFrom
  <1>7. IsFiniteSet(T) /\ Cardinality(T) <= N /\ Cardinality(T) \in Nat
    BY <1>1, FS_CardinalityType
  <1> DEFINE More(s, t) == s \in SUBSET T /\ s \subseteq L /\ s \subseteq t /\ t = StepFrom(G, n, s)
             K == {k \in Nat : k <= N =>
                     /\ step[k] \in SUBSET T /\ step[k] \subseteq L
                     /\ step[k] \subseteq StepFrom(G, n, step[k])
                     /\ StepFrom(G, n, step[k]) \subseteq step[k] \/ k <= Cardinality(step[k])}
  <1>8. 0 \in K
    <2>1. Cardinality({}) = 0
      BY FS_EmptySet
    <2> QED
      BY <2>1
  <1>9. ASSUME NEW k \in K PROVE k + 1 \in K
    <2>1. k \in Nat /\ k + 1 \in Nat
      OBVIOUS
    <2> SUFFICES ASSUME k + 1 <= N
                 PROVE  /\ step[k + 1] \in SUBSET T /\ step[k + 1] \subseteq L
                        /\ step[k + 1] \subseteq StepFrom(G, n, step[k + 1])
                        /\ \/ StepFrom(G, n, step[k + 1]) \subseteq step[k + 1]
                           \/ k + 1 <= Cardinality(step[k + 1])
      BY <2>1
    <2>2. /\ step[k] \in SUBSET T /\ step[k] \subseteq L /\ step[k] \subseteq StepFrom(G, n, step[k])
          /\ StepFrom(G, n, step[k]) \subseteq step[k] \/ k <= Cardinality(step[k])
      BY <2>1
    <2>3. step[k + 1] = StepFrom(G, n, step[k])
      <3>1. k + 1 \in 1..N /\ (k + 1) - 1 = k
        BY <2>1
      <3> QED
        BY <3>1
    <2> HIDE DEF K
    <2>4. PICK s, t : s = step[k] /\ t = step[k + 1]
      OBVIOUS
    <2>5. s \in SUBSET Nodes /\ t = StepFrom(G, n, s) /\ s \subseteq t /\ s \subseteq T
      BY <1>5, <2>2, <2>3, <2>4
    <2>6. t \in SUBSET T /\ t \in SUBSET Nodes /\ t \subseteq L
      BY <1>4, <1>5, <2>2, <2>4, <2>5
    <2>7. t \subseteq StepFrom(G, n, t)
      BY <1>6, <2>5, <2>6
    <2>8. CASE t \subseteq s
      <3>1. t = s
        BY <2>5, <2>8
      <3> QED
        BY <2>4, <2>5, <2>6, <3>1
    <2>9. CASE ~(t \subseteq s)
      <3>1. IsFiniteSet(s) /\ IsFiniteSet(t) /\ Cardinality(s) \in Nat /\ Cardinality(t) \in Nat
        BY <1>7, <2>5, <2>6, FS_Subset, FS_CardinalityType
      <3>2. Cardinality(s) < Cardinality(t)
        BY <2>5, <2>9, <3>1, FS_Subset
      <3>3. k <= Cardinality(s)
        BY <2>2, <2>3, <2>4, <2>9
      <3>4. k + 1 <= Cardinality(t)
        BY <2>1, <3>1, <3>2, <3>3
      <3> QED
        BY <2>4, <2>6, <2>7, <3>4
    <2> QED
      BY <2>8, <2>9
  <1>10. K = Nat
    <2> HIDE DEF K
    <2>1. K \subseteq Nat
      BY DEF K
    <2> QED
      BY <1>8, <1>9, <2>1, SetInduction
  <1>11. /\ step[N] \in SUBSET T /\ step[N] \subseteq L
         /\ StepFrom(G, n, step[N]) \subseteq step[N] \/ N <= Cardinality(step[N])
    <2>1. N \in K /\ N <= N
      BY <1>10
    <2> QED
      BY <2>1
  <1> HIDE DEF K
  <1>12. StepFrom(G, n, step[N]) \subseteq step[N]
    <2>1. CASE N <= Cardinality(step[N])
      <3>1. Cardinality(step[N]) <= Cardinality(T) /\ Cardinality(step[N]) \in Nat
        BY <1>7, <1>11, FS_Subset, FS_CardinalityType
      <3>2. Cardinality(step[N]) = Cardinality(T)
        BY <1>7, <2>1, <3>1
      <3>3. step[N] = T
        BY <1>7, <1>11, <3>2, FS_Subset
      <3> QED
        BY <1>5, <3>3
    <2> QED
      BY <1>11, <2>1
  <1> QED
    BY <1>1, <1>3, <1>5, <1>11, <1>12

LEMMA ReachedIsLeadsTo ==
  ASSUME dependencies \in Graph, IsFiniteSet(Targets(dependencies)),
         Cardinality(Targets(dependencies)) <= MaxDependencies, NEW n \in Nodes
  PROVE  Reached(n) = LeadsTo(dependencies, n)
  <1> DEFINE N == MaxDependencies
             Body(f) == [k \in 0..N |-> IF k = 0 THEN {} ELSE StepFrom(dependencies, n, f[k - 1])]
             step == CHOOSE f : f = Body(f)
             next == [p \in Nat \X SUBSET Nodes |-> StepFrom(dependencies, n, p[2])]
  <1>1. N \in Nat
    BY MonitorAssumption
  <1>2. Reached(n) = step[N]
    BY DEF Reached, StepFrom
  <1>3. \A s \in SUBSET Nodes : StepFrom(dependencies, n, s) \in SUBSET Nodes
    BY NeighborsAreNodes DEF StepFrom
  <1>4. next \in StepFunctions(SUBSET Nodes)
    BY <1>3 DEF StepFunctions
  <1>5. PICK f : Follows(f, SUBSET Nodes, {}, next, N)
    <2> HIDE DEF next, N
    <2> QED
      BY <1>1, <1>4, RecursionExists
  <1>6. f \in [0..N -> SUBSET Nodes] /\ f[0] = {} /\ \A k \in 1..N : f[k] = next[<<k, f[k - 1]>>]
    BY <1>5 DEF Follows
  <1>7. \A k \in 1..N : k - 1 \in 0..N /\ f[k] = StepFrom(dependencies, n, f[k - 1])
    <2>1. ASSUME NEW k \in 1..N
          PROVE  k - 1 \in 0..N /\ f[k] = StepFrom(dependencies, n, f[k - 1])
      <3>1. k - 1 \in 0..N /\ k \in Nat
        BY <1>1
      <3>2. <<k, f[k - 1]>> \in Nat \X SUBSET Nodes
        BY <1>6, <3>1
      <3> QED
        BY <1>6, <3>1, <3>2
    <2> QED
      BY <2>1
  <1> HIDE DEF next
  <1>8. f = Body(f)
    <2>1. ASSUME NEW k \in 0..N
          PROVE  f[k] = IF k = 0 THEN {} ELSE StepFrom(dependencies, n, f[k - 1])
      <3>1. k = 0 \/ k \in 1..N
        BY <1>1
      <3> QED
        BY <1>6, <1>7, <3>1
    <2> HIDE DEF N
    <2> QED
      BY <1>6, <2>1
  <1>9. step = Body(step)
    <2> HIDE DEF Body
    <2> QED
      BY <1>8
  <1> HIDE DEF step
  <1>10. step[0] = {} /\ \A k \in 1..N : step[k] = StepFrom(dependencies, n, step[k - 1])
    <2> HIDE DEF N
    <2>1. \A k \in 0..N : step[k] = IF k = 0 THEN {} ELSE StepFrom(dependencies, n, step[k - 1])
      BY <1>9
    <2>2. 0 \in 0..N /\ \A k \in 1..N : k \in 0..N /\ k # 0
      BY <1>1
    <2> QED
      BY <2>1, <2>2
  <1>11. step[N] = LeadsTo(dependencies, n)
    <2> HIDE DEF N
    <2>1. Cardinality(Targets(dependencies)) <= N
      BY DEF N
    <2> QED
      BY <1>1, <1>10, <2>1, StepsLeadEverywhere
  <1> QED
    BY <1>2, <1>11

-------------------------------------------------------------------------------
(* The depth-first search.  A search from a point ends: it visits a node more or has  *)
(* a neighbour less before it.                                                        *)

SearchStep(f, G, at) ==
    IF at.next > Len(G[at.node]) THEN [visited |-> at.visited, cycle |-> NoCycle]
    ELSE LET neighbor == G[at.node][at.next] IN
        IF neighbor \notin at.visited
        THEN LET below == f[SearchAt(neighbor, 1, at.visited \cup {neighbor},
                                     Append(at.path, neighbor))]
             IN  IF below.cycle # NoCycle THEN below
                 ELSE f[SearchAt(at.node, at.next + 1, below.visited, at.path)]
        ELSE IF OnStack(neighbor, at.path, at.visited)
        THEN LET first == IF neighbor \in ToSet(at.path)
                          THEN CHOOSE k \in 1..Len(at.path) : at.path[k] = neighbor ELSE 1
             IN  [visited |-> at.visited,
                  cycle |-> Append(SubSeq(at.path, first, Len(at.path)), neighbor)]
        ELSE f[SearchAt(at.node, at.next + 1, at.visited, at.path)]

IsSearch(f, G) == f = [at \in SearchPoint |-> SearchStep(f, G, at)]

SearchResult == [visited : SUBSET Nodes, cycle : Seq(Nodes)]

\* The points the search goes on from.
Deeper(G, at) == SearchAt(G[at.node][at.next], 1, at.visited \cup {G[at.node][at.next]},
                          Append(at.path, G[at.node][at.next]))
Later(at, visited) == SearchAt(at.node, at.next + 1, visited, at.path)

LEMMA SearchFields ==
  ASSUME NEW n, NEW k, NEW v, NEW p, NEW c, c = SearchAt(n, k, v, p)
  PROVE  c.node = n /\ c.next = k /\ c.visited = v /\ c.path = p
  BY DEF SearchAt

LEMMA PointMade ==
  ASSUME NEW n \in Nodes, NEW k \in Nat \ {0}, NEW v \in SUBSET Nodes, NEW p \in Seq(Nodes)
  PROVE  SearchAt(n, k, v, p) \in SearchPoint
  BY DEF SearchAt, SearchPoint

LEMMA LaterFields ==
  ASSUME NEW at, NEW v, NEW c, c = Later(at, v)
  PROVE  c.node = at.node /\ c.next = at.next + 1 /\ c.visited = v /\ c.path = at.path
  BY SearchFields DEF Later

LEMMA PointTypes ==
  ASSUME NEW at \in SearchPoint
  PROVE  /\ at.node \in Nodes /\ at.next \in Nat /\ at.next # 0
         /\ at.visited \in SUBSET Nodes /\ at.path \in Seq(Nodes)
  BY DEF SearchPoint

\* The four ways a search goes on.
Over(G, at) == at.next > Len(G[at.node])
Deepens(G, at) == ~Over(G, at) /\ G[at.node][at.next] \notin at.visited
Closes(G, at) ==
    /\ ~Over(G, at) /\ G[at.node][at.next] \in at.visited
    /\ G[at.node][at.next] \in ToSet(at.path)
Passes(G, at) ==
    /\ ~Over(G, at) /\ G[at.node][at.next] \in at.visited
    /\ G[at.node][at.next] \notin ToSet(at.path)

ClosedResult(G, at) ==
    [visited |-> at.visited,
     cycle |-> Append(SubSeq(at.path, CHOOSE k \in 1..Len(at.path) : at.path[k] = G[at.node][at.next],
                             Len(at.path)), G[at.node][at.next])]

LEMMA SearchStepIs ==
  ASSUME NEW f, NEW G, NEW at
  PROVE  /\ Over(G, at) \/ Deepens(G, at) \/ Closes(G, at) \/ Passes(G, at)
         /\ Over(G, at) => SearchStep(f, G, at) = [visited |-> at.visited, cycle |-> NoCycle]
         /\ Deepens(G, at) =>
                SearchStep(f, G, at) = IF f[Deeper(G, at)].cycle # NoCycle THEN f[Deeper(G, at)]
                                       ELSE f[Later(at, f[Deeper(G, at)].visited)]
         /\ Closes(G, at) => SearchStep(f, G, at) = ClosedResult(G, at)
         /\ Passes(G, at) => SearchStep(f, G, at) = f[Later(at, at.visited)]
  <1>1. Over(G, at) \/ Deepens(G, at) \/ Closes(G, at) \/ Passes(G, at)
    BY DEF Deepens, Closes, Passes
  <1>2. Over(G, at) => SearchStep(f, G, at) = [visited |-> at.visited, cycle |-> NoCycle]
    BY DEF Over, SearchStep
  <1>3. Deepens(G, at) =>
                SearchStep(f, G, at) = IF f[Deeper(G, at)].cycle # NoCycle THEN f[Deeper(G, at)]
                                       ELSE f[Later(at, f[Deeper(G, at)].visited)]
    BY Zenon DEF Over, Deepens, SearchStep, Deeper, Later
  <1>4. Closes(G, at) => SearchStep(f, G, at) = ClosedResult(G, at)
    BY Zenon DEF Over, Closes, SearchStep, OnStack, ClosedResult
  <1>5. Passes(G, at) => SearchStep(f, G, at) = f[Later(at, at.visited)]
    BY Zenon DEF Over, Passes, SearchStep, OnStack, Later
  <1> QED
    BY <1>1, <1>2, <1>3, <1>4, <1>5

\* How much a search has still to do, when no node has more than B edges.
Ahead(G, at) == IF Over(G, at) THEN 0 ELSE Len(G[at.node]) + 1 - at.next
Left(G, B, at) == Cardinality(Nodes \ at.visited) * (B + 2) + Ahead(G, at)

FewEdges(G, B) == \A n \in Nodes : Len(G[n]) <= B

LEMMA MultipleGrows ==
  ASSUME NEW a \in Nat, NEW b \in Nat, NEW m \in Nat, a < b
  PROVE  a * m + m <= b * m /\ a * m \in Nat /\ b * m \in Nat
  <1>1. PICK d \in Nat : b = a + 1 + d
    <2>1. b - a - 1 \in Nat /\ b = a + 1 + (b - a - 1)
      OBVIOUS
    <2> QED
      BY <2>1
  <1>2. b * m = a * m + m + d * m /\ d * m \in Nat /\ a * m \in Nat
    BY <1>1
  <1> QED
    BY <1>2

LEMMA LeftIsNumber ==
  ASSUME NEW G \in Graph, NEW B \in Nat, FewEdges(G, B), NEW at \in SearchPoint
  PROVE  /\ Left(G, B, at) \in Nat /\ Ahead(G, at) \in 0..B
         /\ Cardinality(Nodes \ at.visited) \in Nat
         /\ Left(G, B, at) <= Cardinality(Nodes) * (B + 2) + B
  <1>1. at.node \in Nodes /\ at.next \in Nat /\ at.next # 0 /\ at.visited \in SUBSET Nodes
    BY PointTypes
  <1>2. Len(G[at.node]) \in Nat /\ Len(G[at.node]) <= B
    BY <1>1, NeighborsAreNodes DEF FewEdges
  <1>3. Ahead(G, at) \in 0..B
    BY <1>1, <1>2 DEF Ahead, Over
  <1>4. PICK c, d : c = Cardinality(Nodes \ at.visited) /\ d = Cardinality(Nodes)
    OBVIOUS
  <1>5. c \in Nat /\ d \in Nat /\ c <= d
    BY <1>1, <1>4, MonitorAssumption, FS_Subset, FS_CardinalityType
  <1>6. c * (B + 2) \in Nat /\ c * (B + 2) <= d * (B + 2)
    <2>1. PICK m \in Nat : m = B + 2
      OBVIOUS
    <2>2. CASE c = d
      <3>1. c * m \in Nat
        BY <1>5, <2>1
      <3> QED
        BY <2>1, <2>2, <3>1
    <2>3. CASE c < d
      <3>1. c * m + m <= d * m /\ c * m \in Nat /\ d * m \in Nat
        BY <1>5, <2>1, <2>3, MultipleGrows
      <3>2. c * m <= d * m
        BY <2>1, <3>1
      <3> QED
        BY <2>1, <3>1, <3>2
    <2> QED
      BY <1>5, <2>2, <2>3
  <1>7. PICK x, y, z : x = c * (B + 2) /\ y = d * (B + 2) /\ z = Ahead(G, at)
    OBVIOUS
  <1>8. d * (B + 2) \in Nat
    BY <1>5
  <1>9. x + z \in Nat /\ x + z <= y + B
    BY <1>3, <1>6, <1>7, <1>8
  <1> QED
    BY <1>3, <1>4, <1>5, <1>7, <1>9 DEF Left

LEMMA NodeLess ==
  ASSUME NEW V \in SUBSET Nodes, NEW x \in Nodes \ V
  PROVE  Cardinality(Nodes \ (V \cup {x})) < Cardinality(Nodes \ V)
  <1>1. Nodes \ (V \cup {x}) \subseteq Nodes \ V /\ Nodes \ (V \cup {x}) # Nodes \ V
    OBVIOUS
  <1>2. IsFiniteSet(Nodes \ V)
    BY MonitorAssumption, FS_Subset
  <1> QED
    BY <1>1, <1>2, FS_Subset, FS_CardinalityType

LEMMA SearchGoesOn ==
  ASSUME NEW G \in Graph, NEW B \in Nat, FewEdges(G, B), NEW at \in SearchPoint, ~Over(G, at)
  PROVE  /\ G[at.node][at.next] \in Nodes /\ G[at.node][at.next] \in ToSet(G[at.node])
         /\ at.next \in 1..Len(G[at.node])
         /\ \A v \in SUBSET Nodes : at.visited \subseteq v =>
                Later(at, v) \in SearchPoint /\ Left(G, B, Later(at, v)) < Left(G, B, at)
         /\ Deepens(G, at) =>
                Deeper(G, at) \in SearchPoint /\ Left(G, B, Deeper(G, at)) < Left(G, B, at)
  <1>1. /\ at.node \in Nodes /\ at.next \in Nat /\ at.next # 0
        /\ at.visited \in SUBSET Nodes /\ at.path \in Seq(Nodes)
    BY PointTypes
  <1>2. PICK l : l = Len(G[at.node])
    OBVIOUS
  <1>3. l \in Nat /\ at.next \in 1..l /\ Ahead(G, at) = l + 1 - at.next
    BY <1>1, <1>2, NeighborsAreNodes DEF Over, Ahead
  <1>4. PICK x : x = G[at.node][at.next]
    OBVIOUS
  <1>5. x \in Nodes /\ x \in ToSet(G[at.node])
    BY <1>1, <1>2, <1>3, <1>4, NeighborsAreNodes
  <1>6. PICK u : u = Cardinality(Nodes \ at.visited)
    OBVIOUS
  <1>7. u \in Nat /\ Left(G, B, at) = u * (B + 2) + (l + 1 - at.next)
    BY <1>3, <1>6, LeftIsNumber DEF Left
  <1>8. ASSUME NEW v \in SUBSET Nodes, at.visited \subseteq v
        PROVE  Later(at, v) \in SearchPoint /\ Left(G, B, Later(at, v)) < Left(G, B, at)
    <2>1. PICK c : c = Later(at, v)
      OBVIOUS
    <2>2. c \in SearchPoint /\ c.node = at.node /\ c.next = at.next + 1 /\ c.visited = v
      <3>1. at.next + 1 \in Nat \ {0}
        BY <1>1
      <3>2. c \in SearchPoint
        BY <1>1, <2>1, <3>1, PointMade DEF Later
      <3> QED
        BY <2>1, <3>2, LaterFields
    <2>3. PICK w : w = Cardinality(Nodes \ v)
      OBVIOUS
    <2>4. w \in Nat /\ w <= u
      <3>1. IsFiniteSet(Nodes \ at.visited) /\ (Nodes \ v) \subseteq (Nodes \ at.visited)
        BY <1>8, MonitorAssumption, FS_Subset
      <3> QED
        BY <1>6, <2>3, <3>1, FS_Subset, FS_CardinalityType
    <2>5. Left(G, B, c) = w * (B + 2) + Ahead(G, c)
      BY <2>2, <2>3 DEF Left
    <2>6. Ahead(G, c) \in Nat /\ Ahead(G, c) < l + 1 - at.next
      BY <1>2, <1>3, <2>2 DEF Ahead, Over
    <2>7. w * (B + 2) \in Nat /\ u * (B + 2) \in Nat /\ w * (B + 2) <= u * (B + 2)
      <3>1. PICK m \in Nat : m = B + 2
        OBVIOUS
      <3>2. w * m \in Nat /\ u * m \in Nat
        BY <1>7, <2>4
      <3>3. CASE w < u
        <4>1. w * m + m <= u * m
          BY <1>7, <2>4, <3>3, MultipleGrows
        <4> QED
          BY <3>1, <3>2, <4>1
      <3>4. CASE w = u
        BY <3>1, <3>2, <3>4
      <3> QED
        BY <1>7, <2>4, <3>3, <3>4
    <2>8. PICK p, q, a : p = w * (B + 2) /\ q = u * (B + 2) /\ a = Ahead(G, c)
      OBVIOUS
    <2>9. p + a < q + (l + 1 - at.next)
      BY <1>1, <1>3, <2>6, <2>7, <2>8
    <2> QED
      BY <1>7, <2>1, <2>2, <2>5, <2>8, <2>9
  <1>9. ASSUME Deepens(G, at)
        PROVE  Deeper(G, at) \in SearchPoint /\ Left(G, B, Deeper(G, at)) < Left(G, B, at)
    <2>1. x \notin at.visited
      BY <1>4, <1>9 DEF Deepens
    <2>2. PICK c : c = Deeper(G, at)
      OBVIOUS
    <2>3. c \in SearchPoint /\ c.node = x /\ c.next = 1 /\ c.visited = at.visited \cup {x}
      <3>1. at.visited \cup {x} \in SUBSET Nodes /\ Append(at.path, x) \in Seq(Nodes)
        BY <1>1, <1>5
      <3>2. c = SearchAt(x, 1, at.visited \cup {x}, Append(at.path, x))
        BY <1>4, <2>2 DEF Deeper
      <3>3. 1 \in Nat \ {0}
        OBVIOUS
      <3>4. c.node = x /\ c.next = 1 /\ c.visited = at.visited \cup {x}
        BY <3>2, SearchFields
      <3>5. c \in SearchPoint
        BY <1>5, <3>1, <3>2, <3>3, PointMade
      <3> QED
        BY <3>4, <3>5
    <2>4. PICK w : w = Cardinality(Nodes \ (at.visited \cup {x}))
      OBVIOUS
    <2>5. Left(G, B, c) = w * (B + 2) + Ahead(G, c) /\ Ahead(G, c) \in 0..B /\ w \in Nat
      BY <2>3, <2>4, LeftIsNumber DEF Left
    <2>6. w < u
      BY <1>1, <1>5, <1>6, <2>1, <2>4, NodeLess
    <2>7. PICK m \in Nat : m = B + 2
      OBVIOUS
    <2>8. w * m + m <= u * m /\ w * m \in Nat /\ u * m \in Nat
      BY <1>7, <2>5, <2>6, MultipleGrows
    <2>9. PICK p, q, a : p = w * m /\ q = u * m /\ a = Ahead(G, c)
      OBVIOUS
    <2>10. p + a < q + (l + 1 - at.next)
      BY <1>1, <1>3, <2>5, <2>7, <2>8, <2>9
    <2> QED
      BY <1>7, <2>2, <2>3, <2>5, <2>7, <2>9, <2>10
  <1> QED
    BY <1>2, <1>3, <1>4, <1>5, <1>8, <1>9

GoodResult(at, r) == r \in SearchResult /\ at.visited \subseteq r.visited

LEMMA ClosedResultTyped ==
  ASSUME NEW G \in Graph, NEW at \in SearchPoint, Closes(G, at)
  PROVE  /\ ClosedResult(G, at) \in SearchResult /\ ClosedResult(G, at).visited = at.visited
         /\ ClosedResult(G, at).cycle # NoCycle
  <1>1. PICK x : x = G[at.node][at.next]
    OBVIOUS
  <1>2. at.path \in Seq(Nodes) /\ at.visited \in SUBSET Nodes /\ x \in ToSet(at.path)
    BY <1>1, PointTypes DEF Closes
  <1>3. PICK k : k = CHOOSE i \in 1..Len(at.path) : at.path[i] = x
    OBVIOUS
  <1>4. k \in 1..Len(at.path) /\ at.path[k] = x /\ Len(at.path) \in Nat
    <2>1. \E i \in 1..Len(at.path) : at.path[i] = x
      BY <1>2 DEF ToSet
    <2> QED
      BY <1>2, <1>3, <2>1
  <1>5. x \in Nodes
    BY <1>2, <1>4
  <1>6. PICK s : s = SubSeq(at.path, k, Len(at.path))
    OBVIOUS
  <1>7. s \in Seq(Nodes)
    <2>1. \A i \in k..Len(at.path) : at.path[i] \in Nodes
      BY <1>2, <1>4
    <2> QED
      BY <1>2, <1>4, <1>6, <2>1
  <1>8. PICK c : c = Append(s, x)
    OBVIOUS
  <1>9. c \in Seq(Nodes) /\ Len(c) # 0
    BY <1>5, <1>7, <1>8
  <1>10. ClosedResult(G, at) = [visited |-> at.visited, cycle |-> c]
    BY <1>1, <1>3, <1>6, <1>8, Zenon DEF ClosedResult
  <1> QED
    BY <1>2, <1>9, <1>10 DEF SearchResult, NoCycle

LEMMA StepAgrees ==
  ASSUME NEW G \in Graph, NEW B \in Nat, FewEdges(G, B), NEW at \in SearchPoint, NEW f, NEW g,
         \A c \in SearchPoint :
            Left(G, B, c) < Left(G, B, at) => g[c] = f[c] /\ GoodResult(c, f[c])
  PROVE  SearchStep(g, G, at) = SearchStep(f, G, at) /\ GoodResult(at, SearchStep(f, G, at))
  <1>1. at.visited \in SUBSET Nodes
    BY PointTypes
  <1>2. CASE Over(G, at)
    <2>1. [visited |-> at.visited, cycle |-> NoCycle] \in SearchResult
      BY <1>1 DEF SearchResult, NoCycle
    <2>2. /\ SearchStep(f, G, at) = [visited |-> at.visited, cycle |-> NoCycle]
          /\ SearchStep(g, G, at) = [visited |-> at.visited, cycle |-> NoCycle]
      BY <1>2, SearchStepIs
    <2> QED
      BY <2>1, <2>2 DEF GoodResult
  <1>3. CASE Deepens(G, at)
    <2>1. ~Over(G, at)
      BY <1>3 DEF Deepens
    <2>2. PICK d : d = Deeper(G, at)
      OBVIOUS
    <2>3. d \in SearchPoint /\ Left(G, B, d) < Left(G, B, at)
      BY <1>3, <2>1, <2>2, SearchGoesOn
    <2>4. at.visited \subseteq d.visited
      <3>1. PICK x : x = G[at.node][at.next]
        OBVIOUS
      <3>2. d = SearchAt(x, 1, at.visited \cup {x}, Append(at.path, x))
        BY <2>2, <3>1 DEF Deeper
      <3>3. d.visited = at.visited \cup {x}
        BY <3>2, SearchFields
      <3> QED
        BY <3>3
    <2>5. g[d] = f[d] /\ GoodResult(d, f[d])
      BY <2>3
    <2>6. PICK r : r = f[d]
      OBVIOUS
    <2>7. r.visited \in SUBSET Nodes /\ at.visited \subseteq r.visited /\ r \in SearchResult
      BY <2>4, <2>5, <2>6 DEF GoodResult, SearchResult
    <2>8. PICK c : c = Later(at, r.visited)
      OBVIOUS
    <2>9. c \in SearchPoint /\ Left(G, B, c) < Left(G, B, at) /\ c.visited = r.visited
      <3>1. c.visited = r.visited
        BY <2>8, LaterFields
      <3>2. c \in SearchPoint /\ Left(G, B, c) < Left(G, B, at)
        BY <2>1, <2>7, <2>8, SearchGoesOn
      <3> QED
        BY <3>1, <3>2
    <2>10. g[c] = f[c] /\ GoodResult(c, f[c])
      BY <2>9
    <2>11. /\ SearchStep(f, G, at) = IF r.cycle # NoCycle THEN r ELSE f[c]
           /\ SearchStep(g, G, at) = IF r.cycle # NoCycle THEN r ELSE g[c]
      <3>1. SearchStep(f, G, at) = IF f[d].cycle # NoCycle THEN f[d] ELSE f[Later(at, f[d].visited)]
        BY <1>3, <2>2, SearchStepIs
      <3>2. SearchStep(g, G, at) = IF g[d].cycle # NoCycle THEN g[d] ELSE g[Later(at, g[d].visited)]
        BY <1>3, <2>2, SearchStepIs
      <3> QED
        BY <2>5, <2>6, <2>8, <3>1, <3>2
    <2> QED
      BY <2>7, <2>9, <2>10, <2>11 DEF GoodResult
  <1>4. CASE Closes(G, at)
    BY <1>4, SearchStepIs, ClosedResultTyped DEF GoodResult
  <1>5. CASE Passes(G, at)
    <2>1. ~Over(G, at)
      BY <1>5 DEF Passes
    <2>2. PICK c : c = Later(at, at.visited)
      OBVIOUS
    <2>3. c \in SearchPoint /\ Left(G, B, c) < Left(G, B, at) /\ c.visited = at.visited
      <3>1. c.visited = at.visited
        BY <2>2, LaterFields
      <3>2. c \in SearchPoint /\ Left(G, B, c) < Left(G, B, at)
        BY <1>1, <2>1, <2>2, SearchGoesOn
      <3> QED
        BY <3>1, <3>2
    <2>4. g[c] = f[c] /\ GoodResult(c, f[c])
      BY <2>3
    <2>5. SearchStep(f, G, at) = f[c] /\ SearchStep(g, G, at) = g[c]
      BY <1>5, <2>2, SearchStepIs
    <2> QED
      BY <2>3, <2>4, <2>5 DEF GoodResult
  <1> QED
    BY <1>2, <1>3, <1>4, <1>5, SearchStepIs

\* What holds of a point when it holds of all from which less is left holds of all.
LEMMA SearchInduction ==
  ASSUME NEW G \in Graph, NEW B \in Nat, FewEdges(G, B), NEW P,
         \A at \in SearchPoint :
            (\A c \in SearchPoint : Left(G, B, c) < Left(G, B, at) => c \in P) => at \in P
  PROVE  SearchPoint \subseteq P
  <1> DEFINE K == {n \in Nat : \A c \in SearchPoint : Left(G, B, c) < n => c \in P}
  <1>1. \A c \in SearchPoint : Left(G, B, c) \in Nat
    BY LeftIsNumber
  <1>2. 0 \in K
    BY <1>1
  <1>3. ASSUME NEW n \in K PROVE n + 1 \in K
    <2>1. n \in Nat /\ \A c \in SearchPoint : Left(G, B, c) < n => c \in P
      OBVIOUS
    <2> HIDE DEF K
    <2>2. ASSUME NEW at \in SearchPoint, Left(G, B, at) < n + 1 PROVE at \in P
      <3>1. ASSUME NEW c \in SearchPoint, Left(G, B, c) < Left(G, B, at) PROVE c \in P
        <4>1. Left(G, B, c) < n
          BY <1>1, <2>1, <2>2, <3>1
        <4> QED
          BY <2>1, <4>1
      <3> QED
        BY <3>1
    <2>3. n + 1 \in Nat
      BY <2>1
    <2> QED
      BY <2>2, <2>3 DEF K
  <1>4. K = Nat
    <2> HIDE DEF K
    <2>1. K \subseteq Nat
      BY DEF K
    <2> QED
      BY <1>2, <1>3, <2>1, SetInduction
  <1>5. ASSUME NEW at \in SearchPoint PROVE at \in P
    <2>1. PICK n : n = Left(G, B, at) + 1
      OBVIOUS
    <2>2. n \in K /\ Left(G, B, at) < n
      BY <1>1, <1>4, <2>1
    <2> QED
      BY <2>2
  <1> QED
    BY <1>5

\* There is such a function, although a call of it needs what another one visited.
LEMMA SearchExists ==
  ASSUME NEW G \in Graph, NEW B \in Nat, FewEdges(G, B)
  PROVE  \E f : IsSearch(f, G)
  <1> DEFINE Rank(c) == Left(G, B, c)
             Right(f, n) == \A c \in SearchPoint :
                                Rank(c) < n => f[c] = SearchStep(f, G, c) /\ GoodResult(c, f[c])
             K == {n \in Nat : \E f \in [SearchPoint -> SearchResult] : Right(f, n)}
  <1>1. \A c \in SearchPoint : Rank(c) \in Nat
    BY LeftIsNumber
  <1>2. 0 \in K
    <2>1. [visited |-> {}, cycle |-> NoCycle] \in SearchResult
      BY DEF SearchResult, NoCycle
    <2>2. PICK f : f = [c \in SearchPoint |-> [visited |-> {}, cycle |-> NoCycle]]
      OBVIOUS
    <2>3. f \in [SearchPoint -> SearchResult]
      BY <2>1, <2>2
    <2>4. Right(f, 0)
      BY <1>1
    <2> HIDE DEF Right
    <2> QED
      BY <2>3, <2>4
  <1>3. ASSUME NEW n \in K PROVE n + 1 \in K
    <2>1. n \in Nat
      OBVIOUS
    <2>2. PICK f \in [SearchPoint -> SearchResult] : Right(f, n)
      OBVIOUS
    <2> HIDE DEF K, Rank
    <2>3. PICK g : g = [c \in SearchPoint |-> IF Rank(c) < n + 1 THEN SearchStep(f, G, c) ELSE f[c]]
      OBVIOUS
    <2>4. \A c \in SearchPoint : Rank(c) < n => g[c] = f[c] /\ GoodResult(c, f[c])
      <3>1. ASSUME NEW c \in SearchPoint, Rank(c) < n PROVE g[c] = f[c] /\ GoodResult(c, f[c])
        <4>1. Rank(c) < n + 1
          BY <1>1, <2>1, <3>1
        <4>2. f[c] = SearchStep(f, G, c) /\ GoodResult(c, f[c])
          BY <2>2, <3>1
        <4> QED
          BY <2>3, <4>1, <4>2
      <3> QED
        BY <3>1
    <2>5. ASSUME NEW at \in SearchPoint, Rank(at) < n + 1
          PROVE  g[at] = SearchStep(g, G, at) /\ GoodResult(at, g[at])
      <3>1. ASSUME NEW c \in SearchPoint, Rank(c) < Rank(at)
            PROVE  g[c] = f[c] /\ GoodResult(c, f[c])
        <4>1. Rank(c) < n
          BY <1>1, <2>1, <2>5, <3>1
        <4> QED
          BY <2>4, <4>1
      <3>2. SearchStep(g, G, at) = SearchStep(f, G, at) /\ GoodResult(at, SearchStep(f, G, at))
        BY <3>1, StepAgrees DEF Rank
      <3>3. g[at] = SearchStep(f, G, at)
        BY <2>3, <2>5
      <3> QED
        BY <3>2, <3>3
    <2>6. g \in [SearchPoint -> SearchResult]
      <3>1. ASSUME NEW c \in SearchPoint PROVE g[c] \in SearchResult
        <4>1. CASE Rank(c) < n + 1
          BY <2>5, <4>1 DEF GoodResult
        <4>2. CASE ~(Rank(c) < n + 1)
          BY <2>3, <4>2
        <4> QED
          BY <4>1, <4>2
      <3>2. \A c \in SearchPoint : g[c] \in SearchResult
        BY <3>1
      <3> QED
        BY <2>3, <3>2
    <2>7. Right(g, n + 1)
      BY <2>5
    <2> HIDE DEF Right
    <2>8. n + 1 \in Nat
      BY <2>1
    <2> QED
      BY <2>6, <2>7, <2>8 DEF K
  <1>4. K = Nat
    <2> HIDE DEF K
    <2>1. K \subseteq Nat
      BY DEF K
    <2> QED
      BY <1>2, <1>3, <2>1, SetInduction
  <1>5. PICK n \in Nat : n = Cardinality(Nodes) * (B + 2) + B + 1
    <2>1. Cardinality(Nodes) \in Nat
      BY MonitorAssumption, FS_CardinalityType
    <2>2. Cardinality(Nodes) * (B + 2) \in Nat
      BY <2>1
    <2> QED
      BY <2>2
  <1>6. \A c \in SearchPoint : Rank(c) < n
    <2>1. ASSUME NEW c \in SearchPoint PROVE Rank(c) < n
      <3>1. PICK m : m = Cardinality(Nodes) * (B + 2)
        OBVIOUS
      <3>2. Cardinality(Nodes) \in Nat
        BY MonitorAssumption, FS_CardinalityType
      <3>3. m \in Nat
        BY <3>1, <3>2
      <3>4. Rank(c) <= m + B /\ Rank(c) \in Nat /\ n = m + B + 1
        BY <1>5, <3>1, LeftIsNumber
      <3> HIDE DEF Rank
      <3> QED
        BY <3>3, <3>4
    <2> QED
      BY <2>1
  <1>7. PICK f \in [SearchPoint -> SearchResult] : Right(f, n)
    BY <1>4
  <1>8. \A c \in SearchPoint : f[c] = SearchStep(f, G, c)
    BY <1>6, <1>7
  <1>9. f = [c \in SearchPoint |-> SearchStep(f, G, c)]
    BY <1>7, <1>8
  <1> QED
    BY <1>9 DEF IsSearch

SearchFunction(G) == CHOOSE f : IsSearch(f, G)

LEMMA DetectCycleIs ==
  ASSUME NEW G, NEW start
  PROVE  DetectCycle(G, start) = SearchFunction(G)[SearchAt(start, 1, {start}, <<start>>)].cycle
  BY DEF DetectCycle, SearchFunction, IsSearch, SearchStep

\* A path: the nodes on the stack, each the neighbour of the one before.
Stacked(G, start, at) ==
    /\ Len(at.path) # 0 /\ at.path[1] = start /\ at.path[Len(at.path)] = at.node
    /\ start \in at.visited
    /\ \A k \in 1..(Len(at.path) - 1) : at.path[k + 1] \in ToSet(G[at.path[k]])

\* All neighbours of a node that the search has left were visited, and none is where it began.
LeftBehind(G, start, at, visited) ==
    /\ \A n \in visited \ at.visited : ToSet(G[n]) \subseteq visited \ {start}
    /\ \A j \in at.next..Len(G[at.node]) : G[at.node][j] \in visited \ {start}

Outcome(G, start, at, r) ==
    /\ r.cycle # NoCycle => Cyclic(G)
    /\ r.cycle = NoCycle => LeftBehind(G, start, at, r.visited)

LEMMA StackLeads ==
  ASSUME NEW G \in Graph, NEW path \in Seq(Nodes),
         \A k \in 1..(Len(path) - 1) : path[k + 1] \in ToSet(G[path[k]]),
         NEW i \in 1..Len(path), NEW j \in 1..Len(path), i < j
  PROVE  path[j] \in LeadsTo(G, path[i])
  <1>1. PICK N \in Nat : N = Len(path)
    OBVIOUS
  <1>2. PICK L : L = LeadsTo(G, path[i])
    OBVIOUS
  <1>3. path[i] \in Nodes
    OBVIOUS
  <1>4. ToSet(G[path[i]]) \subseteq L /\ ClosedUnder(G, L)
    BY <1>2, <1>3, LeadsToLeast
  <1> DEFINE K == {k \in Nat : i + 1 + k <= N => path[i + 1 + k] \in L}
  <1>5. 0 \in K
    <2>1. i + 1 + 0 = i + 1 /\ i \in Nat
      BY <1>1
    <2>2. ASSUME i + 1 <= N PROVE path[i + 1] \in L
      <3>1. i \in 1..(Len(path) - 1)
        BY <1>1, <2>2
      <3> QED
        BY <1>4, <3>1
    <2> QED
      BY <2>1, <2>2
  <1>6. ASSUME NEW k \in K PROVE k + 1 \in K
    <2>1. k \in Nat /\ (i + 1 + k <= N => path[i + 1 + k] \in L)
      OBVIOUS
    <2> HIDE DEF K
    <2>2. ASSUME i + 1 + (k + 1) <= N PROVE path[i + 1 + (k + 1)] \in L
      <3>1. PICK m : m = i + 1 + k
        OBVIOUS
      <3>2. m \in 1..(Len(path) - 1) /\ m <= N /\ i + 1 + (k + 1) = m + 1
        BY <1>1, <2>1, <2>2, <3>1
      <3>3. path[m] \in L /\ path[m + 1] \in ToSet(G[path[m]])
        BY <2>1, <3>1, <3>2
      <3> QED
        BY <1>4, <3>2, <3>3 DEF ClosedUnder
    <2> QED
      BY <2>1, <2>2 DEF K
  <1>7. K = Nat
    <2> HIDE DEF K
    <2>1. K \subseteq Nat
      BY DEF K
    <2> QED
      BY <1>5, <1>6, <2>1, SetInduction
  <1>8. PICK k : k = j - i - 1
    OBVIOUS
  <1>9. k \in Nat /\ i + 1 + k = j /\ j <= N
    BY <1>1, <1>8
  <1>10. k \in K
    BY <1>7, <1>9
  <1> QED
    BY <1>2, <1>9, <1>10

LEMMA ClosesIsCycle ==
  ASSUME NEW G \in Graph, NEW start, NEW at \in SearchPoint, Stacked(G, start, at), Closes(G, at)
  PROVE  Cyclic(G)
  <1>1. PICK x, p, l : x = G[at.node][at.next] /\ p = at.path /\ l = Len(at.path)
    OBVIOUS
  <1>2. /\ at.node \in Nodes /\ at.next \in Nat /\ at.next # 0 /\ p \in Seq(Nodes) /\ l \in Nat /\ l # 0
        /\ p[l] = at.node /\ \A k \in 1..(l - 1) : p[k + 1] \in ToSet(G[p[k]])
    BY <1>1, PointTypes DEF Stacked
  <1>3. x \in ToSet(G[at.node])
    BY <1>1, <1>2, NeighborsAreNodes DEF Closes, Over
  <1>4. PICK i \in 1..l : p[i] = x
    BY <1>1 DEF Closes, ToSet
  <1>5. x \in Nodes
    BY <1>1, <1>2, <1>4
  <1>6. CASE i = l
    <2>1. x = at.node
      BY <1>2, <1>4, <1>6
    <2>2. x \in LeadsTo(G, x)
      BY <1>3, <1>5, <2>1, LeadsToLeast
    <2> QED
      BY <1>5, <2>2 DEF Cyclic
  <1>7. CASE i # l
    <2>1. i < l /\ l \in 1..Len(p) /\ i \in 1..Len(p) /\ l = Len(p)
      BY <1>1, <1>2, <1>7
    <2>2. p[l] \in LeadsTo(G, p[i])
      BY <1>2, <2>1, StackLeads
    <2>3. x \in LeadsTo(G, x)
      BY <1>2, <1>3, <1>4, <1>5, <2>2, LeadsToLeast DEF ClosedUnder
    <2> QED
      BY <1>5, <2>3 DEF Cyclic
  <1> QED
    BY <1>6, <1>7


LEMMA LaterStacked ==
  ASSUME NEW G, NEW start, NEW at, Stacked(G, start, at), NEW v, start \in v
  PROVE  Stacked(G, start, Later(at, v))
  <1>1. PICK c : c = Later(at, v)
    OBVIOUS
  <1>2. c.node = at.node /\ c.visited = v /\ c.path = at.path
    BY <1>1, LaterFields
  <1> QED
    BY <1>1, <1>2 DEF Stacked

LEMMA DeeperStacked ==
  ASSUME NEW G \in Graph, NEW start, NEW at \in SearchPoint, Stacked(G, start, at), Deepens(G, at)
  PROVE  Stacked(G, start, Deeper(G, at))
  <1>1. PICK x, p, l : x = G[at.node][at.next] /\ p = at.path /\ l = Len(at.path)
    OBVIOUS
  <1>2. /\ at.node \in Nodes /\ at.next \in Nat /\ at.next # 0 /\ p \in Seq(Nodes) /\ l \in Nat /\ l # 0
        /\ l = Len(p) /\ p[1] = start /\ p[l] = at.node /\ start \in at.visited
        /\ \A k \in 1..(l - 1) : p[k + 1] \in ToSet(G[p[k]])
    BY <1>1, PointTypes DEF Stacked
  <1>3. x \in ToSet(G[at.node]) /\ x \in Nodes
    BY <1>1, <1>2, NeighborsAreNodes DEF Deepens, Over
  <1>4. PICK q : q = Append(p, x)
    OBVIOUS
  <1>5. Len(q) = l + 1 /\ q[l + 1] = x /\ \A k \in 1..l : q[k] = p[k]
    BY <1>2, <1>3, <1>4
  <1>6. PICK d : d = Deeper(G, at)
    OBVIOUS
  <1>7. d.node = x /\ d.visited = at.visited \cup {x} /\ d.path = q
    <2>1. d = SearchAt(x, 1, at.visited \cup {x}, q)
      BY <1>1, <1>4, <1>6 DEF Deeper
    <2> QED
      BY <2>1, SearchFields
  <1>8. ASSUME NEW k \in 1..(Len(q) - 1) PROVE q[k + 1] \in ToSet(G[q[k]])
    <2>1. k \in 1..l
      BY <1>2, <1>5
    <2>2. CASE k = l
      BY <1>2, <1>3, <1>5, <2>1, <2>2
    <2>3. CASE k # l
      <3>1. k \in 1..(l - 1) /\ k + 1 \in 1..l
        BY <1>2, <2>1, <2>3
      <3> QED
        BY <1>2, <1>5, <2>1, <3>1
    <2> QED
      BY <2>2, <2>3
  <1>9. Len(q) # 0 /\ q[1] = start /\ q[Len(q)] = x
    <2>1. 1 \in 1..l
      BY <1>2
    <2> QED
      BY <1>2, <1>5, <2>1
  <1> QED
    BY <1>2, <1>6, <1>7, <1>8, <1>9 DEF Stacked

LEMMA OneMoreBehind ==
  ASSUME NEW G \in Graph, NEW start, NEW at \in SearchPoint, ~Over(G, at), NEW v, NEW w,
         LeftBehind(G, start, Later(at, v), w), G[at.node][at.next] \in w \ {start}
  PROVE  /\ \A n \in w \ v : ToSet(G[n]) \subseteq w \ {start}
         /\ \A j \in at.next..Len(G[at.node]) : G[at.node][j] \in w \ {start}
  <1>1. PICK c : c = Later(at, v)
    OBVIOUS
  <1>2. c.node = at.node /\ c.visited = v /\ c.next = at.next + 1
    BY <1>1, LaterFields
  <1>3. at.next \in Nat /\ Len(G[at.node]) \in Nat
    BY PointTypes, NeighborsAreNodes
  <1>4. /\ \A n \in w \ v : ToSet(G[n]) \subseteq w \ {start}
        /\ \A j \in (at.next + 1)..Len(G[at.node]) : G[at.node][j] \in w \ {start}
    BY <1>1, <1>2 DEF LeftBehind
  <1>5. ASSUME NEW j \in at.next..Len(G[at.node]) PROVE G[at.node][j] \in w \ {start}
    <2>1. j = at.next \/ j \in (at.next + 1)..Len(G[at.node])
      BY <1>3
    <2> QED
      BY <1>4, <2>1
  <1> QED
    BY <1>4, <1>5

SearchedWell(G, start, f, c) ==
    GoodResult(c, f[c]) /\ (Stacked(G, start, c) => Outcome(G, start, c, f[c]))

LEMMA SearchStepRight ==
  ASSUME NEW G \in Graph, NEW B \in Nat, FewEdges(G, B), NEW start, NEW at \in SearchPoint, NEW f,
         \A c \in SearchPoint : Left(G, B, c) < Left(G, B, at) => SearchedWell(G, start, f, c),
         Stacked(G, start, at)
  PROVE  Outcome(G, start, at, SearchStep(f, G, at))
  <1>1. at.visited \in SUBSET Nodes /\ at.next \in Nat /\ Len(G[at.node]) \in Nat /\ start \in at.visited
    BY PointTypes, NeighborsAreNodes DEF Stacked
  <1>2. PICK x : x = G[at.node][at.next]
    OBVIOUS
  <1>3. PICK r : r = SearchStep(f, G, at)
    OBVIOUS
  <1>4. CASE Over(G, at)
    <2>1. r.visited = at.visited /\ r.cycle = NoCycle
      BY <1>3, <1>4, SearchStepIs
    <2>2. at.next..Len(G[at.node]) = {}
      BY <1>1, <1>4 DEF Over
    <2>3. LeftBehind(G, start, at, r.visited)
      BY <2>1, <2>2 DEF LeftBehind
    <2> QED
      BY <1>3, <2>1, <2>3 DEF Outcome
  <1>5. CASE Closes(G, at)
    <2>1. Cyclic(G)
      BY <1>5, ClosesIsCycle
    <2>2. r.cycle # NoCycle
      BY <1>3, <1>5, SearchStepIs, ClosedResultTyped
    <2> QED
      BY <1>3, <2>1, <2>2 DEF Outcome
  <1>6. CASE Passes(G, at)
    <2>1. ~Over(G, at) /\ x \in at.visited /\ x \notin ToSet(at.path)
      BY <1>2, <1>6 DEF Passes
    <2>2. PICK c : c = Later(at, at.visited)
      OBVIOUS
    <2>3. c \in SearchPoint /\ Left(G, B, c) < Left(G, B, at) /\ c.visited = at.visited
      <3>1. c.visited = at.visited
        BY <2>2, LaterFields
      <3>2. c \in SearchPoint /\ Left(G, B, c) < Left(G, B, at)
        BY <1>1, <2>1, <2>2, SearchGoesOn
      <3> QED
        BY <3>1, <3>2
    <2>4. Stacked(G, start, c)
      BY <1>1, <2>2, LaterStacked
    <2>5. r = f[c]
      BY <1>3, <1>6, <2>2, SearchStepIs
    <2>6. Outcome(G, start, c, r) /\ at.visited \subseteq r.visited
      BY <2>3, <2>4, <2>5 DEF SearchedWell, GoodResult
    <2>7. x # start
      <3>1. at.path \in Seq(Nodes) /\ Len(at.path) # 0 /\ at.path[1] = start
        BY PointTypes DEF Stacked
      <3>2. start \in ToSet(at.path)
        BY <3>1 DEF ToSet
      <3> QED
        BY <2>1, <3>2
    <2>8. ASSUME r.cycle = NoCycle PROVE LeftBehind(G, start, at, r.visited)
      <3>1. LeftBehind(G, start, Later(at, at.visited), r.visited)
        BY <2>2, <2>6, <2>8 DEF Outcome
      <3>2. G[at.node][at.next] \in r.visited \ {start}
        BY <1>2, <2>1, <2>6, <2>7
      <3> QED
        <4>1. /\ \A n \in r.visited \ at.visited : ToSet(G[n]) \subseteq r.visited \ {start}
              /\ \A j \in at.next..Len(G[at.node]) : G[at.node][j] \in r.visited \ {start}
          BY <2>1, <3>1, <3>2, OneMoreBehind
        <4> QED
          BY <4>1 DEF LeftBehind
    <2> QED
      BY <1>3, <2>6, <2>8 DEF Outcome
  <1>7. CASE Deepens(G, at)
    <2>1. ~Over(G, at) /\ x \notin at.visited /\ x # start
      BY <1>1, <1>2, <1>7 DEF Deepens
    <2>2. PICK d : d = Deeper(G, at)
      OBVIOUS
    <2>3. /\ d \in SearchPoint /\ Left(G, B, d) < Left(G, B, at)
          /\ d.node = x /\ d.next = 1 /\ d.visited = at.visited \cup {x}
      <3>1. d = SearchAt(x, 1, at.visited \cup {x}, Append(at.path, x))
        BY <1>2, <2>2 DEF Deeper
      <3> QED
        <4>1. d.node = x /\ d.next = 1 /\ d.visited = at.visited \cup {x}
          BY <3>1, SearchFields
        <4>2. d \in SearchPoint /\ Left(G, B, d) < Left(G, B, at)
          BY <1>7, <2>1, <2>2, SearchGoesOn
        <4> QED
          BY <4>1, <4>2
    <2>4. PICK b : b = f[d]
      OBVIOUS
    <2>5. /\ b.visited \in SUBSET Nodes /\ at.visited \subseteq b.visited /\ x \in b.visited
          /\ Outcome(G, start, d, b)
      <3>1. Stacked(G, start, d)
        BY <1>7, <2>2, DeeperStacked
      <3>2. SearchedWell(G, start, f, d)
        BY <2>3
      <3> QED
        BY <2>3, <2>4, <3>1, <3>2 DEF SearchedWell, GoodResult, SearchResult
    <2>6. PICK c : c = Later(at, b.visited)
      OBVIOUS
    <2>7. r = IF b.cycle # NoCycle THEN b ELSE f[c]
      BY <1>3, <1>7, <2>2, <2>4, <2>6, SearchStepIs
    <2>8. CASE b.cycle # NoCycle
      BY <1>3, <2>5, <2>7, <2>8 DEF Outcome
    <2>9. CASE b.cycle = NoCycle
      <3>1. r = f[c]
        BY <2>7, <2>9
      <3>2. c \in SearchPoint /\ Left(G, B, c) < Left(G, B, at) /\ c.visited = b.visited
        <4>1. c.visited = b.visited
          BY <2>6, LaterFields
        <4>2. c \in SearchPoint /\ Left(G, B, c) < Left(G, B, at)
          BY <2>1, <2>5, <2>6, SearchGoesOn
        <4> QED
          BY <4>1, <4>2
      <3>3. Stacked(G, start, c)
        BY <1>1, <2>5, <2>6, LaterStacked
      <3>4. Outcome(G, start, c, r) /\ b.visited \subseteq r.visited
        BY <3>1, <3>2, <3>3 DEF SearchedWell, GoodResult
      <3>5. ASSUME r.cycle = NoCycle PROVE LeftBehind(G, start, at, r.visited)
        <4>1. LeftBehind(G, start, Later(at, b.visited), r.visited)
          BY <2>6, <3>4, <3>5 DEF Outcome
        <4>2. G[at.node][at.next] \in r.visited \ {start}
          BY <1>2, <2>1, <2>5, <3>4
        <4>3. /\ \A n \in r.visited \ b.visited : ToSet(G[n]) \subseteq r.visited \ {start}
              /\ \A j \in at.next..Len(G[at.node]) : G[at.node][j] \in r.visited \ {start}
          BY <2>1, <4>1, <4>2, OneMoreBehind
        <4>4. /\ \A n \in b.visited \ (at.visited \cup {x}) : ToSet(G[n]) \subseteq b.visited \ {start}
              /\ \A j \in 1..Len(G[x]) : G[x][j] \in b.visited \ {start}
          BY <2>3, <2>5, <2>9 DEF Outcome, LeftBehind
        <4>5. ToSet(G[x]) \subseteq b.visited \ {start}
          <5>1. x \in Nodes
            BY <2>5
          <5> QED
            BY <4>4, <5>1, NeighborsAreNodes
        <4>6. ASSUME NEW n \in r.visited \ at.visited PROVE ToSet(G[n]) \subseteq r.visited \ {start}
          <5>1. CASE n \in r.visited \ b.visited
            BY <4>3, <5>1
          <5>2. CASE n = x
            BY <3>4, <4>5, <5>2
          <5>3. CASE n \in b.visited \ (at.visited \cup {x})
            BY <3>4, <4>4, <5>3
          <5> QED
            BY <5>1, <5>2, <5>3
        <4> QED
          BY <4>3, <4>6 DEF LeftBehind
      <3> QED
        BY <1>3, <3>4, <3>5 DEF Outcome
    <2> QED
      BY <2>8, <2>9
  <1> QED
    BY <1>4, <1>5, <1>6, <1>7, SearchStepIs

LEMMA SearchRight ==
  ASSUME NEW G \in Graph, NEW B \in Nat, FewEdges(G, B), NEW start, NEW f, IsSearch(f, G)
  PROVE  \A at \in SearchPoint : SearchedWell(G, start, f, at)
  <1> DEFINE P == {at \in SearchPoint : SearchedWell(G, start, f, at)}
  <1>1. \A at \in SearchPoint : f[at] = SearchStep(f, G, at)
    BY DEF IsSearch
  <1>2. ASSUME NEW at \in SearchPoint,
               \A c \in SearchPoint : Left(G, B, c) < Left(G, B, at) => c \in P
        PROVE  at \in P
    <2>1. \A c \in SearchPoint : Left(G, B, c) < Left(G, B, at) => SearchedWell(G, start, f, c)
      BY <1>2
    <2>2. GoodResult(at, SearchStep(f, G, at))
      <3>1. \A c \in SearchPoint :
                Left(G, B, c) < Left(G, B, at) => f[c] = f[c] /\ GoodResult(c, f[c])
        BY <2>1 DEF SearchedWell
      <3> QED
        BY <3>1, StepAgrees
    <2>3. Stacked(G, start, at) => Outcome(G, start, at, SearchStep(f, G, at))
      BY <2>1, SearchStepRight
    <2>4. SearchedWell(G, start, f, at)
      BY <1>1, <2>2, <2>3 DEF SearchedWell
    <2> QED
      BY <2>4
  <1> HIDE DEF P
  <1>3. SearchPoint \subseteq P
    BY <1>2, SearchInduction
  <1> QED
    BY <1>3 DEF P

\* detectCycle finds a cycle only if there is one, and one if the node it starts from is on one.
LEMMA DetectsCycles ==
  ASSUME NEW G \in Graph, NEW B \in Nat, FewEdges(G, B), NEW start \in Nodes
  PROVE  /\ DetectCycle(G, start) # NoCycle => Cyclic(G)
         /\ DetectCycle(G, start) = NoCycle => start \notin LeadsTo(G, start)
  <1>1. PICK f : f = SearchFunction(G)
    OBVIOUS
  <1>2. IsSearch(f, G)
    BY <1>1, SearchExists DEF SearchFunction
  <1>3. PICK at, r : at = SearchAt(start, 1, {start}, <<start>>) /\ r = f[at]
    OBVIOUS
  <1>4. DetectCycle(G, start) = r.cycle
    BY <1>1, <1>3, DetectCycleIs
  <1>5. /\ at \in SearchPoint /\ at.node = start /\ at.next = 1
        /\ at.visited = {start} /\ at.path = <<start>>
    <2>1. <<start>> \in Seq(Nodes) /\ {start} \in SUBSET Nodes /\ 1 \in Nat \ {0}
      OBVIOUS
    <2>2. at.node = start /\ at.next = 1 /\ at.visited = {start} /\ at.path = <<start>>
      BY <1>3, SearchFields
    <2>3. at \in SearchPoint
      BY <1>3, <2>1, PointMade
    <2> QED
      BY <2>2, <2>3
  <1>6. Stacked(G, start, at)
    <2>1. Len(at.path) = 1 /\ at.path[1] = start /\ 1..(1 - 1) = {}
      BY <1>5
    <2> QED
      BY <1>5, <2>1 DEF Stacked
  <1>7. Outcome(G, start, at, r) /\ GoodResult(at, r)
    BY <1>2, <1>3, <1>5, <1>6, SearchRight DEF SearchedWell
  <1>8. ASSUME r.cycle = NoCycle PROVE start \notin LeadsTo(G, start)
    <2>1. LeftBehind(G, start, at, r.visited)
      BY <1>7, <1>8 DEF Outcome
    <2>2. /\ \A n \in r.visited \ {start} : ToSet(G[n]) \subseteq r.visited \ {start}
          /\ \A j \in 1..Len(G[start]) : G[start][j] \in r.visited \ {start}
      BY <1>5, <2>1 DEF LeftBehind
    <2>3. ToSet(G[start]) \subseteq r.visited \ {start}
      <3>1. ASSUME NEW y \in ToSet(G[start]) PROVE y \in r.visited \ {start}
        <4>1. PICK j \in 1..Len(G[start]) : y = G[start][j]
          BY NeighborsAreNodes
        <4> QED
          BY <2>2, <4>1
      <3> QED
        BY <3>1
    <2>4. r.visited \ {start} \in SUBSET Nodes
      BY <1>7 DEF GoodResult, SearchResult
    <2>5. ClosedUnder(G, r.visited \ {start})
      BY <2>2 DEF ClosedUnder
    <2>6. LeadsTo(G, start) \subseteq r.visited \ {start}
      BY <2>3, <2>4, <2>5, LeadsToLeast
    <2> QED
      BY <2>6
  <1> QED
    BY <1>4, <1>7, <1>8 DEF Outcome

\* The edges bound how long a search and a path can be.
EdgesOf(G) == TotalOf([n \in Nodes |-> Len(G[n])])

EdgesCounted(G) ==
    /\ EdgesOf(G) \in Nat
    /\ FewEdges(G, EdgesOf(G))
    /\ IsFiniteSet(Targets(G)) /\ Cardinality(Targets(G)) <= EdgesOf(G)

LEMMA EdgeCounted ==
  ASSUME NEW G \in Graph, EdgesCounted(G), NEW from \in Nodes, NEW to \in Nodes, NEW H,
         H = WithEdge(G, from, to)
  PROVE  H \in Graph /\ EdgesCounted(H) /\ EdgesOf(H) = EdgesOf(G) + 1
  <1>1. /\ H \in Graph /\ ToSet(H[from]) = ToSet(G[from]) \cup {to} /\ Len(H[from]) = Len(G[from]) + 1
        /\ \A n \in Nodes : n # from => H[n] = G[n]
    <2>1. OneEdgeMore(G, from, to, H)
      BY EdgeAdded
    <2> QED
      BY <2>1 DEF OneEdgeMore
  <1>2. \A n \in Nodes : Len(G[n]) \in Nat
    BY NeighborsAreNodes
  <1>3. PICK g, h, l : /\ g = [n \in Nodes |-> Len(G[n])] /\ h = [n \in Nodes |-> Len(H[n])]
                       /\ l = Len(G[from])
    OBVIOUS
  <1>4. g \in [Nodes -> Int] /\ l \in Nat /\ g[from] = l
    BY <1>2, <1>3
  <1>5. h = [g EXCEPT ![from] = l + 1]
    BY <1>1, <1>3
  <1>6. TotalOf(h) = TotalOf(g) - l + (l + 1)
    <2>1. l + 1 \in Int
      BY <1>4
    <2> QED
      BY <1>4, <1>5, <2>1, MonitorAssumption, TotalChanged
  <1>7. EdgesOf(H) = EdgesOf(G) + 1 /\ EdgesOf(G) \in Nat
    <2>1. TotalOf(g) \in Nat /\ TotalOf(g) = EdgesOf(G) /\ TotalOf(h) = EdgesOf(H)
      BY <1>3 DEF EdgesCounted, EdgesOf
    <2> QED
      BY <1>4, <1>6, <2>1
  <1>8. FewEdges(H, EdgesOf(H))
    <2>1. ASSUME NEW n \in Nodes PROVE Len(H[n]) <= EdgesOf(H)
      <3>1. Len(G[n]) <= EdgesOf(G) /\ Len(G[n]) \in Nat
        BY <1>2 DEF EdgesCounted, FewEdges
      <3>2. Len(H[n]) = Len(G[n]) \/ Len(H[n]) = Len(G[n]) + 1
        BY <1>1
      <3> QED
        BY <1>7, <3>1, <3>2
    <2> QED
      BY <2>1 DEF FewEdges
  <1>9. Targets(H) = Targets(G) \cup {to}
    <2>1. \A n \in Nodes : ToSet(H[n]) \subseteq Targets(G) \cup {to} /\ ToSet(G[n]) \subseteq ToSet(H[n])
      BY <1>1 DEF Targets
    <2>2. to \in ToSet(H[from])
      BY <1>1
    <2> QED
      BY <2>1, <2>2 DEF Targets
  <1>10. IsFiniteSet(Targets(H)) /\ Cardinality(Targets(H)) <= EdgesOf(H)
    <2>1. PICK T : T = Targets(G)
      OBVIOUS
    <2>2. IsFiniteSet(T) /\ Cardinality(T) \in Nat /\ Cardinality(T) <= EdgesOf(G)
      BY <2>1, FS_CardinalityType DEF EdgesCounted
    <2>3. /\ IsFiniteSet(T \cup {to})
          /\ Cardinality(T \cup {to}) = Cardinality(T) \/ Cardinality(T \cup {to}) = Cardinality(T) + 1
      BY <2>2, FS_AddElement
    <2>4. PICK a, b, e : a = Cardinality(T) /\ b = Cardinality(T \cup {to}) /\ e = EdgesOf(G)
      OBVIOUS
    <2>5. b <= e + 1
      BY <1>7, <2>2, <2>3, <2>4
    <2> QED
      BY <1>7, <1>9, <2>1, <2>3, <2>4, <2>5
  <1>11. EdgesOf(H) \in Nat
    BY <1>7
  <1> QED
    BY <1>1, <1>7, <1>8, <1>10, <1>11 DEF EdgesCounted

CyclesInv ==
    /\ dependencies \in Graph /\ EdgesCounted(dependencies)
    /\ EdgesOf(dependencies) <= MaxDependencies
    /\ circularDepDetected <=> Cyclic(dependencies)

LEMMA CyclesInit == MonitorInit => CyclesInv
  <1> SUFFICES ASSUME MonitorInit PROVE CyclesInv
    OBVIOUS
  <1>1. PICK G : G = dependencies
    OBVIOUS
  <1>2. G = [n \in Nodes |-> <<>>] /\ ~circularDepDetected
    BY <1>1 DEF MonitorInit
  <1>3. G \in Graph /\ \A n \in Nodes : Len(G[n]) = 0 /\ ToSet(G[n]) = {}
    BY <1>2 DEF Graph, ToSet
  <1>4. EdgesOf(G) = 0
    <2>1. PICK f : f = [n \in Nodes |-> Len(G[n])]
      OBVIOUS
    <2>2. f \in [Nodes -> Int] /\ \A n \in Nodes : f[n] = 0
      BY <1>3, <2>1
    <2>4. f = [n \in Nodes |-> 0]
      BY <2>2
    <2>3. TotalOf(f) = 0
      BY <2>2, <2>4, MonitorAssumption, TotalOfZeros
    <2> QED
      BY <2>1, <2>3 DEF EdgesOf
  <1>5. Targets(G) = {}
    BY <1>3 DEF Targets
  <1>6. EdgesCounted(G)
    <2>1. IsFiniteSet(Targets(G)) /\ Cardinality(Targets(G)) = 0
      BY <1>5, FS_EmptySet
    <2> QED
      BY <1>3, <1>4, <2>1 DEF EdgesCounted, FewEdges
  <1>7. ~Cyclic(G)
    <2>1. ASSUME NEW n \in Nodes PROVE LeadsTo(G, n) \subseteq {}
      <3>1. ToSet(G[n]) \subseteq {} /\ ClosedUnder(G, {}) /\ {} \in SUBSET Nodes
        BY <1>3 DEF ClosedUnder
      <3> QED
        BY <1>3, <3>1, LeadsToLeast
    <2> QED
      BY <2>1 DEF Cyclic
  <1>8. 0 <= MaxDependencies
    BY MonitorAssumption
  <1> QED
    BY <1>1, <1>2, <1>3, <1>4, <1>6, <1>7, <1>8 DEF CyclesInv

LEMMA CyclesStep == CyclesInv /\ [MonitorNext]_monitorVars => CyclesInv'
  <1> SUFFICES ASSUME CyclesInv, [MonitorNext]_monitorVars PROVE CyclesInv'
    OBVIOUS
  <1>1. CASE UNCHANGED graphVars
    <2>1. dependencies' = dependencies /\ circularDepDetected' = circularDepDetected
      BY <1>1 DEF graphVars
    <2> QED
      BY <2>1 DEF CyclesInv, EdgesCounted, EdgesOf, FewEdges, Targets, Cyclic, LeadsTo, ClosedUnder
  <1>2. ASSUME EdgeCount < MaxDependencies, NEW from \in Nodes, NEW to \in Nodes, AddDependency(from, to)
        PROVE  CyclesInv'
    <2>1. PICK G, H : G = dependencies /\ H = dependencies'
      OBVIOUS
    <2>2. /\ H = WithEdge(G, from, to)
          /\ circularDepDetected' <=> circularDepDetected \/ DetectCycle(H, from) # NoCycle
      BY <1>2, <2>1 DEF AddDependency, WithEdge
    <2>3. G \in Graph /\ EdgesCounted(G) /\ (circularDepDetected <=> Cyclic(G))
      BY <2>1 DEF CyclesInv
    <2>4. EdgesOf(G) < MaxDependencies
      BY <1>2, <2>1 DEF EdgeCount, EdgesOf, TotalOf
    <2>5. H \in Graph /\ EdgesCounted(H) /\ EdgesOf(H) = EdgesOf(G) + 1
      BY <2>2, <2>3, EdgeCounted
    <2>6. EdgesOf(H) <= MaxDependencies
      BY <2>3, <2>4, <2>5, MonitorAssumption DEF EdgesCounted
    <2>7. /\ DetectCycle(H, from) # NoCycle => Cyclic(H)
          /\ DetectCycle(H, from) = NoCycle => from \notin LeadsTo(H, from)
      <3>1. EdgesOf(H) \in Nat /\ FewEdges(H, EdgesOf(H))
        BY <2>5 DEF EdgesCounted
      <3> QED
        BY <2>5, <3>1, DetectsCycles
    <2>8. /\ Cyclic(G) => Cyclic(H)
          /\ Cyclic(H) /\ ~Cyclic(G) => from \in LeadsTo(H, from)
      BY <2>2, <2>3, CycleOfNewEdge
    <2>9. circularDepDetected' <=> Cyclic(H)
      BY <2>2, <2>3, <2>7, <2>8
    <2>10. /\ EdgesCounted(H) <=> EdgesCounted(dependencies)' 
           /\ Cyclic(H) <=> Cyclic(dependencies)'
           /\ EdgesOf(H) = EdgesOf(dependencies)'
      BY <2>1 DEF EdgesCounted, EdgesOf, FewEdges, Targets, Cyclic, LeadsTo, ClosedUnder
    <2> QED
      BY <2>1, <2>5, <2>6, <2>9, <2>10 DEF CyclesInv
  <1>3. CASE UNCHANGED monitorVars
    BY <1>1, <1>3 DEF monitorVars
  <1>4. CASE \/ \E alloc \in 0..MaxMemory : SampleMemory(alloc)
             \/ CheckMemory
             \/ \E count \in 1..MaxGoroutines : CheckGoroutineLeaks(count)
             \/ MonitorStops
             \/ \E c \in GuardedCalls : ExecuteWithProtection(c) \/ GuardAsks(c) \/ GuardedReturns(c)
    BY <1>1, <1>4 DEF SampleMemory, CheckMemory, CheckGoroutineLeaks, MonitorStops,
                      ExecuteWithProtection, GuardAsks, GuardedReturns
  <1> QED
    BY <1>2, <1>3, <1>4 DEF MonitorNext

\* For any nodes and edges, added in any order: the monitor says that there is a cycle exactly
\* when there is one (AddDependency and detectCycle, which searches from one node only).
THEOREM CyclesAlwaysNoticed == MonitorSpec => []CyclesNoticed
  <1>1. CyclesInv => CyclesNoticed
    <2> SUFFICES ASSUME CyclesInv PROVE CyclesNoticed
      OBVIOUS
    <2>1. IsFiniteSet(Targets(dependencies)) /\ Cardinality(Targets(dependencies)) <= MaxDependencies
      <3>1. Cardinality(Targets(dependencies)) \in Nat
        BY FS_CardinalityType DEF CyclesInv, EdgesCounted
      <3> QED
        BY <3>1, MonitorAssumption DEF CyclesInv, EdgesCounted
    <2>2. \A n \in Nodes : Reached(n) = LeadsTo(dependencies, n)
      BY <2>1, ReachedIsLeadsTo DEF CyclesInv
    <2> QED
      BY <2>2 DEF CyclesInv, CyclesNoticed, Cyclic
  <1> QED
    BY <1>1, CyclesInit, CyclesStep, PTL DEF MonitorSpec
===============================================================================
