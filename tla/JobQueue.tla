------------------------------- MODULE JobQueue -------------------------------
(***************************************************************************)
(* JobQueue: a priority queue of jobs with a limit, a waitChan that holds  *)
(* at most one wake-up token, and consumers blocked in DequeueWithContext. *)
(* Every method but DequeueWithContext is one critical section of q.mu;    *)
(* DequeueWithContext alternates between Dequeue and a select, and other   *)
(* calls come in between.                                                  *)
(*                                                                         *)
(* The heap is abstracted to the set of its items: container/heap keeps    *)
(* the item that is Less than the others first.                            *)
(***************************************************************************)
EXTENDS Naturals, FiniteSets

CONSTANTS
    QueuedJobs,     \* identities of the jobs that are enqueued
    Priorities,     \* the values of JobPriority
    Consumers,      \* goroutines that call DequeueWithContext
    QueueSize,      \* q.maxSize; 0 is unlimited
    Hints,          \* what the metadata of queued jobs may say, a subset of Hint
    JobTypes,       \* the values of livekit.JobType
    MaxEnqueues     \* bound on the calls of Enqueue that succeed

ASSUME QueueAssumption ==
    /\ Priorities \subseteq Nat /\ 0..3 \subseteq Priorities
    /\ QueueSize \in Nat /\ MaxEnqueues \in Nat
    /\ Hints \subseteq [field : BOOLEAN, word : STRING]

VARIABLES
    items,          \* q.items
    clock,          \* the time that passes, one tick for each Enqueue
    token,          \* whether q.waitChan holds its token
    queueClosed,    \* q.closed, and whether q.waitChan is closed
    consumer,       \* where each consumer is
    queuePanicked   \* whether q.waitChan was closed twice

queueVars == <<items, clock, token, queueClosed, consumer, queuePanicked>>

Item == [job : QueuedJobs, priority : Priorities, at : Nat]

ConsumerPc == {"out", "try", "wait"}

QueueTypeOK ==
    /\ items \subseteq Item
    /\ QueueSize > 0 => Cardinality(items) <= QueueSize
    /\ clock \in Nat
    /\ token \in BOOLEAN
    /\ queueClosed \in BOOLEAN
    /\ consumer \in [Consumers -> ConsumerPc]
    /\ queuePanicked \in BOOLEAN

QueueInit ==
    /\ items = {}
    /\ clock = 0
    /\ token = FALSE
    /\ queueClosed = FALSE
    /\ consumer = [c \in Consumers |-> "out"]
    /\ queuePanicked = FALSE

-------------------------------------------------------------------------------
(* The priority of a job. Its metadata is nothing, one of the words the    *)
(* default calculator knows, such a word behind "<PriorityField>:" (field), *)
(* or something else.                                                      *)

JobPriorityLow == 0
JobPriorityNormal == 1
JobPriorityHigh == 2
JobPriorityUrgent == 3

Words == {"urgent", "high-priority", "high", "low"}

Hint == [field : BOOLEAN, word : Words \cup {"", "other"}]

\* What QueueJob may find in the options: no calculator, or one of the two.
Calculators == {"nil", "default", "metadata"}

WordPriority(word) ==
    CASE word \in {"urgent", "high-priority"} -> JobPriorityUrgent
      [] word = "high" -> JobPriorityHigh
      [] word = "low" -> JobPriorityLow

\* DefaultPriorityCalculator: metadata it does not know leaves it to the type.
DefaultPriority(hint, type) ==
    IF ~hint.field /\ hint.word \in Words THEN WordPriority(hint.word)
    ELSE IF type = "JT_ROOM" THEN JobPriorityHigh ELSE JobPriorityNormal

\* MetadataPriorityCalculator: it has no "high-priority", and looks at no type.
MetadataPriority(hint) ==
    IF hint.field /\ hint.word \in Words \ {"high-priority"} THEN WordPriority(hint.word)
    ELSE JobPriorityNormal

CalculatePriority(calculator, hint, type) ==
    CASE calculator = "nil" -> JobPriorityNormal
      [] calculator = "default" -> DefaultPriority(hint, type)
      [] calculator = "metadata" -> MetadataPriority(hint)

-------------------------------------------------------------------------------
\* Higher priority first, then the older one.
Less(a, b) == a.priority > b.priority \/ (a.priority = b.priority /\ a.at < b.at)

IsFirst(i) == i \in items /\ \A o \in items \ {i} : Less(i, o)

\* Mutation of Signal: no token is sent.
SignalNobody == UNCHANGED token

\* The non-blocking send on waitChan.
Signal == token' = TRUE

Push(j, p) ==
    /\ clock < MaxEnqueues
    /\ items' = items \cup {[job |-> j, priority |-> p, at |-> clock]}
    /\ clock' = clock + 1
    /\ Signal
    /\ UNCHANGED <<queueClosed, consumer, queuePanicked>>

\* Mutation of Enqueue: the limit is passed by one.
EnqueueOneMore(j, p) ==
    /\ ~queueClosed
    /\ QueueSize > 0 => Cardinality(items) <= QueueSize
    /\ Push(j, p)

\* Enqueue(); it returns an error and changes nothing once the queue is closed or full.
Enqueue(j, p) ==
    /\ ~queueClosed
    /\ QueueSize > 0 => Cardinality(items) < QueueSize
    /\ Push(j, p)

\* UniversalWorker.QueueJob(): the priority is the calculator's.
QueueJob(j, hint, type) ==
    \E calculator \in Calculators : Enqueue(j, CalculatePriority(calculator, hint, type))

\* Dequeue() called by itself.
Dequeue ==
    /\ \E i \in items : IsFirst(i) /\ items' = items \ {i}
    /\ UNCHANGED <<clock, token, queueClosed, consumer, queuePanicked>>

RemoveJob(j) ==
    /\ \E i \in items : i.job = j /\ items' = items \ {i}
    /\ UNCHANGED <<clock, token, queueClosed, consumer, queuePanicked>>

Clear ==
    /\ items' = {}
    /\ UNCHANGED <<clock, token, queueClosed, consumer, queuePanicked>>

\* Close(): closing waitChan a second time panics.
CloseQueue ==
    /\ queueClosed' = TRUE
    /\ queuePanicked' = queueClosed
    /\ UNCHANGED <<items, clock, token, consumer>>

-------------------------------------------------------------------------------
(* What is asked of the queue, each under q.mu. *)

\* Peek() returns the item at the root of the heap, or none.
Peek == {i \in items : IsFirst(i)}

\* Size(), which Health and GetQueueStats of the worker report.
QueueLength == Cardinality(items)

GetJobsByPriority(p) == {i \in items : i.priority = p}

-------------------------------------------------------------------------------
(* DequeueWithContext(). *)

Move(c, from, to) == consumer[c] = from /\ consumer' = [consumer EXCEPT ![c] = to]

Call(c) ==
    /\ Move(c, "out", "try")
    /\ UNCHANGED <<items, clock, token, queueClosed, queuePanicked>>

\* Dequeue() finds an item, which is returned, or none.
Try(c) ==
    /\ \/ Move(c, "try", "out") /\ \E i \in items : IsFirst(i) /\ items' = items \ {i}
       \/ Move(c, "try", "wait") /\ items = {} /\ UNCHANGED items
    /\ UNCHANGED <<clock, token, queueClosed, queuePanicked>>

\* The receive from waitChan; from a closed one it always succeeds, and what was
\* buffered in it comes first.
Wake(c) ==
    /\ Move(c, "wait", "try")
    /\ token \/ queueClosed
    /\ token' = FALSE
    /\ UNCHANGED <<items, clock, queueClosed, queuePanicked>>

ContextDone(c) ==
    /\ Move(c, "wait", "out")
    /\ UNCHANGED <<items, clock, token, queueClosed, queuePanicked>>

-------------------------------------------------------------------------------
Consume(c) == Try(c) \/ Wake(c)

QueueNext ==
    \/ \E j \in QueuedJobs, p \in Priorities : Enqueue(j, p)
    \/ \E j \in QueuedJobs, hint \in Hints, type \in JobTypes : QueueJob(j, hint, type)
    \/ \E j \in QueuedJobs : RemoveJob(j)
    \/ Dequeue \/ Clear \/ CloseQueue
    \/ \E c \in Consumers : Call(c) \/ Consume(c) \/ ContextDone(c)

QueueSpec == QueueInit /\ [][~queuePanicked /\ QueueNext]_queueVars

-------------------------------------------------------------------------------
(* Properties. *)

\* However many consumers there are and however tokens coalesce, the queue never
\* holds jobs while all its consumers sleep for good: a token is there for one.
NotAllAsleep ==
    items # {} /\ Consumers # {} /\ (\A c \in Consumers : consumer[c] = "wait")
        => token \/ queueClosed

\* What the queue answers is one state of it: there is a next job exactly when the size
\* is not zero, it has the highest priority that has any job, and the jobs of all
\* priorities together are the size.
AnswersAgree ==
    /\ (Peek = {}) <=> (QueueLength = 0)
    /\ \A i \in Peek : \A p \in Priorities : GetJobsByPriority(p) # {} => p <= i.priority
    /\ UNION {GetJobsByPriority(p) : p \in Priorities} = items

\* Both calculators give a job what the comments above them list for its metadata:
\* a hint counts for more than the type, and what is no hint never makes a job urgent
\* or low.
HintsHonoured ==
    \A hint \in Hint, type \in JobTypes :
        /\ ~hint.field /\ hint.word = "low"
               => DefaultPriority(hint, type) < DefaultPriority([hint EXCEPT !.word = ""], type)
        /\ hint.field /\ hint.word = "urgent"
               => \A other \in Hint : MetadataPriority(other) <= MetadataPriority(hint)
        /\ hint.word \notin Words
               => {DefaultPriority(hint, type), MetadataPriority(hint)}
                      \subseteq {JobPriorityNormal, JobPriorityHigh}

\* DequeueWithContext "blocks until a job becomes available in the queue": while a
\* job is available and no other consumer is about to take it, no consumer sleeps.
AvailableJobWakes ==
    items # {} /\ (\E c \in Consumers : consumer[c] = "wait")
    /\ (\A c \in Consumers : consumer[c] # "try")
        => token \/ queueClosed
===============================================================================
