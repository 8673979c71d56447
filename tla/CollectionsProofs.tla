--------------------------- MODULE CollectionsProofs ---------------------------
(***************************************************************************)
(* Of the job queue, for any number of jobs, priorities and consumers and  *)
(* any limit: it never holds more than its limit, it never holds jobs      *)
(* while all its consumers sleep, what it answers is one state of it, and  *)
(* a job's hints count as they are documented to.  Of the resource pool, for any number of *)
(* users and of resources: each resource has one owner, and is alive; its  *)
(* counters agree with the channel and the loans; closed, it leaks nothing.*)
(***************************************************************************)
EXTENDS MCCollections, SharedLemmas

\* What type correctness rests on: the limit is one on a finite set.
QueueFinite == QueueTypeOK /\ IsFiniteSet(items)

LEMMA QueueInitCorrect == QueueInit => QueueFinite
  <1> SUFFICES ASSUME QueueInit PROVE QueueFinite
    OBVIOUS
  <1>1. IsFiniteSet(items) /\ Cardinality(items) = 0
    BY FS_EmptySet DEF QueueInit
  <1>2. QueueSize > 0 => Cardinality(items) <= QueueSize
    BY <1>1, QueueAssumption
  <1>3. token \in BOOLEAN /\ queueClosed \in BOOLEAN /\ queuePanicked \in BOOLEAN
    BY DEF QueueInit
  <1>4. items \subseteq Item /\ clock \in Nat /\ consumer \in [Consumers -> ConsumerPc]
    BY DEF QueueInit, ConsumerPc
  <1> QED
    BY <1>1, <1>2, <1>3, <1>4 DEF QueueFinite, QueueTypeOK

\* Taking one item out keeps the set finite and within its limit.
LEMMA ItemLeaves ==
  ASSUME QueueFinite, NEW i \in items, items' = items \ {i}
  PROVE  /\ items' \subseteq Item
         /\ IsFiniteSet(items')
         /\ QueueSize > 0 => Cardinality(items') <= QueueSize
  <1>1. IsFiniteSet(items') /\ Cardinality(items') = Cardinality(items) - 1
    BY FS_RemoveElement DEF QueueFinite
  <1>2. Cardinality(items) \in Nat
    BY FS_CardinalityType DEF QueueFinite
  <1> QED
    BY <1>1, <1>2, QueueAssumption DEF QueueFinite, QueueTypeOK

\* QueueJob is an Enqueue with one of the priorities, whatever the metadata.
LEMMA CalculatedIsPriority ==
  ASSUME NEW calculator \in Calculators, NEW hint, NEW type
  PROVE  CalculatePriority(calculator, hint, type) \in Priorities
  <1>1. ASSUME NEW word \in Words
        PROVE  WordPriority(word) \in 0..3
    BY <1>1 DEF WordPriority, Words, JobPriorityUrgent, JobPriorityHigh, JobPriorityLow
  <1>2. DefaultPriority(hint, type) \in 0..3
    BY <1>1 DEF DefaultPriority, JobPriorityHigh, JobPriorityNormal
  <1>3. MetadataPriority(hint) \in 0..3
    BY <1>1 DEF MetadataPriority, JobPriorityNormal
  <1> QED
    BY <1>2, <1>3, QueueAssumption DEF CalculatePriority, Calculators, JobPriorityNormal

LEMMA QueueJobEnqueues ==
  ASSUME NEW j \in QueuedJobs, NEW hint \in Hints, NEW type \in JobTypes,
         QueueJob(j, hint, type)
  PROVE  \E p \in Priorities : Enqueue(j, p)
  BY CalculatedIsPriority DEF QueueJob

LEMMA QueueStepCorrect ==
  ASSUME QueueFinite, [QueueNext]_queueVars
  PROVE  QueueFinite'
  <1> USE DEF QueueFinite, QueueTypeOK, ConsumerPc
  <1>1. ASSUME NEW j \in QueuedJobs, NEW p \in Priorities, Enqueue(j, p)
        PROVE  QueueFinite'
    <2> DEFINE new == [job |-> j, priority |-> p, at |-> clock]
    <2>1. new \in Item /\ items' = items \cup {new}
      BY <1>1 DEF Enqueue, Push, Item
    <2>2. /\ IsFiniteSet(items')
          /\ Cardinality(items') <= Cardinality(items) + 1
          /\ Cardinality(items) \in Nat
      <3>1. IsFiniteSet(items)
        OBVIOUS
      <3>2. Cardinality(items) \in Nat
        BY <3>1, FS_CardinalityType
      <3>3. /\ IsFiniteSet(items')
            /\ Cardinality(items') = IF new \in items THEN Cardinality(items)
                                     ELSE Cardinality(items) + 1
        BY <3>1, <2>1, FS_AddElement
      <3> QED
        BY <3>2, <3>3
    <2>3. QueueSize > 0 => Cardinality(items') <= QueueSize
      <3>1. QueueSize > 0 => Cardinality(items) < QueueSize
        BY <1>1 DEF Enqueue
      <3>2. Cardinality(items') \in Nat
        BY <2>2, FS_CardinalityType
      <3> QED
        BY <3>1, <3>2, <2>2, QueueAssumption
    <2> QED
      BY <1>1, <2>1, <2>2, <2>3 DEF Enqueue, Push, Signal
  <1>2. ASSUME NEW j \in QueuedJobs, RemoveJob(j)
        PROVE  QueueFinite'
    BY <1>2, ItemLeaves DEF RemoveJob
  <1>3. CASE Dequeue
    BY <1>3, ItemLeaves DEF Dequeue
  <1>4. CASE Clear
    BY <1>4, FS_EmptySet, QueueAssumption DEF Clear
  <1>5. CASE CloseQueue
    BY <1>5 DEF CloseQueue
  <1>6. ASSUME NEW c \in Consumers, Call(c) \/ Wake(c) \/ ContextDone(c)
        PROVE  QueueFinite'
    BY <1>6 DEF Call, Wake, ContextDone, Move
  <1>7. ASSUME NEW c \in Consumers, Try(c)
        PROVE  QueueFinite'
    BY <1>7, ItemLeaves DEF Try, Move
  <1>8. CASE UNCHANGED queueVars
    BY <1>8 DEF queueVars
  <1> QED
    BY <1>1, <1>2, <1>3, <1>4, <1>5, <1>6, <1>7, <1>8, QueueJobEnqueues DEF QueueNext, Consume

\* The queue is well typed, and never holds more jobs than its limit.
THEOREM QueueTypeCorrect == QueueSpec => []QueueTypeOK
  <1>1. QueueInit => QueueFinite
    BY QueueInitCorrect
  <1>2. QueueFinite /\ [~queuePanicked /\ QueueNext]_queueVars => QueueFinite'
    BY QueueStepCorrect
  <1>3. QueueFinite => QueueTypeOK
    BY DEF QueueFinite
  <1> QED
    BY <1>1, <1>2, <1>3, PTL DEF QueueSpec

-------------------------------------------------------------------------------
\* The queue never holds jobs while all its consumers sleep without a token for one of
\* them: Enqueue leaves a token with the item, and a consumer that takes it looks at the
\* queue before it sleeps again.
THEOREM ConsumersNeverAllAsleep == QueueSpec => []NotAllAsleep
  <1>1. QueueInit => NotAllAsleep
    BY DEF QueueInit, NotAllAsleep
  <1>2. ASSUME QueueTypeOK, NotAllAsleep, [QueueNext]_queueVars
        PROVE  NotAllAsleep'
    <2> USE <1>2 DEF NotAllAsleep, QueueTypeOK, ConsumerPc
    <2>1. ASSUME NEW j \in QueuedJobs, NEW p \in Priorities, Enqueue(j, p)
          PROVE  NotAllAsleep'
      BY <2>1 DEF Enqueue, Push, Signal
    <2>2. ASSUME NEW j \in QueuedJobs, RemoveJob(j)
          PROVE  NotAllAsleep'
      BY <2>2 DEF RemoveJob
    <2>3. CASE Dequeue \/ Clear \/ CloseQueue
      BY <2>3 DEF Dequeue, Clear, CloseQueue
    <2>4. ASSUME NEW c \in Consumers, Call(c) \/ ContextDone(c)
          PROVE  NotAllAsleep'
      <3>1. consumer'[c] # "wait"
        BY <2>4 DEF Call, ContextDone, Move
      <3> QED
        BY <3>1
    <2>5. ASSUME NEW c \in Consumers, Wake(c)
          PROVE  NotAllAsleep'
      <3>1. consumer'[c] # "wait"
        BY <2>5 DEF Wake, Move
      <3> QED
        BY <3>1
    <2>6. ASSUME NEW c \in Consumers, Try(c)
          PROVE  NotAllAsleep'
      <3>1. CASE Move(c, "try", "out")
        <4>1. consumer'[c] # "wait"
          BY <3>1 DEF Move
        <4> QED
          BY <4>1
      <3>2. CASE items = {} /\ UNCHANGED items
        BY <3>2
      <3> QED
        BY <2>6, <3>1, <3>2 DEF Try
    <2>7. CASE UNCHANGED queueVars
      BY <2>7 DEF queueVars
    <2> QED
      BY <2>1, <2>2, <2>3, <2>4, <2>5, <2>6, <2>7, QueueJobEnqueues DEF QueueNext, Consume
  <1>3. NotAllAsleep /\ QueueTypeOK /\ [~queuePanicked /\ QueueNext]_queueVars => NotAllAsleep'
    BY <1>2
  <1> QED
    BY <1>1, <1>3, QueueTypeCorrect, PTL DEF QueueSpec

-------------------------------------------------------------------------------
(* What the queue answers.  No two jobs came at the same time, so among any  *)
(* jobs there is one that is before the others: as the items are finitely    *)
(* many, one that the fewest are before.                                     *)

TimesDiffer ==
    /\ \A a \in items : a.at < clock
    /\ \A a, b \in items : a.at = b.at => a = b

Earlier(i) == {o \in items : Less(o, i)}

LEMMA LessOrders ==
  ASSUME NEW a \in Item, NEW b \in Item, NEW c \in Item
  PROVE  /\ ~Less(a, a)
         /\ Less(a, b) /\ Less(b, c) => Less(a, c)
         /\ a.at # b.at => Less(a, b) \/ Less(b, a)
  <1>1. \A i \in Item : i.priority \in Nat /\ i.at \in Nat
    BY QueueAssumption DEF Item
  <1> QED
    BY <1>1 DEF Less

LEMMA SomeIsFirst ==
  ASSUME QueueFinite, TimesDiffer, items # {}
  PROVE  \E i \in items : IsFirst(i)
  <1> DEFINE Sets == {Earlier(i) : i \in items}
  <1>1. IsFiniteSet(items) /\ \A i \in items : i \in Item
    BY DEF QueueFinite, QueueTypeOK
  <1>2. \A i \in items : Earlier(i) \in FiniteSubsetsOf(items)
    BY <1>1, FS_Subset DEF FiniteSubsetsOf, Earlier
  <1>3. Sets \subseteq FiniteSubsetsOf(items) /\ Sets # {}
    BY <1>2
  <1>4. PICK x \in Sets : \A y \in Sets : <<y, x>> \notin StrictSubsetOrdering(items)
    BY <1>3, FS_StrictSubsetOrderingWellFounded, WFMin
  <1>5. PICK i \in items : x = Earlier(i)
    BY <1>4
  <1>6. ASSUME NEW o \in Earlier(i)
        PROVE  FALSE
    <2>1. o \in items /\ Less(o, i)
      BY <1>6 DEF Earlier
    <2>2. Earlier(o) \subseteq Earlier(i)
      BY <1>1, <2>1, LessOrders DEF Earlier
    <2>3. o \notin Earlier(o)
      BY <1>1, <2>1, LessOrders DEF Earlier
    <2>4. Earlier(o) # Earlier(i) /\ Earlier(o) \in SUBSET items /\ Earlier(i) \in SUBSET items
      BY <1>6, <2>3 DEF Earlier
    <2>5. <<Earlier(o), Earlier(i)>> \in StrictSubsetOrdering(items)
      BY <2>2, <2>4 DEF StrictSubsetOrdering
    <2> QED
      BY <1>4, <1>5, <2>1, <2>5
  <1>7. ASSUME NEW o \in items \ {i}
        PROVE  Less(i, o)
    <2>1. ~Less(o, i)
      BY <1>6, <1>7 DEF Earlier
    <2>2. o.at # i.at
      BY <1>7 DEF TimesDiffer
    <2> QED
      BY <1>1, <1>7, <2>1, <2>2, LessOrders
  <1> QED
    BY <1>7 DEF IsFirst

LEMMA TimesDifferNext ==
  ASSUME QueueFinite, TimesDiffer, [QueueNext]_queueVars
  PROVE  TimesDiffer'
  <1> USE DEF TimesDiffer
  <1>1. ASSUME NEW j \in QueuedJobs, NEW p \in Priorities, Enqueue(j, p)
        PROVE  TimesDiffer'
    <2> DEFINE new == [job |-> j, priority |-> p, at |-> clock]
    <2>1. items' = items \cup {new} /\ clock' = clock + 1 /\ new.at = clock
      BY <1>1 DEF Enqueue, Push
    <2>2. clock \in Nat /\ \A a \in items : a.at \in Nat
      BY DEF QueueFinite, QueueTypeOK, Item
    <2> HIDE DEF new
    <2>3. \A a \in items : a.at < clock + 1 /\ a.at # clock
      BY <2>2
    <2> QED
      BY <2>1, <2>2, <2>3
  <1>2. ASSUME items' \subseteq items, UNCHANGED clock
        PROVE  TimesDiffer'
    BY <1>2
  <1>3. ASSUME NEW j \in QueuedJobs, RemoveJob(j) PROVE TimesDiffer'
    BY <1>2, <1>3 DEF RemoveJob
  <1>4. CASE Dequeue \/ Clear \/ CloseQueue
    BY <1>2, <1>4 DEF Dequeue, Clear, CloseQueue
  <1>5. ASSUME NEW c \in Consumers, Call(c) \/ Consume(c) \/ ContextDone(c) PROVE TimesDiffer'
    BY <1>2, <1>5 DEF Call, Consume, Try, Wake, ContextDone
  <1>6. CASE UNCHANGED queueVars
    BY <1>2, <1>6 DEF queueVars
  <1> QED
    BY <1>1, <1>3, <1>4, <1>5, <1>6, QueueJobEnqueues DEF QueueNext

\* For any number of jobs and priorities: Peek has a job exactly when the size is not
\* zero, no priority above the job's has any, and the jobs of all priorities are the items.
THEOREM AnswersAlwaysAgree == QueueSpec => []AnswersAgree
  <1> DEFINE Inv == QueueFinite /\ TimesDiffer
  <1>1. QueueInit => Inv
    BY QueueInitCorrect DEF QueueInit, TimesDiffer
  <1>2. Inv /\ [~queuePanicked /\ QueueNext]_queueVars => Inv'
    BY QueueStepCorrect, TimesDifferNext
  <1>3. Inv => AnswersAgree
    <2> SUFFICES ASSUME QueueFinite, TimesDiffer PROVE AnswersAgree
      OBVIOUS
    <2>1. (Peek = {}) <=> (QueueLength = 0)
      <3>1. items = {} <=> Cardinality(items) = 0
        BY FS_EmptySet DEF QueueFinite
      <3> QED
        BY <3>1, SomeIsFirst DEF Peek, QueueLength
    <2>2. \A i \in items : i.priority \in Priorities /\ i.priority \in Nat
      BY QueueAssumption DEF QueueFinite, QueueTypeOK, Item
    <2>3. ASSUME NEW i \in Peek, NEW p \in Priorities, GetJobsByPriority(p) # {}
          PROVE  p <= i.priority
      <3>1. i \in items /\ IsFirst(i)
        BY <2>3 DEF Peek
      <3>2. PICK o \in items : o.priority = p
        BY <2>3 DEF GetJobsByPriority
      <3>3. CASE o = i
        BY <2>2, <3>1, <3>2, <3>3
      <3>4. CASE o # i
        BY <2>2, <3>1, <3>2, <3>4 DEF IsFirst, Less
      <3> QED
        BY <3>3, <3>4
    <2>4. UNION {GetJobsByPriority(p) : p \in Priorities} = items
      BY <2>2 DEF GetJobsByPriority
    <2> QED
      BY <2>1, <2>3, <2>4 DEF AnswersAgree
  <1> QED
    BY <1>1, <1>2, <1>3, PTL DEF QueueSpec

\* Of every hint and job type: a hint counts for more than the type, and what is no hint
\* makes no job urgent or low.
THEOREM HintsAlwaysHonoured == HintsHonoured
  <1> USE DEF JobPriorityLow, JobPriorityNormal, JobPriorityHigh, JobPriorityUrgent
  <1>1. SUFFICES ASSUME NEW hint \in Hint, NEW type \in JobTypes
        PROVE  /\ ~hint.field /\ hint.word = "low"
                      => DefaultPriority(hint, type) < DefaultPriority([hint EXCEPT !.word = ""], type)
               /\ hint.field /\ hint.word = "urgent"
                      => \A other \in Hint : MetadataPriority(other) <= MetadataPriority(hint)
               /\ hint.word \notin Words
                      => {DefaultPriority(hint, type), MetadataPriority(hint)}
                             \subseteq {JobPriorityNormal, JobPriorityHigh}
    BY DEF HintsHonoured
  <1>2. ASSUME ~hint.field, hint.word = "low"
        PROVE  DefaultPriority(hint, type) < DefaultPriority([hint EXCEPT !.word = ""], type)
    <2> DEFINE other == [hint EXCEPT !.word = ""]
    <2>1. other.word = "" /\ "" \notin Words /\ "low" \in Words
      BY DEF Hint, Words
    <2>2. DefaultPriority(hint, type) = 0
      BY <1>2, <2>1 DEF DefaultPriority, WordPriority
    <2> HIDE DEF other
    <2>3. DefaultPriority(other, type) \in {1, 2}
      BY <2>1 DEF DefaultPriority
    <2>4. DefaultPriority(hint, type) < DefaultPriority(other, type)
      BY <2>2, <2>3
    <2> QED
      BY <2>4 DEF other
  <1>3. ASSUME hint.field, hint.word = "urgent", NEW other \in Hint
        PROVE  MetadataPriority(other) <= MetadataPriority(hint)
    <2>1. MetadataPriority(hint) = 3
      BY <1>3 DEF MetadataPriority, Words, WordPriority
    <2>2. MetadataPriority(other) \in 0..3
      BY DEF MetadataPriority, Words, WordPriority
    <2> QED
      BY <2>1, <2>2
  <1>4. ASSUME hint.word \notin Words
        PROVE  DefaultPriority(hint, type) \in {1, 2} /\ MetadataPriority(hint) \in {1, 2}
    BY <1>4 DEF DefaultPriority, MetadataPriority
  <1> QED
    BY <1>2, <1>3, <1>4

-------------------------------------------------------------------------------
(* The resource pool.  A resource is idle, held by a user, fresh from a      *)
(* goroutine of createAsync, or being removed by the cleanup.                *)

PoolTypes ==
    /\ idle \in Seq(Resources)
    /\ live \subseteq made /\ made \subseteq Resources
    /\ user \in [Users -> UserPc] /\ held \in [Users -> Holding]
    /\ creator \in [Creators -> CreatorPc] /\ fresh \in [Creators -> Holding]
    /\ removed \in Holding

IdleOnce == \A i, k \in DOMAIN idle : idle[i] = idle[k] => i = k

Spare == live \ IdleSet

HeldApart == \A u \in Users : held[u] # NoResource =>
    /\ held[u] \in Spare /\ held[u] # removed
    /\ \A v \in Users \ {u} : held[v] # held[u]
    /\ \A g \in Creators : fresh[g] # held[u]

FreshApart == \A g \in Creators : fresh[g] # NoResource =>
    /\ fresh[g] \in Spare /\ fresh[g] # removed
    /\ \A h \in Creators \ {g} : fresh[h] # fresh[g]

RemovedApart == removed # NoResource => removed \in Spare

\* Who is about to lend or to send a resource has one.
OwnersHold ==
    /\ \A u \in Users : user[u] \in {"count", "lent", "returning"} => held[u] # NoResource
    /\ \A g \in Creators : creator[g] \in {"lock", "send"} => fresh[g] # NoResource

PoolInv ==
    /\ PoolTypes /\ IdleOnce /\ IdleSet \subseteq live
    /\ HeldApart /\ FreshApart /\ RemovedApart /\ OwnersHold

LEMMA TailIdle ==
  ASSUME PoolInv, idle # <<>>, idle' = Tail(idle)
  PROVE  /\ idle' \in Seq(Resources) /\ IdleOnce'
         /\ Head(idle) \in IdleSet /\ IdleSet' = IdleSet \ {Head(idle)}
  <1> USE DEF PoolInv, PoolTypes, IdleOnce, IdleSet
  <1>1. /\ Len(idle) \in Nat \ {0} /\ DOMAIN idle = 1..Len(idle)
        /\ idle' \in Seq(Resources) /\ DOMAIN idle' = 1..(Len(idle) - 1)
        /\ \A i \in 1..(Len(idle) - 1) : idle'[i] = idle[i + 1]
        /\ Head(idle) = idle[1]
    OBVIOUS
  <1>2. IdleOnce'
    BY <1>1
  <1>3. \A x : x \in IdleSet' <=> x \in IdleSet /\ x # Head(idle)
    <2> SUFFICES ASSUME NEW x PROVE x \in IdleSet' <=> x \in IdleSet /\ x # Head(idle)
      OBVIOUS
    <2>1. ASSUME NEW i \in DOMAIN idle', x = idle'[i] PROVE x \in IdleSet /\ x # Head(idle)
      <3>1. i + 1 \in DOMAIN idle /\ 1 \in DOMAIN idle /\ x = idle[i + 1] /\ i + 1 # 1
        BY <1>1, <2>1
      <3> QED
        BY <1>1, <3>1
    <2>2. ASSUME NEW i \in DOMAIN idle, x = idle[i], x # Head(idle) PROVE x \in IdleSet'
      <3>1. i # 1 /\ i - 1 \in DOMAIN idle' /\ idle'[i - 1] = x
        BY <1>1, <2>2
      <3> QED
        BY <3>1
    <2> QED
      BY <2>1, <2>2
  <1>4. Head(idle) \in IdleSet
    <2>1. 1 \in DOMAIN idle
      BY <1>1
    <2> QED
      BY <1>1, <2>1
  <1> HIDE DEF IdleSet
  <1>5. IdleSet' = IdleSet \ {Head(idle)}
    BY <1>3
  <1> QED
    BY <1>1, <1>2, <1>4, <1>5

LEMMA AppendIdle ==
  ASSUME PoolInv, NEW r \in Resources, r \notin IdleSet, idle' = Append(idle, r)
  PROVE  idle' \in Seq(Resources) /\ IdleOnce' /\ IdleSet' = IdleSet \cup {r}
  <1> USE DEF PoolInv, PoolTypes, IdleOnce, IdleSet
  <1>1. /\ Len(idle) \in Nat /\ DOMAIN idle = 1..Len(idle)
        /\ idle' \in Seq(Resources) /\ DOMAIN idle' = 1..(Len(idle) + 1)
        /\ \A i \in 1..Len(idle) : idle'[i] = idle[i]
        /\ idle'[Len(idle) + 1] = r
    OBVIOUS
  <1>2. \A i \in DOMAIN idle' : i \in DOMAIN idle \/ i = Len(idle) + 1
    BY <1>1
  <1>3. IdleOnce'
    BY <1>1, <1>2
  <1>4. \A x : x \in IdleSet' <=> x \in IdleSet \/ x = r
    BY <1>1, <1>2
  <1> QED
    BY <1>1, <1>3, <1>4

LEMMA SameIdle ==
  ASSUME PoolInv, UNCHANGED idle
  PROVE  idle' \in Seq(Resources) /\ IdleOnce' /\ IdleSet' = IdleSet
  BY DEF PoolInv, PoolTypes, IdleOnce, IdleSet

LEMMA PoolInvInit == PoolInit => PoolInv
  <1> SUFFICES ASSUME PoolInit PROVE PoolInv
    OBVIOUS
  <1> USE PoolAssumption DEF PoolInit
  <1>1. PICK warm \in [1..MinSize -> Resources] :
          /\ \A i, k \in 1..MinSize : warm[i] = warm[k] => i = k
          /\ idle = warm /\ live = {warm[i] : i \in 1..MinSize} /\ made = live
    OBVIOUS
  <1>2. idle \in Seq(Resources) /\ DOMAIN idle = 1..MinSize
    BY <1>1
  <1>3. IdleOnce /\ IdleSet = live /\ made \subseteq Resources
    BY <1>1, <1>2 DEF IdleOnce, IdleSet
  <1>4. PoolTypes
    BY <1>1, <1>2, <1>3 DEF PoolTypes, UserPc, CreatorPc, Holding
  <1> QED
    BY <1>3, <1>4 DEF PoolInv, HeldApart, FreshApart, RemovedApart, OwnersHold

LEMMA AcquireKeeps ==
  ASSUME PoolInv, NEW u \in Users, Acquire(u)
  PROVE  PoolInv'
  <1> USE PoolAssumption DEF PoolInv, PoolTypes, Spare, HeldApart, FreshApart, RemovedApart,
        OwnersHold, UserPc, Holding, channelVars, counterVars, factoryVars, userVars,
        creatorVars, cleanerVars, closerVars, GoTo
  <1>1. CASE AcquireBegins(u)
    BY <1>1, SameIdle DEF AcquireBegins
  <1>2. CASE AcquireReceives(u)
    <2>1. CASE idle # <<>>
      <3>1. /\ held' = [held EXCEPT ![u] = Head(idle)] /\ held[u] \in Holding
            /\ user' = [user EXCEPT ![u] = "taken"] /\ idle' = Tail(idle)
            /\ UNCHANGED <<live, made, creator, fresh, removed>>
        BY <1>2, <2>1 DEF AcquireReceives
      <3>2. /\ idle' \in Seq(Resources) /\ IdleOnce'
            /\ Head(idle) \in IdleSet /\ IdleSet' = IdleSet \ {Head(idle)}
        BY <2>1, <3>1, TailIdle
      <3>3. Head(idle) \in Resources /\ Head(idle) \in live
        BY <3>2
      <3>4. PoolTypes' /\ (IdleSet \subseteq live)'
        BY <3>1, <3>2, <3>3
      <3>5. OwnersHold'
        BY <3>1, <3>3
      <3>6. HeldApart'
        BY <3>1, <3>2, <3>3
      <3>7. FreshApart' /\ RemovedApart'
        BY <3>1, <3>2
      <3> QED
        BY <3>2, <3>4, <3>5, <3>6, <3>7
    <2>2. CASE idle = <<>>
      BY <1>2, <2>2, SameIdle DEF AcquireReceives
    <2> QED
      BY <2>1, <2>2
  <1>3. CASE AcquireTakes(u)
    BY <1>3, SameIdle DEF AcquireTakes
  <1>4. CASE AcquireChecks(u)
    BY <1>4, SameIdle DEF AcquireChecks
  <1>5. CASE AcquireDestroys(u)
    BY <1>5, SameIdle DEF AcquireDestroys
  <1>6. CASE CreateNewLoads(u)
    BY <1>6, SameIdle DEF CreateNewLoads
  <1>7. CASE CreateNewCompares(u)
    BY <1>7, SameIdle DEF CreateNewCompares
  <1>8. CASE CreateNewCreates(u)
    BY <1>8, SameIdle DEF CreateNewCreates, Create
  <1>9. CASE AcquireReturns(u)
    BY <1>9, SameIdle DEF AcquireReturns
  <1> QED
    BY <1>1, <1>2, <1>3, <1>4, <1>5, <1>6, <1>7, <1>8, <1>9 DEF Acquire

LEMMA ReturnKeeps ==
  ASSUME PoolInv, NEW u \in Users, Return(u)
  PROVE  PoolInv'
  <1> USE PoolAssumption DEF PoolInv, PoolTypes, Spare, HeldApart, FreshApart, RemovedApart,
        OwnersHold, UserPc, CreatorPc, Holding, channelVars, counterVars, factoryVars, userVars,
        creatorVars, cleanerVars, closerVars, GoTo
  <1>1. CASE ReleaseSends(u)
    <2>1. held[u] \in Resources /\ held[u] \notin IdleSet
      BY <1>1 DEF ReleaseSends
    <2> QED
      BY <1>1, <2>1, AppendIdle DEF ReleaseSends
  <1>2. CASE ReleaseDestroys(u)
    BY <1>2, SameIdle DEF ReleaseDestroys, Destroy
  <1>3. CASE ReleaseUnhealthy(u)
    BY <1>3, SameIdle DEF ReleaseUnhealthy, Destroy
  <1>4. CASE ReplaceUnhealthy(u)
    BY <1>4, SameIdle DEF ReplaceUnhealthy
  <1>5. CASE ReleaseBegins(u) \/ ReleaseCounts(u) \/ ReplaceLoads(u)
    BY <1>5, SameIdle DEF ReleaseBegins, ReleaseCounts, ReplaceLoads
  <1> QED
    BY <1>1, <1>2, <1>3, <1>4, <1>5 DEF Return

LEMMA CreateAsyncKeeps ==
  ASSUME PoolInv, NEW g \in Creators, CreateAsync(g)
  PROVE  PoolInv'
  <1> USE PoolAssumption DEF PoolInv, PoolTypes, Spare, HeldApart, FreshApart, RemovedApart,
        OwnersHold, CreatorPc, Holding, channelVars, counterVars, factoryVars, userVars,
        creatorVars, cleanerVars, closerVars, CreatorGoes
  <1>1. CASE AsyncCreates(g)
    BY <1>1, SameIdle DEF AsyncCreates, Create
  <1>2. CASE AsyncChecks(g)
    BY <1>2, SameIdle DEF AsyncChecks
  <1>3. CASE AsyncSends(g)
    <2>1. fresh[g] \in Resources /\ fresh[g] \notin IdleSet
      BY <1>3 DEF AsyncSends
    <2>2. CASE ~chanClosed /\ Len(idle) < MaxSize
      <3>1. /\ fresh' = [fresh EXCEPT ![g] = NoResource]
            /\ creator' = [creator EXCEPT ![g] = "count"]
            /\ idle' = Append(idle, fresh[g])
            /\ UNCHANGED <<live, made, user, held, removed>>
        BY <1>3, <2>2 DEF AsyncSends
      <3>2. idle' \in Seq(Resources) /\ IdleOnce' /\ IdleSet' = IdleSet \cup {fresh[g]}
        BY <2>1, <3>1, AppendIdle
      <3>3. PoolTypes' /\ OwnersHold' /\ (IdleSet \subseteq live)'
        BY <2>1, <3>1, <3>2
      <3>4. HeldApart'
        BY <2>1, <3>1, <3>2
      <3>5. FreshApart' /\ RemovedApart'
        BY <2>1, <3>1, <3>2
      <3> QED
        BY <3>2, <3>3, <3>4, <3>5
    <2>3. CASE ~(~chanClosed /\ Len(idle) < MaxSize)
      BY <1>3, <2>1, <2>3, SameIdle DEF AsyncSends
    <2> QED
      BY <2>2, <2>3
  <1>4. CASE AsyncCounts(g)
    BY <1>4, SameIdle DEF AsyncCounts
  <1> QED
    BY <1>1, <1>2, <1>3, <1>4 DEF CreateAsync

LEMMA CleanupKeeps ==
  ASSUME PoolInv, Cleanup
  PROVE  PoolInv'
  <1> USE PoolAssumption DEF PoolInv, PoolTypes, Spare, HeldApart, FreshApart, RemovedApart,
        OwnersHold, Holding, channelVars, counterVars, factoryVars, userVars,
        creatorVars, cleanerVars, closerVars
  <1>1. CASE CleanupTicks
    BY <1>1, SameIdle DEF CleanupTicks
  <1>2. CASE CleanupReceives
    <2>1. CASE toRemove > 0 /\ idle # <<>>
      BY <1>2, <2>1, TailIdle DEF CleanupReceives
    <2>2. CASE ~(toRemove > 0 /\ idle # <<>>)
      BY <1>2, <2>2, SameIdle DEF CleanupReceives
    <2> QED
      BY <2>1, <2>2
  <1>3. CASE CleanupDestroys
    BY <1>3, SameIdle DEF CleanupDestroys
  <1>4. CASE CleanupStops
    BY <1>4, SameIdle DEF CleanupStops
  <1> QED
    BY <1>1, <1>2, <1>3, <1>4 DEF Cleanup

LEMMA CloseKeeps ==
  ASSUME PoolInv, ClosePool
  PROVE  PoolInv'
  <1> USE PoolAssumption DEF PoolInv, PoolTypes, Spare, HeldApart, FreshApart, RemovedApart,
        OwnersHold, Holding, channelVars, counterVars, factoryVars, userVars,
        creatorVars, cleanerVars, closerVars
  <1>1. CASE CloseBegins
    BY <1>1, SameIdle DEF CloseBegins
  <1>2. CASE CloseChannel
    BY <1>2, SameIdle DEF CloseChannel
  <1>3. CASE CloseDrains
    <2>1. CASE idle # <<>>
      BY <1>3, <2>1, TailIdle DEF CloseDrains
    <2>2. CASE idle = <<>>
      BY <1>3, <2>2, SameIdle DEF CloseDrains
    <2> QED
      BY <2>1, <2>2
  <1> QED
    BY <1>1, <1>2, <1>3 DEF ClosePool

LEMMA PoolInvNext == PoolInv /\ [~poolPanicked /\ PoolNext]_poolVars => PoolInv'
  <1> SUFFICES ASSUME PoolInv, [~poolPanicked /\ PoolNext]_poolVars PROVE PoolInv'
    OBVIOUS
  <1>1. CASE UNCHANGED poolVars
    BY <1>1, SameIdle DEF poolVars, PoolInv, PoolTypes, Spare, HeldApart, FreshApart,
      RemovedApart, OwnersHold, channelVars, counterVars, factoryVars, userVars,
      creatorVars, cleanerVars, closerVars
  <1>2. CASE PoolNext
    BY <1>2, AcquireKeeps, ReturnKeeps, CreateAsyncKeeps, CleanupKeeps, CloseKeeps DEF PoolNext
  <1> QED
    BY <1>1, <1>2

\* For any number of users, creators and resources and any sizes of the pool: the channel
\* never holds a resource twice, or one that a user holds or that was closed, and no two
\* users hold the same one, whatever Acquire, Release, createAsync, the cleanup and Close
\* do between each other's steps.
THEOREM ResourcesHaveOneOwner == PoolSpec => []OneOwner
  <1>1. PoolInv => OneOwner
    BY DEF PoolInv, PoolTypes, OneOwner, IdleOnce, HeldApart, OwnersHold, Spare
  <1> QED
    BY <1>1, PoolInvInit, PoolInvNext, PTL DEF PoolSpec

-------------------------------------------------------------------------------
(* What Close leaves.  A resource that is alive is somewhere, who is between *)
(* operations holds nothing, and a channel that was drained stays empty.     *)

Accounted == \A r \in live :
    r \in IdleSet \/ r = removed \/ (\E u \in Users : held[u] = r) \/ (\E g \in Creators : fresh[g] = r)

EmptyHanded ==
    /\ \A u \in Users :
        user[u] \notin {"taken", "check", "destroy", "count", "lent", "returning"} => held[u] = NoResource
    /\ \A g \in Creators : creator[g] \in {"off", "create", "count"} => fresh[g] = NoResource
    /\ cleaner # "count" => removed = NoResource

Drained ==
    /\ closer # "none" => poolClosed
    /\ closer \in {"drain", "done"} => chanClosed
    /\ closer = "done" /\ ~closeFailed => idle = <<>>

LeakInv == Accounted /\ EmptyHanded /\ Drained

LEMMA LeakInvInit == PoolInit => LeakInv
  <1> SUFFICES ASSUME PoolInit PROVE LeakInv
    OBVIOUS
  <1> USE PoolAssumption DEF PoolInit
  <1>1. PICK warm \in [1..MinSize -> Resources] :
          idle = warm /\ live = {warm[i] : i \in 1..MinSize}
    OBVIOUS
  <1>2. live = IdleSet
    BY <1>1 DEF IdleSet
  <1> QED
    BY <1>2 DEF LeakInv, Accounted, EmptyHanded, Drained

LEMMA AcquireLeaksNothing ==
  ASSUME PoolInv, LeakInv, NEW u \in Users, Acquire(u)
  PROVE  LeakInv'
  <1> USE PoolAssumption DEF PoolInv, PoolTypes, LeakInv, Accounted, EmptyHanded, Drained,
        UserPc, Holding, channelVars, counterVars, factoryVars, userVars,
        creatorVars, cleanerVars, closerVars, GoTo
  <1>1. CASE AcquireBegins(u)
    BY <1>1, SameIdle DEF AcquireBegins
  <1>2. CASE AcquireReceives(u)
    <2>1. CASE idle # <<>>
      <3>1. /\ held' = [held EXCEPT ![u] = Head(idle)] /\ held[u] = NoResource
            /\ user' = [user EXCEPT ![u] = "taken"] /\ idle' = Tail(idle)
            /\ UNCHANGED <<live, fresh, removed, creator, cleaner, closerVars, chanClosed>>
        BY <1>2, <2>1 DEF AcquireReceives
      <3>2. IdleSet' = IdleSet \ {Head(idle)} /\ NoResource \notin live
        BY <2>1, <3>1, TailIdle
      <3>3. Accounted'
        <4> SUFFICES ASSUME NEW r \in live PROVE Accounted!(r)'
          BY <3>1
        <4>1. CASE r = Head(idle)
          BY <3>1, <4>1
        <4>2. CASE \E v \in Users : held[v] = r
          BY <3>1, <3>2, <4>2
        <4> QED
          BY <3>1, <3>2, <4>1, <4>2
      <3>4. EmptyHanded' /\ Drained'
        BY <2>1, <3>1
      <3> QED
        BY <3>3, <3>4
    <2>2. CASE idle = <<>>
      BY <1>2, <2>2, SameIdle DEF AcquireReceives
    <2> QED
      BY <2>1, <2>2
  <1>3. CASE AcquireTakes(u)
    BY <1>3, SameIdle DEF AcquireTakes
  <1>4. CASE AcquireChecks(u)
    BY <1>4, SameIdle DEF AcquireChecks
  <1>5. CASE AcquireDestroys(u)
    BY <1>5, SameIdle DEF AcquireDestroys
  <1>6. CASE CreateNewLoads(u)
    BY <1>6, SameIdle DEF CreateNewLoads
  <1>7. CASE CreateNewCompares(u)
    BY <1>7, SameIdle DEF CreateNewCompares
  <1>8. CASE CreateNewCreates(u)
    BY <1>8, SameIdle DEF CreateNewCreates, Create
  <1>9. CASE AcquireReturns(u)
    BY <1>9, SameIdle DEF AcquireReturns
  <1> QED
    BY <1>1, <1>2, <1>3, <1>4, <1>5, <1>6, <1>7, <1>8, <1>9 DEF Acquire

LEMMA ReturnLeaksNothing ==
  ASSUME PoolInv, LeakInv, NEW u \in Users, Return(u)
  PROVE  LeakInv'
  <1> USE PoolAssumption DEF PoolInv, PoolTypes, LeakInv, Accounted, EmptyHanded, Drained,
        UserPc, CreatorPc, Holding, channelVars, counterVars, factoryVars, userVars,
        creatorVars, cleanerVars, closerVars, GoTo
  <1>1. CASE ReleaseSends(u)
    <2>1. held[u] \in Resources /\ held[u] \notin IdleSet
      BY <1>1 DEF ReleaseSends, OwnersHold, HeldApart, Spare
    <2>2. /\ held' = [held EXCEPT ![u] = NoResource] /\ user' = [user EXCEPT ![u] = "sent"]
          /\ idle' = Append(idle, held[u]) /\ ~poolClosed
          /\ UNCHANGED <<live, fresh, removed, creator, cleaner, closerVars, chanClosed>>
      BY <1>1 DEF ReleaseSends
    <2>3. IdleSet' = IdleSet \cup {held[u]}
      BY <2>1, <2>2, AppendIdle
    <2>4. Accounted'
      BY <2>2, <2>3
    <2>5. EmptyHanded' /\ Drained'
      BY <2>2
    <2> QED
      BY <2>4, <2>5
  <1>2. CASE ReleaseDestroys(u)
    BY <1>2, SameIdle DEF ReleaseDestroys, Destroy
  <1>3. CASE ReleaseUnhealthy(u)
    BY <1>3, SameIdle DEF ReleaseUnhealthy, Destroy
  <1>4. CASE ReplaceUnhealthy(u)
    BY <1>4, SameIdle DEF ReplaceUnhealthy
  <1>5. CASE ReleaseBegins(u) \/ ReleaseCounts(u) \/ ReplaceLoads(u)
    BY <1>5, SameIdle DEF ReleaseBegins, ReleaseCounts, ReplaceLoads
  <1> QED
    BY <1>1, <1>2, <1>3, <1>4, <1>5 DEF Return

LEMMA CreateAsyncLeaksNothing ==
  ASSUME PoolInv, LeakInv, NEW g \in Creators, CreateAsync(g)
  PROVE  LeakInv'
  <1> USE PoolAssumption DEF PoolInv, PoolTypes, LeakInv, Accounted, EmptyHanded, Drained,
        CreatorPc, Holding, channelVars, counterVars, factoryVars, userVars,
        creatorVars, cleanerVars, closerVars, CreatorGoes
  <1>1. CASE AsyncCreates(g)
    BY <1>1, SameIdle DEF AsyncCreates, Create
  <1>2. CASE AsyncChecks(g)
    BY <1>2, SameIdle DEF AsyncChecks
  <1>3. CASE AsyncSends(g)
    <2>1. fresh[g] \in Resources /\ fresh[g] \notin IdleSet
      BY <1>3 DEF AsyncSends, OwnersHold, FreshApart, Spare
    <2>2. CASE ~chanClosed /\ Len(idle) < MaxSize
      <3>1. /\ fresh' = [fresh EXCEPT ![g] = NoResource]
            /\ creator' = [creator EXCEPT ![g] = "count"]
            /\ idle' = Append(idle, fresh[g]) /\ ~chanClosed
            /\ UNCHANGED <<live, user, held, removed, cleaner, closerVars, chanClosed>>
        BY <1>3, <2>2 DEF AsyncSends
      <3>2. IdleSet' = IdleSet \cup {fresh[g]}
        BY <2>1, <3>1, AppendIdle
      <3>3. Accounted'
        BY <3>1, <3>2
      <3>4. EmptyHanded' /\ Drained'
        BY <3>1
      <3> QED
        BY <3>3, <3>4
    <2>3. CASE ~(~chanClosed /\ Len(idle) < MaxSize)
      BY <1>3, <2>1, <2>3, SameIdle DEF AsyncSends
    <2> QED
      BY <2>2, <2>3
  <1>4. CASE AsyncCounts(g)
    BY <1>4, SameIdle DEF AsyncCounts
  <1> QED
    BY <1>1, <1>2, <1>3, <1>4 DEF CreateAsync

LEMMA CleanupLeaksNothing ==
  ASSUME PoolInv, LeakInv, Cleanup \/ ClosePool
  PROVE  LeakInv'
  <1> USE PoolAssumption DEF PoolInv, PoolTypes, LeakInv, Accounted, EmptyHanded, Drained,
        Holding, channelVars, counterVars, factoryVars, userVars,
        creatorVars, cleanerVars, closerVars
  <1>1. CASE CleanupTicks
    BY <1>1, SameIdle DEF CleanupTicks
  <1>2. CASE CleanupReceives
    <2>1. CASE toRemove > 0 /\ idle # <<>>
      BY <1>2, <2>1, TailIdle DEF CleanupReceives
    <2>2. CASE ~(toRemove > 0 /\ idle # <<>>)
      BY <1>2, <2>2, SameIdle DEF CleanupReceives
    <2> QED
      BY <2>1, <2>2
  <1>3. CASE CleanupDestroys
    BY <1>3, SameIdle DEF CleanupDestroys
  <1>4. CASE CleanupStops
    BY <1>4, SameIdle DEF CleanupStops
  <1>5. CASE CloseBegins
    BY <1>5, SameIdle DEF CloseBegins
  <1>6. CASE CloseChannel
    BY <1>6, SameIdle DEF CloseChannel
  <1>7. CASE CloseDrains
    <2>1. CASE idle # <<>>
      BY <1>7, <2>1, TailIdle DEF CloseDrains
    <2>2. CASE idle = <<>>
      BY <1>7, <2>2, SameIdle DEF CloseDrains
    <2> QED
      BY <2>1, <2>2
  <1> QED
    BY <1>1, <1>2, <1>3, <1>4, <1>5, <1>6, <1>7 DEF Cleanup, ClosePool

LEMMA LeakInvNext ==
  PoolInv /\ LeakInv /\ [~poolPanicked /\ PoolNext]_poolVars => LeakInv'
  <1> SUFFICES ASSUME PoolInv, LeakInv, [~poolPanicked /\ PoolNext]_poolVars PROVE LeakInv'
    OBVIOUS
  <1>1. CASE UNCHANGED poolVars
    BY <1>1, SameIdle DEF poolVars, LeakInv, Accounted, EmptyHanded, Drained, channelVars,
      counterVars, factoryVars, userVars, creatorVars, cleanerVars, closerVars
  <1>2. CASE PoolNext
    BY <1>2, AcquireLeaksNothing, ReturnLeaksNothing, CreateAsyncLeaksNothing,
      CleanupLeaksNothing DEF PoolNext
  <1> QED
    BY <1>1, <1>2

\* For any number of users, creators and resources: when Close is through without an error
\* and no operation is under way, what is not closed is lent to a user.
THEOREM ClosedLeaksNothing == PoolSpec => []ClosedPoolLeaksNothing
  <1>1. PoolInv /\ LeakInv => ClosedPoolLeaksNothing
    <2> SUFFICES ASSUME PoolInv, LeakInv, Quiet, closer = "done", ~closeFailed, NEW r \in live
                 PROVE  \E u \in Users : held[u] = r
      BY DEF ClosedPoolLeaksNothing
    <2>1. idle = <<>> /\ IdleSet = {}
      BY DEF LeakInv, Drained, IdleSet
    <2>2. removed = NoResource /\ \A g \in Creators : fresh[g] = NoResource
      BY DEF LeakInv, EmptyHanded, Quiet
    <2>3. r # NoResource
      BY PoolAssumption DEF PoolInv, PoolTypes
    <2> QED
      BY <2>1, <2>2, <2>3 DEF LeakInv, Accounted
  <1> QED
    BY <1>1, PoolInvInit, PoolInvNext, LeakInvInit, LeakInvNext, PTL DEF PoolSpec

-------------------------------------------------------------------------------
(* The counters.  Each is what the channel and the users show, but for the  *)
(* goroutines between a channel operation and the atomic one that follows.  *)

Lent == {u \in Users : user[u] = "lent"}
Takers == {u \in Users : user[u] = "taken"}
Returners == {u \in Users : user[u] = "sent"}
Senders == {g \in Creators : creator[g] = "count"}
Removers == IF cleaner = "count" THEN 1 ELSE 0

InUseCounts == IsFiniteSet(Lent) /\ inUse = Cardinality(Lent)

AvailableCounts ==
    /\ IsFiniteSet(Takers) /\ IsFiniteSet(Returners) /\ IsFiniteSet(Senders)
    /\ available = Len(idle) + Cardinality(Takers) - Cardinality(Returners)
                     - Cardinality(Senders) + Removers

CounterInv ==
    /\ InUseCounts
    /\ chanClosed => poolClosed
    /\ ~poolClosed => AvailableCounts

LEMMA CounterInvInit == PoolInit => CounterInv
  <1> SUFFICES ASSUME PoolInit PROVE CounterInv
    OBVIOUS
  <1>1. Lent = {} /\ Takers = {} /\ Returners = {} /\ Senders = {}
    BY DEF PoolInit, Lent, Takers, Returners, Senders
  <1>2. IsFiniteSet({}) /\ Cardinality({}) = 0
    BY FS_EmptySet
  <1>3. available = MinSize /\ inUse = 0 /\ ~chanClosed /\ Removers = 0
    BY DEF PoolInit, Removers
  <1>4. MinSize \in Nat /\ Len(idle) = MinSize
    <2>1. PICK warm \in [1..MinSize -> Resources] : idle = warm
      BY DEF PoolInit
    <2> QED
      BY <2>1, PoolAssumption
  <1> QED
    BY <1>1, <1>2, <1>3, <1>4 DEF CounterInv, InUseCounts, AvailableCounts

\* What a step of one user, or of one goroutine of createAsync, does to the counts.
LEMMA LentCounts ==
  ASSUME PoolInv, IsFiniteSet(Lent), NEW u \in Users, NEW from, NEW to, GoTo(u, from, to)
  PROVE  /\ "lent" \notin {from, to} => Lent' = Lent
         /\ to = "lent" /\ from # "lent" =>
              IsFiniteSet(Lent') /\ Cardinality(Lent') = Cardinality(Lent) + 1
         /\ to # "lent" /\ from = "lent" =>
              IsFiniteSet(Lent') /\ Cardinality(Lent') = Cardinality(Lent) - 1
  <1>1. /\ user \in [Users -> UserPc] /\ user[u] = from
        /\ user' = [user EXCEPT ![u] = to]
    BY DEF PoolInv, PoolTypes, GoTo
  <1>2. ASSUME to = "lent", from # "lent"
        PROVE  IsFiniteSet(Lent') /\ Cardinality(Lent') = Cardinality(Lent) + 1
    <2>1. Lent' = Lent \cup {u} /\ u \notin Lent
      BY <1>1, <1>2 DEF Lent
    <2> QED
      BY <2>1, FS_AddElement
  <1>3. ASSUME to # "lent", from = "lent"
        PROVE  IsFiniteSet(Lent') /\ Cardinality(Lent') = Cardinality(Lent) - 1
    <2>1. Lent' = Lent \ {u} /\ u \in Lent
      BY <1>1, <1>3 DEF Lent
    <2> QED
      BY <2>1, FS_RemoveElement
  <1>4. ASSUME "lent" \notin {from, to} PROVE Lent' = Lent
    BY <1>1, <1>4 DEF Lent
  <1> QED
    BY <1>2, <1>3, <1>4

LEMMA TakersCount ==
  ASSUME PoolInv, IsFiniteSet(Takers), NEW u \in Users, NEW from, NEW to, GoTo(u, from, to)
  PROVE  /\ "taken" \notin {from, to} => Takers' = Takers
         /\ to = "taken" /\ from # "taken" =>
              IsFiniteSet(Takers') /\ Cardinality(Takers') = Cardinality(Takers) + 1
         /\ to # "taken" /\ from = "taken" =>
              IsFiniteSet(Takers') /\ Cardinality(Takers') = Cardinality(Takers) - 1
  <1>1. /\ user \in [Users -> UserPc] /\ user[u] = from
        /\ user' = [user EXCEPT ![u] = to]
    BY DEF PoolInv, PoolTypes, GoTo
  <1>2. ASSUME to = "taken", from # "taken"
        PROVE  IsFiniteSet(Takers') /\ Cardinality(Takers') = Cardinality(Takers) + 1
    <2>1. Takers' = Takers \cup {u} /\ u \notin Takers
      BY <1>1, <1>2 DEF Takers
    <2> QED
      BY <2>1, FS_AddElement
  <1>3. ASSUME to # "taken", from = "taken"
        PROVE  IsFiniteSet(Takers') /\ Cardinality(Takers') = Cardinality(Takers) - 1
    <2>1. Takers' = Takers \ {u} /\ u \in Takers
      BY <1>1, <1>3 DEF Takers
    <2> QED
      BY <2>1, FS_RemoveElement
  <1>4. ASSUME "taken" \notin {from, to} PROVE Takers' = Takers
    BY <1>1, <1>4 DEF Takers
  <1> QED
    BY <1>2, <1>3, <1>4

LEMMA ReturnersCount ==
  ASSUME PoolInv, IsFiniteSet(Returners), NEW u \in Users, NEW from, NEW to, GoTo(u, from, to)
  PROVE  /\ "sent" \notin {from, to} => Returners' = Returners
         /\ to = "sent" /\ from # "sent" =>
              IsFiniteSet(Returners') /\ Cardinality(Returners') = Cardinality(Returners) + 1
         /\ to # "sent" /\ from = "sent" =>
              IsFiniteSet(Returners') /\ Cardinality(Returners') = Cardinality(Returners) - 1
  <1>1. /\ user \in [Users -> UserPc] /\ user[u] = from
        /\ user' = [user EXCEPT ![u] = to]
    BY DEF PoolInv, PoolTypes, GoTo
  <1>2. ASSUME to = "sent", from # "sent"
        PROVE  IsFiniteSet(Returners') /\ Cardinality(Returners') = Cardinality(Returners) + 1
    <2>1. Returners' = Returners \cup {u} /\ u \notin Returners
      BY <1>1, <1>2 DEF Returners
    <2> QED
      BY <2>1, FS_AddElement
  <1>3. ASSUME to # "sent", from = "sent"
        PROVE  IsFiniteSet(Returners') /\ Cardinality(Returners') = Cardinality(Returners) - 1
    <2>1. Returners' = Returners \ {u} /\ u \in Returners
      BY <1>1, <1>3 DEF Returners
    <2> QED
      BY <2>1, FS_RemoveElement
  <1>4. ASSUME "sent" \notin {from, to} PROVE Returners' = Returners
    BY <1>1, <1>4 DEF Returners
  <1> QED
    BY <1>2, <1>3, <1>4

LEMMA SendersCount ==
  ASSUME PoolInv, IsFiniteSet(Senders), NEW g \in Creators, NEW from, NEW to, CreatorGoes(g, from, to)
  PROVE  /\ "count" \notin {from, to} => Senders' = Senders
         /\ to = "count" /\ from # "count" =>
              IsFiniteSet(Senders') /\ Cardinality(Senders') = Cardinality(Senders) + 1
         /\ to # "count" /\ from = "count" =>
              IsFiniteSet(Senders') /\ Cardinality(Senders') = Cardinality(Senders) - 1
  <1>1. /\ creator \in [Creators -> CreatorPc] /\ creator[g] = from
        /\ creator' = [creator EXCEPT ![g] = to]
    BY DEF PoolInv, PoolTypes, CreatorGoes
  <1>2. ASSUME to = "count", from # "count"
        PROVE  IsFiniteSet(Senders') /\ Cardinality(Senders') = Cardinality(Senders) + 1
    <2>1. Senders' = Senders \cup {g} /\ g \notin Senders
      BY <1>1, <1>2 DEF Senders
    <2> QED
      BY <2>1, FS_AddElement
  <1>3. ASSUME to # "count", from = "count"
        PROVE  IsFiniteSet(Senders') /\ Cardinality(Senders') = Cardinality(Senders) - 1
    <2>1. Senders' = Senders \ {g} /\ g \in Senders
      BY <1>1, <1>3 DEF Senders
    <2> QED
      BY <2>1, FS_RemoveElement
  <1>4. ASSUME "count" \notin {from, to} PROVE Senders' = Senders
    BY <1>1, <1>4 DEF Senders
  <1> QED
    BY <1>2, <1>3, <1>4

\* A step of a user that leaves the channel and both counters alone.
LEMMA UserCountsNothing ==
  ASSUME PoolInv, CounterInv, NEW u \in Users, NEW from, NEW to, GoTo(u, from, to),
         {"lent", "taken", "sent"} \cap {from, to} = {},
         UNCHANGED <<idle, chanClosed, available, inUse, creator, cleaner, poolClosed>>
  PROVE  CounterInv'
  <1>1. Lent' = Lent /\ Senders' = Senders /\ Removers' = Removers
    BY LentCounts DEF CounterInv, InUseCounts, Senders, Removers
  <1>2. ASSUME ~poolClosed PROVE Takers' = Takers /\ Returners' = Returners
    BY <1>2, TakersCount, ReturnersCount DEF CounterInv, AvailableCounts
  <1> QED
    BY <1>1, <1>2 DEF CounterInv, InUseCounts, AvailableCounts


LEMMA CountsAreNumbers ==
  ASSUME PoolInv
  PROVE  /\ Len(idle) \in Nat /\ Removers \in {0, 1}
         /\ IsFiniteSet(Lent) => Cardinality(Lent) \in Nat
         /\ IsFiniteSet(Takers) => Cardinality(Takers) \in Nat
         /\ IsFiniteSet(Returners) => Cardinality(Returners) \in Nat
         /\ IsFiniteSet(Senders) => Cardinality(Senders) \in Nat
  BY FS_CardinalityType DEF PoolInv, PoolTypes, Removers

LEMMA AcquireCounts ==
  ASSUME PoolInv, CounterInv, NEW u \in Users, Acquire(u)
  PROVE  CounterInv'
  <1> USE DEF CounterInv, InUseCounts, channelVars, counterVars, factoryVars, userVars,
        creatorVars, cleanerVars, closerVars
  <1> DEFINE Same == UNCHANGED <<Senders, Removers, poolClosed, chanClosed>>
  <1>1. ASSUME AcquireReceives(u) PROVE CounterInv'
    <2>1. Same /\ inUse' = inUse /\ available' = available
      BY <1>1 DEF AcquireReceives, Senders, Removers
    <2>2. Lent' = Lent
      BY <1>1, LentCounts DEF AcquireReceives
    <2>3. ASSUME ~poolClosed, idle # <<>> PROVE AvailableCounts'
      <3>1. IsFiniteSet(Takers') /\ Cardinality(Takers') = Cardinality(Takers) + 1
        BY <1>1, <2>3, TakersCount DEF AcquireReceives, AvailableCounts
      <3>2. Len(idle') = Len(idle) - 1
        BY <1>1, <2>3 DEF AcquireReceives, PoolInv, PoolTypes
      <3>3. Returners' = Returners
        BY <1>1, <2>3, ReturnersCount DEF AcquireReceives, AvailableCounts
      <3> QED
        BY <2>1, <2>3, <3>1, <3>2, <3>3, CountsAreNumbers DEF AvailableCounts
    <2>4. ASSUME ~poolClosed, idle = <<>> PROVE AvailableCounts'
      <3>1. GoTo(u, "receive", "size") /\ UNCHANGED idle
        BY <1>1, <2>4 DEF AcquireReceives
      <3>2. Takers' = Takers /\ Returners' = Returners
        BY <2>4, <3>1, TakersCount, ReturnersCount DEF AvailableCounts
      <3> QED
        BY <2>1, <2>4, <3>1, <3>2 DEF AvailableCounts
    <2> QED
      BY <2>1, <2>2, <2>3, <2>4
  <1>2. ASSUME AcquireTakes(u) PROVE CounterInv'
    <2>1. Same /\ UNCHANGED <<inUse, idle>> /\ available' = available - 1
      BY <1>2 DEF AcquireTakes, Senders, Removers
    <2>2. Lent' = Lent
      BY <1>2, LentCounts DEF AcquireTakes
    <2>3. ASSUME ~poolClosed PROVE AvailableCounts'
      <3>1. IsFiniteSet(Takers') /\ Cardinality(Takers') = Cardinality(Takers) - 1
        BY <1>2, <2>3, TakersCount DEF AcquireTakes, AvailableCounts
      <3>2. Returners' = Returners
        BY <1>2, <2>3, ReturnersCount DEF AcquireTakes, AvailableCounts
      <3> QED
        BY <2>1, <2>3, <3>1, <3>2, CountsAreNumbers DEF AvailableCounts
    <2> QED
      BY <2>1, <2>2, <2>3
  <1>3. ASSUME AcquireReturns(u) PROVE CounterInv'
    <2>1. Same /\ UNCHANGED <<available, idle>> /\ inUse' = inUse + 1
      BY <1>3 DEF AcquireReturns, Senders, Removers
    <2>2. IsFiniteSet(Lent') /\ Cardinality(Lent') = Cardinality(Lent) + 1
      BY <1>3, LentCounts DEF AcquireReturns
    <2>3. ASSUME ~poolClosed PROVE AvailableCounts'
      <3>1. Takers' = Takers /\ Returners' = Returners
        BY <1>3, <2>3, TakersCount, ReturnersCount DEF AcquireReturns, AvailableCounts
      <3> QED
        BY <2>1, <2>3, <3>1 DEF AvailableCounts
    <2> QED
      BY <2>1, <2>2, <2>3
  <1>4. ASSUME AcquireDestroys(u) PROVE CounterInv'
    <2>1. CASE UNCHANGED user
      BY <1>4, <2>1 DEF AcquireDestroys, AvailableCounts, Lent, Takers, Returners, Senders,
         Removers
    <2>2. CASE GoTo(u, "destroy", "size") \/ GoTo(u, "destroy", "out")
      BY <1>4, <2>2, UserCountsNothing DEF AcquireDestroys
    <2> QED
      BY <1>4, <2>1, <2>2 DEF AcquireDestroys
  <1>5. ASSUME AcquireBegins(u) PROVE CounterInv'
    BY <1>5, UserCountsNothing DEF AcquireBegins
  <1>6. ASSUME AcquireChecks(u) PROVE CounterInv'
    BY <1>6, UserCountsNothing DEF AcquireChecks
  <1>7. ASSUME CreateNewLoads(u) PROVE CounterInv'
    BY <1>7, UserCountsNothing DEF CreateNewLoads
  <1>8. ASSUME CreateNewCompares(u) PROVE CounterInv'
    BY <1>8, UserCountsNothing DEF CreateNewCompares
  <1>9. ASSUME CreateNewCreates(u) PROVE CounterInv'
    BY <1>9, UserCountsNothing DEF CreateNewCreates
  <1> QED
    BY <1>1, <1>2, <1>3, <1>4, <1>5, <1>6, <1>7, <1>8, <1>9 DEF Acquire

LEMMA ReturnCounts ==
  ASSUME PoolInv, CounterInv, NEW u \in Users, Return(u)
  PROVE  CounterInv'
  <1> USE DEF CounterInv, InUseCounts, channelVars, counterVars, factoryVars, userVars,
        creatorVars, cleanerVars, closerVars
  <1> DEFINE Same == UNCHANGED <<Senders, Removers, poolClosed, chanClosed>>
  <1>1. ASSUME ReleaseBegins(u) PROVE CounterInv'
    <2>1. Same /\ UNCHANGED <<available, idle>> /\ inUse' = inUse - 1
      BY <1>1 DEF ReleaseBegins, Senders, Removers
    <2>2. IsFiniteSet(Lent') /\ Cardinality(Lent') = Cardinality(Lent) - 1
      BY <1>1, LentCounts DEF ReleaseBegins
    <2>3. ASSUME ~poolClosed PROVE AvailableCounts'
      <3>1. Takers' = Takers /\ Returners' = Returners
        BY <1>1, <2>3, TakersCount, ReturnersCount DEF ReleaseBegins, AvailableCounts
      <3> QED
        BY <2>1, <2>3, <3>1 DEF AvailableCounts
    <2> QED
      BY <2>1, <2>2, <2>3
  <1>2. ASSUME ReleaseSends(u) PROVE CounterInv'
    <2>1. Same /\ UNCHANGED <<available, inUse>> /\ ~poolClosed
      BY <1>2 DEF ReleaseSends, Senders, Removers
    <2>2. Lent' = Lent
      BY <1>2, LentCounts DEF ReleaseSends
    <2>3. Takers' = Takers
      BY <1>2, <2>1, TakersCount DEF ReleaseSends, AvailableCounts
    <2>4. IsFiniteSet(Returners') /\ Cardinality(Returners') = Cardinality(Returners) + 1
      BY <1>2, <2>1, ReturnersCount DEF ReleaseSends, AvailableCounts
    <2>5. held[u] \in Resources
      BY <1>2 DEF ReleaseSends, GoTo, PoolInv, PoolTypes, OwnersHold, Holding
    <2>6. Len(idle') = Len(idle) + 1
      BY <1>2, <2>5 DEF ReleaseSends, PoolInv, PoolTypes
    <2>7. AvailableCounts'
      BY <2>1, <2>3, <2>4, <2>6, CountsAreNumbers DEF AvailableCounts
    <2> QED
      BY <2>1, <2>2, <2>7
  <1>3. ASSUME ReleaseCounts(u) PROVE CounterInv'
    <2>1. Same /\ UNCHANGED <<idle, inUse>> /\ available' = available + 1
      BY <1>3 DEF ReleaseCounts, Senders, Removers
    <2>2. Lent' = Lent
      BY <1>3, LentCounts DEF ReleaseCounts
    <2>3. ASSUME ~poolClosed PROVE AvailableCounts'
      <3>1. Takers' = Takers
        BY <1>3, <2>3, TakersCount DEF ReleaseCounts, AvailableCounts
      <3>2. IsFiniteSet(Returners') /\ Cardinality(Returners') = Cardinality(Returners) - 1
        BY <1>3, <2>3, ReturnersCount DEF ReleaseCounts, AvailableCounts
      <3> QED
        BY <2>1, <2>3, <3>1, <3>2, CountsAreNumbers DEF AvailableCounts
    <2> QED
      BY <2>1, <2>2, <2>3
  <1>4. ASSUME ReleaseDestroys(u) PROVE CounterInv'
    BY <1>4, UserCountsNothing DEF ReleaseDestroys, Destroy
  <1>5. ASSUME ReleaseUnhealthy(u) PROVE CounterInv'
    BY <1>5, UserCountsNothing DEF ReleaseUnhealthy, Destroy
  <1>6. ASSUME ReplaceLoads(u) PROVE CounterInv'
    BY <1>6, UserCountsNothing DEF ReplaceLoads
  <1>7. ASSUME ReplaceUnhealthy(u) PROVE CounterInv'
    <2>1. Lent' = Lent /\ Removers' = Removers
      BY <1>7, LentCounts DEF ReplaceUnhealthy, Removers
    <2>2. Senders' = Senders
      BY <1>7 DEF ReplaceUnhealthy, Senders, PoolInv, PoolTypes
    <2>3. ~poolClosed => Takers' = Takers /\ Returners' = Returners
      BY <1>7, TakersCount, ReturnersCount DEF ReplaceUnhealthy, AvailableCounts
    <2> QED
      BY <1>7, <2>1, <2>2, <2>3 DEF ReplaceUnhealthy, AvailableCounts
  <1> QED
    BY <1>1, <1>2, <1>3, <1>4, <1>5, <1>6, <1>7 DEF Return


LEMMA CreateAsyncCounts ==
  ASSUME PoolInv, CounterInv, NEW g \in Creators, CreateAsync(g)
  PROVE  CounterInv'
  <1> USE DEF CounterInv, InUseCounts, channelVars, counterVars, factoryVars, userVars,
        creatorVars, cleanerVars, closerVars
  <1>1. /\ UNCHANGED <<Lent, Takers, Returners, Removers, inUse, poolClosed, chanClosed>>
        /\ InUseCounts'
    BY DEF CreateAsync, AsyncCreates, AsyncChecks, AsyncSends, AsyncCounts, Lent, Takers, Returners,
      Removers
  <1>2. CASE AsyncSends(g) /\ Len(idle) < MaxSize /\ ~poolClosed
    <2>1. fresh[g] \in Resources
      BY <1>2 DEF AsyncSends, PoolInv, PoolTypes, OwnersHold, Holding
    <2>2. CreatorGoes(g, "send", "count") /\ available' = available /\ Len(idle') = Len(idle) + 1
      BY <1>2, <2>1 DEF AsyncSends, PoolInv, PoolTypes
    <2>3. IsFiniteSet(Senders') /\ Cardinality(Senders') = Cardinality(Senders) + 1
      BY <1>2, <2>2, SendersCount DEF AvailableCounts
    <2> QED
      BY <1>1, <1>2, <2>2, <2>3, CountsAreNumbers DEF AvailableCounts
  <1>3. CASE AsyncSends(g) /\ Len(idle) >= MaxSize /\ ~poolClosed
    <2>1. CreatorGoes(g, "send", "off") /\ UNCHANGED <<available, idle>>
      BY <1>3, PoolAssumption, CountsAreNumbers DEF AsyncSends
    <2>2. Senders' = Senders
      BY <1>3, <2>1, SendersCount DEF AvailableCounts
    <2> QED
      BY <1>1, <1>3, <2>1, <2>2 DEF AvailableCounts
  <1>4. CASE AsyncCounts(g) /\ ~poolClosed
    <2>1. IsFiniteSet(Senders') /\ Cardinality(Senders') = Cardinality(Senders) - 1
      BY <1>4, SendersCount DEF AsyncCounts, AvailableCounts
    <2>2. available' = available + 1 /\ UNCHANGED idle
      BY <1>4 DEF AsyncCounts
    <2> QED
      BY <1>1, <1>4, <2>1, <2>2, CountsAreNumbers DEF AvailableCounts
  <1>5. CASE (AsyncCreates(g) \/ AsyncChecks(g)) /\ ~poolClosed
    <2>1. /\ UNCHANGED <<available, idle>>
          /\ \E from, to \in CreatorPc \ {"count"} : CreatorGoes(g, from, to)
      BY <1>5 DEF AsyncCreates, AsyncChecks, CreatorPc
    <2>2. Senders' = Senders
      BY <1>5, <2>1, SendersCount DEF AvailableCounts
    <2> QED
      BY <1>1, <1>5, <2>1, <2>2 DEF AvailableCounts
  <1>6. CASE poolClosed
    BY <1>1, <1>6
  <1>7. Len(idle) < MaxSize \/ Len(idle) >= MaxSize
    BY PoolAssumption, CountsAreNumbers
  <1> QED
    BY <1>2, <1>3, <1>4, <1>5, <1>6, <1>7 DEF CreateAsync

LEMMA CleanupCounts ==
  ASSUME PoolInv, LeakInv, CounterInv, Cleanup \/ ClosePool
  PROVE  CounterInv'
  <1> USE DEF CounterInv, InUseCounts, channelVars, counterVars, factoryVars, userVars,
        creatorVars, cleanerVars, closerVars
  <1>1. UNCHANGED <<Lent, Takers, Returners, Senders, inUse>>
    BY DEF Cleanup, ClosePool, CleanupTicks, CleanupReceives, CleanupDestroys, CleanupStops,
      CloseBegins, CloseChannel, CloseDrains, Lent, Takers, Returners, Senders
  <1>2. CASE CleanupReceives /\ toRemove > 0 /\ idle # <<>>
    <2>1. /\ Len(idle') = Len(idle) - 1 /\ Removers = 0 /\ Removers' = 1
          /\ UNCHANGED <<available, poolClosed, chanClosed>>
      BY <1>2 DEF CleanupReceives, Removers, PoolInv, PoolTypes
    <2> QED
      BY <1>1, <2>1, CountsAreNumbers DEF AvailableCounts
  <1>3. CASE CleanupReceives /\ ~(toRemove > 0 /\ idle # <<>>)
    BY <1>1, <1>3 DEF CleanupReceives, Removers, AvailableCounts
  <1>4. CASE CleanupDestroys
    <2>1. /\ available' = available - 1 /\ Removers = 1 /\ Removers' = 0
          /\ UNCHANGED <<idle, poolClosed, chanClosed>>
      BY <1>4 DEF CleanupDestroys, Removers
    <2> QED
      BY <1>1, <2>1, CountsAreNumbers DEF AvailableCounts
  <1>5. CASE CleanupTicks \/ CleanupStops
    BY <1>1, <1>5 DEF CleanupTicks, CleanupStops, Removers, AvailableCounts
  <1>6. CASE ClosePool
    <2>1. poolClosed'
      BY <1>6 DEF ClosePool, CloseBegins, CloseChannel, CloseDrains, LeakInv, Drained
    <2> QED
      BY <1>1, <2>1
  <1> QED
    BY <1>2, <1>3, <1>4, <1>5, <1>6 DEF Cleanup

\* For any number of users and creators and any sizes of the pool: whenever no operation is
\* under way on an open pool, available is the number of resources in the channel and inUse
\* the number of users that were lent one, although each counter is changed apart from the
\* channel operation it counts.
THEOREM CountersAlwaysAgree == PoolSpec => []CountersAgree
  <1>1. PoolInv /\ CounterInv => CountersAgree
    <2> SUFFICES ASSUME PoolInv, CounterInv, Quiet, ~poolClosed
                 PROVE  available = Len(idle) /\ inUse = Cardinality(Lent)
      BY DEF CountersAgree, Lent
    <2>1. Takers = {} /\ Returners = {} /\ Senders = {} /\ Removers = 0
      BY DEF Quiet, Takers, Returners, Senders, Removers
    <2> QED
      BY <2>1, FS_EmptySet, CountsAreNumbers DEF CounterInv, InUseCounts, AvailableCounts
  <1>2. PoolInv /\ LeakInv /\ CounterInv /\ [~poolPanicked /\ PoolNext]_poolVars
          => LeakInv' /\ CounterInv'
    <2> SUFFICES ASSUME PoolInv, LeakInv, CounterInv, [~poolPanicked /\ PoolNext]_poolVars
                 PROVE  CounterInv'
      BY LeakInvNext
    <2>1. CASE UNCHANGED poolVars
      <3>1. UNCHANGED <<Lent, Takers, Returners, Senders, Removers>>
        BY <2>1 DEF poolVars, userVars, creatorVars, cleanerVars, Lent, Takers, Returners, Senders,
          Removers
      <3> QED
        BY <2>1, <3>1 DEF poolVars, channelVars, counterVars, closerVars, CounterInv,
          InUseCounts, AvailableCounts
    <2>2. CASE PoolNext
      BY <2>2, AcquireCounts, ReturnCounts, CreateAsyncCounts, CleanupCounts DEF PoolNext
    <2> QED
      BY <2>1, <2>2
  <1> QED
    BY <1>1, <1>2, PoolInvInit, PoolInvNext, LeakInvInit, CounterInvInit, PTL DEF PoolSpec

-------------------------------------------------------------------------------
(* The types of the pool that its invariant does not have: the channel has   *)
(* its capacity, and the counters and what is made of them are numbers.      *)

ChannelFits == Len(idle) <= MaxSize

NumbersOK == available \in Int /\ inUse \in Int /\ size \in [Users -> Int] /\ toRemove \in Nat

PlacesOK ==
    /\ cleaner \in CleanerPc /\ closer \in CloserPc
    /\ poolClosed \in BOOLEAN /\ chanClosed \in BOOLEAN
    /\ closeFailed \in BOOLEAN /\ poolPanicked \in BOOLEAN

\* The channel loses its first resource, or takes one when there is room.
LEMMA ChannelStepFits ==
  ASSUME PoolInv, ChannelFits,
         \/ UNCHANGED idle
         \/ idle # <<>> /\ idle' = Tail(idle)
         \/ Len(idle) < MaxSize /\ \E r \in Resources : idle' = Append(idle, r)
  PROVE  ChannelFits'
  <1>1. idle \in Seq(Resources) /\ Len(idle) \in Nat
    BY DEF PoolInv, PoolTypes
  <1>2. CASE UNCHANGED idle
    BY <1>2 DEF ChannelFits
  <1>3. CASE idle # <<>> /\ idle' = Tail(idle)
    <2>1. Len(idle') = Len(idle) - 1
      BY <1>1, <1>3
    <2> QED
      BY <1>1, <2>1, PoolAssumption DEF ChannelFits
  <1>4. ASSUME Len(idle) < MaxSize, NEW r \in Resources, idle' = Append(idle, r)
        PROVE  ChannelFits'
    <2>1. Len(idle') = Len(idle) + 1
      BY <1>1, <1>4
    <2> QED
      BY <1>1, <1>4, <2>1, PoolAssumption DEF ChannelFits
  <1> QED
    BY <1>2, <1>3, <1>4

LEMMA PoolChannelNext ==
  ASSUME PoolInv, ChannelFits, PoolNext
  PROVE  ChannelFits'
  <1> USE DEF channelVars
  <1>1. ASSUME NEW u \in Users, Acquire(u) PROVE ChannelFits'
    BY <1>1, ChannelStepFits DEF Acquire, AcquireBegins, AcquireReceives, AcquireTakes, AcquireChecks,
       AcquireDestroys, CreateNewLoads, CreateNewCompares, CreateNewCreates, AcquireReturns
  <1>2. ASSUME NEW u \in Users, Return(u) PROVE ChannelFits'
    <2>1. user[u] = "returning" => held[u] \in Resources
      BY DEF PoolInv, PoolTypes, OwnersHold, Holding
    <2> QED
      BY <1>2, <2>1, ChannelStepFits DEF Return, ReleaseBegins, ReleaseDestroys, ReleaseSends, ReleaseCounts, ReleaseUnhealthy,
         ReplaceLoads, ReplaceUnhealthy, Destroy, GoTo
  <1>3. ASSUME NEW g \in Creators, CreateAsync(g) PROVE ChannelFits'
    <2>1. creator[g] = "send" => fresh[g] \in Resources
      BY DEF PoolInv, PoolTypes, OwnersHold, Holding
    <2> QED
      BY <1>3, <2>1, ChannelStepFits DEF CreateAsync, AsyncCreates, AsyncChecks, AsyncSends, AsyncCounts
  <1>4. CASE Cleanup
    BY <1>4, ChannelStepFits DEF Cleanup, CleanupTicks, CleanupReceives, CleanupDestroys, CleanupStops
  <1>5. CASE ClosePool
    BY <1>5, ChannelStepFits DEF ClosePool, CloseBegins, CloseChannel, CloseDrains
  <1> QED
    BY <1>1, <1>2, <1>3, <1>4, <1>5 DEF PoolNext

LEMMA PoolNumbersNext ==
  ASSUME NumbersOK, PoolNext
  PROVE  NumbersOK'
  <1> USE DEF NumbersOK, counterVars, userVars, cleanerVars
  <1>1. ASSUME NEW u \in Users, Acquire(u) PROVE NumbersOK'
    BY <1>1 DEF Acquire, AcquireBegins, AcquireReceives, AcquireTakes, AcquireChecks,
       AcquireDestroys, CreateNewLoads, CreateNewCompares, CreateNewCreates, AcquireReturns
  <1>2. ASSUME NEW u \in Users, Return(u) PROVE NumbersOK'
    BY <1>2 DEF Return, ReleaseBegins, ReleaseDestroys, ReleaseSends, ReleaseCounts, ReleaseUnhealthy,
       ReplaceLoads, ReplaceUnhealthy, Destroy
  <1>3. ASSUME NEW g \in Creators, CreateAsync(g) PROVE NumbersOK'
    BY <1>3 DEF CreateAsync, AsyncCreates, AsyncChecks, AsyncSends, AsyncCounts
  <1>4. CASE Cleanup
    <2>1. CASE CleanupTicks
      <3>1. available - MinSize \in Nat
        BY <2>1, PoolAssumption DEF CleanupTicks
      <3> QED
        BY <2>1, <3>1 DEF CleanupTicks
    <2>2. CASE CleanupReceives
      <3>1. toRemove > 0 => toRemove - 1 \in Nat
        OBVIOUS
      <3> QED
        BY <2>2, <3>1 DEF CleanupReceives
    <2>3. CASE CleanupDestroys \/ CleanupStops
      BY <2>3 DEF CleanupDestroys, CleanupStops
    <2> QED
      BY <1>4, <2>1, <2>2, <2>3 DEF Cleanup
  <1>5. CASE ClosePool
    BY <1>5 DEF ClosePool, CloseBegins, CloseChannel, CloseDrains
  <1> QED
    BY <1>1, <1>2, <1>3, <1>4, <1>5 DEF PoolNext

LEMMA PoolPlacesNext ==
  ASSUME PlacesOK, PoolNext
  PROVE  PlacesOK'
  <1> USE DEF PlacesOK, CleanerPc, CloserPc, cleanerVars, closerVars, channelVars
  <1>1. ASSUME NEW u \in Users, Acquire(u) PROVE PlacesOK'
    <2>1. CASE AcquireDestroys(u)
      BY <2>1 DEF AcquireDestroys
    <2>2. CASE ~AcquireDestroys(u)
      BY <1>1, <2>2 DEF Acquire, AcquireBegins, AcquireReceives, AcquireTakes, AcquireChecks,
         CreateNewLoads, CreateNewCompares, CreateNewCreates, AcquireReturns
    <2> QED
      BY <2>1, <2>2
  <1>2. ASSUME NEW u \in Users, Return(u) PROVE PlacesOK'
    BY <1>2 DEF Return, ReleaseBegins, ReleaseDestroys, ReleaseSends, ReleaseCounts, ReleaseUnhealthy,
       ReplaceLoads, ReplaceUnhealthy, Destroy
  <1>3. ASSUME NEW g \in Creators, CreateAsync(g) PROVE PlacesOK'
    BY <1>3 DEF CreateAsync, AsyncCreates, AsyncChecks, AsyncSends, AsyncCounts
  <1>4. CASE Cleanup
    BY <1>4 DEF Cleanup, CleanupTicks, CleanupReceives, CleanupDestroys, CleanupStops
  <1>5. CASE ClosePool
    BY <1>5 DEF ClosePool, CloseBegins, CloseChannel, CloseDrains
  <1> QED
    BY <1>1, <1>2, <1>3, <1>4, <1>5 DEF PoolNext

\* The pool is well typed, and its channel never holds more than its capacity.
THEOREM PoolTypeCorrect == PoolSpec => []PoolTypeOK
  <1> DEFINE Inv == PoolInv /\ ChannelFits /\ NumbersOK /\ PlacesOK
  <1>1. PoolInit => Inv
    <2> SUFFICES ASSUME PoolInit PROVE Inv
      OBVIOUS
    <2>1. Len(idle) = MinSize
      BY PoolAssumption DEF PoolInit
    <2>2. ChannelFits
      BY <2>1, PoolAssumption DEF PoolInit, ChannelFits
    <2>3. NumbersOK
      BY PoolAssumption DEF PoolInit, NumbersOK
    <2>4. PlacesOK
      BY DEF PoolInit, PlacesOK, CleanerPc, CloserPc
    <2> QED
      BY <2>2, <2>3, <2>4, PoolInvInit
  <1>2. Inv /\ [~poolPanicked /\ PoolNext]_poolVars => Inv'
    <2> SUFFICES ASSUME Inv, [~poolPanicked /\ PoolNext]_poolVars PROVE Inv'
      OBVIOUS
    <2>1. PoolInv'
      BY PoolInvNext
    <2>2. CASE PoolNext
      BY <2>1, <2>2, PoolChannelNext, PoolNumbersNext, PoolPlacesNext
    <2>3. CASE UNCHANGED poolVars
      BY <2>1, <2>3 DEF poolVars, channelVars, counterVars, userVars, cleanerVars, closerVars,
         ChannelFits, NumbersOK, PlacesOK
    <2> QED
      BY <2>2, <2>3
  <1>3. Inv => PoolTypeOK
    BY DEF PoolInv, PoolTypes, ChannelFits, NumbersOK, PlacesOK, PoolTypeOK
  <1> QED
    BY <1>1, <1>2, <1>3, PTL DEF PoolSpec

-------------------------------------------------------------------------------
\* Both components, of which one runs: what the queue answers is one state of it, its
\* hints count as documented, and the types are right, for all values of the constants.
THEOREM CollectionsCorrect == Spec => []CollectionsOK
  <1>1. Init => QueueInit /\ PoolInit
    BY DEF Init
  <1>2. [Next]_mcVars => [~queuePanicked /\ QueueNext]_queueVars
    BY DEF Next, mcVars
  <1>3. [Next]_mcVars => [~poolPanicked /\ PoolNext]_poolVars
    BY DEF Next, mcVars
  <1>4. Spec => QueueSpec /\ PoolSpec
    BY <1>1, <1>2, <1>3, PTL DEF Spec, QueueSpec, PoolSpec
  <1>5. QueueTypeOK /\ AnswersAgree /\ HintsHonoured /\ PoolTypeOK => CollectionsOK
    BY DEF CollectionsOK
  <1>6. HintsHonoured
    BY HintsAlwaysHonoured
  <1> QED
    BY <1>4, <1>5, <1>6, QueueTypeCorrect, AnswersAlwaysAgree, PoolTypeCorrect, PTL
===============================================================================
