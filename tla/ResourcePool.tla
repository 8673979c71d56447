----------------------------- MODULE ResourcePool -----------------------------
(***************************************************************************)
(* ResourcePool: a buffered channel of idle resources, two counters, and   *)
(* a closed flag under pool.mu.  Acquire looks at the flag under the lock  *)
(* and then works without it; createAsync does the same; Release keeps the *)
(* lock throughout, but what it does to the counters and to the channel is *)
(* seen at once by those who work without it.  Each action is one channel  *)
(* operation, one atomic operation, one call of the factory, or a critical *)
(* section without any of them.                                            *)
(*                                                                         *)
(* The goroutines are the users of the pool, one per resource lent, the    *)
(* goroutines createAsync starts, the cleanup goroutine and the caller of  *)
(* Close.                                                                  *)
(***************************************************************************)
EXTENDS Integers, Sequences, FiniteSets

CONSTANTS
    Resources,      \* identities of resources, in order of creation
    NoResource,     \* nil
    Users,          \* goroutines that acquire and release
    Creators,       \* goroutines of createAsync, a bound on those that run at once
    MinSize,        \* pool.minSize
    MaxSize         \* pool.maxSize, the capacity of pool.resources

ASSUME PoolAssumption ==
    /\ NoResource \notin Resources
    /\ MinSize \in Nat /\ MaxSize \in Nat /\ MinSize <= MaxSize
    /\ MinSize <= Cardinality(Resources)

VARIABLES
    idle,           \* pool.resources
    available,      \* pool.available
    inUse,          \* pool.inUse
    poolClosed,     \* pool.closed
    chanClosed,     \* whether pool.resources is closed
    live,           \* resources created and not closed
    made,           \* resources ever created
    user,           \* where each user is
    held,           \* the resource of each user, a local variable or one it was lent
    size,           \* what Size() has read of pool.available, in each user
    creator,        \* where each goroutine of createAsync is
    fresh,          \* the resource createAsync made
    cleaner,        \* where cleanupIdle is
    toRemove,       \* the local variable of cleanupIdle
    removed,        \* the resource cleanupIdle holds
    closer,         \* where the caller of Close is
    closeFailed,    \* whether closing a resource in Close returned an error
    poolPanicked    \* whether a goroutine panicked

channelVars == <<idle, chanClosed>>
counterVars == <<available, inUse>>
factoryVars == <<live, made>>
userVars == <<user, held, size>>
creatorVars == <<creator, fresh>>
cleanerVars == <<cleaner, toRemove, removed>>
closerVars == <<poolClosed, closer, closeFailed>>
poolVars == <<channelVars, counterVars, factoryVars, userVars, creatorVars, cleanerVars,
              closerVars, poolPanicked>>

UserPc == {"out", "receive", "taken", "check", "destroy", "size", "compare", "create",
           "count", "lent", "returning", "sent", "unhealthy", "replace"}
CreatorPc == {"off", "create", "lock", "send", "count"}
CleanerPc == {"tick", "remove", "count", "off"}
CloserPc == {"none", "wait", "closeChan", "drain", "done"}

Holding == Resources \cup {NoResource}

PoolTypeOK ==
    /\ idle \in Seq(Resources) /\ Len(idle) <= MaxSize
    /\ available \in Int /\ inUse \in Int
    /\ poolClosed \in BOOLEAN /\ chanClosed \in BOOLEAN
    /\ live \subseteq made /\ made \subseteq Resources
    /\ user \in [Users -> UserPc]
    /\ held \in [Users -> Holding]
    /\ size \in [Users -> Int]
    /\ creator \in [Creators -> CreatorPc]
    /\ fresh \in [Creators -> Holding]
    /\ cleaner \in CleanerPc
    /\ toRemove \in Nat
    /\ removed \in Holding
    /\ closer \in CloserPc
    /\ closeFailed \in BOOLEAN
    /\ poolPanicked \in BOOLEAN

\* NewResourcePool has warmed the pool with MinSize resources.
PoolInit ==
    /\ \E warm \in [1..MinSize -> Resources] :
        /\ \A i, k \in 1..MinSize : warm[i] = warm[k] => i = k
        /\ idle = warm
        /\ live = {warm[i] : i \in 1..MinSize}
        /\ made = live
    /\ available = MinSize
    /\ inUse = 0
    /\ poolClosed = FALSE
    /\ chanClosed = FALSE
    /\ user = [u \in Users |-> "out"]
    /\ held = [u \in Users |-> NoResource]
    /\ size = [u \in Users |-> 0]
    /\ creator = [g \in Creators |-> "off"]
    /\ fresh = [g \in Creators |-> NoResource]
    /\ cleaner = "tick"
    /\ toRemove = 0
    /\ removed = NoResource
    /\ closer = "none"
    /\ closeFailed = FALSE
    /\ poolPanicked = FALSE

-------------------------------------------------------------------------------
(* Acquire(). *)

\* Release holds pool.mu throughout; the others do nothing more than look at closed, or
\* set it, while they hold it.
Unlocked == \A u \in Users : user[u] \notin {"returning", "sent", "unhealthy", "replace"}

GoTo(u, from, to) == user[u] = from /\ user' = [user EXCEPT ![u] = to]

\* The check of closed, under the lock.
AcquireBegins(u) ==
    /\ GoTo(u, "out", "receive")
    /\ Unlocked
    /\ ~poolClosed
    /\ UNCHANGED <<channelVars, counterVars, factoryVars, held, size, creatorVars, cleanerVars,
                   closerVars, poolPanicked>>

\* The receive without blocking; a closed and empty channel yields nil.
AcquireReceives(u) ==
    /\ \/ /\ GoTo(u, "receive", "taken")
          /\ idle # <<>>
          /\ idle' = Tail(idle)
          /\ held' = [held EXCEPT ![u] = Head(idle)]
       \/ /\ GoTo(u, "receive", "taken")
          /\ idle = <<>> /\ chanClosed
          /\ UNCHANGED <<idle, held>>
       \/ /\ GoTo(u, "receive", "size")
          /\ idle = <<>> /\ ~chanClosed
          /\ UNCHANGED <<idle, held>>
    /\ UNCHANGED <<chanClosed, counterVars, factoryVars, size, creatorVars, cleanerVars,
                   closerVars, poolPanicked>>

AcquireTakes(u) ==
    /\ GoTo(u, "taken", "check")
    /\ available' = available - 1
    /\ UNCHANGED <<channelVars, inUse, factoryVars, held, size, creatorVars, cleanerVars,
                   closerVars, poolPanicked>>

\* Validate and Reset; nil is not valid.
AcquireChecks(u) ==
    /\ \/ GoTo(u, "check", "count") /\ held[u] # NoResource
       \/ GoTo(u, "check", "destroy")
    /\ UNCHANGED <<channelVars, counterVars, factoryVars, held, size, creatorVars, cleanerVars,
                   closerVars, poolPanicked>>

\* Mutation of AcquireDestroys: an error of Close is ignored, the resource kept.
AcquireKeepsInvalid(u) ==
    /\ held[u] # NoResource
    /\ live' = live \ {held[u]}
    /\ GoTo(u, "destroy", "count")
    /\ UNCHANGED <<channelVars, counterVars, made, held, size, creatorVars, cleanerVars,
                   closerVars, poolPanicked>>

\* An invalid resource is closed and replaced, unless closing it returns an error.
\* Closing nil panics.
AcquireDestroys(u) ==
    /\ user[u] = "destroy"
    /\ live' = live \ {held[u]}
    /\ held' = [held EXCEPT ![u] = NoResource]
    /\ \/ GoTo(u, "destroy", "size") /\ held[u] # NoResource /\ UNCHANGED poolPanicked
       \/ GoTo(u, "destroy", "out") /\ held[u] # NoResource /\ UNCHANGED poolPanicked
       \/ /\ held[u] = NoResource
          /\ poolPanicked' = TRUE
          /\ UNCHANGED user
    /\ UNCHANGED <<channelVars, counterVars, made, size, creatorVars, cleanerVars, closerVars>>

\* createNew(): Size() loads two counters one after the other; then the factory makes a
\* resource or fails.
CreateNewLoads(u) ==
    /\ GoTo(u, "size", "compare")
    /\ size' = [size EXCEPT ![u] = available]
    /\ UNCHANGED <<channelVars, counterVars, factoryVars, held, creatorVars, cleanerVars,
                   closerVars, poolPanicked>>

CreateNewCompares(u) ==
    /\ IF size[u] + inUse >= MaxSize
       THEN GoTo(u, "compare", "out")
       ELSE GoTo(u, "compare", "create")
    /\ size' = [size EXCEPT ![u] = 0]
    /\ UNCHANGED <<channelVars, counterVars, factoryVars, held, creatorVars, cleanerVars,
                   closerVars, poolPanicked>>

\* Mutation of Create: the resource is not recorded as created.
CreateUnrecorded(r) ==
    /\ r \in Resources \ made
    /\ live' = live \cup {r}
    /\ UNCHANGED made

\* factory.Create.
Create(r) ==
    /\ r \in Resources \ made
    /\ made' = made \cup {r}
    /\ live' = live \cup {r}

CreateNewCreates(u) ==
    /\ \/ \E r \in Resources : /\ GoTo(u, "create", "count")
                               /\ Create(r)
                               /\ held' = [held EXCEPT ![u] = r]
       \/ GoTo(u, "create", "out") /\ UNCHANGED <<factoryVars, held>>
    /\ UNCHANGED <<channelVars, counterVars, size, creatorVars, cleanerVars, closerVars,
                   poolPanicked>>

AcquireReturns(u) ==
    /\ GoTo(u, "count", "lent")
    /\ inUse' = inUse + 1
    /\ UNCHANGED <<channelVars, available, factoryVars, held, size, creatorVars, cleanerVars,
                   closerVars, poolPanicked>>

-------------------------------------------------------------------------------
(* Release(). *)

\* The lock is taken and kept, and the loan is over.
ReleaseBegins(u) ==
    /\ GoTo(u, "lent", "returning")
    /\ Unlocked
    /\ inUse' = inUse - 1
    /\ UNCHANGED <<channelVars, available, factoryVars, held, size, creatorVars, cleanerVars,
                   closerVars, poolPanicked>>

\* The resource is closed; its errors are ignored.
Destroy(u) ==
    /\ live' = live \ {held[u]}
    /\ held' = [held EXCEPT ![u] = NoResource]
    /\ UNCHANGED <<channelVars, inUse, made, size, creatorVars, cleanerVars, closerVars,
                   poolPanicked>>

\* Mutation of ReleaseDestroys: a resource that finds no room is counted as available.
ReleaseCountsDestroyed(u) ==
    /\ GoTo(u, "returning", "out")
    /\ poolClosed \/ Len(idle) = MaxSize
    /\ available' = IF poolClosed THEN available ELSE available + 1
    /\ Destroy(u)

\* Mutation of ReleaseDestroys: a closed pool is left without closing the resource.
ReleaseForgets(u) ==
    /\ GoTo(u, "returning", "out")
    /\ poolClosed \/ Len(idle) = MaxSize
    /\ live' = IF poolClosed THEN live ELSE live \ {held[u]}
    /\ held' = [held EXCEPT ![u] = NoResource]
    /\ UNCHANGED <<channelVars, counterVars, made, size, creatorVars, cleanerVars, closerVars,
                   poolPanicked>>

\* A closed pool destroys the resource, an open one when the channel is full.
ReleaseDestroys(u) ==
    /\ GoTo(u, "returning", "out")
    /\ poolClosed \/ Len(idle) = MaxSize
    /\ Destroy(u)
    /\ UNCHANGED available

\* The send without blocking, and then the counter.
ReleaseSends(u) ==
    /\ GoTo(u, "returning", "sent")
    /\ ~poolClosed /\ Len(idle) < MaxSize
    /\ idle' = Append(idle, held[u])
    /\ held' = [held EXCEPT ![u] = NoResource]
    /\ UNCHANGED <<chanClosed, counterVars, factoryVars, size, creatorVars, cleanerVars,
                   closerVars, poolPanicked>>

ReleaseCounts(u) ==
    /\ GoTo(u, "sent", "out")
    /\ available' = available + 1
    /\ UNCHANGED <<channelVars, inUse, factoryVars, held, size, creatorVars, cleanerVars,
                   closerVars, poolPanicked>>

\* An unhealthy resource is destroyed; then Size() loads its two counters.
ReleaseUnhealthy(u) ==
    /\ GoTo(u, "returning", "unhealthy")
    /\ ~poolClosed
    /\ Destroy(u)
    /\ UNCHANGED available

ReplaceLoads(u) ==
    /\ GoTo(u, "unhealthy", "replace")
    /\ size' = [size EXCEPT ![u] = available]
    /\ UNCHANGED <<channelVars, counterVars, factoryVars, held, creatorVars, cleanerVars,
                   closerVars, poolPanicked>>

\* Below the minimum, createAsync is started.
ReplaceUnhealthy(u) ==
    /\ GoTo(u, "replace", "out")
    /\ size' = [size EXCEPT ![u] = 0]
    /\ IF size[u] + inUse < MinSize
       THEN \E g \in Creators : /\ creator[g] = "off"
                                /\ creator' = [creator EXCEPT ![g] = "create"]
       ELSE UNCHANGED creator
    /\ UNCHANGED <<channelVars, counterVars, factoryVars, held, fresh, cleanerVars, closerVars,
                   poolPanicked>>

-------------------------------------------------------------------------------
(* createAsync(). *)

CreatorGoes(g, from, to) == creator[g] = from /\ creator' = [creator EXCEPT ![g] = to]

AsyncCreates(g) ==
    /\ \/ \E r \in Resources : /\ CreatorGoes(g, "create", "lock")
                               /\ Create(r)
                               /\ fresh' = [fresh EXCEPT ![g] = r]
       \/ CreatorGoes(g, "create", "off") /\ UNCHANGED <<factoryVars, fresh>>
    /\ UNCHANGED <<channelVars, counterVars, userVars, cleanerVars, closerVars, poolPanicked>>

\* The check of closed; the lock is released before the channel is used.
AsyncChecks(g) ==
    /\ Unlocked
    /\ IF poolClosed
       THEN /\ CreatorGoes(g, "lock", "off")
            /\ live' = live \ {fresh[g]}
            /\ fresh' = [fresh EXCEPT ![g] = NoResource]
       ELSE CreatorGoes(g, "lock", "send") /\ UNCHANGED <<live, fresh>>
    /\ UNCHANGED <<channelVars, counterVars, made, userVars, cleanerVars, closerVars,
                   poolPanicked>>

\* The send without blocking; on a closed channel it panics.
AsyncSends(g) ==
    /\ creator[g] = "send"
    /\ poolPanicked' = chanClosed
    /\ fresh' = [fresh EXCEPT ![g] = NoResource]
    /\ IF ~chanClosed /\ Len(idle) < MaxSize
       THEN /\ CreatorGoes(g, "send", "count")
            /\ idle' = Append(idle, fresh[g])
            /\ UNCHANGED live
       ELSE /\ CreatorGoes(g, "send", "off")
            /\ live' = live \ {fresh[g]}
            /\ UNCHANGED idle
    /\ UNCHANGED <<chanClosed, counterVars, made, userVars, cleanerVars, closerVars>>

AsyncCounts(g) ==
    /\ CreatorGoes(g, "count", "off")
    /\ available' = available + 1
    /\ UNCHANGED <<channelVars, inUse, factoryVars, userVars, fresh, cleanerVars, closerVars,
                   poolPanicked>>

-------------------------------------------------------------------------------
(* cleanupIdleResources(): cleanupIdle() on every tick. *)

CleanupTicks ==
    /\ cleaner = "tick"
    /\ available > MinSize
    /\ toRemove' = available - MinSize
    /\ cleaner' = "remove"
    /\ UNCHANGED <<channelVars, counterVars, factoryVars, userVars, creatorVars, removed,
                   closerVars, poolPanicked>>

CleanupReceives ==
    /\ cleaner = "remove"
    /\ IF toRemove > 0 /\ idle # <<>>
       THEN /\ removed' = Head(idle)
            /\ idle' = Tail(idle)
            /\ toRemove' = toRemove - 1
            /\ cleaner' = "count"
       ELSE /\ toRemove' = 0
            /\ cleaner' = "tick"
            /\ UNCHANGED <<removed, idle>>
    /\ UNCHANGED <<chanClosed, counterVars, factoryVars, userVars, creatorVars, closerVars,
                   poolPanicked>>

CleanupDestroys ==
    /\ cleaner = "count"
    /\ available' = available - 1
    /\ live' = live \ {removed}
    /\ removed' = NoResource
    /\ cleaner' = "remove"
    /\ UNCHANGED <<channelVars, inUse, made, userVars, creatorVars, toRemove, closerVars,
                   poolPanicked>>

\* cleanupStop is closed.
CleanupStops ==
    /\ cleaner = "tick"
    /\ closer = "wait"
    /\ cleaner' = "off"
    /\ UNCHANGED <<channelVars, counterVars, factoryVars, userVars, creatorVars, toRemove,
                   removed, closerVars, poolPanicked>>

-------------------------------------------------------------------------------
(* Close(). *)

CloseBegins ==
    /\ closer = "none"
    /\ Unlocked
    /\ poolClosed' = TRUE
    /\ closer' = "wait"
    /\ UNCHANGED <<channelVars, counterVars, factoryVars, userVars, creatorVars, cleanerVars,
                   closeFailed, poolPanicked>>

\* wg.Wait, then close(pool.resources).
CloseChannel ==
    /\ closer = "wait"
    /\ cleaner = "off"
    /\ chanClosed' = TRUE
    /\ closer' = "drain"
    /\ UNCHANGED <<idle, counterVars, factoryVars, userVars, creatorVars, cleanerVars,
                   poolClosed, closeFailed, poolPanicked>>

\* The idle resources are closed, until one of them returns an error.
CloseDrains ==
    /\ closer = "drain"
    /\ IF idle = <<>>
       THEN closer' = "done" /\ UNCHANGED <<idle, live, closeFailed>>
       ELSE /\ idle' = Tail(idle)
            /\ live' = live \ {Head(idle)}
            /\ \/ UNCHANGED <<closer, closeFailed>>
               \/ closer' = "done" /\ closeFailed' = TRUE
    /\ UNCHANGED <<chanClosed, counterVars, made, userVars, creatorVars, cleanerVars,
                   poolClosed, poolPanicked>>

-------------------------------------------------------------------------------
Acquire(u) ==
    \/ AcquireBegins(u) \/ AcquireReceives(u) \/ AcquireTakes(u) \/ AcquireChecks(u)
    \/ AcquireDestroys(u) \/ CreateNewLoads(u) \/ CreateNewCompares(u)
    \/ CreateNewCreates(u) \/ AcquireReturns(u)

Return(u) ==
    \/ ReleaseBegins(u) \/ ReleaseDestroys(u) \/ ReleaseSends(u) \/ ReleaseCounts(u)
    \/ ReleaseUnhealthy(u) \/ ReplaceLoads(u) \/ ReplaceUnhealthy(u)

CreateAsync(g) == AsyncCreates(g) \/ AsyncChecks(g) \/ AsyncSends(g) \/ AsyncCounts(g)

Cleanup == CleanupTicks \/ CleanupReceives \/ CleanupDestroys \/ CleanupStops

ClosePool == CloseBegins \/ CloseChannel \/ CloseDrains

PoolNext ==
    \/ \E u \in Users : Acquire(u) \/ Return(u)
    \/ \E g \in Creators : CreateAsync(g)
    \/ Cleanup \/ ClosePool

\* A panic takes the process down.
PoolSpec == PoolInit /\ [][~poolPanicked /\ PoolNext]_poolVars

-------------------------------------------------------------------------------
(* Properties. *)

IdleSet == {idle[i] : i \in DOMAIN idle}

\* Whatever the interleaving of Acquire, Release, cleanup, createAsync and Close, the
\* pool neither lends a resource that is idle, nor to two users, nor holds or lends one
\* that was closed.
OneOwner ==
    /\ \A i, k \in DOMAIN idle : idle[i] = idle[k] => i = k
    /\ \A u \in Users : held[u] # NoResource =>
        /\ held[u] \notin IdleSet
        /\ \A v \in Users \ {u} : held[v] # held[u]
    /\ \A u \in Users : user[u] = "lent" => held[u] \in live
    /\ IdleSet \subseteq live

Quiet ==
    /\ \A u \in Users : user[u] \in {"out", "lent"}
    /\ \A g \in Creators : creator[g] = "off"
    /\ cleaner \in {"tick", "off"}

\* The counters are changed apart from the channel operations and the loans they count,
\* by several goroutines and mostly without the lock; whenever no operation is under way
\* on an open pool they agree with the channel and the resources lent.
CountersAgree ==
    Quiet /\ ~poolClosed =>
        /\ available = Len(idle)
        /\ inUse = Cardinality({u \in Users : user[u] = "lent"})

\* A closed pool leaks nothing: once Close is through without an error and everything
\* lent has come back, every resource ever created has been closed.
ClosedPoolLeaksNothing ==
    Quiet /\ closer = "done" /\ ~closeFailed /\ ~poolPanicked =>
        live \subseteq {held[u] : u \in Users}
===============================================================================
