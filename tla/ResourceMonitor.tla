---------------------------- MODULE ResourceMonitor ----------------------------
(***************************************************************************)
(* ResourceMonitor: a goroutine that samples memory and goroutines on a    *)
(* ticker and keeps what it concludes in flags; a graph of dependencies    *)
(* that is searched for a cycle whenever an edge is added; and             *)
(* ResourceGuard, which holds operations back while a flag is set.         *)
(*                                                                         *)
(* The figures are the runtime's.  The callbacks are the user's.           *)
(***************************************************************************)
EXTENDS Naturals, Sequences, SequencesExt

CONSTANTS
    MemoryLimit, MaxMemory,         \* m.memoryLimit, and the most memory there is
    GoroutineLimit, MaxGoroutines,  \* m.goroutineLimit, and the most goroutines there are
    LeakThreshold,                  \* m.goroutineLeakThreshold
    Nodes, MaxDependencies,         \* of the graph; the bound on its edges
    GuardedCalls,                   \* goroutines that call ExecuteWithProtection
    MaxGuardRetries                 \* g.maxRetries

ASSUME MonitorAssumption ==
    /\ {MemoryLimit, MaxMemory, GoroutineLimit, MaxGoroutines, LeakThreshold, MaxDependencies,
        MaxGuardRetries} \subseteq Nat
    /\ IsFiniteSet(Nodes)

VARIABLES
    sampler,                \* where the monitoring goroutine is
    lastMemory,
    previousMemory,         \* its local, the memory before
    oomDetected,
    lastGoroutineCount,
    goroutineIncreases,
    leakDetected,
    dependencies,           \* m.dependencies
    circularDepDetected,
    guarded                 \* retries of each guarded call, and whether it waits or runs

memoryVars == <<lastMemory, previousMemory, oomDetected>>
goroutineVars == <<lastGoroutineCount, goroutineIncreases, leakDetected>>
graphVars == <<dependencies, circularDepDetected>>
monitorVars == <<sampler, memoryVars, goroutineVars, graphVars, guarded>>

MonitorTypeOK ==
    /\ sampler \in {"waiting", "memory", "goroutines", "stopped"}
    /\ lastMemory \in 0..MaxMemory /\ previousMemory \in 0..MaxMemory
    /\ oomDetected \in BOOLEAN
    /\ lastGoroutineCount \in 0..MaxGoroutines
    /\ goroutineIncreases \in 0..MaxGoroutines
    /\ leakDetected \in BOOLEAN
    /\ dependencies \in [Nodes -> Seq(Nodes)]
    /\ circularDepDetected \in BOOLEAN
    /\ guarded \in [GuardedCalls -> [at : {"idle", "asking", "running"}, retries : 0..MaxGuardRetries]]

NotGuarded == [at |-> "idle", retries |-> 0]

MonitorInit ==
    /\ sampler = "waiting"
    /\ lastMemory = 0 /\ previousMemory = 0 /\ oomDetected = FALSE
    /\ lastGoroutineCount = 0 /\ goroutineIncreases = 0 /\ leakDetected = FALSE
    /\ dependencies = [n \in Nodes |-> <<>>] /\ circularDepDetected = FALSE
    /\ guarded = [c \in GuardedCalls |-> NotGuarded]

-------------------------------------------------------------------------------
(* checkResources, on each tick.                                             *)

SampleMemory(alloc) ==
    /\ sampler = "waiting"
    /\ sampler' = "memory"
    /\ previousMemory' = lastMemory
    /\ lastMemory' = alloc
    /\ UNCHANGED <<oomDetected, goroutineVars, graphVars, guarded>>

\* Mutation of OverLimit: one unit more is let pass.
FarOverLimit(alloc) == alloc > MemoryLimit + 1

OverLimit(alloc) == alloc > MemoryLimit

\* handleOOM() calls back when the flag was not set.  The flag is reset by a sample below
\* the limit right after one above it: a sample at the limit between them leaves it set.
CheckMemory ==
    /\ sampler = "memory"
    /\ sampler' = "goroutines"
    /\ oomDetected' =
        IF OverLimit(lastMemory) THEN TRUE
        ELSE oomDetected /\ ~(previousMemory > MemoryLimit /\ lastMemory < MemoryLimit)
    /\ UNCHANGED <<lastMemory, previousMemory, goroutineVars, graphVars, guarded>>

Increases(count) ==
    IF count <= lastGoroutineCount THEN 0
    ELSE IF lastGoroutineCount > 0 THEN goroutineIncreases + 1 ELSE goroutineIncreases

CheckGoroutineLeaks(count) ==
    /\ sampler = "goroutines"
    /\ sampler' = "waiting"
    /\ lastGoroutineCount' = count
    /\ goroutineIncreases' = Increases(count)
    /\ leakDetected' = (Increases(count) >= LeakThreshold \/ count > GoroutineLimit)
    /\ UNCHANGED <<memoryVars, graphVars, guarded>>

\* The goroutine looks at stopChan and the context between two checks; Stop waits for it.
MonitorStops ==
    /\ sampler = "waiting"
    /\ sampler' = "stopped"
    /\ UNCHANGED <<memoryVars, goroutineVars, graphVars, guarded>>

-------------------------------------------------------------------------------
(* Dependencies.                                                             *)

NoCycle == <<>>

\* Mutation of OnStack: a node keeps its mark when the search leaves it.
EverOnStack(node, path, visited) == node \in visited

OnStack(node, path, visited) == node \in ToSet(path)

\* Where the search is: at a node and its next neighbor, with what it has visited and the
\* nodes on the recursion's stack.
SearchPoint == [node : Nodes, next : Nat \ {0}, visited : SUBSET Nodes, path : Seq(Nodes)]

SearchAt(node, next, visited, path) ==
    [node |-> node, next |-> next, visited |-> visited, path |-> path]

\* The search leaves a node when it has gone through its neighbours: what it has visited,
\* and the cycle it found.
DetectCycle(edges, start) ==
    LET Dfs[at \in SearchPoint] ==
            IF at.next > Len(edges[at.node]) THEN [visited |-> at.visited, cycle |-> NoCycle]
            ELSE LET neighbor == edges[at.node][at.next] IN
                IF neighbor \notin at.visited
                THEN LET below == Dfs[SearchAt(neighbor, 1, at.visited \cup {neighbor},
                                               Append(at.path, neighbor))]
                     IN  IF below.cycle # NoCycle THEN below
                         ELSE Dfs[SearchAt(at.node, at.next + 1, below.visited, at.path)]
                ELSE IF OnStack(neighbor, at.path, at.visited)
                THEN LET first == IF neighbor \in ToSet(at.path)
                                  THEN CHOOSE k \in 1..Len(at.path) : at.path[k] = neighbor ELSE 1
                     IN  [visited |-> at.visited,
                          cycle |-> Append(SubSeq(at.path, first, Len(at.path)), neighbor)]
                ELSE Dfs[SearchAt(at.node, at.next + 1, at.visited, at.path)]
    IN  Dfs[SearchAt(start, 1, {start}, <<start>>)].cycle

\* handleCircularDependency() sets the flag, which nothing resets.
AddDependency(from, to) ==
    LET added == [dependencies EXCEPT ![from] = Append(@, to)]
    IN  /\ dependencies' = added
        /\ circularDepDetected' = (circularDepDetected \/ DetectCycle(added, from) # NoCycle)
        /\ UNCHANGED <<sampler, memoryVars, goroutineVars, guarded>>

-------------------------------------------------------------------------------
(* ResourceGuard.                                                            *)

IsHealthy == ~oomDetected /\ ~leakDetected /\ ~circularDepDetected

ExecuteWithProtection(c) ==
    /\ guarded[c].at = "idle"
    /\ guarded' = [guarded EXCEPT ![c].at = "asking"]
    /\ UNCHANGED <<sampler, memoryVars, goroutineVars, graphVars>>

\* The call runs the operation, or sleeps and asks again until its retries are used up.
GuardAsks(c) ==
    /\ guarded[c].at = "asking"
    /\ guarded' = [guarded EXCEPT ![c] =
            IF IsHealthy THEN [at |-> "running", retries |-> 0]
            ELSE IF @.retries + 1 < MaxGuardRetries THEN [at |-> "asking", retries |-> @.retries + 1]
            ELSE NotGuarded]
    /\ UNCHANGED <<sampler, memoryVars, goroutineVars, graphVars>>

GuardedReturns(c) ==
    /\ guarded[c].at = "running"
    /\ guarded' = [guarded EXCEPT ![c] = NotGuarded]
    /\ UNCHANGED <<sampler, memoryVars, goroutineVars, graphVars>>

EdgeCount == FoldFunction(+, 0, [n \in Nodes |-> Len(dependencies[n])])

MonitorNext ==
    \/ \E alloc \in 0..MaxMemory : SampleMemory(alloc)
    \/ CheckMemory
    \/ \E count \in 1..MaxGoroutines : CheckGoroutineLeaks(count)
    \/ MonitorStops
    \/ EdgeCount < MaxDependencies /\ \E from, to \in Nodes : AddDependency(from, to)
    \/ \E c \in GuardedCalls : ExecuteWithProtection(c) \/ GuardAsks(c) \/ GuardedReturns(c)

MonitorSpec == MonitorInit /\ [][MonitorNext]_monitorVars

-------------------------------------------------------------------------------
(* Properties.                                                               *)

\* The nodes a path of at least one edge leads to.
Reached(node) ==
    LET Step[k \in 0..MaxDependencies] ==
            IF k = 0 THEN {}
            ELSE ToSet(dependencies[node])
                 \cup UNION {ToSet(dependencies[n]) : n \in Step[k - 1]}
    IN  Step[MaxDependencies]

\* The depth-first search from the node an edge was added to misses no cycle of the graph and
\* makes none up, multiple edges, loops and shared nodes included.
CyclesNoticed == circularDepDetected <=> \E n \in Nodes : n \in Reached(n)

\* Whenever the goroutine waits for its tick, memory over the limit is flagged.
OutOfMemoryNoticed == sampler = "waiting" /\ lastMemory > MemoryLimit => oomDetected
===============================================================================
