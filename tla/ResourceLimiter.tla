---------------------------- MODULE ResourceLimiter ----------------------------
(***************************************************************************)
(* ResourceLimiter: on each tick one goroutine looks at memory, CPU time   *)
(* and file descriptors, counts what is over its limit, calls back, and    *)
(* enforces.  The CPU throttler lowers GOMAXPROCS for a while: a goroutine *)
(* of its own puts back the value that was in force.                       *)
(*                                                                         *)
(* The figures are the operating system's.  Time passes in tenths of a     *)
(* second and between any two steps: the ticker runs on while the checks   *)
(* do, and keeps one tick for the loop.  A sleep may end late, but not     *)
(* before its time.                                                        *)
(***************************************************************************)
EXTENDS Naturals, FiniteSets

CONSTANTS
    CPUs,               \* GOMAXPROCS at the start
    Quota,              \* rl.cpuQuotaPercent
    Usages,             \* the CPU usage measured, in percent
    CheckInterval,      \* in tenths of a second, at least one
    Restorers,          \* goroutines that put GOMAXPROCS back, a bound on those at once
    MaxViolations,      \* bound on the counters
    LimitedCalls        \* goroutines that call ResourceLimitGuard.Execute

ASSUME LimiterAssumption ==
    /\ CPUs \in Nat \ {0} /\ Quota \in Nat \ {0} /\ Usages \subseteq Nat
    /\ CheckInterval \in Nat \ {0} /\ MaxViolations \in Nat

VARIABLES
    checking,       \* what the loop does
    sleeps,         \* tenths of a second that enforceMemoryLimit has to sleep still
    untilTick,      \* tenths of a second until the ticker's next tick
    tickPending,    \* whether a tick is in the ticker's channel
    enforcing,      \* rl.enforcing
    violations,     \* rl.memoryViolations, cpuViolations, fdViolations
    firstSample,    \* rl.lastCPUTime is 0
    procs,          \* GOMAXPROCS
    currentProcs,   \* what Throttle has read of it,
    targetProcs,    \*    and what it is to set; 0 when it does not run
    putBack,        \* what each goroutine is to put back, 0 when it does not run
    delay,          \* tenths of a second it has to sleep still
    overlapped,     \* whether a throttling ever began before another's value was put back
    limited         \* the guarded operations that run

tickerVars == <<sleeps, untilTick, tickPending>>
procsVars == <<procs, currentProcs, targetProcs, putBack, delay, overlapped>>
limiterVars ==
    <<checking, tickerVars, enforcing, violations, firstSample, procsVars, limited>>

Checks == {"memory", "cpu", "descriptors"}

LimiterTypeOK ==
    /\ checking \in Checks \cup {"tick", "collecting", "throttling", "stopped"}
    /\ sleeps \in 0..3 /\ untilTick \in 1..CheckInterval /\ tickPending \in BOOLEAN
    /\ enforcing \in BOOLEAN /\ firstSample \in BOOLEAN
    /\ violations \in [Checks -> 0..MaxViolations]
    /\ procs \in 1..CPUs /\ currentProcs \in 0..CPUs /\ targetProcs \in 0..CPUs
    /\ checking = "throttling" => currentProcs > 0 /\ targetProcs > 0
    /\ putBack \in [Restorers -> 0..CPUs] /\ delay \in [Restorers -> 0..1]
    /\ overlapped \in BOOLEAN
    /\ limited \subseteq LimitedCalls

LimiterInit ==
    /\ checking = "tick" /\ sleeps = 0
    /\ untilTick = CheckInterval /\ tickPending = FALSE
    /\ enforcing \in BOOLEAN
    /\ violations = [c \in Checks |-> 0]
    /\ firstSample = TRUE
    /\ procs = CPUs /\ currentProcs = 0 /\ targetProcs = 0
    /\ putBack = [b \in Restorers |-> 0] /\ delay = [b \in Restorers |-> 0]
    /\ overlapped = FALSE
    /\ limited = {}

TenthLess(n) == IF n > 0 THEN n - 1 ELSE 0

\* A tenth of a second passes, wherever the goroutines are.  A tick that meets another one
\* in the channel is dropped.
Tenth ==
    /\ sleeps' = TenthLess(sleeps)
    /\ delay' = [b \in Restorers |-> TenthLess(delay[b])]
    /\ IF checking = "stopped" THEN UNCHANGED <<untilTick, tickPending>>
       ELSE IF untilTick > 1 THEN untilTick' = untilTick - 1 /\ UNCHANGED tickPending
       ELSE untilTick' = CheckInterval /\ tickPending' = TRUE
    /\ UNCHANGED <<checking, enforcing, violations, firstSample, procs, currentProcs,
                   targetProcs, putBack, overlapped, limited>>

Tick ==
    /\ checking = "tick" /\ tickPending
    /\ checking' = "memory" /\ tickPending' = FALSE
    /\ UNCHANGED <<sleeps, untilTick, enforcing, violations, firstSample, procsVars, limited>>

LimiterStops ==
    /\ checking = "tick"
    /\ checking' = "stopped" /\ tickPending' = FALSE
    /\ UNCHANGED <<sleeps, untilTick, enforcing, violations, firstSample, procsVars, limited>>

Violated(c) == violations' = [violations EXCEPT ![c] = IF @ < MaxViolations THEN @ + 1 ELSE @]

\* Memory over the limit is counted, and collected when the limiter enforces.
CheckMemoryUsage(over) ==
    /\ checking = "memory"
    /\ checking' = IF over /\ enforcing THEN "collecting" ELSE "cpu"
    /\ sleeps' = IF over /\ enforcing THEN 3 ELSE 0
    /\ IF over THEN Violated("memory") ELSE UNCHANGED violations
    /\ UNCHANGED <<untilTick, tickPending, enforcing, firstSample, procsVars, limited>>

\* enforceMemoryLimit: three collections, each with a tenth of a second of sleep.
MemoryCollected ==
    /\ checking = "collecting" /\ sleeps = 0
    /\ checking' = "cpu"
    /\ UNCHANGED <<tickerVars, enforcing, violations, firstSample, procsVars, limited>>

TargetProcs(usage) ==
    LET target == (procs * Quota) \div usage IN IF target < 1 THEN 1 ELSE target

\* Usage more than 50 percent over the quota lowers GOMAXPROCS: it is read ...
Throttle(usage) ==
    /\ checking' = "throttling"
    /\ currentProcs' = procs /\ targetProcs' = TargetProcs(usage)
    /\ overlapped' = (overlapped \/ \E b \in Restorers : putBack[b] # 0)
    /\ UNCHANGED <<procs, putBack, delay>>

\* The first sample has nothing to be compared with.
CheckCPUUsage(usage) ==
    /\ checking = "cpu"
    /\ firstSample' = FALSE
    /\ IF ~firstSample /\ usage > Quota THEN Violated("cpu") ELSE UNCHANGED violations
    /\ IF ~firstSample /\ usage > Quota + 50 /\ enforcing THEN Throttle(usage)
       ELSE checking' = "descriptors" /\ UNCHANGED procsVars
    /\ UNCHANGED <<tickerVars, enforcing, limited>>

\* Mutation of ProcsLowered: what is put back is what was just set.
LoweredPutBack(b) ==
    /\ checking = "throttling" /\ putBack[b] = 0
    /\ checking' = "descriptors"
    /\ procs' = targetProcs
    /\ putBack' = [putBack EXCEPT ![b] = targetProcs] /\ delay' = [delay EXCEPT ![b] = 1]
    /\ currentProcs' = 0 /\ targetProcs' = 0
    /\ UNCHANGED <<tickerVars, enforcing, violations, firstSample, overlapped, limited>>

\* ... and set, and a goroutine is started that sleeps and puts back what was read.
ProcsLowered(b) ==
    /\ checking = "throttling" /\ putBack[b] = 0
    /\ checking' = "descriptors"
    /\ procs' = targetProcs
    /\ putBack' = [putBack EXCEPT ![b] = currentProcs] /\ delay' = [delay EXCEPT ![b] = 1]
    /\ currentProcs' = 0 /\ targetProcs' = 0
    /\ UNCHANGED <<tickerVars, enforcing, violations, firstSample, overlapped, limited>>

RestoreProcs(b) ==
    /\ putBack[b] # 0 /\ delay[b] = 0
    /\ procs' = putBack[b]
    /\ putBack' = [putBack EXCEPT ![b] = 0]
    /\ UNCHANGED <<checking, tickerVars, enforcing, violations, firstSample, currentProcs,
                   targetProcs, delay, overlapped, limited>>

CheckFileDescriptors(over) ==
    /\ checking = "descriptors" /\ checking' = "tick"
    /\ IF over THEN Violated("descriptors") ELSE UNCHANGED violations
    /\ UNCHANGED <<tickerVars, enforcing, firstSample, procsVars, limited>>

\* A guarded operation runs when memory and descriptors are below nine tenths of their limits.
LimitedExecute(c, low) ==
    /\ c \notin limited
    /\ limited' = IF low THEN limited \cup {c} ELSE limited
    /\ UNCHANGED <<checking, tickerVars, enforcing, violations, firstSample, procsVars>>

LimitedReturns(c) ==
    /\ c \in limited
    /\ limited' = limited \ {c}
    /\ UNCHANGED <<checking, tickerVars, enforcing, violations, firstSample, procsVars>>

LimiterNext ==
    \/ Tenth \/ Tick \/ LimiterStops \/ MemoryCollected
    \/ \E over \in BOOLEAN : CheckMemoryUsage(over) \/ CheckFileDescriptors(over)
    \/ \E usage \in Usages : CheckCPUUsage(usage)
    \/ \E b \in Restorers : ProcsLowered(b) \/ RestoreProcs(b)
    \/ \E c \in LimitedCalls : (\E low \in BOOLEAN : LimitedExecute(c, low)) \/ LimitedReturns(c)

LimiterSpec == LimiterInit /\ [][LimiterNext]_limiterVars

-------------------------------------------------------------------------------
(* Properties.                                                               *)

Unthrottled == checking # "throttling" /\ \A b \in Restorers : putBack[b] = 0

\* Throttling is for a while: once nothing is being lowered and nothing left to be put back,
\* the process has all its processors again, unless one throttling began before the value of
\* another was put back.
ProcsRestored == Unthrottled /\ ~overlapped => procs = CPUs

(***************************************************************************)
(* What comments say and the code does not do: that GOMAXPROCS is reduced  *)
(* temporarily and restored after a delay (resource_limiter.go:380, 390).  *)
(* A throttling that begins before the last one's value is put back takes  *)
(* the lowered value for the one in force, and puts it back last:          *)
(*     AlwaysRestored == Unthrottled => procs = CPUs                       *)
(* is refuted with an interval of two tenths, without any sleep that ends  *)
(* late: enforceMemoryLimit sleeps three tenths in a check, a tick comes   *)
(* meanwhile, and the next check follows the throttling at once.           *)
(***************************************************************************)
===============================================================================
