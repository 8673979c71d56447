----------------------------- MODULE JobUtilities ------------------------------
(***************************************************************************)
(* The utilities for handlers: a load balancer over the workers that were  *)
(* heard of, and JobUtils, which waits for a participant of its room until *)
(* a deadline or the end of the job.                                       *)
(*                                                                         *)
(* Time is counted in units; a look at the room costs none.                *)
(***************************************************************************)
EXTENDS Integers, Sequences, SequencesExt

CONSTANTS
    Fleet,              \* IDs of workers
    FleetLoads,         \* loads a worker may report
    FleetJobs,          \* numbers of jobs a worker may report
    FleetMax,           \* the MaxJobs each worker reports, 0 for no limit
    FleetTimeout,       \* age after which a worker is not counted: 30 s
    AboveMaximum,       \* 2.0, the load a worker has to be under
    Waiters,            \* goroutines in WaitForParticipant
    Timeout,            \* the timeout they give
    NoWorker

ASSUME UtilitiesAssumption ==
    /\ FleetMax \in [Fleet -> Nat] /\ FleetLoads \subseteq Nat /\ FleetJobs \subseteq Nat
    /\ FleetTimeout \in Nat /\ AboveMaximum \in Nat /\ Timeout \in Nat
    /\ NoWorker \notin Fleet /\ IsFiniteSet(Fleet)

VARIABLES
    fleet,              \* lb.workers: load, jobs and age of each, or none
    awaited,            \* whether the participant waited for is in the room
    jobOver,            \* whether the context of the job is done
    waiter              \* where each waiter is, how long it waited, what it saw last

fleetVars == <<fleet>>
waiterVars == <<awaited, jobOver, waiter>>
utilityVars == <<fleet, waiterVars>>

NotHeardOf == [load |-> 0, jobs |-> 0, age |-> FleetTimeout + 1]

UtilitiesTypeOK ==
    /\ fleet \in [Fleet -> [load : FleetLoads \cup {0}, jobs : FleetJobs \cup {0},
                            age : 0..FleetTimeout + 1]]
    /\ awaited \in BOOLEAN /\ jobOver \in BOOLEAN
    /\ waiter \in [Waiters -> [at : {"idle", "looking", "deadline", "sleeping", "found",
                                     "timeout", "cancelled"},
                               waited : 0..Timeout + 1, absent : BOOLEAN]]

UtilitiesInit ==
    /\ fleet = [w \in Fleet |-> NotHeardOf]
    /\ awaited \in BOOLEAN /\ jobOver = FALSE
    /\ waiter = [w \in Waiters |-> [at |-> "idle", waited |-> 0, absent |-> FALSE]]

-------------------------------------------------------------------------------
(* The load balancer.                                                        *)

UpdateWorker(w, load, jobs) ==
    /\ fleet' = [fleet EXCEPT ![w] = [load |-> load, jobs |-> jobs, age |-> 0]]
    /\ UNCHANGED waiterVars

RemoveWorker(w) ==
    /\ fleet' = [fleet EXCEPT ![w] = NotHeardOf]
    /\ UNCHANGED waiterVars

\* A worker that is not heard of stays in the map; it is told by its age, as one that is
\* not there.
FleetAges ==
    /\ fleet' = [w \in Fleet |-> [fleet[w] EXCEPT
                    !.age = IF @ > FleetTimeout THEN @ ELSE @ + 1]]
    /\ UNCHANGED waiterVars

Live(w) == fleet[w].age <= FleetTimeout

AcceptsJobs(w) == ~(FleetMax[w] > 0 /\ fleet[w].jobs >= FleetMax[w])

\* GetLeastLoadedWorker() for one order in which the map may be ranged over.
LeastLoadedIn(order) ==
    LET Best[n \in 0..Len(order)] ==
            IF n = 0 THEN NoWorker
            ELSE LET w == order[n]
                     best == Best[n - 1]
                     bestLoad == IF best = NoWorker THEN AboveMaximum ELSE fleet[best].load
                 IN  IF Live(w) /\ AcceptsJobs(w) /\ fleet[w].load < bestLoad THEN w ELSE best
    IN  Best[Len(order)]

GetWorkerCount == Cardinality({w \in Fleet : Live(w)})

-------------------------------------------------------------------------------
(* WaitForParticipant.                                                       *)

ParticipantComesOrGoes ==
    /\ awaited' = ~awaited
    /\ UNCHANGED <<fleet, jobOver, waiter>>

JobIsOver ==
    /\ ~jobOver
    /\ jobOver' = TRUE
    /\ UNCHANGED <<fleet, awaited, waiter>>

\* Time passes for everyone who waits.
WaitGoesOn ==
    /\ \E w \in Waiters : waiter[w].at = "sleeping" /\ waiter[w].waited <= Timeout
    /\ waiter' = [w \in Waiters |-> [waiter[w] EXCEPT
                    !.waited = IF waiter[w].at = "sleeping" /\ @ <= Timeout THEN @ + 1 ELSE @]]
    /\ UNCHANGED <<fleet, awaited, jobOver>>

WaiterMoves(w, from, to) ==
    /\ waiter[w].at = from
    /\ waiter' = [waiter EXCEPT ![w].at = to]
    /\ UNCHANGED <<fleet, awaited, jobOver>>

WaitForParticipant(w) ==
    /\ waiter[w].at \in {"idle", "found", "timeout", "cancelled"}
    /\ waiter' = [waiter EXCEPT ![w] = [at |-> "looking", waited |-> 0, absent |-> FALSE]]
    /\ UNCHANGED <<fleet, awaited, jobOver>>

LooksAround(w) ==
    /\ waiter[w].at = "looking"
    /\ waiter' = [waiter EXCEPT ![w].at = IF awaited THEN "found" ELSE "deadline",
                                ![w].absent = ~awaited]
    /\ UNCHANGED <<fleet, awaited, jobOver>>

PastDeadline(w) == waiter[w].waited > Timeout /\ WaiterMoves(w, "deadline", "timeout")

SleepBegins(w) == waiter[w].waited <= Timeout /\ WaiterMoves(w, "deadline", "sleeping")

SleepEnds(w) == WaiterMoves(w, "sleeping", "looking")

\* Sleep() is given up when the job ends; when both are there it may return either way.
SleepCancelled(w) == jobOver /\ WaiterMoves(w, "sleeping", "cancelled")

UtilitiesNext ==
    \/ \E w \in Fleet :
        (\E load \in FleetLoads, jobs \in FleetJobs : UpdateWorker(w, load, jobs)) \/ RemoveWorker(w)
    \/ FleetAges
    \/ ParticipantComesOrGoes \/ JobIsOver \/ WaitGoesOn
    \/ \E w \in Waiters :
        \/ WaitForParticipant(w) \/ LooksAround(w) \/ PastDeadline(w)
        \/ SleepBegins(w) \/ SleepEnds(w) \/ SleepCancelled(w)

UtilitiesSpec == UtilitiesInit /\ [][UtilitiesNext]_utilityVars

-------------------------------------------------------------------------------
(* Properties.                                                               *)

\* In whatever order the map is ranged over, the worker picked is one that is alive, has a
\* place and no more load than any other such; there is none only if all such workers are
\* at AboveMaximum.
LeastLoadedIsLeast ==
    LET able == {w \in Fleet : Live(w) /\ AcceptsJobs(w)} IN
    \A order \in SetToSeqs(Fleet) :
        LET best == LeastLoadedIn(order) IN
        /\ best # NoWorker => best \in able /\ \A w \in able : fleet[best].load <= fleet[w].load
        /\ best = NoWorker => \A w \in able : fleet[w].load >= AboveMaximum
        /\ GetWorkerCount = 0 => best = NoWorker

\* Who is told that the participant did not come waited for all of the timeout, and looked
\* once more when it was over.
TimeoutAfterLastLook ==
    \A w \in Waiters :
        /\ waiter[w].at = "timeout" => waiter[w].waited > Timeout /\ waiter[w].absent
        /\ waiter[w].at = "cancelled" => jobOver
===============================================================================
