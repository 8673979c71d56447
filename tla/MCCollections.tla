---------------------------- MODULE MCCollections ----------------------------
\* The job queue and the resource pool, which share nothing: in each behaviour one of
\* them runs and the other rests.
EXTENDS JobQueue, ResourcePool, TLC

CONSTANT Systems

\* A hint of each kind.
MCHints ==
    {[field |-> FALSE, word |-> ""], [field |-> FALSE, word |-> "low"],
     [field |-> TRUE, word |-> "high"], [field |-> FALSE, word |-> "urgent"]}

VARIABLE system

mcVars == <<system, queueVars, poolVars>>

Init == system \in Systems /\ QueueInit /\ PoolInit

Next ==
    \/ system = "queue" /\ ~queuePanicked /\ QueueNext /\ UNCHANGED <<system, poolVars>>
    \/ system = "pool" /\ ~poolPanicked /\ PoolNext /\ UNCHANGED <<system, queueVars>>

Spec == Init /\ [][Next]_mcVars

CollectionsOK ==
    /\ system = "queue" => QueueTypeOK /\ AnswersAgree /\ HintsHonoured
    /\ system = "pool" => PoolTypeOK

Symmetry ==
    Permutations(QueuedJobs) \cup Permutations(Consumers)
        \cup Permutations(Users) \cup Permutations(Resources)
===============================================================================
