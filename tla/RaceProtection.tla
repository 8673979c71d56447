----------------------------- MODULE RaceProtection -----------------------------
(***************************************************************************)
(* RaceProtector: what may happen while the worker disconnects or          *)
(* reconnects.  Guards run operations on jobs, others report statuses, and *)
(* the worker's two flags, read without the lock, change meanwhile.        *)
(*                                                                         *)
(* The callbacks are the user's and change nothing.                        *)
(***************************************************************************)
EXTENDS Naturals, FiniteSets

CONSTANTS
    GuardedJobs,    \* job IDs
    Guards,         \* goroutines that execute a guard or report a status
    MaxRequests     \* bound on the counters

ASSUME RaceAssumption == MaxRequests \in Nat /\ GuardedJobs # {}

VARIABLES
    disconnecting,      \* p.isDisconnecting
    reconnecting,       \* p.isReconnecting
    terminations,       \* p.activeTerminations
    pendingStatus,      \* Status of each job in p.pendingStatusUpdates, or NoUpdate
    guards,             \* what each goroutine does, and for which job
    droppedJobs,        \* p.droppedJobsDuringDisconnect
    droppedUpdates      \* p.droppedStatusUpdates

raceVars ==
    <<disconnecting, reconnecting, terminations, pendingStatus, guards, droppedJobs,
      droppedUpdates>>

NoUpdate == 0

\* The priorities of PENDING, RUNNING, SUCCESS and FAILED.
JobStatusPriority == 1..4

TerminationState == [state : {"none", "requested", "completed"}, requests : 0..MaxRequests]

GuardAt == {"idle", "accepting", "accepted", "terminating", "queueing"}

RaceTypeOK ==
    /\ disconnecting \in BOOLEAN /\ reconnecting \in BOOLEAN
    /\ terminations \in [GuardedJobs -> TerminationState]
    /\ pendingStatus \in [GuardedJobs -> JobStatusPriority \cup {NoUpdate}]
    /\ guards \in [Guards -> [at : GuardAt, job : GuardedJobs, status : JobStatusPriority]]
    /\ droppedJobs \in 0..MaxRequests /\ droppedUpdates \in 0..MaxRequests

NoTermination == [state |-> "none", requests |-> 0]

RaceInit ==
    /\ disconnecting = FALSE /\ reconnecting = FALSE
    /\ terminations = [j \in GuardedJobs |-> NoTermination]
    /\ pendingStatus = [j \in GuardedJobs |-> NoUpdate]
    /\ guards \in [Guards -> [at : {"idle"}, job : {CHOOSE j \in GuardedJobs : TRUE}, status : {1}]]
    /\ droppedJobs = 0 /\ droppedUpdates = 0

Counted(n) == IF n < MaxRequests THEN n + 1 ELSE n

GuardGoes(g, from, to) ==
    /\ guards[g].at = from
    /\ guards' = [guards EXCEPT ![g].at = to]

-------------------------------------------------------------------------------
(* The flags.                                                                *)

SetDisconnecting(on) ==
    /\ disconnecting' = on
    /\ droppedJobs' = IF on THEN droppedJobs ELSE 0
    /\ UNCHANGED <<reconnecting, terminations, pendingStatus, guards, droppedUpdates>>

SetReconnecting(on) ==
    /\ reconnecting' = on
    /\ droppedUpdates' = IF on THEN droppedUpdates ELSE 0
    /\ UNCHANGED <<disconnecting, terminations, pendingStatus, guards, droppedJobs>>

-------------------------------------------------------------------------------
(* Guards: job_accept and termination.                                       *)

\* CanAcceptJob() looks at the flag, and in a later step at the terminations.
ExecuteAccept(g, j) ==
    /\ guards[g].at = "idle"
    /\ IF disconnecting
       THEN droppedJobs' = Counted(droppedJobs) /\ UNCHANGED guards
       ELSE /\ guards' = [guards EXCEPT ![g].at = "accepting", ![g].job = j]
            /\ UNCHANGED droppedJobs
    /\ UNCHANGED <<disconnecting, reconnecting, terminations, pendingStatus, droppedUpdates>>

AcceptJob(g) ==
    /\ GuardGoes(g, "accepting",
            IF terminations[guards[g].job].state = "requested" THEN "idle" ELSE "accepted")
    /\ UNCHANGED <<disconnecting, reconnecting, terminations, pendingStatus, droppedJobs,
                   droppedUpdates>>

\* RecordTerminationRequest() lets the first request through; a later one only counts.
FirstRequest(t) == t.state = "none"

ExecuteTermination(g, j) ==
    /\ guards[g].at = "idle"
    /\ terminations' = [terminations EXCEPT
            ![j] = [state |-> IF @.state = "none" THEN "requested" ELSE @.state,
                    requests |-> Counted(@.requests)]]
    /\ guards' = IF FirstRequest(terminations[j])
                 THEN [guards EXCEPT ![g].at = "terminating", ![g].job = j] ELSE guards
    /\ UNCHANGED <<disconnecting, reconnecting, pendingStatus, droppedJobs, droppedUpdates>>

\* The operation of an accepted job returns.
OperationReturns(g) ==
    /\ GuardGoes(g, "accepted", "idle")
    /\ UNCHANGED <<disconnecting, reconnecting, terminations, pendingStatus, droppedJobs,
                   droppedUpdates>>

CompleteTermination(g) ==
    /\ GuardGoes(g, "terminating", "idle")
    /\ LET t == terminations[guards[g].job]
       IN  terminations' = IF t.state = "none" THEN terminations
                           ELSE [terminations EXCEPT ![guards[g].job].state = "completed"]
    /\ UNCHANGED <<disconnecting, reconnecting, pendingStatus, droppedJobs, droppedUpdates>>

\* Mutation of Forgettable: a termination under way is forgotten too.
ForgettableAny(t) == t.state # "none"

\* Only completed terminations that are old enough are forgotten.
Forgettable(t) == t.state = "completed"

CleanupOldTerminations(old) ==
    /\ \A j \in old : Forgettable(terminations[j])
    /\ terminations' = [j \in GuardedJobs |-> IF j \in old THEN NoTermination ELSE terminations[j]]
    /\ UNCHANGED <<disconnecting, reconnecting, pendingStatus, guards, droppedJobs, droppedUpdates>>

-------------------------------------------------------------------------------
(* Status updates.                                                           *)

\* The flag is read before the lock is taken.
QueueStatusUpdate(g, j, status) ==
    /\ guards[g].at = "idle" /\ reconnecting
    /\ guards' = [guards EXCEPT ![g] = [at |-> "queueing", job |-> j, status |-> status]]
    /\ UNCHANGED <<disconnecting, reconnecting, terminations, pendingStatus, droppedJobs,
                   droppedUpdates>>

\* Mutation of ShouldReplaceStatus: the latest report wins.
ReplaceAlways(current, new) == TRUE

ShouldReplaceStatus(current, new) == new > current

StatusQueued(g) ==
    LET j == guards[g].job
        known == pendingStatus[j] # NoUpdate
    IN  /\ GuardGoes(g, "queueing", "idle")
        /\ IF known /\ ~ShouldReplaceStatus(pendingStatus[j], guards[g].status)
           THEN UNCHANGED pendingStatus
           ELSE pendingStatus' = [pendingStatus EXCEPT ![j] = guards[g].status]
        /\ droppedUpdates' = IF known THEN droppedUpdates ELSE Counted(droppedUpdates)
        /\ UNCHANGED <<disconnecting, reconnecting, terminations, droppedJobs>>

\* FlushPendingStatusUpdates() returns what was pending, which is empty from then on.
FlushPendingStatusUpdates ==
    /\ pendingStatus' = [j \in GuardedJobs |-> NoUpdate]
    /\ UNCHANGED <<disconnecting, reconnecting, terminations, guards, droppedJobs, droppedUpdates>>

-------------------------------------------------------------------------------

RaceNext ==
    \/ \E on \in BOOLEAN : SetDisconnecting(on) \/ SetReconnecting(on)
    \/ \E g \in Guards, j \in GuardedJobs : ExecuteAccept(g, j) \/ ExecuteTermination(g, j)
    \/ \E g \in Guards, j \in GuardedJobs, s \in JobStatusPriority : QueueStatusUpdate(g, j, s)
    \/ \E g \in Guards :
        AcceptJob(g) \/ OperationReturns(g) \/ CompleteTermination(g) \/ StatusQueued(g)
    \/ \E old \in SUBSET GuardedJobs : CleanupOldTerminations(old)
    \/ FlushPendingStatusUpdates

RaceSpec == RaceInit /\ [][RaceNext]_raceVars

-------------------------------------------------------------------------------
(* Properties.                                                               *)

\* No two guards run the termination of one job, not even when the record of the first is
\* cleaned up: a job is being terminated exactly while its record says requested.
TerminatedOnce ==
    \A j \in GuardedJobs :
        Cardinality({g \in Guards : guards[g].at = "terminating" /\ guards[g].job = j})
            = (IF terminations[j].state = "requested" THEN 1 ELSE 0)

\* What is queued for a job never falls back: reports may arrive in any order, and a flush
\* hands over the latest the job got to.
StatusNeverFallsBack ==
    [][\A j \in GuardedJobs :
        pendingStatus'[j] # NoUpdate => pendingStatus'[j] >= pendingStatus[j]]_raceVars
===============================================================================
