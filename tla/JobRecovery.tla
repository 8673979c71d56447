------------------------------ MODULE JobRecovery ------------------------------
(***************************************************************************)
(* JobRecoveryManager: jobs saved while they run, and recovered after a    *)
(* reconnection.  A record is an object that the map pendingRecovery and   *)
(* the copies of it that attempts work on point to: a job saved again gets *)
(* a new object, and attempts may overlap.  The handler's answer, the      *)
(* clock and the room are the environment's.                               *)
(*                                                                         *)
(* What lets a job go on where it was: PartialMessageBuffer, which puts    *)
(* the fragments of a message together, and JobCheckpoint, which a handler *)
(* saves values to.  A fragment is a part of a numbered message and takes  *)
(* one unit of the buffer.  Text that is one whole JSON value is that of   *)
(* one message, all its parts in order.                                    *)
(*                                                                         *)
(* The two share nothing: each has a specification of its own.             *)
(***************************************************************************)
EXTENDS Naturals, Sequences, FiniteSets, SequencesExt

-------------------------------------------------------------------------------
(* Recovery.                                                                 *)

CONSTANTS
    RecoverableJobs,    \* job IDs
    Attempts,           \* goroutines that call AttemptJobRecovery
    MaxSaves            \* bound on the records made

ASSUME RecoveryAssumption == MaxSaves \in Nat /\ IsFiniteSet(Attempts)

VARIABLES
    records,          \* the RecoverableJob objects: whose, tries, whether past the timeout
    pendingRecovery,  \* m.pendingRecovery: the number of a job's record, or 0
    taken,            \* jobs, the copy of the map each attempt works on
    asking,           \* the jobs each attempt has not asked the handler about
    recoveries,       \* the goroutines of each attempt
    recovered,        \* jobs given to SetActiveJob
    refused,          \* jobs declined or too old, ever
    attemptsFailed    \* how often the recovery of each job failed, counted to 4

recoveryVars ==
    <<records, pendingRecovery, taken, asking, recoveries, recovered, refused, attemptsFailed>>

RecoverableJob == [job : RecoverableJobs, tries : 0..3, stale : BOOLEAN]

RecoveryAt == {"none", "connecting", "failed", "recovered", "ended"}

RecoveryTypeOK ==
    /\ records \in Seq(RecoverableJob)
    /\ pendingRecovery \in [RecoverableJobs -> 0..Len(records)]
    /\ taken \in [Attempts -> [RecoverableJobs -> 0..Len(records)]]
    /\ asking \in [Attempts -> SUBSET RecoverableJobs]
    /\ recoveries \in [Attempts -> [RecoverableJobs -> RecoveryAt]]
    /\ recovered \subseteq RecoverableJobs /\ refused \subseteq RecoverableJobs
    /\ attemptsFailed \in [RecoverableJobs -> 0..4]

Nothing == [j \in RecoverableJobs |-> 0]

NoRecoveries == [j \in RecoverableJobs |-> "none"]

RecoveryInit ==
    /\ records = <<>>
    /\ pendingRecovery = Nothing
    /\ taken = [a \in Attempts |-> Nothing]
    /\ asking = [a \in Attempts |-> {}]
    /\ recoveries = [a \in Attempts |-> NoRecoveries]
    /\ recovered = {} /\ refused = {}
    /\ attemptsFailed = Nothing

-------------------------------------------------------------------------------

SaveJobForRecovery(j) ==
    /\ Len(records) < MaxSaves
    /\ records' = Append(records, [job |-> j, tries |-> 0, stale |-> FALSE])
    /\ pendingRecovery' = [pendingRecovery EXCEPT ![j] = Len(records) + 1]
    /\ UNCHANGED <<taken, asking, recoveries, recovered, refused, attemptsFailed>>

\* recoveryTimeout passes since LastUpdate, which nothing renews.
RecordAges(i) ==
    /\ ~records[i].stale
    /\ records' = [records EXCEPT ![i].stale = TRUE]
    /\ UNCHANGED <<pendingRecovery, taken, asking, recoveries, recovered, refused, attemptsFailed>>

AttemptJobRecovery(a) ==
    /\ asking[a] = {} /\ recoveries[a] = NoRecoveries
    /\ taken' = [taken EXCEPT ![a] = pendingRecovery]
    /\ asking' = [asking EXCEPT ![a] = {j \in RecoverableJobs : pendingRecovery[j] # 0}]
    /\ UNCHANGED <<records, pendingRecovery, recoveries, recovered, refused, attemptsFailed>>

RemoveFromRecovery(j) == pendingRecovery' = [pendingRecovery EXCEPT ![j] = 0]

\* A job declined, or too old, is removed, whichever record of it is in the map by now ...
AskHandlerRefuses(a, j) ==
    /\ j \in asking[a]
    /\ asking' = [asking EXCEPT ![a] = @ \ {j}]
    /\ refused' = refused \cup {j}
    /\ RemoveFromRecovery(j)
    /\ UNCHANGED <<records, taken, recoveries, recovered, attemptsFailed>>

\* ... and any other gets a goroutine.
AskHandler(a, j) ==
    /\ j \in asking[a]
    /\ ~records[taken[a][j]].stale
    /\ asking' = [asking EXCEPT ![a] = @ \ {j}]
    /\ recoveries' = [recoveries EXCEPT ![a][j] = "connecting"]
    /\ UNCHANGED <<records, pendingRecovery, taken, recovered, refused, attemptsFailed>>

RecoveryGoes(a, j, from, to) ==
    /\ recoveries[a][j] = from
    /\ recoveries' = [recoveries EXCEPT ![a][j] = to]

\* The room is connected and the job active again: an earlier room of it is overwritten.
RecoverJob(a, j) ==
    /\ RecoveryGoes(a, j, "connecting", "recovered")
    /\ recovered' = recovered \cup {j}
    /\ UNCHANGED <<records, pendingRecovery, taken, asking, refused, attemptsFailed>>

\* Without a token, or without the room.
RecoverJobFails(a, j) ==
    /\ RecoveryGoes(a, j, "connecting", "failed")
    /\ attemptsFailed' = [attemptsFailed EXCEPT ![j] = IF @ < 4 THEN @ + 1 ELSE @]
    /\ UNCHANGED <<records, pendingRecovery, taken, asking, recovered, refused>>

RecoveryEnds(a, j) ==
    /\ RecoveryGoes(a, j, "recovered", "ended")
    /\ RemoveFromRecovery(j)
    /\ UNCHANGED <<records, taken, asking, recovered, refused, attemptsFailed>>

\* Mutation of MaxAttemptsExceeded: the third failure is one too many.
MaxAttemptsReached(tries) == tries >= 3

MaxAttemptsExceeded(tries) == tries > 3

\* The failure is counted against the record that is in the map by now.
IncrementRecoveryAttempts(a, j) ==
    /\ RecoveryGoes(a, j, "failed", "ended")
    /\ IF pendingRecovery[j] = 0
       THEN UNCHANGED <<records, pendingRecovery>>
       ELSE IF MaxAttemptsExceeded(records[pendingRecovery[j]].tries + 1)
       THEN RemoveFromRecovery(j) /\ UNCHANGED records
       ELSE /\ records' = [records EXCEPT ![pendingRecovery[j]].tries = @ + 1]
            /\ UNCHANGED pendingRecovery
    /\ UNCHANGED <<taken, asking, recovered, refused, attemptsFailed>>

\* wg.Wait() returns.
AttemptReturns(a) ==
    /\ asking[a] = {} /\ recoveries[a] # NoRecoveries
    /\ \A j \in RecoverableJobs : recoveries[a][j] \in {"none", "ended"}
    /\ recoveries' = [recoveries EXCEPT ![a] = NoRecoveries]
    /\ taken' = [taken EXCEPT ![a] = Nothing]
    /\ UNCHANGED <<records, pendingRecovery, asking, recovered, refused, attemptsFailed>>

RecoveryNext ==
    \/ \E j \in RecoverableJobs : SaveJobForRecovery(j)
    \/ \E i \in 1..Len(records) : RecordAges(i)
    \/ \E a \in Attempts : AttemptJobRecovery(a) \/ AttemptReturns(a)
    \/ \E a \in Attempts, j \in RecoverableJobs :
        \/ AskHandler(a, j) \/ AskHandlerRefuses(a, j)
        \/ RecoverJob(a, j) \/ RecoverJobFails(a, j)
        \/ RecoveryEnds(a, j) \/ IncrementRecoveryAttempts(a, j)

RecoverySpec == RecoveryInit /\ [][RecoveryNext]_recoveryVars

-------------------------------------------------------------------------------
(* Properties.                                                               *)

\* SaveJobForRecovery() promises that a saved job stays available until it is recovered,
\* too old or refused, or tried too often.  That holds of the job, overlapping attempts
\* and new records included: before four failures nothing else takes it off the map.
NotForgottenEarly ==
    \A i \in 1..Len(records) :
        LET j == records[i].job
        IN  pendingRecovery[j] # 0 \/ j \in recovered \cup refused \/ attemptsFailed[j] = 4

-------------------------------------------------------------------------------
(* Resumption.                                                               *)

CONSTANTS
    Fragments,          \* parts of each message
    MaxFragmented,      \* bound on the messages sent
    BufferLimit,        \* b.maxSize, in fragments
    CheckpointKeys, CheckpointValues,
    CheckpointReaders,  \* goroutines that hold a copy of the checkpoint
    NoValue

ASSUME ResumptionAssumption ==
    /\ Fragments \in Nat \ {0} /\ MaxFragmented \in Nat /\ BufferLimit \in Nat \ {0}
    /\ NoValue \notin CheckpointValues

VARIABLES
    buffer,             \* b.buffer: fragments
    bufferType,         \* b.messageType
    sending,            \* number, type and next part of the message that is sent
    completed,          \* what GetComplete returned last
    checkpoint,         \* c.data
    copies,             \* the copy each reader got of GetAll
    states              \* every state the checkpoint was in

bufferVars == <<buffer, bufferType, sending, completed>>
checkpointVars == <<checkpoint, copies, states>>
resumptionVars == <<bufferVars, checkpointVars>>

MessageType == {"none", "text", "binary"}
Fragment == [message : 1..MaxFragmented, part : 1..Fragments]
Checkpoint == [CheckpointKeys -> CheckpointValues \cup {NoValue}]
EmptyCheckpoint == [k \in CheckpointKeys |-> NoValue]

ResumptionTypeOK ==
    /\ buffer \in Seq(Fragment) /\ Len(buffer) <= BufferLimit
    /\ bufferType \in MessageType
    /\ sending \in [message : 0..MaxFragmented, type : MessageType, part : 1..Fragments + 1]
    /\ completed \in Seq(Fragment)
    /\ checkpoint \in Checkpoint
    /\ copies \in [CheckpointReaders -> Checkpoint]
    /\ states \subseteq Checkpoint

ResumptionInit ==
    /\ buffer = <<>> /\ bufferType = "none" /\ completed = <<>>
    /\ sending = [message |-> 0, type |-> "none", part |-> Fragments + 1]
    /\ checkpoint = EmptyCheckpoint
    /\ copies = [r \in CheckpointReaders |-> EmptyCheckpoint]
    /\ states = {EmptyCheckpoint}

-------------------------------------------------------------------------------
(* The buffer.                                                               *)

\* A message is begun when the last was sent, or given up.
NextMessage(type) ==
    /\ sending.message < MaxFragmented
    /\ sending' = [message |-> sending.message + 1, type |-> type, part |-> 1]
    /\ UNCHANGED <<buffer, bufferType, completed, checkpointVars>>

\* A fragment of another type drops what there is; one that does not fit is refused, and
\* those that follow it are not.
AppendFragment ==
    LET kept == IF bufferType # sending.type THEN <<>> ELSE buffer
        fragment == [message |-> sending.message, part |-> sending.part]
    IN  /\ sending.part <= Fragments
        /\ bufferType' = sending.type
        /\ buffer' = IF Len(kept) + 1 > BufferLimit THEN kept ELSE Append(kept, fragment)
        /\ sending' = [sending EXCEPT !.part = @ + 1]
        /\ UNCHANGED <<completed, checkpointVars>>

WholeMessage(m) == [p \in 1..Fragments |-> [message |-> m, part |-> p]]

IsJSON(fragments) == \E m \in 1..MaxFragmented : fragments = WholeMessage(m)

\* Only text is known to be complete: a binary message never is.
GetComplete ==
    /\ buffer # <<>>
    /\ bufferType = "text" /\ IsJSON(buffer)
    /\ completed' = buffer
    /\ buffer' = <<>>
    /\ UNCHANGED <<bufferType, sending, checkpointVars>>

\* Clear() of a buffer that is stale, say.
ClearBuffer ==
    /\ buffer # <<>>
    /\ buffer' = <<>>
    /\ UNCHANGED <<bufferType, sending, completed, checkpointVars>>

-------------------------------------------------------------------------------
(* The checkpoint.                                                           *)

CheckpointChanges(data) ==
    /\ checkpoint' = data
    /\ states' = states \cup {data}
    /\ UNCHANGED <<bufferVars, copies>>

SaveCheckpoint(k, value) == CheckpointChanges([checkpoint EXCEPT ![k] = value])

ClearCheckpoint == CheckpointChanges(EmptyCheckpoint)

GetAllCheckpoints(r) ==
    /\ copies' = [copies EXCEPT ![r] = checkpoint]
    /\ UNCHANGED <<bufferVars, checkpoint, states>>

ResumptionNext ==
    \/ \E type \in {"text", "binary"} : NextMessage(type)
    \/ AppendFragment \/ GetComplete \/ ClearBuffer
    \/ \E k \in CheckpointKeys, value \in CheckpointValues : SaveCheckpoint(k, value)
    \/ ClearCheckpoint
    \/ \E r \in CheckpointReaders : GetAllCheckpoints(r)

ResumptionSpec == ResumptionInit /\ [][ResumptionNext]_resumptionVars

-------------------------------------------------------------------------------
(* Properties.                                                               *)

\* The parts in the buffer come in the order they were sent and none twice, whatever was
\* refused or dropped between them: what is missing can keep a message from being complete,
\* it cannot make another of it.
PartsInOrder ==
    /\ \A m, n \in DOMAIN buffer : m < n =>
        \/ buffer[m].message < buffer[n].message
        \/ buffer[m].message = buffer[n].message /\ buffer[m].part < buffer[n].part
    /\ completed # <<>> => IsJSON(completed) /\ \A n \in DOMAIN buffer :
                                buffer[n].message >= completed[1].message

\* A copy is what the checkpoint was at one moment, whatever was saved since.
CopiesAreStates == \A r \in CheckpointReaders : copies[r] \in states

\* Once a message was sent from its first part on, its parts are all there.  The code breaks
\* this: what is left of a message that was given up stays, and no later one of its type is
\* ever complete.
SentIsComplete ==
    (sending.part > Fragments /\ sending.type = "text" /\ Len(buffer) >= Fragments)
        => IsJSON(SubSeq(buffer, 1, Fragments))
===============================================================================
