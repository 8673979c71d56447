------------------------------ MODULE MediaPipeline ------------------------------
(***************************************************************************)
(* MediaPipeline: the stages all tracks go through, and for each track a   *)
(* MediaTrackPipeline with two buffers, a receiver goroutine that reads    *)
(* RTP packets into the input buffer and a processing goroutine that takes *)
(* them through the stages into the output buffer.  Packets are numbered   *)
(* by the order they arrive on their track.                                *)
(*                                                                         *)
(* MediaPipelines are numbered as they are made; a map of tracks is a      *)
(* function from the tracks it holds.                                      *)
(***************************************************************************)
EXTENDS Naturals, Sequences, SequencesExt

CONSTANTS
    Media,          \* IDs of media tracks
    MediaKind,      \* [Media -> {"audio", "video", "other"}]
    Stages,         \* stages that may be added, [name, priority, does] records
    Controllers,    \* goroutines that call StopProcessingTrack and Stop
    BufferSize,     \* maxSize of a buffer
    MaxPipelines,   \* bound on the track pipelines made
    MaxStages,      \* bound on the stages of the pipeline
    MaxPackets      \* bound on the packets of a track

ASSUME MediaAssumption ==
    /\ MediaKind \in [Media -> {"audio", "video", "other"}]
    /\ BufferSize \in Nat \ {0} /\ MaxPipelines \in Nat /\ MaxPackets \in Nat
    /\ \A s \in Stages : s.priority \in Nat /\ s.does \in {"pass", "transcode", "custom"}

VARIABLES
    stages,     \* mp.stages
    added,      \* the stages in the order they were added, without the removed
    sealed,     \* mp.encryptionCipher is set
    made,       \* how many track pipelines were made
    pipes,      \* the track pipelines made so far
    tracked,    \* mp.tracks
    arrived,    \* packets of each track read so far
    ended,      \* tracks with no more packets: ReadRTP returns io.EOF
    stopper,    \* what each controller does
    released    \* track pipelines a StopProcessingTrack has returned for

pipeVars == <<stages, added, sealed, made, pipes, tracked, arrived, ended, stopper, released>>

Frame == [packet : 1..MaxPackets, transcoded : BOOLEAN]

Pipes == 1..made

TrackPipeline ==
    [track : Media, cancelled : BOOLEAN, wg : 0..2,
     receiver : {"none", "looks", "reading", "done"}, looper : {"running", "working", "done"},
     input : Seq(Frame), output : Seq(Frame),
     frame : Seq(Frame), snapshot : Seq(Stages), processed : Nat, dropped : Nat]

Stopper == [at : {"idle", "lookup", "cancel", "wait"},
            todo : SUBSET Media, pipe : 0..MaxPipelines]

Idle == [at |-> "idle", todo |-> {}, pipe |-> 0]

PipelineTypeOK ==
    /\ stages \in Seq(Stages) /\ added \in Seq(Stages)
    /\ sealed \in BOOLEAN
    /\ made \in 0..MaxPipelines
    /\ pipes \in [Pipes -> TrackPipeline]
    /\ DOMAIN tracked \subseteq Media
    /\ \A t \in DOMAIN tracked : tracked[t] \in Pipes /\ pipes[tracked[t]].track = t
    /\ arrived \in [Media -> 0..MaxPackets]
    /\ ended \subseteq Media
    /\ stopper \in [Controllers -> Stopper]
    /\ released \subseteq Pipes

PipelineInit ==
    /\ stages = <<>> /\ added = <<>>
    /\ sealed = FALSE
    /\ made = 0 /\ pipes = <<>> /\ tracked = <<>>
    /\ arrived = [t \in Media |-> 0]
    /\ ended = {}
    /\ stopper = [c \in Controllers |-> Idle]
    /\ released = {}

-------------------------------------------------------------------------------
(* MediaBuffer.  CreateBuffer makes every buffer with dropOldest.          *)

CreateBuffer == [data |-> <<>>, maxSize |-> BufferSize, dropOldest |-> TRUE]

Enqueue(buffer, data) ==
    IF Len(buffer) < BufferSize THEN Append(buffer, data)
    ELSE IF CreateBuffer.dropOldest THEN Append(Tail(buffer), data)
    ELSE buffer

\* Mutation of Dequeue: the frame returned stays in the buffer.
DequeueKept(buffer) == buffer

Dequeue(buffer) == Tail(buffer)

-------------------------------------------------------------------------------
(* The stages.  sortStages is a bubble sort: Pass(s, k) carries the        *)
(* largest of the first k + 1 stages to place k + 1.                       *)

\* Mutation of Swapped: an equal priority is swapped too.
SwappedEqual(s, j) ==
    IF s[j].priority >= s[j + 1].priority
    THEN [s EXCEPT ![j] = s[j + 1], ![j + 1] = s[j]] ELSE s

Swapped(s, j) ==
    IF s[j].priority > s[j + 1].priority
    THEN [s EXCEPT ![j] = s[j + 1], ![j + 1] = s[j]] ELSE s

Pass(s, k) ==
    LET after[j \in 0..k] == IF j = 0 THEN s ELSE Swapped(after[j - 1], j) IN after[k]

SortStages(s) ==
    LET after[i \in 0..Len(s)] == IF i = 0 THEN s ELSE IF i = Len(s) THEN after[i - 1]
                                  ELSE Pass(after[i - 1], Len(s) - i)
    IN after[Len(s)]

AddStage(s) ==
    /\ Len(stages) < MaxStages
    /\ stages' = SortStages(Append(stages, s))
    /\ added' = Append(added, s)
    /\ UNCHANGED <<sealed, made, pipes, tracked, arrived, ended, stopper, released>>

(* The stages of a sequence that are in a set, as the loop keeps them.      *)
StagesIn(s, kept) ==
    LET filtered[i \in 0..Len(s)] ==
            IF i = 0 THEN <<>>
            ELSE IF s[i] \in kept THEN Append(filtered[i - 1], s[i]) ELSE filtered[i - 1]
    IN filtered[Len(s)]

OtherStages(s, name) == StagesIn(s, {x \in Stages : x.name # name})

RemoveStage(name) ==
    /\ stages' = OtherStages(stages, name)
    /\ added' = OtherStages(added, name)
    /\ UNCHANGED <<sealed, made, pipes, tracked, arrived, ended, stopper, released>>

(* A key that cannot be decoded, or is not of 16 bytes, changes nothing.   *)
SetEncryptionKey ==
    /\ sealed' = TRUE
    /\ UNCHANGED <<stages, added, made, pipes, tracked, arrived, ended, stopper, released>>

PassthroughProcess(frame) == frame

TranscodingProcess(frame) == [frame EXCEPT !.transcoded = TRUE]

(* What a frame may become in a stage: a stage of the user's may fail.     *)
Results(stage, frame) ==
    CASE stage.does = "pass"      -> {<<PassthroughProcess(frame)>>}
      [] stage.does = "transcode" -> {<<TranscodingProcess(frame)>>}
      [] stage.does = "custom"    -> {<<frame>>, <<>>}

(* The outcomes of the stages of a snapshot: <<>> when one of them failed. *)
ProcessThroughStages(snapshot, frame) ==
    LET after[i \in 0..Len(snapshot)] ==
            IF i = 0 THEN {<<frame>>}
            ELSE UNION {IF f = <<>> THEN {<<>>} ELSE Results(snapshot[i], f[1]) : f \in after[i - 1]}
    IN after[Len(snapshot)]

-------------------------------------------------------------------------------
(* Starting and stopping the processing of a track.                        *)

NewTrackPipeline(t) ==
    [track |-> t, cancelled |-> FALSE, wg |-> 1, receiver |-> "none", looper |-> "running",
     input |-> CreateBuffer.data, output |-> CreateBuffer.data, frame |-> <<>>, snapshot |-> <<>>,
     processed |-> 0, dropped |-> 0]

\* Mutation of StartMediaReceiver: the receiver is not counted in wg.
StartUncounted(pipe) ==
    CASE MediaKind[pipe.track] = "audio" -> [pipe EXCEPT !.receiver = "looks"]
      [] MediaKind[pipe.track] = "video" -> pipe
      [] MediaKind[pipe.track] = "other" -> [pipe EXCEPT !.cancelled = TRUE]

(* startMediaReceiver: only audio has a receiver; any other kind fails.    *)
StartMediaReceiver(pipe) ==
    CASE MediaKind[pipe.track] = "audio" -> [pipe EXCEPT !.wg = @ + 1, !.receiver = "looks"]
      [] MediaKind[pipe.track] = "video" -> pipe
      [] MediaKind[pipe.track] = "other" -> [pipe EXCEPT !.cancelled = TRUE]

StartProcessingTrack(t) ==
    LET pipe == StartMediaReceiver(NewTrackPipeline(t)) IN
    /\ t \notin DOMAIN tracked
    /\ made < MaxPipelines
    /\ made' = made + 1
    /\ pipes' = Append(pipes, pipe)
    /\ tracked' = IF pipe.cancelled THEN tracked
                  ELSE [x \in DOMAIN tracked \cup {t} |-> IF x = t THEN made' ELSE tracked[x]]
    /\ UNCHANGED <<stages, added, sealed, arrived, ended, stopper, released>>

Begin(c, todo) ==
    /\ stopper[c] = Idle
    /\ stopper' = [stopper EXCEPT ![c] = [Idle EXCEPT !.at = "lookup", !.todo = todo]]
    /\ UNCHANGED <<stages, added, sealed, made, pipes, tracked, arrived, ended, released>>

(* Stop copies the IDs under mp.mu and then stops each track.              *)
StopPipeline(c) == DOMAIN tracked # {} /\ Begin(c, DOMAIN tracked)

StopProcessingTrack(c, t) == Begin(c, {t})

(* The rest of a controller's tracks, or the end of its call.              *)
Proceed(s) == IF s.todo = {} THEN Idle ELSE [s EXCEPT !.at = "lookup", !.pipe = 0]

TakeOut(c, t) ==
    /\ stopper[c].at = "lookup" /\ t \in stopper[c].todo
    /\ LET rest == [stopper[c] EXCEPT !.todo = @ \ {t}] IN
       IF t \in DOMAIN tracked
       THEN /\ tracked' = [x \in DOMAIN tracked \ {t} |-> tracked[x]]
            /\ stopper' = [stopper EXCEPT ![c] = [rest EXCEPT !.at = "cancel", !.pipe = tracked[t]]]
       ELSE /\ stopper' = [stopper EXCEPT ![c] = Proceed(rest)]
            /\ UNCHANGED tracked
    /\ UNCHANGED <<stages, added, sealed, made, pipes, arrived, ended, released>>

CancelPipe(c) ==
    /\ stopper[c].at = "cancel"
    /\ pipes' = [pipes EXCEPT ![stopper[c].pipe].cancelled = TRUE]
    /\ stopper' = [stopper EXCEPT ![c].at = "wait"]
    /\ UNCHANGED <<stages, added, sealed, made, tracked, arrived, ended, released>>

AwaitPipe(c) ==
    /\ stopper[c].at = "wait" /\ pipes[stopper[c].pipe].wg = 0
    /\ released' = released \cup {stopper[c].pipe}
    /\ stopper' = [stopper EXCEPT ![c] = Proceed(@)]
    /\ UNCHANGED <<stages, added, sealed, made, pipes, tracked, arrived, ended>>

-------------------------------------------------------------------------------
(* The goroutines of a track pipeline.                                     *)

Become(i, pipe) ==
    /\ pipes' = [pipes EXCEPT ![i] = pipe]
    /\ UNCHANGED <<stages, added, sealed, made, tracked, ended, stopper, released>>

\* Mutation of ReceiverDone: wg.Done is forgotten.
ReceiverUncounted(pipe) == [pipe EXCEPT !.receiver = "done", !.wg = @]

ReceiverDone(pipe) == [pipe EXCEPT !.receiver = "done", !.wg = @ - 1]

(* The receiver looks at its context between two packets only.             *)
ReceiverLooks(i) ==
    /\ pipes[i].receiver = "looks"
    /\ Become(i, IF pipes[i].cancelled THEN ReceiverDone(pipes[i])
                 ELSE [pipes[i] EXCEPT !.receiver = "reading"])
    /\ UNCHANGED arrived

(* ReadRTP fails: the track ended.                                         *)
ReceiverEnds(i) ==
    /\ pipes[i].receiver = "reading" /\ pipes[i].track \in ended
    /\ Become(i, ReceiverDone(pipes[i])) /\ UNCHANGED arrived

(* With a key set a frame that cannot be decrypted is skipped.             *)
ReceiveAudioPacket(i) ==
    LET t == pipes[i].track
        looks == [pipes[i] EXCEPT !.receiver = "looks"] IN
    /\ pipes[i].receiver = "reading" /\ t \notin ended /\ arrived[t] < MaxPackets
    /\ arrived' = [arrived EXCEPT ![t] = @ + 1]
    /\ \/ Become(i, [looks EXCEPT !.input =
                        Enqueue(@, [packet |-> arrived'[t], transcoded |-> FALSE])])
       \/ sealed /\ Become(i, looks)

LooperCancelled(i) ==
    /\ pipes[i].looper = "running" /\ pipes[i].cancelled
    /\ Become(i, [pipes[i] EXCEPT !.looper = "done", !.wg = @ - 1]) /\ UNCHANGED arrived

(* An empty input buffer is looked at again 10 ms later.                   *)
LooperTakes(i) ==
    /\ pipes[i].looper = "running" /\ ~pipes[i].cancelled /\ pipes[i].input # <<>>
    /\ Become(i, [pipes[i] EXCEPT
            !.looper = "working", !.frame = <<Head(pipes[i].input)>>, !.snapshot = stages,
            !.input = Dequeue(@)])
    /\ UNCHANGED arrived

UpdateStats(pipe, failed) ==
    IF failed THEN [pipe EXCEPT !.dropped = @ + 1] ELSE [pipe EXCEPT !.processed = @ + 1]

LooperFinishes(i) ==
    /\ pipes[i].looper = "working"
    /\ \E result \in ProcessThroughStages(pipes[i].snapshot, pipes[i].frame[1]) :
          LET counted == UpdateStats(pipes[i], result = <<>>) IN
          Become(i, [counted EXCEPT
              !.looper = "running", !.frame = <<>>, !.snapshot = <<>>,
              !.output = IF result = <<>> THEN @ ELSE Enqueue(@, result[1])])
    /\ UNCHANGED arrived

(* A reader of the output: GetOutputBuffer, then Dequeue.                  *)
ReadOutput(t) ==
    /\ t \in DOMAIN tracked /\ pipes[tracked[t]].output # <<>>
    /\ Become(tracked[t], [pipes[tracked[t]] EXCEPT !.output = Dequeue(@)])
    /\ UNCHANGED arrived

MediaEnds(t) ==
    /\ t \notin ended
    /\ ended' = ended \cup {t}
    /\ UNCHANGED <<stages, added, sealed, made, pipes, tracked, arrived, stopper, released>>

PipelineNext ==
    \/ \E s \in Stages : AddStage(s) \/ RemoveStage(s.name)
    \/ SetEncryptionKey
    \/ \E t \in Media : StartProcessingTrack(t) \/ ReadOutput(t) \/ MediaEnds(t)
    \/ \E c \in Controllers : StopPipeline(c) \/ CancelPipe(c) \/ AwaitPipe(c)
    \/ \E c \in Controllers, t \in Media : StopProcessingTrack(c, t) \/ TakeOut(c, t)
    \/ \E i \in Pipes : \/ ReceiverLooks(i) \/ ReceiverEnds(i) \/ ReceiveAudioPacket(i)
                        \/ LooperCancelled(i) \/ LooperTakes(i) \/ LooperFinishes(i)

(* A goroutine that can go on is run again; nothing makes packets arrive.  *)
PipelineFairness ==
    /\ \A i \in 1..MaxPipelines :
          /\ WF_pipeVars(i \in Pipes /\ (ReceiverEnds(i) \/ ReceiverLooks(i)))
          /\ WF_pipeVars(i \in Pipes /\ LooperCancelled(i))
          /\ WF_pipeVars(i \in Pipes /\ LooperFinishes(i))
    /\ \A c \in Controllers :
          WF_pipeVars((\E t \in Media : TakeOut(c, t)) \/ CancelPipe(c) \/ AwaitPipe(c))

PipelineSpec == PipelineInit /\ [][PipelineNext]_pipeVars
PipelineFairSpec == PipelineSpec /\ PipelineFairness

-------------------------------------------------------------------------------
(* Stages execute by priority, and stages of the same priority in the      *)
(* order they were added, however AddStage and RemoveStage were called:    *)
(* the bubble sort of sortStages is stable.                                *)
StagesInOrder ==
    /\ \A i \in 1..(Len(stages) - 1) : stages[i].priority <= stages[i + 1].priority
    /\ \A s \in Stages :
          LET same == {x \in Stages : x.priority = s.priority}
          IN StagesIn(stages, same) = StagesIn(added, same)

(* A track pipeline never overtakes or repeats a packet: what is in its    *)
(* output, in its stages and in its input are packets in the order they    *)
(* arrived, whatever was dropped, failed, or read by a pipeline of the     *)
(* same track that is being stopped.                                       *)
PacketsInOrder ==
    \A i \in Pipes :
        LET all == pipes[i].output \o pipes[i].frame \o pipes[i].input
        IN \A j \in 1..(Len(all) - 1) : all[j].packet < all[j + 1].packet

(* "The method blocks until processing has fully stopped": once a          *)
(* StopProcessingTrack returned for a track pipeline, neither of its       *)
(* goroutines runs and it is no longer in mp.tracks.                       *)
ReleasedIsQuiet ==
    \A i \in released :
        /\ pipes[i].looper = "done" /\ pipes[i].receiver \in {"none", "done"}
        /\ \A t \in DOMAIN tracked : tracked[t] # i

(* A controller that waits for the goroutines of a track that has ended    *)
(* goes on: neither goroutine stays away from its context for good.        *)
StopGoesOn ==
    \A c \in Controllers, i \in 1..MaxPipelines :
        (stopper[c].at = "wait" /\ stopper[c].pipe = i /\ pipes[i].track \in ended)
            ~> (stopper[c].pipe # i)
===============================================================================
