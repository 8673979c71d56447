-------------------------------- MODULE MCMedia --------------------------------
\* The media of a job: the pipeline of its tracks, and stages that keep a state of their
\* own.  The stages share nothing with each other: in each behaviour one system runs and
\* the others rest.
EXTENDS MediaPipeline, WebRTCRouting, RealtimeTranscription, TranslationStage, SpeechStage,
        Broadcast, StageObservers, TLC

CONSTANT Systems

VARIABLE system

mediaVars ==
    <<system, pipeVars, routingVars, rtsVars, translationVars, speechVars,
      broadcastVars, callbackVars, figureVars, segmentVars, delayVars>>

Init ==
    /\ system \in Systems
    /\ PipelineInit /\ RoutingInit /\ TranscriptionInit /\ TranslationStageInit /\ SpeechInit
    /\ BroadcastInit
    /\ CallbacksInit /\ FiguresInit /\ SegmentsInit /\ DelaysInit
    /\ system # "speech" => generators[WarmUpSpeaker][CHOOSE l \in SpeechLanguages : TRUE] = "start"

OthersRest ==
    /\ UNCHANGED system
    /\ system # "pipeline" => UNCHANGED pipeVars
    /\ system # "routing" => UNCHANGED routingVars
    /\ system # "transcription" => UNCHANGED rtsVars
    /\ system # "translation" => UNCHANGED translationVars
    /\ system # "speech" => UNCHANGED speechVars
    /\ system # "broadcast" => UNCHANGED broadcastVars
    /\ system # "callbacks" => UNCHANGED callbackVars
    /\ system # "figures" => UNCHANGED figureVars
    /\ system # "segments" => UNCHANGED segmentVars
    /\ system # "delays" => UNCHANGED delayVars

\* A track's pipelines and several stages meet in the snapshot a frame is given only:
\* beside one pipeline there is one stage, which may fail, and a second pipeline of the
\* track starts when that stage was removed.
Narrow ==
    made = 0 \/ (made + Len(stages) <= 2 /\ \A i \in DOMAIN stages : stages[i].does = "custom")

Next ==
    \/ system = "pipeline" /\ PipelineNext /\ Narrow' /\ OthersRest
    \/ system = "routing" /\ RoutingNext /\ OthersRest
    \/ system = "transcription" /\ TranscriptionNext /\ OthersRest
    \/ system = "translation" /\ TranslationStageNext /\ OthersRest
    \/ system = "speech" /\ SpeechNext /\ OthersRest
    \/ system = "broadcast" /\ BroadcastNext /\ OthersRest
    \/ system = "callbacks" /\ CallbacksNext /\ OthersRest
    \/ system = "figures" /\ FiguresNext /\ OthersRest
    \/ system = "segments" /\ SegmentsNext /\ OthersRest
    \/ system = "delays" /\ DelaysNext /\ OthersRest

FairSpec == Init /\ [][Next]_mediaVars /\ PipelineFairness

MCKind == [t \in Media |-> "audio"]

MCStages ==
    {[name |-> "low", priority |-> 1, does |-> "transcode"],
     [name |-> "high", priority |-> 2, does |-> "pass"],
     [name |-> "own", priority |-> 2, does |-> "custom"]}

\* The types, and what is claimed of the stages' order, the router's connections, the
\* translation metrics, the broadcasts, and what the stages tell their observers.
MediaOK ==
    /\ system = "pipeline" => PipelineTypeOK /\ StagesInOrder
    /\ system = "routing" => RoutingTypeOK /\ ClosedAreQuiet /\ WrittenInOrder
    /\ system = "transcription" => TranscriptionTypeOK
    /\ system = "translation" => TranslationStageTypeOK /\ CallsCounted
    /\ system = "speech" => SpeechTypeOK
    /\ system = "broadcast" => BroadcastTypeOK /\ BroadcastToAll
    /\ system = "callbacks" => ObserversTypeOK /\ CalledOncePerRegistration
    /\ system = "figures" => FiguresTypeOK /\ MetricsOfLastCalls /\ AveragesBetween
    /\ system = "segments" => SegmentsFollowOn
    /\ system = "delays" => DelaysAgree
===============================================================================
