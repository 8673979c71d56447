SPECIFICATION FairSpec
CONSTANTS
    Systems = {"pipeline", "routing", "transcription", "translation", "speech",
               "broadcast", "callbacks", "figures", "segments", "delays"}
    Media = {a1}
    MediaKind <- MCKind
    Stages <- MCStages
    Controllers = {c1}
    BufferSize = 2
    MaxPipelines = 2
    MaxStages = 3
    MaxPackets = 3
    Receivers = {r1}
    RoutedTracks = {t1, t2}
    Removers = {g1, g2}
    MaxConns = 2
    ChanSize = 1
    MaxRouted = 2
    Feeders = {f1, f2}
    Callers = {u1}
    MaxPeers = 1
    MaxMessages = 1
    MaxFrames = 1
    EventQueue = 1
    MaxLoops = 1
    Translators = {x1, x2}
    WarmUp = WarmUp
    Languages = {en, de}
    MaxFailures = 2
    Burst = 1
    MaxTranslations = 2
    Speakers = {s1}
    WarmUpSpeaker = WarmUpSpeaker
    SpeechLanguages = {en, de}
    SpeechMaxFailures = 2
    SpeechBurst = 1
    MaxBatches = 2
    BroadcastTracks = {b1, b2}
    Listeners = {l1, l2}
    MaxBroadcasts = 2
    Observers = {o1}
    Notifiers = {n1, n2}
    Watched = {w1}
    MaxCallbacks = 2
    MaxNotified = 2
    Latencies = {0, 1000}
    Delays = {0, 1000, 3000}
    Buckets = 2
    MaxMeasured = 3
    MaxTime = 4
INVARIANT MediaOK
INVARIANT PacketsInOrder
INVARIANT ReleasedIsQuiet
INVARIANT RoutesAgree
INVARIANT IncludedOnce
INVARIANT NoSpeechLost
PROPERTY StopGoesOn
PROPERTY TranslationBreaks
CHECK_DEADLOCK FALSE
