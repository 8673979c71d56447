------------------------------ MODULE MediaProofs ------------------------------
(***************************************************************************)
(* Of the media of a job, for any number of tracks, speakers, languages    *)
(* and packets: the translation stage breaks its circuit as the abstract   *)
(* breaker does, no speech is lost, a transcription is included once, the  *)
(* routes agree with the connections, and a track pipeline keeps the order *)
(* of its packets and is quiet once it was released.  The calls of the     *)
(* translation stage are counted, each callback is called once, and what   *)
(* is kept of delays agrees with the delays there were.  The stages stay   *)
(* in order, a broadcast reaches all, and the figures are those of the     *)
(* last calls; and, together, all that the composition MediaOK claims.     *)
(***************************************************************************)
EXTENDS MCMedia, SharedLemmas

-------------------------------------------------------------------------------
(* The circuit breaker of the translation stage.                            *)

(* What the phase rests on: no code makes the breaker half open, a closed  *)
(* one has not failed too often, and the timer runs for an open one only.  *)
BreakerInv ==
    /\ breaker \in [state : {"closed", "open"}, failureCount : Nat]
    /\ retryDue \in BOOLEAN
    /\ breaker.state = "closed" => breaker.failureCount < MaxFailures
    /\ ~retryDue => breaker.state = "open"

LEMMA BreakerInvInit == TranslationStageInit => BreakerInv
BY TranslationAssumption DEF TranslationStageInit, BreakerInv

LEMMA BreakerInvNext == BreakerInv /\ [TranslationStageNext]_translationVars => BreakerInv'
<1> SUFFICES ASSUME BreakerInv, [TranslationStageNext]_translationVars
             PROVE  BreakerInv'
    OBVIOUS
<1> USE TranslationAssumption DEF BreakerInv
<1>1. CASE UNCHANGED <<breaker, retryDue>>
    BY <1>1
<1>2. ASSUME NEW c \in Goroutines, RecordAPISuccess(c)
      PROVE  BreakerInv'
    BY <1>2 DEF RecordAPISuccess, RecordSuccess
<1>3. ASSUME NEW c \in Goroutines, RecordAPIFailure(c)
      PROVE  BreakerInv'
    <2>1. CASE Trips(breaker)
        <3>1. breaker' = [state |-> "open", failureCount |-> breaker.failureCount + 1]
              /\ retryDue' = FALSE
            BY <1>3, <2>1 DEF RecordAPIFailure
        <3>2. breaker.failureCount + 1 \in Nat
            OBVIOUS
        <3>3. QED
            BY <3>1, <3>2
    <2>2. CASE ~Trips(breaker)
        <3>1. breaker' = [state |-> breaker.state, failureCount |-> breaker.failureCount + 1]
              /\ retryDue' = retryDue
            BY <1>3, <2>2 DEF RecordAPIFailure
        <3>2. QED
            BY <3>1, <2>2 DEF Trips
    <2>3. QED
        BY <2>1, <2>2
<1>4. CASE RetryComesDue
    BY <1>4 DEF RetryComesDue
<1>5. QED
    BY <1>1, <1>2, <1>3, <1>4
    DEF TranslationStageNext, translationVars, ValidateInput, AskBreaker, AskLimiter, CallOpenAI,
        UpdateTranslationStats, ProcessTranscription, WarmUpEnds, TokenRefills

(* Each step of the stage is a step of the circuit breaker, or none.       *)
LEMMA BreakerStep ==
    BreakerInv /\ [TranslationStageNext]_translationVars
        => [Circuit!BreakerNext]_<<CircuitPhase, CircuitFailures>>
<1> SUFFICES ASSUME BreakerInv, [TranslationStageNext]_translationVars
             PROVE  [Circuit!BreakerNext]_<<CircuitPhase, CircuitFailures>>
    OBVIOUS
<1> USE TranslationAssumption DEF BreakerInv, CircuitPhase, CircuitFailures
<1>1. CASE UNCHANGED <<breaker, retryDue>>
    BY <1>1
<1>2. ASSUME NEW c \in Goroutines, RecordAPISuccess(c)
      PROVE  Circuit!CallSucceeded
    BY <1>2 DEF RecordAPISuccess, RecordSuccess, Circuit!CallSucceeded
<1>3. ASSUME NEW c \in Goroutines, RecordAPIFailure(c)
      PROVE  Circuit!CallFailed
    <2>1. CASE Trips(breaker)
        <3>1. breaker' = [state |-> "open", failureCount |-> breaker.failureCount + 1]
              /\ retryDue' = FALSE
            BY <1>3, <2>1 DEF RecordAPIFailure
        <3>2. CircuitPhase' = "open" /\ CircuitFailures' = MaxFailures
            BY <3>1, <2>1 DEF Trips
        <3>3. QED
            BY <3>2, <2>1 DEF Trips, Circuit!CallFailed
    <2>2. CASE ~Trips(breaker)
        <3>1. breaker' = [state |-> breaker.state, failureCount |-> breaker.failureCount + 1]
              /\ retryDue' = retryDue
            BY <1>3, <2>2 DEF RecordAPIFailure
        <3>2. CircuitPhase' = CircuitPhase /\ CircuitFailures' = CircuitFailures + 1
            BY <3>1, <2>2 DEF Trips
        <3>3. QED
            BY <3>2, <2>2 DEF Trips, Circuit!CallFailed
    <2>3. QED
        BY <2>1, <2>2
<1>4. ASSUME RetryComesDue
      PROVE  Circuit!TimerFires
    BY <1>4 DEF RetryComesDue, Circuit!TimerFires
<1>5. UNCHANGED <<breaker, retryDue>> \/ RetryComesDue
        \/ \E c \in Goroutines : RecordAPISuccess(c) \/ RecordAPIFailure(c)
    BY DEF TranslationStageNext, translationVars, ValidateInput, AskBreaker, AskLimiter, CallOpenAI,
        UpdateTranslationStats, ProcessTranscription, WarmUpEnds, TokenRefills
<1>6. QED
    BY <1>1, <1>2, <1>3, <1>4, <1>5 DEF Circuit!BreakerNext

(* For any number of tracks, of failures that trip it and of tokens, the   *)
(* stage's breaker implements the abstract one: the calls that race with   *)
(* each other and with the timer do not make it open late, close early or  *)
(* forget that it has to open again.                                       *)
THEOREM TranslationIsCircuitBreaker == TranslationStageSpec => TranslationBreaks
<1>1. TranslationStageInit => Circuit!BreakerInit
    BY TranslationAssumption
    DEF TranslationStageInit, Circuit!BreakerInit, CircuitPhase, CircuitFailures
<1>2. QED
    BY <1>1, BreakerInvInit, BreakerInvNext, BreakerStep, PTL
    DEF TranslationStageSpec, TranslationBreaks, Circuit!BreakerSpec

-------------------------------------------------------------------------------
(* Proof that no speech is lost.  What the API gave for a language of the  *)
(* frame is with its goroutine, in the channel or in the audio map; a      *)
(* closed channel gets nothing more.                                       *)

SpeechTypes ==
    /\ batches \in [Speakers -> Batch]
    /\ generators \in [Speaking -> [SpeechLanguages -> Generator]]
    /\ generated \in [Speaking -> SUBSET SpeechLanguages]

Delivered(s, l) ==
    /\ generators[s][l] = "done"
    /\ [language |-> l, ok |-> TRUE] \in batches[s].resultChan \/ l \in batches[s].ttsAudioMap

Traced(s, l) ==
    /\ batches[s].at = "idle" \/ l \notin batches[s].langs => generators[s][l] = "none"
    /\ l \in batches[s].langs => generators[s][l] # "none"
    /\ batches[s].at # "idle" => (l \in generated[s]
            <=> generators[s][l] \in {"succeeded", "give"} \/ Delivered(s, l))
    /\ \A ok \in BOOLEAN :
            [language |-> l, ok |-> ok] \in batches[s].resultChan => generators[s][l] = "done"
    /\ l \in batches[s].ttsAudioMap => generators[s][l] = "done"

Closing(s) ==
    /\ batches[s].at = "collect" /\ batches[s].closed => AllDone(s)
    /\ batches[s].at = "count" => AllDone(s) /\ batches[s].resultChan = {}

SpeechInv ==
    /\ SpeechTypes
    /\ \A s \in Speakers : Closing(s)
    /\ \A s \in Speakers, l \in SpeechLanguages : Traced(s, l)

LEMMA SpeechInvInit == SpeechInit => SpeechInv
<1> SUFFICES ASSUME SpeechInit PROVE SpeechInv
    OBVIOUS
<1> USE SpeechAssumption DEF SpeechInit, Speaking
<1>1. PICK first \in SpeechLanguages :
        generators = [s \in Speaking |-> [l \in SpeechLanguages |->
            IF s = WarmUpSpeaker /\ l = first THEN "start" ELSE "none"]]
    OBVIOUS
<1>2. \A s \in Speakers, l \in SpeechLanguages : generators[s][l] = "none"
    BY <1>1
<1>3. SpeechTypes
    BY <1>1 DEF SpeechTypes, Batch, NoBatch, Generator
<1> QED
    BY <1>2, <1>3 DEF SpeechInv, Closing, Traced, Delivered, NoBatch

(* A goroutine goes on, by itself: the channel and the audio map stay.     *)
LEMMA GeneratorMoves ==
    ASSUME SpeechInv, NEW s \in Speaking, NEW l \in SpeechLanguages,
           NEW from \in Generator \ {"none", "done"}, NEW to \in Generator \ {"none", "done"},
           Generates(s, l, from, to), UNCHANGED batches,
           generated' = IF to = "succeeded" THEN [generated EXCEPT ![s] = @ \cup {l}] ELSE generated,
           to \in {"succeeded", "give"} <=> from \in {"succeeded", "give"} \/ to = "succeeded"
    PROVE  SpeechInv'
<1> USE DEF SpeechInv
<1>1. /\ generators[s][l] = from /\ generators'[s][l] = to
      /\ generators' \in [Speaking -> [SpeechLanguages -> Generator]]
      /\ \A r \in Speaking, k \in SpeechLanguages :
            r # s \/ k # l => generators'[r][k] = generators[r][k]
    BY DEF Generates, SpeechTypes
<1>2. /\ generated' \in [Speaking -> SUBSET SpeechLanguages]
      /\ l \in generated'[s] <=> l \in generated[s] \/ to = "succeeded"
      /\ \A r \in Speaking, k \in SpeechLanguages :
            r # s \/ k # l => (k \in generated'[r] <=> k \in generated[r])
    BY DEF SpeechTypes
<1>3. SpeechTypes'
    BY <1>1, <1>2 DEF SpeechTypes
<1>4. ASSUME NEW r \in Speakers, NEW k \in SpeechLanguages
      PROVE  Traced(r, k)'
    <2>1. Traced(r, k) /\ r \in Speaking
        BY DEF Speaking
    <2>2. CASE r = s /\ k = l
        BY <1>1, <1>2, <2>1, <2>2 DEF Traced, Delivered
    <2>3. CASE r # s \/ k # l
        <3>1. generators'[r][k] = generators[r][k] /\ (k \in generated'[r] <=> k \in generated[r])
            BY <1>1, <1>2, <2>1, <2>3
        <3> QED
            BY <2>1, <3>1 DEF Traced, Delivered
    <2> QED
        BY <2>2, <2>3
<1>5. ASSUME NEW r \in Speakers PROVE Closing(r)'
    <2>1. Closing(r) /\ r \in Speaking /\ batches[r].langs \subseteq SpeechLanguages
        BY DEF Speaking, SpeechTypes, Batch
    <2>2. AllDone(r) => AllDone(r)'
        BY <1>1, <2>1 DEF AllDone
    <2> QED
        BY <2>1, <2>2 DEF Closing
<1> QED
    BY <1>3, <1>4, <1>5

LEMMA GeneratorsKeep ==
    ASSUME SpeechInv, NEW s \in Speaking, NEW l \in SpeechLanguages,
           \/ GenerateTTS(s, l) \/ AllowSpeech(s, l) \/ CallOpenAITTS(s, l)
           \/ SpeechRecordAPISuccess(s, l) \/ SpeechRecordAPIFailure(s, l)
    PROVE  SpeechInv'
<1> DEFINE Goes(from, to) == Generates(s, l, from, to) /\ UNCHANGED <<batches, generated>>
<1>1. \/ Goes("start", "limit") \/ Goes("start", "fail") \/ Goes("limit", "calling")
      \/ Goes("limit", "fail") \/ Goes("calling", "failed") \/ Goes("succeeded", "give")
      \/ Goes("failed", "fail")
      \/ /\ Generates(s, l, "calling", "succeeded") /\ UNCHANGED batches
         /\ generated' = [generated EXCEPT ![s] = @ \cup {l}]
    BY DEF GenerateTTS, AllowSpeech, CallOpenAITTS, SpeechRecordAPISuccess, SpeechRecordAPIFailure
<1> QED
    BY <1>1, GeneratorMoves DEF Generator

LEMMA SendKeeps ==
    ASSUME SpeechInv, NEW s \in Speakers, NEW l \in SpeechLanguages, SendResult(s, l)
    PROVE  SpeechInv'
<1> USE DEF SpeechInv
<1>1. PICK ok \in BOOLEAN :
        /\ Generates(s, l, IF ok THEN "give" ELSE "fail", "done")
        /\ batches' = [batches EXCEPT ![s].resultChan = @ \cup {[language |-> l, ok |-> ok]}]
    BY DEF SendResult
<1>2. s \in Speaking /\ batches[s] \in Batch /\ UNCHANGED generated
    BY DEF Speaking, SpeechTypes, SendResult
<1>3. /\ generators[s][l] = (IF ok THEN "give" ELSE "fail") /\ generators'[s][l] = "done"
      /\ generators' \in [Speaking -> [SpeechLanguages -> Generator]]
      /\ \A r \in Speaking, k \in SpeechLanguages :
            r # s \/ k # l => generators'[r][k] = generators[r][k]
    BY <1>1, <1>2 DEF Generates, SpeechTypes, Generator
<1>4. /\ batches'[s].at = batches[s].at /\ batches'[s].langs = batches[s].langs
      /\ batches'[s].closed = batches[s].closed /\ batches'[s].ttsAudioMap = batches[s].ttsAudioMap
      /\ batches'[s].resultChan = batches[s].resultChan \cup {[language |-> l, ok |-> ok]}
      /\ \A r \in Speakers \ {s} : batches'[r] = batches[r]
      /\ batches' \in [Speakers -> Batch]
    <2>1. [language |-> l, ok |-> ok] \in Result /\ batches[s].resultChan \subseteq Result
        BY <1>2 DEF Batch, Result
    <2>2. [batches[s] EXCEPT !.resultChan = @ \cup {[language |-> l, ok |-> ok]}] \in Batch
        BY <1>2, <2>1 DEF Batch
    <2> QED
        BY <1>1, <1>2, <2>2 DEF SpeechTypes, Batch
<1>5. SpeechTypes'
    BY <1>2, <1>3, <1>4 DEF SpeechTypes
<1>6. ASSUME NEW r \in Speakers, NEW k \in SpeechLanguages
      PROVE  Traced(r, k)'
    <2>1. Traced(r, k) /\ r \in Speaking
        BY DEF Speaking
    <2>2. CASE r = s /\ k = l
        BY <1>2, <1>3, <1>4, <2>1, <2>2 DEF Traced, Delivered
    <2>3. CASE r = s /\ k # l
        <3>1. /\ generators'[s][k] = generators[s][k]
              /\ \A x \in BOOLEAN : [language |-> k, ok |-> x] \in batches'[s].resultChan
                    <=> [language |-> k, ok |-> x] \in batches[s].resultChan
            BY <1>2, <1>3, <1>4, <2>3
        <3> QED
            BY <1>2, <1>4, <2>1, <2>3, <3>1 DEF Traced, Delivered
    <2>4. CASE r # s
        BY <1>2, <1>3, <1>4, <2>1, <2>4 DEF Traced, Delivered
    <2> QED
        BY <2>2, <2>3, <2>4
<1>7. ASSUME NEW r \in Speakers PROVE Closing(r)'
    <2>1. Closing(r) /\ r \in Speaking /\ batches[r].langs \subseteq SpeechLanguages
        BY DEF Speaking, SpeechTypes, Batch
    <2>2. CASE r = s
        \* A goroutine that sends is not done, so the channel is open.
        <3>1. l \in batches[s].langs /\ ~AllDone(s) /\ Traced(s, l)
            BY <1>3 DEF Traced, AllDone
        <3>2. batches[s].at # "count" /\ ~(batches[s].at = "collect" /\ batches[s].closed)
            BY <2>1, <2>2, <3>1 DEF Closing
        <3> QED
            BY <1>4, <2>2, <3>2 DEF Closing
    <2>3. CASE r # s
        BY <1>3, <1>4, <2>1, <2>3 DEF Closing, AllDone
    <2> QED
        BY <2>2, <2>3
<1> QED
    BY <1>5, <1>6, <1>7

(* The steps of Process. *)
LEMMA CollectKeeps ==
    ASSUME SpeechInv, NEW s \in Speakers,
           CloseResults(s) \/ CollectResult(s) \/ CollectingEnds(s) \/ UpdateSpeechStats(s)
    PROVE  SpeechInv'
<1> USE DEF SpeechInv
<1>1. s \in Speaking /\ batches[s] \in Batch
    BY DEF Speaking, SpeechTypes
<1>2. CASE CloseResults(s)
    <2>1. /\ batches' = [batches EXCEPT ![s].closed = TRUE] /\ AllDone(s) /\ batches[s].at = "collect"
          /\ UNCHANGED <<generators, generated>>
        BY <1>2 DEF CloseResults
    <2>2. SpeechTypes'
        BY <1>1, <2>1 DEF SpeechTypes, Batch
    <2>3. \A r \in Speakers : /\ batches'[r].at = batches[r].at /\ batches'[r].langs = batches[r].langs
                              /\ batches'[r].resultChan = batches[r].resultChan
                              /\ batches'[r].ttsAudioMap = batches[r].ttsAudioMap
                              /\ r # s => batches'[r].closed = batches[r].closed
        BY <1>1, <2>1 DEF SpeechTypes, Batch
    <2> QED
        BY <2>1, <2>2, <2>3 DEF Closing, Traced, Delivered, AllDone
<1>3. CASE CollectResult(s)
    <2>1. PICK r \in batches[s].resultChan :
            batches' = [batches EXCEPT ![s].resultChan = @ \ {r},
                            ![s].ttsAudioMap = IF r.ok THEN @ \cup {r.language} ELSE @]
        BY <1>3 DEF CollectResult
    <2>2. /\ r \in Result /\ r = [language |-> r.language, ok |-> r.ok]
          /\ r.language \in SpeechLanguages /\ r.ok \in BOOLEAN
          /\ UNCHANGED <<generators, generated>> /\ batches[s].at = "collect"
        BY <1>1, <1>3 DEF Batch, Result, CollectResult
    <2>3. /\ batches'[s].at = batches[s].at /\ batches'[s].langs = batches[s].langs
          /\ batches'[s].closed = batches[s].closed
          /\ batches'[s].resultChan = batches[s].resultChan \ {r}
          /\ batches'[s].ttsAudioMap =
                IF r.ok THEN batches[s].ttsAudioMap \cup {r.language} ELSE batches[s].ttsAudioMap
          /\ \A q \in Speakers \ {s} : batches'[q] = batches[q]
          /\ batches' \in [Speakers -> Batch]
        BY <1>1, <2>1, <2>2 DEF SpeechTypes, Batch
    <2>4. ASSUME NEW l \in SpeechLanguages PROVE Traced(s, l)'
        <3>1. Traced(s, l)
            OBVIOUS
        <3>2. generators[s][r.language] = "done"
            <4>1. Traced(s, r.language) /\ [language |-> r.language, ok |-> r.ok] \in batches[s].resultChan
                BY <2>2
            <4> QED
                BY <2>2, <4>1 DEF Traced
        <3>3. \A x \in BOOLEAN : [language |-> l, ok |-> x] \in batches'[s].resultChan
                => [language |-> l, ok |-> x] \in batches[s].resultChan
            BY <2>3
        <3>4. Delivered(s, l)' <=> Delivered(s, l)
            <4>1. CASE l # r.language
                <5>1. [language |-> l, ok |-> TRUE] # r
                    BY <2>2, <4>1
                <5> QED
                    BY <2>2, <2>3, <4>1, <5>1 DEF Delivered
            <4>2. CASE l = r.language /\ r.ok
                BY <2>2, <2>3, <4>2 DEF Delivered
            <4>3. CASE l = r.language /\ ~r.ok
                <5>1. [language |-> l, ok |-> TRUE] # r
                    BY <2>2, <4>3
                <5> QED
                    BY <2>2, <2>3, <4>3, <5>1 DEF Delivered
            <4> QED
                BY <2>2, <4>1, <4>2, <4>3
        <3>5. l \in batches'[s].ttsAudioMap => generators[s][l] = "done"
            BY <2>3, <3>1, <3>2 DEF Traced
        <3> QED
            BY <2>2, <2>3, <3>1, <3>3, <3>4, <3>5 DEF Traced
    <2>5. ASSUME NEW q \in Speakers, NEW l \in SpeechLanguages PROVE Traced(q, l)'
        <3>1. CASE q = s
            BY <2>4, <3>1
        <3>2. CASE q # s
            BY <2>2, <2>3, <3>2 DEF Traced, Delivered
        <3> QED
            BY <3>1, <3>2
    <2>6. \A q \in Speakers : Closing(q)'
        BY <2>2, <2>3 DEF Closing, AllDone
    <2> QED
        BY <2>2, <2>3, <2>5, <2>6 DEF SpeechTypes
<1>4. CASE CollectingEnds(s)
    <2>1. /\ batches' = [batches EXCEPT ![s].at = "count"] /\ batches[s].at = "collect"
          /\ batches[s].closed /\ batches[s].resultChan = {}
          /\ UNCHANGED <<generators, generated>>
        BY <1>4 DEF CollectingEnds
    <2>2. SpeechTypes'
        BY <1>1, <2>1 DEF SpeechTypes, Batch
    <2>3. /\ \A r \in Speakers : /\ batches'[r].langs = batches[r].langs
                                 /\ batches'[r].resultChan = batches[r].resultChan
                                 /\ batches'[r].ttsAudioMap = batches[r].ttsAudioMap
                                 /\ batches'[r].closed = batches[r].closed
                                 /\ r # s => batches'[r].at = batches[r].at
          /\ batches'[s].at = "count"
        BY <1>1, <2>1 DEF SpeechTypes, Batch
    <2> QED
        BY <2>1, <2>2, <2>3 DEF Closing, Traced, Delivered, AllDone
<1>5. CASE UpdateSpeechStats(s)
    <2>1. /\ batches' = [batches EXCEPT ![s] = NoBatch] /\ UNCHANGED generated
          /\ generators' = [generators EXCEPT ![s] = [l \in SpeechLanguages |-> "none"]]
        BY <1>5 DEF UpdateSpeechStats
    <2>2. SpeechTypes'
        BY <1>1, <2>1 DEF SpeechTypes, Batch, NoBatch, Generator
    <2>3. /\ batches'[s] = NoBatch /\ \A l \in SpeechLanguages : generators'[s][l] = "none"
          /\ \A r \in Speakers \ {s} : batches'[r] = batches[r] /\ generators'[r] = generators[r]
        BY <1>1, <2>1 DEF SpeechTypes, Speaking
    <2> QED
        BY <2>1, <2>2, <2>3 DEF Closing, Traced, Delivered, AllDone, NoBatch
<1> QED
    BY <1>2, <1>3, <1>4, <1>5

LEMMA FrameKeeps ==
    ASSUME SpeechInv, NEW s \in Speakers, NEW langs \in SUBSET SpeechLanguages,
           NEW refused \in SUBSET langs, GenerateTTSParallel(s, langs, refused)
    PROVE  SpeechInv'
<1> USE DEF SpeechInv
<1>1. s \in Speaking
    BY DEF Speaking
<1>2. /\ batches' = [batches EXCEPT ![s] = [NoBatch EXCEPT !.at = "collect", !.langs = langs]]
      /\ generators' = [generators EXCEPT ![s] = [l \in SpeechLanguages |->
            IF l \notin langs THEN "none" ELSE IF l \in refused THEN "fail" ELSE "start"]]
      /\ generated' = [generated EXCEPT ![s] = {}]
    BY DEF GenerateTTSParallel
<1>3. SpeechTypes'
    BY <1>1, <1>2 DEF SpeechTypes, Batch, NoBatch, Generator
<1>4. /\ batches'[s] = [at |-> "collect", langs |-> langs, resultChan |-> {}, closed |-> FALSE,
                        ttsAudioMap |-> {}]
      /\ generated'[s] = {}
      /\ \A l \in SpeechLanguages : generators'[s][l] =
            IF l \notin langs THEN "none" ELSE IF l \in refused THEN "fail" ELSE "start"
      /\ \A r \in Speakers \ {s} : /\ batches'[r] = batches[r] /\ generators'[r] = generators[r]
                                   /\ generated'[r] = generated[r]
    BY <1>1, <1>2 DEF SpeechTypes, NoBatch, Speaking
<1> QED
    BY <1>3, <1>4 DEF Closing, Traced, Delivered, AllDone

LEMMA SpeechInvNext == SpeechInv /\ [SpeechNext]_speechVars => SpeechInv'
<1> SUFFICES ASSUME SpeechInv, [SpeechNext]_speechVars PROVE SpeechInv'
    OBVIOUS
<1>1. CASE UNCHANGED <<batches, generators, generated>>
    BY <1>1 DEF SpeechInv, SpeechTypes, Closing, Traced, Delivered, AllDone
<1>2. ASSUME NEW l \in SpeechLanguages, SpeechWarmUp(l) PROVE SpeechInv'
    <2>1. /\ UNCHANGED <<batches, generated>>
          /\ generators' = [generators EXCEPT ![WarmUpSpeaker][l] = "done"]
        BY <1>2 DEF SpeechWarmUp, Generates
    <2>2. SpeechTypes'
        BY <2>1 DEF SpeechInv, SpeechTypes, Generator, Speaking
    <2>3. \A s \in Speakers : generators'[s] = generators[s]
        BY <2>1, SpeechAssumption DEF SpeechInv, SpeechTypes, Speaking
    <2> QED
        BY <2>1, <2>2, <2>3 DEF SpeechInv, Closing, Traced, Delivered, AllDone
<1>3. CASE SpeechRetryComesDue \/ SpeechTokenRefills
    BY <1>1, <1>3 DEF SpeechRetryComesDue, SpeechTokenRefills
<1> QED
    BY <1>1, <1>2, <1>3, GeneratorsKeep, SendKeeps, CollectKeeps, FrameKeeps
    DEF SpeechNext, speechVars

(* For any number of frames, languages and failures: what the API gave is  *)
(* in the audio map of its own frame when Process has collected, and       *)
(* nothing else is.                                                        *)
THEOREM SpeechNeverLost == SpeechSpec => []NoSpeechLost
<1>1. SpeechInv => NoSpeechLost
    <2> SUFFICES ASSUME SpeechInv, NEW s \in Speakers, batches[s].at = "count"
                 PROVE  batches[s].ttsAudioMap = generated[s]
        BY DEF NoSpeechLost
    <2>1. batches[s].ttsAudioMap \subseteq SpeechLanguages /\ generated[s] \subseteq SpeechLanguages
        BY DEF SpeechInv, SpeechTypes, Batch, Speaking
    <2>2. ASSUME NEW l \in SpeechLanguages
          PROVE  l \in batches[s].ttsAudioMap <=> l \in generated[s]
        <3>1. Traced(s, l) /\ batches[s].resultChan = {} /\ AllDone(s)
            BY DEF SpeechInv, Closing
        <3>2. generators[s][l] \notin {"succeeded", "give"}
            BY <3>1 DEF Traced, AllDone
        <3> QED
            BY <3>1, <3>2 DEF Traced, Delivered
    <2> QED
        BY <2>1, <2>2
<1> QED
    BY <1>1, SpeechInvInit, SpeechInvNext, PTL DEF SpeechSpec


-------------------------------------------------------------------------------
(* The transcriptions.  What is not included yet came after what is.       *)

LastIncluded == included[Len(included)]

IncludedInv ==
    /\ messages \in Nat /\ latest \in 0..messages
    /\ included \in Seq(Nat) /\ IncludedOnce
    /\ included # <<>> => LastIncluded <= messages /\ (latest # 0 => LastIncluded < latest)

LEMMA IncludedInvNext == IncludedInv /\ [TranscriptionNext]_rtsVars => IncludedInv'
<1> SUFFICES ASSUME IncludedInv, [TranscriptionNext]_rtsVars PROVE IncludedInv'
    OBVIOUS
<1> USE DEF IncludedInv, IncludedOnce, LastIncluded
<1>1. CASE UNCHANGED <<messages, latest, included>>
    BY <1>1
<1>2. ASSUME NEW i \in 1..Len(peers), HandleDataChannelMessage(i) PROVE IncludedInv'
    <2>1. CASE UNCHANGED messages
        BY <1>1, <1>2, <2>1 DEF HandleDataChannelMessage
    <2>2. CASE messages' = messages + 1 /\ latest' = messages + 1 /\ UNCHANGED included
        <3>1. included # <<>> => LastIncluded \in Nat
            OBVIOUS
        <3> QED
            BY <2>2, <3>1
    <2> QED
        BY <1>2, <2>1, <2>2 DEF HandleDataChannelMessage, NotifyTranscription
<1>3. ASSUME NEW u \in Users, IncludeLatest(u) PROVE IncludedInv'
    <2>1. CASE latest = 0
        BY <1>1, <1>3, <2>1 DEF IncludeLatest
    <2>2. CASE latest # 0
        <3>1. included' = Append(included, latest) /\ latest' = 0 /\ messages' = messages
            BY <1>3, <2>2 DEF IncludeLatest
        <3>2. /\ included' \in Seq(Nat) /\ Len(included') = Len(included) + 1
              /\ \A j \in 1..Len(included) : included'[j] = included[j]
              /\ included'[Len(included')] = latest
            BY <3>1
        <3>3. included # <<>> => included[Len(included)] < latest
            BY <2>2
        <3>4. IncludedOnce'
            <4> SUFFICES ASSUME NEW j \in 1..(Len(included') - 1)
                         PROVE  included'[j] < included'[j + 1]
                OBVIOUS
            <4>1. CASE j = Len(included)
                <5>1. /\ included # <<>> /\ included'[j] = included[Len(included)]
                      /\ included'[j + 1] = latest
                    BY <3>2, <4>1
                <5> QED
                    BY <3>3, <5>1
            <4>2. CASE j # Len(included)
                <5>1. j \in 1..(Len(included) - 1) /\ j + 1 \in 1..Len(included)
                    BY <3>2, <4>2
                <5>2. included[j] < included[j + 1]
                    BY <5>1
                <5> QED
                    BY <3>2, <5>1, <5>2
            <4> QED
                BY <4>1, <4>2
        <3> QED
            BY <3>1, <3>2, <3>4
    <2> QED
        BY <2>1, <2>2
<1>4. \/ UNCHANGED <<messages, latest, included>>
      \/ \E i \in 1..Len(peers) : HandleDataChannelMessage(i)
      \/ \E u \in Users : IncludeLatest(u)
    BY DEF TranscriptionNext, rtsVars, streamVars, ProcessFrame, Connect, GetEphemeralKey, MakePeer,
        MakeTrack, ExchangeSDP, ConnectFails, Disconnect, SignalShutdown, AwaitLoops, CleanUp,
        TakeSequenceNumber, WriteRTP, PeerConnects, PeerFails, PeerChanges, ReportConnected,
        ReportDown, LoopEnds, ProcessRealtimeEvent
<1> QED
    BY <1>1, <1>2, <1>3, <1>4

(* For any number of tracks, of callers and of messages: no transcription  *)
(* is put into the metadata of two frames, and none after a later one,     *)
(* whichever goroutines take the latest and whatever the connection does.  *)
THEOREM TranscriptionsIncludedOnce == TranscriptionSpec => []IncludedOnce
<1>1. TranscriptionInit => IncludedInv
    BY DEF TranscriptionInit, IncludedInv, IncludedOnce
<1>2. IncludedInv => IncludedOnce
    BY DEF IncludedInv
<1> QED
    BY <1>1, <1>2, IncludedInvNext, PTL DEF TranscriptionSpec


-------------------------------------------------------------------------------
(* The routes.  RemoveReceiver's loop first.                               *)

(* The loop over a track's receivers keeps the others, and each once.      *)
LEMMA WithoutReceiverFilters ==
    ASSUME NEW T, NEW s \in Seq(T), IsInjective(s), NEW r
    PROVE  /\ WithoutReceiver(s, r) \in Seq(T)
           /\ IsInjective(WithoutReceiver(s, r))
           /\ Range(WithoutReceiver(s, r)) = Range(s) \ {r}
<1> DEFINE n == Len(s)
           Loop(f) == [i \in 0..n |-> IF i = 0 THEN <<>>
                                     ELSE IF s[i] # r THEN Append(f[i - 1], s[i]) ELSE f[i - 1]]
           kept == CHOOSE f : f = Loop(f)
<1>1. WithoutReceiver(s, r) = kept[n]
    BY DEF WithoutReceiver
<1>2. n \in Nat /\ \A i \in 1..n : s[i] \in T
    OBVIOUS
<1>3. kept = Loop(kept)
    <2> DEFINE G == [p \in Nat \X Seq(T) |->
                        IF p[1] \in 1..n /\ s[p[1]] # r THEN Append(p[2], s[p[1]]) ELSE p[2]]
    <2>1. G \in StepFunctions(Seq(T)) /\ <<>> \in Seq(T)
        BY <1>2 DEF StepFunctions
    <2>2. PICK f : Follows(f, Seq(T), <<>>, G, n)
      <3> HIDE DEF G, n
      <3> QED
        BY <1>2, <2>1, RecursionExists
    <2>3. f = Loop(f)
        <3>1. ASSUME NEW i \in 1..n
              PROVE  f[i] = IF s[i] # r THEN Append(f[i - 1], s[i]) ELSE f[i - 1]
            <4>1. i \in Nat /\ i - 1 \in 0..n /\ f[i - 1] \in Seq(T)
                BY <1>2, <2>2 DEF Follows
            <4> QED
                BY <2>2, <4>1 DEF Follows
        <3>2. f[0] = <<>> /\ f = [i \in 0..n |-> f[i]] /\ \A i \in 0..n : i # 0 => i \in 1..n
            BY <1>2, <2>2 DEF Follows
        <3> HIDE DEF n
        <3> QED
            BY <3>1, <3>2
    <2> QED
        BY <2>3
<1> HIDE DEF kept
<1>4. /\ kept[0] = <<>>
      /\ \A i \in 1..n : kept[i] = IF s[i] # r THEN Append(kept[i - 1], s[i]) ELSE kept[i - 1]
    <2>1. 0 \in 0..n /\ \A i \in 1..n : i \in 0..n /\ i # 0
        BY <1>2
    <2>2. /\ Loop(kept)[0] = <<>>
          /\ \A i \in 1..n : Loop(kept)[i] =
                IF s[i] # r THEN Append(kept[i - 1], s[i]) ELSE kept[i - 1]
        BY <2>1
    <2> HIDE DEF Loop
    <2> QED
        BY <1>3, <2>2
<1> DEFINE First(i) == {s[j] : j \in 1..i}
           Kept(i) == /\ kept[i] \in Seq(T) /\ IsInjective(kept[i])
                      /\ Range(kept[i]) = First(i) \ {r}
           Kepts == {i \in Nat : i <= n => Kept(i)}
<1>5. 0 \in Kepts
    <2>1. First(0) = {}
        OBVIOUS
    <2>2. <<>> \in Seq(T)
        OBVIOUS
    <2> QED
        BY <1>4, <2>1, <2>2, EmptyRange
<1>6. ASSUME NEW i \in Kepts PROVE i + 1 \in Kepts
    <2>1. SUFFICES ASSUME i + 1 <= n PROVE Kept(i + 1)
        BY <1>6
    <2>2. i \in Nat /\ Kept(i) /\ i + 1 \in 1..n /\ (i + 1) - 1 = i /\ s[i + 1] \in T
        BY <1>2, <1>6, <2>1
    <2>3. First(i + 1) = First(i) \cup {s[i + 1]}
        <3>1. \A j : j \in 1..(i + 1) <=> j \in 1..i \/ j = i + 1
            BY <2>2
        <3> QED
            BY <3>1
    <2>4. s[i + 1] \notin First(i)
        BY <1>2, <2>2 DEF IsInjective
    <2>5. kept[i + 1] = IF s[i + 1] # r THEN Append(kept[i], s[i + 1]) ELSE kept[i]
        BY <1>4, <2>2
    <2> HIDE DEF First
    <2>6. CASE s[i + 1] = r
        BY <2>2, <2>3, <2>5, <2>6
    <2>7. CASE s[i + 1] # r
        <3>1. s[i + 1] \notin Range(kept[i])
            BY <2>2, <2>4
        <3> QED
            BY <2>2, <2>3, <2>5, <2>7, <3>1, AppendsNew
    <2> QED
        BY <2>6, <2>7
<1>7. Kept(n)
    <2> HIDE DEF Kept
    <2>1. Kepts \subseteq Nat
        OBVIOUS
    <2> HIDE DEF Kepts
    <2>2. Kepts = Nat
        BY <1>5, <1>6, <2>1, SetInduction
    <2> QED
        BY <1>2, <2>2 DEF Kepts
<1>8. First(n) = Range(s)
    BY <1>2 DEF Range
<1> QED
    BY <1>1, <1>7, <1>8

(* The types, one variable at a time; a remover that waits holds the lock,  *)
(* and its receiver is connected.                                          *)
ConnsOK ==
    /\ conns \in Seq(RouterConnection)
    /\ \A i \in Conns : Len(conns[i].packetChan) <= ChanSize

ConnectionsOK ==
    /\ DOMAIN connections \subseteq Receivers
    /\ \A r \in DOMAIN connections : connections[r] \in Conns /\ conns[connections[r]].id = r

TableOK ==
    /\ DOMAIN routingTable \subseteq RoutedTracks
    /\ \A t \in DOMAIN routingTable : routingTable[t] \in Seq(Receivers)

RemovingOK ==
    /\ lockedBy \in Removers \cup {None}
    /\ removing \in [Removers -> [at : {"idle", "failed", "lock", "wait"}, id : Receivers \cup {None}]]
    /\ \A g \in Removers : removing[g].at = "wait" => lockedBy = g /\ removing[g].id \in DOMAIN connections

(* A track's goroutine on its way, and what it holds.                       *)
OnItsWay(w) ==
    /\ w.left # <<>> => w.number \in 1..MaxRouted
    /\ w.to # 0 => w.left # <<>> /\ w.to \in Conns /\ conns[w.to].id = Head(w.left)

RouterOK ==
    /\ router \in [RoutedTracks -> Routing]
    /\ \A t \in RoutedTracks : OnItsWay(router[t])
    /\ routedSoFar \in 0..MaxRouted

StatsOK == routerStats \in [active : Int, total : Nat, failed : Nat]

RoutingTypes ==
    ConnsOK /\ ConnectionsOK /\ TableOK /\ RemovingOK /\ RouterOK /\ StatsOK

LEMMA RoutingTypesInit == RoutingInit => RoutingTypes
<1> SUFFICES ASSUME RoutingInit PROVE RoutingTypes
    OBVIOUS
<1> USE RoutingAssumption DEF RoutingInit
<1>1. conns \in Seq(RouterConnection) /\ Conns = {}
    BY DEF Conns
<1>2. ConnsOK /\ ConnectionsOK /\ TableOK
    BY <1>1 DEF ConnsOK, ConnectionsOK, TableOK
<1>3. RemovingOK /\ StatsOK
    BY DEF RemovingOK, StatsOK, Resting
<1>4. NoPacket \in Routing /\ OnItsWay(NoPacket)
    BY DEF NoPacket, Routing, OnItsWay
<1>5. RouterOK
    BY <1>4 DEF RouterOK
<1> QED
    BY <1>2, <1>3, <1>5 DEF RoutingTypes

(* One connection becomes another one, of the same receiver.               *)
LEMMA ConnectionChanges ==
    ASSUME ConnsOK, NEW i \in Conns, NEW c \in RouterConnection,
           Len(c.packetChan) <= ChanSize, conns' = [conns EXCEPT ![i] = c]
    PROVE  /\ ConnsOK' /\ Conns' = Conns
           /\ conns'[i] = c /\ \A k \in Conns \ {i} : conns'[k] = conns[k]
           /\ c.id = conns[i].id /\ ConnectionsOK /\ UNCHANGED connections => ConnectionsOK'
<1>1. /\ conns' \in Seq(RouterConnection) /\ Conns' = Conns
      /\ conns'[i] = c /\ \A k \in Conns \ {i} : conns'[k] = conns[k]
    BY DEF ConnsOK, Conns
<1>2. ConnsOK'
    BY <1>1 DEF ConnsOK
<1>3. ASSUME c.id = conns[i].id, ConnectionsOK, UNCHANGED connections PROVE ConnectionsOK'
    BY <1>1, <1>3 DEF ConnectionsOK
<1> QED
    BY <1>1, <1>2, <1>3

(* What each operation does to one connection, that one still being one.   *)
Becomes(i, c) ==
    /\ i \in Conns /\ conns' = [conns EXCEPT ![i] = c]
    /\ c \in RouterConnection /\ c.id = conns[i].id /\ Len(c.packetChan) <= ChanSize

LEMMA AddTrackBecomes ==
    ASSUME RoutingTypes, NEW r \in Receivers, NEW t \in RoutedTracks, AddTrackToReceiver(r, t)
    PROVE  Becomes(connections[r], [conns[connections[r]] EXCEPT !.localTracks = @ \cup {t}])
<1>1. connections[r] \in Conns /\ conns \in Seq(RouterConnection)
    BY DEF RoutingTypes, ConnsOK, ConnectionsOK, AddTrackToReceiver
<1>2. conns[connections[r]] \in RouterConnection /\ Len(conns[connections[r]].packetChan) <= ChanSize
    BY <1>1 DEF RoutingTypes, ConnsOK, Conns
<1>3. [conns[connections[r]] EXCEPT !.localTracks = @ \cup {t}] \in RouterConnection
    BY <1>2 DEF RouterConnection
<1> QED
    BY <1>1, <1>2, <1>3 DEF Becomes, AddTrackToReceiver, RouterConnection

(* ... and, but for the tracks given to it, of the same tracks.             *)
KeepsTracks ==
    \/ UNCHANGED conns
    \/ \E i \in Conns, c \in RouterConnection :
          Becomes(i, c) /\ c.localTracks = conns[i].localTracks

LEMMA RemoveReceiverKeeps ==
    ASSUME RoutingTypes, NEW g \in Removers, RemoveReceiver(g)
    PROVE  KeepsTracks
<1> DEFINE i == connections[removing[g].id]
           c == [conns[i] EXCEPT !.closed = TRUE]
<1>1. CASE removing[g].id \in DOMAIN connections
    <2>1. i \in Conns /\ conns[i] \in RouterConnection /\ Len(conns[i].packetChan) <= ChanSize
        BY <1>1 DEF RoutingTypes, ConnsOK, ConnectionsOK, Conns
    <2>2. conns' = [conns EXCEPT ![i] = c]
        BY <1>1 DEF RemoveReceiver
    <2>3. c \in RouterConnection /\ c.localTracks = conns[i].localTracks /\ c.id = conns[i].id
          /\ c.packetChan = conns[i].packetChan
        BY <2>1 DEF RouterConnection
    <2> HIDE DEF i, c
    <2> QED
        BY <2>1, <2>2, <2>3 DEF KeepsTracks, Becomes
<1>2. CASE removing[g].id \notin DOMAIN connections
    BY <1>2 DEF RemoveReceiver, KeepsTracks
<1> QED
    BY <1>1, <1>2

LEMMA FinishRemovalKeeps ==
    ASSUME RoutingTypes, NEW g \in Removers, FinishRemoval(g)
    PROVE  KeepsTracks
<1> DEFINE i == connections[removing[g].id]
           c == [conns[i] EXCEPT !.state = "closed"]
<1>1. i \in Conns /\ conns[i] \in RouterConnection /\ Len(conns[i].packetChan) <= ChanSize
    BY DEF RoutingTypes, ConnsOK, ConnectionsOK, RemovingOK, FinishRemoval, Conns
<1>2. conns' = [conns EXCEPT ![i] = c]
    BY DEF FinishRemoval
<1>3. c \in RouterConnection /\ c.localTracks = conns[i].localTracks /\ c.id = conns[i].id
      /\ c.packetChan = conns[i].packetChan
    BY <1>1 DEF RouterConnection
<1> HIDE DEF i, c
<1> QED
    BY <1>1, <1>2, <1>3 DEF KeepsTracks, Becomes

LEMMA ConnectionFailsKeeps ==
    ASSUME RoutingTypes, NEW g \in Removers, NEW i \in Conns, ConnectionFails(g, i)
    PROVE  KeepsTracks
<1> DEFINE c == [conns[i] EXCEPT !.state = "failed"]
<1>1. conns[i] \in RouterConnection /\ Len(conns[i].packetChan) <= ChanSize
    BY DEF RoutingTypes, ConnsOK, Conns
<1>2. conns' = [conns EXCEPT ![i] = c]
    BY DEF ConnectionFails
<1>3. c \in RouterConnection /\ c.localTracks = conns[i].localTracks /\ c.id = conns[i].id
      /\ c.packetChan = conns[i].packetChan
    BY <1>1 DEF RouterConnection
<1> HIDE DEF c
<1> QED
    BY <1>1, <1>2, <1>3 DEF KeepsTracks, Becomes

(* The packet a track's goroutine has on its way.                           *)
PacketOf(t) == [number |-> router[t].number, track |-> t]

LEMMA SentPacket ==
    ASSUME RoutingTypes, NEW t \in RoutedTracks, RoutePacket(t)
    PROVE  /\ PacketOf(t) \in Packet /\ router[t] \in Routing /\ router[t].left # <<>>
           /\ router[t].to \in Conns /\ conns[router[t].to] \in RouterConnection
           /\ conns[router[t].to].id = Head(router[t].left)
           /\ conns[router[t].to].packetChan \in Seq(Packet)
<1>1. /\ router[t] \in Routing /\ router[t].left # <<>> /\ router[t].number \in 1..MaxRouted
      /\ router[t].to \in Conns /\ conns[router[t].to].id = Head(router[t].left)
    BY DEF RoutingTypes, RouterOK, OnItsWay, RoutePacket
<1>2. conns[router[t].to] \in RouterConnection
    BY <1>1 DEF RoutingTypes, ConnsOK, Conns
<1> QED
    BY <1>1, <1>2 DEF PacketOf, Packet, RouterConnection

(* The connection sent to, with the packet queued.                          *)
Queued(i, t) == [conns[i] EXCEPT !.packetChan = Append(@, PacketOf(t))]

LEMMA SentTo ==
    ASSUME RoutingTypes, NEW t \in RoutedTracks, RoutePacket(t)
    PROVE  \/ UNCHANGED conns
           \/ LET i == router[t].to
                  c == Queued(i, t)
              IN /\ conns' = [conns EXCEPT ![i] = c]
                 /\ i \in Conns /\ c \in RouterConnection /\ Len(c.packetChan) <= ChanSize
                 /\ c.packetChan = Append(conns[i].packetChan, PacketOf(t))
                 /\ c.written = conns[i].written /\ c.localTracks = conns[i].localTracks
                 /\ c.id = conns[i].id /\ c.forwarding = conns[i].forwarding
                 /\ c.state = conns[i].state
<1> DEFINE i == router[t].to
           c == Queued(i, t)
<1>1. /\ PacketOf(t) \in Packet /\ i \in Conns /\ conns[i] \in RouterConnection
      /\ conns[i].packetChan \in Seq(Packet)
    BY SentPacket
<1>2. CASE ~(Len(conns[i].packetChan) >= ChanSize)
    <2>1. conns' = [conns EXCEPT ![i] = c]
        BY <1>2 DEF RoutePacket, Queued, PacketOf
    <2>2. /\ Append(conns[i].packetChan, PacketOf(t)) \in Seq(Packet)
          /\ Len(Append(conns[i].packetChan, PacketOf(t))) = Len(conns[i].packetChan) + 1
          /\ Len(conns[i].packetChan) \in Nat
        BY <1>1
    <2>3. /\ c \in RouterConnection /\ c.localTracks = conns[i].localTracks /\ c.id = conns[i].id
          /\ c.packetChan = Append(conns[i].packetChan, PacketOf(t))
          /\ c.written = conns[i].written /\ c.forwarding = conns[i].forwarding
          /\ c.state = conns[i].state
        BY <1>1, <2>2 DEF RouterConnection, Queued
    <2> HIDE DEF i, c
    <2>4. Len(c.packetChan) <= ChanSize
        BY <1>2, <2>2, <2>3, RoutingAssumption
    <2> QED
        BY <1>1, <2>1, <2>3, <2>4 DEF i, c
<1>3. CASE Len(conns[i].packetChan) >= ChanSize
    BY <1>3 DEF RoutePacket
<1> QED
    BY <1>2, <1>3

LEMMA RoutePacketKeeps ==
    ASSUME RoutingTypes, NEW t \in RoutedTracks, RoutePacket(t)
    PROVE  KeepsTracks
  BY SentTo DEF KeepsTracks, Becomes

LEMMA ForwardPacketKeeps ==
    ASSUME RoutingTypes, NEW i \in Conns, ForwardPacket(i)
    PROVE  KeepsTracks
<1> DEFINE p == Head(conns[i].packetChan)
           c == [conns[i] EXCEPT
                    !.packetChan = Tail(@),
                    !.written = IF p.track \in conns[i].localTracks THEN Append(@, p) ELSE @]
<1>1. /\ conns[i] \in RouterConnection /\ Len(conns[i].packetChan) <= ChanSize
      /\ conns[i].packetChan # <<>>
    BY DEF RoutingTypes, ConnsOK, Conns, ForwardPacket
<1>2. conns' = [conns EXCEPT ![i] = c]
    BY DEF ForwardPacket
<1>3. conns[i].packetChan \in Seq(Packet) /\ conns[i].written \in Seq(Packet)
    BY <1>1 DEF RouterConnection
<1>4. /\ Tail(conns[i].packetChan) \in Seq(Packet) /\ p \in Packet
      /\ Len(Tail(conns[i].packetChan)) <= ChanSize
    BY <1>1, <1>3, RoutingAssumption
<1>5. Append(conns[i].written, p) \in Seq(Packet)
    BY <1>3, <1>4
<1>6. /\ c \in RouterConnection /\ c.localTracks = conns[i].localTracks /\ c.id = conns[i].id
      /\ c.packetChan = Tail(conns[i].packetChan)
    <2> HIDE DEF p
    <2> QED
        BY <1>1, <1>3, <1>4, <1>5 DEF RouterConnection
<1> HIDE DEF c
<1> QED
    BY <1>1, <1>2, <1>4, <1>6 DEF KeepsTracks, Becomes

LEMMA ForwarderEndsKeeps ==
    ASSUME RoutingTypes, NEW i \in Conns, ForwarderEnds(i)
    PROVE  KeepsTracks
<1> DEFINE c == [conns[i] EXCEPT !.forwarding = FALSE]
<1>1. conns[i] \in RouterConnection /\ Len(conns[i].packetChan) <= ChanSize
    BY DEF RoutingTypes, ConnsOK, Conns
<1>2. conns' = [conns EXCEPT ![i] = c]
    BY DEF ForwarderEnds
<1>3. c \in RouterConnection /\ c.localTracks = conns[i].localTracks /\ c.id = conns[i].id
      /\ c.packetChan = conns[i].packetChan
    BY <1>1 DEF RouterConnection
<1> HIDE DEF c
<1> QED
    BY <1>1, <1>2, <1>3 DEF KeepsTracks, Becomes

LEMMA KeepsTypes ==
    ASSUME RoutingTypes, KeepsTracks
    PROVE  /\ ConnsOK' /\ (UNCHANGED connections => ConnectionsOK')
           /\ Conns' = Conns
           /\ \A k \in Conns : conns'[k].localTracks = conns[k].localTracks /\ conns'[k].id = conns[k].id
<1>1. CASE UNCHANGED conns
    BY <1>1 DEF RoutingTypes, ConnsOK, ConnectionsOK, Conns
<1>2. ASSUME NEW i \in Conns, NEW c \in RouterConnection,
             Becomes(i, c), c.localTracks = conns[i].localTracks
      PROVE  /\ ConnsOK' /\ (UNCHANGED connections => ConnectionsOK')
             /\ Conns' = Conns
             /\ \A k \in Conns : conns'[k].localTracks = conns[k].localTracks /\ conns'[k].id = conns[k].id
    <2>1. /\ ConnsOK' /\ Conns' = Conns
          /\ conns'[i] = c /\ \A k \in Conns \ {i} : conns'[k] = conns[k]
          /\ c.id = conns[i].id /\ ConnectionsOK /\ UNCHANGED connections => ConnectionsOK'
        BY <1>2, ConnectionChanges DEF Becomes, RoutingTypes
    <2> QED
        BY <1>2, <2>1 DEF Becomes, RoutingTypes
<1> QED
    BY <1>1, <1>2 DEF KeepsTracks

(* The goroutines of the tracks keep what they hold, also when the          *)
(* connection looked up is removed; one of them goes on.                    *)
LEMMA RouterStays ==
    ASSUME RoutingTypes, Conns \subseteq Conns', \A k \in Conns : conns'[k].id = conns[k].id,
           UNCHANGED <<router, routedSoFar>>
    PROVE  RouterOK'
  BY DEF RoutingTypes, RouterOK, OnItsWay

LEMMA RouterMoves ==
    ASSUME RoutingTypes, KeepsTracks, NEW t \in RoutedTracks, NEW w \in Routing, OnItsWay(w),
           router' = [router EXCEPT ![t] = w], routedSoFar' \in 0..MaxRouted
    PROVE  RouterOK'
<1>1. Conns' = Conns /\ \A k \in Conns : conns'[k].id = conns[k].id
    BY KeepsTypes
<1>2. /\ router \in [RoutedTracks -> Routing] /\ \A u \in RoutedTracks : OnItsWay(router[u])
      /\ router' \in [RoutedTracks -> Routing] /\ \A u \in RoutedTracks : OnItsWay(router'[u])
    BY DEF RoutingTypes, RouterOK
<1>3. ASSUME NEW u \in RoutedTracks PROVE OnItsWay(router[u])'
    <2>1. OnItsWay(router'[u])
        BY <1>2
    <2> QED
        BY <1>1, <2>1 DEF OnItsWay
<1> QED
    BY <1>2, <1>3 DEF RouterOK

LEMMA GivenRoutes ==
    ASSUME NEW w \in Routing, w.left # <<>>, OnItsWay(w)
    PROVE  Given(w) \in Routing /\ OnItsWay(Given(w))
<1>1. Tail(w.left) \in Seq(Receivers)
    BY DEF Routing
<1>2. CASE Tail(w.left) = <<>>
    BY <1>2, RoutingAssumption DEF Given, NoPacket, Routing, OnItsWay
<1>3. CASE Tail(w.left) # <<>>
    BY <1>1, <1>3 DEF Given, Routing, OnItsWay
<1> QED
    BY <1>2, <1>3

(* A new connection has no track, and the receiver had no connection.       *)
LEMMA CreateReceiverAdds ==
    ASSUME RoutingTypes, NEW r \in Receivers, CreateReceiver(r)
    PROVE  /\ ConnsOK' /\ ConnectionsOK'
           /\ Conns \subseteq Conns' /\ \A k \in Conns : conns'[k].id = conns[k].id
           /\ r \notin DOMAIN connections /\ DOMAIN connections' = DOMAIN connections \cup {r}
           /\ connections'[r] \in Conns' /\ conns'[connections'[r]].localTracks = {}
           /\ \A q \in DOMAIN connections :
                 connections'[q] = connections[q] /\ conns'[connections'[q]] = conns[connections[q]]
<1> DEFINE c == NewConnection(r)
           n == Len(conns) + 1
<1>1. /\ r \notin DOMAIN connections /\ conns \in Seq(RouterConnection)
      /\ conns' = Append(conns, c) /\ connections' = With(connections, r, Len(conns'))
    BY DEF CreateReceiver, RoutingTypes, ConnsOK
<1>2. /\ c \in RouterConnection /\ c.localTracks = {} /\ c.id = r /\ Len(c.packetChan) = 0
    BY DEF NewConnection, RouterConnection
<1> HIDE DEF c
<1>3. /\ Len(conns) \in Nat /\ Len(conns') = n /\ conns' \in Seq(RouterConnection)
      /\ Conns' = Conns \cup {n} /\ n \notin Conns
      /\ conns'[n] = c /\ \A k \in Conns : conns'[k] = conns[k]
    BY <1>1, <1>2 DEF Conns
<1>4. ConnsOK'
    BY <1>2, <1>3, RoutingAssumption DEF RoutingTypes, ConnsOK
<1>5. /\ DOMAIN connections' = DOMAIN connections \cup {r} /\ connections'[r] = n
      /\ \A q \in DOMAIN connections : connections'[q] = connections[q]
    BY <1>1, <1>3 DEF With
<1>6. \A q \in DOMAIN connections : connections[q] \in Conns /\ conns[connections[q]].id = q
    BY DEF RoutingTypes, ConnectionsOK
<1>7. DOMAIN connections' \subseteq Receivers
    BY <1>5 DEF RoutingTypes, ConnectionsOK
<1>8. \A q \in DOMAIN connections' : connections'[q] \in Conns' /\ conns'[connections'[q]].id = q
    BY <1>2, <1>3, <1>5, <1>6
<1>9. ConnectionsOK'
    BY <1>7, <1>8 DEF ConnectionsOK
<1>10. connections'[r] \in Conns' /\ conns'[connections'[r]].localTracks = {}
    BY <1>2, <1>3, <1>5
<1>11. ASSUME NEW q \in DOMAIN connections
       PROVE  connections'[q] = connections[q] /\ conns'[connections'[q]] = conns[connections[q]]
    BY <1>3, <1>5, <1>6
<1>12. Conns \subseteq Conns' /\ \A k \in Conns : conns'[k].id = conns[k].id
    BY <1>3
<1> QED
    BY <1>1, <1>4, <1>5, <1>9, <1>10, <1>11, <1>12

(* What Routes reads of the table.                                          *)
LEMMA RoutesAreReceivers ==
    ASSUME TableOK, NEW t \in RoutedTracks
    PROVE  Routes(t) \in Seq(Receivers)
  BY DEF TableOK, Routes

LEMMA AddTrackAdds ==
    ASSUME RoutingTypes, NEW r \in Receivers, NEW t \in RoutedTracks, AddTrackToReceiver(r, t)
    PROVE  /\ ConnsOK' /\ ConnectionsOK' /\ TableOK'
           /\ r \in DOMAIN connections /\ t \notin conns[connections[r]].localTracks
           /\ conns'[connections[r]].localTracks = conns[connections[r]].localTracks \cup {t}
           /\ \A k \in Conns \ {connections[r]} : conns'[k] = conns[k]
           /\ Conns' = Conns /\ \A k \in Conns : conns'[k].id = conns[k].id
           /\ Routes(t)' = Append(Routes(t), r)
           /\ \A u \in RoutedTracks \ {t} : Routes(u)' = Routes(u)
<1> DEFINE i == connections[r]
           c == [conns[i] EXCEPT !.localTracks = @ \cup {t}]
<1>1. Becomes(i, c)
    BY AddTrackBecomes
<1>2. c.localTracks = conns[i].localTracks \cup {t}
    <2>1. conns[i] \in RouterConnection
        BY <1>1 DEF RoutingTypes, ConnsOK, Conns, Becomes
    <2> QED
        BY <2>1 DEF RouterConnection
<1> HIDE DEF c
<1>3. /\ r \in DOMAIN connections /\ t \notin conns[i].localTracks /\ UNCHANGED connections
      /\ routingTable' = With(routingTable, t, Append(Routes(t), r))
    BY DEF AddTrackToReceiver
<1>4. /\ ConnsOK' /\ ConnectionsOK'
      /\ conns'[i] = c /\ \A k \in Conns \ {i} : conns'[k] = conns[k]
      /\ Conns' = Conns /\ c.id = conns[i].id
    <2> HIDE DEF i
    <2> QED
        BY <1>1, <1>3, ConnectionChanges DEF Becomes, RoutingTypes
<1>5. Routes(t) \in Seq(Receivers) /\ Append(Routes(t), r) \in Seq(Receivers)
    <2>1. Routes(t) \in Seq(Receivers)
        BY RoutesAreReceivers DEF RoutingTypes
    <2> QED
        BY <2>1
<1>6. /\ DOMAIN routingTable' = DOMAIN routingTable \cup {t}
      /\ routingTable'[t] = Append(Routes(t), r)
      /\ \A u \in DOMAIN routingTable \ {t} : routingTable'[u] = routingTable[u]
    BY <1>3 DEF With
<1>7. TableOK'
    BY <1>5, <1>6 DEF TableOK, RoutingTypes
<1>8. Routes(t)' = Append(Routes(t), r) /\ \A u \in RoutedTracks \ {t} : Routes(u)' = Routes(u)
    BY <1>6 DEF Routes
<1> QED
    BY <1>2, <1>3, <1>4, <1>7, <1>8

LEMMA FinishRemovalTakes ==
    ASSUME RoutingTypes, NEW g \in Removers, FinishRemoval(g),
           \A t \in RoutedTracks : IsInjective(Routes(t))
    PROVE  LET r == removing[g].id IN
           /\ r \in DOMAIN connections /\ connections' = Without(connections, {r})
           /\ ConnectionsOK' /\ TableOK'
           /\ \A t \in RoutedTracks :
                 IsInjective(Routes(t)') /\ Range(Routes(t)') = Range(Routes(t)) \ {r}
<1> DEFINE r == removing[g].id
           Left(t) == WithoutReceiver(routingTable[t], r)
           Kept == [t \in DOMAIN routingTable |-> Left(t)]
<1>1. /\ r \in DOMAIN connections /\ connections' = Without(connections, {r})
      /\ routingTable' = FilteredRoutes(r)
    BY DEF FinishRemoval, RoutingTypes, RemovingOK
<1>2. /\ Conns' = Conns /\ \A k \in Conns : conns'[k].id = conns[k].id
    BY FinishRemovalKeeps, KeepsTypes
<1>3. ConnectionsOK'
    BY <1>1, <1>2 DEF RoutingTypes, ConnectionsOK, Without
<1>4. ASSUME NEW t \in DOMAIN routingTable
      PROVE  /\ t \in RoutedTracks /\ Routes(t) = routingTable[t]
             /\ Left(t) \in Seq(Receivers) /\ IsInjective(Left(t))
             /\ Range(Left(t)) = Range(Routes(t)) \ {r}
    <2>1. /\ t \in RoutedTracks /\ Routes(t) = routingTable[t]
          /\ routingTable[t] \in Seq(Receivers)
        BY <1>4 DEF RoutingTypes, TableOK, Routes
    <2>2. IsInjective(routingTable[t])
        BY <2>1
    <2> QED
        BY <2>1, <2>2, WithoutReceiverFilters
<1>5. routingTable' = Without(Kept, {t \in DOMAIN Kept : Kept[t] = <<>>})
    BY <1>1 DEF FilteredRoutes
<1> HIDE DEF Left
<1>6. /\ DOMAIN routingTable' = {t \in DOMAIN routingTable : Left(t) # <<>>}
      /\ \A t \in DOMAIN routingTable' : routingTable'[t] = Left(t)
    BY <1>5 DEF Without
<1>7. TableOK'
    BY <1>4, <1>6 DEF TableOK
<1>8. ASSUME NEW t \in RoutedTracks
      PROVE  IsInjective(Routes(t)') /\ Range(Routes(t)') = Range(Routes(t)) \ {r}
    <2>1. CASE t \in DOMAIN routingTable
        <3>1. Routes(t)' = Left(t)
            BY <1>6, <2>1 DEF Routes
        <3> QED
            BY <1>4, <2>1, <3>1
    <2>2. CASE t \notin DOMAIN routingTable
        <3>1. Routes(t)' = <<>> /\ Routes(t) = <<>>
            BY <1>6, <2>2 DEF Routes
        <3> QED
            BY <3>1, EmptyRange
    <2> QED
        BY <2>1, <2>2
<1> QED
    BY <1>1, <1>3, <1>7, <1>8

(* What the agreement of the records rests on: each receiver of a track is  *)
(* in its routes once, and the connections are finitely many.               *)
RoutesMatch ==
    \A r \in Receivers, t \in RoutedTracks :
        r \in Range(Routes(t))
            <=> r \in DOMAIN connections /\ t \in conns[connections[r]].localTracks

RoutesOnce == \A t \in RoutedTracks : IsInjective(Routes(t))

ActiveCounted ==
    IsFiniteSet(DOMAIN connections) /\ routerStats.active = Cardinality(DOMAIN connections)

RoutesInv == RoutingTypes /\ RoutesMatch /\ RoutesOnce /\ ActiveCounted

LEMMA RoutesInvInit == RoutingInit => RoutesInv
<1> SUFFICES ASSUME RoutingInit PROVE RoutesInv
    OBVIOUS
<1>1. RoutingTypes
    BY RoutingTypesInit
<1>2. DOMAIN connections = {} /\ \A t \in RoutedTracks : Routes(t) = <<>>
    BY DEF RoutingInit, Routes
<1>3. ActiveCounted
    BY <1>2, FS_EmptySet DEF ActiveCounted, RoutingInit
<1> QED
    BY <1>1, <1>2, <1>3, EmptyRange DEF RoutesInv, RoutesMatch, RoutesOnce

(* The steps that leave the receivers and the table alone.                  *)
LEMMA RoutesStay ==
    ASSUME RoutesInv, KeepsTracks, UNCHANGED <<connections, routingTable>>,
           routerStats'.active = routerStats.active, RemovingOK', RouterOK', StatsOK'
    PROVE  RoutesInv'
<1>1. /\ ConnsOK' /\ ConnectionsOK' /\ Conns' = Conns
      /\ \A k \in Conns : conns'[k].localTracks = conns[k].localTracks
    BY KeepsTypes DEF RoutesInv
<1>2. TableOK' /\ RoutingTypes'
    BY <1>1 DEF RoutesInv, RoutingTypes, TableOK
<1>3. \A t : Routes(t)' = Routes(t)
    BY DEF Routes
<1>4. RoutesMatch'
    BY <1>1, <1>3 DEF RoutesInv, RoutesMatch, RoutingTypes, ConnectionsOK
<1>5. RoutesOnce' /\ ActiveCounted'
    BY <1>3 DEF RoutesInv, RoutesOnce, ActiveCounted
<1> QED
    BY <1>2, <1>4, <1>5 DEF RoutesInv

LEMMA CreateReceiverAgrees ==
    ASSUME RoutesInv, NEW r \in Receivers, CreateReceiver(r)
    PROVE  RoutesInv'
<1>1. /\ ConnsOK' /\ ConnectionsOK'
      /\ r \notin DOMAIN connections /\ DOMAIN connections' = DOMAIN connections \cup {r}
      /\ conns'[connections'[r]].localTracks = {}
      /\ \A q \in DOMAIN connections :
            connections'[q] = connections[q] /\ conns'[connections'[q]] = conns[connections[q]]
    BY CreateReceiverAdds DEF RoutesInv
<1>2. TableOK' /\ RemovingOK'
    BY <1>1 DEF RoutesInv, RoutingTypes, TableOK, RemovingOK, CreateReceiver
<1>9. RouterOK'
    BY CreateReceiverAdds, RouterStays DEF RoutesInv, CreateReceiver
<1>3. routerStats'.active = routerStats.active + 1 /\ StatsOK'
    <2>1. StatsOK /\ routerStats' = [routerStats EXCEPT !.active = @ + 1, !.total = @ + 1]
        BY DEF RoutesInv, RoutingTypes, CreateReceiver
    <2>2. routerStats.active + 1 \in Int /\ routerStats.total + 1 \in Nat
        BY <2>1 DEF StatsOK
    <2> QED
        BY <2>1, <2>2 DEF StatsOK
<1>4. RoutingTypes'
    BY <1>1, <1>2, <1>3, <1>9 DEF RoutingTypes
<1>5. \A t \in RoutedTracks : Routes(t)' = Routes(t)
    BY DEF CreateReceiver, Routes
<1>6. RoutesMatch'
    BY <1>1, <1>5 DEF RoutesInv, RoutesMatch
<1>7. RoutesOnce'
    BY <1>5 DEF RoutesInv, RoutesOnce
<1>8. ActiveCounted'
    BY <1>1, <1>3, FS_AddElement DEF RoutesInv, ActiveCounted
<1> QED
    BY <1>4, <1>6, <1>7, <1>8 DEF RoutesInv

LEMMA AddTrackAgrees ==
    ASSUME RoutesInv, NEW r \in Receivers, NEW t \in RoutedTracks, AddTrackToReceiver(r, t)
    PROVE  RoutesInv'
<1> DEFINE i == connections[r]
<1>1. /\ ConnsOK' /\ ConnectionsOK' /\ TableOK'
      /\ r \in DOMAIN connections /\ t \notin conns[i].localTracks
      /\ conns'[i].localTracks = conns[i].localTracks \cup {t}
      /\ \A k \in Conns \ {i} : conns'[k] = conns[k]
      /\ Routes(t)' = Append(Routes(t), r)
      /\ \A u \in RoutedTracks \ {t} : Routes(u)' = Routes(u)
    BY AddTrackAdds DEF RoutesInv
<1>2. UNCHANGED <<connections, lockedBy, removing, router, routedSoFar, routerStats>>
    BY DEF AddTrackToReceiver
<1>11. RouterOK'
    BY <1>2, AddTrackAdds, RouterStays DEF RoutesInv
<1>3. RemovingOK' /\ StatsOK' /\ RoutingTypes'
    BY <1>1, <1>2, <1>11 DEF RoutesInv, RoutingTypes, RemovingOK, StatsOK
<1>4. Routes(t) \in Seq(Receivers)
    BY RoutesAreReceivers DEF RoutesInv, RoutingTypes
<1>5. r \notin Range(Routes(t)) /\ IsInjective(Routes(t))
    BY <1>1 DEF RoutesInv, RoutesMatch, RoutesOnce
<1>6. IsInjective(Routes(t)') /\ Range(Routes(t)') = Range(Routes(t)) \cup {r}
    BY <1>1, <1>4, <1>5, AppendsNew
<1>7. RoutesOnce' /\ ActiveCounted'
    BY <1>1, <1>2, <1>6 DEF RoutesInv, RoutesOnce, ActiveCounted
<1>8. ASSUME NEW q \in DOMAIN connections PROVE connections[q] \in Conns /\ (q # r => connections[q] # i)
    BY <1>1, <1>8 DEF RoutesInv, RoutingTypes, ConnectionsOK
<1>9. ASSUME NEW q \in Receivers, NEW u \in RoutedTracks
      PROVE  q \in Range(Routes(u)')
                 <=> q \in DOMAIN connections /\ u \in conns'[connections[q]].localTracks
    <2>1. q \in Range(Routes(u)) <=> q \in DOMAIN connections /\ u \in conns[connections[q]].localTracks
        BY DEF RoutesInv, RoutesMatch
    <2>2. CASE q = r
        <3>1. CASE u = t
            BY <1>1, <1>6, <2>2, <3>1
        <3>2. CASE u # t
            BY <1>1, <2>1, <2>2, <3>2
        <3> QED
            BY <3>1, <3>2
    <2>3. CASE q # r
        <3>1. q \in DOMAIN connections => conns'[connections[q]] = conns[connections[q]]
            BY <1>1, <1>8, <2>3
        <3>2. q \in Range(Routes(u)') <=> q \in Range(Routes(u))
            BY <1>1, <1>6, <2>3
        <3> QED
            BY <2>1, <3>1, <3>2
    <2> QED
        BY <2>2, <2>3
<1>10. RoutesMatch'
    BY <1>2, <1>9 DEF RoutesMatch
<1> QED
    BY <1>3, <1>7, <1>10 DEF RoutesInv

LEMMA FinishRemovalAgrees ==
    ASSUME RoutesInv, NEW g \in Removers, FinishRemoval(g)
    PROVE  RoutesInv'
<1> DEFINE r == removing[g].id
<1>1. /\ r \in DOMAIN connections /\ connections' = Without(connections, {r})
      /\ ConnectionsOK' /\ TableOK'
      /\ \A t \in RoutedTracks :
            IsInjective(Routes(t)') /\ Range(Routes(t)') = Range(Routes(t)) \ {r}
    BY FinishRemovalTakes DEF RoutesInv, RoutesOnce
<1>2. /\ ConnsOK' /\ Conns' = Conns
      /\ \A k \in Conns : conns'[k].localTracks = conns[k].localTracks
    BY FinishRemovalKeeps, KeepsTypes DEF RoutesInv
<1>3. /\ lockedBy' = None /\ removing' = [removing EXCEPT ![g] = Resting]
      /\ routerStats' = [routerStats EXCEPT !.active = @ - 1] /\ UNCHANGED <<router, routedSoFar>>
    BY DEF FinishRemoval
<1>4. RemovingOK'
    <2>1. RemovingOK /\ lockedBy = g
        BY DEF RoutesInv, RoutingTypes, RemovingOK, FinishRemoval
    <2>2. /\ removing' \in [Removers -> [at : {"idle", "failed", "lock", "wait"}, id : Receivers \cup {None}]]
          /\ removing'[g] = Resting /\ \A h \in Removers \ {g} : removing'[h] = removing[h]
        BY <1>3, <2>1 DEF RemovingOK, Resting
    <2>3. \A h \in Removers : removing'[h].at # "wait"
        BY <2>1, <2>2 DEF RemovingOK, Resting
    <2> QED
        BY <1>3, <2>2, <2>3 DEF RemovingOK
<1>10. RouterOK'
    BY <1>3, FinishRemovalKeeps, KeepsTypes, RouterStays DEF RoutesInv
<1>5. StatsOK' /\ RoutingTypes'
    BY <1>1, <1>2, <1>3, <1>4, <1>10 DEF RoutesInv, RoutingTypes, StatsOK
<1>6. /\ DOMAIN connections' = DOMAIN connections \ {r}
      /\ \A q \in DOMAIN connections' : connections'[q] = connections[q]
    BY <1>1 DEF Without
<1>7. RoutesMatch'
    <2>1. \A q \in DOMAIN connections : connections[q] \in Conns
        BY DEF RoutesInv, RoutingTypes, ConnectionsOK
    <2> QED
        BY <1>1, <1>2, <1>6, <2>1 DEF RoutesInv, RoutesMatch
<1>8. RoutesOnce'
    BY <1>1 DEF RoutesOnce
<1>9. ActiveCounted'
    <2>1. routerStats'.active = routerStats.active - 1
        BY <1>3 DEF RoutesInv, RoutingTypes, StatsOK
    <2> QED
        BY <1>1, <1>6, <2>1, FS_RemoveElement DEF RoutesInv, ActiveCounted
<1> QED
    BY <1>5, <1>7, <1>8, <1>9 DEF RoutesInv

(* A remover that does not wait yet goes on.                                *)
LEMMA RemoverMoves ==
    ASSUME RemovingOK, UNCHANGED <<connections, lockedBy>>, NEW g \in Removers,
           NEW m \in [at : {"idle", "failed", "lock"}, id : Receivers \cup {None}],
           removing' = [removing EXCEPT ![g] = m]
    PROVE  RemovingOK'
  BY DEF RemovingOK

LEMMA RoutesInvNext == RoutesInv /\ [RoutingNext]_routingVars => RoutesInv'
<1> SUFFICES ASSUME RoutesInv, [RoutingNext]_routingVars PROVE RoutesInv'
    OBVIOUS
<1> USE RoutingAssumption
<1>0. RoutingTypes /\ RemovingOK /\ RouterOK /\ StatsOK
    BY DEF RoutesInv, RoutingTypes
<1>12. ASSUME KeepsTracks, UNCHANGED <<router, routedSoFar>> PROVE RouterOK'
    BY <1>0, <1>12, KeepsTypes, RouterStays
<1>1. ASSUME NEW r \in Receivers, CreateReceiver(r) PROVE RoutesInv'
    BY <1>1, CreateReceiverAgrees
<1>2. ASSUME NEW r \in Receivers, NEW t \in RoutedTracks, AddTrackToReceiver(r, t) PROVE RoutesInv'
    BY <1>2, AddTrackAgrees
<1>3. ASSUME NEW g \in Removers, RemoveReceiver(g) PROVE RoutesInv'
    <2>1. KeepsTracks
        BY <1>3, RemoveReceiverKeeps DEF RoutesInv
    <2>2. /\ UNCHANGED <<connections, routingTable, router, routedSoFar, routerStats>>
          /\ RouterOK' /\ StatsOK'
        BY <1>0, <1>3, <1>12, <2>1 DEF RemoveReceiver, StatsOK
    <2>3. RemovingOK'
        <3>1. CASE removing[g].id \in DOMAIN connections
            BY <1>0, <1>3, <2>2, <3>1 DEF RemoveReceiver, RemovingOK, Unlocked
        <3>2. CASE removing[g].id \notin DOMAIN connections
            BY <1>0, <1>3, <2>2, <3>2, RemoverMoves DEF RemoveReceiver, Resting
        <3> QED
            BY <3>1, <3>2
    <2> QED
        BY <2>1, <2>2, <2>3, RoutesStay
<1>4. ASSUME NEW g \in Removers, FinishRemoval(g) PROVE RoutesInv'
    BY <1>4, FinishRemovalAgrees
<1>5. ASSUME NEW g \in Removers, HandleConnectionStateChange(g) PROVE RoutesInv'
    <2>1. UNCHANGED <<conns, connections, routingTable, lockedBy, router, routedSoFar>> /\ KeepsTracks
        BY <1>5 DEF HandleConnectionStateChange, KeepsTracks
    <2>2. routerStats'.active = routerStats.active /\ StatsOK' /\ RouterOK'
        BY <1>0, <1>5, <1>12, <2>1 DEF HandleConnectionStateChange, StatsOK
    <2>3. RemovingOK'
        <3> DEFINE m == [removing[g] EXCEPT !.at = "lock"]
        <3>1. m \in [at : {"idle", "failed", "lock"}, id : Receivers \cup {None}]
            BY <1>0 DEF RemovingOK
        <3>2. removing' = [removing EXCEPT ![g] = m]
            BY <1>5 DEF HandleConnectionStateChange
        <3> HIDE DEF m
        <3> QED
            BY <1>0, <2>1, <3>1, <3>2, RemoverMoves
    <2> QED
        BY <2>1, <2>2, <2>3, RoutesStay
<1>6. ASSUME NEW g \in Removers, NEW r \in Receivers, CallRemoveReceiver(g, r) PROVE RoutesInv'
    <2>1. /\ UNCHANGED <<conns, connections, routingTable, lockedBy, router, routedSoFar, routerStats>>
          /\ KeepsTracks
        BY <1>6 DEF CallRemoveReceiver, KeepsTracks
    <2>2. RemovingOK' /\ RouterOK' /\ StatsOK'
        BY <1>0, <1>6, <1>12, <2>1, RemoverMoves DEF CallRemoveReceiver, StatsOK
    <2> QED
        BY <2>1, <2>2, RoutesStay
<1>7. ASSUME NEW g \in Removers, NEW i \in Conns, ConnectionFails(g, i) PROVE RoutesInv'
    <2>1. KeepsTracks
        BY <1>7, ConnectionFailsKeeps DEF RoutesInv
    <2>2. UNCHANGED <<connections, routingTable, lockedBy, router, routedSoFar, routerStats>>
        BY <1>7 DEF ConnectionFails
    <2>3. conns[i].id \in Receivers
        <3>1. conns[i] \in RouterConnection
            BY DEF RoutesInv, RoutingTypes, ConnsOK, Conns
        <3> QED
            BY <3>1 DEF RouterConnection
    <2>4. RemovingOK'
        <3>1. [at |-> "failed", id |-> conns[i].id]
                 \in [at : {"idle", "failed", "lock"}, id : Receivers \cup {None}]
            BY <2>3
        <3>2. removing' = [removing EXCEPT ![g] = [at |-> "failed", id |-> conns[i].id]]
            BY <1>7 DEF ConnectionFails
        <3> QED
            BY <1>0, <2>2, <3>1, <3>2, RemoverMoves
    <2>5. RouterOK' /\ StatsOK'
        BY <1>0, <1>12, <2>1, <2>2 DEF StatsOK
    <2> QED
        BY <2>1, <2>2, <2>4, <2>5, RoutesStay
<1>8. ASSUME NEW t \in RoutedTracks, Process(t) PROVE RoutesInv'
    <2>1. UNCHANGED <<conns, connections, routingTable, lockedBy, removing, routerStats>> /\ KeepsTracks
        BY <1>8 DEF Process, KeepsTracks
    <2>2. routedSoFar + 1 \in 1..MaxRouted /\ routedSoFar' = routedSoFar + 1
        BY <1>0, <1>8 DEF Process, RouterOK
    <2>3. Routes(t) \in Seq(Receivers)
        BY RoutesAreReceivers DEF RoutesInv, RoutingTypes
    <2>4. RouterOK'
        <3> DEFINE w == [number |-> routedSoFar + 1, left |-> Routes(t), to |-> 0]
        <3>1. w \in Routing /\ OnItsWay(w) /\ routedSoFar' \in 0..MaxRouted
            BY <2>2, <2>3 DEF Routing, OnItsWay
        <3>2. router' = router \/ router' = [router EXCEPT ![t] = w]
            BY <1>8, <2>2 DEF Process
        <3> HIDE DEF w
        <3>3. router = [router EXCEPT ![t] = router[t]] /\ router[t] \in Routing /\ OnItsWay(router[t])
            BY <1>0 DEF RouterOK
        <3> QED
            BY <1>0, <2>1, <3>1, <3>2, <3>3, RouterMoves
    <2>5. RemovingOK' /\ StatsOK'
        BY <1>0, <2>1 DEF RemovingOK, StatsOK
    <2> QED
        BY <2>1, <2>4, <2>5, RoutesStay
<1>13. ASSUME NEW t \in RoutedTracks, LookUp(t) PROVE RoutesInv'
    <2>1. UNCHANGED <<conns, connections, routingTable, lockedBy, removing, routedSoFar, routerStats>>
          /\ KeepsTracks
        BY <1>13 DEF LookUp, KeepsTracks
    <2> DEFINE r == Head(router[t].left)
               w == [router[t] EXCEPT !.to = connections[r]]
    <2>2. /\ router[t] \in Routing /\ OnItsWay(router[t]) /\ router[t].left # <<>>
          /\ routedSoFar' \in 0..MaxRouted
        BY <1>0, <1>13 DEF LookUp, RouterOK
    <2>3. RouterOK'
        <3>1. CASE r \in DOMAIN connections
            <4>1. connections[r] \in Conns /\ conns[connections[r]].id = r
                BY <1>0, <3>1 DEF RoutingTypes, ConnectionsOK
            <4>2. w \in Routing /\ OnItsWay(w)
                BY <2>2, <4>1 DEF Routing, OnItsWay, Conns
            <4>3. router' = [router EXCEPT ![t] = w]
                BY <1>13, <3>1 DEF LookUp
            <4> HIDE DEF w
            <4> QED
                BY <1>0, <2>1, <2>2, <4>2, <4>3, RouterMoves
        <3>2. CASE r \notin DOMAIN connections
            <4>1. router' = [router EXCEPT ![t] = Given(router[t])]
                BY <1>13, <3>2 DEF LookUp
            <4> QED
                BY <1>0, <2>1, <2>2, <4>1, GivenRoutes, RouterMoves
        <3> QED
            BY <3>1, <3>2
    <2>4. RemovingOK' /\ StatsOK'
        BY <1>0, <2>1 DEF RemovingOK, StatsOK
    <2> QED
        BY <2>1, <2>3, <2>4, RoutesStay
<1>9. ASSUME NEW t \in RoutedTracks, RoutePacket(t) PROVE RoutesInv'
    <2>1. KeepsTracks
        BY <1>0, <1>9, RoutePacketKeeps
    <2>2. UNCHANGED <<connections, routingTable, lockedBy, removing, routedSoFar, routerStats>>
        BY <1>9 DEF RoutePacket
    <2>3. RouterOK'
        <3>1. router' = [router EXCEPT ![t] = Given(router[t])]
            BY <1>9 DEF RoutePacket
        <3>2. /\ router[t] \in Routing /\ router[t].left # <<>> /\ OnItsWay(router[t])
              /\ routedSoFar' \in 0..MaxRouted
            BY <1>0, <1>9, <2>2, SentPacket DEF RouterOK
        <3> QED
            BY <1>0, <2>1, <3>1, <3>2, GivenRoutes, RouterMoves
    <2>4. RemovingOK' /\ StatsOK'
        BY <1>0, <2>2 DEF RemovingOK, StatsOK
    <2> QED
        BY <2>1, <2>2, <2>3, <2>4, RoutesStay
<1>10. ASSUME NEW i \in Conns, ForwardPacket(i) \/ ForwarderEnds(i) PROVE RoutesInv'
    <2>1. KeepsTracks
        BY <1>10, ForwardPacketKeeps, ForwarderEndsKeeps DEF RoutesInv
    <2>2. UNCHANGED <<connections, routingTable, lockedBy, removing, router, routedSoFar, routerStats>>
        BY <1>10 DEF ForwardPacket, ForwarderEnds
    <2>3. RemovingOK' /\ RouterOK' /\ StatsOK'
        BY <1>0, <1>12, <2>1, <2>2 DEF RemovingOK, StatsOK
    <2> QED
        BY <2>1, <2>2, <2>3, RoutesStay
<1>11. CASE UNCHANGED routingVars
    <2>1. UNCHANGED routingVars /\ KeepsTracks
        BY <1>11 DEF routingVars, KeepsTracks
    <2>2. RemovingOK' /\ RouterOK' /\ StatsOK'
        BY <1>0, <1>12, <2>1 DEF routingVars, RemovingOK, StatsOK
    <2> QED
        BY <2>1, <2>2, RoutesStay DEF routingVars
<1> QED
    BY <1>1, <1>2, <1>3, <1>4, <1>5, <1>6, <1>7, <1>8, <1>9, <1>10, <1>11, <1>13 DEF RoutingNext

(* For any number of receivers, tracks and removers: whatever operations    *)
(* and failures of the connections come between each other, a receiver is   *)
(* in the routes of a track once when it is connected and was given the     *)
(* track, not at all otherwise, and the active connections are counted.     *)
THEOREM RoutesAlwaysAgree == RoutingSpec => []RoutesAgree
<1>1. RoutesInv => RoutesAgree
    <2> SUFFICES ASSUME RoutesInv PROVE RoutesAgree
        OBVIOUS
    <2>1. ASSUME NEW r \in Receivers, NEW t \in RoutedTracks
          PROVE  Cardinality({j \in DOMAIN Routes(t) : Routes(t)[j] = r})
                    = IF r \in DOMAIN connections /\ t \in conns[connections[r]].localTracks THEN 1 ELSE 0
        <3> DEFINE places == {j \in DOMAIN Routes(t) : Routes(t)[j] = r}
        <3>1. r \in Range(Routes(t)) <=> r \in DOMAIN connections /\ t \in conns[connections[r]].localTracks
            BY DEF RoutesInv, RoutesMatch
        <3>2. CASE r \in Range(Routes(t))
            <4>1. PICK j \in DOMAIN Routes(t) : Routes(t)[j] = r
                BY <3>2 DEF Range
            <4>2. places = {j}
                BY <4>1 DEF RoutesInv, RoutesOnce, IsInjective
            <4> QED
                BY <3>1, <3>2, <4>2, FS_Singleton
        <3>3. CASE r \notin Range(Routes(t))
            <4>1. places = {}
                BY <3>3 DEF Range
            <4> QED
                BY <3>1, <3>3, <4>1, FS_EmptySet
        <3> QED
            BY <3>2, <3>3
    <2> QED
        BY <2>1 DEF RoutesAgree, RoutesInv, ActiveCounted
<1> QED
    BY <1>1, RoutesInvInit, RoutesInvNext, PTL DEF RoutingSpec

-------------------------------------------------------------------------------
(* The pipeline.  Its loops first: over the stages, and of a frame through  *)
(* the stages.                                                              *)

(* The loop of RemoveStage over the stages: what it has kept after each.     *)
KeepsStages(f, s, kept) ==
    /\ f[0] = <<>>
    /\ \A i \in 1..Len(s) :
          f[i] = IF s[i] \in kept THEN Append(f[i - 1], s[i]) ELSE f[i - 1]
    /\ \A i \in 0..Len(s) : f[i] \in Seq(Stages)
    /\ StagesIn(s, kept) = f[Len(s)]

LEMMA StagesInLoop ==
    ASSUME NEW s \in Seq(Stages), NEW kept
    PROVE  \E f : KeepsStages(f, s, kept)
<1> DEFINE n == Len(s)
           V == Seq(Stages)
           Loop(f) == [i \in 0..n |-> IF i = 0 THEN <<>>
                                     ELSE IF s[i] \in kept THEN Append(f[i - 1], s[i]) ELSE f[i - 1]]
           G == [p \in Nat \X V |->
                    IF p[1] \in 1..n /\ s[p[1]] \in kept THEN Append(p[2], s[p[1]]) ELSE p[2]]
           filtered == CHOOSE f : f = Loop(f)
<1>1. StagesIn(s, kept) = filtered[n]
    BY DEF StagesIn
<1>2. n \in Nat /\ \A i \in 1..n : s[i] \in Stages
    OBVIOUS
<1>3. \E f : f = Loop(f)
    <2>1. G \in StepFunctions(V) /\ <<>> \in V
        BY <1>2 DEF StepFunctions
    <2>2. PICK f : Follows(f, V, <<>>, G, n)
        <3> HIDE DEF G, n, V
        <3> QED
            BY <1>2, <2>1, RecursionExists
    <2>3. ASSUME NEW i \in 1..n
          PROVE  f[i] = IF s[i] \in kept THEN Append(f[i - 1], s[i]) ELSE f[i - 1]
        <3>1. i \in Nat /\ i - 1 \in 0..n /\ f[i - 1] \in V
            BY <1>2, <2>2, SMTT(30) DEF Follows
        <3> QED
            BY <2>2, <3>1 DEF Follows
    <2>4. f[0] = <<>> /\ f = [i \in 0..n |-> f[i]] /\ \A i \in 0..n : i # 0 => i \in 1..n
        BY <1>2, <2>2 DEF Follows
    <2> HIDE DEF n
    <2> QED
        BY <2>3, <2>4
<1>4. filtered = Loop(filtered)
    BY <1>3
<1> HIDE DEF filtered
<1>5. /\ filtered[0] = <<>>
      /\ \A i \in 1..n : filtered[i] = IF s[i] \in kept THEN Append(filtered[i - 1], s[i]) ELSE filtered[i - 1]
    <2>1. 0 \in 0..n /\ \A i \in 1..n : i \in 0..n /\ i # 0
        BY <1>2
    <2>2. /\ Loop(filtered)[0] = <<>>
          /\ \A i \in 1..n : Loop(filtered)[i] = IF s[i] \in kept THEN Append(filtered[i - 1], s[i]) ELSE filtered[i - 1]
        BY <2>1
    <2> HIDE DEF Loop
    <2> QED
        BY <1>4, <2>2
<1>6. \A i \in 0..n : filtered[i] \in V
    <2>1. filtered[0] \in V
        BY <1>5
    <2>2. ASSUME NEW i \in 1..n, filtered[i - 1] \in V PROVE filtered[i] \in V
        <3>1. PICK r \in V : r = filtered[i - 1]
            BY <2>2
        <3>2. s[i] \in Stages /\ filtered[i] = IF s[i] \in kept THEN Append(r, s[i]) ELSE r
            BY <1>2, <1>5, <3>1
        <3>3. Append(r, s[i]) \in V
            BY <3>2
        <3> QED
            BY <3>2, <3>3
    <2> HIDE DEF n, V
    <2> QED
        BY <1>2, <2>1, <2>2, LoopStays
<1>7. KeepsStages(filtered, s, kept)
    BY <1>1, <1>2, <1>5, <1>6 DEF KeepsStages
<1> QED
    BY <1>7

LEMMA StagesInAppended ==
    ASSUME NEW s \in Seq(Stages), NEW e \in Stages, NEW kept
    PROVE  /\ StagesIn(s, kept) \in Seq(Stages) /\ StagesIn(<<>>, kept) = <<>>
           /\ StagesIn(Append(s, e), kept)
                = IF e \in kept THEN Append(StagesIn(s, kept), e) ELSE StagesIn(s, kept)
<1>1. PICK t : t = Append(s, e)
    OBVIOUS
<1>2. /\ t \in Seq(Stages) /\ Len(s) \in Nat /\ Len(t) = Len(s) + 1 /\ t[Len(t)] = e
      /\ \A i \in 1..Len(s) : t[i] = s[i] /\ i \in 1..Len(t)
    BY <1>1
<1>3. PICK f : KeepsStages(f, s, kept)
    BY StagesInLoop
<1>4. PICK g : KeepsStages(g, t, kept)
    BY <1>2, StagesInLoop
<1> USE DEF KeepsStages
<1> DEFINE N == {k \in Nat : k <= Len(s) => f[k] = g[k]}
<1>5. 0 \in N
    BY <1>3, <1>4
<1>6. ASSUME NEW k \in N PROVE k + 1 \in N
    <2>1. k \in Nat /\ (k <= Len(s) => f[k] = g[k])
        BY <1>6
    <2>2. ASSUME k + 1 <= Len(s) PROVE f[k + 1] = g[k + 1]
        <3>1. k + 1 \in 1..Len(s) /\ (k + 1) - 1 = k /\ k <= Len(s)
            BY <1>2, <2>1, <2>2
        <3> QED
            BY <1>2, <1>3, <1>4, <2>1, <3>1
    <2> QED
        BY <2>1, <2>2
<1>7. N = Nat
    <2>1. N \subseteq Nat
        OBVIOUS
    <2> HIDE DEF N
    <2> QED
        BY <1>5, <1>6, <2>1, SetInduction
<1>8. f[Len(s)] = g[Len(s)]
    BY <1>2, <1>7
<1>9. Len(t) \in 1..Len(t) /\ Len(t) - 1 = Len(s) /\ Len(s) \in 0..Len(s)
    BY <1>2
<1>10. StagesIn(t, kept) = IF e \in kept THEN Append(StagesIn(s, kept), e) ELSE StagesIn(s, kept)
    BY <1>2, <1>3, <1>4, <1>8, <1>9
<1>11. StagesIn(s, kept) \in Seq(Stages)
    BY <1>3, <1>9
<1>12. StagesIn(<<>>, kept) = <<>>
    <2>1. <<>> \in Seq(Stages) /\ Len(<<>>) = 0
        OBVIOUS
    <2> HIDE DEF KeepsStages
    <2>2. PICK h : KeepsStages(h, <<>>, kept)
        BY <2>1, StagesInLoop
    <2> QED
        BY <2>1, <2>2 DEF KeepsStages
<1> QED
    BY <1>1, <1>10, <1>11, <1>12

(* What is kept of what was kept.                                            *)
LEMMA StagesInBoth ==
    ASSUME NEW s \in Seq(Stages), NEW kept, NEW same
    PROVE  StagesIn(StagesIn(s, kept), same) = StagesIn(s, kept \cap same)
<1> DEFINE P == {q \in Seq(Stages) : StagesIn(StagesIn(q, kept), same) = StagesIn(q, kept \cap same)}
<1>1. <<>> \in P
    <2>1. <<>> \in Seq(Stages)
        OBVIOUS
    <2>3. \A k : StagesIn(<<>>, k) = <<>>
        <3> TAKE k
        <3>1. Len(<<>>) = 0
            OBVIOUS
        <3>2. PICK f : KeepsStages(f, <<>>, k)
            BY <2>1, StagesInLoop
        <3> QED
            BY <3>1, <3>2 DEF KeepsStages
    <2> QED
        BY <2>1, <2>3
<1>2. ASSUME NEW q \in Seq(Stages), NEW e \in Stages, q \in P PROVE Append(q, e) \in P
    <2>1. StagesIn(StagesIn(q, kept), same) = StagesIn(q, kept \cap same)
        BY <1>2
    <2>2. StagesIn(q, kept) \in Seq(Stages) /\ Append(q, e) \in Seq(Stages)
        BY StagesInAppended
    <2>3. PICK r \in Seq(Stages) : r = StagesIn(q, kept)
        BY <2>2
    <2>4. CASE e \in kept
        <3>1. StagesIn(Append(q, e), kept) = Append(r, e)
            BY <2>3, <2>4, StagesInAppended
        <3>2. StagesIn(Append(r, e), same) = IF e \in same THEN Append(StagesIn(r, same), e) ELSE StagesIn(r, same)
            BY StagesInAppended
        <3>4. e \in kept \cap same <=> e \in same
            BY <2>4
        <3>3. StagesIn(Append(q, e), kept \cap same)
                = IF e \in same THEN Append(StagesIn(q, kept \cap same), e) ELSE StagesIn(q, kept \cap same)
            <4>1. PICK both : both = kept \cap same
                OBVIOUS
            <4>2. StagesIn(Append(q, e), both)
                    = IF e \in both THEN Append(StagesIn(q, both), e) ELSE StagesIn(q, both)
                BY StagesInAppended
            <4> QED
                BY <3>4, <4>1, <4>2, Zenon
        <3> QED
            BY <2>1, <2>2, <2>3, <3>1, <3>2, <3>3
    <2>5. CASE e \notin kept
        <3>1. StagesIn(Append(q, e), kept) = r
            BY <2>3, <2>5, StagesInAppended
        <3>2. StagesIn(Append(q, e), kept \cap same) = StagesIn(q, kept \cap same)
            BY <2>5, StagesInAppended
        <3> QED
            BY <2>1, <2>2, <2>3, <3>1, <3>2
    <2> QED
        BY <2>4, <2>5
<1>3. Seq(Stages) \subseteq P
    <2> HIDE DEF P
    <2> QED
        BY <1>1, <1>2, SequenceInduction
<1> QED
    BY <1>3

(* What is kept stays in the order of the priorities.                        *)
ByPriority(s) == \A i, j \in 1..Len(s) : i <= j => s[i].priority <= s[j].priority

LEMMA OrderedAppended ==
    ASSUME NEW s \in Seq(Stages), NEW e \in Stages
    PROVE  ByPriority(Append(s, e)) <=> ByPriority(s) /\ \A i \in 1..Len(s) : s[i].priority <= e.priority
<1>1. PICK t : t = Append(s, e)
    OBVIOUS
<1>2. /\ t \in Seq(Stages) /\ Len(s) \in Nat /\ Len(t) = Len(s) + 1 /\ t[Len(s) + 1] = e
      /\ \A i \in 1..Len(s) : t[i] = s[i] /\ i \in 1..Len(t) /\ i <= Len(s) + 1
      /\ Len(s) + 1 \in 1..Len(t)
      /\ \A i \in 1..Len(t) : i \in 1..Len(s) \/ i = Len(s) + 1
    BY <1>1
<1>3. e.priority <= e.priority
    BY MediaAssumption
<1>4. ASSUME ByPriority(t)
      PROVE  ByPriority(s) /\ \A i \in 1..Len(s) : s[i].priority <= e.priority
    BY <1>2, <1>4 DEF ByPriority
<1>5. ASSUME ByPriority(s), \A i \in 1..Len(s) : s[i].priority <= e.priority,
             NEW i \in 1..Len(t), NEW j \in 1..Len(t), i <= j
      PROVE  t[i].priority <= t[j].priority
    <2>1. CASE j \in 1..Len(s)
        <3>1. i \in 1..Len(s)
            BY <1>2, <1>5, <2>1
        <3> QED
            BY <1>2, <1>5, <2>1, <3>1 DEF ByPriority
    <2>2. CASE j = Len(s) + 1
        BY <1>2, <1>3, <1>5, <2>2
    <2> QED
        BY <1>2, <2>1, <2>2
<1> QED
    BY <1>1, <1>4, <1>5 DEF ByPriority

LEMMA StagesInOrdered ==
    ASSUME NEW s \in Seq(Stages), NEW kept, ByPriority(s)
    PROVE  ByPriority(StagesIn(s, kept))
<1> DEFINE P == {q \in Seq(Stages) :
                    /\ \A i \in 1..Len(StagesIn(q, kept)) :
                          \E j \in 1..Len(q) : StagesIn(q, kept)[i] = q[j]
                    /\ ByPriority(q) => ByPriority(StagesIn(q, kept))}
<1>1. <<>> \in P
    <2>1. <<>> \in Seq(Stages) /\ Len(<<>>) = 0
        OBVIOUS
    <2>2. PICK f : KeepsStages(f, <<>>, kept)
        BY <2>1, StagesInLoop
    <2>3. StagesIn(<<>>, kept) = <<>>
        BY <2>1, <2>2 DEF KeepsStages
    <2> QED
        BY <2>1, <2>3
<1>2. ASSUME NEW q \in Seq(Stages), NEW e \in Stages, q \in P PROVE Append(q, e) \in P
    <2>1. PICK r \in Seq(Stages) : r = StagesIn(q, kept)
        BY StagesInAppended
    <2>2. /\ \A i \in 1..Len(r) : \E j \in 1..Len(q) : r[i] = q[j]
          /\ ByPriority(q) => ByPriority(r)
        BY <1>2, <2>1
    <2> HIDE DEF P
    <2>3. PICK t : t = Append(q, e)
        OBVIOUS
    <2>4. /\ t \in Seq(Stages) /\ Len(t) = Len(q) + 1 /\ t[Len(q) + 1] = e /\ Len(q) \in Nat
          /\ \A i \in 1..Len(q) : t[i] = q[i] /\ i \in 1..Len(t)
        BY <2>3
    <2>5. ByPriority(t) <=> ByPriority(q) /\ \A i \in 1..Len(q) : q[i].priority <= e.priority
        BY <2>3, OrderedAppended
    <2>6. PICK u : u = StagesIn(t, kept)
        OBVIOUS
    <2>7. CASE e \in kept
        <3>1. u = Append(r, e)
            BY <2>1, <2>3, <2>6, <2>7, StagesInAppended
        <3>2. /\ Len(u) = Len(r) + 1 /\ Len(r) \in Nat /\ u[Len(r) + 1] = e
              /\ \A i \in 1..Len(r) : u[i] = r[i]
              /\ \A i \in 1..Len(u) : i \in 1..Len(r) \/ i = Len(r) + 1
            BY <3>1
        <3>3. ByPriority(u) <=> ByPriority(r) /\ \A i \in 1..Len(r) : r[i].priority <= e.priority
            BY <3>1, OrderedAppended
        <3>4. \A i \in 1..Len(u) : \E j \in 1..Len(t) : u[i] = t[j]
            BY <2>2, <2>4, <3>2
        <3>5. ByPriority(t) => ByPriority(u)
            BY <2>2, <2>5, <3>3
        <3> QED
            BY <2>3, <2>4, <2>6, <3>4, <3>5 DEF P
    <2>8. CASE e \notin kept
        <3>1. u = r
            BY <2>1, <2>3, <2>6, <2>8, StagesInAppended
        <3>2. \A i \in 1..Len(u) : \E j \in 1..Len(t) : u[i] = t[j]
            BY <2>2, <2>4, <3>1
        <3> QED
            BY <2>2, <2>3, <2>4, <2>5, <2>6, <3>1, <3>2 DEF P
    <2> QED
        BY <2>7, <2>8
<1>3. Seq(Stages) \subseteq P
    <2> HIDE DEF P
    <2> QED
        BY <1>1, <1>2, SequenceInduction
<1> QED
    BY <1>3

(* Two neighbours that change places, not both kept, change nothing of it.   *)
Swapping(s, j) == [s EXCEPT ![j] = s[j + 1], ![j + 1] = s[j]]

LEMMA SwappingIs ==
    ASSUME NEW s \in Seq(Stages), NEW j \in 1..(Len(s) - 1)
    PROVE  /\ Swapping(s, j) \in Seq(Stages) /\ Len(Swapping(s, j)) = Len(s)
           /\ Swapping(s, j)[j] = s[j + 1] /\ Swapping(s, j)[j + 1] = s[j]
           /\ \A i \in 1..Len(s) : i # j /\ i # j + 1 => Swapping(s, j)[i] = s[i]
           /\ j \in 1..Len(s) /\ j + 1 \in 1..Len(s)
BY DEF Swapping

LEMMA SwappingKeeps ==
    ASSUME NEW s \in Seq(Stages), NEW j \in 1..(Len(s) - 1), NEW kept,
           ~(s[j] \in kept /\ s[j + 1] \in kept)
    PROVE  StagesIn(Swapping(s, j), kept) = StagesIn(s, kept)
<1> DEFINE P == {q \in Seq(Stages) : \A i \in 1..(Len(q) - 1) :
                    ~(q[i] \in kept /\ q[i + 1] \in kept)
                        => StagesIn(Swapping(q, i), kept) = StagesIn(q, kept)}
<1>1. <<>> \in P
    <2>1. <<>> \in Seq(Stages) /\ 1..(Len(<<>>) - 1) = {}
        OBVIOUS
    <2> QED
        BY <2>1
<1>2. ASSUME NEW q \in Seq(Stages), NEW e \in Stages, q \in P PROVE Append(q, e) \in P
    <2>1. \A i \in 1..(Len(q) - 1) :
             ~(q[i] \in kept /\ q[i + 1] \in kept)
                => StagesIn(Swapping(q, i), kept) = StagesIn(q, kept)
        BY <1>2
    <2> HIDE DEF P
    <2>2. PICK t : t = Append(q, e)
        OBVIOUS
    <2>3. /\ t \in Seq(Stages) /\ Len(t) = Len(q) + 1 /\ t[Len(q) + 1] = e /\ Len(q) \in Nat
          /\ \A i \in 1..Len(q) : t[i] = q[i] /\ i \in 1..Len(t)
        BY <2>2
    <2>4. ASSUME NEW i \in 1..(Len(t) - 1), ~(t[i] \in kept /\ t[i + 1] \in kept)
          PROVE  StagesIn(Swapping(t, i), kept) = StagesIn(t, kept)
        <3>1. PICK w : w = Swapping(t, i)
            OBVIOUS
        <3>2. /\ w \in Seq(Stages) /\ Len(w) = Len(t) /\ w[i] = t[i + 1] /\ w[i + 1] = t[i]
              /\ \A k \in 1..Len(t) : k # i /\ k # i + 1 => w[k] = t[k]
            BY <2>3, <3>1, SwappingIs
        <3>3. CASE i \in 1..(Len(q) - 1)
            <4>1. PICK v : v = Swapping(q, i)
                OBVIOUS
            <4>2. /\ v \in Seq(Stages) /\ Len(v) = Len(q) /\ v[i] = q[i + 1] /\ v[i + 1] = q[i]
                  /\ \A k \in 1..Len(q) : k # i /\ k # i + 1 => v[k] = q[k]
                  /\ i \in 1..Len(q) /\ i + 1 \in 1..Len(q)
                BY <3>3, <4>1, SwappingIs
            <4>3. t[i] = q[i] /\ t[i + 1] = q[i + 1]
                BY <2>3, <4>2
            <4>4. PICK x : x = Append(v, e)
                OBVIOUS
            <4>5. /\ x \in Seq(Stages) /\ Len(x) = Len(q) + 1 /\ x[Len(q) + 1] = e
                  /\ \A k \in 1..Len(q) : x[k] = v[k]
                BY <4>2, <4>4
            <4>6. ASSUME NEW k \in 1..Len(t) PROVE w[k] = x[k]
                <5>1. CASE k = Len(q) + 1
                    <6>1. k # i /\ k # i + 1
                        BY <2>3, <3>3, <5>1
                    <6> QED
                        BY <2>3, <3>2, <4>5, <5>1, <6>1
                <5>2. CASE k # Len(q) + 1
                    <6>1. k \in 1..Len(q)
                        BY <2>3, <5>2
                    <6> QED
                        BY <2>3, <3>2, <4>2, <4>3, <4>5, <6>1
                <5> QED
                    BY <5>1, <5>2
            <4>7. w = x
                BY <2>3, <3>2, <4>5, <4>6, SameSequences
            <4>8. StagesIn(v, kept) = StagesIn(q, kept)
                BY <2>1, <2>4, <3>3, <4>1, <4>3
            <4>9. StagesIn(x, kept) = IF e \in kept THEN Append(StagesIn(v, kept), e) ELSE StagesIn(v, kept)
                BY <4>2, <4>4, StagesInAppended
            <4>10. StagesIn(t, kept) = IF e \in kept THEN Append(StagesIn(q, kept), e) ELSE StagesIn(q, kept)
                BY <2>2, StagesInAppended
            <4> QED
                BY <3>1, <4>7, <4>8, <4>9, <4>10
        <3>4. CASE i = Len(q)
            <4>1. i \in 1..Len(q) /\ i - 1 \in Nat /\ q[i] \in Stages
                BY <2>3, <3>4
            <4>2. PICK r : r = SubSeq(q, 1, i - 1)
                OBVIOUS
            <4>3. r \in Seq(Stages) /\ Len(r) = i - 1 /\ \A k \in 1..(i - 1) : r[k] = q[k]
                BY <3>4, <4>1, <4>2
            <4>4. PICK o : o = Append(r, q[i])
                OBVIOUS
            <4>5. o \in Seq(Stages) /\ Len(o) = i /\ \A k \in 1..i : o[k] = q[k]
                BY <4>1, <4>3, <4>4
            <4>6. o = q
                BY <3>4, <4>5, SameSequences
            <4>7. PICK y : y = Append(r, e)
                OBVIOUS
            <4>8. y \in Seq(Stages) /\ Len(y) = i /\ y[i] = e /\ \A k \in 1..(i - 1) : y[k] = q[k]
                BY <4>1, <4>3, <4>7
            <4>9. PICK x : x = Append(y, q[i])
                OBVIOUS
            <4>10. /\ x \in Seq(Stages) /\ Len(x) = i + 1 /\ x[i + 1] = q[i] /\ x[i] = e
                   /\ \A k \in 1..(i - 1) : x[k] = q[k]
                BY <4>1, <4>8, <4>9
            <4>11. t[i] = q[i] /\ t[i + 1] = e
                BY <2>3, <3>4, <4>1
            <4>12. ASSUME NEW k \in 1..Len(t) PROVE w[k] = x[k]
                <5>1. k = i \/ k = i + 1 \/ k \in 1..(i - 1)
                    BY <2>3, <3>4, <4>1
                <5>2. CASE k \in 1..(i - 1)
                    <6>1. k # i /\ k # i + 1 /\ k \in 1..Len(q)
                        BY <3>4, <4>1, <5>2
                    <6> QED
                        BY <2>3, <3>2, <4>10, <5>2, <6>1
                <5> QED
                    BY <3>2, <4>10, <4>11, <5>1, <5>2
            <4>13. w = x
                BY <2>3, <3>2, <3>4, <4>10, <4>12, SameSequences
            <4>14. ~(q[i] \in kept /\ e \in kept)
                BY <2>4, <4>11
            <4>15. PICK z \in Seq(Stages) : z = StagesIn(r, kept)
                BY <4>1, <4>3, StagesInAppended
            <4>16. StagesIn(y, kept) = IF e \in kept THEN Append(z, e) ELSE z
                BY <4>3, <4>7, <4>15, StagesInAppended
            <4>17. StagesIn(x, kept) = IF q[i] \in kept THEN Append(StagesIn(y, kept), q[i]) ELSE StagesIn(y, kept)
                <5>1. PICK c \in Stages : c = q[i]
                    BY <4>1
                <5>2. x = Append(y, c)
                    BY <4>9, <5>1
                <5>3. StagesIn(x, kept) = IF c \in kept THEN Append(StagesIn(y, kept), c) ELSE StagesIn(y, kept)
                    BY <4>8, <5>2, StagesInAppended
                <5> QED
                    BY <5>1, <5>3
            <4>18. StagesIn(q, kept) = IF q[i] \in kept THEN Append(z, q[i]) ELSE z
                <5>1. PICK c \in Stages : c = q[i]
                    BY <4>1
                <5>2. q = Append(r, c)
                    BY <4>4, <4>6, <5>1
                <5>3. StagesIn(Append(r, c), kept) = IF c \in kept THEN Append(z, c) ELSE z
                    BY <4>3, <4>15, StagesInAppended
                <5> QED
                    BY <5>1, <5>2, <5>3
            <4>19. StagesIn(t, kept) = IF e \in kept THEN Append(StagesIn(q, kept), e) ELSE StagesIn(q, kept)
                BY <2>2, StagesInAppended
            <4> QED
                BY <3>1, <4>13, <4>14, <4>16, <4>17, <4>18, <4>19
        <3> QED
            BY <2>3, <3>3, <3>4
    <2> QED
        BY <2>2, <2>3, <2>4 DEF P
<1>3. Seq(Stages) \subseteq P
    <2> HIDE DEF P
    <2> QED
        BY <1>1, <1>2, SequenceInduction
<1> QED
    BY <1>3

(* The loops of sortStages.  What swapping two neighbours out of order keeps,*)
(* a pass keeps, and the sort.                                               *)
PassesBy(f, s, k, V) ==
    /\ f[0] = s
    /\ \A j \in 1..k : f[j] = Swapped(f[j - 1], j)
    /\ \A j \in 0..k : f[j] \in V
    /\ Pass(s, k) = f[k]

SortsBy(f, s, V) ==
    /\ f[0] = s
    /\ \A i \in 1..(Len(s) - 1) : f[i] = Pass(f[i - 1], Len(s) - i)
    /\ Len(s) # 0 => f[Len(s)] = f[Len(s) - 1]
    /\ \A i \in 0..Len(s) : f[i] \in V
    /\ SortStages(s) = f[Len(s)]

LEMMA PassLoop ==
    ASSUME NEW n \in Nat, NEW k \in 0..(n - 1), NEW V, V \subseteq [1..n -> Stages], NEW s \in V,
           \A q \in V : \A j \in 1..(n - 1) : Swapped(q, j) \in V
    PROVE  \E f : PassesBy(f, s, k, V)
<1> DEFINE Loop(f) == [j \in 0..k |-> IF j = 0 THEN s ELSE Swapped(f[j - 1], j)]
           G == [p \in Nat \X V |-> IF p[1] \in 1..k THEN Swapped(p[2], p[1]) ELSE p[2]]
           after == CHOOSE f : f = Loop(f)
<1>1. Pass(s, k) = after[k]
    BY DEF Pass
<1>2. ASSUME NEW q \in V, NEW j \in 1..k PROVE Swapped(q, j) \in V
    <2>1. j \in 1..(n - 1)
        OBVIOUS
    <2> QED
        BY <2>1
<1>3. \E f : f = Loop(f)
    <2>1. G \in StepFunctions(V) /\ s \in V /\ k \in Nat
        BY <1>2 DEF StepFunctions
    <2>2. PICK f : Follows(f, V, s, G, k)
        <3> HIDE DEF G
        <3> QED
            BY <2>1, RecursionExists
    <2>3. ASSUME NEW i \in 1..k
          PROVE  f[i] = Swapped(f[i - 1], i)
        <3>1. i \in Nat /\ i - 1 \in 0..k /\ f[i - 1] \in V
            BY <2>2 DEF Follows
        <3> QED
            BY <2>2, <3>1 DEF Follows
    <2>4. f[0] = s /\ f = [i \in 0..k |-> f[i]] /\ \A i \in 0..k : i # 0 => i \in 1..k
        BY <2>2 DEF Follows
    <2> QED
        BY <2>3, <2>4
<1>4. after = Loop(after)
    BY <1>3
<1> HIDE DEF after
<1>5. after[0] = s /\ \A i \in 1..k : after[i] = Swapped(after[i - 1], i)
    <2>1. 0 \in 0..k /\ \A i \in 1..k : i \in 0..k /\ i # 0
        OBVIOUS
    <2>2. Loop(after)[0] = s /\ \A i \in 1..k : Loop(after)[i] = Swapped(after[i - 1], i)
        BY <2>1
    <2> HIDE DEF Loop
    <2> QED
        BY <1>4, <2>2
<1>6. \A i \in 0..k : after[i] \in V
    <2>1. k \in Nat
        OBVIOUS
    <2>2. after[0] \in V /\ \A i \in 1..k : after[i - 1] \in V => after[i] \in V
        BY <1>2, <1>5
    <2> QED
        BY <2>1, <2>2, LoopStays
<1> HIDE DEF Loop
<1>7. PassesBy(after, s, k, V)
    BY <1>1, <1>5, <1>6 DEF PassesBy
<1> QED
    BY <1>7

LEMMA SortLoop ==
    ASSUME NEW s \in Seq(Stages), NEW V, V \subseteq [1..Len(s) -> Stages], s \in V,
           \A q \in V : \A j \in 1..(Len(s) - 1) : Swapped(q, j) \in V
    PROVE  \E f : SortsBy(f, s, V)
<1> DEFINE n == Len(s)
           Goes(q, i) == IF i = n THEN q ELSE Pass(q, n - i)
           Loop(f) == [i \in 0..n |-> IF i = 0 THEN s ELSE IF i = n THEN f[i - 1]
                                                          ELSE Pass(f[i - 1], n - i)]
           G == [p \in Nat \X V |-> IF p[1] \in 1..n THEN Goes(p[2], p[1]) ELSE p[2]]
           after == CHOOSE f : f = Loop(f)
<1>1. SortStages(s) = after[n]
    BY DEF SortStages
<1>2. n \in Nat
    OBVIOUS
<1>3. ASSUME NEW q \in V, NEW j \in 1..n PROVE Goes(q, j) \in V
    <2>1. j # n => n - j \in 0..(n - 1)
        <3> HIDE DEF n
        <3> QED
            BY <1>2
    <2>2. CASE j # n
        <3>1. V \subseteq [1..n -> Stages] /\ \A r \in V : \A i \in 1..(n - 1) : Swapped(r, i) \in V
            OBVIOUS
        <3> HIDE DEF n
        <3>2. PICK k \in 0..(n - 1) : k = n - j
            BY <2>1, <2>2
        <3>3. PICK f : PassesBy(f, q, k, V)
            BY <1>2, <3>1, PassLoop
        <3>4. k \in 0..k
            BY <1>2
        <3> QED
            BY <2>2, <3>2, <3>3, <3>4 DEF PassesBy
    <2> QED
        BY <2>2
<1>4. \E f : f = Loop(f)
    <2>1. G \in StepFunctions(V)
        <3>1. \A p \in Nat \X V : p[2] \in V
            OBVIOUS
        <3> HIDE DEF Goes, n
        <3> QED
            BY <1>3, <3>1 DEF StepFunctions
    <2>2. PICK f : Follows(f, V, s, G, n)
        <3> HIDE DEF G, n
        <3> QED
            BY <1>2, <2>1, RecursionExists
    <2>3. ASSUME NEW i \in 1..n
          PROVE  f[i] = Goes(f[i - 1], i)
        <3> HIDE DEF Goes, n
        <3>1. i \in Nat /\ i - 1 \in 0..n /\ f[i - 1] \in V
            BY <1>2, <2>2 DEF Follows
        <3> QED
            BY <2>2, <3>1 DEF Follows
    <2>4. f[0] = s /\ f = [i \in 0..n |-> f[i]] /\ \A i \in 0..n : i # 0 => i \in 1..n
        BY <1>2, <2>2 DEF Follows
    <2> HIDE DEF n
    <2> QED
        BY <2>3, <2>4
<1>5. after = Loop(after)
    BY <1>4
<1> HIDE DEF after
<1>6. after[0] = s /\ \A i \in 1..n : after[i] = Goes(after[i - 1], i)
    <2>1. 0 \in 0..n /\ \A i \in 1..n : i \in 0..n /\ i # 0
        BY <1>2
    <2>2. Loop(after)[0] = s /\ \A i \in 1..n : Loop(after)[i] = Goes(after[i - 1], i)
        BY <2>1
    <2> HIDE DEF Loop, Goes
    <2> QED
        BY <1>5, <2>2
<1>7. \A i \in 0..n : after[i] \in V
    <2>1. after[0] \in V /\ \A i \in 1..n : after[i - 1] \in V => after[i] \in V
        <3> HIDE DEF Goes, n
        <3> QED
            BY <1>3, <1>6
    <2> HIDE DEF n
    <2> QED
        BY <1>2, <2>1, LoopStays
<1>8. \A i \in 1..(n - 1) : after[i] = Pass(after[i - 1], n - i)
    <2> HIDE DEF n
    <2>1. \A i \in 1..(n - 1) : i \in 1..n /\ i # n
        BY <1>2
    <2> QED
        BY <1>6, <2>1
<1>9. n # 0 => after[n] = after[n - 1]
    <2> HIDE DEF n
    <2>1. n # 0 => n \in 1..n
        BY <1>2
    <2> QED
        BY <1>6, <2>1
<1> HIDE DEF Loop
<1>10. SortsBy(after, s, V)
    BY <1>1, <1>6, <1>7, <1>8, <1>9 DEF SortsBy
<1> QED
    BY <1>10

(* sortStages leaves as many stages, in their order when they have the same  *)
(* priority.                                                                 *)
SamePriority(p) == {x \in Stages : x.priority = p}

LEMMA SwappedIs ==
    ASSUME NEW q \in Seq(Stages), NEW j \in 1..(Len(q) - 1)
    PROVE  /\ q[j].priority > q[j + 1].priority => Swapped(q, j) = Swapping(q, j)
           /\ ~(q[j].priority > q[j + 1].priority) => Swapped(q, j) = q
BY DEF Swapped, Swapping

LEMMA SortIsStable ==
    ASSUME NEW s \in Seq(Stages)
    PROVE  /\ SortStages(s) \in Seq(Stages)
           /\ \A p \in Nat : StagesIn(SortStages(s), SamePriority(p)) = StagesIn(s, SamePriority(p))
<1> DEFINE n == Len(s)
           V == {q \in [1..n -> Stages] :
                    \A p \in Nat : StagesIn(q, SamePriority(p)) = StagesIn(s, SamePriority(p))}
<1>1. s \in [1..n -> Stages] /\ n \in Nat /\ [1..n -> Stages] \subseteq Seq(Stages)
    OBVIOUS
<1>2. ASSUME NEW q \in V, NEW j \in 1..(n - 1) PROVE Swapped(q, j) \in V
    <2>1. q \in [1..n -> Stages] /\ \A p \in Nat : StagesIn(q, SamePriority(p)) = StagesIn(s, SamePriority(p))
        OBVIOUS
    <2> HIDE DEF V, n
    <2>2. q \in Seq(Stages) /\ Len(q) = n /\ j \in 1..n /\ j + 1 \in 1..n /\ j \in 1..(Len(q) - 1)
        BY <1>1, <2>1
    <2>3. q[j].priority \in Nat /\ q[j + 1].priority \in Nat
        BY <2>1, <2>2, MediaAssumption
    <2>4. CASE q[j].priority > q[j + 1].priority
        <3>1. PICK w : w = Swapping(q, j)
            OBVIOUS
        <3>2. w \in Seq(Stages) /\ Len(w) = n
            BY <2>2, <3>1, SwappingIs
        <3>3. w \in [1..n -> Stages]
            BY <3>2
        <3>4. ASSUME NEW p \in Nat PROVE StagesIn(w, SamePriority(p)) = StagesIn(s, SamePriority(p))
            <4>1. ~(q[j] \in SamePriority(p) /\ q[j + 1] \in SamePriority(p))
                BY <2>3, <2>4 DEF SamePriority
            <4>2. StagesIn(w, SamePriority(p)) = StagesIn(q, SamePriority(p))
                BY <2>2, <3>1, <4>1, SwappingKeeps
            <4> QED
                BY <2>1, <4>2
        <3>5. Swapped(q, j) = w
            BY <2>2, <2>4, <3>1, SwappedIs
        <3> QED
            BY <3>3, <3>4, <3>5 DEF V
    <2>5. CASE ~(q[j].priority > q[j + 1].priority)
        BY <2>2, <2>5, SwappedIs
    <2> QED
        BY <2>4, <2>5
<1>3. s \in V /\ V \subseteq [1..n -> Stages]
    BY <1>1
<1>4. PICK f : SortsBy(f, s, V)
    <2> HIDE DEF V
    <2> QED
        BY <1>2, <1>3, SortLoop
<1>5. SortStages(s) \in V
    <2> HIDE DEF V, n
    <2>1. n \in 0..n
        BY <1>1
    <2> QED
        BY <1>4, <2>1 DEF SortsBy, n
<1> QED
    BY <1>1, <1>5

(* And orders them by priority: after a pass the stages from the last it     *)
(* looked at on are in place.                                                *)
InPlace(q, m) ==
    \A b \in 1..Len(q) : b > m => \A a \in 1..b : q[a].priority <= q[b].priority

LEMMA SwappedInPlace ==
    ASSUME NEW q \in Seq(Stages), NEW m \in Nat, NEW j \in 1..(Len(q) - 1), j < m, InPlace(q, m),
           \A a \in 1..j : q[a].priority <= q[j].priority
    PROVE  /\ InPlace(Swapped(q, j), m)
           /\ \A a \in 1..j + 1 : Swapped(q, j)[a].priority <= Swapped(q, j)[j + 1].priority
<1>1. /\ \A a \in 1..Len(q) : q[a].priority \in Nat
      /\ j \in 1..Len(q) /\ j + 1 \in 1..Len(q) /\ Len(q) \in Nat
    BY MediaAssumption
<1>2. CASE q[j].priority > q[j + 1].priority
    <2>1. PICK w : w = Swapping(q, j)
        OBVIOUS
    <2>2. /\ w \in Seq(Stages) /\ Len(w) = Len(q) /\ w[j] = q[j + 1] /\ w[j + 1] = q[j]
          /\ \A i \in 1..Len(q) : i # j /\ i # j + 1 => w[i] = q[i]
        BY <2>1, SwappingIs
    <2>3. Swapped(q, j) = w
        BY <1>2, <2>1, SwappedIs
    <2>4. ASSUME NEW b \in 1..Len(w), b > m, NEW a \in 1..b PROVE w[a].priority <= w[b].priority
        <3>1. b \in 1..Len(q) /\ a \in 1..Len(q) /\ j + 1 < b + 1 /\ b # j /\ b # j + 1 /\ j \in 1..b /\ j + 1 \in 1..b
            BY <1>1, <2>2, <2>4
        <3>2. \A c \in 1..b : q[c].priority <= q[b].priority
            BY <2>4, <3>1 DEF InPlace
        <3>3. w[b] = q[b] /\ (w[a] = q[a] \/ w[a] = q[j] \/ w[a] = q[j + 1])
            BY <2>2, <3>1
        <3> QED
            BY <3>1, <3>2, <3>3
    <2>5. ASSUME NEW a \in 1..j + 1 PROVE w[a].priority <= w[j + 1].priority
        <3>1. a \in 1..Len(q) /\ (a = j + 1 \/ a = j \/ (a \in 1..j /\ a # j /\ a # j + 1))
            BY <1>1
        <3> QED
            BY <1>1, <1>2, <2>2, <3>1
    <2> QED
        BY <2>3, <2>4, <2>5 DEF InPlace
<1>3. CASE ~(q[j].priority > q[j + 1].priority)
    <2>1. Swapped(q, j) = q
        BY <1>3, SwappedIs
    <2>2. ASSUME NEW a \in 1..j + 1 PROVE q[a].priority <= q[j + 1].priority
        <3>1. a \in 1..Len(q) /\ (a = j + 1 \/ a \in 1..j)
            BY <1>1
        <3> QED
            BY <1>1, <1>3, <3>1
    <2> QED
        BY <2>1, <2>2
<1> QED
    BY <1>2, <1>3

LEMMA PassPlaces ==
    ASSUME NEW s \in Seq(Stages), NEW k \in 0..(Len(s) - 1), InPlace(s, k + 1)
    PROVE  /\ Pass(s, k) \in Seq(Stages) /\ Len(Pass(s, k)) = Len(s)
           /\ InPlace(Pass(s, k), k)
<1> DEFINE n == Len(s)
           V == [1..n -> Stages]
<1>1. s \in V /\ n \in Nat /\ \A q \in V : q \in Seq(Stages) /\ Len(q) = n
    OBVIOUS
<1>2. ASSUME NEW q \in V, NEW j \in 1..(n - 1) PROVE Swapped(q, j) \in V
    <2> HIDE DEF V, n
    <2>1. q \in Seq(Stages) /\ Len(q) = n /\ j \in 1..(Len(q) - 1)
        BY <1>1
    <2>2. Swapping(q, j) \in Seq(Stages) /\ Len(Swapping(q, j)) = n
        BY <2>1, SwappingIs
    <2>3. Swapped(q, j) = Swapping(q, j) \/ Swapped(q, j) = q
        BY <2>1, SwappedIs
    <2>4. Swapping(q, j) \in V
        BY <2>2 DEF V
    <2> QED
        BY <2>3, <2>4
<1>3. PICK f : PassesBy(f, s, k, V)
    <2>1. V \subseteq [1..n -> Stages]
        OBVIOUS
    <2> HIDE DEF V
    <2> QED
        BY <1>1, <1>2, <2>1, PassLoop
<1> HIDE DEF V, n
<1> DEFINE N == {j \in Nat : j <= k => /\ InPlace(f[j], k + 1)
                                       /\ \A a \in 1..j + 1 : f[j][a].priority <= f[j][j + 1].priority}
<1>4. 0 \in N
    <2>1. s[1].priority <= s[1].priority
        <3>1. 1 \in 1..Len(s)
            OBVIOUS
        <3> QED
            BY <3>1, MediaAssumption
    <2> QED
        BY <1>3, <2>1 DEF PassesBy
<1>5. ASSUME NEW i \in N PROVE i + 1 \in N
    <2>1. i \in Nat /\ (i <= k => /\ InPlace(f[i], k + 1)
                                  /\ \A a \in 1..i + 1 : f[i][a].priority <= f[i][i + 1].priority)
        BY <1>5
    <2> HIDE DEF N
    <2> SUFFICES ASSUME i + 1 <= k
                 PROVE  /\ InPlace(f[i + 1], k + 1)
                        /\ \A a \in 1..(i + 1) + 1 : f[i + 1][a].priority <= f[i + 1][(i + 1) + 1].priority
        BY <2>1 DEF N
    <2>2. PICK j : j = i + 1
        OBVIOUS
    <2>3. j \in 1..k /\ j - 1 = i /\ j - 1 \in 0..k /\ i <= k /\ k + 1 \in Nat /\ j < k + 1
        BY <2>1, <2>2
    <2>4. PICK q : q = f[i]
        OBVIOUS
    <2>5. q \in V /\ f[j] = Swapped(q, j)
        BY <1>3, <2>3, <2>4 DEF PassesBy
    <2>6. q \in Seq(Stages) /\ Len(q) = n /\ j \in 1..(Len(q) - 1)
        BY <1>1, <2>3, <2>5 DEF n
    <2>7. InPlace(q, k + 1) /\ \A a \in 1..j : q[a].priority <= q[j].priority
        BY <2>1, <2>2, <2>3, <2>4
    <2>8. /\ InPlace(Swapped(q, j), k + 1)
          /\ \A a \in 1..j + 1 : Swapped(q, j)[a].priority <= Swapped(q, j)[j + 1].priority
        BY <2>3, <2>6, <2>7, SwappedInPlace
    <2> QED
        BY <2>2, <2>5, <2>8
<1>6. N = Nat
    <2>1. N \subseteq Nat
        OBVIOUS
    <2> HIDE DEF N
    <2> QED
        BY <1>4, <1>5, <2>1, SetInduction
<1>7. PICK q : q = Pass(s, k)
    OBVIOUS
<1>8. q = f[k] /\ k \in 0..k /\ k \in Nat
    BY <1>3, <1>7 DEF PassesBy
<1>9. InPlace(q, k + 1) /\ \A a \in 1..k + 1 : q[a].priority <= q[k + 1].priority
    <2>1. k \in N
        BY <1>6, <1>8
    <2> QED
        BY <1>8, <2>1
<1>10. q \in Seq(Stages) /\ Len(q) = n
    BY <1>1, <1>3, <1>8 DEF PassesBy
<1>11. InPlace(q, k)
    <2> SUFFICES ASSUME NEW b \in 1..Len(q), b > k, NEW a \in 1..b PROVE q[a].priority <= q[b].priority
        BY DEF InPlace
    <2>1. b = k + 1 \/ b > k + 1
        BY <1>8
    <2> QED
        BY <1>9, <2>1 DEF InPlace
<1> QED
    BY <1>7, <1>10, <1>11 DEF n

LEMMA SortOrders ==
    ASSUME NEW s \in Seq(Stages)
    PROVE  ByPriority(SortStages(s))
<1> DEFINE n == Len(s)
           V == [1..n -> Stages]
<1>1. s \in V /\ n \in Nat /\ \A q \in V : q \in Seq(Stages) /\ Len(q) = n
    OBVIOUS
<1>2. ASSUME NEW q \in V, NEW j \in 1..(n - 1) PROVE Swapped(q, j) \in V
    <2> HIDE DEF V, n
    <2>1. q \in Seq(Stages) /\ Len(q) = n /\ j \in 1..(Len(q) - 1)
        BY <1>1
    <2>2. Swapping(q, j) \in Seq(Stages) /\ Len(Swapping(q, j)) = n
        BY <2>1, SwappingIs
    <2>3. Swapped(q, j) = Swapping(q, j) \/ Swapped(q, j) = q
        BY <2>1, SwappedIs
    <2>4. Swapping(q, j) \in V
        BY <2>2 DEF V
    <2> QED
        BY <2>3, <2>4
<1>3. PICK f : SortsBy(f, s, V)
    <2>1. V \subseteq [1..n -> Stages]
        OBVIOUS
    <2> HIDE DEF V
    <2> QED
        BY <1>1, <1>2, <2>1, SortLoop
<1> HIDE DEF V
<1>4. /\ f[0] = s /\ \A i \in 1..(n - 1) : f[i] = Pass(f[i - 1], n - i)
      /\ n # 0 => f[n] = f[n - 1]
      /\ \A i \in 0..n : f[i] \in V
      /\ SortStages(s) = f[n]
    BY <1>3 DEF SortsBy
<1> HIDE DEF n
<1> DEFINE N == {i \in Nat : i <= n - 1 => InPlace(f[i], n - i)}
<1>5. 0 \in N
    <2>1. InPlace(s, n)
        BY <1>1 DEF InPlace
    <2> QED
        BY <1>1, <1>4, <2>1
<1>6. ASSUME NEW h \in N PROVE h + 1 \in N
    <2>1. h \in Nat /\ (h <= n - 1 => InPlace(f[h], n - h))
        BY <1>6
    <2> HIDE DEF N
    <2> SUFFICES ASSUME h + 1 <= n - 1 PROVE InPlace(f[h + 1], n - (h + 1))
        BY <2>1 DEF N
    <2>2. PICK k \in 0..(n - 1) : k = n - (h + 1)
        BY <1>1, <2>1
    <2>3. k + 1 = n - h /\ h <= n - 1 /\ h + 1 \in 1..(n - 1) /\ (h + 1) - 1 = h /\ h \in 0..n
        BY <1>1, <2>1, <2>2
    <2>4. PICK q : q = f[h]
        OBVIOUS
    <2>5. q \in Seq(Stages) /\ Len(q) = n /\ InPlace(q, k + 1)
        BY <1>1, <1>4, <2>1, <2>3, <2>4
    <2>6. f[h + 1] = Pass(q, k)
        BY <1>4, <2>2, <2>3, <2>4
    <2>7. InPlace(Pass(q, k), k)
        BY <2>5, PassPlaces
    <2> QED
        BY <2>2, <2>6, <2>7
<1>7. N = Nat
    <2>1. N \subseteq Nat
        OBVIOUS
    <2> HIDE DEF N
    <2> QED
        BY <1>5, <1>6, <2>1, SetInduction
<1>8. PICK q : q = SortStages(s)
    OBVIOUS
<1>9. q \in V /\ q \in Seq(Stages) /\ Len(q) = n /\ q = f[n]
    <2>1. n \in 0..n
        BY <1>1
    <2> QED
        BY <1>1, <1>4, <1>8, <2>1
<1>10. n # 0 => InPlace(q, 1)
    <2> SUFFICES ASSUME n # 0 PROVE InPlace(q, 1)
        OBVIOUS
    <2>1. PICK m \in Nat : m = n - 1
        BY <1>1
    <2>2. m \in N /\ n - m = 1 /\ m <= n - 1
        BY <1>1, <1>7, <2>1
    <2>3. InPlace(f[m], n - m)
        BY <2>2
    <2> QED
        BY <1>4, <1>9, <2>1, <2>2, <2>3
<1>11. ASSUME NEW i \in 1..Len(q), NEW j \in 1..Len(q), i <= j PROVE q[i].priority <= q[j].priority
    <2>1. n # 0 /\ i \in 1..j /\ (j > 1 \/ j = 1)
        BY <1>1, <1>9, <1>11
    <2>2. CASE j > 1
        BY <1>10, <1>11, <2>1, <2>2 DEF InPlace
    <2>3. CASE j = 1
        <3>1. i = j /\ q[j] \in Stages
            BY <1>9, <1>11, <2>3
        <3>2. q[j].priority \in Nat
            BY <3>1, MediaAssumption
        <3> QED
            BY <3>1, <3>2
    <2> QED
        BY <2>1, <2>2, <2>3
<1> QED
    BY <1>8, <1>11 DEF ByPriority

LEMMA OtherStagesAreStages ==
    ASSUME NEW s \in Seq(Stages), NEW kept, NEW name
    PROVE  StagesIn(s, kept) \in Seq(Stages) /\ OtherStages(s, name) \in Seq(Stages)
<1>1. ASSUME NEW k PROVE StagesIn(s, k) \in Seq(Stages)
    <2>1. PICK f : KeepsStages(f, s, k)
        BY StagesInLoop
    <2>2. Len(s) \in 0..Len(s)
        OBVIOUS
    <2> QED
        BY <2>1, <2>2 DEF KeepsStages
<1> QED
    BY <1>1 DEF OtherStages

(* A stage changes a frame, never its number, or fails.                     *)
Outcomes(n) == {<<>>} \cup {<<f>> : f \in {g \in Frame : g.packet = n}}

LEMMA StageResults ==
    ASSUME NEW stage \in Stages, NEW f \in Frame
    PROVE  Results(stage, f) \subseteq Outcomes(f.packet)
<1>1. stage.does \in {"pass", "transcode", "custom"}
    BY MediaAssumption
<1>2. f \in {g \in Frame : g.packet = f.packet}
    OBVIOUS
<1>3. TranscodingProcess(f) \in {g \in Frame : g.packet = f.packet}
    BY DEF TranscodingProcess, Frame
<1>4. CASE stage.does = "pass"
    BY <1>2, <1>4 DEF Results, Outcomes, PassthroughProcess
<1>5. CASE stage.does = "transcode"
    BY <1>3, <1>5 DEF Results, Outcomes
<1>6. CASE stage.does = "custom"
    BY <1>2, <1>6 DEF Results, Outcomes
<1> QED
    BY <1>1, <1>4, <1>5, <1>6

LEMMA StagesKeepNumber ==
    ASSUME NEW snapshot \in Seq(Stages), NEW frame \in Frame
    PROVE  ProcessThroughStages(snapshot, frame) \subseteq Outcomes(frame.packet)
<1> DEFINE n == Len(snapshot)
           V == SUBSET Outcomes(frame.packet)
           Goes(q, i) == UNION {IF f = <<>> THEN {<<>>} ELSE Results(snapshot[i], f[1]) : f \in q}
           Loop(f) == [i \in 0..n |-> IF i = 0 THEN {<<frame>>} ELSE Goes(f[i - 1], i)]
           G == [p \in Nat \X V |-> IF p[1] \in 1..n THEN Goes(p[2], p[1]) ELSE p[2]]
           after == CHOOSE f : f = Loop(f)
<1>1. ProcessThroughStages(snapshot, frame) = after[n]
    BY DEF ProcessThroughStages
<1>2. n \in Nat /\ {<<frame>>} \in V
    BY DEF Outcomes
<1>3. ASSUME NEW q \in V, NEW j \in 1..n PROVE Goes(q, j) \in V
    <2>1. ASSUME NEW f \in q, f # <<>> PROVE Results(snapshot[j], f[1]) \subseteq Outcomes(frame.packet)
        <3>1. f[1] \in Frame /\ f[1].packet = frame.packet
            BY <2>1 DEF Outcomes
        <3>2. snapshot[j] \in Stages
            OBVIOUS
        <3> QED
            BY <3>1, <3>2, StageResults
    <2>2. <<>> \in Outcomes(frame.packet)
        BY DEF Outcomes
    <2> QED
        BY <2>1, <2>2
<1>4. \E f : f = Loop(f)
    <2>1. G \in StepFunctions(V)
        <3>1. \A p \in Nat \X V : p[2] \in V
            OBVIOUS
        <3> HIDE DEF V, Goes
        <3> QED
            BY <1>3, <3>1 DEF StepFunctions
    <2>2. PICK f : Follows(f, V, {<<frame>>}, G, n)
        <3> HIDE DEF G, V, n
        <3> QED
            BY <1>2, <2>1, RecursionExists
    <2>3. ASSUME NEW i \in 1..n
          PROVE  f[i] = Goes(f[i - 1], i)
        <3> HIDE DEF V, Goes
        <3>1. i \in Nat /\ i - 1 \in 0..n /\ f[i - 1] \in V
            BY <1>2, <2>2 DEF Follows
        <3> QED
            BY <2>2, <3>1 DEF Follows
    <2>4. f[0] = {<<frame>>} /\ f = [i \in 0..n |-> f[i]] /\ \A i \in 0..n : i # 0 => i \in 1..n
        BY <1>2, <2>2 DEF Follows
    <2> HIDE DEF n, Goes
    <2> QED
        BY <2>3, <2>4
<1>5. after = Loop(after)
    BY <1>4
<1> HIDE DEF after
<1>6. after[0] \in V /\ \A i \in 1..n : after[i - 1] \in V => after[i] \in V
    <2>1. 0 \in 0..n /\ \A i \in 1..n : i \in 0..n /\ i # 0
        BY <1>2
    <2>2. Loop(after)[0] = {<<frame>>} /\ \A i \in 1..n : Loop(after)[i] = Goes(after[i - 1], i)
        <3> HIDE DEF Goes
        <3> QED
            BY <2>1
    <2> HIDE DEF Loop, V, Goes
    <2> QED
        BY <1>2, <1>3, <1>5, <2>2
<1>7. \A i \in 0..n : after[i] \in V
    <2> HIDE DEF V, n
    <2> QED
        BY <1>2, <1>6, LoopStays
<1> QED
    BY <1>1, <1>2, <1>7

(* The numbers of frames, and their order.                                  *)
Numbers(s) == {s[j].packet : j \in 1..Len(s)}

Ascending(s) == \A j, k \in 1..Len(s) : j < k => s[j].packet < s[k].packet

Before(A, B) == \A x \in A, y \in B : x < y

LEMMA DequeueInOrder ==
    ASSUME NEW s \in Seq(Frame), s # <<>>, Ascending(s)
    PROVE  /\ Dequeue(s) \in Seq(Frame) /\ Head(s) \in Frame /\ Ascending(Dequeue(s))
           /\ Numbers(Dequeue(s)) \subseteq Numbers(s) /\ Head(s).packet \in Numbers(s)
           /\ Before({Head(s).packet}, Numbers(Dequeue(s)))
<1> DEFINE t == Tail(s)
<1>1. /\ Len(s) \in Nat /\ Len(s) > 0 /\ Len(t) = Len(s) - 1 /\ Head(s) = s[1] /\ Head(s) \in Frame
      /\ t \in Seq(Frame) /\ \A j \in 1..Len(t) : t[j] = s[j + 1] /\ j + 1 \in 1..Len(s)
    OBVIOUS
<1> HIDE DEF t
<1>2. Ascending(t)
    <2> SUFFICES ASSUME NEW j \in 1..Len(t), NEW k \in 1..Len(t), j < k
                 PROVE  t[j].packet < t[k].packet
        BY DEF Ascending
    <2>1. j + 1 \in 1..Len(s) /\ k + 1 \in 1..Len(s) /\ j + 1 < k + 1
        BY <1>1
    <2> QED
        BY <1>1, <2>1 DEF Ascending
<1>3. Numbers(t) \subseteq Numbers(s)
    BY <1>1 DEF Numbers
<1>4. 1 \in 1..Len(s) /\ Head(s).packet \in Numbers(s)
    BY <1>1 DEF Numbers
<1>5. Before({Head(s).packet}, Numbers(t))
    <2> SUFFICES ASSUME NEW j \in 1..Len(t) PROVE Head(s).packet < t[j].packet
        BY DEF Before, Numbers
    <2>1. j + 1 \in 1..Len(s) /\ 1 < j + 1
        BY <1>1
    <2> QED
        BY <1>1, <1>4, <2>1 DEF Ascending
<1> QED
    BY <1>1, <1>2, <1>3, <1>4, <1>5 DEF Dequeue, t

LEMMA AppendInOrder ==
    ASSUME NEW s \in Seq(Frame), NEW d \in Frame, Ascending(s), Before(Numbers(s), {d.packet})
    PROVE  /\ Append(s, d) \in Seq(Frame) /\ Ascending(Append(s, d))
           /\ Numbers(Append(s, d)) \subseteq Numbers(s) \cup {d.packet}
<1> DEFINE t == Append(s, d)
<1>1. /\ Len(s) \in Nat /\ t \in Seq(Frame) /\ Len(t) = Len(s) + 1
      /\ t[Len(s) + 1] = d /\ \A j \in 1..Len(s) : t[j] = s[j]
      /\ \A j \in 1..Len(t) : j \in 1..Len(s) \/ j = Len(s) + 1
    OBVIOUS
<1> HIDE DEF t
<1>2. Numbers(t) \subseteq Numbers(s) \cup {d.packet}
    BY <1>1 DEF Numbers
<1>3. Ascending(t)
    <2> SUFFICES ASSUME NEW j \in 1..Len(t), NEW k \in 1..Len(t), j < k
                 PROVE  t[j].packet < t[k].packet
        BY DEF Ascending
    <2>1. j \in 1..Len(s)
        BY <1>1
    <2>2. CASE k \in 1..Len(s)
        BY <1>1, <2>1, <2>2 DEF Ascending
    <2>3. CASE k = Len(s) + 1
        <3>1. s[j].packet \in Numbers(s)
            BY <2>1 DEF Numbers
        <3> QED
            BY <1>1, <2>1, <2>3, <3>1 DEF Before
    <2> QED
        BY <1>1, <2>2, <2>3
<1> QED
    BY <1>1, <1>2, <1>3 DEF t

LEMMA EnqueueInOrder ==
    ASSUME NEW s \in Seq(Frame), NEW d \in Frame, Ascending(s), Before(Numbers(s), {d.packet})
    PROVE  /\ Enqueue(s, d) \in Seq(Frame) /\ Ascending(Enqueue(s, d))
           /\ Numbers(Enqueue(s, d)) \subseteq Numbers(s) \cup {d.packet}
<1>1. CASE Len(s) < BufferSize
    BY <1>1, AppendInOrder DEF Enqueue
<1>2. CASE ~(Len(s) < BufferSize)
    <2>1. s # <<>>
        BY <1>2, MediaAssumption
    <2>2. /\ Tail(s) \in Seq(Frame) /\ Ascending(Tail(s)) /\ Numbers(Tail(s)) \subseteq Numbers(s)
        BY <2>1, DequeueInOrder DEF Dequeue
    <2>3. Before(Numbers(Tail(s)), {d.packet})
        BY <2>2 DEF Before
    <2>4. Enqueue(s, d) = Append(Tail(s), d)
        BY <1>2 DEF Enqueue, CreateBuffer
    <2> QED
        BY <2>2, <2>3, <2>4, AppendInOrder
<1> QED
    BY <1>1, <1>2

(* What holds of a track pipeline: wg counts the goroutines that run, a     *)
(* frame is held while it goes through the stages, and the frames are in    *)
(* the order they arrived, of which n did.                                  *)
Counted(p) ==
    p.wg = (IF p.receiver \in {"looks", "reading"} THEN 1 ELSE 0)
              + (IF p.looper = "done" THEN 0 ELSE 1)

HoldsFrame(p) ==
    IF p.looper = "working" THEN \E f \in Frame : p.frame = <<f>> ELSE p.frame = <<>>

Ordered(p, n) ==
    /\ Ascending(p.output) /\ Ascending(p.input)
    /\ Before(Numbers(p.output), Numbers(p.frame)) /\ Before(Numbers(p.frame), Numbers(p.input))
    /\ Before(Numbers(p.output), Numbers(p.input))
    /\ Numbers(p.output) \subseteq 1..n /\ Numbers(p.frame) \subseteq 1..n
    /\ Numbers(p.input) \subseteq 1..n

Good(p, n) == p \in TrackPipeline /\ Counted(p) /\ HoldsFrame(p) /\ Ordered(p, n)

LEMMA NoNumbers == Numbers(<<>>) = {} /\ Ascending(<<>>)
  BY DEF Numbers, Ascending

LEMMA OneNumber ==
    ASSUME NEW f
    PROVE  Numbers(<<f>>) = {f.packet} /\ Ascending(<<f>>)
  BY DEF Numbers, Ascending

LEMMA GoodStarts ==
    ASSUME NEW t \in Media, NEW n \in Nat
    PROVE  LET p == StartMediaReceiver(NewTrackPipeline(t)) IN
           Good(p, n) /\ p.track = t /\ p.wg # 0
<1> DEFINE new == NewTrackPipeline(t)
           p == StartMediaReceiver(new)
<1>1. /\ new \in TrackPipeline /\ new.track = t /\ new.wg = 1 /\ new.receiver = "none" /\ new.looper = "running"
      /\ new.input = <<>> /\ new.output = <<>> /\ new.frame = <<>>
    BY DEF NewTrackPipeline, TrackPipeline, CreateBuffer
<1> HIDE DEF new
<1>2. MediaKind[t] \in {"audio", "video", "other"}
    BY MediaAssumption
<1>3. /\ p \in TrackPipeline /\ Counted(p) /\ p.wg # 0
      /\ p.looper = "running" /\ p.track = t
      /\ p.input = <<>> /\ p.output = <<>> /\ p.frame = <<>>
    <2>1. CASE MediaKind[t] = "audio"
        <3>1. p = [new EXCEPT !.wg = 2, !.receiver = "looks"]
            BY <1>1, <2>1 DEF StartMediaReceiver
        <3> HIDE DEF p
        <3>2. 2 \in 0..2 /\ "looks" \in {"none", "looks", "reading", "done"}
            OBVIOUS
        <3>3. p \in TrackPipeline
            BY <1>1, <3>1, <3>2 DEF TrackPipeline
        <3>4. /\ p.wg = 2 /\ p.receiver = "looks" /\ p.looper = "running"
              /\ p.track = t /\ p.input = <<>> /\ p.output = <<>> /\ p.frame = <<>>
            BY <1>1, <3>1 DEF TrackPipeline
        <3> QED
            BY <3>3, <3>4 DEF Counted
    <2>2. CASE MediaKind[t] = "video"
        <3>1. p = new
            BY <1>1, <2>2 DEF StartMediaReceiver
        <3> QED
            BY <1>1, <3>1 DEF Counted
    <2>3. CASE MediaKind[t] = "other"
        <3>1. p = [new EXCEPT !.cancelled = TRUE]
            BY <1>1, <2>3 DEF StartMediaReceiver
        <3> HIDE DEF p
        <3>2. /\ p \in TrackPipeline /\ p.wg = 1 /\ p.receiver = "none" /\ p.looper = "running"
              /\ p.track = t /\ p.input = <<>> /\ p.output = <<>> /\ p.frame = <<>>
            BY <1>1, <3>1 DEF TrackPipeline
        <3> QED
            BY <3>2 DEF Counted
    <2> QED
        BY <1>2, <2>1, <2>2, <2>3
<1> HIDE DEF p
<1>4. Ordered(p, n)
    BY <1>3, NoNumbers DEF Ordered, Before
<1>5. HoldsFrame(p)
    BY <1>3 DEF HoldsFrame
<1> QED
    BY <1>3, <1>4, <1>5 DEF Good, p, new

LEMMA GoodLater ==
    ASSUME NEW p, NEW n \in Nat, Good(p, n)
    PROVE  Good(p, n + 1)
<1>1. 1..n \subseteq 1..(n + 1)
    OBVIOUS
<1> QED
    BY <1>1 DEF Good, Ordered

(* The steps that leave the frames alone.                                   *)
SameFrames(p, q) ==
    q.input = p.input /\ q.output = p.output /\ q.frame = p.frame /\ q.track = p.track

LEMMA GoodGoroutines ==
    ASSUME NEW p, NEW n, Good(p, n), NEW q \in TrackPipeline, SameFrames(p, q), Counted(q),
           q.looper = "working" <=> p.looper = "working"
    PROVE  Good(q, n)
  BY DEF Good, Ordered, HoldsFrame, SameFrames

LEMMA GoodCancelled ==
    ASSUME NEW p, NEW n, Good(p, n)
    PROVE  LET q == [p EXCEPT !.cancelled = TRUE] IN
           Good(q, n) /\ q.track = p.track /\ q.wg = p.wg
<1> DEFINE q == [p EXCEPT !.cancelled = TRUE]
<1>1. p \in TrackPipeline /\ Counted(p)
    BY DEF Good
<1>2. q \in TrackPipeline /\ SameFrames(p, q) /\ q.wg = p.wg /\ q.looper = p.looper /\ q.receiver = p.receiver
    BY <1>1 DEF TrackPipeline, SameFrames
<1> HIDE DEF q
<1>3. Counted(q)
    BY <1>1, <1>2 DEF Counted
<1>4. Good(q, n)
    BY <1>2, <1>3, GoodGoroutines
<1> QED
    BY <1>2, <1>4 DEF SameFrames, q

LEMMA GoodReading ==
    ASSUME NEW p, NEW n, Good(p, n), p.receiver = "looks"
    PROVE  LET q == [p EXCEPT !.receiver = "reading"] IN
           Good(q, n) /\ q.track = p.track /\ p.wg # 0
<1> DEFINE q == [p EXCEPT !.receiver = "reading"]
<1>1. p \in TrackPipeline /\ Counted(p)
    BY DEF Good
<1>2. q \in TrackPipeline /\ SameFrames(p, q) /\ q.wg = p.wg /\ q.looper = p.looper /\ q.receiver = "reading"
    BY <1>1 DEF TrackPipeline, SameFrames
<1> HIDE DEF q
<1>3. Counted(q) /\ p.wg # 0
    BY <1>1, <1>2 DEF Counted
<1>4. Good(q, n)
    BY <1>2, <1>3, GoodGoroutines
<1> QED
    BY <1>2, <1>3, <1>4 DEF SameFrames, q

LEMMA GoodReceiverDone ==
    ASSUME NEW p, NEW n, Good(p, n), p.receiver \in {"looks", "reading"}
    PROVE  Good(ReceiverDone(p), n) /\ ReceiverDone(p).track = p.track /\ p.wg # 0
<1> DEFINE q == ReceiverDone(p)
<1>1. p \in TrackPipeline /\ Counted(p)
    BY DEF Good
<1>2. p.wg - 1 \in 0..2 /\ p.wg # 0
    BY <1>1 DEF Counted
<1>3. q \in TrackPipeline /\ SameFrames(p, q) /\ q.wg = p.wg - 1 /\ q.looper = p.looper /\ q.receiver = "done"
    BY <1>1, <1>2 DEF TrackPipeline, SameFrames, ReceiverDone
<1> HIDE DEF q
<1>4. Counted(q)
    BY <1>1, <1>3 DEF Counted
<1>5. Good(q, n)
    BY <1>3, <1>4, GoodGoroutines
<1> QED
    BY <1>2, <1>3, <1>5 DEF SameFrames, q

LEMMA GoodLooperDone ==
    ASSUME NEW p, NEW n, Good(p, n), p.looper = "running"
    PROVE  LET q == [p EXCEPT !.looper = "done", !.wg = @ - 1] IN
           Good(q, n) /\ q.track = p.track /\ p.wg # 0
<1> DEFINE q == [p EXCEPT !.looper = "done", !.wg = @ - 1]
<1>1. p \in TrackPipeline /\ Counted(p)
    BY DEF Good
<1>2. p.wg - 1 \in 0..2 /\ p.wg # 0
    BY <1>1 DEF Counted
<1>3. q \in TrackPipeline /\ SameFrames(p, q) /\ q.wg = p.wg - 1 /\ q.looper = "done" /\ q.receiver = p.receiver
    BY <1>1, <1>2 DEF TrackPipeline, SameFrames
<1> HIDE DEF q
<1>4. Counted(q)
    BY <1>1, <1>3 DEF Counted
<1>5. Good(q, n)
    BY <1>3, <1>4, GoodGoroutines
<1> QED
    BY <1>2, <1>3, <1>5 DEF SameFrames, q

LEMMA GoodSkips ==
    ASSUME NEW p, NEW n \in Nat, Good(p, n), p.receiver = "reading"
    PROVE  LET q == [p EXCEPT !.receiver = "looks"] IN
           Good(q, n + 1) /\ q.track = p.track /\ p.wg # 0
<1> DEFINE q == [p EXCEPT !.receiver = "looks"]
<1>1. p \in TrackPipeline /\ Counted(p)
    BY DEF Good
<1>2. q \in TrackPipeline /\ SameFrames(p, q) /\ q.wg = p.wg /\ q.looper = p.looper /\ q.receiver = "looks"
    BY <1>1 DEF TrackPipeline, SameFrames
<1> HIDE DEF q
<1>3. Counted(q) /\ p.wg # 0
    BY <1>1, <1>2 DEF Counted
<1>4. Good(q, n)
    BY <1>2, <1>3, GoodGoroutines
<1> QED
    BY <1>2, <1>3, <1>4, GoodLater DEF SameFrames, q

(* A packet that arrives comes after all that did.                          *)
LEMMA GoodReceives ==
    ASSUME NEW p, NEW n \in Nat, Good(p, n), p.receiver = "reading", n + 1 \in 1..MaxPackets,
           NEW q, q = [[p EXCEPT !.receiver = "looks"] EXCEPT !.input =
                          Enqueue(@, [packet |-> n + 1, transcoded |-> FALSE])]
    PROVE  Good(q, n + 1) /\ q.track = p.track /\ p.wg # 0
<1> DEFINE d == [packet |-> n + 1, transcoded |-> FALSE]
           into == Enqueue(p.input, d)
<1>1. p \in TrackPipeline /\ Counted(p) /\ HoldsFrame(p) /\ Ordered(p, n)
    BY DEF Good
<1>2. d \in Frame /\ d.packet = n + 1
    BY DEF Frame
<1>3. p.input \in Seq(Frame) /\ p.output \in Seq(Frame)
    BY <1>1 DEF TrackPipeline
<1>4. Before(Numbers(p.input), {n + 1}) /\ Before(Numbers(p.frame), {n + 1}) /\ Before(Numbers(p.output), {n + 1})
    BY <1>1 DEF Ordered, Before
<1>5. /\ into \in Seq(Frame) /\ Ascending(into) /\ Numbers(into) \subseteq Numbers(p.input) \cup {n + 1}
    <2> HIDE DEF d
    <2> QED
        BY <1>1, <1>2, <1>3, <1>4, EnqueueInOrder DEF Ordered
<1>6. q = [p EXCEPT !.receiver = "looks", !.input = into]
    BY <1>1 DEF TrackPipeline
<1> HIDE DEF into
<1>7. q \in TrackPipeline
    BY <1>1, <1>5, <1>6 DEF TrackPipeline
<1>8. /\ q.wg = p.wg /\ q.looper = p.looper /\ q.receiver = "looks" /\ q.track = p.track
      /\ q.input = into /\ q.output = p.output /\ q.frame = p.frame
    BY <1>1, <1>6 DEF TrackPipeline
<1>9. Counted(q) /\ HoldsFrame(q) /\ p.wg # 0
    BY <1>1, <1>8 DEF Counted, HoldsFrame
<1>10. Ordered(q, n + 1)
    <2>1. 1..n \subseteq 1..(n + 1) /\ n + 1 \in 1..(n + 1)
        OBVIOUS
    <2>2. /\ Numbers(p.output) \subseteq 1..(n + 1) /\ Numbers(p.frame) \subseteq 1..(n + 1)
          /\ Numbers(into) \subseteq 1..(n + 1)
        BY <1>1, <1>5, <2>1 DEF Ordered
    <2>3. Before(Numbers(p.frame), Numbers(into)) /\ Before(Numbers(p.output), Numbers(into))
        BY <1>1, <1>4, <1>5 DEF Ordered, Before
    <2> QED
        BY <1>1, <1>5, <1>8, <2>2, <2>3 DEF Ordered
<1> QED
    BY <1>7, <1>8, <1>9, <1>10 DEF Good

(* The frame that goes into the stages was the first of the input.          *)
Taken(p) ==
    [p EXCEPT !.looper = "working", !.frame = <<Head(p.input)>>, !.snapshot = stages,
              !.input = Dequeue(@)]

LEMMA GoodTakes ==
    ASSUME NEW p, NEW n, Good(p, n), p.looper = "running", p.input # <<>>, stages \in Seq(Stages)
    PROVE  Good(Taken(p), n) /\ Taken(p).track = p.track /\ p.wg # 0
<1> DEFINE q == Taken(p)
           f == Head(p.input)
           rest == Dequeue(p.input)
<1>1. p \in TrackPipeline /\ Counted(p) /\ HoldsFrame(p) /\ Ordered(p, n)
    BY DEF Good
<1>2. /\ f \in Frame /\ rest \in Seq(Frame) /\ Ascending(rest)
      /\ Numbers(rest) \subseteq Numbers(p.input) /\ f.packet \in Numbers(p.input)
      /\ Before({f.packet}, Numbers(rest))
    <2>1. p.input \in Seq(Frame)
        BY <1>1 DEF TrackPipeline
    <2> QED
        BY <1>1, <2>1, DequeueInOrder DEF Ordered
<1>3. <<f>> \in Seq(Frame) /\ Numbers(<<f>>) = {f.packet}
    BY <1>2, OneNumber
<1>4. q = [p EXCEPT !.looper = "working", !.frame = <<f>>, !.snapshot = stages, !.input = rest]
    BY DEF Taken
<1> HIDE DEF f, rest, q
<1>5. q \in TrackPipeline
    BY <1>1, <1>2, <1>3, <1>4 DEF TrackPipeline
<1>6. /\ q.wg = p.wg /\ q.looper = "working" /\ q.receiver = p.receiver /\ q.track = p.track
      /\ q.input = rest /\ q.output = p.output /\ q.frame = <<f>>
    BY <1>1, <1>4 DEF TrackPipeline
<1>7. Counted(q) /\ p.wg # 0
    BY <1>1, <1>6 DEF Counted
<1>8. HoldsFrame(q)
    BY <1>2, <1>6 DEF HoldsFrame
<1>9. Ordered(q, n)
    <2>1. Before(Numbers(p.output), {f.packet}) /\ Before(Numbers(p.output), Numbers(rest))
        BY <1>1, <1>2 DEF Ordered, Before
    <2>2. {f.packet} \subseteq 1..n /\ Numbers(rest) \subseteq 1..n
        BY <1>1, <1>2 DEF Ordered
    <2> QED
        BY <1>1, <1>2, <1>3, <1>6, <2>1, <2>2 DEF Ordered
<1> QED
    BY <1>5, <1>6, <1>7, <1>8, <1>9 DEF Good, q

(* It leaves them with its number, or not at all.                           *)
Finished(p, result) ==
    [UpdateStats(p, result = <<>>) EXCEPT
        !.looper = "running", !.frame = <<>>, !.snapshot = <<>>,
        !.output = IF result = <<>> THEN @ ELSE Enqueue(@, result[1])]

LEMMA GoodFinishes ==
    ASSUME NEW p, NEW n, Good(p, n), p.looper = "working",
           NEW result, result \in ProcessThroughStages(p.snapshot, p.frame[1])
    PROVE  Good(Finished(p, result), n) /\ Finished(p, result).track = p.track /\ p.wg # 0
<1> DEFINE q == Finished(p, result)
           counted == UpdateStats(p, result = <<>>)
           out == IF result = <<>> THEN p.output ELSE Enqueue(p.output, result[1])
<1>1. p \in TrackPipeline /\ Counted(p) /\ HoldsFrame(p) /\ Ordered(p, n)
    BY DEF Good
<1>2. PICK f \in Frame : p.frame = <<f>>
    BY <1>1 DEF HoldsFrame
<1>3. result \in Outcomes(f.packet)
    <2>1. p.snapshot \in Seq(Stages) /\ p.frame[1] = f
        BY <1>1, <1>2 DEF TrackPipeline
    <2> QED
        BY <2>1, StagesKeepNumber
<1>4. Before(Numbers(p.output), {f.packet}) /\ Before({f.packet}, Numbers(p.input)) /\ {f.packet} \subseteq 1..n
    BY <1>1, <1>2, OneNumber DEF Ordered
<1>5. /\ out \in Seq(Frame) /\ Ascending(out) /\ Numbers(out) \subseteq Numbers(p.output) \cup {f.packet}
    <2>1. p.output \in Seq(Frame) /\ Ascending(p.output)
        BY <1>1 DEF TrackPipeline, Ordered
    <2>2. CASE result = <<>>
        BY <2>1, <2>2
    <2>3. CASE result # <<>>
        <3>1. result[1] \in Frame /\ result[1].packet = f.packet
            BY <1>3, <2>3 DEF Outcomes
        <3> QED
            BY <1>4, <2>1, <2>3, <3>1, EnqueueInOrder
    <2> QED
        BY <2>2, <2>3
<1>6. /\ counted \in TrackPipeline
      /\ counted.wg = p.wg /\ counted.looper = p.looper /\ counted.receiver = p.receiver
      /\ counted.track = p.track
      /\ counted.input = p.input /\ counted.output = p.output
    <2>1. p.dropped + 1 \in Nat /\ p.processed + 1 \in Nat
        BY <1>1 DEF TrackPipeline
    <2> QED
        BY <1>1, <2>1 DEF TrackPipeline, UpdateStats
<1>7. q = [counted EXCEPT !.looper = "running", !.frame = <<>>, !.snapshot = <<>>, !.output = out]
    BY <1>6 DEF Finished
<1> HIDE DEF counted, out, q
<1>8. q \in TrackPipeline
    <2>1. <<>> \in Seq(Frame) /\ <<>> \in Seq(Stages)
        OBVIOUS
    <2> QED
        BY <1>5, <1>6, <1>7, <2>1 DEF TrackPipeline
<1>9. /\ q.wg = p.wg /\ q.looper = "running" /\ q.receiver = p.receiver /\ q.track = p.track
      /\ q.input = p.input /\ q.output = out /\ q.frame = <<>>
    BY <1>6, <1>7 DEF TrackPipeline
<1>10. Counted(q) /\ HoldsFrame(q) /\ p.wg # 0
    BY <1>1, <1>9 DEF Counted, HoldsFrame
<1>11. Ordered(q, n)
    <2>1. Before(Numbers(out), Numbers(p.input)) /\ Numbers(out) \subseteq 1..n
        BY <1>1, <1>4, <1>5 DEF Ordered, Before
    <2> QED
        BY <1>1, <1>5, <1>9, <2>1, NoNumbers DEF Ordered, Before
<1> QED
    BY <1>8, <1>9, <1>10, <1>11 DEF Good, q

LEMMA GoodRead ==
    ASSUME NEW p, NEW n, Good(p, n), p.output # <<>>,
           NEW q, q = [p EXCEPT !.output = Dequeue(@)]
    PROVE  Good(q, n) /\ q.track = p.track /\ q.wg = p.wg
<1> DEFINE rest == Dequeue(p.output)
<1>1. p \in TrackPipeline /\ Counted(p) /\ HoldsFrame(p) /\ Ordered(p, n)
    BY DEF Good
<1>2. rest \in Seq(Frame) /\ Ascending(rest) /\ Numbers(rest) \subseteq Numbers(p.output)
    <2>1. p.output \in Seq(Frame)
        BY <1>1 DEF TrackPipeline
    <2> QED
        BY <1>1, <2>1, DequeueInOrder DEF Ordered
<1>3. q = [p EXCEPT !.output = rest]
    OBVIOUS
<1> HIDE DEF rest
<1>4. /\ q \in TrackPipeline
      /\ q.wg = p.wg /\ q.looper = p.looper /\ q.receiver = p.receiver /\ q.track = p.track
      /\ q.input = p.input /\ q.output = rest /\ q.frame = p.frame
    BY <1>1, <1>2, <1>3 DEF TrackPipeline
<1>5. Counted(q) /\ HoldsFrame(q)
    BY <1>1, <1>4 DEF Counted, HoldsFrame
<1>6. Ordered(q, n)
    <2>1. /\ Before(Numbers(rest), Numbers(p.frame)) /\ Before(Numbers(rest), Numbers(p.input))
          /\ Numbers(rest) \subseteq 1..n
        BY <1>1, <1>2 DEF Ordered, Before
    <2> QED
        BY <1>1, <1>2, <1>4, <2>1 DEF Ordered
<1> QED
    BY <1>4, <1>5, <1>6 DEF Good

(* The invariant of the pipeline: every track pipeline made is good; the    *)
(* tracked one of a track is of that track; and the one a controller stops, *)
(* or that was released, was made and is not tracked any more.              *)
StagesOK == stages \in Seq(Stages) /\ added \in Seq(Stages)

ArrivedOK == arrived \in [Media -> 0..MaxPackets] /\ sealed \in BOOLEAN /\ ended \subseteq Media

PipesOK ==
    /\ made \in 0..MaxPipelines /\ pipes \in Seq(TrackPipeline) /\ Len(pipes) = made
    /\ \A i \in Pipes : Good(pipes[i], arrived[pipes[i].track])

TrackedOK ==
    /\ DOMAIN tracked \subseteq Media
    /\ \A t \in DOMAIN tracked : tracked[t] \in Pipes /\ pipes[tracked[t]].track = t

StoppersOK ==
    /\ stopper \in [Controllers -> Stopper]
    /\ \A c \in Controllers :
          stopper[c].at \in {"cancel", "wait"}
              => /\ stopper[c].pipe \in Pipes
                 /\ \A t \in DOMAIN tracked : tracked[t] # stopper[c].pipe

ReleasedOK ==
    /\ released \subseteq Pipes
    /\ \A i \in released : pipes[i].wg = 0 /\ \A t \in DOMAIN tracked : tracked[t] # i

PipelineInv == StagesOK /\ ArrivedOK /\ PipesOK /\ TrackedOK /\ StoppersOK /\ ReleasedOK

LEMMA PipelineInvInit == PipelineInit => PipelineInv
<1> SUFFICES ASSUME PipelineInit PROVE PipelineInv
    OBVIOUS
<1> USE MediaAssumption DEF PipelineInit
<1>1. Pipes = {} /\ DOMAIN tracked = {}
    BY DEF Pipes
<1>2. StagesOK /\ PipesOK /\ TrackedOK /\ ReleasedOK
    BY <1>1 DEF StagesOK, PipesOK, TrackedOK, ReleasedOK
<1>3. ArrivedOK
    <2>1. 0 \in 0..MaxPackets
        OBVIOUS
    <2> QED
        BY <2>1 DEF ArrivedOK
<1>4. StoppersOK
    <2>1. Idle \in Stopper /\ Idle.at = "idle"
        BY DEF Idle, Stopper
    <2> HIDE DEF Idle
    <2>2. stopper \in [Controllers -> Stopper] /\ \A c \in Controllers : stopper[c] = Idle
        BY <2>1
    <2> QED
        BY <2>1, <2>2 DEF StoppersOK
<1> QED
    BY <1>2, <1>3, <1>4 DEF PipelineInv

(* One track pipeline changes.  One whose goroutines ended has none again.  *)
LEMMA OnePipeChanges ==
    ASSUME PipelineInv, NEW i \in Pipes, NEW q, pipes' = [pipes EXCEPT ![i] = q],
           UNCHANGED <<made, tracked, released>>,
           Good(q, arrived'[q.track]), q.track = pipes[i].track, pipes[i].wg = 0 => q.wg = 0,
           \A j \in Pipes \ {i} : Good(pipes[j], arrived'[pipes[j].track])
    PROVE  PipesOK' /\ TrackedOK' /\ ReleasedOK' /\ (UNCHANGED stopper => StoppersOK')
<1>1. q \in TrackPipeline /\ i \in 1..Len(pipes) /\ Pipes = 1..Len(pipes)
    BY DEF Good, PipelineInv, PipesOK, Pipes
<1>2. /\ pipes' \in Seq(TrackPipeline) /\ Len(pipes') = Len(pipes)
      /\ pipes'[i] = q /\ \A j \in Pipes \ {i} : pipes'[j] = pipes[j]
    BY <1>1 DEF PipelineInv, PipesOK
<1>3. Pipes' = Pipes
    BY DEF Pipes
<1>4. PipesOK'
    BY <1>2, <1>3 DEF PipelineInv, PipesOK
<1>5. \A j \in Pipes : pipes'[j].track = pipes[j].track /\ (pipes[j].wg = 0 => pipes'[j].wg = 0)
    BY <1>2
<1>6. TrackedOK'
    BY <1>3, <1>5 DEF PipelineInv, TrackedOK
<1>7. ReleasedOK'
    BY <1>3, <1>5 DEF PipelineInv, ReleasedOK
<1>8. UNCHANGED stopper => StoppersOK'
    BY <1>3 DEF PipelineInv, StoppersOK
<1> QED
    BY <1>4, <1>6, <1>7, <1>8

(* The steps of a goroutine of a track pipeline, and of a reader.           *)
LEMMA BecomeKeeps ==
    ASSUME PipelineInv, NEW i \in Pipes, NEW q, Become(i, q), UNCHANGED arrived,
           Good(q, arrived[pipes[i].track]), q.track = pipes[i].track, pipes[i].wg = 0 => q.wg = 0
    PROVE  PipelineInv'
<1>1. \A j \in Pipes \ {i} : Good(pipes[j], arrived'[pipes[j].track])
    BY DEF PipelineInv, PipesOK
<1>2. PipesOK' /\ TrackedOK' /\ ReleasedOK' /\ StoppersOK'
    BY <1>1, OnePipeChanges DEF Become
<1>3. StagesOK' /\ ArrivedOK'
    BY DEF PipelineInv, StagesOK, ArrivedOK, Become
<1> QED
    BY <1>2, <1>3 DEF PipelineInv

(* The steps that leave the track pipelines and the map of tracks alone.    *)
LEMMA PipesStay ==
    ASSUME PipelineInv, UNCHANGED <<made, pipes, tracked, arrived, stopper, released>>,
           StagesOK', sealed' \in BOOLEAN, ended' \subseteq Media
    PROVE  PipelineInv'
  BY DEF PipelineInv, ArrivedOK, PipesOK, Pipes, TrackedOK, StoppersOK, ReleasedOK

(* A controller goes on: it stops no track pipeline yet, or no more.        *)
LEMMA StopperMoves ==
    ASSUME StoppersOK, UNCHANGED made, DOMAIN tracked' \subseteq DOMAIN tracked,
           \A t \in DOMAIN tracked' : tracked'[t] = tracked[t],
           NEW c \in Controllers, NEW m \in Stopper, m.at \in {"idle", "lookup"},
           stopper' = [stopper EXCEPT ![c] = m]
    PROVE  StoppersOK'
  BY DEF StoppersOK, Pipes

LEMMA ProceedsAsStopper ==
    ASSUME NEW m \in Stopper
    PROVE  Proceed(m) \in Stopper /\ Proceed(m).at \in {"idle", "lookup"}
<1>1. 0 \in 0..MaxPipelines
    BY MediaAssumption
<1>2. CASE m.todo = {}
    BY <1>1, <1>2 DEF Proceed, Idle, Stopper
<1>3. CASE m.todo # {}
    <2>1. Proceed(m) = [m EXCEPT !.at = "lookup", !.pipe = 0]
        BY <1>3 DEF Proceed
    <2> QED
        BY <1>1, <2>1 DEF Stopper
<1> QED
    BY <1>2, <1>3

LEMMA StartKeeps ==
    ASSUME PipelineInv, NEW t \in Media, StartProcessingTrack(t)
    PROVE  PipelineInv'
<1> DEFINE p == StartMediaReceiver(NewTrackPipeline(t))
           n == made + 1
<1>1. Good(p, arrived[t]) /\ p.track = t
    <2>1. arrived[t] \in Nat
        BY DEF PipelineInv, ArrivedOK
    <2> QED
        BY <2>1, GoodStarts
<1>2. /\ t \notin DOMAIN tracked /\ made < MaxPipelines
      /\ made' = n /\ pipes' = Append(pipes, p)
      /\ tracked' = IF p.cancelled THEN tracked
                    ELSE [x \in DOMAIN tracked \cup {t} |-> IF x = t THEN n ELSE tracked[x]]
      /\ UNCHANGED <<stages, added, sealed, arrived, ended, stopper, released>>
    BY DEF StartProcessingTrack
<1> HIDE DEF p
<1>3. p \in TrackPipeline
    BY <1>1 DEF Good
<1>4. /\ made \in Nat /\ n \in 0..MaxPipelines /\ pipes' \in Seq(TrackPipeline) /\ Len(pipes') = n
      /\ Pipes' = Pipes \cup {n} /\ n \notin Pipes
      /\ pipes'[n] = p /\ \A j \in Pipes : pipes'[j] = pipes[j]
    BY <1>2, <1>3, MediaAssumption DEF PipelineInv, PipesOK, Pipes
<1>5. PipesOK'
    BY <1>1, <1>2, <1>4 DEF PipelineInv, PipesOK
<1>6. /\ DOMAIN tracked' \subseteq DOMAIN tracked \cup {t}
      /\ t \in DOMAIN tracked' => tracked'[t] = n
      /\ \A x \in DOMAIN tracked : x \in DOMAIN tracked' /\ tracked'[x] = tracked[x]
    BY <1>2
<1>7. \A x \in DOMAIN tracked' : tracked'[x] = n \/ (x \in DOMAIN tracked /\ tracked'[x] = tracked[x])
    BY <1>6
<1>8. TrackedOK'
    BY <1>1, <1>4, <1>6 DEF PipelineInv, TrackedOK
<1>9. StoppersOK'
    <2>1. UNCHANGED stopper
        BY <1>2
    <2> QED
        BY <1>4, <1>7, <2>1 DEF PipelineInv, StoppersOK
<1>10. ReleasedOK'
    <2>1. UNCHANGED released
        BY <1>2
    <2> QED
        BY <1>4, <1>7, <2>1 DEF PipelineInv, ReleasedOK
<1>11. StagesOK' /\ ArrivedOK'
    BY <1>2 DEF PipelineInv, StagesOK, ArrivedOK
<1> QED
    BY <1>5, <1>8, <1>9, <1>10, <1>11 DEF PipelineInv

LEMMA TakeOutKeeps ==
    ASSUME PipelineInv, NEW c \in Controllers, NEW t \in Media, TakeOut(c, t)
    PROVE  PipelineInv'
<1> DEFINE rest == [stopper[c] EXCEPT !.todo = @ \ {t}]
<1>1. /\ StagesOK' /\ ArrivedOK' /\ PipesOK' /\ Pipes' = Pipes
      /\ UNCHANGED <<made, pipes, released>>
    BY DEF PipelineInv, StagesOK, ArrivedOK, PipesOK, Pipes, TakeOut
<1>2. stopper[c] \in Stopper /\ rest \in Stopper
    BY DEF PipelineInv, StoppersOK, Stopper
<1>3. CASE t \in DOMAIN tracked
    <2> DEFINE m == [rest EXCEPT !.at = "cancel", !.pipe = tracked[t]]
    <2>1. /\ tracked' = [x \in DOMAIN tracked \ {t} |-> tracked[x]]
          /\ stopper' = [stopper EXCEPT ![c] = m]
        BY <1>3 DEF TakeOut
    <2>2. tracked[t] \in Pipes /\ tracked[t] \in 0..MaxPipelines
        BY <1>3, MediaAssumption DEF PipelineInv, TrackedOK, Pipes, PipesOK
    <2>3. m \in Stopper /\ m.pipe = tracked[t]
        BY <1>2, <2>2 DEF Stopper
    <2> HIDE DEF m
    <2>4. \A x \in DOMAIN tracked' : x \in DOMAIN tracked /\ tracked'[x] = tracked[x] /\ tracked'[x] # tracked[t]
        <3>1. \A x \in DOMAIN tracked : pipes[tracked[x]].track = x
            BY DEF PipelineInv, TrackedOK
        <3> QED
            BY <1>3, <2>1, <3>1
    <2>5. TrackedOK' /\ ReleasedOK'
        BY <1>1, <2>4 DEF PipelineInv, TrackedOK, ReleasedOK
    <2>6. StoppersOK'
        <3>1. stopper' \in [Controllers -> Stopper] /\ stopper'[c] = m
              /\ \A d \in Controllers \ {c} : stopper'[d] = stopper[d]
            BY <2>1, <2>3 DEF PipelineInv, StoppersOK
        <3> QED
            BY <1>1, <2>2, <2>3, <2>4, <3>1 DEF PipelineInv, StoppersOK
    <2> QED
        BY <1>1, <2>5, <2>6 DEF PipelineInv
<1>4. CASE t \notin DOMAIN tracked
    <2>1. stopper' = [stopper EXCEPT ![c] = Proceed(rest)] /\ UNCHANGED tracked
        BY <1>4 DEF TakeOut
    <2>2. Proceed(rest) \in Stopper /\ Proceed(rest).at \in {"idle", "lookup"}
        BY <1>2, ProceedsAsStopper
    <2>3. StoppersOK'
        BY <1>1, <2>1, <2>2, StopperMoves DEF PipelineInv
    <2>4. TrackedOK' /\ ReleasedOK'
        BY <1>1, <2>1 DEF PipelineInv, TrackedOK, ReleasedOK
    <2> QED
        BY <1>1, <2>3, <2>4 DEF PipelineInv
<1> QED
    BY <1>3, <1>4

LEMMA CancelKeeps ==
    ASSUME PipelineInv, NEW c \in Controllers, CancelPipe(c)
    PROVE  PipelineInv'
<1> DEFINE i == stopper[c].pipe
           q == [pipes[i] EXCEPT !.cancelled = TRUE]
           m == [stopper[c] EXCEPT !.at = "wait"]
<1>1. i \in Pipes /\ Good(pipes[i], arrived[pipes[i].track])
    BY DEF PipelineInv, StoppersOK, PipesOK, CancelPipe
<1>2. /\ pipes' = [pipes EXCEPT ![i] = q] /\ stopper' = [stopper EXCEPT ![c] = m]
      /\ UNCHANGED <<stages, added, sealed, made, tracked, arrived, ended, released>>
    BY DEF CancelPipe
<1>3. Good(q, arrived[pipes[i].track]) /\ q.track = pipes[i].track /\ q.wg = pipes[i].wg
    BY <1>1, GoodCancelled
<1>4. m \in Stopper /\ m.pipe = i
    BY DEF PipelineInv, StoppersOK, Stopper
<1> HIDE DEF q, m
<1>5. PipesOK' /\ TrackedOK' /\ ReleasedOK'
    <2>1. \A j \in Pipes \ {i} : Good(pipes[j], arrived'[pipes[j].track])
        BY <1>2 DEF PipelineInv, PipesOK
    <2> HIDE DEF i
    <2> QED
        BY <1>1, <1>2, <1>3, <2>1, OnePipeChanges
<1>6. StoppersOK'
    <2>1. stopper' \in [Controllers -> Stopper] /\ stopper'[c] = m
          /\ \A d \in Controllers \ {c} : stopper'[d] = stopper[d]
        BY <1>2, <1>4 DEF PipelineInv, StoppersOK
    <2>2. stopper[c].at = "cancel" /\ Pipes' = Pipes
        BY <1>2 DEF CancelPipe, Pipes
    <2> QED
        BY <1>2, <1>4, <2>1, <2>2 DEF PipelineInv, StoppersOK
<1>7. StagesOK' /\ ArrivedOK'
    BY <1>2 DEF PipelineInv, StagesOK, ArrivedOK
<1> QED
    BY <1>5, <1>6, <1>7 DEF PipelineInv

LEMMA AwaitKeeps ==
    ASSUME PipelineInv, NEW c \in Controllers, AwaitPipe(c)
    PROVE  PipelineInv'
<1>1. /\ UNCHANGED <<stages, added, sealed, made, pipes, tracked, arrived, ended>>
      /\ stopper[c].at = "wait" /\ pipes[stopper[c].pipe].wg = 0
      /\ released' = released \cup {stopper[c].pipe}
      /\ stopper' = [stopper EXCEPT ![c] = Proceed(stopper[c])]
    BY DEF AwaitPipe
<1>2. StagesOK' /\ ArrivedOK' /\ PipesOK' /\ TrackedOK' /\ Pipes' = Pipes
    BY <1>1 DEF PipelineInv, StagesOK, ArrivedOK, PipesOK, Pipes, TrackedOK
<1>3. ReleasedOK'
    BY <1>1, <1>2 DEF PipelineInv, ReleasedOK, StoppersOK
<1>4. StoppersOK'
    <2>1. stopper[c] \in Stopper
        BY DEF PipelineInv, StoppersOK
    <2>2. Proceed(stopper[c]) \in Stopper /\ Proceed(stopper[c]).at \in {"idle", "lookup"}
        BY <2>1, ProceedsAsStopper
    <2> QED
        BY <1>1, <2>2, StopperMoves DEF PipelineInv
<1> QED
    BY <1>2, <1>3, <1>4 DEF PipelineInv

LEMMA BeginKeeps ==
    ASSUME PipelineInv, NEW c \in Controllers, NEW todo \in SUBSET Media, Begin(c, todo)
    PROVE  PipelineInv'
<1> DEFINE m == [Idle EXCEPT !.at = "lookup", !.todo = todo]
<1>1. /\ UNCHANGED <<stages, added, sealed, made, pipes, tracked, arrived, ended, released>>
      /\ stopper' = [stopper EXCEPT ![c] = m]
    BY DEF Begin
<1>2. StagesOK' /\ ArrivedOK' /\ PipesOK' /\ TrackedOK' /\ ReleasedOK'
    BY <1>1 DEF PipelineInv, StagesOK, ArrivedOK, PipesOK, Pipes, TrackedOK, ReleasedOK
<1>3. m \in Stopper /\ m.at = "lookup"
    <2>1. 0 \in 0..MaxPipelines
        BY MediaAssumption
    <2> QED
        BY <2>1 DEF Idle, Stopper
<1> HIDE DEF m
<1>4. StoppersOK'
    BY <1>1, <1>3, StopperMoves DEF PipelineInv
<1> QED
    BY <1>2, <1>4 DEF PipelineInv

(* A packet arrived: the track pipelines of its track stay good.            *)
LEMMA ReceiveKeeps ==
    ASSUME PipelineInv, NEW i \in Pipes, ReceiveAudioPacket(i)
    PROVE  PipelineInv'
<1> DEFINE p == pipes[i]
           t == pipes[i].track
           n == arrived[t]
           looks == [p EXCEPT !.receiver = "looks"]
           filled == [looks EXCEPT !.input = Enqueue(@, [packet |-> arrived'[t], transcoded |-> FALSE])]
<1>1. /\ p.receiver = "reading" /\ arrived[t] < MaxPackets
      /\ arrived' = [arrived EXCEPT ![t] = @ + 1]
      /\ Become(i, filled) \/ Become(i, looks)
    BY DEF ReceiveAudioPacket
<1>2. Good(p, n) /\ t \in Media
    BY DEF PipelineInv, PipesOK, Good, TrackPipeline
<1>3. n \in Nat /\ n + 1 \in 1..MaxPackets
    BY <1>1, <1>2, MediaAssumption DEF PipelineInv, ArrivedOK
<1>4. /\ arrived' \in [Media -> 0..MaxPackets] /\ arrived'[t] = n + 1
      /\ \A u \in Media \ {t} : arrived'[u] = arrived[u]
    BY <1>1, <1>2, <1>3 DEF PipelineInv, ArrivedOK
<1>5. PICK q \in {filled, looks} : Become(i, q)
    BY <1>1
<1>6. Good(q, n + 1) /\ q.track = t /\ p.wg # 0
    <2>1. CASE q = looks
        BY <1>1, <1>2, <1>3, <2>1, GoodSkips
    <2>2. CASE q = filled
        <3>1. q = [[p EXCEPT !.receiver = "looks"] EXCEPT !.input =
                      Enqueue(@, [packet |-> n + 1, transcoded |-> FALSE])]
            BY <1>4, <2>2
        <3> HIDE DEF p, n, t, filled, looks
        <3> QED
            BY <1>1, <1>2, <1>3, <3>1, GoodReceives DEF p, t
    <2> QED
        BY <1>5, <2>1, <2>2
<1>7. ASSUME NEW j \in Pipes PROVE Good(pipes[j], arrived'[pipes[j].track])
    <2>1. Good(pipes[j], arrived[pipes[j].track]) /\ pipes[j].track \in Media
        BY DEF PipelineInv, PipesOK, Good, TrackPipeline
    <2>2. CASE pipes[j].track = t
        BY <1>3, <1>4, <2>1, <2>2, GoodLater
    <2>3. CASE pipes[j].track # t
        BY <1>4, <2>1, <2>3
    <2> QED
        BY <2>2, <2>3
<1>8. PipesOK' /\ TrackedOK' /\ ReleasedOK' /\ StoppersOK'
    <2> HIDE DEF filled, looks, n
    <2> QED
        BY <1>4, <1>5, <1>6, <1>7, OnePipeChanges DEF Become
<1>9. StagesOK' /\ ArrivedOK'
    BY <1>4, <1>5 DEF PipelineInv, StagesOK, ArrivedOK, Become
<1> QED
    BY <1>8, <1>9 DEF PipelineInv

LEMMA LooperKeeps ==
    ASSUME PipelineInv, NEW i \in Pipes, LooperCancelled(i) \/ LooperTakes(i) \/ LooperFinishes(i)
    PROVE  PipelineInv'
<1>1. Good(pipes[i], arrived[pipes[i].track]) /\ stages \in Seq(Stages)
    BY DEF PipelineInv, PipesOK, StagesOK
<1>2. CASE LooperCancelled(i)
    <2> DEFINE q == [pipes[i] EXCEPT !.looper = "done", !.wg = @ - 1]
    <2>1. Become(i, q) /\ UNCHANGED arrived /\ pipes[i].looper = "running"
        BY <1>2 DEF LooperCancelled
    <2>2. Good(q, arrived[pipes[i].track]) /\ q.track = pipes[i].track /\ pipes[i].wg # 0
        BY <1>1, <2>1, GoodLooperDone
    <2> HIDE DEF q
    <2> QED
        BY <2>1, <2>2, BecomeKeeps
<1>3. CASE LooperTakes(i)
    <2> DEFINE q == Taken(pipes[i])
    <2>1. Become(i, q) /\ UNCHANGED arrived /\ pipes[i].looper = "running" /\ pipes[i].input # <<>>
        BY <1>3 DEF LooperTakes, Taken
    <2>2. Good(q, arrived[pipes[i].track]) /\ q.track = pipes[i].track /\ pipes[i].wg # 0
        BY <1>1, <2>1, GoodTakes
    <2> HIDE DEF q
    <2> QED
        BY <2>1, <2>2, BecomeKeeps
<1>4. CASE LooperFinishes(i)
    <2>1. PICK result \in ProcessThroughStages(pipes[i].snapshot, pipes[i].frame[1]) :
              Become(i, Finished(pipes[i], result))
        BY <1>4 DEF LooperFinishes, Finished
    <2>2. UNCHANGED arrived /\ pipes[i].looper = "working"
        BY <1>4 DEF LooperFinishes
    <2>3. /\ Good(Finished(pipes[i], result), arrived[pipes[i].track])
          /\ Finished(pipes[i], result).track = pipes[i].track /\ pipes[i].wg # 0
        BY <1>1, <2>1, <2>2, GoodFinishes
    <2> QED
        BY <2>1, <2>2, <2>3, BecomeKeeps
<1> QED
    BY <1>2, <1>3, <1>4

LEMMA ReceiverKeeps ==
    ASSUME PipelineInv, NEW i \in Pipes, ReceiverLooks(i) \/ ReceiverEnds(i)
    PROVE  PipelineInv'
<1>1. Good(pipes[i], arrived[pipes[i].track])
    BY DEF PipelineInv, PipesOK
<1> DEFINE q == [pipes[i] EXCEPT !.receiver = "reading"]
           done == ReceiverDone(pipes[i])
<1>2. /\ pipes[i].receiver \in {"looks", "reading"} /\ UNCHANGED arrived
      /\ Become(i, done) \/ (Become(i, q) /\ pipes[i].receiver = "looks")
    BY DEF ReceiverLooks, ReceiverEnds
<1>3. CASE Become(i, done)
    <2>1. Good(done, arrived[pipes[i].track]) /\ done.track = pipes[i].track /\ pipes[i].wg # 0
        BY <1>1, <1>2, GoodReceiverDone
    <2> HIDE DEF done
    <2> QED
        BY <1>2, <1>3, <2>1, BecomeKeeps
<1>4. CASE Become(i, q) /\ pipes[i].receiver = "looks"
    <2>1. Good(q, arrived[pipes[i].track]) /\ q.track = pipes[i].track /\ pipes[i].wg # 0
        BY <1>1, <1>4, GoodReading
    <2> HIDE DEF q
    <2> QED
        BY <1>2, <1>4, <2>1, BecomeKeeps
<1> QED
    BY <1>2, <1>3, <1>4

LEMMA ReadKeeps ==
    ASSUME PipelineInv, NEW t \in Media, ReadOutput(t)
    PROVE  PipelineInv'
<1> DEFINE i == tracked[t]
           q == [pipes[i] EXCEPT !.output = Dequeue(@)]
<1>1. i \in Pipes /\ pipes[i].output # <<>> /\ Become(i, q) /\ UNCHANGED arrived
    BY DEF PipelineInv, TrackedOK, ReadOutput
<1>2. Good(pipes[i], arrived[pipes[i].track])
    BY <1>1 DEF PipelineInv, PipesOK
<1>3. Good(q, arrived[pipes[i].track]) /\ q.track = pipes[i].track /\ q.wg = pipes[i].wg
    BY <1>1, <1>2, GoodRead
<1> HIDE DEF i, q
<1> QED
    BY <1>1, <1>3, BecomeKeeps

LEMMA PipelineInvNext == PipelineInv /\ [PipelineNext]_pipeVars => PipelineInv'
<1> SUFFICES ASSUME PipelineInv, [PipelineNext]_pipeVars PROVE PipelineInv'
    OBVIOUS
<1>0. StagesOK /\ sealed \in BOOLEAN /\ ended \subseteq Media /\ DOMAIN tracked \in SUBSET Media
    BY DEF PipelineInv, ArrivedOK, TrackedOK
<1>1. ASSUME NEW s \in Stages, AddStage(s) PROVE PipelineInv'
    <2>1. StagesOK'
        <3>1. Append(stages, s) \in Seq(Stages) /\ Append(added, s) \in Seq(Stages)
            BY <1>0 DEF StagesOK
        <3> QED
            BY <1>1, <3>1, SortIsStable DEF StagesOK, AddStage
    <2> QED
        BY <1>0, <1>1, <2>1, PipesStay DEF AddStage
<1>2. ASSUME NEW s \in Stages, RemoveStage(s.name) PROVE PipelineInv'
    <2>1. StagesOK'
        BY <1>0, <1>2, OtherStagesAreStages DEF StagesOK, RemoveStage
    <2> QED
        BY <1>0, <1>2, <2>1, PipesStay DEF RemoveStage
<1>3. ASSUME SetEncryptionKey PROVE PipelineInv'
    BY <1>0, <1>3, PipesStay DEF SetEncryptionKey, StagesOK
<1>4. ASSUME NEW t \in Media, StartProcessingTrack(t) \/ ReadOutput(t) PROVE PipelineInv'
    BY <1>4, StartKeeps, ReadKeeps
<1>5. ASSUME NEW t \in Media, MediaEnds(t) PROVE PipelineInv'
    BY <1>0, <1>5, PipesStay DEF MediaEnds, StagesOK
<1>6. ASSUME NEW c \in Controllers, StopPipeline(c) \/ CancelPipe(c) \/ AwaitPipe(c) PROVE PipelineInv'
    BY <1>0, <1>6, BeginKeeps, CancelKeeps, AwaitKeeps DEF StopPipeline
<1>7. ASSUME NEW c \in Controllers, NEW t \in Media, StopProcessingTrack(c, t) \/ TakeOut(c, t)
      PROVE  PipelineInv'
    BY <1>7, BeginKeeps, TakeOutKeeps DEF StopProcessingTrack
<1>8. ASSUME NEW i \in Pipes,
             \/ ReceiverLooks(i) \/ ReceiverEnds(i) \/ ReceiveAudioPacket(i)
             \/ LooperCancelled(i) \/ LooperTakes(i) \/ LooperFinishes(i)
      PROVE  PipelineInv'
    BY <1>8, ReceiverKeeps, ReceiveKeeps, LooperKeeps
<1>9. CASE UNCHANGED pipeVars
    BY <1>0, <1>9, PipesStay DEF pipeVars, StagesOK
<1> QED
    BY <1>1, <1>2, <1>3, <1>4, <1>5, <1>6, <1>7, <1>8, <1>9 DEF PipelineNext

LEMMA PipelineInvAlways == PipelineSpec => []PipelineInv
<1> QED
    BY PipelineInvInit, PipelineInvNext, PTL DEF PipelineSpec

LEMMA ConcatInOrder ==
    ASSUME NEW s \in Seq(Frame), NEW u \in Seq(Frame),
           Ascending(s), Ascending(u), Before(Numbers(s), Numbers(u))
    PROVE  /\ s \o u \in Seq(Frame) /\ Ascending(s \o u)
           /\ Numbers(s \o u) \subseteq Numbers(s) \cup Numbers(u)
<1> DEFINE a == s \o u
<1>1. /\ a \in Seq(Frame) /\ Len(s) \in Nat /\ Len(u) \in Nat /\ Len(a) = Len(s) + Len(u)
      /\ \A j \in 1..Len(s) : a[j] = s[j]
      /\ \A j \in 1..Len(a) : j \notin 1..Len(s) => j - Len(s) \in 1..Len(u) /\ a[j] = u[j - Len(s)]
    OBVIOUS
<1> HIDE DEF a
<1>2. Numbers(a) \subseteq Numbers(s) \cup Numbers(u)
    BY <1>1 DEF Numbers
<1>3. Ascending(a)
    <2> SUFFICES ASSUME NEW j \in 1..Len(a), NEW k \in 1..Len(a), j < k
                 PROVE  a[j].packet < a[k].packet
        BY DEF Ascending
    <2>1. CASE k \in 1..Len(s)
        <3>1. j \in 1..Len(s)
            BY <1>1, <2>1
        <3> QED
            BY <1>1, <2>1, <3>1 DEF Ascending
    <2>2. CASE k \notin 1..Len(s)
        <3>1. k - Len(s) \in 1..Len(u) /\ a[k] = u[k - Len(s)]
            BY <1>1, <2>2
        <3>2. CASE j \in 1..Len(s)
            <4>1. a[j] = s[j] /\ s[j].packet \in Numbers(s) /\ u[k - Len(s)].packet \in Numbers(u)
                BY <1>1, <3>1, <3>2 DEF Numbers
            <4> QED
                BY <3>1, <4>1 DEF Before
        <3>3. CASE j \notin 1..Len(s)
            <4>1. j - Len(s) \in 1..Len(u) /\ a[j] = u[j - Len(s)] /\ j - Len(s) < k - Len(s)
                <5>1. j - Len(s) \in 1..Len(u) /\ a[j] = u[j - Len(s)]
                    BY <1>1, <3>3
                <5>2. j \in Int /\ k \in Int
                    OBVIOUS
                <5> QED
                    BY <1>1, <5>1, <5>2
            <4>2. u[j - Len(s)].packet < u[k - Len(s)].packet
                BY <3>1, <4>1 DEF Ascending
            <4> QED
                BY <3>1, <4>1, <4>2
        <3> QED
            BY <3>2, <3>3
    <2> QED
        BY <2>1, <2>2
<1> QED
    BY <1>1, <1>2, <1>3 DEF a

(* For any number of tracks, controllers, stages and packets: a track       *)
(* pipeline never overtakes or repeats a packet, whatever its full buffers  *)
(* drop, its stages fail, and another pipeline of the track reads.          *)
THEOREM PacketsAlwaysInOrder == PipelineSpec => []PacketsInOrder
<1>1. PipelineInv => PacketsInOrder
    <2> SUFFICES ASSUME PipelineInv, NEW i \in Pipes
                 PROVE  LET all == pipes[i].output \o pipes[i].frame \o pipes[i].input
                        IN \A j \in 1..(Len(all) - 1) : all[j].packet < all[j + 1].packet
        BY DEF PacketsInOrder
    <2> DEFINE p == pipes[i]
               first == p.output \o p.frame
               all == first \o p.input
    <2>1. p \in TrackPipeline /\ Ordered(p, arrived[p.track]) /\ HoldsFrame(p)
        BY DEF PipelineInv, PipesOK, Good
    <2>2. p.output \in Seq(Frame) /\ p.frame \in Seq(Frame) /\ p.input \in Seq(Frame)
        BY <2>1 DEF TrackPipeline
    <2>3. Ascending(p.frame)
        <3>1. p.frame = <<>> \/ \E f \in Frame : p.frame = <<f>>
            BY <2>1 DEF HoldsFrame
        <3> HIDE DEF p
        <3> QED
            BY <3>1, NoNumbers, OneNumber
    <2> HIDE DEF p
    <2>4. /\ first \in Seq(Frame) /\ Ascending(first)
          /\ Numbers(first) \subseteq Numbers(p.output) \cup Numbers(p.frame)
        BY <2>1, <2>2, <2>3, ConcatInOrder DEF Ordered
    <2>5. Before(Numbers(first), Numbers(p.input))
        BY <2>1, <2>4 DEF Ordered, Before
    <2> HIDE DEF first
    <2>6. all \in Seq(Frame) /\ Ascending(all)
        BY <2>1, <2>2, <2>4, <2>5, ConcatInOrder DEF Ordered
    <2> HIDE DEF all
    <2>7. ASSUME NEW j \in 1..(Len(all) - 1) PROVE all[j].packet < all[j + 1].packet
        <3>1. j \in 1..Len(all) /\ j + 1 \in 1..Len(all) /\ j < j + 1
            BY <2>6
        <3> QED
            BY <2>6, <3>1 DEF Ascending
    <2> QED
        BY <2>7 DEF all, first, p
<1> QED
    BY <1>1, PipelineInvAlways, PTL

(* And: once StopProcessingTrack has returned for a track pipeline, neither *)
(* of its goroutines runs, and it is no longer tracked, although the        *)
(* receiver may be in ReadRTP when it is cancelled, and the track may be    *)
(* started again meanwhile.                                                 *)
THEOREM ReleasedAlwaysQuiet == PipelineSpec => []ReleasedIsQuiet
<1>1. PipelineInv => ReleasedIsQuiet
    <2> SUFFICES ASSUME PipelineInv, NEW i \in released
                 PROVE  /\ pipes[i].looper = "done" /\ pipes[i].receiver \in {"none", "done"}
                        /\ \A t \in DOMAIN tracked : tracked[t] # i
        BY DEF ReleasedIsQuiet
    <2>1. i \in Pipes /\ pipes[i].wg = 0 /\ \A t \in DOMAIN tracked : tracked[t] # i
        BY DEF PipelineInv, ReleasedOK
    <2>2. pipes[i] \in TrackPipeline /\ Counted(pipes[i])
        BY <2>1 DEF PipelineInv, PipesOK, Good
    <2>3. pipes[i].looper = "done" /\ pipes[i].receiver \notin {"looks", "reading"}
        BY <2>1, <2>2 DEF Counted
    <2> QED
        BY <2>1, <2>2, <2>3 DEF TrackPipeline
<1> QED
    BY <1>1, PipelineInvAlways, PTL

(* The types of the pipeline, for any of its constants.                     *)
THEOREM PipelineTypeCorrect == PipelineSpec => []PipelineTypeOK
<1>1. PipelineInv => PipelineTypeOK
    <2> SUFFICES ASSUME PipelineInv PROVE PipelineTypeOK
        OBVIOUS
    <2>1. pipes \in [Pipes -> TrackPipeline]
        BY DEF PipelineInv, PipesOK, Pipes
    <2> QED
        BY <2>1 DEF PipelineInv, StagesOK, ArrivedOK, PipesOK, TrackedOK, StoppersOK, ReleasedOK,
                    PipelineTypeOK
<1> QED
    BY <1>1, PipelineInvAlways, PTL

(* The order of the stages.  The stages of one priority are those that were  *)
(* added, in their order.                                                    *)
OrderInv ==
    /\ stages \in Seq(Stages) /\ added \in Seq(Stages)
    /\ ByPriority(stages)
    /\ \A p \in Nat : StagesIn(stages, SamePriority(p)) = StagesIn(added, SamePriority(p))

LEMMA AddStageOrders ==
    ASSUME OrderInv, NEW s \in Stages, AddStage(s)
    PROVE  OrderInv'
<1>1. PICK q \in Seq(Stages), a \in Seq(Stages) : q = Append(stages, s) /\ a = Append(added, s)
    <2>1. stages \in Seq(Stages) /\ added \in Seq(Stages)
        BY DEF OrderInv
    <2>2. Append(stages, s) \in Seq(Stages) /\ Append(added, s) \in Seq(Stages)
        BY <2>1
    <2> QED
        BY <2>2
<1>2. stages' = SortStages(q) /\ added' = a
    BY <1>1 DEF AddStage
<1>3. SortStages(q) \in Seq(Stages) /\ ByPriority(SortStages(q))
    BY SortIsStable, SortOrders
<1>4. ASSUME NEW p \in Nat
      PROVE  StagesIn(SortStages(q), SamePriority(p)) = StagesIn(a, SamePriority(p))
    <2>1. StagesIn(SortStages(q), SamePriority(p)) = StagesIn(q, SamePriority(p))
        BY SortIsStable
    <2>2. PICK same : same = SamePriority(p)
        OBVIOUS
    <2>3. StagesIn(q, same) = IF s \in same THEN Append(StagesIn(stages, same), s) ELSE StagesIn(stages, same)
        BY <1>1, StagesInAppended DEF OrderInv
    <2>4. StagesIn(a, same) = IF s \in same THEN Append(StagesIn(added, same), s) ELSE StagesIn(added, same)
        BY <1>1, StagesInAppended DEF OrderInv
    <2>5. StagesIn(stages, same) = StagesIn(added, same)
        BY <2>2 DEF OrderInv
    <2> QED
        BY <2>1, <2>2, <2>3, <2>4, <2>5
<1> QED
    BY <1>2, <1>3, <1>4 DEF OrderInv

LEMMA RemoveStageOrders ==
    ASSUME OrderInv, NEW name, RemoveStage(name)
    PROVE  OrderInv'
<1>1. PICK kept : kept = {x \in Stages : x.name # name}
    OBVIOUS
<1>2. stages' = StagesIn(stages, kept) /\ added' = StagesIn(added, kept)
    BY <1>1 DEF RemoveStage, OtherStages
<1>3. stages' \in Seq(Stages) /\ added' \in Seq(Stages) /\ ByPriority(stages')
    BY <1>2, OtherStagesAreStages, StagesInOrdered DEF OrderInv
<1>4. ASSUME NEW p \in Nat
      PROVE  StagesIn(stages', SamePriority(p)) = StagesIn(added', SamePriority(p))
    <2>1. PICK same : same = SamePriority(p)
        OBVIOUS
    <2>2. ASSUME NEW q \in Seq(Stages)
          PROVE  StagesIn(StagesIn(q, kept), same) = StagesIn(StagesIn(q, same), kept)
        <3>1. kept \cap same = same \cap kept
            OBVIOUS
        <3>2. StagesIn(StagesIn(q, kept), same) = StagesIn(q, kept \cap same)
            BY StagesInBoth
        <3>3. StagesIn(StagesIn(q, same), kept) = StagesIn(q, same \cap kept)
            BY StagesInBoth
        <3> QED
            BY <3>1, <3>2, <3>3, Zenon
    <2>3. StagesIn(stages, same) = StagesIn(added, same)
        BY <2>1 DEF OrderInv
    <2>4. /\ StagesIn(stages', same) = StagesIn(StagesIn(stages, same), kept)
          /\ StagesIn(added', same) = StagesIn(StagesIn(added, same), kept)
        BY <1>2, <2>2 DEF OrderInv
    <2> QED
        BY <2>1, <2>3, <2>4
<1> QED
    BY <1>3, <1>4 DEF OrderInv

\* For any stages, added and removed in any order: the stages execute by priority, and those
\* of the same priority in the order they were added (AddStage, sortStages and RemoveStage).
THEOREM StagesAlwaysInOrder == PipelineSpec => []StagesInOrder
<1>1. PipelineInit => OrderInv
    <2> SUFFICES ASSUME PipelineInit PROVE OrderInv
        OBVIOUS
    <2>1. stages = <<>> /\ added = <<>>
        BY DEF PipelineInit
    <2> QED
        BY <2>1 DEF OrderInv, ByPriority
<1>2. OrderInv /\ [PipelineNext]_pipeVars => OrderInv'
    <2> SUFFICES ASSUME OrderInv, [PipelineNext]_pipeVars PROVE OrderInv'
        OBVIOUS
    <2>1. CASE UNCHANGED <<stages, added>>
        BY <2>1 DEF OrderInv
    <2>2. CASE ~ UNCHANGED <<stages, added>>
        <3>1. ASSUME NEW i, NEW pipe, Become(i, pipe) PROVE FALSE
            BY <2>2, <3>1 DEF Become
        <3>2. ASSUME NEW c, NEW todo, Begin(c, todo) PROVE FALSE
            BY <2>2, <3>2 DEF Begin
        <3>3. CASE UNCHANGED pipeVars
            BY <2>2, <3>3 DEF pipeVars
        <3>4. ASSUME NEW s \in Stages, AddStage(s) \/ RemoveStage(s.name) PROVE OrderInv'
            BY <3>4, AddStageOrders, RemoveStageOrders
        <3>5. CASE SetEncryptionKey
            BY <2>2, <3>5 DEF SetEncryptionKey
        <3>6. ASSUME NEW t \in Media, StartProcessingTrack(t) \/ ReadOutput(t) \/ MediaEnds(t) PROVE FALSE
            BY <2>2, <3>1, <3>6 DEF StartProcessingTrack, ReadOutput, MediaEnds
        <3>7. ASSUME NEW c \in Controllers, StopPipeline(c) \/ CancelPipe(c) \/ AwaitPipe(c) PROVE FALSE
            BY <2>2, <3>2, <3>7 DEF StopPipeline, CancelPipe, AwaitPipe
        <3>8. ASSUME NEW c \in Controllers, NEW t \in Media, StopProcessingTrack(c, t) \/ TakeOut(c, t) PROVE FALSE
            BY <2>2, <3>2, <3>8 DEF StopProcessingTrack, TakeOut
        <3>9. ASSUME NEW i \in Pipes,
                     \/ ReceiverLooks(i) \/ ReceiverEnds(i) \/ ReceiveAudioPacket(i)
                     \/ LooperCancelled(i) \/ LooperTakes(i) \/ LooperFinishes(i)
              PROVE  FALSE
            <4> HIDE DEF Become
            <4> QED
                BY <3>1, <3>9 DEF ReceiverLooks, ReceiverEnds, ReceiveAudioPacket,
                    LooperCancelled, LooperTakes, LooperFinishes
        <3> QED
            BY <3>3, <3>4, <3>5, <3>6, <3>7, <3>8, <3>9 DEF PipelineNext
    <2> QED
        BY <2>1, <2>2
<1>3. OrderInv => StagesInOrder
    <2> SUFFICES ASSUME OrderInv PROVE StagesInOrder
        OBVIOUS
    <2>1. ASSUME NEW i \in 1..(Len(stages) - 1) PROVE stages[i].priority <= stages[i + 1].priority
        <3>1. i \in 1..Len(stages) /\ i + 1 \in 1..Len(stages) /\ i <= i + 1
            BY DEF OrderInv
        <3> QED
            BY <3>1 DEF OrderInv, ByPriority
    <2>2. ASSUME NEW s \in Stages
          PROVE  StagesIn(stages, {x \in Stages : x.priority = s.priority})
                    = StagesIn(added, {x \in Stages : x.priority = s.priority})
        <3>1. s.priority \in Nat
            BY MediaAssumption
        <3>2. SamePriority(s.priority) = {x \in Stages : x.priority = s.priority}
            BY DEF SamePriority
        <3>3. StagesIn(stages, SamePriority(s.priority)) = StagesIn(added, SamePriority(s.priority))
            BY <3>1 DEF OrderInv
        <3> QED
            BY <3>2, <3>3, Zenon
    <2> QED
        BY <2>1, <2>2, Zenon DEF StagesInOrder
<1> QED
    BY <1>1, <1>2, <1>3, PTL DEF PipelineSpec

-------------------------------------------------------------------------------
(* What the connections write.                                              *)

(* What a step leaves of a connection that it does not touch, and makes of  *)
(* the one it does.                                                         *)
OnlyChanges(i, c) == conns'[i] = c /\ \A k \in Conns \ {i} : conns'[k] = conns[k]

LEMMA OneChanges ==
    ASSUME RoutingTypes, NEW i \in Conns, NEW c, conns' = [conns EXCEPT ![i] = c]
    PROVE  OnlyChanges(i, c) /\ conns[i] \in RouterConnection
  BY DEF RoutingTypes, ConnsOK, Conns, OnlyChanges

LEMMA ConnectedIsOne ==
    ASSUME RoutingTypes, NEW r \in DOMAIN connections
    PROVE  /\ connections[r] \in Conns /\ conns[connections[r]] \in RouterConnection
           /\ \A q \in DOMAIN connections : connections[q] = connections[r] => q = r
  BY DEF RoutingTypes, ConnsOK, ConnectionsOK, Conns

LEMMA StaysQuiet ==
    ASSUME ClosedAreQuiet, UNCHANGED connections, NEW i \in Conns, NEW c \in RouterConnection,
           Conns' = Conns, OnlyChanges(i, c),
           c.state = "closed" => ~c.forwarding,
           conns[i].state = "closed" => c.state = "closed"
    PROVE  ClosedAreQuiet'
  BY DEF ClosedAreQuiet, OnlyChanges

LEMMA CreateReceiverQuiet ==
    ASSUME RoutingTypes, ClosedAreQuiet, NEW r \in Receivers, CreateReceiver(r)
    PROVE  ClosedAreQuiet'
<1> DEFINE n == Len(conns) + 1
<1>1. /\ r \notin DOMAIN connections /\ conns \in Seq(RouterConnection)
      /\ conns' = Append(conns, NewConnection(r)) /\ connections' = With(connections, r, Len(conns'))
      /\ NewConnection(r) \in RouterConnection /\ NewConnection(r).state = "new"
    BY DEF CreateReceiver, RoutingTypes, ConnsOK, NewConnection, RouterConnection
<1> DEFINE c == NewConnection(r)
<1> HIDE DEF c
<1>2. /\ Conns' = Conns \cup {n} /\ n \notin Conns
      /\ conns'[n].state = "new" /\ \A k \in Conns : conns'[k] = conns[k]
      /\ Len(conns') = n
    BY <1>1 DEF Conns
<1>3. /\ DOMAIN connections' = DOMAIN connections \cup {r} /\ connections'[r] = n
      /\ \A q \in DOMAIN connections : connections'[q] = connections[q]
    BY <1>1, <1>2 DEF With
<1> QED
    BY <1>2, <1>3 DEF ClosedAreQuiet

LEMMA FinishRemovalQuiet ==
    ASSUME RoutingTypes, ClosedAreQuiet, NEW g \in Removers, FinishRemoval(g)
    PROVE  ClosedAreQuiet'
<1> DEFINE r == removing[g].id
           i == connections[r]
           c == [conns[i] EXCEPT !.state = "closed"]
<1>1. r \in DOMAIN connections /\ conns' = [conns EXCEPT ![i] = c] /\ ~conns[i].forwarding
      /\ connections' = Without(connections, {r})
    BY DEF RoutingTypes, RemovingOK, FinishRemoval
<1>2. i \in Conns /\ conns[i] \in RouterConnection
    BY <1>1, ConnectedIsOne
<1>3. c.state = "closed" /\ ~c.forwarding
    BY <1>1, <1>2 DEF RouterConnection
<1> HIDE DEF c
<1>4. Conns' = Conns /\ OnlyChanges(i, c)
    <2> HIDE DEF i
    <2> QED
        BY <1>1, <1>2, OneChanges, FinishRemovalKeeps, KeepsTypes
<1>5. \A q \in DOMAIN connections \ {r} : q \in DOMAIN connections' /\ connections'[q] = connections[q]
    BY <1>1 DEF Without
<1> QED
    BY <1>3, <1>4, <1>5 DEF ClosedAreQuiet, OnlyChanges

LEMMA QuietNext ==
    ASSUME RoutingTypes, ClosedAreQuiet, [RoutingNext]_routingVars
    PROVE  ClosedAreQuiet'
<1>1. ASSUME UNCHANGED <<conns, connections>> PROVE ClosedAreQuiet'
    BY <1>1 DEF ClosedAreQuiet, Conns
<1>2. ASSUME NEW i \in Conns, NEW c \in RouterConnection, KeepsTracks, UNCHANGED connections,
             conns' = [conns EXCEPT ![i] = c], c.forwarding => conns[i].forwarding,
             c.state = conns[i].state \/ (conns[i].state = "new" /\ c.state = "failed")
      PROVE  ClosedAreQuiet'
    <2>1. Conns' = Conns /\ OnlyChanges(i, c)
        BY <1>2, OneChanges, KeepsTypes
    <2>2. conns[i].state = "closed" => ~conns[i].forwarding
        BY DEF ClosedAreQuiet
    <2> QED
        BY <1>2, <2>1, <2>2, StaysQuiet
<1>3. ASSUME NEW r \in Receivers, CreateReceiver(r) PROVE ClosedAreQuiet'
    BY <1>3, CreateReceiverQuiet
<1>4. ASSUME NEW r \in Receivers, NEW t \in RoutedTracks, AddTrackToReceiver(r, t) PROVE ClosedAreQuiet'
    <2> DEFINE i == connections[r]
               c == [conns[i] EXCEPT !.localTracks = @ \cup {t}]
    <2>1. r \in DOMAIN connections /\ UNCHANGED connections
        BY <1>4 DEF AddTrackToReceiver
    <2>2. i \in Conns /\ conns[i] \in RouterConnection
        BY <2>1, ConnectedIsOne
    <2>3. c \in RouterConnection /\ c.forwarding = conns[i].forwarding /\ c.state = conns[i].state
          /\ conns' = [conns EXCEPT ![i] = c]
        BY <1>4, <2>2, AddTrackBecomes DEF Becomes, RouterConnection
    <2>4. Conns' = Conns /\ OnlyChanges(i, c)
        <3> HIDE DEF i, c
        <3>1. Len(c.packetChan) <= ChanSize
            BY <1>4, AddTrackBecomes DEF Becomes, i, c
        <3> QED
            BY <2>2, <2>3, <3>1, OneChanges, ConnectionChanges DEF RoutingTypes
    <2> HIDE DEF i, c
    <2>5. conns[i].state = "closed" => ~conns[i].forwarding
        BY <2>2 DEF ClosedAreQuiet
    <2> QED
        BY <2>1, <2>2, <2>3, <2>4, <2>5, StaysQuiet
<1>5. ASSUME NEW g \in Removers, RemoveReceiver(g) PROVE ClosedAreQuiet'
    <2> DEFINE i == connections[removing[g].id]
               c == [conns[i] EXCEPT !.closed = TRUE]
    <2>1. CASE removing[g].id \in DOMAIN connections
        <3>1. i \in Conns /\ conns[i] \in RouterConnection
            BY <2>1, ConnectedIsOne
        <3>2. /\ c \in RouterConnection /\ c.forwarding = conns[i].forwarding /\ c.state = conns[i].state
              /\ conns' = [conns EXCEPT ![i] = c] /\ UNCHANGED connections
            BY <1>5, <2>1, <3>1 DEF RemoveReceiver, RouterConnection
        <3>3. KeepsTracks
            BY <1>5, RemoveReceiverKeeps
        <3> HIDE DEF i, c
        <3> QED
            BY <1>2, <3>1, <3>2, <3>3
    <2>2. CASE removing[g].id \notin DOMAIN connections
        BY <1>1, <1>5, <2>2 DEF RemoveReceiver
    <2> QED
        BY <2>1, <2>2
<1>6. ASSUME NEW g \in Removers, FinishRemoval(g) PROVE ClosedAreQuiet'
    BY <1>6, FinishRemovalQuiet
<1>7. ASSUME NEW g \in Removers, NEW i \in Conns, ConnectionFails(g, i) PROVE ClosedAreQuiet'
    <2> DEFINE c == [conns[i] EXCEPT !.state = "failed"]
    <2>1. conns[i] \in RouterConnection
        BY DEF RoutingTypes, ConnsOK, Conns
    <2>2. /\ c \in RouterConnection /\ c.forwarding = conns[i].forwarding /\ c.state = "failed"
          /\ conns[i].state = "new" /\ conns' = [conns EXCEPT ![i] = c] /\ UNCHANGED connections
        BY <1>7, <2>1 DEF ConnectionFails, RouterConnection
    <2>3. KeepsTracks
        BY <1>7, ConnectionFailsKeeps
    <2> HIDE DEF c
    <2> QED
        BY <1>2, <2>2, <2>3
<1>8. ASSUME NEW t \in RoutedTracks, RoutePacket(t) PROVE ClosedAreQuiet'
    <2> DEFINE i == router[t].to
               c == Queued(i, t)
    <2>1. UNCHANGED connections /\ KeepsTracks
        BY <1>8, RoutePacketKeeps DEF RoutePacket
    <2>2. CASE UNCHANGED conns
        BY <1>1, <2>1, <2>2
    <2>3. CASE ~UNCHANGED conns
        <3>1. /\ conns' = [conns EXCEPT ![i] = c] /\ i \in Conns /\ c \in RouterConnection
              /\ c.forwarding = conns[i].forwarding /\ c.state = conns[i].state
            BY <1>8, <2>3, SentTo
        <3> HIDE DEF i, c
        <3> QED
            BY <1>2, <2>1, <3>1
    <2> QED
        BY <2>2, <2>3
<1>9. ASSUME NEW i \in Conns, ForwardPacket(i) PROVE ClosedAreQuiet'
    <2> DEFINE p == Head(conns[i].packetChan)
               w == IF p.track \in conns[i].localTracks THEN Append(conns[i].written, p)
                    ELSE conns[i].written
               c == [conns[i] EXCEPT !.packetChan = Tail(@), !.written = w]
    <2>1. conns[i] \in RouterConnection /\ conns[i].packetChan # <<>>
        BY <1>9 DEF RoutingTypes, ConnsOK, Conns, ForwardPacket
    <2>2. conns' = [conns EXCEPT ![i] = c] /\ UNCHANGED connections
        BY <1>9 DEF ForwardPacket
    <2>3. conns[i].packetChan \in Seq(Packet) /\ conns[i].written \in Seq(Packet)
        BY <2>1 DEF RouterConnection
    <2>4. Tail(conns[i].packetChan) \in Seq(Packet) /\ p \in Packet
        BY <2>1, <2>3
    <2>5. w \in Seq(Packet)
        <3> HIDE DEF p
        <3> QED
            BY <2>3, <2>4
    <2>6. c \in RouterConnection /\ c.forwarding = conns[i].forwarding /\ c.state = conns[i].state
        <3> HIDE DEF w
        <3> QED
            BY <2>1, <2>4, <2>5 DEF RouterConnection
    <2>7. KeepsTracks
        BY <1>9, ForwardPacketKeeps
    <2> HIDE DEF c
    <2> QED
        BY <1>2, <2>2, <2>6, <2>7
<1>10. ASSUME NEW i \in Conns, ForwarderEnds(i) PROVE ClosedAreQuiet'
    <2> DEFINE c == [conns[i] EXCEPT !.forwarding = FALSE]
    <2>1. conns[i] \in RouterConnection
        BY DEF RoutingTypes, ConnsOK, Conns
    <2>2. /\ c \in RouterConnection /\ c.forwarding = FALSE /\ c.state = conns[i].state
          /\ conns' = [conns EXCEPT ![i] = c] /\ UNCHANGED connections
        BY <1>10, <2>1 DEF ForwarderEnds, RouterConnection
    <2>3. KeepsTracks
        BY <1>10, ForwarderEndsKeeps
    <2> HIDE DEF c
    <2> QED
        BY <1>2, <2>2, <2>3
<1>11. ASSUME \/ \E g \in Removers : HandleConnectionStateChange(g)
              \/ \E g \in Removers, r \in Receivers : CallRemoveReceiver(g, r)
              \/ \E t \in RoutedTracks : Process(t) \/ LookUp(t)
              \/ UNCHANGED routingVars
       PROVE  ClosedAreQuiet'
    <2>1. UNCHANGED <<conns, connections>>
        BY <1>11 DEF HandleConnectionStateChange, CallRemoveReceiver, Process, LookUp, routingVars
    <2> QED
        BY <1>1, <2>1
<1> QED
    BY <1>3, <1>4, <1>5, <1>6, <1>7, <1>8, <1>9, <1>10, <1>11 DEF RoutingNext


(* The packets of a connection that came on track t: what is written comes  *)
(* before what waits, both in the order they came, and none has a number    *)
(* beyond n.                                                                *)
Earlier(p, q, t) == p.track = t /\ q.track = t => p.number < q.number

NotAfter(p, t, n) == p.track = t => p.number <= n

Rising(s, t) == \A j, k \in 1..Len(s) : j < k => Earlier(s[j], s[k], t)

Upto(s, t, n) == \A j \in 1..Len(s) : NotAfter(s[j], t, n)

InOrder(c, t, n) ==
    /\ Rising(c.written, t) /\ Rising(c.packetChan, t)
    /\ Upto(c.written, t, n) /\ Upto(c.packetChan, t, n)
    /\ \A j \in 1..Len(c.written), k \in 1..Len(c.packetChan) :
          Earlier(c.written[j], c.packetChan[k], t)

(* Who is still to be given the packet of a track has only older ones of    *)
(* it: the connection looked up and those of the receivers left.            *)
Awaited(t) ==
    /\ router[t].number <= routedSoFar /\ IsInjective(router[t].left)
    /\ router[t].to # 0 => InOrder(conns[router[t].to], t, router[t].number - 1)
    /\ \A r \in Range(router[t].left) \cap DOMAIN connections :
          InOrder(conns[connections[r]], t, router[t].number - 1)

WritesInv ==
    /\ \A i \in Conns, t \in RoutedTracks : InOrder(conns[i], t, routedSoFar)
    /\ \A t \in RoutedTracks : router[t].left # <<>> => Awaited(t)

LEMMA InOrderLater ==
    ASSUME NEW c \in RouterConnection, NEW t, NEW n \in Int, NEW m \in Int, n <= m, InOrder(c, t, n)
    PROVE  InOrder(c, t, m)
<1>1. c.written \in Seq(Packet) /\ c.packetChan \in Seq(Packet)
    BY DEF RouterConnection
<1>2. ASSUME NEW s \in Seq(Packet), Upto(s, t, n) PROVE Upto(s, t, m)
    <2> SUFFICES ASSUME NEW j \in 1..Len(s) PROVE NotAfter(s[j], t, m)
        BY DEF Upto
    <2>1. s[j] \in Packet
        OBVIOUS
    <2>2. s[j].number \in Int
        BY <2>1, RoutingAssumption DEF Packet
    <2>3. NotAfter(s[j], t, n)
        BY <1>2 DEF Upto
    <2> QED
        BY <2>2, <2>3 DEF NotAfter
<1> QED
    BY <1>1, <1>2 DEF InOrder

(* A packet is queued that is the latest of its track, if t is its track.   *)
LEMMA PacketQueued ==
    ASSUME NEW c \in RouterConnection, NEW p \in Packet, NEW t, NEW n \in Int, NEW m \in Int,
           InOrder(c, t, n), n <= m, p.track = t => n < p.number /\ p.number <= m,
           NEW d \in RouterConnection, d.written = c.written,
           d.packetChan = Append(c.packetChan, p)
    PROVE  InOrder(d, t, m)
<1> DEFINE s == c.packetChan
           q == Append(s, p)
           w == c.written
<1>1. s \in Seq(Packet) /\ w \in Seq(Packet) /\ p.number \in Int
    BY RoutingAssumption DEF RouterConnection, Packet
<1>2. /\ Len(s) \in Nat /\ Len(q) = Len(s) + 1 /\ q[Len(s) + 1] = p
      /\ \A j \in 1..Len(s) : q[j] = s[j]
    BY <1>1
<1>3. /\ \A x \in Packet : NotAfter(x, t, n) => Earlier(x, p, t) /\ NotAfter(x, t, m)
      /\ NotAfter(p, t, m)
    <2>1. \A x \in Packet : x.number \in Int
        BY RoutingAssumption DEF Packet
    <2> QED
        BY <1>1, <2>1 DEF NotAfter, Earlier
<1>4. /\ \A j \in 1..Len(s) : Earlier(s[j], p, t) /\ NotAfter(s[j], t, m)
      /\ \A j \in 1..Len(w) : Earlier(w[j], p, t) /\ NotAfter(w[j], t, m)
    <2>1. \A j \in 1..Len(s) : s[j] \in Packet
        BY <1>1
    <2>2. \A j \in 1..Len(w) : w[j] \in Packet
        BY <1>1
    <2> QED
        BY <1>3, <2>1, <2>2 DEF InOrder, Upto
<1> HIDE DEF s, q, w
<1>5. Rising(s, t) /\ Rising(w, t) /\ \A j \in 1..Len(w), k \in 1..Len(s) : Earlier(w[j], s[k], t)
    BY DEF InOrder, s, w
<1>6. \A j \in 1..Len(q) : j \in 1..Len(s) \/ j = Len(s) + 1
    BY <1>2
<1>7. Upto(w, t, m) /\ Upto(q, t, m)
    BY <1>2, <1>3, <1>4, <1>6 DEF Upto
<1>8. Rising(q, t)
    <2>1. \A j, k \in 1..Len(q) : j < k => j \in 1..Len(s)
        BY <1>2
    <2> QED
        BY <1>2, <1>4, <1>5, <1>6, <2>1 DEF Rising
<1>9. \A j \in 1..Len(w), k \in 1..Len(q) : Earlier(w[j], q[k], t)
    BY <1>2, <1>4, <1>5, <1>6
<1>10. d.written = w /\ d.packetChan = q
    BY DEF q, w, s
<1> QED
    BY <1>5, <1>7, <1>8, <1>9, <1>10 DEF InOrder

LEMMA PacketForwarded ==
    ASSUME NEW c \in RouterConnection, NEW x, NEW n, InOrder(c, x, n), c.packetChan # <<>>,
           NEW d \in RouterConnection, d.packetChan = Tail(c.packetChan),
           d.written \in {c.written, Append(c.written, Head(c.packetChan))}
    PROVE  InOrder(d, x, n)
<1> DEFINE s == c.packetChan
           t == Tail(s)
           w == c.written
           v == Append(w, Head(s))
<1>1. s \in Seq(Packet) /\ w \in Seq(Packet)
    BY DEF RouterConnection
<1>2. /\ Len(s) \in Nat /\ Len(s) >= 1 /\ Len(t) = Len(s) - 1 /\ \A k \in 1..Len(t) : t[k] = s[k + 1]
      /\ Head(s) = s[1]
    BY <1>1
<1>3. /\ Len(w) \in Nat /\ Len(v) = Len(w) + 1 /\ v[Len(w) + 1] = s[1]
      /\ \A j \in 1..Len(w) : v[j] = w[j]
    BY <1>1, <1>2
<1> HIDE DEF s, t, w, v
<1>5. /\ Rising(s, x) /\ Rising(w, x) /\ \A j \in 1..Len(w), k \in 1..Len(s) : Earlier(w[j], s[k], x)
      /\ Upto(s, x, n) /\ Upto(w, x, n)
    BY DEF InOrder, s, w
<1>6. Rising(t, x) /\ Upto(t, x, n)
    <2>1. \A k \in 1..Len(t) : k + 1 \in 1..Len(s) /\ t[k] = s[k + 1]
        BY <1>2
    <2>2. \A j, k \in 1..Len(t) : j < k => j + 1 < k + 1
        BY <1>2
    <2> QED
        BY <1>5, <2>1, <2>2 DEF Rising, Upto
<1>7. \A k \in 1..Len(t) : Earlier(s[1], t[k], x)
    <2>1. \A k \in 1..Len(t) : k + 1 \in 1..Len(s) /\ 1 < k + 1 /\ t[k] = s[k + 1] /\ 1 \in 1..Len(s)
        BY <1>2
    <2> QED
        BY <1>5, <2>1 DEF Rising
<1>8. 1 \in 1..Len(s)
    BY <1>2
<1>9. Rising(v, x) /\ Upto(v, x, n)
    <2>1. \A j \in 1..Len(w) : Earlier(w[j], s[1], x)
        BY <1>5, <1>8
    <2>2. \A j \in 1..Len(v) : j \in 1..Len(w) \/ j = Len(w) + 1
        BY <1>3
    <2>3. NotAfter(s[1], x, n)
        BY <1>5, <1>8 DEF Upto
    <2> QED
        BY <1>3, <1>5, <2>1, <2>2, <2>3 DEF Rising, Upto
<1>10. /\ \A j \in 1..Len(w), k \in 1..Len(t) : Earlier(w[j], t[k], x)
       /\ \A j \in 1..Len(v), k \in 1..Len(t) : Earlier(v[j], t[k], x)
    <2>1. \A k \in 1..Len(t) : k + 1 \in 1..Len(s) /\ t[k] = s[k + 1]
        BY <1>2
    <2>2. \A j \in 1..Len(w), k \in 1..Len(t) : Earlier(w[j], t[k], x)
        BY <1>5, <2>1
    <2>3. \A j \in 1..Len(v) : j \in 1..Len(w) \/ j = Len(w) + 1
        BY <1>3
    <2> QED
        BY <1>3, <1>7, <2>2, <2>3
<1>11. d.packetChan = t /\ (d.written = w \/ d.written = v)
    BY DEF t, w, v, s
<1> QED
    BY <1>5, <1>6, <1>9, <1>10, <1>11 DEF InOrder


(* What most steps leave as it is.                                          *)
ContentsStay ==
    \A k \in Conns : conns'[k].written = conns[k].written /\ conns'[k].packetChan = conns[k].packetChan

LEMMA ContentsKept ==
    ASSUME RoutingTypes,
           \/ \E r \in Receivers, t \in RoutedTracks : AddTrackToReceiver(r, t)
           \/ \E g \in Removers : RemoveReceiver(g) \/ FinishRemoval(g)
           \/ \E g \in Removers, i \in Conns : ConnectionFails(g, i)
           \/ \E i \in Conns : ForwarderEnds(i)
    PROVE  ContentsStay /\ Conns' = Conns /\ UNCHANGED <<router, routedSoFar>>
<1>0. /\ DOMAIN conns = Conns /\ conns \in Seq(RouterConnection)
      /\ \A k \in Conns : conns[k] \in RouterConnection
    BY DEF RoutingTypes, ConnsOK, Conns
<1>1. ASSUME NEW r \in Receivers, NEW t \in RoutedTracks, AddTrackToReceiver(r, t)
      PROVE  ContentsStay /\ Conns' = Conns
    <2>1. r \in DOMAIN connections
          /\ conns' = [conns EXCEPT ![connections[r]].localTracks = @ \cup {t}]
        BY <1>1 DEF AddTrackToReceiver
    <2>2. connections[r] \in Conns
        BY <2>1, ConnectedIsOne
    <2>3. Conns' = Conns
        BY <1>0, <2>1, <2>2 DEF Conns
    <2> QED
        BY <1>0, <2>1, <2>2, <2>3 DEF ContentsStay, RouterConnection
<1>2. ASSUME NEW g \in Removers, RemoveReceiver(g)
      PROVE  ContentsStay /\ Conns' = Conns
    <2>1. Conns' = Conns
        BY <1>2, RemoveReceiverKeeps, KeepsTypes
    <2>2. ASSUME NEW k \in Conns, conns' = [conns EXCEPT ![k].closed = TRUE]
          PROVE  ContentsStay
        <3>1. conns'[k] = [conns[k] EXCEPT !.closed = TRUE] /\ \A j \in Conns \ {k} : conns'[j] = conns[j]
            BY <1>0, <2>2
        <3>2. conns'[k].written = conns[k].written /\ conns'[k].packetChan = conns[k].packetChan
            BY <1>0, <3>1 DEF RouterConnection
        <3> QED
            BY <3>1, <3>2 DEF ContentsStay
    <2>3. CASE removing[g].id \notin DOMAIN connections
        BY <1>2, <2>1, <2>3 DEF RemoveReceiver, ContentsStay
    <2>4. CASE removing[g].id \in DOMAIN connections
        <3>1. connections[removing[g].id] \in Conns
            BY <2>4, ConnectedIsOne
        <3> QED
            BY <1>2, <2>1, <2>2, <2>4, <3>1 DEF RemoveReceiver
    <2> QED
        BY <2>3, <2>4
<1>3. ASSUME NEW g \in Removers, FinishRemoval(g)
      PROVE  ContentsStay /\ Conns' = Conns
    <2>1. Conns' = Conns
        BY <1>3, FinishRemovalKeeps, KeepsTypes
    <2>2. removing[g].id \in DOMAIN connections
          /\ conns' = [conns EXCEPT ![connections[removing[g].id]].state = "closed"]
        BY <1>3 DEF FinishRemoval, RoutingTypes, RemovingOK
    <2>3. connections[removing[g].id] \in Conns
        BY <2>2, ConnectedIsOne
    <2> QED
        BY <1>0, <2>1, <2>2, <2>3 DEF ContentsStay, RouterConnection
<1>4. ASSUME NEW g \in Removers, NEW i \in Conns, ConnectionFails(g, i)
      PROVE  ContentsStay /\ Conns' = Conns
    <2>1. Conns' = Conns
        BY <1>4, ConnectionFailsKeeps, KeepsTypes
    <2> QED
        BY <1>0, <1>4, <2>1 DEF ConnectionFails, ContentsStay, RouterConnection
<1>5. ASSUME NEW i \in Conns, ForwarderEnds(i)
      PROVE  ContentsStay /\ Conns' = Conns
    <2>1. Conns' = Conns
        BY <1>5, ForwarderEndsKeeps, KeepsTypes
    <2> QED
        BY <1>0, <1>5, <2>1 DEF ForwarderEnds, ContentsStay, RouterConnection
<1>6. UNCHANGED <<router, routedSoFar>>
    BY DEF AddTrackToReceiver, RemoveReceiver, FinishRemoval, ConnectionFails, ForwarderEnds
<1> QED
    BY <1>1, <1>2, <1>3, <1>4, <1>5, <1>6

(* With the contents the order stays, when no receiver is newly connected.  *)
LEMMA WritesStay ==
    ASSUME RoutingTypes, WritesInv, ContentsStay, Conns' = Conns,
           UNCHANGED <<router, routedSoFar>>,
           \A r \in DOMAIN connections' : r \in DOMAIN connections /\ connections'[r] = connections[r]
    PROVE  WritesInv'
<1>1. \A k \in Conns : \A t, n : InOrder(conns[k], t, n) => InOrder(conns'[k], t, n)
    BY DEF ContentsStay, InOrder
<1>2. \A r \in DOMAIN connections : connections[r] \in Conns
    BY ConnectedIsOne
<1>3. \A t \in RoutedTracks : router[t].to # 0 => router[t].to \in Conns
    BY DEF RoutingTypes, RouterOK, OnItsWay
<1>4. ASSUME NEW t \in RoutedTracks, Awaited(t) PROVE Awaited(t)'
    BY <1>1, <1>2, <1>3, <1>4 DEF Awaited
<1> QED
    BY <1>1, <1>4 DEF WritesInv

LEMMA CreateReceiverWrites ==
    ASSUME RoutingTypes, WritesInv, NEW r \in Receivers, CreateReceiver(r)
    PROVE  WritesInv'
<1> DEFINE n == Len(conns) + 1
<1>1. /\ conns \in Seq(RouterConnection) /\ UNCHANGED <<router, routedSoFar>>
      /\ conns' = Append(conns, NewConnection(r)) /\ connections' = With(connections, r, Len(conns'))
    BY DEF CreateReceiver, RoutingTypes, ConnsOK
<1>2. \A t, k : InOrder(NewConnection(r), t, k)
    BY DEF NewConnection, InOrder, Rising, Upto
<1> DEFINE c == NewConnection(r)
<1>3. c \in RouterConnection
    BY DEF NewConnection, RouterConnection
<1> HIDE DEF c
<1>4. /\ Conns' = Conns \cup {n} /\ n \notin Conns
      /\ conns'[n] = c /\ \A k \in Conns : conns'[k] = conns[k]
      /\ Len(conns') = n
    BY <1>1, <1>3 DEF Conns, c
<1>5. /\ DOMAIN connections' = DOMAIN connections \cup {r} /\ connections'[r] = n
      /\ \A q \in DOMAIN connections \ {r} : connections'[q] = connections[q]
    BY <1>1, <1>4 DEF With
<1>6. \A q \in DOMAIN connections : connections[q] \in Conns
    BY ConnectedIsOne
<1>7. \A k \in Conns', t \in RoutedTracks : InOrder(conns'[k], t, routedSoFar')
    BY <1>1, <1>2, <1>4 DEF WritesInv, c
<1>8. \A q \in DOMAIN connections' : \A t, k :
          (q \in DOMAIN connections => InOrder(conns[connections[q]], t, k))
              => InOrder(conns'[connections'[q]], t, k)
    BY <1>2, <1>4, <1>5, <1>6 DEF c
<1>9. \A t \in RoutedTracks : router[t].to # 0 => router[t].to \in Conns
    BY DEF RoutingTypes, RouterOK, OnItsWay
<1>10. ASSUME NEW t \in RoutedTracks, Awaited(t) PROVE Awaited(t)'
    BY <1>1, <1>4, <1>8, <1>9, <1>10 DEF Awaited
<1> QED
    BY <1>1, <1>7, <1>10 DEF WritesInv

(* One track's goroutine goes on, the connections as they are.               *)
LEMMA RouterWrites ==
    ASSUME RoutingTypes, WritesInv, UNCHANGED <<conns, connections>>,
           NEW t \in RoutedTracks, NEW w, router' = [router EXCEPT ![t] = w],
           routedSoFar' \in Int, routedSoFar <= routedSoFar',
           w.left # <<>> =>
               /\ w.number <= routedSoFar' /\ IsInjective(w.left)
               /\ w.to # 0 => InOrder(conns[w.to], t, w.number - 1)
               /\ \A r \in Range(w.left) \cap DOMAIN connections :
                     InOrder(conns[connections[r]], t, w.number - 1)
    PROVE  WritesInv'
<1>1. routedSoFar \in Int /\ DOMAIN router = RoutedTracks /\ \A u \in RoutedTracks : router[u].number \in Int
    BY RoutingAssumption DEF RoutingTypes, RouterOK, Routing
<1>2. router'[t] = w /\ \A u \in RoutedTracks \ {t} : router'[u] = router[u]
    BY <1>1
<1>3. Conns' = Conns /\ \A i \in Conns : conns[i] \in RouterConnection
    BY DEF Conns, RoutingTypes, ConnsOK
<1>4. \A i \in Conns, u \in RoutedTracks : InOrder(conns[i], u, routedSoFar')
    BY <1>1, <1>3, InOrderLater DEF WritesInv
<1>5. ASSUME NEW u \in RoutedTracks, router'[u].left # <<>> PROVE Awaited(u)'
    <2>1. CASE u = t
        BY <1>2, <1>5, <2>1 DEF Awaited
    <2>2. CASE u # t
        <3>1. router'[u] = router[u] /\ Awaited(u)
            BY <1>2, <1>5, <2>2 DEF WritesInv
        <3>2. router[u].number <= routedSoFar'
            BY <1>1, <3>1 DEF Awaited
        <3> QED
            BY <3>1, <3>2 DEF Awaited
    <2> QED
        BY <2>1, <2>2
<1> QED
    BY <1>3, <1>4, <1>5 DEF WritesInv

LEMMA ProcessWrites ==
    ASSUME RoutesInv, WritesInv, NEW t \in RoutedTracks, Process(t)
    PROVE  WritesInv'
<1> DEFINE w == IF Routes(t) = <<>> THEN router[t]
                ELSE [number |-> routedSoFar + 1, left |-> Routes(t), to |-> 0]
<1>0. RoutingTypes /\ routedSoFar \in Nat /\ router \in [RoutedTracks -> Routing]
    BY RoutingAssumption DEF RoutesInv, RoutingTypes, RouterOK
<1>1. /\ routedSoFar' = routedSoFar + 1 /\ UNCHANGED <<conns, connections>>
      /\ router' = [router EXCEPT ![t] = w] /\ router[t].left = <<>>
    <2>1. /\ routedSoFar' = routedSoFar + 1 /\ UNCHANGED <<conns, connections>>
          /\ router[t].left = <<>>
        BY DEF Process, NoPacket
    <2>2. CASE Routes(t) = <<>>
        <3>1. router' = router /\ w = router[t] /\ router = [router EXCEPT ![t] = router[t]]
            BY <1>0, <2>2 DEF Process
        <3> QED
            BY <2>1, <3>1, Zenon
    <2>3. CASE Routes(t) # <<>>
        <3>1. router' = [router EXCEPT ![t] = [number |-> routedSoFar', left |-> Routes(t), to |-> 0]]
            BY <2>3 DEF Process
        <3>2. w = [number |-> routedSoFar', left |-> Routes(t), to |-> 0]
            BY <2>1, <2>3
        <3> HIDE DEF w
        <3> QED
            BY <2>1, <3>1, <3>2, Zenon
    <2> QED
        BY <2>2, <2>3
<1>2. \A r \in DOMAIN connections : InOrder(conns[connections[r]], t, routedSoFar)
    BY <1>0, ConnectedIsOne DEF WritesInv
<1>3. /\ routedSoFar' \in Int /\ routedSoFar <= routedSoFar' /\ routedSoFar' <= routedSoFar'
      /\ (routedSoFar + 1) - 1 = routedSoFar
    BY <1>0, <1>1
<1>4. w.left # <<>> =>
        /\ w.number = routedSoFar + 1 /\ w.to = 0 /\ w.left = Routes(t) /\ IsInjective(w.left)
    BY <1>1 DEF RoutesInv, RoutesOnce
<1> HIDE DEF w
<1> QED
    BY <1>0, <1>1, <1>2, <1>3, <1>4, RouterWrites

(* Whom the rest of the packet goes to.                                     *)
LEMMA GivenAwaited ==
    ASSUME NEW w \in Routing, w.left # <<>>, IsInjective(w.left), Given(w).left # <<>>
    PROVE  /\ Given(w).number = w.number /\ Given(w).to = 0 /\ Given(w).left = Tail(w.left)
           /\ IsInjective(Given(w).left) /\ Head(w.left) \in Range(w.left)
           /\ Range(Given(w).left) = Range(w.left) \ {Head(w.left)}
<1>1. w.left \in Seq(Receivers)
    BY DEF Routing
<1>2. Given(w) = [number |-> w.number, left |-> Tail(w.left), to |-> 0]
    BY DEF Given, NoPacket
<1> QED
    BY <1>1, <1>2, TakesHead

LEMMA LookUpWrites ==
    ASSUME RoutingTypes, WritesInv, NEW t \in RoutedTracks, LookUp(t)
    PROVE  WritesInv'
<1> DEFINE r == Head(router[t].left)
           found == [router[t] EXCEPT !.to = connections[r]]
<1>1. /\ router[t] \in Routing /\ router[t].left # <<>> /\ Awaited(t)
      /\ UNCHANGED <<conns, connections, routedSoFar>>
      /\ routedSoFar' \in Int /\ routedSoFar <= routedSoFar'
    BY RoutingAssumption DEF LookUp, RoutingTypes, RouterOK, WritesInv
<1>2. CASE r \in DOMAIN connections
    <2>1. router' = [router EXCEPT ![t] = found]
        BY <1>2 DEF LookUp
    <2>2. /\ found.number = router[t].number /\ found.left = router[t].left
          /\ found.to = connections[r]
        BY <1>1 DEF Routing
    <2>3. r \in Range(router[t].left)
        <3>1. router[t].left \in Seq(Receivers)
            BY <1>1 DEF Routing
        <3> QED
            BY <1>1, <3>1, TakesHead DEF Awaited
    <2>4. InOrder(conns[connections[r]], t, router[t].number - 1)
        BY <1>1, <1>2, <2>3 DEF Awaited
    <2>5. /\ router[t].number <= routedSoFar' /\ IsInjective(router[t].left)
          /\ \A q \in Range(router[t].left) \cap DOMAIN connections :
                InOrder(conns[connections[q]], t, router[t].number - 1)
        BY <1>1 DEF Awaited
    <2> HIDE DEF found, r
    <2> QED
        BY <1>1, <2>1, <2>2, <2>4, <2>5, RouterWrites
<1>3. CASE r \notin DOMAIN connections
    <2>1. router' = [router EXCEPT ![t] = Given(router[t])]
        BY <1>3 DEF LookUp
    <2>2. Given(router[t]).left # <<>> =>
            /\ Given(router[t]).number = router[t].number /\ Given(router[t]).to = 0
            /\ IsInjective(Given(router[t]).left)
            /\ Range(Given(router[t]).left) \subseteq Range(router[t].left)
        BY <1>1, GivenAwaited DEF Awaited
    <2>3. /\ router[t].number <= routedSoFar'
          /\ \A q \in Range(router[t].left) \cap DOMAIN connections :
                InOrder(conns[connections[q]], t, router[t].number - 1)
        BY <1>1 DEF Awaited
    <2> QED
        BY <1>1, <2>1, <2>2, <2>3, RouterWrites
<1> QED
    BY <1>2, <1>3

LEMMA RoutePacketWrites ==
    ASSUME RoutingTypes, WritesInv, NEW t \in RoutedTracks, RoutePacket(t)
    PROVE  WritesInv'
<1> DEFINE i == router[t].to
           c == Queued(i, t)
           n == router[t].number
           g == Given(router[t])
<1>1. /\ router[t] \in Routing /\ router[t].left # <<>> /\ Awaited(t)
      /\ UNCHANGED <<connections, routedSoFar>> /\ router' = [router EXCEPT ![t] = g]
      /\ routedSoFar \in Int /\ n \in Int /\ n - 1 < n /\ n <= routedSoFar /\ n - 1 \in Int /\ n - 1 <= n
      /\ i # 0 /\ i \in Conns /\ conns[i] \in RouterConnection /\ conns[i].id = Head(router[t].left)
      /\ DOMAIN router = RoutedTracks
    <2>1. router[t] \in Routing /\ router[t].left # <<>> /\ Awaited(t)
        BY SentPacket DEF WritesInv
    <2>2. routedSoFar \in Int /\ n \in Int /\ n <= routedSoFar /\ DOMAIN router = RoutedTracks
        BY <2>1, RoutingAssumption DEF RoutingTypes, RouterOK, Routing, Awaited
    <2>3. n - 1 < n /\ n - 1 \in Int /\ n - 1 <= n
        BY <2>2
    <2> QED
        BY <2>1, <2>2, <2>3, SentPacket DEF RoutePacket
<1>2. g.left # <<>> =>
        /\ g.number = n /\ g.to = 0 /\ IsInjective(g.left)
        /\ Range(g.left) = Range(router[t].left) \ {Head(router[t].left)}
    BY <1>1, GivenAwaited DEF Awaited
<1>3. InOrder(conns[i], t, n - 1)
    BY <1>1 DEF Awaited
<1>4. \A q \in DOMAIN connections : connections[q] \in Conns /\ conns[connections[q]].id = q
    BY DEF RoutingTypes, ConnectionsOK
<1>5. CASE UNCHANGED conns
    <2>1. g.left # <<>> => \A q \in Range(g.left) \cap DOMAIN connections :
                              InOrder(conns[connections[q]], t, n - 1)
        BY <1>1, <1>2 DEF Awaited
    <2>2. routedSoFar' \in Int /\ routedSoFar <= routedSoFar' /\ n <= routedSoFar'
        BY <1>1
    <2> HIDE DEF g, n, i
    <2> QED
        BY <1>1, <1>2, <1>5, <2>1, <2>2, RouterWrites
<1>6. CASE ~UNCHANGED conns
    <2>1. /\ conns' = [conns EXCEPT ![i] = c] /\ c \in RouterConnection
          /\ c.packetChan = Append(conns[i].packetChan, PacketOf(t))
          /\ c.written = conns[i].written
        BY <1>6, SentTo
    <2>2. Conns' = Conns
        BY RoutePacketKeeps, KeepsTypes
    <2>3. OnlyChanges(i, c)
        <3> HIDE DEF i, c
        <3> QED
            BY <1>1, <2>1, OneChanges
    <2>4. PacketOf(t) \in Packet /\ PacketOf(t).track = t /\ PacketOf(t).number = n
        BY SentPacket DEF PacketOf
    <2> HIDE DEF c, i, n, g
    <2>5. InOrder(c, t, n)
        BY <1>1, <1>3, <2>1, <2>4, PacketQueued
    <2>6. ASSUME NEW u \in RoutedTracks \ {t}, NEW m \in Int, InOrder(conns[i], u, m)
          PROVE  InOrder(c, u, m)
        <3>1. m <= m /\ PacketOf(t).track # u
            BY <2>4, <2>6
        <3> QED
            BY <1>1, <2>1, <2>4, <2>6, <3>1, PacketQueued
    <2>7. InOrder(c, t, routedSoFar)
        BY <1>1, <2>1, <2>5, InOrderLater
    <2>8. \A k \in Conns, u \in RoutedTracks : InOrder(conns'[k], u, routedSoFar)
        BY <1>1, <2>3, <2>6, <2>7 DEF WritesInv, OnlyChanges
    <2>9. ASSUME NEW u \in RoutedTracks \ {t}, NEW k \in Conns, NEW m \in Int, InOrder(conns[k], u, m)
          PROVE  InOrder(conns'[k], u, m)
        BY <2>3, <2>6, <2>9 DEF OnlyChanges
    <2>10. ASSUME NEW u \in RoutedTracks, router'[u].left # <<>> PROVE Awaited(u)'
        <3>1. CASE u = t
            <4>1. router'[u] = g /\ g.left # <<>>
                BY <1>1, <2>10, <3>1
            <4>2. \A q \in Range(g.left) \cap DOMAIN connections :
                      /\ connections[q] # i /\ connections[q] \in Conns
                      /\ InOrder(conns[connections[q]], t, n - 1)
                BY <1>1, <1>2, <1>4, <4>1 DEF Awaited, n
            <4>3. \A q \in Range(g.left) \cap DOMAIN connections :
                      InOrder(conns'[connections[q]], t, n - 1)
                BY <2>3, <4>2 DEF OnlyChanges
            <4> QED
                BY <1>1, <1>2, <3>1, <4>1, <4>3 DEF Awaited
        <3>2. CASE u # t
            <4>1. router'[u] = router[u] /\ Awaited(u)
                BY <1>1, <2>10, <3>2 DEF WritesInv
            <4>2. router[u].number - 1 \in Int /\ (router[u].to # 0 => router[u].to \in Conns)
                BY RoutingAssumption DEF RoutingTypes, RouterOK, Routing, OnItsWay
            <4>3. router[u].to # 0 => InOrder(conns'[router[u].to], u, router[u].number - 1)
                BY <2>9, <3>2, <4>1, <4>2 DEF Awaited
            <4>4. \A q \in Range(router[u].left) \cap DOMAIN connections :
                      InOrder(conns'[connections[q]], u, router[u].number - 1)
                BY <1>4, <2>9, <3>2, <4>1, <4>2 DEF Awaited
            <4> QED
                BY <1>1, <4>1, <4>3, <4>4 DEF Awaited
        <3> QED
            BY <3>1, <3>2
    <2> QED
        BY <1>1, <2>2, <2>8, <2>10 DEF WritesInv
<1> QED
    BY <1>5, <1>6

LEMMA ForwardPacketWrites ==
    ASSUME RoutingTypes, WritesInv, NEW i \in Conns, ForwardPacket(i)
    PROVE  WritesInv'
<1> DEFINE p == Head(conns[i].packetChan)
           w == IF p.track \in conns[i].localTracks THEN Append(conns[i].written, p)
                ELSE conns[i].written
           c == [conns[i] EXCEPT !.packetChan = Tail(@), !.written = w]
<1>1. /\ conns[i] \in RouterConnection /\ conns[i].packetChan # <<>>
      /\ routedSoFar \in Int /\ Conns' = Conns
    BY ForwardPacketKeeps, KeepsTypes, RoutingAssumption
       DEF RoutingTypes, ConnsOK, RouterOK, Conns, ForwardPacket
<1>2. conns' = [conns EXCEPT ![i] = c] /\ UNCHANGED <<connections, router, routedSoFar>>
    BY DEF ForwardPacket
<1>3. conns[i].packetChan \in Seq(Packet) /\ conns[i].written \in Seq(Packet)
    BY <1>1 DEF RouterConnection
<1>4. Tail(conns[i].packetChan) \in Seq(Packet) /\ p \in Packet
    BY <1>1, <1>3
<1>5. w \in Seq(Packet) /\ w \in {conns[i].written, Append(conns[i].written, p)}
    <2> HIDE DEF p
    <2> QED
        BY <1>3, <1>4
<1>6. c \in RouterConnection /\ c.packetChan = Tail(conns[i].packetChan) /\ c.written = w
    <2> HIDE DEF w
    <2> QED
        BY <1>1, <1>4, <1>5 DEF RouterConnection
<1> HIDE DEF c
<1>7. OnlyChanges(i, c)
    BY <1>2, OneChanges
<1>8. \A t, n : InOrder(conns[i], t, n) => InOrder(c, t, n)
    <2> HIDE DEF w
    <2> QED
        BY <1>1, <1>5, <1>6, PacketForwarded
<1>9. \A r \in DOMAIN connections : connections[r] \in Conns
    BY ConnectedIsOne
<1>10. \A t \in RoutedTracks : router[t].to # 0 => router[t].to \in Conns
    BY DEF RoutingTypes, RouterOK, OnItsWay
<1>11. \A k \in Conns : \A t, n : InOrder(conns[k], t, n) => InOrder(conns'[k], t, n)
    BY <1>7, <1>8 DEF OnlyChanges
<1>12. ASSUME NEW t \in RoutedTracks, Awaited(t) PROVE Awaited(t)'
    BY <1>2, <1>9, <1>10, <1>11, <1>12 DEF Awaited
<1> QED
    BY <1>1, <1>2, <1>11, <1>12 DEF WritesInv

LEMMA WritesNext ==
    ASSUME RoutesInv, WritesInv, [RoutingNext]_routingVars
    PROVE  WritesInv'
<1>0. RoutingTypes
    BY DEF RoutesInv
<1>1. CASE \/ \E r \in Receivers, t \in RoutedTracks : AddTrackToReceiver(r, t)
           \/ \E g \in Removers : RemoveReceiver(g)
           \/ \E g \in Removers, i \in Conns : ConnectionFails(g, i)
           \/ \E i \in Conns : ForwarderEnds(i)
    <2>1. UNCHANGED connections
        BY <1>1 DEF AddTrackToReceiver, RemoveReceiver, ConnectionFails, ForwarderEnds
    <2> QED
        BY <1>0, <1>1, <2>1, ContentsKept, WritesStay
<1>2. ASSUME NEW g \in Removers, FinishRemoval(g) PROVE WritesInv'
    <2>1. \A r \in DOMAIN connections' : r \in DOMAIN connections /\ connections'[r] = connections[r]
        BY <1>2 DEF FinishRemoval, Without
    <2> QED
        BY <1>0, <1>2, <2>1, ContentsKept, WritesStay
<1>3. ASSUME \/ \E g \in Removers : HandleConnectionStateChange(g)
             \/ \E g \in Removers, r \in Receivers : CallRemoveReceiver(g, r)
             \/ UNCHANGED routingVars
      PROVE  WritesInv'
    <2>1. UNCHANGED <<conns, connections, router, routedSoFar>>
        BY <1>3 DEF HandleConnectionStateChange, CallRemoveReceiver, routingVars
    <2>2. ContentsStay /\ Conns' = Conns
        BY <2>1 DEF ContentsStay, Conns
    <2> QED
        BY <1>0, <2>1, <2>2, WritesStay
<1> QED
    BY <1>0, <1>1, <1>2, <1>3, CreateReceiverWrites, ProcessWrites, LookUpWrites,
       RoutePacketWrites, ForwardPacketWrites DEF RoutingNext

LEMMA WritesAreInOrder == RoutingTypes /\ WritesInv => WrittenInOrder
<1> SUFFICES ASSUME RoutingTypes, WritesInv, NEW i \in Conns
             PROVE  LET all == conns[i].written \o conns[i].packetChan
                    IN \A j, k \in 1..Len(all) : j < k => InTurn(all[j], all[k])
    BY DEF WrittenInOrder
<1> DEFINE w == conns[i].written
           s == conns[i].packetChan
           all == w \o s
<1>1. w \in Seq(Packet) /\ s \in Seq(Packet)
    <2>1. conns[i] \in RouterConnection
        BY DEF RoutingTypes, ConnsOK, Conns
    <2> QED
        BY <2>1 DEF RouterConnection
<1>2. \A t \in RoutedTracks : InOrder(conns[i], t, routedSoFar)
    BY DEF WritesInv
<1> HIDE DEF w, s
<1>3. \A j \in 1..Len(all) : all[j] \in Packet
    <2>1. all \in Seq(Packet)
        BY <1>1
    <2> QED
        BY <2>1
<1>4. /\ Len(all) = Len(w) + Len(s) /\ Len(w) \in Nat /\ Len(s) \in Nat
      /\ \A j \in 1..Len(w) : all[j] = w[j]
      /\ \A j \in 1..Len(s) : all[Len(w) + j] = s[j]
    BY <1>1
<1>5. \A t \in RoutedTracks :
          /\ Rising(w, t) /\ Rising(s, t)
          /\ \A j \in 1..Len(w), k \in 1..Len(s) : Earlier(w[j], s[k], t)
    BY <1>2 DEF InOrder, w, s
<1> HIDE DEF all
<1>6. ASSUME NEW t \in RoutedTracks, NEW j \in 1..Len(all), NEW k \in 1..Len(all), j < k
      PROVE  Earlier(all[j], all[k], t)
    <2>1. CASE k <= Len(w)
        <3>1. j \in 1..Len(w) /\ k \in 1..Len(w)
            BY <1>4, <1>6, <2>1
        <3> QED
            BY <1>4, <1>5, <1>6, <3>1 DEF Rising
    <2>2. CASE j <= Len(w) /\ k > Len(w)
        <3>1. j \in 1..Len(w) /\ k - Len(w) \in 1..Len(s) /\ Len(w) + (k - Len(w)) = k
            BY <1>4, <2>2
        <3> QED
            BY <1>4, <1>5, <3>1
    <2>3. CASE j > Len(w)
        <3> DEFINE x == j - Len(w)
                   y == k - Len(w)
        <3>1. /\ x \in 1..Len(s) /\ y \in 1..Len(s) /\ x < y
              /\ j = Len(w) + x /\ k = Len(w) + y
            BY <1>4, <1>6, <2>3
        <3> HIDE DEF x, y
        <3>2. all[j] = s[x] /\ all[k] = s[y]
            BY <1>4, <3>1
        <3> QED
            BY <1>5, <3>1, <3>2 DEF Rising
    <2> QED
        BY <1>4, <2>1, <2>2, <2>3
<1>7. ASSUME NEW j \in 1..Len(all), NEW k \in 1..Len(all), j < k PROVE InTurn(all[j], all[k])
    <2>1. all[j].track \in RoutedTracks
        BY <1>3 DEF Packet
    <2>2. Earlier(all[j], all[k], all[j].track)
        BY <1>6, <1>7, <2>1
    <2> QED
        BY <2>2 DEF Earlier, InTurn
<1> QED
    BY <1>7 DEF all, w, s

(* For any number of receivers, tracks and removers: the stage is well      *)
(* typed; a connection that was removed is closed, and its goroutine ended  *)
(* before; and what a connection has written, and then what waits in its    *)
(* channel, are packets that come, track by track, in the order they came   *)
(* and none twice, also when packets of several tracks are on their way and *)
(* the receiver left and came back between lookup and send.                 *)
THEOREM RoutingCorrect == RoutingSpec => [](RoutingTypeOK /\ ClosedAreQuiet /\ WrittenInOrder)
<1> DEFINE Inv == RoutesInv /\ ClosedAreQuiet /\ WritesInv
<1>1. RoutingInit => Inv
    <2> SUFFICES ASSUME RoutingInit PROVE Inv
        OBVIOUS
    <2>1. Conns = {} /\ \A t \in RoutedTracks : router[t].left = <<>>
        BY DEF RoutingInit, Conns, NoPacket
    <2> QED
        BY <2>1, RoutesInvInit DEF ClosedAreQuiet, WritesInv
<1>2. Inv /\ [RoutingNext]_routingVars => Inv'
    BY RoutesInvNext, QuietNext, WritesNext DEF RoutesInv
<1>3. Inv => RoutingTypeOK /\ ClosedAreQuiet /\ WrittenInOrder
    <2>1. RoutingTypes => RoutingTypeOK
        BY DEF RoutingTypes, ConnsOK, ConnectionsOK, TableOK, RemovingOK, RouterOK, StatsOK,
               OnItsWay, RoutingTypeOK
    <2> QED
        BY <2>1, WritesAreInOrder DEF RoutesInv
<1> QED
    BY <1>1, <1>2, <1>3, PTL DEF RoutingSpec

-------------------------------------------------------------------------------
(* The calls of the translation stage are counted.                            *)

Unrecorded == {c \in Goroutines : calls[c].at \in {"succeeded", "failed"}}

\* CallsCounted for any number of goroutines: those that are about to record are finitely many.
CountInv ==
    /\ BreakerInv /\ TranslationStageTypeOK
    /\ IsFiniteSet(Unrecorded)
    /\ CallsCounted

LEMMA CountInit == TranslationStageInit => CountInv
  <1> SUFFICES ASSUME TranslationStageInit PROVE CountInv
    OBVIOUS
  <1>1. TranslationStageTypeOK
    BY TranslationAssumption
    DEF TranslationStageInit, TranslationStageTypeOK, NoCall, CallAt, NoTranslations
  <1>2. Unrecorded = {}
    BY DEF TranslationStageInit, Unrecorded, NoCall
  <1>3. IsFiniteSet(Unrecorded) /\ Cardinality(Unrecorded) = 0
    BY <1>2, FS_EmptySet
  <1> QED
    BY <1>1, <1>3, BreakerInvInit DEF CountInv, CallsCounted, TranslationStageInit, Unrecorded

\* A goroutine that moves on is or is not about to record.
LEMMA MoveCounts ==
  ASSUME CountInv, NEW c \in Goroutines, NEW at \in CallAt, Moves(c, at)
  PROVE  /\ calls' \in [Goroutines -> [at : CallAt, langs : SUBSET Languages]]
         /\ Unrecorded' = IF at \in {"succeeded", "failed"} THEN Unrecorded \cup {c} ELSE Unrecorded \ {c}
  <1>1. calls \in [Goroutines -> [at : CallAt, langs : SUBSET Languages]]
    BY DEF CountInv, TranslationStageTypeOK
  <1>2. /\ \A d \in Goroutines \ {c} : calls'[d] = calls[d]
        /\ calls'[c].at = at /\ calls'[c] \in [at : CallAt, langs : SUBSET Languages]
    BY <1>1 DEF Moves
  <1> QED
    BY <1>1, <1>2 DEF Moves, Unrecorded

LEMMA CountKept ==
  ASSUME CountInv, TranslationStageTypeOK', BreakerInv', IsFiniteSet(Unrecorded'),
         apiMetrics'.totalCalls - apiMetrics'.successfulCalls - apiMetrics'.failedCalls
             - Cardinality(Unrecorded')
           = apiMetrics.totalCalls - apiMetrics.successfulCalls - apiMetrics.failedCalls
             - Cardinality(Unrecorded),
         breaker'.state = "open" <=> apiMetrics'.circuitBreakerTrips > 0
  PROVE  CountInv'
  <1>1. /\ Cardinality(Unrecorded) \in Nat /\ Cardinality(Unrecorded') \in Nat
        /\ apiMetrics.totalCalls \in Nat /\ apiMetrics'.totalCalls \in Nat
        /\ apiMetrics.successfulCalls \in Nat /\ apiMetrics'.successfulCalls \in Nat
        /\ apiMetrics.failedCalls \in Nat /\ apiMetrics'.failedCalls \in Nat
    BY FS_CardinalityType DEF CountInv, TranslationStageTypeOK
  <1>2. apiMetrics.totalCalls = apiMetrics.successfulCalls + apiMetrics.failedCalls + Cardinality(Unrecorded)
    BY DEF CountInv, CallsCounted, Unrecorded
  <1>3. apiMetrics'.totalCalls
          = apiMetrics'.successfulCalls + apiMetrics'.failedCalls + Cardinality(Unrecorded')
    BY <1>1, <1>2
  <1>4. CallsCounted'
    BY <1>3 DEF CallsCounted, Unrecorded
  <1> QED
    BY <1>4 DEF CountInv

\* Calls that do not touch the figures.
LEMMA QuietMoves ==
  ASSUME CountInv, TranslationStageTypeOK', BreakerInv', UNCHANGED breaker, Unrecorded' = Unrecorded,
         UNCHANGED <<apiMetrics.totalCalls, apiMetrics.successfulCalls, apiMetrics.failedCalls,
                     apiMetrics.circuitBreakerTrips>>
  PROVE  CountInv'
  BY CountKept DEF CountInv, CallsCounted

LEMMA CallCounts ==
  ASSUME CountInv, NEW c \in Goroutines, BreakerInv',
         AskBreaker(c) \/ AskLimiter(c) \/ CallOpenAI(c) \/ RecordAPISuccess(c) \/ RecordAPIFailure(c)
  PROVE  CountInv'
  <1> DEFINE Metrics == [totalCalls : Nat, successfulCalls : Nat, failedCalls : Nat,
                         circuitBreakerTrips : Nat, rateLimitExceeded : Nat]
  <1>1. /\ apiMetrics \in Metrics /\ tokens \in 0..Burst
        /\ translationStats \in [total : Nat, successful : Nat, failed : Nat, skipped : Nat]
        /\ breaker.failureCount \in Nat /\ breaker.state \in {"closed", "open"}
    BY DEF CountInv, TranslationStageTypeOK, BreakerInv
  <1>2. /\ breaker' \in [state : {"closed", "open", "halfOpen"}, failureCount : Nat]
        /\ retryDue' \in BOOLEAN
    BY DEF BreakerInv
  <1>3. /\ IsFiniteSet(Unrecorded) /\ Cardinality(Unrecorded) \in Nat
        /\ breaker.state = "open" <=> apiMetrics.circuitBreakerTrips > 0
    BY FS_CardinalityType DEF CountInv, CallsCounted
  <1>4. ASSUME NEW at \in CallAt, Moves(c, at), at \notin {"succeeded", "failed"},
               calls[c].at \notin {"succeeded", "failed"}
        PROVE  /\ Unrecorded' = Unrecorded
               /\ calls' \in [Goroutines -> [at : CallAt, langs : SUBSET Languages]]
    BY <1>4, MoveCounts DEF Unrecorded
  <1>5. ASSUME NEW at \in CallAt, Moves(c, at), at \in {"succeeded", "failed"},
               calls[c].at \notin {"succeeded", "failed"}
        PROVE  /\ IsFiniteSet(Unrecorded') /\ Cardinality(Unrecorded') = Cardinality(Unrecorded) + 1
               /\ calls' \in [Goroutines -> [at : CallAt, langs : SUBSET Languages]]
    <2>1. Unrecorded' = Unrecorded \cup {c} /\ c \notin Unrecorded
      BY <1>5, MoveCounts DEF Unrecorded
    <2> QED
      BY <1>3, <1>5, <2>1, MoveCounts, FS_AddElement
  <1>6. ASSUME NEW at \in CallAt, Moves(c, at), at \notin {"succeeded", "failed"},
               calls[c].at \in {"succeeded", "failed"}
        PROVE  /\ IsFiniteSet(Unrecorded') /\ Cardinality(Unrecorded') = Cardinality(Unrecorded) - 1
               /\ calls' \in [Goroutines -> [at : CallAt, langs : SUBSET Languages]]
    <2>1. Unrecorded' = Unrecorded \ {c} /\ c \in Unrecorded
      BY <1>6, MoveCounts DEF Unrecorded
    <2> QED
      BY <1>3, <1>6, <2>1, MoveCounts, FS_RemoveElement
  <1>7. CASE AskBreaker(c)
    <2>1. /\ UNCHANGED <<breaker, retryDue, tokens, apiMetrics, translationStats>>
          /\ \E at \in {"limit", "error"} : Moves(c, at)
          /\ calls[c].at \notin {"succeeded", "failed"}
      BY <1>7 DEF AskBreaker
    <2>2. Unrecorded' = Unrecorded /\ calls' \in [Goroutines -> [at : CallAt, langs : SUBSET Languages]]
      BY <1>4, <2>1 DEF CallAt
    <2> QED
      BY <1>1, <1>2, <2>1, <2>2, QuietMoves DEF TranslationStageTypeOK
  <1>8. CASE AskLimiter(c)
    <2>1. /\ UNCHANGED <<breaker, retryDue, translationStats>>
          /\ \E at \in {"calling", "error"} : Moves(c, at)
          /\ calls[c].at \notin {"succeeded", "failed"}
          /\ tokens' \in 0..Burst
          /\ \/ apiMetrics' = apiMetrics
             \/ apiMetrics' = [apiMetrics EXCEPT !.rateLimitExceeded = @ + 1]
      BY <1>1, <1>8, TranslationAssumption DEF AskLimiter
    <2>2. Unrecorded' = Unrecorded /\ calls' \in [Goroutines -> [at : CallAt, langs : SUBSET Languages]]
      BY <1>4, <2>1 DEF CallAt
    <2>3. /\ apiMetrics' \in Metrics
          /\ UNCHANGED <<apiMetrics.totalCalls, apiMetrics.successfulCalls, apiMetrics.failedCalls,
                         apiMetrics.circuitBreakerTrips>>
      BY <1>1, <2>1
    <2> QED
      BY <1>1, <1>2, <2>1, <2>2, <2>3, QuietMoves DEF TranslationStageTypeOK
  <1>9. CASE CallOpenAI(c)
    <2>1. /\ UNCHANGED <<breaker, retryDue, tokens, translationStats>>
          /\ \E at \in {"succeeded", "failed"} : Moves(c, at)
          /\ calls[c].at \notin {"succeeded", "failed"}
          /\ apiMetrics' = [apiMetrics EXCEPT !.totalCalls = @ + 1]
      BY <1>9 DEF CallOpenAI
    <2>2. /\ IsFiniteSet(Unrecorded') /\ Cardinality(Unrecorded') = Cardinality(Unrecorded) + 1
          /\ calls' \in [Goroutines -> [at : CallAt, langs : SUBSET Languages]]
      BY <1>5, <2>1 DEF CallAt
    <2>3. /\ apiMetrics' \in Metrics /\ apiMetrics'.totalCalls = apiMetrics.totalCalls + 1
          /\ UNCHANGED <<apiMetrics.successfulCalls, apiMetrics.failedCalls, apiMetrics.circuitBreakerTrips>>
      BY <1>1, <2>1
    <2>4. TranslationStageTypeOK'
      BY <1>1, <1>2, <2>1, <2>2, <2>3 DEF TranslationStageTypeOK
    <2> QED
      BY <1>1, <1>3, <2>1, <2>2, <2>3, <2>4, CountKept
  <1>10. CASE RecordAPISuccess(c)
    <2>1. /\ UNCHANGED <<retryDue, tokens, translationStats>> /\ breaker' = RecordSuccess(breaker)
          /\ \E at \in {"done", "error"} : Moves(c, at)
          /\ calls[c].at \in {"succeeded", "failed"}
          /\ apiMetrics' = [apiMetrics EXCEPT !.successfulCalls = @ + 1]
      BY <1>10 DEF RecordAPISuccess
    <2>2. /\ IsFiniteSet(Unrecorded') /\ Cardinality(Unrecorded') = Cardinality(Unrecorded) - 1
          /\ calls' \in [Goroutines -> [at : CallAt, langs : SUBSET Languages]]
      BY <1>6, <2>1 DEF CallAt
    <2>3. /\ apiMetrics' \in Metrics /\ apiMetrics'.successfulCalls = apiMetrics.successfulCalls + 1
          /\ UNCHANGED <<apiMetrics.totalCalls, apiMetrics.failedCalls, apiMetrics.circuitBreakerTrips>>
      BY <1>1, <2>1
    <2>4. breaker'.state = breaker.state
      BY <1>1, <2>1 DEF RecordSuccess
    <2>5. TranslationStageTypeOK'
      BY <1>1, <1>2, <2>1, <2>2, <2>3 DEF TranslationStageTypeOK
    <2> QED
      BY <1>1, <1>3, <2>2, <2>3, <2>4, <2>5, CountKept
  <1>11. CASE RecordAPIFailure(c)
    <2>1. /\ UNCHANGED <<tokens, translationStats>> /\ Moves(c, "error")
          /\ calls[c].at \in {"succeeded", "failed"}
          /\ breaker'.state = IF Trips(breaker) THEN "open" ELSE breaker.state
          /\ apiMetrics' = [apiMetrics EXCEPT !.failedCalls = @ + 1,
                                !.circuitBreakerTrips = IF Trips(breaker) THEN @ + 1 ELSE @]
      BY <1>11 DEF RecordAPIFailure
    <2>2. /\ IsFiniteSet(Unrecorded') /\ Cardinality(Unrecorded') = Cardinality(Unrecorded) - 1
          /\ calls' \in [Goroutines -> [at : CallAt, langs : SUBSET Languages]]
      BY <1>6, <2>1 DEF CallAt
    <2>3. /\ apiMetrics' \in Metrics /\ apiMetrics'.failedCalls = apiMetrics.failedCalls + 1
          /\ UNCHANGED <<apiMetrics.totalCalls, apiMetrics.successfulCalls>>
          /\ apiMetrics'.circuitBreakerTrips
                = IF Trips(breaker) THEN apiMetrics.circuitBreakerTrips + 1 ELSE apiMetrics.circuitBreakerTrips
      <3> DEFINE trips == IF Trips(breaker) THEN apiMetrics.circuitBreakerTrips + 1
                          ELSE apiMetrics.circuitBreakerTrips
      <3>1. /\ trips \in Nat /\ apiMetrics.failedCalls + 1 \in Nat
        BY <1>1
      <3>2. apiMetrics' = [apiMetrics EXCEPT !.failedCalls = @ + 1, !.circuitBreakerTrips = trips]
        BY <2>1
      <3> HIDE DEF trips
      <3>3. /\ apiMetrics' \in Metrics /\ apiMetrics'.failedCalls = apiMetrics.failedCalls + 1
            /\ UNCHANGED <<apiMetrics.totalCalls, apiMetrics.successfulCalls>>
            /\ apiMetrics'.circuitBreakerTrips = trips
        BY <1>1, <3>1, <3>2
      <3> QED
        BY <3>3 DEF trips
    <2>4. breaker'.state = "open" <=> apiMetrics'.circuitBreakerTrips > 0
      <3>1. apiMetrics.circuitBreakerTrips \in Nat
        BY <1>1
      <3>2. CASE Trips(breaker)
        BY <2>1, <2>3, <3>1, <3>2
      <3>3. CASE ~Trips(breaker)
        BY <1>3, <2>1, <2>3, <3>3
      <3> QED
        BY <3>2, <3>3
    <2>5. TranslationStageTypeOK'
      BY <1>1, <1>2, <2>1, <2>2, <2>3 DEF TranslationStageTypeOK
    <2> QED
      BY <1>1, <1>3, <2>2, <2>3, <2>4, <2>5, CountKept
  <1> QED
    BY <1>7, <1>8, <1>9, <1>10, <1>11


LEMMA CountStep == CountInv /\ [TranslationStageNext]_translationVars => CountInv'
  <1> SUFFICES ASSUME CountInv, [TranslationStageNext]_translationVars PROVE CountInv'
    OBVIOUS
  <1> DEFINE Totals == [total : Nat, successful : Nat, failed : Nat, skipped : Nat]
             Calling == [at : CallAt, langs : SUBSET Languages]
  <1>1. BreakerInv'
    BY BreakerInvNext DEF CountInv
  <1>2. /\ breaker \in [state : {"closed", "open", "halfOpen"}, failureCount : Nat]
        /\ retryDue \in BOOLEAN /\ tokens \in 0..Burst /\ calls \in [Goroutines -> Calling]
        /\ translationStats \in Totals /\ TranslationStageTypeOK
    BY DEF CountInv, TranslationStageTypeOK
  <1>3. ASSUME UNCHANGED <<breaker, apiMetrics>>, calls' \in [Goroutines -> Calling],
               retryDue' \in BOOLEAN, tokens' \in 0..Burst, translationStats' \in Totals,
               Unrecorded' = Unrecorded
        PROVE  CountInv'
    <2>1. TranslationStageTypeOK'
      BY <1>2, <1>3 DEF TranslationStageTypeOK
    <2> QED
      BY <1>1, <1>3, <2>1, QuietMoves
  <1>4. ASSUME NEW c \in Goroutines, calls[c].at \notin {"succeeded", "failed"},
               NEW call \in Calling, call.at \notin {"succeeded", "failed"},
               calls' = [calls EXCEPT ![c] = call]
        PROVE  calls' \in [Goroutines -> Calling] /\ Unrecorded' = Unrecorded
    <2>1. /\ \A d \in Goroutines \ {c} : calls'[d] = calls[d] /\ calls'[c] = call
          /\ calls' \in [Goroutines -> Calling] /\ calls'[c] = call
      BY <1>2, <1>4
    <2> QED
      BY <1>4, <2>1 DEF Unrecorded
  <1>5. CASE UNCHANGED translationVars
    BY <1>2, <1>3, <1>5 DEF translationVars, Unrecorded
  <1>6. ASSUME NEW c \in Goroutines, AskBreaker(c) \/ AskLimiter(c) \/ CallOpenAI(c)
                                     \/ RecordAPISuccess(c) \/ RecordAPIFailure(c)
        PROVE  CountInv'
    BY <1>1, <1>6, CallCounts
  <1>7. ASSUME NEW c \in Goroutines, UpdateTranslationStats(c)
        PROVE  CountInv'
    <2>1. /\ UNCHANGED <<breaker, retryDue, tokens, apiMetrics>>
          /\ calls' = [calls EXCEPT ![c] = NoCall] /\ calls[c].at \in {"done", "error"}
      BY <1>7 DEF UpdateTranslationStats
    <2>2. NoCall \in Calling /\ NoCall.at = "idle"
      BY DEF NoCall, CallAt
    <2>3. PICK answered \in SUBSET Languages :
             translationStats' =
                 IF calls[c].at = "error"
                 THEN [translationStats EXCEPT !.total = @ + 1, !.failed = @ + 1]
                 ELSE [translationStats EXCEPT !.total = @ + 1,
                           !.successful = @ + Cardinality(FilterRequested(answered, calls[c].langs))]
      BY <1>7 DEF UpdateTranslationStats
    <2>4. Cardinality(FilterRequested(answered, calls[c].langs)) \in Nat
      <3>1. FilterRequested(answered, calls[c].langs) \subseteq Languages
        BY DEF FilterRequested
      <3> QED
        BY <3>1, TranslationAssumption, FS_Subset, FS_CardinalityType
    <2>5. translationStats' \in Totals
      <3> HIDE DEF Calling
      <3>1. ASSUME NEW n \in Nat
            PROVE  /\ [translationStats EXCEPT !.total = @ + 1, !.failed = @ + 1] \in Totals
                   /\ [translationStats EXCEPT !.total = @ + 1, !.successful = @ + n] \in Totals
        <4>1. /\ translationStats \in Totals
              /\ translationStats.total + 1 \in Nat /\ translationStats.failed + 1 \in Nat
              /\ translationStats.successful + n \in Nat
          BY <1>2
        <4>2. \A a, b \in Nat : /\ [translationStats EXCEPT !.total = a, !.failed = b] \in Totals
                               /\ [translationStats EXCEPT !.total = a, !.successful = b] \in Totals
          BY <4>1
        <4> QED
          BY <4>1, <4>2
      <3> QED
        BY <2>3, <2>4, <3>1
    <2> QED
      BY <1>2, <1>3, <1>4, <2>1, <2>2, <2>5
  <1>8. ASSUME NEW c \in Translators, NEW asked \in SUBSET Languages, NEW source \in Languages,
               ProcessTranscription(c, asked, source)
        PROVE  CountInv'
    <2> DEFINE targets == TargetLanguages(asked, source)
    <2>1. /\ UNCHANGED <<breaker, retryDue, tokens, apiMetrics>> /\ calls[c] = NoCall
          /\ \/ /\ translationStats' = [translationStats EXCEPT !.skipped = @ + 1]
                /\ UNCHANGED calls
             \/ /\ calls' = [calls EXCEPT ![c] = [at |-> "gate", langs |-> targets]]
                /\ UNCHANGED translationStats
      BY <1>8 DEF ProcessTranscription
    <2>2. /\ [at |-> "gate", langs |-> targets] \in Calling /\ NoCall.at = "idle" /\ c \in Goroutines
          /\ [at |-> "gate", langs |-> targets].at = "gate"
      BY DEF TargetLanguages, CallAt, NoCall, Goroutines
    <2> HIDE DEF targets
    <2>3. [translationStats EXCEPT !.skipped = @ + 1] \in Totals
      BY <1>2
    <2>4. CASE UNCHANGED calls
      BY <1>2, <1>3, <2>1, <2>3, <2>4 DEF Unrecorded
    <2>5. CASE calls' = [calls EXCEPT ![c] = [at |-> "gate", langs |-> targets]]
      BY <1>2, <1>3, <1>4, <2>1, <2>2, <2>3, <2>5
    <2> QED
      BY <2>1, <2>4, <2>5
  <1>9. CASE WarmUpEnds
    <2>1. /\ UNCHANGED <<breaker, retryDue, tokens, apiMetrics>>
          /\ calls[WarmUp].at \in {"done", "error"}
          /\ calls' = [calls EXCEPT ![WarmUp].at = "gone"]
          /\ translationStats' = [NoTranslations EXCEPT !.skipped = translationStats.skipped]
      BY <1>9 DEF WarmUpEnds, Moves
    <2>2. translationStats' \in Totals
      BY <1>2, <2>1 DEF NoTranslations
    <2>3. [calls[WarmUp] EXCEPT !.at = "gone"] \in Calling /\ WarmUp \in Goroutines
      BY <1>2 DEF CallAt, Goroutines
    <2>4. /\ calls' = [calls EXCEPT ![WarmUp] = [calls[WarmUp] EXCEPT !.at = "gone"]]
          /\ [calls[WarmUp] EXCEPT !.at = "gone"].at = "gone"
      BY <1>2, <2>1, <2>3
    <2> QED
      BY <1>2, <1>3, <1>4, <2>1, <2>2, <2>3, <2>4
  <1>10. CASE RetryComesDue
    BY <1>2, <1>3, <1>10 DEF RetryComesDue, Unrecorded
  <1>11. CASE TokenRefills
    <2>1. tokens + 1 \in 0..Burst
      BY <1>2, <1>11, TranslationAssumption DEF TokenRefills
    <2> QED
      BY <1>2, <1>3, <1>11, <2>1 DEF TokenRefills, Unrecorded
  <1>12. ASSUME NEW c \in Goroutines, ValidateInput(c)
         PROVE  CountInv'
    <2> DEFINE refused == [calls[c] EXCEPT !.at = "error"]
               blank == [at |-> "done", langs |-> {}]
    <2>1. /\ UNCHANGED <<breaker, retryDue, tokens, apiMetrics, translationStats>>
          /\ calls[c].at = "gate"
          /\ calls' = [calls EXCEPT ![c] = refused] \/ calls' = [calls EXCEPT ![c] = blank]
      BY <1>2, <1>12 DEF ValidateInput, Moves
    <2>2. /\ refused \in Calling /\ refused.at = "error"
          /\ blank \in Calling /\ blank.at = "done"
      BY <1>2 DEF CallAt
    <2> HIDE DEF refused, blank
    <2> QED
      BY <1>2, <1>3, <1>4, <2>1, <2>2
  <1> QED
    BY <1>5, <1>6, <1>7, <1>8, <1>9, <1>10, <1>11, <1>12 DEF TranslationStageNext

(* For any goroutines, failures and limits: every call to the API is       *)
(* counted as one that succeeded or failed, or is about to be, and the     *)
(* breaker is open exactly when a trip was counted.                        *)
THEOREM CallsAlwaysCounted == TranslationStageSpec => [](TranslationStageTypeOK /\ CallsCounted)
  <1>1. CountInv => TranslationStageTypeOK /\ CallsCounted
    BY DEF CountInv
  <1> QED
    BY <1>1, CountInit, CountStep, PTL DEF TranslationStageSpec

-------------------------------------------------------------------------------
(* Callbacks are called once for each registration.                           *)

\* What is due was numbered when it came, and a call that waits is with one goroutine, once.
CallsKept ==
    /\ callbacks \in Seq(Observers) /\ beforeCallbacks \in Seq(Observers)
    /\ notified \in Nat /\ framesSeen \in Nat
    /\ notifying \in [Notifiers -> Seq(Call)] /\ before \in [Watched -> Seq(Call)]
    /\ due \subseteq Call
    /\ \A c \in due : c.number <= (IF c.kind = "event" THEN notified ELSE framesSeen)
    /\ \A n \in Notifiers :
        /\ IsInjective(notifying[n]) /\ \A c \in Range(notifying[n]) : c.kind = "event"
        /\ \A m \in Notifiers : m # n => Range(notifying[m]) \cap Range(notifying[n]) = {}
    /\ \A p \in Watched :
        /\ IsInjective(before[p]) /\ \A c \in Range(before[p]) : c.kind = "frame"
        /\ \A q \in Watched : q # p => Range(before[q]) \cap Range(before[p]) = {}
    /\ CalledOncePerRegistration

LEMMA PendingAre ==
  /\ \A c : c \in Pending <=> \/ \E n \in Notifiers : c \in Range(notifying[n])
                              \/ \E p \in Watched : c \in Range(before[p])
  /\ \A s : ToSet(s) = Range(s)
  BY DEF Pending, ToSet, Range

\* The same of the next state.
LEMMA PendingWillBe ==
  \A c : c \in Pending' <=> \/ \E n \in Notifiers : c \in Range(notifying'[n])
                           \/ \E p \in Watched : c \in Range(before'[p])
  <1>1. \A s : ToSet(s) = Range(s)
    BY DEF ToSet, Range
  <1>2. Pending' = UNION ({ToSet(notifying'[n]) : n \in Notifiers} \cup {ToSet(before'[p]) : p \in Watched})
    BY DEF Pending
  <1> QED
    BY <1>1, <1>2

LEMMA CopiedAreNew ==
  ASSUME NEW registered \in Seq(Observers), NEW kind \in {"event", "frame"}, NEW number \in Nat
  PROVE  LET copies == Copied(registered, kind, number)
         IN  /\ copies \in Seq(Call) /\ IsInjective(copies)
             /\ \A c \in Range(copies) : c.kind = kind /\ c.number = number /\ c \in Call
  <1> DEFINE copies == Copied(registered, kind, number)
  <1>1. /\ DOMAIN copies = 1..Len(registered) /\ Len(registered) \in Nat
        /\ \A i \in 1..Len(registered) :
              copies[i] = [kind |-> kind, number |-> number, nth |-> i, to |-> registered[i]]
    BY DEF Copied
  <1>2. \A i \in 1..Len(registered) :
           copies[i] \in Call /\ copies[i].nth = i /\ copies[i].kind = kind /\ copies[i].number = number
    BY <1>1 DEF Call
  <1>3. copies = [i \in 1..Len(registered) |-> copies[i]]
    BY <1>1 DEF Copied
  <1> HIDE DEF copies
  <1>4. copies \in Seq(Call)
    BY <1>1, <1>2, <1>3
  <1>5. IsInjective(copies)
    BY <1>1, <1>2 DEF IsInjective
  <1> QED
    BY <1>1, <1>2, <1>4, <1>5 DEF Range, copies

LEMMA RegisteringKeeps ==
  ASSUME CallsKept, callbacks' \in Seq(Observers), beforeCallbacks' \in Seq(Observers),
         UNCHANGED <<notified, notifying, started, called, due, before, framesSeen>>
  PROVE  CallsKept'
  BY DEF CallsKept, CalledOncePerRegistration, Pending

LEMMA NotifyKeeps ==
  ASSUME CallsKept, NEW n \in Notifiers, NotifyCallbacks(n)
  PROVE  CallsKept'
  <1> DEFINE copies == Copied(callbacks, "event", notified + 1)
  <1>1. /\ notifying[n] = <<>> /\ notified' = notified + 1
        /\ notifying' = [notifying EXCEPT ![n] = copies] /\ due' = due \cup ToSet(copies)
        /\ UNCHANGED <<callbacks, beforeCallbacks, started, called, before, framesSeen>>
    BY DEF NotifyCallbacks
  <1>2. /\ copies \in Seq(Call) /\ IsInjective(copies) /\ ToSet(copies) = Range(copies)
        /\ \A c \in Range(copies) : c.kind = "event" /\ c.number = notified + 1 /\ c \in Call
    <2>1. callbacks \in Seq(Observers) /\ notified + 1 \in Nat
      BY DEF CallsKept
    <2> QED
      BY <2>1, CopiedAreNew, PendingAre
  <1> HIDE DEF copies
  <1>3. Range(copies) \cap due = {}
    <2> SUFFICES ASSUME NEW c \in Range(copies), c \in due PROVE FALSE
      OBVIOUS
    <2>1. c.number <= notified /\ c.number = notified + 1 /\ notified \in Nat
      BY <1>2 DEF CallsKept
    <2> QED
      BY <2>1
  <1>4. /\ notifying' \in [Notifiers -> Seq(Call)] /\ notifying'[n] = copies
        /\ \A m \in Notifiers \ {n} : notifying'[m] = notifying[m]
        /\ Range(notifying[n]) = {}
    BY <1>1, <1>2, EmptyRange DEF CallsKept
  <1>5. /\ \A c : c \in Pending => c \in due
        /\ called \cup started \cup Pending = due
        /\ called \cap started = {} /\ (called \cup started) \cap Pending = {}
    BY DEF CallsKept, CalledOncePerRegistration
  <1>6. Pending' = Pending \cup Range(copies)
    <2>1. ASSUME NEW c PROVE c \in Pending' <=> c \in Pending \cup Range(copies)
      BY <1>1, <1>4, PendingAre, PendingWillBe
    <2> QED
      BY <2>1
  <1>7. CalledOncePerRegistration'
    BY <1>1, <1>2, <1>3, <1>5, <1>6 DEF CalledOncePerRegistration
  <1>8. ASSUME NEW m \in Notifiers
        PROVE  /\ IsInjective(notifying'[m]) /\ \A c \in Range(notifying'[m]) : c.kind = "event"
               /\ \A o \in Notifiers : o # m => Range(notifying'[o]) \cap Range(notifying'[m]) = {}
    <2>1. \A o \in Notifiers : Range(notifying[o]) \cap Range(copies) = {}
      BY <1>3, <1>5, PendingAre
    <2>2. CASE m = n
      <3>1. notifying'[m] = copies /\ \A o \in Notifiers : o # m => notifying'[o] = notifying[o]
        BY <1>4, <2>2
      <3> QED
        BY <1>2, <2>1, <3>1
    <2>3. CASE m # n
      <3>1. notifying'[m] = notifying[m] /\ IsInjective(notifying[m])
            /\ \A c \in Range(notifying[m]) : c.kind = "event"
        BY <1>4, <2>3 DEF CallsKept
      <3>2. ASSUME NEW o \in Notifiers, o # m PROVE Range(notifying'[o]) \cap Range(notifying[m]) = {}
        <4>1. CASE o = n
          BY <1>4, <2>1, <4>1
        <4>2. CASE o # n
          <5>1. notifying'[o] = notifying[o]
            BY <1>4, <4>2
          <5> QED
            BY <3>2, <5>1 DEF CallsKept
        <4> QED
          BY <4>1, <4>2
      <3> QED
        BY <3>1, <3>2
    <2> QED
      BY <2>2, <2>3
  <1>9. /\ notified' \in Nat /\ due' \subseteq Call
        /\ \A c \in due' : c.number <= (IF c.kind = "event" THEN notified' ELSE framesSeen')
    <2>1. /\ notified \in Nat /\ framesSeen \in Nat /\ due \subseteq Call
          /\ \A c \in due : c.number \in Nat
                            /\ c.number <= (IF c.kind = "event" THEN notified ELSE framesSeen)
      BY DEF CallsKept, Call
    <2> QED
      BY <1>1, <1>2, <2>1
  <1> QED
    BY <1>1, <1>4, <1>7, <1>8, <1>9 DEF CallsKept

LEMMA BeforeKeeps ==
  ASSUME CallsKept, NEW p \in Watched, CallBefore(p)
  PROVE  CallsKept'
  <1> DEFINE copies == Copied(beforeCallbacks, "frame", framesSeen + 1)
  <1>1. /\ before[p] = <<>> /\ framesSeen' = framesSeen + 1
        /\ before' = [before EXCEPT ![p] = copies] /\ due' = due \cup ToSet(copies)
        /\ UNCHANGED <<callbacks, beforeCallbacks, started, called, notifying, notified>>
    BY DEF CallBefore
  <1>2. /\ copies \in Seq(Call) /\ IsInjective(copies) /\ ToSet(copies) = Range(copies)
        /\ \A c \in Range(copies) : c.kind = "frame" /\ c.number = framesSeen + 1 /\ c \in Call
    <2>1. beforeCallbacks \in Seq(Observers) /\ framesSeen + 1 \in Nat
      BY DEF CallsKept
    <2> QED
      BY <2>1, CopiedAreNew, PendingAre
  <1> HIDE DEF copies
  <1>3. Range(copies) \cap due = {}
    <2> SUFFICES ASSUME NEW c \in Range(copies), c \in due PROVE FALSE
      OBVIOUS
    <2>1. c.number <= framesSeen /\ c.number = framesSeen + 1 /\ framesSeen \in Nat
      BY <1>2 DEF CallsKept
    <2> QED
      BY <2>1
  <1>4. /\ before' \in [Watched -> Seq(Call)] /\ before'[p] = copies
        /\ \A q \in Watched \ {p} : before'[q] = before[q]
        /\ Range(before[p]) = {}
    BY <1>1, <1>2, EmptyRange DEF CallsKept
  <1>5. /\ \A c : c \in Pending => c \in due
        /\ called \cup started \cup Pending = due
        /\ called \cap started = {} /\ (called \cup started) \cap Pending = {}
    BY DEF CallsKept, CalledOncePerRegistration
  <1>6. Pending' = Pending \cup Range(copies)
    <2>1. ASSUME NEW c PROVE c \in Pending' <=> c \in Pending \cup Range(copies)
      BY <1>1, <1>4, PendingAre, PendingWillBe
    <2> QED
      BY <2>1
  <1>7. CalledOncePerRegistration'
    BY <1>1, <1>2, <1>3, <1>5, <1>6 DEF CalledOncePerRegistration
  <1>8. ASSUME NEW q \in Watched
        PROVE  /\ IsInjective(before'[q]) /\ \A c \in Range(before'[q]) : c.kind = "frame"
               /\ \A o \in Watched : o # q => Range(before'[o]) \cap Range(before'[q]) = {}
    <2>1. \A o \in Watched : Range(before[o]) \cap Range(copies) = {}
      BY <1>3, <1>5, PendingAre
    <2>2. CASE q = p
      <3>1. before'[q] = copies /\ \A o \in Watched : o # q => before'[o] = before[o]
        BY <1>4, <2>2
      <3> QED
        BY <1>2, <2>1, <3>1
    <2>3. CASE q # p
      <3>1. before'[q] = before[q] /\ IsInjective(before[q])
            /\ \A c \in Range(before[q]) : c.kind = "frame"
        BY <1>4, <2>3 DEF CallsKept
      <3>2. ASSUME NEW o \in Watched, o # q PROVE Range(before'[o]) \cap Range(before[q]) = {}
        <4>1. CASE o = p
          BY <1>4, <2>1, <4>1
        <4>2. CASE o # p
          <5>1. before'[o] = before[o]
            BY <1>4, <4>2
          <5> QED
            BY <3>2, <5>1 DEF CallsKept
        <4> QED
          BY <4>1, <4>2
      <3> QED
        BY <3>1, <3>2
    <2> QED
      BY <2>2, <2>3
  <1>9. /\ framesSeen' \in Nat /\ due' \subseteq Call
        /\ \A c \in due' : c.number <= (IF c.kind = "event" THEN notified' ELSE framesSeen')
    <2>1. /\ notified \in Nat /\ framesSeen \in Nat /\ due \subseteq Call
          /\ \A c \in due : c.number \in Nat
                            /\ c.number <= (IF c.kind = "event" THEN notified ELSE framesSeen)
      BY DEF CallsKept, Call
    <2> QED
      BY <1>1, <1>2, <2>1
  <1> QED
    BY <1>1, <1>4, <1>7, <1>8, <1>9 DEF CallsKept

LEMMA StartingKeeps ==
  ASSUME CallsKept, NEW n \in Notifiers, StartCallback(n)
  PROVE  CallsKept'
  <1> DEFINE call == Head(notifying[n])
  <1>1. /\ notifying[n] # <<>> /\ notifying' = [notifying EXCEPT ![n] = Tail(@)]
        /\ started' = started \cup {call}
        /\ UNCHANGED <<callbacks, beforeCallbacks, notified, called, due, before, framesSeen>>
    BY DEF StartCallback
  <1>2. notifying \in [Notifiers -> Seq(Call)] /\ notifying[n] \in Seq(Call) /\ IsInjective(notifying[n])
    BY DEF CallsKept
  <1>3. /\ Tail(notifying[n]) \in Seq(Call) /\ IsInjective(Tail(notifying[n]))
        /\ call \in Range(notifying[n]) /\ Range(Tail(notifying[n])) = Range(notifying[n]) \ {call}
    BY <1>1, <1>2, TakesHead
  <1> HIDE DEF call
  <1>4. /\ notifying' \in [Notifiers -> Seq(Call)] /\ IsInjective(notifying'[n])
        /\ Range(notifying'[n]) = Range(notifying[n]) \ {call}
        /\ \A m \in Notifiers \ {n} : notifying'[m] = notifying[m]
    BY <1>1, <1>2, <1>3
  <1>5. \A m \in Notifiers \ {n} : call \notin Range(notifying[m])
    BY <1>3 DEF CallsKept
  <1>6. \A p \in Watched : call \notin Range(before[p])
    <2>1. call.kind = "event" /\ \A p \in Watched : \A c \in Range(before[p]) : c.kind = "frame"
      BY <1>3 DEF CallsKept
    <2> QED
      BY <2>1
  <1>7. Pending' = Pending \ {call} /\ call \in Pending
    <2>1. ASSUME NEW c PROVE c \in Pending' <=> c \in Pending /\ c # call
      <3>1. c \in Pending' <=> \/ \E m \in Notifiers : c \in Range(notifying'[m])
                               \/ \E p \in Watched : c \in Range(before[p])
        BY <1>1, PendingWillBe
      <3> QED
        BY <1>4, <1>5, <1>6, <3>1, PendingAre
    <2> QED
      BY <1>3, <2>1, PendingAre
  <1>8. CalledOncePerRegistration'
    BY <1>1, <1>7 DEF CalledOncePerRegistration, CallsKept
  <1>9. ASSUME NEW m \in Notifiers
        PROVE  /\ IsInjective(notifying'[m]) /\ \A c \in Range(notifying'[m]) : c.kind = "event"
               /\ \A o \in Notifiers : o # m => Range(notifying'[o]) \cap Range(notifying'[m]) = {}
    <2>1. \A o \in Notifiers : Range(notifying'[o]) \subseteq Range(notifying[o])
      BY <1>4
    <2> QED
      BY <1>4, <2>1 DEF CallsKept
  <1> QED
    BY <1>1, <1>4, <1>8, <1>9 DEF CallsKept

LEMMA ReturnKeeps ==
  ASSUME CallsKept, NEW p \in Watched, BeforeCallbackReturns(p)
  PROVE  CallsKept'
  <1> DEFINE call == Head(before[p])
  <1>1. /\ before[p] # <<>> /\ before' = [before EXCEPT ![p] = Tail(@)]
        /\ called' = called \cup {call}
        /\ UNCHANGED <<callbacks, beforeCallbacks, notified, started, due, notifying, framesSeen>>
    BY DEF BeforeCallbackReturns
  <1>2. before \in [Watched -> Seq(Call)] /\ before[p] \in Seq(Call) /\ IsInjective(before[p])
    BY DEF CallsKept
  <1>3. /\ Tail(before[p]) \in Seq(Call) /\ IsInjective(Tail(before[p]))
        /\ call \in Range(before[p]) /\ Range(Tail(before[p])) = Range(before[p]) \ {call}
    BY <1>1, <1>2, TakesHead
  <1> HIDE DEF call
  <1>4. /\ before' \in [Watched -> Seq(Call)] /\ IsInjective(before'[p])
        /\ Range(before'[p]) = Range(before[p]) \ {call}
        /\ \A q \in Watched \ {p} : before'[q] = before[q]
    BY <1>1, <1>2, <1>3
  <1>5. \A q \in Watched \ {p} : call \notin Range(before[q])
    BY <1>3 DEF CallsKept
  <1>6. \A n \in Notifiers : call \notin Range(notifying[n])
    <2>1. call.kind = "frame" /\ \A n \in Notifiers : \A c \in Range(notifying[n]) : c.kind = "event"
      BY <1>3 DEF CallsKept
    <2> QED
      BY <2>1
  <1>7. Pending' = Pending \ {call} /\ call \in Pending
    <2>1. ASSUME NEW c PROVE c \in Pending' <=> c \in Pending /\ c # call
      <3>1. c \in Pending' <=> \/ \E n \in Notifiers : c \in Range(notifying[n])
                               \/ \E q \in Watched : c \in Range(before'[q])
        BY <1>1, PendingWillBe
      <3> QED
        BY <1>4, <1>5, <1>6, <3>1, PendingAre
    <2> QED
      BY <1>3, <2>1, PendingAre
  <1>8. CalledOncePerRegistration'
    BY <1>1, <1>7 DEF CalledOncePerRegistration, CallsKept
  <1>9. ASSUME NEW q \in Watched
        PROVE  /\ IsInjective(before'[q]) /\ \A c \in Range(before'[q]) : c.kind = "frame"
               /\ \A o \in Watched : o # q => Range(before'[o]) \cap Range(before'[q]) = {}
    <2>1. \A o \in Watched : Range(before'[o]) \subseteq Range(before[o])
      BY <1>4
    <2> QED
      BY <1>4, <2>1 DEF CallsKept
  <1> QED
    BY <1>1, <1>4, <1>8, <1>9 DEF CallsKept

(* For any observers, goroutines, events and frames: however callbacks are *)
(* added and removed meanwhile, every callback registered when an event or *)
(* a frame came is called with it once for each registration, none twice.  *)
THEOREM CalledAlwaysOnce ==
    CallbacksInit /\ [][CallbacksNext]_callbackVars => [](ObserversTypeOK /\ CalledOncePerRegistration)
  <1>1. CallbacksInit => CallsKept
    <2> SUFFICES ASSUME CallbacksInit PROVE CallsKept
      OBVIOUS
    <2>1. \A c : c \notin Pending
      BY EmptyRange, PendingAre DEF CallbacksInit
    <2> QED
      BY <2>1, EmptyRange DEF CallbacksInit, CallsKept, CalledOncePerRegistration
  <1>2. CallsKept /\ [CallbacksNext]_callbackVars => CallsKept'
    <2> SUFFICES ASSUME CallsKept, [CallbacksNext]_callbackVars PROVE CallsKept'
      OBVIOUS
    <2>1. CASE UNCHANGED callbackVars
      BY <2>1, RegisteringKeeps DEF callbackVars, CallsKept
    <2>2. ASSUME NEW o \in Observers, AddCallback(o) \/ AddBeforeCallback(o)
          PROVE  CallsKept'
      <3>1. /\ callbacks \in Seq(Observers) /\ Append(callbacks, o) \in Seq(Observers)
            /\ beforeCallbacks \in Seq(Observers) /\ Append(beforeCallbacks, o) \in Seq(Observers)
        BY DEF CallsKept
      <3> QED
        BY <2>2, <3>1, RegisteringKeeps DEF AddCallback, AddBeforeCallback
    <2>3. CASE RemoveAllCallbacks
      <3>1. <<>> \in Seq(Observers)
        OBVIOUS
      <3> QED
        BY <2>3, <3>1, RegisteringKeeps DEF RemoveAllCallbacks
    <2>4. ASSUME NEW call \in started, CallbackRuns(call)
          PROVE  CallsKept'
      <3>1. /\ started' = started \ {call} /\ called' = called \cup {call}
            /\ UNCHANGED <<callbacks, beforeCallbacks, notified, notifying, due, before, framesSeen>>
        BY <2>4 DEF CallbackRuns
      <3>2. Pending' = Pending
        BY <3>1 DEF Pending
      <3>3. CalledOncePerRegistration'
        BY <3>1, <3>2 DEF CallsKept, CalledOncePerRegistration
      <3> QED
        BY <3>1, <3>3 DEF CallsKept
    <2>5. ASSUME NEW n \in Notifiers, NotifyCallbacks(n)
          PROVE  CallsKept'
      BY <2>5, NotifyKeeps
    <2>6. ASSUME NEW n \in Notifiers, StartCallback(n)
          PROVE  CallsKept'
      BY <2>6, StartingKeeps
    <2>7. ASSUME NEW p \in Watched, CallBefore(p)
          PROVE  CallsKept'
      BY <2>7, BeforeKeeps
    <2>8. ASSUME NEW p \in Watched, BeforeCallbackReturns(p)
          PROVE  CallsKept'
      BY <2>8, ReturnKeeps
    <2> QED
      BY <2>1, <2>2, <2>3, <2>4, <2>5, <2>6, <2>7, <2>8 DEF CallbacksNext
  <1>3. CallsKept => ObserversTypeOK /\ CalledOncePerRegistration
    BY DEF CallsKept, ObserversTypeOK, CalledOncePerRegistration
  <1> QED
    BY <1>1, <1>2, <1>3, PTL


-------------------------------------------------------------------------------
(* The figures of the stages.                                                 *)

\* A smoothed average lies between what it was and what was measured.
LEMMA SmoothedBetween ==
  ASSUME NEW old \in Nat, NEW l \in Nat
  PROVE  /\ Smoothed(old, l) \in Nat
         /\ old # 0 => \/ old <= Smoothed(old, l) /\ Smoothed(old, l) <= l
                       \/ l <= Smoothed(old, l) /\ Smoothed(old, l) <= old
         /\ old = 0 => Smoothed(old, l) = l
  <1>1. CASE old = 0
    BY <1>1 DEF Smoothed
  <1>2. CASE old # 0 /\ old <= l
    <2>1. 10 * old <= 9 * old + l /\ 9 * old + l <= 10 * l
      BY <1>2
    <2>2. old <= (9 * old + l) \div 10 /\ (9 * old + l) \div 10 <= l /\ (9 * old + l) \div 10 \in Nat
      BY <2>1
    <2> QED
      BY <1>2, <2>2 DEF Smoothed
  <1>3. CASE old # 0 /\ l < old
    <2>1. 10 * l <= 9 * old + l /\ 9 * old + l <= 10 * old
      BY <1>3
    <2>2. l <= (9 * old + l) \div 10 /\ (9 * old + l) \div 10 <= old /\ (9 * old + l) \div 10 \in Nat
      BY <2>1
    <2> QED
      BY <1>3, <2>2 DEF Smoothed
  <1> QED
    BY <1>1, <1>2, <1>3

LEMMA LeastIs ==
  ASSUME NEW S, S \subseteq Nat, NEW x \in S, \A y \in S : x <= y
  PROVE  Min(S) = x
  <1>1. Min(S) \in S /\ \A y \in S : Min(S) <= y
    BY DEF Min
  <1>2. x <= Min(S) /\ Min(S) <= x /\ x \in Nat /\ Min(S) \in Nat
    BY <1>1
  <1> QED
    BY <1>2

LEMMA GreatestIs ==
  ASSUME NEW S, S \subseteq Nat, NEW x \in S, \A y \in S : y <= x
  PROVE  Max(S) = x
  <1>1. Max(S) \in S /\ \A y \in S : Max(S) >= y
    <2>1. x \in S /\ \A y \in S : x >= y
      OBVIOUS
    <2> QED
      BY <2>1 DEF Max
  <1>2. x <= Max(S) /\ Max(S) <= x /\ x \in Nat /\ Max(S) \in Nat
    BY <1>1
  <1> QED
    BY <1>2

\* DelaysAgree, without a search for the least and the greatest.
DelaysKept ==
    /\ delays \in Seq(Nat) /\ delay \in [min : Nat, max : Nat, average : Nat]
    /\ delays = <<>> => delay.min = 0 /\ delay.max = 0 /\ delay.average = 0
    /\ delays # <<>> /\ 0 \notin Range(delays) =>
        /\ delay.min \in Range(delays) /\ \A l \in Range(delays) : delay.min <= l
        /\ delay.max \in Range(delays) /\ \A l \in Range(delays) : l <= delay.max
        /\ delay.min <= delay.average /\ delay.average <= delay.max

LEMMA DelayKeeps ==
  ASSUME DelaysKept, NEW l \in Delays, UpdateDelay(l)
  PROVE  DelaysKept'
  <1> DEFINE smoothed == Smoothed(delay.average, l)
             min == IF delay.min = 0 \/ l < delay.min THEN l ELSE delay.min
             max == IF l > delay.max THEN l ELSE delay.max
  <1>1. delay' = [min |-> min, max |-> max, average |-> smoothed] /\ delays' = Append(delays, l)
    BY DEF UpdateDelay
  <1>2. /\ l \in Nat /\ delays \in Seq(Nat)
        /\ delay.min \in Nat /\ delay.max \in Nat /\ delay.average \in Nat
    BY ObserversAssumption DEF DelaysKept
  <1>3. /\ smoothed \in Nat
        /\ delay.average # 0 => \/ delay.average <= smoothed /\ smoothed <= l
                                \/ l <= smoothed /\ smoothed <= delay.average
        /\ delay.average = 0 => smoothed = l
    BY <1>2, SmoothedBetween
  <1> HIDE DEF smoothed
  <1>4. delays' \in Seq(Nat) /\ delays' # <<>> /\ Range(delays') = Range(delays) \cup {l}
    BY <1>1, <1>2, AppendRange, LastAppended
  <1>5. /\ min \in Nat /\ max \in Nat /\ delay' \in [min : Nat, max : Nat, average : Nat]
        /\ delay'.min = min /\ delay'.max = max /\ delay'.average = smoothed
    BY <1>1, <1>2, <1>3
  <1>6. \A k \in Range(delays) : k \in Nat
    BY <1>2 DEF Range
  <1>7. ASSUME 0 \notin Range(delays')
        PROVE  /\ min \in Range(delays') /\ \A k \in Range(delays') : min <= k
               /\ max \in Range(delays') /\ \A k \in Range(delays') : k <= max
               /\ min <= smoothed /\ smoothed <= max
    <2>1. CASE delays = <<>>
      <3>1. delay.min = 0 /\ delay.max = 0 /\ delay.average = 0 /\ Range(delays) = {}
        BY <2>1, EmptyRange DEF DelaysKept
      <3>2. min = l /\ max = l /\ smoothed = l
        BY <1>2, <1>3, <3>1
      <3> QED
        BY <1>2, <1>4, <3>1, <3>2
    <2>2. CASE delays # <<>>
      <3>1. /\ delay.min \in Range(delays) /\ \A k \in Range(delays) : delay.min <= k
            /\ delay.max \in Range(delays) /\ \A k \in Range(delays) : k <= delay.max
            /\ delay.min <= delay.average /\ delay.average <= delay.max
        BY <1>4, <1>7, <2>2 DEF DelaysKept
      <3>2. delay.min # 0 /\ delay.average # 0
        <4>1. delay.min # 0
          BY <1>4, <1>7, <3>1
        <4> QED
          BY <1>2, <3>1, <4>1
      <3>3. min <= delay.min /\ min <= l /\ (min = l \/ min = delay.min)
        BY <1>2, <3>2
      <3>4. delay.max <= max /\ l <= max /\ (max = l \/ max = delay.max)
        BY <1>2
      <3> HIDE DEF min, max
      <3>5. min \in Range(delays') /\ max \in Range(delays')
        BY <1>4, <3>1, <3>3, <3>4
      <3>6. \A k \in Range(delays') : min <= k /\ k <= max
        BY <1>2, <1>4, <1>5, <1>6, <3>1, <3>3, <3>4
      <3>7. min <= smoothed /\ smoothed <= max
        BY <1>2, <1>3, <1>5, <3>1, <3>2, <3>3, <3>4
      <3> QED
        BY <3>5, <3>6, <3>7
    <2> QED
      BY <2>1, <2>2
  <1> QED
    BY <1>4, <1>5, <1>7 DEF DelaysKept

(* For any delays, however many: unless one of them was zero, the minimum  *)
(* and the maximum that the routing stage keeps are those of the delays    *)
(* there were, and its average lies between the two.                       *)
THEOREM DelaysAlwaysAgree == DelaysInit /\ [][DelaysNext]_delayVars => []DelaysAgree
  <1>1. DelaysInit => DelaysKept
    BY DEF DelaysInit, DelaysKept
  <1>2. DelaysKept /\ [DelaysNext]_delayVars => DelaysKept'
    <2>1. DelaysKept /\ UNCHANGED delayVars => DelaysKept'
      BY DEF delayVars, DelaysKept
    <2> QED
      BY <2>1, DelayKeeps DEF DelaysNext
  <1>3. DelaysKept => DelaysAgree
    <2> SUFFICES ASSUME DelaysKept, delays # <<>>, 0 \notin ToSet(delays)
                 PROVE  /\ delay.min = Min(ToSet(delays)) /\ delay.max = Max(ToSet(delays))
                        /\ delay.average \in delay.min..delay.max
      BY DEF DelaysAgree
    <2> DEFINE S == Range(delays)
    <2>1. ToSet(delays) = S /\ 0 \notin S
      BY DEF ToSet, Range
    <2>2. S \subseteq Nat
      <3>1. delays \in Seq(Nat)
        BY DEF DelaysKept
      <3> QED
        BY <3>1 DEF Range
    <2>3. /\ delay.min \in S /\ \A l \in S : delay.min <= l
          /\ delay.max \in S /\ \A l \in S : l <= delay.max
          /\ delay.min <= delay.average /\ delay.average <= delay.max /\ delay.average \in Nat
      BY <2>1 DEF DelaysKept
    <2> HIDE DEF S
    <2>4. Min(S) = delay.min /\ Max(S) = delay.max
      BY <2>2, <2>3, LeastIs, GreatestIs
    <2> QED
      BY <2>1, <2>2, <2>3, <2>4
  <1> QED
    BY <1>1, <1>2, <1>3, PTL


-------------------------------------------------------------------------------
(* Proof of the types of the transcription stage: a goroutine that makes a track or exchanges *)
(* the descriptions does so for a peer connection there is.                                   *)

RtsPeer == [state : PeerState, reports : SUBSET {"connected", "failed", "closed"}]

TranscriptionTyped ==
    /\ TranscriptionTypeOK
    /\ \A u \in Users : users[u].at \in {"track", "exchange"} => users[u].mine \in 1..Len(peers)

LEMMA ClosedPeerTyped ==
  ASSUME NEW ps \in Seq(RtsPeer), NEW i \in 1..Len(ps)
  PROVE  ClosePeer(ps, i) \in Seq(RtsPeer) /\ Len(ClosePeer(ps, i)) = Len(ps)
  <1>1. ps[i] \in RtsPeer
    OBVIOUS
  <1>2. [state |-> "closed", reports |-> ps[i].reports \cup {"closed"}] \in RtsPeer
    BY <1>1 DEF RtsPeer, PeerState
  <1>3. PICK e \in RtsPeer : e = [state |-> "closed", reports |-> ps[i].reports \cup {"closed"}]
    BY <1>2
  <1>4. [ps EXCEPT ![i] = e] \in Seq(RtsPeer) /\ Len([ps EXCEPT ![i] = e]) = Len(ps)
    OBVIOUS
  <1>5. ClosePeer(ps, i) \in {ps, [ps EXCEPT ![i] = e]}
    BY <1>3 DEF ClosePeer
  <1> QED
    BY <1>4, <1>5

LEMMA TranscriptionTypedStep ==
  TranscriptionTyped /\ [TranscriptionNext]_rtsVars => TranscriptionTyped'
  <1> SUFFICES ASSUME TranscriptionTyped, [TranscriptionNext]_rtsVars PROVE TranscriptionTyped'
    OBVIOUS
  <1> DEFINE Owns(us, n) == \A u \in Users : us[u].at \in {"track", "exchange"} => us[u].mine \in 1..n
  <1>0. /\ peers \in Seq(RtsPeer) /\ Len(peers) \in 0..MaxPeers
        /\ peerConnection \in 0..Len(peers) /\ audioTrack \in 0..Len(peers)
        /\ connected \in BOOLEAN /\ connecting \in BOOLEAN
        /\ users \in [Users -> User] /\ Owns(users, Len(peers))
        /\ loops \in 0..MaxLoops /\ closeChan \in BOOLEAN /\ eventChan \in 0..EventQueue
        /\ sequenceNumber \in 0..MaxFrames /\ messages \in 0..MaxMessages /\ latest \in 0..messages
        /\ included \in Seq(1..MaxMessages) /\ nilTrack \in BOOLEAN /\ disconnected \in BOOLEAN
    BY DEF TranscriptionTyped, TranscriptionTypeOK, RtsPeer
  <1>a. MaxPeers \in Nat /\ MaxMessages \in Nat /\ MaxFrames \in Nat /\ EventQueue \in Nat /\ MaxLoops \in Nat
    BY TranscriptionAssumption
  <1>b. /\ peers' \in Seq(RtsPeer) /\ Len(peers') \in 0..MaxPeers
        /\ peerConnection' \in 0..Len(peers') /\ audioTrack' \in 0..Len(peers')
        /\ connected' \in BOOLEAN /\ connecting' \in BOOLEAN
        /\ users' \in [Users -> User] /\ Owns(users', Len(peers'))
        /\ loops' \in 0..MaxLoops /\ closeChan' \in BOOLEAN /\ eventChan' \in 0..EventQueue
        /\ sequenceNumber' \in 0..MaxFrames /\ messages' \in 0..MaxMessages /\ latest' \in 0..messages'
        /\ included' \in Seq(1..MaxMessages) /\ nilTrack' \in BOOLEAN /\ disconnected' \in BOOLEAN
        => TranscriptionTyped'
    <2>1. Len(peers') \in 0..MaxPeers => Len(peers') <= MaxPeers
      BY <1>a
    <2> QED
      BY <2>1 DEF TranscriptionTyped, TranscriptionTypeOK, RtsPeer
  <1>c. ASSUME NEW u \in Users, NEW at, Step(u, at),
               at \in {"idle", "key", "make", "track", "exchange", "failed", "audio", "write", "output",
               "closing", "waiting", "cleanup"},
               at \in {"track", "exchange"} => users[u].mine \in 1..Len(peers)
        PROVE  users' \in [Users -> User] /\ Owns(users', Len(peers))
    <2>1. users' \in [Users -> User]
      BY <1>0, <1>c DEF Step, User
    <2>2. /\ users'[u].at = at /\ users'[u].mine = users[u].mine
          /\ \A v \in Users \ {u} : users'[v] = users[v]
      BY <1>0, <1>c DEF Step, User
    <2> QED
      BY <1>0, <1>c, <2>1, <2>2
  <1>d. ASSUME NEW u \in Users, NEW at \in {"idle", "audio"}, users' = [users EXCEPT ![u] = [at |-> at, mine |-> 0]]
        PROVE  users' \in [Users -> User] /\ Owns(users', Len(peers))
    <2>1. users' \in [Users -> User]
      BY <1>0, <1>a, <1>d DEF User
    <2>2. users'[u].at = at /\ \A v \in Users \ {u} : users'[v] = users[v]
      BY <1>0, <1>d
    <2> QED
      BY <1>0, <2>1, <2>2
  <1>1. CASE UNCHANGED rtsVars
    BY <1>0, <1>1, <1>b DEF rtsVars
  <1>2. ASSUME NEW u \in Users, ProcessFrame(u) \/ Connect(u) \/ GetEphemeralKey(u) \/ Disconnect(u)
                                  \/ SignalShutdown(u) \/ AwaitLoops(u)
        PROVE  TranscriptionTyped'
    <2>1. /\ UNCHANGED <<peers, peerConnection, audioTrack, connected, loops, eventChan, sequenceNumber,
                         messages, latest, included, nilTrack>>
          /\ connecting' \in BOOLEAN /\ closeChan' \in BOOLEAN /\ disconnected' \in BOOLEAN
      BY <1>0, <1>2 DEF ProcessFrame, Connect, GetEphemeralKey, Disconnect, SignalShutdown, AwaitLoops,
         linkVars, streamVars
    <2>2. UNCHANGED users \/ \E at \in {"key", "audio", "make", "failed", "closing", "waiting", "cleanup"} : Step(u, at)
      BY <1>2 DEF ProcessFrame, Connect, GetEphemeralKey, Disconnect, SignalShutdown, AwaitLoops
    <2>3. users' \in [Users -> User] /\ Owns(users', Len(peers))
      <3>1. CASE UNCHANGED users
        BY <1>0, <3>1
      <3>2. ASSUME NEW at \in {"key", "audio", "make", "failed", "closing", "waiting", "cleanup"}, Step(u, at)
            PROVE  users' \in [Users -> User] /\ Owns(users', Len(peers))
        BY <1>c, <3>2
      <3> QED
        BY <2>2, <3>1, <3>2
    <2> HIDE DEF Owns
    <2> QED
      BY <1>0, <1>b, <2>1, <2>3
  <1>3. ASSUME NEW u \in Users, MakePeer(u) PROVE TranscriptionTyped'
    <2>1. /\ Len(peers) < MaxPeers /\ peers' = Append(peers, [state |-> "new", reports |-> {}])
          /\ peerConnection' = Len(peers')
          /\ users' = [users EXCEPT ![u] = [at |-> "track", mine |-> Len(peers')]]
          /\ UNCHANGED <<audioTrack, connected, connecting, loops, closeChan, eventChan, sequenceNumber,
                         messages, latest, included, nilTrack, disconnected>>
      BY <1>3 DEF MakePeer, streamVars
    <2>2. [state |-> "new", reports |-> {}] \in RtsPeer
      BY DEF RtsPeer, PeerState
    <2>3. peers' \in Seq(RtsPeer) /\ Len(peers') = Len(peers) + 1 /\ Len(peers') \in 0..MaxPeers
      BY <1>0, <1>a, <2>1, <2>2
    <2>4. users' \in [Users -> User]
      BY <1>0, <2>1, <2>3 DEF User
    <2>5. Owns(users', Len(peers'))
      <3>1. users'[u].mine = Len(peers') /\ \A v \in Users \ {u} : users'[v] = users[v]
        BY <1>0, <2>1
      <3>2. Len(peers') \in 1..Len(peers') /\ \A m \in 1..Len(peers) : m \in 1..Len(peers')
        BY <1>0, <2>3
      <3> QED
        BY <1>0, <3>1, <3>2
    <2>6. peerConnection' \in 0..Len(peers') /\ audioTrack' \in 0..Len(peers')
      BY <1>0, <2>1, <2>3
    <2> HIDE DEF Owns
    <2> QED
      BY <1>0, <1>b, <2>1, <2>3, <2>4, <2>5, <2>6
  <1>4. ASSUME NEW u \in Users, MakeTrack(u) PROVE TranscriptionTyped'
    <2>1. /\ users[u].at = "track" /\ audioTrack' = users[u].mine /\ Step(u, "exchange")
          /\ UNCHANGED <<peers, peerConnection, connected, connecting, loops, closeChan, eventChan,
                         sequenceNumber, messages, latest, included, nilTrack, disconnected>>
      BY <1>4 DEF MakeTrack, streamVars
    <2>2. users[u].mine \in 1..Len(peers) /\ audioTrack' \in 0..Len(peers)
      BY <1>0, <2>1
    <2>3. users' \in [Users -> User] /\ Owns(users', Len(peers))
      BY <1>c, <2>1, <2>2
    <2> HIDE DEF Owns
    <2> QED
      BY <1>0, <1>b, <2>1, <2>2, <2>3
  <1>5. ASSUME NEW u \in Users, ExchangeSDP(u) PROVE TranscriptionTyped'
    <2> DEFINE i == users[u].mine
    <2>1. i \in 1..Len(peers) /\ peers[i] \in RtsPeer
      BY <1>0, <1>5 DEF ExchangeSDP
    <2>2. UNCHANGED <<peerConnection, audioTrack, connected, closeChan, eventChan, sequenceNumber,
                      messages, latest, included, nilTrack, disconnected>>
      BY <1>5 DEF ExchangeSDP, streamVars
    <2>3. CASE /\ peers[i].state = "new" /\ peers' = [peers EXCEPT ![i].state = "answered"]
               /\ loops < MaxLoops /\ loops' = loops + 1
               /\ ConnectReturns(u)
      <3>1. [peers[i] EXCEPT !.state = "answered"] \in RtsPeer
        BY <2>1 DEF RtsPeer, PeerState
      <3>2. PICK e \in RtsPeer : e = [peers[i] EXCEPT !.state = "answered"]
        BY <3>1
      <3>3. peers' = [peers EXCEPT ![i] = e]
        BY <2>3, <3>2
      <3>4. peers' \in Seq(RtsPeer) /\ Len(peers') = Len(peers)
        BY <1>0, <2>1, <3>3
      <3>5. connecting' \in BOOLEAN /\ users' \in [Users -> User] /\ Owns(users', Len(peers))
        BY <1>0, <1>d, <2>3 DEF ConnectReturns, Free
      <3>6. loops' \in 0..MaxLoops
        BY <1>0, <1>a, <2>3
      <3> HIDE DEF Owns, i
      <3> QED
        BY <1>0, <1>b, <2>2, <3>4, <3>5, <3>6
    <2>4. CASE peers' = ClosePeer(peers, i) /\ Step(u, "failed") /\ UNCHANGED <<loops, connecting>>
      <3>1. peers' \in Seq(RtsPeer) /\ Len(peers') = Len(peers)
        BY <1>0, <2>1, <2>4, ClosedPeerTyped
      <3>2. users' \in [Users -> User] /\ Owns(users', Len(peers))
        BY <1>c, <2>4
      <3> HIDE DEF Owns, i
      <3> QED
        BY <1>0, <1>b, <2>2, <2>4, <3>1, <3>2
    <2> QED
      BY <1>5, <2>3, <2>4 DEF ExchangeSDP
  <1>6. ASSUME NEW u \in Users, ConnectFails(u) PROVE TranscriptionTyped'
    <2>1. /\ UNCHANGED <<peers, peerConnection, audioTrack, connected, loops, closeChan, eventChan, sequenceNumber,
                         messages, latest, included, nilTrack, disconnected>>
          /\ connecting' \in BOOLEAN /\ users' = [users EXCEPT ![u] = [at |-> "idle", mine |-> 0]]
      BY <1>6 DEF ConnectFails, Free, linkVars, streamVars
    <2>2. users' \in [Users -> User] /\ Owns(users', Len(peers))
      BY <1>d, <2>1
    <2> HIDE DEF Owns
    <2> QED
      BY <1>0, <1>b, <2>1, <2>2
  <1>7. ASSUME NEW ps \in Seq(RtsPeer), Len(ps) = Len(peers), HandleDisconnection(ps)
        PROVE  /\ peers' \in Seq(RtsPeer) /\ Len(peers') = Len(peers)
               /\ peerConnection' \in 0..Len(peers) /\ audioTrack' \in 0..Len(peers)
               /\ connected' \in BOOLEAN /\ connecting' \in BOOLEAN
    <2>1. CASE peerConnection = 0
      BY <1>0, <1>7, <2>1 DEF HandleDisconnection
    <2>2. CASE peerConnection # 0
      <3>1. peerConnection \in 1..Len(ps) /\ 0 \in 0..Len(peers)
        BY <1>0, <1>7, <2>2
      <3>2. ClosePeer(ps, peerConnection) \in Seq(RtsPeer) /\ Len(ClosePeer(ps, peerConnection)) = Len(ps)
        BY <3>1, ClosedPeerTyped
      <3> QED
        BY <1>7, <2>2, <3>1, <3>2 DEF HandleDisconnection
    <2> QED
      BY <2>1, <2>2
  <1>8. ASSUME NEW u \in Users, CleanUp(u) PROVE TranscriptionTyped'
    <2>1. /\ UNCHANGED <<loops, closeChan, eventChan, sequenceNumber, messages, latest, included, nilTrack>>
          /\ HandleDisconnection(peers) /\ users' = [users EXCEPT ![u] = [at |-> "idle", mine |-> 0]]
          /\ disconnected' = TRUE
      BY <1>8 DEF CleanUp, Free, streamVars
    <2>2. /\ peers' \in Seq(RtsPeer) /\ Len(peers') = Len(peers)
          /\ peerConnection' \in 0..Len(peers) /\ audioTrack' \in 0..Len(peers)
          /\ connected' \in BOOLEAN /\ connecting' \in BOOLEAN
      BY <1>0, <1>7, <2>1
    <2>3. users' \in [Users -> User] /\ Owns(users', Len(peers))
      BY <1>d, <2>1
    <2> HIDE DEF Owns
    <2> QED
      BY <1>0, <1>b, <2>1, <2>2, <2>3
  <1>9. ASSUME NEW u \in Users, TakeSequenceNumber(u) \/ WriteRTP(u) PROVE TranscriptionTyped'
    <2>1. /\ UNCHANGED <<peers, peerConnection, audioTrack, connected, connecting, loops, closeChan, eventChan,
                         messages, latest, included, disconnected>>
          /\ nilTrack' \in BOOLEAN
      BY <1>0, <1>9 DEF TakeSequenceNumber, WriteRTP, linkVars
    <2>2. sequenceNumber' \in 0..MaxFrames
      BY <1>0, <1>a, <1>9 DEF TakeSequenceNumber, WriteRTP
    <2>3. Step(u, "write") \/ Step(u, "output")
      BY <1>9 DEF TakeSequenceNumber, WriteRTP
    <2>4. users' \in [Users -> User] /\ Owns(users', Len(peers))
      BY <1>c, <2>3
    <2> HIDE DEF Owns
    <2> QED
      BY <1>0, <1>b, <2>1, <2>2, <2>4
  <1>10. ASSUME NEW u \in Users, IncludeLatest(u) PROVE TranscriptionTyped'
    <2>1. /\ UNCHANGED <<peers, peerConnection, audioTrack, connected, connecting, loops, closeChan, eventChan,
                         sequenceNumber, messages, nilTrack, disconnected>>
          /\ included' = IF latest = 0 THEN included ELSE Append(included, latest)
          /\ latest' = 0 /\ users' = [users EXCEPT ![u] = [at |-> "idle", mine |-> 0]]
      BY <1>10 DEF IncludeLatest, Free, linkVars
    <2>2. included' \in Seq(1..MaxMessages)
      <3>1. CASE latest = 0
        BY <1>0, <2>1, <3>1
      <3>2. CASE latest # 0
        <4>1. latest \in 1..MaxMessages /\ included' = Append(included, latest)
          BY <1>0, <1>a, <2>1, <3>2
        <4> QED
          BY <1>0, <4>1
      <3> QED
        BY <3>1, <3>2
    <2>3. latest' \in 0..messages'
      BY <1>0, <2>1
    <2>4. users' \in [Users -> User] /\ Owns(users', Len(peers))
      BY <1>d, <2>1
    <2> HIDE DEF Owns
    <2> QED
      BY <1>0, <1>b, <2>1, <2>2, <2>3, <2>4
  <1>11. ASSUME NEW i \in 1..Len(peers), PeerConnects(i) \/ PeerFails(i) \/ ReportConnected(i)
         PROVE  TranscriptionTyped'
    <2>1. /\ UNCHANGED <<peerConnection, audioTrack, connecting, users, loops, closeChan, eventChan,
                         sequenceNumber, messages, latest, included, nilTrack, disconnected>>
          /\ connected' \in BOOLEAN
      BY <1>0, <1>11 DEF PeerConnects, PeerFails, PeerChanges, ReportConnected, streamVars
    <2>2. peers[i] \in RtsPeer
      BY <1>0
    <2>3. PICK e \in RtsPeer : peers' = [peers EXCEPT ![i] = e]
      <3>1. CASE ReportConnected(i)
        <4>1. [peers[i] EXCEPT !.reports = @ \ {"connected"}] \in RtsPeer
          BY <2>2 DEF RtsPeer
        <4> QED
          BY <3>1, <4>1 DEF ReportConnected
      <3>2. ASSUME NEW to \in {"connected", "failed"}, PeerChanges(i, {"answered"}, to)
                                  \/ PeerChanges(i, {"answered", "connected"}, to)
            PROVE  \E e \in RtsPeer : peers' = [peers EXCEPT ![i] = e]
        <4>1. [state |-> to, reports |-> peers[i].reports \cup {to}] \in RtsPeer
          BY <2>2 DEF RtsPeer, PeerState
        <4> QED
          BY <3>2, <4>1 DEF PeerChanges
      <3> QED
        BY <1>11, <3>1, <3>2 DEF PeerConnects, PeerFails
    <2>4. peers' \in Seq(RtsPeer) /\ Len(peers') = Len(peers)
      BY <1>0, <2>3
    <2> HIDE DEF Owns
    <2> QED
      BY <1>0, <1>b, <2>1, <2>4
  <1>12. ASSUME NEW i \in 1..Len(peers), NEW state \in {"failed", "closed"}, ReportDown(i, state)
         PROVE  TranscriptionTyped'
    <2>1. /\ UNCHANGED <<users, loops, closeChan, eventChan, sequenceNumber, messages, latest, included, nilTrack,
                         disconnected>>
          /\ HandleDisconnection([peers EXCEPT ![i].reports = @ \ {state}])
      BY <1>12 DEF ReportDown, streamVars
    <2>2. [peers EXCEPT ![i].reports = @ \ {state}] \in Seq(RtsPeer)
          /\ Len([peers EXCEPT ![i].reports = @ \ {state}]) = Len(peers)
      <3>1. peers[i] \in RtsPeer
        BY <1>0
      <3>2. [peers[i] EXCEPT !.reports = @ \ {state}] \in RtsPeer
        BY <3>1 DEF RtsPeer
      <3>3. PICK e \in RtsPeer : e = [peers[i] EXCEPT !.reports = @ \ {state}]
        BY <3>2
      <3>4. [peers EXCEPT ![i].reports = @ \ {state}] = [peers EXCEPT ![i] = e]
        BY <3>3
      <3>5. [peers EXCEPT ![i] = e] \in Seq(RtsPeer) /\ Len([peers EXCEPT ![i] = e]) = Len(peers)
        BY <1>0
      <3> QED
        BY <3>4, <3>5
    <2>3. /\ peers' \in Seq(RtsPeer) /\ Len(peers') = Len(peers)
          /\ peerConnection' \in 0..Len(peers) /\ audioTrack' \in 0..Len(peers)
          /\ connected' \in BOOLEAN /\ connecting' \in BOOLEAN
      BY <1>7, <2>1, <2>2
    <2> HIDE DEF Owns
    <2> QED
      BY <1>0, <1>b, <2>1, <2>3
  <1>13. ASSUME NEW i \in 1..Len(peers), HandleDataChannelMessage(i) PROVE TranscriptionTyped'
    <2>1. UNCHANGED <<peers, peerConnection, audioTrack, connected, connecting, users, loops, closeChan,
                      sequenceNumber, included, nilTrack, disconnected>>
      BY <1>13 DEF HandleDataChannelMessage, linkVars
    <2>2. messages' \in 0..MaxMessages /\ latest' \in 0..messages' /\ eventChan' \in 0..EventQueue
      BY <1>0, <1>a, <1>13 DEF HandleDataChannelMessage, NotifyTranscription
    <2> HIDE DEF Owns
    <2> QED
      BY <1>0, <1>b, <2>1, <2>2
  <1>14. CASE LoopEnds \/ ProcessRealtimeEvent
    <2>1. /\ UNCHANGED <<peers, peerConnection, audioTrack, connected, connecting, users, closeChan,
                         sequenceNumber, messages, latest, included, nilTrack, disconnected>>
      BY <1>14 DEF LoopEnds, ProcessRealtimeEvent, linkVars, streamVars
    <2>2. loops' \in 0..MaxLoops /\ eventChan' \in 0..EventQueue
      <3>1. /\ loops' = loops \/ (loops > 0 /\ loops' = loops - 1)
            /\ eventChan' = eventChan \/ (eventChan > 0 /\ eventChan' = eventChan - 1)
        BY <1>14 DEF LoopEnds, ProcessRealtimeEvent
      <3> QED
        BY <1>0, <1>a, <3>1
    <2> HIDE DEF Owns
    <2> QED
      BY <1>0, <1>b, <2>1, <2>2
  <1> QED
    BY <1>1, <1>2, <1>3, <1>4, <1>5, <1>6, <1>8, <1>9, <1>10, <1>11, <1>12, <1>13, <1>14 DEF TranscriptionNext

LEMMA TranscriptionAlwaysTyped == TranscriptionSpec => []TranscriptionTypeOK
  <1>1. TranscriptionInit => TranscriptionTyped
    <2> SUFFICES ASSUME TranscriptionInit PROVE TranscriptionTyped
      OBVIOUS
    <2>1. MaxPeers \in Nat /\ MaxMessages \in Nat /\ MaxFrames \in Nat /\ EventQueue \in Nat /\ MaxLoops \in Nat
      BY TranscriptionAssumption
    <2>2. users \in [Users -> User] /\ \A u \in Users : users[u].at = "idle"
      BY <2>1 DEF TranscriptionInit, Free, User
    <2>3. peers = <<>> /\ Len(peers) = 0 /\ included \in Seq(1..MaxMessages)
      BY DEF TranscriptionInit
    <2>4. /\ peerConnection \in 0..Len(peers) /\ audioTrack \in 0..Len(peers) /\ loops \in 0..MaxLoops
          /\ eventChan \in 0..EventQueue /\ sequenceNumber \in 0..MaxFrames /\ messages \in 0..MaxMessages
          /\ latest \in 0..messages /\ Len(peers) <= MaxPeers
      BY <2>1, <2>3 DEF TranscriptionInit
    <2>5. peers \in Seq([state : PeerState, reports : SUBSET {"connected", "failed", "closed"}])
      BY <2>3
    <2>6. connected \in BOOLEAN /\ connecting \in BOOLEAN /\ closeChan \in BOOLEAN
          /\ nilTrack \in BOOLEAN /\ disconnected \in BOOLEAN
      BY DEF TranscriptionInit
    <2>7. \A u \in Users : ~(users[u].at \in {"track", "exchange"})
      BY <2>2
    <2> QED
      BY <2>2, <2>3, <2>4, <2>5, <2>6, <2>7 DEF TranscriptionTyped, TranscriptionTypeOK
  <1>2. TranscriptionTyped => TranscriptionTypeOK
    BY DEF TranscriptionTyped
  <1> QED
    BY <1>1, <1>2, TranscriptionTypedStep, PTL DEF TranscriptionSpec


-------------------------------------------------------------------------------
(* Proof of the types of the speech stage: the languages that succeeded are some of those   *)
(* that were requested, so that no count of failures is negative.                           *)

SpeechRestTypes ==
    /\ speechBreaker \in [state : {"closed", "open", "halfOpen"}, failureCount : Nat]
    /\ speechRetryDue \in BOOLEAN /\ speechTokens \in 0..SpeechBurst
    /\ speechStats \in [batches : Nat, total : Nat, successful : Nat, failed : Nat]

LEMMA AudioWasRequested ==
  ASSUME SpeechInv, NEW s \in Speakers
  PROVE  /\ Cardinality(batches[s].langs) \in Nat /\ Cardinality(batches[s].ttsAudioMap) \in Nat
         /\ batches[s].at # "idle" =>
               Cardinality(batches[s].langs) - Cardinality(batches[s].ttsAudioMap) \in Nat
  <1>1. batches[s].langs \subseteq SpeechLanguages /\ batches[s].ttsAudioMap \subseteq SpeechLanguages
    BY DEF SpeechInv, SpeechTypes, Batch
  <1>2. IsFiniteSet(batches[s].langs) /\ IsFiniteSet(batches[s].ttsAudioMap)
    BY <1>1, FS_Subset, SpeechAssumption
  <1>3. Cardinality(batches[s].langs) \in Nat /\ Cardinality(batches[s].ttsAudioMap) \in Nat
    BY <1>2, FS_CardinalityType
  <1>4. ASSUME batches[s].at # "idle"
        PROVE  Cardinality(batches[s].ttsAudioMap) <= Cardinality(batches[s].langs)
    <2>1. ASSUME NEW l \in batches[s].ttsAudioMap PROVE l \in batches[s].langs
      <3>1. Traced(s, l)
        BY <1>1 DEF SpeechInv
      <3> QED
        BY <1>4, <3>1 DEF Traced
    <2>2. batches[s].ttsAudioMap \subseteq batches[s].langs
      BY <2>1
    <2> QED
      BY <1>2, <2>2, FS_Subset
  <1>5. ASSUME batches[s].at # "idle"
        PROVE  Cardinality(batches[s].langs) - Cardinality(batches[s].ttsAudioMap) \in Nat
    <2>1. PICK a \in Nat, b \in Nat : a = Cardinality(batches[s].langs) /\ b = Cardinality(batches[s].ttsAudioMap)
      BY <1>3
    <2>2. b <= a
      BY <1>4, <1>5, <2>1
    <2> QED
      BY <2>1, <2>2
  <1> QED
    BY <1>3, <1>5

LEMMA SpeechRestKept ==
  SpeechInv /\ SpeechRestTypes /\ [SpeechNext]_speechVars => SpeechRestTypes'
  <1> SUFFICES ASSUME SpeechInv, SpeechRestTypes, [SpeechNext]_speechVars PROVE SpeechRestTypes'
    OBVIOUS
  <1>0. SpeechBurst \in Nat
    BY SpeechAssumption
  <1>1. CASE UNCHANGED <<speechBreaker, speechRetryDue, speechTokens, speechStats>>
    BY <1>1 DEF SpeechRestTypes
  <1>2. ASSUME NEW s \in Speaking, NEW l \in SpeechLanguages,
               \/ GenerateTTS(s, l) \/ AllowSpeech(s, l) \/ CallOpenAITTS(s, l)
               \/ SpeechRecordAPISuccess(s, l) \/ SpeechRecordAPIFailure(s, l)
        PROVE  SpeechRestTypes'
    <2>1. speechStats' = speechStats
      BY <1>2 DEF GenerateTTS, AllowSpeech, CallOpenAITTS, SpeechRecordAPISuccess, SpeechRecordAPIFailure
    <2>2. speechTokens' \in 0..SpeechBurst
      BY <1>0, <1>2 DEF SpeechRestTypes, GenerateTTS, AllowSpeech, CallOpenAITTS, SpeechRecordAPISuccess,
         SpeechRecordAPIFailure
    <2>3. speechRetryDue' \in BOOLEAN
      BY <1>2 DEF SpeechRestTypes, GenerateTTS, AllowSpeech, CallOpenAITTS, SpeechRecordAPISuccess,
         SpeechRecordAPIFailure
    <2>4. speechBreaker' \in [state : {"closed", "open", "halfOpen"}, failureCount : Nat]
      BY <1>2 DEF SpeechRestTypes, GenerateTTS, AllowSpeech, CallOpenAITTS, SpeechRecordAPISuccess,
         SpeechRecordAPIFailure
    <2> QED
      BY <2>1, <2>2, <2>3, <2>4 DEF SpeechRestTypes
  <1>3. ASSUME NEW s \in Speakers, UpdateSpeechStats(s) PROVE SpeechRestTypes'
    <2>1. PICK requested, successful :
            /\ requested = Cardinality(batches[s].langs) /\ successful = Cardinality(batches[s].ttsAudioMap)
            /\ speechStats' = [batches |-> speechStats.batches + 1,
                       total |-> speechStats.total + requested,
                       successful |-> speechStats.successful + successful,
                       failed |-> speechStats.failed + (requested - successful)]
            /\ batches[s].at = "count"
      BY <1>3 DEF UpdateSpeechStats
    <2>2. requested \in Nat /\ successful \in Nat /\ requested - successful \in Nat
      BY <2>1, AudioWasRequested
    <2>3. PICK failed \in Nat : failed = requested - successful
      BY <2>2
    <2>4. /\ speechStats.batches \in Nat /\ speechStats.total \in Nat
          /\ speechStats.successful \in Nat /\ speechStats.failed \in Nat
      BY DEF SpeechRestTypes
    <2>5. speechStats' \in [batches : Nat, total : Nat, successful : Nat, failed : Nat]
      BY <2>1, <2>2, <2>3, <2>4
    <2> QED
      BY <1>3, <2>5 DEF UpdateSpeechStats, SpeechRestTypes
  <1>4. ASSUME NEW l \in SpeechLanguages, SpeechWarmUp(l) PROVE SpeechRestTypes'
    BY <1>4 DEF SpeechWarmUp, SpeechRestTypes, NoSpeech
  <1>5. CASE SpeechRetryComesDue \/ SpeechTokenRefills
    <2>1. speechBreaker' = speechBreaker /\ speechStats' = speechStats /\ speechRetryDue' \in BOOLEAN
      BY <1>5 DEF SpeechRetryComesDue, SpeechTokenRefills, SpeechRestTypes
    <2>2. speechTokens' = speechTokens \/ (speechTokens < SpeechBurst /\ speechTokens' = speechTokens + 1)
      BY <1>5 DEF SpeechRetryComesDue, SpeechTokenRefills
    <2>3. speechTokens' \in 0..SpeechBurst
      BY <1>0, <2>2 DEF SpeechRestTypes
    <2> QED
      BY <2>1, <2>3 DEF SpeechRestTypes
  <1>6. ASSUME NEW s \in Speakers, NEW l \in SpeechLanguages, SendResult(s, l) PROVE SpeechRestTypes'
    BY <1>1, <1>6 DEF SendResult
  <1>7. ASSUME NEW s \in Speakers, CloseResults(s) \/ CollectResult(s) \/ CollectingEnds(s)
        PROVE  SpeechRestTypes'
    BY <1>1, <1>7 DEF CloseResults, CollectResult, CollectingEnds
  <1>8. ASSUME NEW s \in Speakers, NEW langs, NEW refused, GenerateTTSParallel(s, langs, refused)
        PROVE  SpeechRestTypes'
    BY <1>1, <1>8 DEF GenerateTTSParallel
  <1> QED
    BY <1>1, <1>2, <1>3, <1>4, <1>5, <1>6, <1>7, <1>8 DEF SpeechNext, speechVars

LEMMA SpeechAlwaysTyped == SpeechSpec => []SpeechTypeOK
  <1>1. SpeechInit => SpeechRestTypes
    <2>1. SpeechBurst \in 0..SpeechBurst
      BY SpeechAssumption
    <2> QED
      BY <2>1 DEF SpeechInit, SpeechRestTypes, NoSpeech
  <1>2. SpeechInv /\ SpeechRestTypes => SpeechTypeOK
    BY DEF SpeechInv, SpeechTypes, SpeechRestTypes, SpeechTypeOK
  <1> QED
    BY <1>1, <1>2, SpeechInvInit, SpeechInvNext, SpeechRestKept, PTL DEF SpeechSpec


-------------------------------------------------------------------------------
(* The broadcasts.  A frame has been heard by the callbacks it was given that the track's    *)
(* goroutine has no longer before it, by each once; of two tracks no frame is the same.      *)

\* The callbacks that a frame's track has still to call.
Owed(n, l) == \E t \in BroadcastTracks : processing[t].frame = n /\ l \in Range(processing[t].left)

BroadcastBooks ==
    /\ IsInjective(broadcastCallbacks)
    /\ \A n \in 1..Len(frames) : passedOn[n] = "plain" => frames[n].callbacks = <<>>
    /\ \A t \in BroadcastTracks :
          /\ IsInjective(processing[t].left)
          /\ processing[t].frame = 0 => processing[t].left = <<>>
          /\ processing[t].frame # 0 =>
                /\ processing[t].frame \in 1..Len(frames)
                /\ passedOn[processing[t].frame] = "no"
                /\ Range(processing[t].left) \subseteq Range(frames[processing[t].frame].callbacks)
    /\ \A t, u \in BroadcastTracks :
          t # u /\ processing[t].frame = processing[u].frame => processing[t].frame = 0
    /\ \A l \in Listeners : \A i \in 1..Len(heard[l]) : heard[l][i].frame \in 1..Len(frames)

HeardRight ==
    \A n \in 1..Len(frames), l \in Listeners :
        HeardOf(l, n) = IF l \in Range(frames[n].callbacks) /\ ~Owed(n, l) THEN 1 ELSE 0

InAll(hs, K) == TotalOf([l \in Listeners |-> CountIn(hs[l], K)])

BroadcastCounts ==
    /\ broadcastStats.total = InAll(heard, HeardCall)
    /\ broadcastStats.failed = InAll(heard, FailedCalls)
    /\ broadcastStats.partial = InAll(heard, PartialCalls)
    /\ broadcastStats.total = broadcastStats.failed + broadcastStats.partial + broadcastStats.final

BroadcastInv == BroadcastTypeOK /\ BroadcastBooks /\ HeardRight /\ BroadcastCounts

\* A call more adds one to the counts of the kinds it is of.
LEMMA CallsAdd ==
  ASSUME NEW hs \in [Listeners -> Seq(HeardCall)], NEW more, NEW l \in Listeners, NEW e \in HeardCall,
         more[l] = Append(hs[l], e), \A m \in Listeners \ {l} : more[m] = hs[m], NEW K
  PROVE  InAll(more, K) = InAll(hs, K) + OneIf(e, K) /\ InAll(hs, K) \in Nat
  <1> DEFINE f == [m \in Listeners |-> CountIn(hs[m], K)]
             g == [m \in Listeners |-> CountIn(more[m], K)]
             v == CountIn(Append(hs[l], e), K)
  <1>1. \A m \in Listeners : CountIn(hs[m], K) \in Nat
    BY CountAppended
  <1>2. v = CountIn(hs[l], K) + OneIf(e, K)
    BY CountAppended
  <1>3. OneIf(e, K) \in Int
    BY DEF OneIf
  <1>4. more[l] = Append(hs[l], e) /\ \A m \in Listeners \ {l} : more[m] = hs[m]
    OBVIOUS
  <1>5. f \in [Listeners -> Int] /\ f \in [Listeners -> Nat] /\ f[l] = CountIn(hs[l], K) /\ f[l] \in Int
    BY <1>1
  <1>6. g = [f EXCEPT ![l] = v]
    <2> HIDE DEF v
    <2>1. CountIn(more[l], K) = v
      BY <1>4 DEF v
    <2> QED
      BY <1>4, <2>1
  <1> HIDE DEF f, g, v
  <1>7. v \in Int
    BY <1>2, <1>3, <1>5
  <1>8. TotalOf(g) = TotalOf(f) - f[l] + v
    BY <1>5, <1>6, <1>7, TotalChanged, BroadcastAssumption
  <1>9. TotalOf(f) \in Nat
    BY <1>5, TotalOfNats, BroadcastAssumption
  <1>10. TotalOf(g) = TotalOf(f) + OneIf(e, K)
    BY <1>2, <1>3, <1>5, <1>8, <1>9
  <1> QED
    BY <1>9, <1>10 DEF InAll, f, g

\* No call is of one kind more or less than it was.
LEMMA CallsSame ==
  ASSUME NEW hs \in [Listeners -> Seq(HeardCall)], NEW K, NEW L,
         \A l \in Listeners : \A i \in 1..Len(hs[l]) : hs[l][i] \in K <=> hs[l][i] \in L
  PROVE  InAll(hs, K) = InAll(hs, L)
  <1>1. ASSUME NEW l \in Listeners PROVE CountIn(hs[l], K) = CountIn(hs[l], L)
    <2>1. DOMAIN hs[l] = 1..Len(hs[l])
      OBVIOUS
    <2>2. {n \in DOMAIN hs[l] : hs[l][n] \in K} = {n \in DOMAIN hs[l] : hs[l][n] \in L}
      BY <2>1
    <2> QED
      BY <2>2 DEF CountIn
  <1> QED
    BY <1>1 DEF InAll

LEMMA BroadcastInvInit == BroadcastInit => BroadcastInv
  <1> SUFFICES ASSUME BroadcastInit PROVE BroadcastInv
    OBVIOUS
  <1>1. /\ broadcastCallbacks = <<>> /\ frames = <<>> /\ Len(frames) = 0
        /\ processing \in [BroadcastTracks -> {NoFrame}] /\ heard = [l \in Listeners |-> <<>>]
        /\ broadcastStats = [total |-> 0, partial |-> 0, final |-> 0, failed |-> 0]
        /\ passedOn = <<>>
    BY DEF BroadcastInit
  <1>2. BroadcastTypeOK
    <2>1. processing \in [BroadcastTracks -> [frame : 0..MaxBroadcasts, left : Seq(Listeners)]]
      <3>1. NoFrame \in [frame : 0..MaxBroadcasts, left : Seq(Listeners)]
        BY BroadcastAssumption DEF NoFrame
      <3> QED
        BY <1>1, <3>1
    <2>2. passedOn \in [1..Len(frames) -> {"no", "plain", "marked"}]
      BY <1>1
    <2> QED
      BY <1>1, <2>1, <2>2 DEF BroadcastTypeOK
  <1>3. BroadcastBooks
    <2>1. \A t \in BroadcastTracks : processing[t].frame = 0 /\ processing[t].left = <<>>
      BY <1>1 DEF NoFrame
    <2>2. \A l \in Listeners : 1..Len(heard[l]) = {}
      BY <1>1
    <2>3. 1..Len(frames) = {}
      BY <1>1
    <2> QED
      BY <1>1, <2>1, <2>2, <2>3, EmptyRange DEF BroadcastBooks
  <1>4. HeardRight
    BY <1>1 DEF HeardRight
  <1>5. ASSUME NEW K PROVE InAll(heard, K) = 0
    <2>1. ASSUME NEW l \in Listeners PROVE CountIn(heard[l], K) = 0
      <3>1. heard[l] = <<>> /\ DOMAIN heard[l] = {}
        BY <1>1
      <3>2. {n \in DOMAIN heard[l] : heard[l][n] \in K} = {}
        BY <3>1
      <3> QED
        BY <3>2, FS_EmptySet DEF CountIn
    <2>2. InAll(heard, K) = TotalOf([l \in Listeners |-> 0])
      BY <2>1 DEF InAll
    <2> QED
      BY <2>2, TotalOfZeros, BroadcastAssumption
  <1>6. BroadcastCounts
    BY <1>1, <1>5 DEF BroadcastCounts
  <1> QED
    BY <1>2, <1>3, <1>4, <1>6 DEF BroadcastInv

\* What is counted after a step.
LEMMA PrimedCounts ==
  /\ InAll(heard, HeardCall)' = InAll(heard', HeardCall)
  /\ InAll(heard, FailedCalls)' = InAll(heard', FailedCalls)
  /\ InAll(heard, PartialCalls)' = InAll(heard', PartialCalls')
  BY DEF FailedCalls, HeardCall

LEMMA CountsStay ==
  ASSUME BroadcastInv, UNCHANGED <<heard, frames, broadcastStats>>
  PROVE  BroadcastCounts'
  <1>1. PartialCalls' = PartialCalls
    BY DEF PartialCalls, HeardCall
  <1> QED
    BY <1>1, PrimedCounts DEF BroadcastInv, BroadcastCounts

LEMMA HeardStays ==
  ASSUME UNCHANGED heard, NEW l, NEW n
  PROVE  HeardOf(l, n)' = HeardOf(l, n)
  BY DEF HeardOf, CallsOf, HeardCall

LEMMA ListenerAdds ==
  ASSUME BroadcastInv, NEW l \in Listeners, AddBroadcastCallback(l)
  PROVE  BroadcastInv'
  <1>1. /\ broadcastCallbacks \in Seq(Listeners) /\ IsInjective(broadcastCallbacks)
        /\ l \notin Range(broadcastCallbacks) /\ broadcastCallbacks' = Append(broadcastCallbacks, l)
        /\ UNCHANGED <<frames, processing, heard, broadcastStats, passedOn>>
    BY DEF BroadcastInv, BroadcastTypeOK, BroadcastBooks, AddBroadcastCallback, ToSet, Range
  <1>2. broadcastCallbacks' \in Seq(Listeners) /\ IsInjective(broadcastCallbacks')
    BY <1>1, AppendsNew
  <1>3. BroadcastTypeOK' /\ BroadcastBooks'
    BY <1>1, <1>2 DEF BroadcastInv, BroadcastTypeOK, BroadcastBooks
  <1>4. HeardRight'
    <2>1. \A n \in 1..Len(frames), m \in Listeners : Owed(n, m)' <=> Owed(n, m)
      BY <1>1 DEF Owed
    <2> QED
      BY <1>1, <2>1, HeardStays DEF BroadcastInv, HeardRight
  <1>5. BroadcastCounts'
    BY <1>1, CountsStay
  <1> QED
    BY <1>3, <1>4, <1>5 DEF BroadcastInv

LEMMA ContentsEnter ==
  ASSUME BroadcastInv, NEW t \in BroadcastTracks, NEW contents \in Contents, ProcessContents(t, contents)
  PROVE  BroadcastInv'
  <1>0. PICK n : n = Len(frames) + 1
    OBVIOUS
  <1> DEFINE carries == contents # NoContents
             given == IF carries THEN broadcastCallbacks ELSE <<>>
             f == [contents |-> contents, callbacks |-> given]
  <1>1. /\ processing[t] = NoFrame /\ Len(frames) < MaxBroadcasts
        /\ frames' = Append(frames, f)
        /\ passedOn' = Append(passedOn, IF carries THEN "no" ELSE "plain")
        /\ processing' = IF carries
                     THEN [processing EXCEPT ![t] = [frame |-> n, left |-> broadcastCallbacks]]
                     ELSE processing
        /\ UNCHANGED <<broadcastCallbacks, heard, broadcastStats>>
    BY <1>0 DEF ProcessContents
  <1>2. /\ frames \in Seq([contents : Contents, callbacks : Seq(Listeners)]) /\ Len(frames) \in Nat
        /\ broadcastCallbacks \in Seq(Listeners) /\ IsInjective(broadcastCallbacks)
        /\ processing \in [BroadcastTracks -> [frame : 0..MaxBroadcasts, left : Seq(Listeners)]]
        /\ heard \in [Listeners -> Seq(HeardCall)]
        /\ passedOn \in [1..Len(frames) -> {"no", "plain", "marked"}]
        /\ MaxBroadcasts \in Nat
    BY BroadcastAssumption DEF BroadcastInv, BroadcastTypeOK, BroadcastBooks
  <1>3. /\ n \in Nat \ {0} /\ n \in 1..MaxBroadcasts /\ n \in 1..n /\ n \notin 1..Len(frames)
        /\ 1..n = 1..Len(frames) \cup {n} /\ \A m \in 1..Len(frames) : m \in 1..n /\ m # n
    BY <1>0, <1>1, <1>2
  <1>4. f \in [contents : Contents, callbacks : Seq(Listeners)]
    BY <1>2
  <1>5. /\ frames' \in Seq([contents : Contents, callbacks : Seq(Listeners)]) /\ Len(frames') = n
        /\ frames'[n] = f /\ \A m \in 1..Len(frames) : frames'[m] = frames[m]
    <2> HIDE DEF f
    <2> QED
      BY <1>0, <1>1, <1>2, <1>4
  <1>6. /\ passedOn' \in [1..n -> {"no", "plain", "marked"}]
        /\ passedOn'[n] = (IF carries THEN "no" ELSE "plain")
        /\ \A m \in 1..Len(frames) : passedOn'[m] = passedOn[m]
    <2>1. passedOn \in Seq({"no", "plain", "marked"}) /\ Len(passedOn) = Len(frames)
      <3>1. PICK k \in Nat : k = Len(frames)
        BY <1>2
      <3>2. passedOn \in [1..k -> {"no", "plain", "marked"}]
        BY <1>2, <3>1
      <3> QED
        BY <3>1, <3>2
    <2> HIDE DEF carries
    <2>2. PICK mark \in {"no", "plain"} : mark = IF carries THEN "no" ELSE "plain"
      OBVIOUS
    <2>3. /\ passedOn' \in Seq({"no", "plain", "marked"}) /\ Len(passedOn') = Len(passedOn) + 1
          /\ passedOn'[Len(passedOn) + 1] = mark /\ \A m \in 1..Len(passedOn) : passedOn'[m] = passedOn[m]
      <3>1. passedOn' = Append(passedOn, mark)
        BY <1>1, <2>2
      <3> QED
        BY <2>1, <3>1
    <2>4. passedOn' \in [1..Len(passedOn') -> {"no", "plain", "marked"}]
      BY <2>3
    <2>5. n = Len(passedOn) + 1
      BY <1>0, <2>1
    <2> QED
      BY <2>1, <2>2, <2>3, <2>4, <2>5
  <1>7. processing' \in [BroadcastTracks -> [frame : 0..MaxBroadcasts, left : Seq(Listeners)]]
    <2>1. n \in 0..MaxBroadcasts
      BY <1>2, <1>3
    <2> QED
      BY <1>1, <1>2, <2>1
  <1>8. BroadcastTypeOK'
    BY <1>1, <1>2, <1>5, <1>6, <1>7 DEF BroadcastInv, BroadcastTypeOK
  <1>9. /\ \A u \in BroadcastTracks \ {t} : processing'[u] = processing[u]
        /\ carries => processing'[t].frame = n /\ processing'[t].left = broadcastCallbacks
        /\ ~carries => processing' = processing
        /\ processing[t].frame = 0 /\ processing[t].left = <<>>
    BY <1>1, <1>2 DEF NoFrame
  <1>10. BroadcastBooks'
    <2> HIDE DEF carries
    <2>1. ASSUME NEW m \in 1..Len(frames'), passedOn'[m] = "plain" PROVE frames'[m].callbacks = <<>>
      <3>1. CASE m = n
        BY <1>5, <1>6, <2>1, <3>1
      <3>2. CASE m # n
        <4>1. m \in 1..Len(frames)
          BY <1>3, <1>5, <3>2
        <4> QED
          BY <1>5, <1>6, <2>1, <4>1 DEF BroadcastInv, BroadcastBooks
      <3> QED
        BY <3>1, <3>2
    <2>2. ASSUME NEW u \in BroadcastTracks
          PROVE  /\ IsInjective(processing'[u].left)
                 /\ processing'[u].frame = 0 => processing'[u].left = <<>>
                 /\ processing'[u].frame # 0 =>
                        /\ processing'[u].frame \in 1..Len(frames')
                        /\ passedOn'[processing'[u].frame] = "no"
                        /\ Range(processing'[u].left) \subseteq Range(frames'[processing'[u].frame].callbacks)
      <3>1. CASE processing'[u] = processing[u]
        <4>1. /\ IsInjective(processing[u].left)
              /\ processing[u].frame = 0 => processing[u].left = <<>>
              /\ processing[u].frame # 0 =>
                    /\ processing[u].frame \in 1..Len(frames)
                    /\ passedOn[processing[u].frame] = "no"
                    /\ Range(processing[u].left) \subseteq Range(frames[processing[u].frame].callbacks)
          BY DEF BroadcastInv, BroadcastBooks
        <4> QED
          BY <1>3, <1>5, <1>6, <3>1, <4>1
      <3>2. CASE processing'[u] # processing[u]
        <4>1. u = t /\ carries
          BY <1>9, <3>2
        <4>2. processing'[u].frame = n /\ processing'[u].left = broadcastCallbacks
              /\ frames'[n].callbacks = broadcastCallbacks /\ passedOn'[n] = "no"
          BY <1>5, <1>6, <1>9, <4>1
        <4> QED
          BY <1>2, <1>3, <1>5, <4>2
      <3> QED
        BY <3>1, <3>2
    <2>3. ASSUME NEW u \in BroadcastTracks, NEW v \in BroadcastTracks, u # v,
                 processing'[u].frame = processing'[v].frame
          PROVE  processing'[u].frame = 0
      <3>1. \A w \in BroadcastTracks : processing[w].frame # n
        BY <1>3 DEF BroadcastInv, BroadcastBooks
      <3> QED
        BY <1>9, <2>3, <3>1 DEF BroadcastInv, BroadcastBooks
    <2>4. \A l \in Listeners : \A i \in 1..Len(heard'[l]) : heard'[l][i].frame \in 1..Len(frames')
      BY <1>1, <1>3, <1>5 DEF BroadcastInv, BroadcastBooks
    <2> QED
      BY <1>1, <1>2, <2>1, <2>2, <2>3, <2>4 DEF BroadcastBooks
  <1>11. HeardRight'
    <2> SUFFICES ASSUME NEW m \in 1..n, NEW l \in Listeners
                 PROVE  HeardOf(l, m)' = IF l \in Range(frames'[m].callbacks) /\ ~Owed(m, l)' THEN 1 ELSE 0
      BY <1>5 DEF HeardRight
    <2>1. HeardOf(l, m)' = HeardOf(l, m)
      BY <1>1, HeardStays
    <2>2. CASE m = n
      <3>1. HeardOf(l, m) = 0
        <4>1. {i \in DOMAIN heard[l] : heard[l][i] \in {h \in HeardCall : h.frame = m}} = {}
          <5>1. DOMAIN heard[l] = 1..Len(heard[l])
            BY <1>2
          <5>2. \A i \in 1..Len(heard[l]) : heard[l][i].frame # n
            BY <1>3 DEF BroadcastInv, BroadcastBooks
          <5> QED
            BY <2>2, <5>1, <5>2
        <4> QED
          BY <4>1, FS_EmptySet DEF HeardOf, CallsOf
      <3>2. CASE carries
        <4>1. l \in Range(frames'[n].callbacks) => Owed(n, l)'
          <5>1. frames'[n].callbacks = broadcastCallbacks
            BY <1>5, <3>2
          <5>2. processing'[t].frame = n /\ processing'[t].left = broadcastCallbacks
            BY <1>9, <3>2
          <5> HIDE DEF carries, given, f
          <5> QED
            BY <5>1, <5>2 DEF Owed
        <4>2. l \in Range(frames'[m].callbacks) => Owed(m, l)'
          BY <2>2, <4>1
        <4> HIDE DEF carries, f
        <4> QED
          BY <2>1, <2>2, <3>1, <4>2
      <3>3. CASE ~carries
        <4>1. frames'[n].callbacks = <<>>
          BY <1>5, <3>3
        <4> QED
          BY <2>1, <2>2, <3>1, <4>1, EmptyRange
      <3> QED
        BY <3>2, <3>3
    <2>3. CASE m # n
      <3>1. m \in 1..Len(frames) /\ m # 0
        <4>1. m \in 1..Len(frames)
          BY <1>3, <2>3
        <4> QED
          BY <1>2, <4>1
      <3>2. Owed(m, l)' <=> Owed(m, l)
        <4> HIDE DEF carries
        <4>1. ASSUME NEW u \in BroadcastTracks
              PROVE  \/ processing'[u] = processing[u]
                     \/ processing'[u].frame # m /\ processing[u].frame # m
          <5>1. CASE carries /\ u = t
            BY <1>9, <2>3, <3>1, <5>1
          <5>2. CASE ~(carries /\ u = t)
            BY <1>9, <5>2
          <5> QED
            BY <5>1, <5>2
        <4> QED
          BY <4>1 DEF Owed
      <3> QED
        BY <1>5, <2>1, <3>1, <3>2 DEF BroadcastInv, HeardRight
    <2> QED
      BY <2>2, <2>3
  <1>12. BroadcastCounts'
    <2>1. \A l \in Listeners : \A i \in 1..Len(heard[l]) :
             heard[l][i] \in PartialCalls <=> heard[l][i] \in PartialCalls'
      <3> SUFFICES ASSUME NEW l \in Listeners, NEW i \in 1..Len(heard[l])
                   PROVE  heard[l][i] \in PartialCalls <=> heard[l][i] \in PartialCalls'
        OBVIOUS
      <3>1. heard[l][i].frame \in 1..Len(frames)
        BY DEF BroadcastInv, BroadcastBooks
      <3>2. DOMAIN frames = 1..Len(frames) /\ DOMAIN frames' = 1..n
        BY <1>2, <1>5
      <3> QED
        BY <1>3, <1>5, <3>1, <3>2 DEF PartialCalls
    <2>2. InAll(heard, PartialCalls) = InAll(heard, PartialCalls')
      BY <1>2, <2>1, CallsSame
    <2> QED
      BY <1>1, <2>2, PrimedCounts DEF BroadcastInv, BroadcastCounts
  <1> QED
    BY <1>8, <1>10, <1>11, <1>12 DEF BroadcastInv

LEMMA ListenerIsCalled ==
  ASSUME BroadcastInv, NEW t \in BroadcastTracks, NEW failed \in BOOLEAN, CallbackReturns(t, failed)
  PROVE  BroadcastInv'
  <1> DEFINE n == processing[t].frame
             left == processing[t].left
             l0 == Head(left)
             e == [frame |-> n, failed |-> failed]
  <1>1. /\ left # <<>> /\ heard' = [heard EXCEPT ![l0] = Append(heard[l0], e)]
        /\ broadcastStats' = UpdateBroadcastStats(frames[n].contents.text # "partial", failed)
        /\ processing' = [processing EXCEPT ![t].left = Tail(left)]
        /\ UNCHANGED <<broadcastCallbacks, frames, passedOn>>
    BY DEF CallbackReturns
  <1>2. /\ processing \in [BroadcastTracks -> [frame : 0..MaxBroadcasts, left : Seq(Listeners)]]
        /\ heard \in [Listeners -> Seq(HeardCall)] /\ left \in Seq(Listeners) /\ IsInjective(left)
        /\ frames \in Seq([contents : Contents, callbacks : Seq(Listeners)])
        /\ broadcastStats \in [total : Nat, partial : Nat, final : Nat, failed : Nat]
        /\ MaxBroadcasts \in Nat
    BY BroadcastAssumption DEF BroadcastInv, BroadcastTypeOK, BroadcastBooks
  <1>3. /\ l0 \in Listeners /\ Tail(left) \in Seq(Listeners) /\ IsInjective(Tail(left))
        /\ l0 \in Range(left) /\ Range(Tail(left)) = Range(left) \ {l0}
    BY <1>1, <1>2, TakesHead
  <1>4. /\ n # 0 /\ n \in 1..Len(frames) /\ passedOn[n] = "no"
        /\ Range(left) \subseteq Range(frames[n].callbacks)
        /\ \A u \in BroadcastTracks \ {t} : processing[u].frame # n
    <2>1. n # 0
      BY <1>1 DEF BroadcastInv, BroadcastBooks
    <2> QED
      BY <2>1 DEF BroadcastInv, BroadcastBooks
  <1>5. n \in 1..MaxBroadcasts /\ e \in HeardCall
    <2>1. n \in 1..MaxBroadcasts
      BY <1>2, <1>4
    <2> QED
      BY <2>1 DEF HeardCall
  <1>6. /\ processing' \in [BroadcastTracks -> [frame : 0..MaxBroadcasts, left : Seq(Listeners)]]
        /\ processing'[t].frame = n /\ processing'[t].left = Tail(left)
        /\ \A u \in BroadcastTracks \ {t} : processing'[u] = processing[u]
    BY <1>1, <1>2, <1>3
  <1> HIDE DEF n, left, l0, e
  <1>7. /\ heard' \in [Listeners -> Seq(HeardCall)]
        /\ heard'[l0] = Append(heard[l0], e) /\ \A l \in Listeners \ {l0} : heard'[l] = heard[l]
    <2>1. Append(heard[l0], e) \in Seq(HeardCall)
      BY <1>2, <1>3, <1>5
    <2> QED
      BY <1>1, <1>2, <1>3, <2>1
  <1>8. BroadcastTypeOK'
    <2>1. broadcastStats' \in [total : Nat, partial : Nat, final : Nat, failed : Nat]
      <3>1. PICK total \in Nat, partial \in Nat, final \in Nat, failures \in Nat :
               broadcastStats = [total |-> total, partial |-> partial, final |-> final, failed |-> failures]
        BY <1>2
      <3> QED
        <4>1. PICK whole \in BOOLEAN : whole = (frames[n].contents.text # "partial")
          OBVIOUS
        <4>2. broadcastStats' = UpdateBroadcastStats(whole, failed)
          BY <1>1, <4>1
        <4>3. PICK a \in Nat, b \in Nat, c \in Nat, d \in Nat :
                /\ a = total + 1 /\ b = (IF failed THEN failures + 1 ELSE failures)
                /\ c = (IF ~failed /\ whole THEN final + 1 ELSE final)
                /\ d = (IF ~failed /\ ~whole THEN partial + 1 ELSE partial)
          OBVIOUS
        <4>4. broadcastStats' = [broadcastStats EXCEPT !.total = a, !.failed = b, !.final = c, !.partial = d]
          BY <3>1, <4>2, <4>3 DEF UpdateBroadcastStats
        <4> QED
          BY <3>1, <4>4
    <2> QED
      BY <1>1, <1>6, <1>7, <2>1 DEF BroadcastInv, BroadcastTypeOK
  <1>9. BroadcastBooks'
    <2>1. ASSUME NEW u \in BroadcastTracks
          PROVE  /\ IsInjective(processing'[u].left)
                 /\ processing'[u].frame = 0 => processing'[u].left = <<>>
                 /\ processing'[u].frame # 0 =>
                        /\ processing'[u].frame \in 1..Len(frames)
                        /\ passedOn[processing'[u].frame] = "no"
                        /\ Range(processing'[u].left) \subseteq Range(frames[processing'[u].frame].callbacks)
      <3>1. CASE u = t
        BY <1>3, <1>4, <1>6, <3>1
      <3>2. CASE u # t
        BY <1>6, <3>2 DEF BroadcastInv, BroadcastBooks
      <3> QED
        BY <3>1, <3>2
    <2>2. \A u \in BroadcastTracks : processing'[u].frame = processing[u].frame
      BY <1>6 DEF n
    <2>3. ASSUME NEW l \in Listeners, NEW i \in 1..Len(heard'[l]) PROVE heard'[l][i].frame \in 1..Len(frames)
      <3>1. CASE l = l0
        <4>1. heard[l] \in Seq(HeardCall) /\ Len(heard[l]) \in Nat /\ Len(heard'[l]) = Len(heard[l]) + 1
              /\ heard'[l][Len(heard[l]) + 1] = e /\ \A k \in 1..Len(heard[l]) : heard'[l][k] = heard[l][k]
          <5>1. heard[l] \in Seq(HeardCall) /\ heard'[l] = Append(heard[l], e)
            BY <1>2, <1>7, <3>1
          <5> QED
            BY <1>5, <5>1
        <4>2. i \in 1..Len(heard[l]) \/ i = Len(heard[l]) + 1
          BY <2>3, <4>1
        <4>3. e.frame = n
          BY DEF e
        <4> QED
          BY <1>4, <4>1, <4>2, <4>3 DEF BroadcastInv, BroadcastBooks
      <3>2. CASE l # l0
        BY <1>7, <2>3, <3>2 DEF BroadcastInv, BroadcastBooks
      <3> QED
        BY <3>1, <3>2
    <2>4. \A u, v \in BroadcastTracks :
             u # v /\ processing'[u].frame = processing'[v].frame => processing'[u].frame = 0
      BY <2>2 DEF BroadcastInv, BroadcastBooks
    <2> QED
      BY <1>1, <2>1, <2>3, <2>4 DEF BroadcastInv, BroadcastBooks
  <1>10. HeardRight'
    <2> SUFFICES ASSUME NEW m \in 1..Len(frames), NEW l \in Listeners
                 PROVE  HeardOf(l, m)' = IF l \in Range(frames[m].callbacks) /\ ~Owed(m, l)' THEN 1 ELSE 0
      BY <1>1 DEF HeardRight
    <2> DEFINE Of == {h \in HeardCall : h.frame = m}
    <2>1. HeardOf(l, m) = CountIn(heard[l], Of) /\ HeardOf(l, m)' = CountIn(heard'[l], Of)
      BY DEF HeardOf, CallsOf, CountIn, HeardCall
    <2>2. HeardOf(l, m) = IF l \in Range(frames[m].callbacks) /\ ~Owed(m, l) THEN 1 ELSE 0
      BY DEF BroadcastInv, HeardRight
    <2>3. CASE m = n /\ l = l0
      <3>1. Owed(m, l) /\ l \in Range(frames[m].callbacks)
        BY <1>3, <1>4, <2>3 DEF Owed, n, left
      <3>2. ~Owed(m, l)'
        BY <1>3, <1>4, <1>6, <2>3 DEF Owed
      <3>3. OneIf(e, Of) = 1
        BY <1>5, <2>3 DEF OneIf, e
      <3>4. CountIn(heard'[l], Of) = CountIn(heard[l], Of) + 1
        <4>1. heard[l] \in Seq(HeardCall) /\ heard'[l] = Append(heard[l], e)
          BY <1>2, <1>7, <2>3
        <4> HIDE DEF Of
        <4> QED
          BY <1>5, <3>3, <4>1, CountAppended
      <3> QED
        BY <2>1, <2>2, <3>1, <3>2, <3>4
    <2>4. CASE ~(m = n /\ l = l0)
      <3>1. Owed(m, l)' <=> Owed(m, l)
        <4>1. CASE m = n
          <5>1. l # l0 /\ (l \in Range(Tail(left)) <=> l \in Range(left))
            BY <1>3, <2>4, <4>1
          <5> QED
            BY <1>4, <1>6, <4>1, <5>1 DEF Owed, n, left
        <4>2. CASE m # n
          BY <1>6, <4>2 DEF Owed, n
        <4> QED
          BY <4>1, <4>2
      <3>2. CountIn(heard'[l], Of) = CountIn(heard[l], Of)
        <4>1. CASE l # l0
          BY <1>7, <4>1
        <4>2. CASE l = l0
          <5>1. OneIf(e, Of) = 0
            BY <2>4, <4>2 DEF OneIf, e
          <5>2. CountIn(heard'[l], Of) = CountIn(heard[l], Of) + 0 /\ CountIn(heard[l], Of) \in Nat
            <6>1. heard[l] \in Seq(HeardCall) /\ heard'[l] = Append(heard[l], e)
              BY <1>2, <1>7, <4>2
            <6> HIDE DEF Of
            <6> QED
              BY <1>5, <5>1, <6>1, CountAppended
          <5> QED
            BY <5>2
        <4> QED
          BY <4>1, <4>2
      <3> QED
        BY <2>1, <2>2, <3>1, <3>2
    <2> QED
      BY <2>3, <2>4
  <1>11. BroadcastCounts'
    <2>1. ASSUME NEW K
          PROVE  InAll(heard', K) = InAll(heard, K) + OneIf(e, K) /\ InAll(heard, K) \in Nat
      <3>1. \A m \in Listeners \ {l0} : heard'[m] = heard[m]
        BY <1>7
      <3>2. heard'[l0] = Append(heard[l0], e)
        BY <1>7
      <3>3. heard \in [Listeners -> Seq(HeardCall)]
        BY <1>2
      <3> QED
        BY <1>3, <1>5, <3>1, <3>2, <3>3, CallsAdd
    <2>2. PartialCalls' = PartialCalls
      BY <1>1 DEF PartialCalls, HeardCall
    <2>4. /\ OneIf(e, HeardCall) = 1 /\ OneIf(e, FailedCalls) = (IF failed THEN 1 ELSE 0)
          /\ OneIf(e, PartialCalls) = (IF ~failed /\ frames[n].contents.text = "partial" THEN 1 ELSE 0)
      <3>1. e.failed = failed /\ e.frame = n /\ n \in DOMAIN frames
        BY <1>2, <1>4 DEF e
      <3> QED
        BY <1>5, <3>1 DEF OneIf, FailedCalls, PartialCalls
    <2>5. /\ broadcastStats'.total = broadcastStats.total + 1
          /\ broadcastStats'.failed = broadcastStats.failed + (IF failed THEN 1 ELSE 0)
          /\ broadcastStats'.partial
               = broadcastStats.partial + (IF ~failed /\ frames[n].contents.text = "partial" THEN 1 ELSE 0)
          /\ broadcastStats'.final
               = broadcastStats.final + (IF ~failed /\ frames[n].contents.text # "partial" THEN 1 ELSE 0)
      BY <1>1, <1>2 DEF UpdateBroadcastStats
    <2>6. /\ broadcastStats.total = InAll(heard, HeardCall) /\ broadcastStats.failed = InAll(heard, FailedCalls)
          /\ broadcastStats.partial = InAll(heard, PartialCalls)
          /\ broadcastStats.total = broadcastStats.failed + broadcastStats.partial + broadcastStats.final
      BY DEF BroadcastInv, BroadcastCounts
    <2>7. broadcastStats'.total = InAll(heard', HeardCall)
      BY <2>1, <2>4, <2>5, <2>6
    <2>8. broadcastStats'.failed = InAll(heard', FailedCalls)
      BY <2>1, <2>4, <2>5, <2>6
    <2>9. broadcastStats'.partial = InAll(heard', PartialCalls)
      BY <2>1, <2>4, <2>5, <2>6
    <2>10. broadcastStats'.total = broadcastStats'.failed + broadcastStats'.partial + broadcastStats'.final
      <3>1. PICK total \in Nat, partial \in Nat, final \in Nat, failures \in Nat :
               /\ broadcastStats.total = total /\ broadcastStats.partial = partial
               /\ broadcastStats.final = final /\ broadcastStats.failed = failures
        BY <1>2
      <3>2. PICK whole \in BOOLEAN : whole = (frames[n].contents.text # "partial")
        OBVIOUS
      <3>3. total = failures + partial + final
        BY <2>6, <3>1
      <3>4. /\ broadcastStats'.total = total + 1
            /\ broadcastStats'.failed = failures + (IF failed THEN 1 ELSE 0)
            /\ broadcastStats'.partial = partial + (IF ~failed /\ ~whole THEN 1 ELSE 0)
            /\ broadcastStats'.final = final + (IF ~failed /\ whole THEN 1 ELSE 0)
        BY <2>5, <3>1, <3>2
      <3> QED
        BY <3>3, <3>4
    <2>11. /\ broadcastStats'.total = InAll(heard, HeardCall)'
           /\ broadcastStats'.failed = InAll(heard, FailedCalls)'
           /\ broadcastStats'.partial = InAll(heard, PartialCalls)'
      BY <2>2, <2>7, <2>8, <2>9, PrimedCounts
    <2> QED
      BY <2>10, <2>11 DEF BroadcastCounts
  <1> QED
    BY <1>8, <1>9, <1>10, <1>11 DEF BroadcastInv

LEMMA BroadcastReturns ==
  ASSUME BroadcastInv, NEW t \in BroadcastTracks, ProcessReturns(t)
  PROVE  BroadcastInv'
  <1> DEFINE n == processing[t].frame
  <1>1. /\ n # 0 /\ processing[t].left = <<>>
        /\ passedOn' = [passedOn EXCEPT ![n] = "marked"]
        /\ processing' = [processing EXCEPT ![t] = NoFrame]
        /\ UNCHANGED <<broadcastCallbacks, frames, heard, broadcastStats>>
    BY DEF ProcessReturns
  <1>2. /\ processing \in [BroadcastTracks -> [frame : 0..MaxBroadcasts, left : Seq(Listeners)]]
        /\ passedOn \in [1..Len(frames) -> {"no", "plain", "marked"}] /\ MaxBroadcasts \in Nat
    BY BroadcastAssumption DEF BroadcastInv, BroadcastTypeOK
  <1>3. n \in 1..Len(frames) /\ \A u \in BroadcastTracks \ {t} : processing[u].frame # n
    BY <1>1 DEF BroadcastInv, BroadcastBooks
  <1>4. /\ processing' \in [BroadcastTracks -> [frame : 0..MaxBroadcasts, left : Seq(Listeners)]]
        /\ processing'[t].frame = 0 /\ processing'[t].left = <<>>
        /\ \A u \in BroadcastTracks \ {t} : processing'[u] = processing[u]
    <2>1. NoFrame \in [frame : 0..MaxBroadcasts, left : Seq(Listeners)]
      BY <1>2 DEF NoFrame
    <2> QED
      BY <1>1, <1>2, <2>1 DEF NoFrame
  <1> HIDE DEF n
  <1>5. /\ passedOn' \in [1..Len(frames) -> {"no", "plain", "marked"}] /\ passedOn'[n] = "marked"
        /\ \A m \in 1..Len(frames) : m # n => passedOn'[m] = passedOn[m]
    BY <1>1, <1>2, <1>3
  <1>6. BroadcastTypeOK'
    BY <1>1, <1>4, <1>5 DEF BroadcastInv, BroadcastTypeOK
  <1>7. BroadcastBooks'
    <2>1. \A m \in 1..Len(frames) : passedOn'[m] = "plain" => frames[m].callbacks = <<>>
      BY <1>5 DEF BroadcastInv, BroadcastBooks
    <2>2. ASSUME NEW u \in BroadcastTracks
          PROVE  /\ IsInjective(processing'[u].left)
                 /\ processing'[u].frame = 0 => processing'[u].left = <<>>
                 /\ processing'[u].frame # 0 =>
                        /\ processing'[u].frame \in 1..Len(frames)
                        /\ passedOn'[processing'[u].frame] = "no"
                        /\ Range(processing'[u].left) \subseteq Range(frames[processing'[u].frame].callbacks)
      <3>1. CASE u = t
        BY <1>4, <3>1, EmptyRange
      <3>2. CASE u # t
        <4>1. /\ IsInjective(processing[u].left)
              /\ processing[u].frame = 0 => processing[u].left = <<>>
              /\ processing[u].frame # 0 =>
                    /\ processing[u].frame \in 1..Len(frames)
                    /\ passedOn[processing[u].frame] = "no"
                    /\ Range(processing[u].left) \subseteq Range(frames[processing[u].frame].callbacks)
          BY DEF BroadcastInv, BroadcastBooks
        <4> QED
          BY <1>3, <1>4, <1>5, <3>2, <4>1
      <3> QED
        BY <3>1, <3>2
    <2>3. \A u, v \in BroadcastTracks :
             u # v /\ processing'[u].frame = processing'[v].frame => processing'[u].frame = 0
      BY <1>4 DEF BroadcastInv, BroadcastBooks
    <2> QED
      BY <1>1, <2>1, <2>2, <2>3 DEF BroadcastInv, BroadcastBooks
  <1>8. HeardRight'
    <2>1. \A m \in 1..Len(frames), l \in Listeners : Owed(m, l)' <=> Owed(m, l)
      BY <1>1, <1>4, EmptyRange DEF Owed
    <2>2. \A m \in 1..Len(frames), l \in Listeners : HeardOf(l, m)' = HeardOf(l, m)
      BY <1>1, HeardStays
    <2> QED
      BY <1>1, <2>1, <2>2 DEF BroadcastInv, HeardRight
  <1>9. BroadcastCounts'
    BY <1>1, CountsStay
  <1> QED
    BY <1>6, <1>7, <1>8, <1>9 DEF BroadcastInv

LEMMA BroadcastInvNext == BroadcastInv /\ [BroadcastNext]_broadcastVars => BroadcastInv'
  <1> SUFFICES ASSUME BroadcastInv, [BroadcastNext]_broadcastVars PROVE BroadcastInv'
    OBVIOUS
  <1>1. CASE UNCHANGED broadcastVars
    <2>1. UNCHANGED <<broadcastCallbacks, frames, processing, heard, broadcastStats, passedOn>>
      BY <1>1 DEF broadcastVars
    <2>2. BroadcastTypeOK' /\ BroadcastBooks'
      BY <2>1 DEF BroadcastInv, BroadcastTypeOK, BroadcastBooks
    <2>3. \A n \in 1..Len(frames), l \in Listeners : Owed(n, l)' <=> Owed(n, l)
      BY <2>1 DEF Owed
    <2>4. HeardRight'
      BY <2>1, <2>3, HeardStays DEF BroadcastInv, HeardRight
    <2> QED
      BY <2>1, <2>2, <2>4, CountsStay DEF BroadcastInv
  <1> QED
    BY <1>1, ListenerAdds, ContentsEnter, ListenerIsCalled, BroadcastReturns DEF BroadcastNext

\* A frame that passed on with its mark was handed once to each callback there was when it came,
\* to no other, and every call is counted by what became of it (BroadcastStage.Process,
\* broadcastToAll and updateStats), for any number of tracks, callbacks and frames.
THEOREM BroadcastAlwaysToAll == BroadcastSpec => [](BroadcastTypeOK /\ BroadcastToAll)
  <1>1. BroadcastInv => BroadcastTypeOK /\ BroadcastToAll
    <2> SUFFICES ASSUME BroadcastInv PROVE BroadcastToAll
      BY DEF BroadcastInv
    <2>1. ASSUME NEW n \in DOMAIN frames, NEW l \in Listeners
          PROVE  /\ passedOn[n] = "marked" =>
                       HeardOf(l, n) = IF l \in ToSet(frames[n].callbacks) THEN 1 ELSE 0
                 /\ passedOn[n] = "plain" => HeardOf(l, n) = 0
      <3>1. n \in 1..Len(frames)
        BY DEF BroadcastInv, BroadcastTypeOK
      <3>2. HeardOf(l, n) = IF l \in Range(frames[n].callbacks) /\ ~Owed(n, l) THEN 1 ELSE 0
        BY <3>1 DEF BroadcastInv, HeardRight
      <3>3. Owed(n, l) => passedOn[n] = "no"
        <4>1. n # 0
          BY <3>1
        <4> QED
          BY <4>1 DEF Owed, BroadcastInv, BroadcastBooks
      <3>4. passedOn[n] = "plain" => Range(frames[n].callbacks) = {}
        BY <3>1, EmptyRange DEF BroadcastInv, BroadcastBooks
      <3> QED
        BY <3>2, <3>3, <3>4 DEF ToSet, Range
    <2>2. \A K : Calls(K) = InAll(heard, K)
      BY DEF Calls, CallsOf, InAll, CountIn, TotalOf
    <2> QED
      BY <2>1, <2>2 DEF BroadcastInv, BroadcastCounts, BroadcastToAll
  <1> QED
    BY <1>1, BroadcastInvInit, BroadcastInvNext, PTL DEF BroadcastSpec


-------------------------------------------------------------------------------
(* The time the transcriptions took: a segment begins once, where the last one ended.        *)

SegmentsKept ==
    /\ time \in Nat /\ segmentStart \in Nat /\ segmentStart <= time
    /\ segments \in Seq(Int) /\ \A i \in 1..Len(segments) : segments[i] > 0
    /\ cameAt \in [Notifiers -> Nat] /\ \A n \in Notifiers : cameAt[n] <= time
    /\ segmentStart = 0 => firstAudio = 0 /\ segments = <<>>
    /\ firstAudio \in Nat /\ segmentStart = firstAudio + TotalOf(segments)

LEMMA SegmentEnds ==
  ASSUME SegmentsKept, NEW n \in Notifiers, UpdateSegment(n)
  PROVE  SegmentsKept'
  <1>1. /\ time \in Nat /\ segmentStart \in Nat /\ cameAt \in [Notifiers -> Nat] /\ cameAt[n] <= time
        /\ cameAt[n] \in Nat /\ segments \in Seq(Int) /\ \A i \in 1..Len(segments) : segments[i] > 0
        /\ firstAudio \in Nat /\ segmentStart = firstAudio + TotalOf(segments)
    BY DEF SegmentsKept
  <1>2. cameAt' = [cameAt EXCEPT ![n] = 0] /\ time' = time /\ firstAudio' = firstAudio
    BY DEF UpdateSegment
  <1>3. cameAt' \in [Notifiers -> Nat] /\ \A m \in Notifiers : cameAt'[m] <= time'
    BY <1>1, <1>2 DEF SegmentsKept
  <1>4. CASE segmentStart # 0 /\ segmentStart < cameAt[n]
    <2>1. PICK lasted \in Int : lasted = cameAt[n] - segmentStart /\ lasted > 0
      BY <1>1, <1>4
    <2>2. segments' = Append(segments, lasted) /\ segmentStart' = cameAt[n]
      BY <1>4, <2>1 DEF UpdateSegment
    <2>3. TotalOf(segments') = TotalOf(segments) + lasted /\ TotalOf(segments) \in Int
      BY <1>1, <2>2, TotalAppended
    <2>7. PICK sum \in Int : sum = TotalOf(segments)
      BY <2>3
    <2>8. /\ segmentStart \in Int /\ firstAudio \in Int /\ segmentStart = firstAudio + sum
          /\ lasted = cameAt[n] - segmentStart /\ cameAt[n] \in Int
      BY <1>1, <2>1, <2>7
    <2>9. cameAt[n] = firstAudio + (sum + lasted)
      BY <2>8
    <2>10. TotalOf(segments') = sum + lasted
      BY <2>3, <2>7
    <2>4. segmentStart' = firstAudio' + TotalOf(segments')
      BY <1>2, <2>2, <2>9, <2>10
    <2>5. segments' \in Seq(Int) /\ \A i \in 1..Len(segments') : segments'[i] > 0
      BY <1>1, <2>1, <2>2
    <2>6. segmentStart' \in Nat /\ segmentStart' # 0 /\ segmentStart' <= time'
      BY <1>1, <1>2, <1>4, <2>2
    <2> QED
      BY <1>1, <1>2, <1>3, <2>4, <2>5, <2>6 DEF SegmentsKept
  <1>5. CASE ~(segmentStart # 0 /\ segmentStart < cameAt[n])
    <2>1. UNCHANGED <<segments, segmentStart>>
      BY <1>5 DEF UpdateSegment
    <2> QED
      BY <1>2, <1>3, <2>1 DEF SegmentsKept
  <1> QED
    BY <1>4, <1>5

\* The latencies of the transcriptions follow on one another, from the first packet to the last
\* transcription counted, for any number of connections that report and any clock
\* (updateStats and handleTranscriptionEvent of the transcription stage).
THEOREM SegmentsAlwaysFollowOn == SegmentsInit /\ [][SegmentsNext]_segmentVars => []SegmentsFollowOn
  <1>1. SegmentsInit => SegmentsKept
    <2> SUFFICES ASSUME SegmentsInit PROVE SegmentsKept
      OBVIOUS
    <2>1. TotalOf(segments) = 0 /\ segments \in Seq(Int) /\ 1..Len(segments) = {}
      BY TotalOfEmpty DEF SegmentsInit
    <2> QED
      BY <2>1 DEF SegmentsInit, SegmentsKept
  <1>2. SegmentsKept /\ [SegmentsNext]_segmentVars => SegmentsKept'
    <2> SUFFICES ASSUME SegmentsKept, [SegmentsNext]_segmentVars PROVE SegmentsKept'
      OBVIOUS
    <2>1. CASE UNCHANGED segmentVars
      BY <2>1 DEF segmentVars, SegmentsKept
    <2>2. CASE TimePasses
      BY <2>2 DEF TimePasses, SegmentsKept
    <2>3. CASE AudioSent
      <3>1. segments = <<>> /\ TotalOf(segments) = 0 /\ segments' = segments
        BY <2>3, TotalOfEmpty DEF AudioSent, SegmentsKept
      <3>2. /\ segmentStart' = time /\ firstAudio' = time /\ time' = time /\ cameAt' = cameAt
        BY <2>3 DEF AudioSent
      <3>3. segmentStart' = firstAudio' + TotalOf(segments')
        BY <3>1, <3>2 DEF SegmentsKept
      <3> QED
        BY <3>1, <3>2, <3>3 DEF SegmentsKept
    <2>4. ASSUME NEW n \in Notifiers, TranscriptionArrives(n) PROVE SegmentsKept'
      BY <2>4 DEF TranscriptionArrives, SegmentsKept
    <2> QED
      BY <2>1, <2>2, <2>3, <2>4, SegmentEnds DEF SegmentsNext
  <1>3. SegmentsKept => SegmentsFollowOn
    <2> SUFFICES ASSUME SegmentsKept PROVE SegmentsFollowOn
      OBVIOUS
    <2>1. DOMAIN segments = 1..Len(segments) /\ \A i \in 1..Len(segments) : segments[i] > 0
      BY DEF SegmentsKept
    <2>2. FoldFunction(+, 0, segments) = TotalOf(segments)
      BY Zenon DEF TotalOf
    <2>3. segmentStart = firstAudio + TotalOf(segments) /\ segmentStart <= time
      BY DEF SegmentsKept
    <2> QED
      BY <2>1, <2>2, <2>3, Zenon DEF SegmentsFollowOn
  <1> QED
    BY <1>1, <1>2, <1>3, PTL


-------------------------------------------------------------------------------
(* The averages and the rings of the calls' latencies.                        *)

AverageOf(a, S) ==
    /\ a \in Nat /\ S \subseteq Nat
    /\ S = {} => a = 0
    /\ S # {} => \E x, y \in S : x <= a /\ a <= y /\ \A z \in S : x <= z /\ z <= y

LEMMA AverageMoves ==
  ASSUME NEW a, NEW S, AverageOf(a, S), NEW l \in Nat
  PROVE  AverageOf(Smoothed(a, l), S \cup {l})
  <1>1. a \in Nat /\ S \subseteq Nat /\ Smoothed(a, l) \in Nat
    BY SmoothedBetween DEF AverageOf
  <1>2. PICK b \in Nat : b = Smoothed(a, l)
    BY <1>1
  <1>3. CASE S = {}
    <2>1. b = l
      BY <1>2, <1>3, SmoothedBetween DEF AverageOf
    <2> QED
      BY <1>1, <1>2, <1>3, <2>1 DEF AverageOf
  <1>4. CASE S # {}
    <2>1. PICK x \in S, y \in S : x <= a /\ a <= y /\ \A z \in S : x <= z /\ z <= y
      BY <1>4 DEF AverageOf
    <2>2. PICK u \in S \cup {l} : u <= x /\ u <= l /\ u \in Nat
      BY <1>1, <2>1
    <2>3. PICK v \in S \cup {l} : y <= v /\ l <= v /\ v \in Nat
      BY <1>1, <2>1
    <2>4. u <= b /\ b <= v
      <3>1. CASE a = 0
        BY <1>2, <2>2, <2>3, <3>1, SmoothedBetween
      <3>2. CASE a # 0
        <4>1. (a <= b /\ b <= l) \/ (l <= b /\ b <= a)
          BY <1>1, <1>2, <3>2, SmoothedBetween
        <4> QED
          BY <1>1, <2>1, <2>2, <2>3, <4>1
      <3> QED
        BY <3>1, <3>2
    <2>5. \A z \in S \cup {l} : u <= z /\ z <= v
      BY <1>1, <2>1, <2>2, <2>3
    <2> QED
      BY <1>1, <1>2, <2>2, <2>3, <2>4, <2>5 DEF AverageOf
  <1> QED
    BY <1>3, <1>4

LEMMA AverageLies ==
  ASSUME NEW a, NEW S, AverageOf(a, S)
  PROVE  IF S = {} THEN a = 0 ELSE a \in Min(S)..Max(S)
  <1>1. CASE S # {}
    <2>1. PICK x \in S, y \in S : x <= a /\ a <= y /\ \A z \in S : x <= z /\ z <= y
      BY <1>1 DEF AverageOf
    <2>2. S \subseteq Nat /\ a \in Nat
      BY DEF AverageOf
    <2>3. Min(S) = x /\ Max(S) = y
      BY <2>1, <2>2, LeastIs, GreatestIs
    <2>4. x \in Nat /\ y \in Nat
      BY <2>1, <2>2
    <2> QED
      BY <1>1, <2>1, <2>2, <2>3, <2>4
  <1> QED
    BY <1>1 DEF AverageOf

(* The bucket that holds the ith latency of m, one of the last: the one the index is at is  *)
(* the next to be overwritten.                                                               *)
Recent(m) == {i \in 1..Len(m) : i > Len(m) - Buckets}

Place(r, m, i) ==
    IF r.index - 1 - (Len(m) - i) >= 0 THEN r.index - 1 - (Len(m) - i)
    ELSE r.index - 1 - (Len(m) - i) + Buckets

RingOf(r, m) ==
    /\ r.bucket \in [0..(Buckets - 1) -> Nat] /\ r.index \in 0..(Buckets - 1)
    /\ m \in Seq(Latencies)
    /\ \A i \in Recent(m) : r.bucket[Place(r, m, i)] = m[i]
    /\ \A b \in 0..(Buckets - 1) : r.bucket[b] # 0 => \E i \in Recent(m) : Place(r, m, i) = b

LEMMA PlacesDiffer ==
  ASSUME NEW r, NEW m \in Seq(Latencies), r.index \in 0..(Buckets - 1)
  PROVE  /\ \A i \in Recent(m) : Place(r, m, i) \in 0..(Buckets - 1)
         /\ \A i, j \in Recent(m) : Place(r, m, i) = Place(r, m, j) => i = j
  <1>1. PICK n \in Nat, x \in Nat : n = Len(m) /\ x = r.index /\ x <= Buckets - 1 /\ Buckets \in Nat
    BY ObserversAssumption
  <1>2. \A i \in Recent(m) : i \in Nat /\ 1 <= i /\ i <= n /\ i > n - Buckets
    BY <1>1 DEF Recent
  <1>3. ASSUME NEW i \in Int
        PROVE  Place(r, m, i) = IF x - 1 - (n - i) >= 0 THEN x - 1 - (n - i) ELSE x - 1 - (n - i) + Buckets
    BY <1>1 DEF Place
  <1>4. ASSUME NEW i \in Recent(m) PROVE Place(r, m, i) \in 0..(Buckets - 1)
    <2>1. Place(r, m, i) = IF x - 1 - (n - i) >= 0 THEN x - 1 - (n - i) ELSE x - 1 - (n - i) + Buckets
      BY <1>2, <1>3
    <2>2. i \in Nat /\ 1 <= i /\ i <= n /\ i > n - Buckets
      BY <1>2
    <2> QED
      BY <1>1, <2>1, <2>2
  <1>5. ASSUME NEW i \in Recent(m), NEW j \in Recent(m), Place(r, m, i) = Place(r, m, j) PROVE i = j
    <2>3. i \in Int /\ j \in Int
      BY <1>2
    <2>1. /\ Place(r, m, i) = IF x - 1 - (n - i) >= 0 THEN x - 1 - (n - i) ELSE x - 1 - (n - i) + Buckets
          /\ Place(r, m, j) = IF x - 1 - (n - j) >= 0 THEN x - 1 - (n - j) ELSE x - 1 - (n - j) + Buckets
      BY <1>3, <2>3
    <2>2. /\ i \in Nat /\ 1 <= i /\ i <= n /\ i > n - Buckets
          /\ j \in Nat /\ 1 <= j /\ j <= n /\ j > n - Buckets
      BY <1>2
    <2>4. PICK p \in Int : p = Place(r, m, i) /\ p = Place(r, m, j)
      BY <1>4, <1>5
    <2>5. /\ p = IF x - 1 - (n - i) >= 0 THEN x - 1 - (n - i) ELSE x - 1 - (n - i) + Buckets
          /\ p = IF x - 1 - (n - j) >= 0 THEN x - 1 - (n - j) ELSE x - 1 - (n - j) + Buckets
      BY <2>1, <2>4
    <2>7. /\ n - i \in Int /\ n - j \in Int /\ 0 <= n - i /\ n - i < Buckets
          /\ 0 <= n - j /\ n - j < Buckets
      BY <1>1, <2>2
    <2>8. PICK e \in Int, d \in Int : e = n - i /\ d = n - j
      BY <2>7
    <2>9. /\ p = IF x - 1 - e >= 0 THEN x - 1 - e ELSE x - 1 - e + Buckets
          /\ p = IF x - 1 - d >= 0 THEN x - 1 - d ELSE x - 1 - d + Buckets
      BY <2>5, <2>8
    <2>10. e = d
      BY <1>1, <2>7, <2>8, <2>9
    <2> QED
      BY <1>1, <2>2, <2>8, <2>10
  <1> QED
    BY <1>4, <1>5

LEMMA SmallRemainder ==
  ASSUME NEW n \in Nat, NEW b \in Nat \ {0}, n < b
  PROVE  n % b = n
  <1>1. PICK q \in Int, r \in Int : q = n \div b /\ r = n % b /\ n = b * q + r /\ 0 <= r /\ r < b
    OBVIOUS
  <1>2. ASSUME q > 0 PROVE FALSE
    <2>1. PICK d \in Nat : q = 1 + d
      <3>1. q - 1 \in Nat /\ q = 1 + (q - 1)
        BY <1>2
      <3> QED
        BY <3>1
    <2>2. b * q = b + b * d /\ b * d \in Nat
      BY <2>1
    <2> QED
      BY <1>1, <2>2
  <1>3. ASSUME q < 0 PROVE FALSE
    <2>1. PICK d \in Nat : q = 0 - 1 - d
      <3>1. 0 - 1 - q \in Nat /\ q = 0 - 1 - (0 - 1 - q)
        BY <1>3
      <3> QED
        BY <3>1
    <2>2. b * q = 0 - b - b * d /\ b * d \in Nat
      BY <2>1
    <2> QED
      BY <1>1, <2>2
  <1>4. q = 0 /\ b * 0 = 0
    BY <1>2, <1>3
  <1> QED
    BY <1>1, <1>4

LEMMA RingMoves ==
  ASSUME NEW r, NEW m, RingOf(r, m), NEW l \in Latencies
  PROVE  RingOf(Recorded(r, l), Append(m, l))
  <1>1. PICK s, t : s = Recorded(r, l) /\ t = Append(m, l)
    OBVIOUS
  <1>2. PICK n \in Nat, x \in 0..(Buckets - 1) : n = Len(m) /\ x = r.index
    BY DEF RingOf
  <1>3. /\ s.bucket = [r.bucket EXCEPT ![x] = l] /\ s.index = (x + 1) % Buckets
        /\ r.bucket \in [0..(Buckets - 1) -> Nat] /\ l \in Nat
        /\ Buckets \in Nat \ {0} /\ x \in Int
    BY <1>1, <1>2, ObserversAssumption DEF Recorded, RingOf
  <1>4. /\ t \in Seq(Latencies) /\ Len(t) = n + 1 /\ t[n + 1] = l
        /\ \A i \in 1..n : t[i] = m[i]
    BY <1>1, <1>2 DEF RingOf
  <1>5. s.index = IF x + 1 = Buckets THEN 0 ELSE x + 1
    <2>1. CASE x + 1 = Buckets
      <3>1. Buckets % Buckets = 0
        BY <1>3
      <3> QED
        BY <1>3, <2>1, <3>1
    <2>2. CASE x + 1 # Buckets
      <3>1. x + 1 \in Nat /\ x + 1 < Buckets
        BY <1>3, <2>2
      <3>2. (x + 1) % Buckets = x + 1
        BY <1>3, <3>1, SmallRemainder
      <3> QED
        BY <1>3, <2>2, <3>2
    <2> QED
      BY <2>1, <2>2
  <1>6. PICK y \in 0..(Buckets - 1) : y = s.index /\ y = IF x + 1 = Buckets THEN 0 ELSE x + 1
    BY <1>3, <1>5
  <1>7. ASSUME NEW i \in Int
        PROVE  /\ Place(r, m, i) = IF x - 1 - (n - i) >= 0 THEN x - 1 - (n - i) ELSE x - 1 - (n - i) + Buckets
               /\ Place(s, t, i) = IF y - 1 - (n + 1 - i) >= 0 THEN y - 1 - (n + 1 - i)
                                   ELSE y - 1 - (n + 1 - i) + Buckets
    <2>1. Len(m) = n /\ r.index = x /\ Len(t) = n + 1 /\ s.index = y
      BY <1>2, <1>4, <1>6
    <2>2. Place(r, m, i) = IF x - 1 - (n - i) >= 0 THEN x - 1 - (n - i) ELSE x - 1 - (n - i) + Buckets
      BY <2>1, Zenon DEF Place
    <2>3. Place(s, t, i) = IF y - 1 - (n + 1 - i) >= 0 THEN y - 1 - (n + 1 - i)
                                   ELSE y - 1 - (n + 1 - i) + Buckets
      <3>1. PICK k \in Nat : k = n + 1
        BY <1>2
      <3>2. Len(t) = k
        BY <2>1, <3>1
      <3>3. Place(s, t, i) = IF y - 1 - (k - i) >= 0 THEN y - 1 - (k - i)
                                   ELSE y - 1 - (k - i) + Buckets
        BY <2>1, <3>2, Zenon DEF Place
      <3> QED
        BY <3>1, <3>3
    <2> QED
      BY <2>2, <2>3
  <1>8. /\ \A i : i \in Recent(m) <=> i \in 1..n /\ i > n - Buckets
        /\ \A i \in Int : i \in Recent(t) <=> i \in 1..(n + 1) /\ i > n + 1 - Buckets
        /\ \A i \in Recent(t) : i \in Int
    <2>1. Recent(m) = {i \in 1..n : i > n - Buckets}
      BY <1>2, Zenon DEF Recent
    <2>2. Len(t) = n + 1
      BY <1>4
    <2>3. PICK k \in Nat : k = n + 1
      BY <1>2
    <2>4. Recent(t) = {i \in 1..k : i > k - Buckets}
      BY <2>2, <2>3, Zenon DEF Recent
    <2>5. \A i : i \in Recent(t) <=> i \in 1..k /\ i > k - Buckets
      BY <2>4, Zenon
    <2>6. \A i : i \in Recent(m) <=> i \in 1..n /\ i > n - Buckets
      BY <2>1, Zenon
    <2>7. \A i \in Recent(t) : i \in Int
      BY <2>5
    <2>8. ASSUME NEW i \in Int
          PROVE  i \in Recent(t) <=> i \in 1..(n + 1) /\ i > n + 1 - Buckets
      BY <1>3, <2>3, <2>5
    <2> QED
      BY <2>6, <2>7, <2>8
  <1>a. Buckets \in Int /\ Buckets > 0 /\ x \in Int /\ 0 <= x /\ x < Buckets
    BY <1>3
  <1>9. n + 1 \in Recent(t) /\ Place(s, t, n + 1) = x
    <2>1. n + 1 \in Recent(t)
      BY <1>3, <1>8
    <2>3. PICK k \in Int : k = n + 1
      OBVIOUS
    <2>4. Place(s, t, k) = IF y - 1 - (n + 1 - k) >= 0 THEN y - 1 - (n + 1 - k)
                                   ELSE y - 1 - (n + 1 - k) + Buckets
      BY <1>7
    <2>2. Place(s, t, n + 1) = IF y - 1 >= 0 THEN y - 1 ELSE y - 1 + Buckets
      BY <1>a, <1>6, <2>3, <2>4
    <2>6. y = x + 1 \/ (x + 1 = Buckets /\ y = 0)
      BY <1>6
    <2>7. (IF y - 1 >= 0 THEN y - 1 ELSE y - 1 + Buckets) = x
      BY <1>a, <2>6
    <2> QED
      BY <2>1, <2>2, <2>7, Zenon
  <1>10. ASSUME NEW i \in Recent(t), i # n + 1
         PROVE  i \in Recent(m) /\ i \in 1..n /\ Place(s, t, i) = Place(r, m, i) /\ Place(r, m, i) # x
    <2>1. i \in 1..n /\ i > n + 1 - Buckets /\ i \in Recent(m) /\ i \in Int
      <3>1. i \in Int /\ Buckets \in Int
        BY <1>8, <1>10, <1>a
      <3>2. i \in 1..(n + 1) /\ i > n + 1 - Buckets
        BY <1>8, <1>10, <3>1, Zenon
      <3>3. i \in 1..n /\ i > n - Buckets
        BY <1>10, <3>1, <3>2
      <3> QED
        BY <1>8, <3>1, <3>2, <3>3, Zenon
    <2>2. Place(r, m, i) = IF x - 1 - (n - i) >= 0 THEN x - 1 - (n - i) ELSE x - 1 - (n - i) + Buckets
      BY <1>7, <2>1
    <2>3. Place(s, t, i) = IF y - 1 - (n + 1 - i) >= 0 THEN y - 1 - (n + 1 - i) ELSE y - 1 - (n + 1 - i) + Buckets
      BY <1>7, <2>1
    <2>4. Place(r, m, i) # x
      BY <1>a, <2>1, <2>2
    <2>5. Place(s, t, i) = Place(r, m, i)
      BY <1>a, <1>6, <2>1, <2>2, <2>3
    <2> QED
      BY <2>1, <2>4, <2>5
  <1>11. ASSUME NEW i \in Recent(m), Place(r, m, i) # x PROVE i \in Recent(t) /\ i # n + 1
    <2>1. i \in 1..n /\ i > n - Buckets /\ i \in Int
      BY <1>8
    <2>2. Place(r, m, i) = IF x - 1 - (n - i) >= 0 THEN x - 1 - (n - i) ELSE x - 1 - (n - i) + Buckets
      BY <1>7, <2>1
    <2>3. i # n + 1 - Buckets
      BY <1>a, <1>11, <2>1, <2>2
    <2> QED
      BY <1>a, <1>8, <2>1, <2>3
  <1>12. s.bucket \in [0..(Buckets - 1) -> Nat] /\ s.bucket[x] = l
         /\ \A b \in 0..(Buckets - 1) : b # x => s.bucket[b] = r.bucket[b]
    BY <1>3
  <1>13. ASSUME NEW i \in Recent(t) PROVE s.bucket[Place(s, t, i)] = t[i]
    <2>1. CASE i = n + 1
      BY <1>4, <1>9, <1>12, <2>1
    <2>2. CASE i # n + 1
      <3>1. i \in Recent(m) /\ i \in 1..n /\ Place(s, t, i) = Place(r, m, i) /\ Place(r, m, i) # x
        BY <1>10, <2>2
      <3>2. Place(r, m, i) \in 0..(Buckets - 1)
        BY <3>1, PlacesDiffer DEF RingOf
      <3>3. r.bucket[Place(r, m, i)] = m[i]
        BY <3>1 DEF RingOf
      <3> QED
        BY <1>4, <1>12, <3>1, <3>2, <3>3
    <2> QED
      BY <2>1, <2>2
  <1>14. ASSUME NEW b \in 0..(Buckets - 1), s.bucket[b] # 0
         PROVE  \E i \in Recent(t) : Place(s, t, i) = b
    <2>1. CASE b = x
      BY <1>9, <2>1
    <2>2. CASE b # x
      <3>1. r.bucket[b] # 0
        BY <1>12, <1>14, <2>2
      <3>2. PICK i \in Recent(m) : Place(r, m, i) = b
        BY <3>1 DEF RingOf
      <3> QED
        BY <1>10, <1>11, <2>2, <3>2
    <2> QED
      BY <2>1, <2>2
  <1>15. RingOf(s, t)
    BY <1>4, <1>6, <1>12, <1>13, <1>14 DEF RingOf
  <1> QED
    BY <1>1, <1>15


(* The buckets in use are as many as the last latencies that took any time, of any value.    *)
LatestIn(m, P) == {i \in Recent(m) : m[i] > 0 /\ m[i] \in P}

UsedIn(r, P) == {b \in 0..(Buckets - 1) : r.bucket[b] > 0 /\ r.bucket[b] \in P}

LEMMA RingCounts ==
  ASSUME NEW r, NEW m, RingOf(r, m), NEW P
  PROVE  /\ IsFiniteSet(LatestIn(m, P)) /\ IsFiniteSet(UsedIn(r, P))
         /\ Cardinality(LatestIn(m, P)) = Cardinality(UsedIn(r, P))
  <1> DEFINE A == LatestIn(m, P)
             B == UsedIn(r, P)
  <1> USE DEF LatestIn, UsedIn
  <1>1. IsFiniteSet(A)
    <2>1. A \subseteq 1..Len(m) /\ Len(m) \in Int
      BY DEF Recent, RingOf
    <2>2. IsFiniteSet(1..Len(m))
      BY <2>1, FS_Interval
    <2> QED
      BY <2>1, <2>2, FS_Subset
  <1> DEFINE g == [i \in A |-> Place(r, m, i)]
  <1>2. /\ \A i \in Recent(m) : Place(r, m, i) \in 0..(Buckets - 1) /\ r.bucket[Place(r, m, i)] = m[i]
        /\ \A i, j \in Recent(m) : Place(r, m, i) = Place(r, m, j) => i = j
        /\ \A b \in 0..(Buckets - 1) : r.bucket[b] # 0 => \E i \in Recent(m) : Place(r, m, i) = b
        /\ \A b \in 0..(Buckets - 1) : r.bucket[b] \in Nat
    BY PlacesDiffer DEF RingOf
  <1>3. g \in [A -> B]
    BY <1>2
  <1>4. \A i, j \in A : g[i] = g[j] => i = j
    BY <1>2
  <1>5. \A b \in B : \E i \in A : g[i] = b
    <2> SUFFICES ASSUME NEW b \in B PROVE \E i \in A : g[i] = b
      OBVIOUS
    <2>1. PICK i \in Recent(m) : Place(r, m, i) = b
      BY <1>2
    <2>2. m[i] = r.bucket[b] /\ i \in A
      BY <1>2, <2>1
    <2> QED
      BY <2>1, <2>2
  <1>6. g \in Bijection(A, B)
    <2> HIDE DEF g
    <2> QED
      BY <1>3, <1>4, <1>5 DEF Bijection, Injection, Surjection, IsInjective
  <1>7. ExistsBijection(A, B)
    BY <1>6 DEF ExistsBijection
  <1> HIDE DEF A, B
  <1>8. IsFiniteSet(B) /\ Cardinality(B) = Cardinality(A)
    BY <1>1, <1>7, FS_Bijection
  <1> QED
    BY <1>1, <1>8 DEF A, B

(* And they hold nothing else: their mean lies between the least and the greatest.           *)
LEMMA RingValues ==
  ASSUME NEW r, NEW m, RingOf(r, m)
  PROVE  /\ \A i \in 1..Len(m) : m[i] \in Nat
         /\ \A b \in 0..(Buckets - 1) : r.bucket[b] \in Nat
         /\ Len(m) \in Nat /\ DOMAIN m = 1..Len(m) /\ m \in Seq(Latencies)
         /\ \A i \in Recent(m) : i \in 1..Len(m)
         /\ LatestIn(m, Nat) = {i \in Recent(m) : m[i] > 0}
         /\ UsedIn(r, Nat) = {b \in 0..(Buckets - 1) : r.bucket[b] > 0}
  <1>1. m \in Seq(Latencies) /\ Latencies \subseteq Nat /\ r.bucket \in [0..(Buckets - 1) -> Nat]
    BY ObserversAssumption DEF RingOf
  <1>2. \A i \in 1..Len(m) : m[i] \in Latencies
    BY <1>1
  <1>3. \A i \in Recent(m) : i \in 1..Len(m)
    BY DEF Recent
  <1>4. \A i \in 1..Len(m) : m[i] \in Nat
    BY <1>1, <1>2
  <1>5. \A b \in 0..(Buckets - 1) : r.bucket[b] \in Nat
    BY <1>1
  <1> QED
    BY <1>1, <1>3, <1>4, <1>5 DEF LatestIn, UsedIn

LEMMA RingMean ==
  ASSUME NEW r, NEW m, RingOf(r, m), LatestIn(m, Nat) # {}
  PROVE  /\ UsedIn(r, Nat) # {}
         /\ TotalOf([b \in UsedIn(r, Nat) |-> r.bucket[b]]) \div Cardinality(UsedIn(r, Nat))
               \in Min({m[i] : i \in LatestIn(m, Nat)})..Max({m[i] : i \in LatestIn(m, Nat)})
  <1>1. PICK A, B : A = LatestIn(m, Nat) /\ B = UsedIn(r, Nat)
    OBVIOUS
  <1>2. /\ \A i \in A : i \in Recent(m) /\ m[i] > 0 /\ m[i] \in Nat
        /\ \A i \in Recent(m) : m[i] > 0 => i \in A
        /\ \A b \in B : b \in 0..(Buckets - 1) /\ r.bucket[b] > 0 /\ r.bucket[b] \in Nat
    BY <1>1, RingValues
  <1>3. IsFiniteSet(A) /\ IsFiniteSet(B) /\ Cardinality(A) = Cardinality(B) /\ A # {}
    BY <1>1, RingCounts
  <1>4. Cardinality(B) \in Nat \ {0} /\ B # {}
    BY <1>3, FS_CardinalityType, FS_EmptySet
  <1>5. PICK took : took = {m[i] : i \in A}
    OBVIOUS
  <1>6. took \subseteq Nat /\ took # {}
    BY <1>2, <1>3, <1>5
  <1>7. /\ \E x \in took : \A y \in took : x <= y
        /\ \E x \in took : \A y \in took : y <= x
    <2>1. PICK g : g = [i \in A |-> m[i]]
      OBVIOUS
    <2>2. g \in Surjection(A, took)
      BY <1>5, <2>1 DEF Surjection
    <2>3. IsFiniteSet(took)
      BY <1>3, <2>2, FS_Surjection
    <2> QED
      BY <1>6, <2>3, FiniteHasEnds
  <1>8. PICK low \in Nat : low \in took /\ \A y \in took : low <= y
    BY <1>6, <1>7
  <1>9. PICK high \in Nat : high \in took /\ \A y \in took : y <= high
    BY <1>6, <1>7
  <1>10. Min(took) = low /\ Max(took) = high
    BY <1>6, <1>8, <1>9, LeastIs, GreatestIs
  <1>11. PICK h : h = [b \in B |-> r.bucket[b]]
    OBVIOUS
  <1>12. ASSUME NEW b \in B PROVE h[b] \in Nat /\ low <= h[b] /\ h[b] <= high
    <2>1. b \in 0..(Buckets - 1) /\ r.bucket[b] # 0 /\ r.bucket[b] > 0 /\ r.bucket[b] \in Nat
      BY <1>2
    <2>2. PICK i \in Recent(m) : Place(r, m, i) = b
      BY <2>1 DEF RingOf
    <2>3. m[i] = r.bucket[b]
      BY <2>2 DEF RingOf
    <2>4. i \in A /\ r.bucket[b] \in took
      BY <1>2, <1>5, <2>1, <2>3
    <2>5. h[b] = r.bucket[b]
      BY <1>11
    <2> QED
      BY <1>8, <1>9, <2>1, <2>4, <2>5
  <1>13. h \in [B -> Int] /\ low \in Int /\ high \in Int
    BY <1>11, <1>12
  <1>14. /\ TotalOf(h) \in Int
         /\ low * Cardinality(B) <= TotalOf(h) /\ TotalOf(h) <= high * Cardinality(B)
    BY <1>3, <1>12, <1>13, TotalBetween
  <1>15. PICK n \in Nat \ {0}, s \in Int : n = Cardinality(B) /\ s = TotalOf(h)
    BY <1>4, <1>14
  <1>16. s \div n \in low..high
    BY <1>13, <1>14, <1>15, QuotientBetween
  <1> QED
    BY <1>1, <1>4, <1>5, <1>10, <1>11, <1>15, <1>16

FigureInv ==
    /\ DOMAIN ring = Figures /\ DOMAIN measured = Figures
    /\ DOMAIN average = Figures /\ DOMAIN averaged = Figures
    /\ \A f \in Figures : RingOf(ring[f], measured[f]) /\ AverageOf(average[f], averaged[f])
    /\ timing \in [Notifiers -> Timing]
    /\ \A c \in Notifiers : /\ timing[c].at # "idle" => timing[c].latency \in Latencies
                            /\ timing[c].at = "token" => timing[c].firstToken \in Latencies

LEMMA RecordsKeep ==
  ASSUME FigureInv, NEW f \in Figures, NEW l \in Latencies, Records(f, l)
  PROVE  /\ DOMAIN ring' = Figures /\ DOMAIN measured' = Figures
         /\ \A g \in Figures : RingOf(ring'[g], measured'[g])
  <1>1. /\ DOMAIN ring' = Figures /\ DOMAIN measured' = Figures
        /\ ring'[f] = Recorded(ring[f], l) /\ measured'[f] = Append(measured[f], l)
        /\ \A g \in Figures : g # f => ring'[g] = ring[g] /\ measured'[g] = measured[g]
    BY DEF FigureInv, Records
  <1>2. \A g \in Figures : RingOf(ring[g], measured[g])
    BY DEF FigureInv
  <1>3. RingOf(Recorded(ring[f], l), Append(measured[f], l))
    BY <1>2, RingMoves
  <1> QED
    BY <1>1, <1>2, <1>3

LEMMA AveragesKeep ==
  ASSUME FigureInv, NEW f \in Figures, NEW l \in Latencies, Averages(f, l)
  PROVE  /\ DOMAIN average' = Figures /\ DOMAIN averaged' = Figures
         /\ \A g \in Figures : AverageOf(average'[g], averaged'[g])
  <1>1. /\ DOMAIN average' = Figures /\ DOMAIN averaged' = Figures
        /\ average'[f] = Smoothed(average[f], l) /\ averaged'[f] = averaged[f] \cup {l}
        /\ \A g \in Figures : g # f => average'[g] = average[g] /\ averaged'[g] = averaged[g]
    BY DEF FigureInv, Averages
  <1>2. \A g \in Figures : AverageOf(average[g], averaged[g])
    BY DEF FigureInv
  <1>3. AverageOf(Smoothed(average[f], l), averaged[f] \cup {l})
    BY <1>2, AverageMoves, ObserversAssumption
  <1> QED
    BY <1>1, <1>2, <1>3

LEMMA FigureStep == FigureInv /\ [FiguresNext]_figureVars => FigureInv'
  <1> SUFFICES ASSUME FigureInv, [FiguresNext]_figureVars PROVE FigureInv'
    OBVIOUS
  <1>1. CASE UNCHANGED figureVars
    BY <1>1 DEF figureVars, FigureInv
  <1>2. ASSUME NEW c \in Notifiers, NEW l \in Latencies, RecordAPILatency(c, l) PROVE FigureInv'
    <2>1. Records("call", l) /\ UNCHANGED <<average, averaged>> /\ "call" \in Figures
      BY <1>2 DEF RecordAPILatency, Figures
    <2>2. PICK token \in {x \in Latencies : x <= l} \cup {NoToken} :
             timing' = [timing EXCEPT ![c] =
                          [at |-> IF token = NoToken THEN "stats" ELSE "token",
                           latency |-> l, firstToken |-> token]]
      BY <1>2 DEF RecordAPILatency
    <2>3. PICK at \in {"token", "stats"} : at = IF token = NoToken THEN "stats" ELSE "token"
      OBVIOUS
    <2>4. at = "token" => token \in Latencies
      BY <2>3
    <2>5. l \in Nat /\ token \in Nat \cup {NoToken}
      BY ObserversAssumption
    <2>6. PICK one : one = [at |-> at, latency |-> l, firstToken |-> token]
      OBVIOUS
    <2>7. one \in Timing /\ one.at = at /\ one.latency = l /\ one.firstToken = token
      BY <2>5, <2>6 DEF Timing
    <2>8. timing' = [timing EXCEPT ![c] = one]
      BY <2>2, <2>3, <2>6
    <2>9. /\ timing' \in [Notifiers -> Timing]
          /\ \A d \in Notifiers : /\ timing'[d].at # "idle" => timing'[d].latency \in Latencies
                                  /\ timing'[d].at = "token" => timing'[d].firstToken \in Latencies
      BY <2>4, <2>7, <2>8 DEF FigureInv
    <2>10. /\ DOMAIN ring' = Figures /\ DOMAIN measured' = Figures
           /\ \A g \in Figures : RingOf(ring'[g], measured'[g])
      BY <2>1, RecordsKeep
    <2> QED
      BY <2>1, <2>9, <2>10 DEF FigureInv
  <1>3. ASSUME NEW c \in Notifiers, RecordTimeToFirstToken(c) PROVE FigureInv'
    <2>1. PICK l \in Latencies : l = timing[c].firstToken
      BY <1>3 DEF RecordTimeToFirstToken, FigureInv
    <2>2. Records("firstToken", l) /\ Averages("firstToken", l) /\ "firstToken" \in Figures
      BY <1>3, <2>1 DEF RecordTimeToFirstToken, Figures
    <2>3. /\ timing' \in [Notifiers -> Timing]
          /\ \A d \in Notifiers : /\ timing'[d].at # "idle" => timing'[d].latency \in Latencies
                                  /\ timing'[d].at = "token" => timing'[d].firstToken \in Latencies
      BY <1>3 DEF FigureInv, RecordTimeToFirstToken, Timing
    <2>4. /\ DOMAIN ring' = Figures /\ DOMAIN measured' = Figures
          /\ \A g \in Figures : RingOf(ring'[g], measured'[g])
      BY <2>2, RecordsKeep
    <2>5. /\ DOMAIN average' = Figures /\ DOMAIN averaged' = Figures
          /\ \A g \in Figures : AverageOf(average'[g], averaged'[g])
      BY <2>2, AveragesKeep
    <2> QED
      BY <2>3, <2>4, <2>5 DEF FigureInv
  <1>4. ASSUME NEW c \in Notifiers, UpdateAverage(c) PROVE FigureInv'
    <2>1. PICK l \in Latencies : l = timing[c].latency
      BY <1>4 DEF UpdateAverage, FigureInv
    <2>2. /\ ring' = ring /\ measured' = measured /\ timing' = [timing EXCEPT ![c] = Untimed]
          /\ Averages("call", l) \/ UNCHANGED <<average, averaged>>
      BY <1>4, <2>1 DEF UpdateAverage
    <2>3. Untimed \in Timing /\ Untimed.at = "idle"
      BY DEF Untimed, Timing
    <2> HIDE DEF Untimed
    <2>4. /\ timing' \in [Notifiers -> Timing]
          /\ \A d \in Notifiers : /\ timing'[d].at # "idle" => timing'[d].latency \in Latencies
                                  /\ timing'[d].at = "token" => timing'[d].firstToken \in Latencies
      BY <2>2, <2>3 DEF FigureInv
    <2>5. /\ DOMAIN average' = Figures /\ DOMAIN averaged' = Figures
          /\ \A g \in Figures : AverageOf(average'[g], averaged'[g])
      <3>1. CASE Averages("call", l)
        BY <3>1, AveragesKeep DEF Figures
      <3>2. CASE UNCHANGED <<average, averaged>>
        BY <3>2 DEF FigureInv
      <3> QED
        BY <2>2, <3>1, <3>2
    <2> QED
      BY <2>2, <2>4, <2>5 DEF FigureInv
  <1>5. CASE ResetAverages
    <2>1. ring' = ring /\ measured' = measured /\ timing' = timing
      BY <1>5 DEF ResetAverages
    <2>2. /\ DOMAIN average' = Figures /\ DOMAIN averaged' = Figures
          /\ \A g \in Figures : average'[g] = 0 /\ averaged'[g] = {}
      BY <1>5 DEF ResetAverages
    <2>3. AverageOf(0, {})
      BY DEF AverageOf
    <2> QED
      BY <2>1, <2>2, <2>3 DEF FigureInv
  <1> QED
    BY <1>1, <1>2, <1>3, <1>4, <1>5 DEF FiguresNext

LEMMA FigureInvInit == FiguresInit => FigureInv
  <1> SUFFICES ASSUME FiguresInit PROVE FigureInv
    OBVIOUS
  <1>1. Untimed \in Timing /\ Untimed.at = "idle"
    BY DEF Untimed, Timing
  <1>2. timing = [n \in Notifiers |-> Untimed]
    BY DEF FiguresInit
  <1> HIDE DEF Untimed
  <1>3. timing \in [Notifiers -> Timing] /\ \A c \in Notifiers : timing[c].at = "idle"
    BY <1>1, <1>2
  <1>4. AverageOf(0, {})
    BY DEF AverageOf
  <1>5. PICK none : none = [bucket |-> [b \in 0..(Buckets - 1) |-> 0], index |-> 0]
    OBVIOUS
  <1>6. RingOf(none, <<>>)
    <2>1. none.bucket \in [0..(Buckets - 1) -> Nat] /\ none.index = 0 /\ 0 \in 0..(Buckets - 1)
          /\ \A b \in 0..(Buckets - 1) : none.bucket[b] = 0
      BY <1>5, ObserversAssumption
    <2>2. Recent(<<>>) = {} /\ <<>> \in Seq(Latencies)
      BY DEF Recent
    <2> QED
      BY <2>1, <2>2 DEF RingOf
  <1>7. ring = [f \in Figures |-> none] /\ measured = [f \in Figures |-> <<>>]
        /\ average = [f \in Figures |-> 0] /\ averaged = [f \in Figures |-> {}]
    BY <1>5 DEF FiguresInit
  <1> QED
    BY <1>3, <1>4, <1>6, <1>7 DEF FigureInv

LEMMA FiguresAgree == FigureInv => FiguresTypeOK /\ MetricsOfLastCalls /\ AveragesBetween
  <1> SUFFICES ASSUME FigureInv PROVE FiguresTypeOK /\ MetricsOfLastCalls /\ AveragesBetween
    OBVIOUS
  <1>1. FiguresTypeOK
    BY DEF FigureInv, FiguresTypeOK, RingOf, AverageOf
  <1>2. AveragesBetween
    BY AverageLies DEF FigureInv, AveragesBetween
  <1>3. MetricsOfLastCalls
    <2> SUFFICES ASSUME NEW f \in Figures
                 PROVE  /\ Cardinality(Used(f)) = Cardinality(Latest(f))
                        /\ \A l \in Latencies \ {0} :
                               Cardinality({b \in Used(f) : ring[f].bucket[b] = l})
                                  = Cardinality({i \in Latest(f) : measured[f][i] = l})
                        /\ Latest(f) # {} =>
                               RollingAverage(f) \in Min({measured[f][i] : i \in Latest(f)})
                                                       ..Max({measured[f][i] : i \in Latest(f)})
      BY DEF MetricsOfLastCalls
    <2>1. PICK r, m : r = ring[f] /\ m = measured[f]
      OBVIOUS
    <2>2. RingOf(r, m)
      BY <2>1 DEF FigureInv
    <2>3. DOMAIN m = 1..Len(m) /\ Len(m) \in Nat
      BY <2>2, RingValues
    <2>4. Used(f) = UsedIn(r, Nat)
      BY <2>1, <2>2, RingValues DEF Used
    <2>5. Latest(f) = LatestIn(m, Nat)
      <3>1. Latest(f) = {i \in Recent(m) : m[i] > 0}
        BY <2>1, <2>3 DEF Latest, Recent
      <3> QED
        BY <2>2, <3>1, RingValues
    <2>6. Cardinality(Used(f)) = Cardinality(Latest(f))
      BY <2>2, <2>4, <2>5, RingCounts
    <2>7. ASSUME NEW l \in Latencies \ {0}
          PROVE  Cardinality({b \in Used(f) : ring[f].bucket[b] = l})
                    = Cardinality({i \in Latest(f) : measured[f][i] = l})
      <3>1. l \in Nat
        BY ObserversAssumption
      <3>2. {i \in Latest(f) : m[i] = l} = LatestIn(m, {l})
        BY <2>5, <3>1 DEF LatestIn
      <3>3. {b \in Used(f) : r.bucket[b] = l} = UsedIn(r, {l})
        BY <2>4, <3>1 DEF UsedIn
      <3>4. Cardinality(LatestIn(m, {l})) = Cardinality(UsedIn(r, {l}))
        BY <2>2, RingCounts
      <3> QED
        BY <2>1, <3>2, <3>3, <3>4
    <2>8. ASSUME Latest(f) # {}
          PROVE  RollingAverage(f) \in Min({measured[f][i] : i \in Latest(f)})
                                         ..Max({measured[f][i] : i \in Latest(f)})
      <3>1. PICK A, B : A = LatestIn(m, Nat) /\ B = UsedIn(r, Nat)
        OBVIOUS
      <3>2. B # {} /\ TotalOf([b \in B |-> r.bucket[b]]) \div Cardinality(B)
                         \in Min({m[i] : i \in A})..Max({m[i] : i \in A})
        BY <2>2, <2>5, <2>8, <3>1, RingMean
      <3>3. RollingAverage(f) = TotalOf([b \in B |-> r.bucket[b]]) \div Cardinality(B)
        BY <2>1, <2>4, <3>1, <3>2, Zenon DEF RollingAverage, TotalOf
      <3> QED
        BY <2>1, <2>5, <3>1, <3>2, <3>3
    <2> QED
      BY <2>6, <2>7, <2>8
  <1> QED
    BY <1>1, <1>2, <1>3

\* For any number of buckets, goroutines and latencies: the API metrics are of the last calls
\* that took any time, and their average lies between the shortest and the longest of these;
\* a smoothed average lies between the shortest and the longest latency it was made of
\* (recordAPILatency, recordTimeToFirstToken and updateStats of the stages).
THEOREM FiguresAlwaysAgree ==
    FiguresInit /\ [][FiguresNext]_figureVars => [](FiguresTypeOK /\ MetricsOfLastCalls /\ AveragesBetween)
  <1> QED
    BY FigureInvInit, FigureStep, FiguresAgree, PTL


-------------------------------------------------------------------------------
(* The media together.  A step of them is, for each system, one of its steps or none.        *)
LEMMA MediaSteps ==
  [Next]_mediaVars =>
    /\ [PipelineNext]_pipeVars /\ [RoutingNext]_routingVars /\ [TranscriptionNext]_rtsVars
    /\ [TranslationStageNext]_translationVars /\ [SpeechNext]_speechVars
    /\ [BroadcastNext]_broadcastVars /\ [CallbacksNext]_callbackVars
    /\ [FiguresNext]_figureVars /\ [SegmentsNext]_segmentVars /\ [DelaysNext]_delayVars
  <1>1. CASE UNCHANGED mediaVars
    <2>1. /\ UNCHANGED <<pipeVars, routingVars, rtsVars, translationVars, speechVars>>
          /\ UNCHANGED <<broadcastVars, callbackVars, figureVars, segmentVars, delayVars>>
      BY <1>1 DEF mediaVars
    <2> QED
      BY <2>1
  <1>2. CASE Next
    <2>1. PipelineNext \/ UNCHANGED pipeVars
      BY <1>2 DEF Next, OthersRest
    <2>2. RoutingNext \/ UNCHANGED routingVars
      BY <1>2 DEF Next, OthersRest
    <2>3. TranscriptionNext \/ UNCHANGED rtsVars
      BY <1>2 DEF Next, OthersRest
    <2>4. TranslationStageNext \/ UNCHANGED translationVars
      BY <1>2 DEF Next, OthersRest
    <2>5. SpeechNext \/ UNCHANGED speechVars
      BY <1>2 DEF Next, OthersRest
    <2>6. BroadcastNext \/ UNCHANGED broadcastVars
      BY <1>2 DEF Next, OthersRest
    <2>7. CallbacksNext \/ UNCHANGED callbackVars
      BY <1>2 DEF Next, OthersRest
    <2>8. FiguresNext \/ UNCHANGED figureVars
      BY <1>2 DEF Next, OthersRest
    <2>9. SegmentsNext \/ UNCHANGED segmentVars
      BY <1>2 DEF Next, OthersRest
    <2>10. DelaysNext \/ UNCHANGED delayVars
      BY <1>2 DEF Next, OthersRest
    <2> QED
      BY <2>1, <2>2, <2>3, <2>4, <2>5, <2>6, <2>7, <2>8, <2>9, <2>10
  <1> QED
    BY <1>1, <1>2

\* All that is kept of the media of a job, of which one system runs and the others rest, for
\* any number of tracks, stages, receivers, speakers, listeners, goroutines and figures: the
\* invariants of its systems hold together.
THEOREM MediaCorrect == FairSpec => []MediaOK
  <1>1. /\ Init => PipelineInit /\ RoutingInit /\ TranscriptionInit /\ TranslationStageInit
        /\ Init => SpeechInit /\ BroadcastInit /\ CallbacksInit /\ FiguresInit
        /\ Init => SegmentsInit /\ DelaysInit
    BY DEF Init
  <1>2. [Next]_mediaVars =>
          /\ [PipelineNext]_pipeVars /\ [RoutingNext]_routingVars /\ [TranscriptionNext]_rtsVars
          /\ [TranslationStageNext]_translationVars /\ [SpeechNext]_speechVars
          /\ [BroadcastNext]_broadcastVars /\ [CallbacksNext]_callbackVars
          /\ [FiguresNext]_figureVars /\ [SegmentsNext]_segmentVars /\ [DelaysNext]_delayVars
    BY MediaSteps
  <1>3. FairSpec => []PipelineTypeOK /\ []StagesInOrder
    BY <1>1, <1>2, PipelineTypeCorrect, StagesAlwaysInOrder, PTL DEF FairSpec, PipelineSpec
  <1>4. FairSpec => [](RoutingTypeOK /\ ClosedAreQuiet /\ WrittenInOrder)
    BY <1>1, <1>2, RoutingCorrect, PTL DEF FairSpec, RoutingSpec
  <1>5. FairSpec => []TranscriptionTypeOK
    BY <1>1, <1>2, TranscriptionAlwaysTyped, PTL DEF FairSpec, TranscriptionSpec
  <1>6. FairSpec => [](TranslationStageTypeOK /\ CallsCounted)
    BY <1>1, <1>2, CallsAlwaysCounted, PTL DEF FairSpec, TranslationStageSpec
  <1>7. FairSpec => []SpeechTypeOK
    BY <1>1, <1>2, SpeechAlwaysTyped, PTL DEF FairSpec, SpeechSpec
  <1>8. FairSpec => [](BroadcastTypeOK /\ BroadcastToAll)
    BY <1>1, <1>2, BroadcastAlwaysToAll, PTL DEF FairSpec, BroadcastSpec
  <1>9. FairSpec => [](ObserversTypeOK /\ CalledOncePerRegistration)
    BY <1>1, <1>2, CalledAlwaysOnce, PTL DEF FairSpec
  <1>10. FairSpec => [](FiguresTypeOK /\ MetricsOfLastCalls /\ AveragesBetween)
    BY <1>1, <1>2, FiguresAlwaysAgree, PTL DEF FairSpec
  <1>11. FairSpec => []SegmentsFollowOn
    BY <1>1, <1>2, SegmentsAlwaysFollowOn, PTL DEF FairSpec
  <1>12. FairSpec => []DelaysAgree
    BY <1>1, <1>2, DelaysAlwaysAgree, PTL DEF FairSpec
  <1>13. /\ PipelineTypeOK /\ StagesInOrder /\ RoutingTypeOK /\ ClosedAreQuiet /\ WrittenInOrder
         /\ TranscriptionTypeOK /\ TranslationStageTypeOK /\ CallsCounted /\ SpeechTypeOK
         /\ BroadcastTypeOK /\ BroadcastToAll /\ ObserversTypeOK /\ CalledOncePerRegistration
         /\ FiguresTypeOK /\ MetricsOfLastCalls /\ AveragesBetween
         /\ SegmentsFollowOn /\ DelaysAgree
         => MediaOK
    BY DEF MediaOK
  <1> QED
    BY <1>3, <1>4, <1>5, <1>6, <1>7, <1>8, <1>9, <1>10, <1>11, <1>12, <1>13, PTL
===============================================================================
