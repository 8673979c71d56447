------------------------------- MODULE SpeechStage -------------------------------
(***************************************************************************)
(* TextToSpeechStage: a frame with translations becomes one goroutine for  *)
(* each language, all asking one circuit breaker and one rate limiter; a   *)
(* result goes into a channel that a further goroutine closes once all are *)
(* done, and Process collects until then.  Frames of several tracks are    *)
(* processed at a time, and the warm-up call is one more goroutine.        *)
(*                                                                         *)
(* As in TranslationStage, speechRetryDue is whether nextRetryTime is past.*)
(***************************************************************************)
EXTENDS Naturals, FiniteSets

CONSTANTS
    Speakers,           \* goroutines that call Process
    WarmUpSpeaker,      \* the goroutine of the warm-up call
    SpeechLanguages,    \* languages a frame may have translations into
    SpeechMaxFailures,  \* ttsMaxFailures
    SpeechBurst,        \* ttsBurstSize
    MaxBatches          \* bound on the frames with translations

ASSUME SpeechAssumption ==
    /\ SpeechMaxFailures \in Nat \ {0} /\ SpeechBurst \in Nat /\ MaxBatches \in Nat
    /\ WarmUpSpeaker \notin Speakers /\ IsFiniteSet(SpeechLanguages)

VARIABLES
    speechBreaker,  \* tts.breaker: [state, failureCount]
    speechRetryDue, \* nextRetryTime is past
    speechTokens,   \* tokens of the rate limiter
    batches,        \* for each speaker its frame: the languages, the channel, the audio
    generators,     \* for each speaker and language the goroutine of generateTTS
    generated,      \* for each speaker and language whether the API gave audio, this frame
    speechStats     \* tts.stats

speechVars == <<speechBreaker, speechRetryDue, speechTokens, batches, generators, generated,
                speechStats>>

Speaking == Speakers \cup {WarmUpSpeaker}

Generator == {"none", "start", "limit", "calling", "succeeded", "failed", "give", "fail", "done"}

Result == [language : SpeechLanguages, ok : BOOLEAN]

Batch == [at : {"idle", "collect", "count"}, langs : SUBSET SpeechLanguages,
          resultChan : SUBSET Result, closed : BOOLEAN, ttsAudioMap : SUBSET SpeechLanguages]

SpeechTypeOK ==
    /\ speechBreaker \in [state : {"closed", "open", "halfOpen"}, failureCount : Nat]
    /\ speechRetryDue \in BOOLEAN /\ speechTokens \in 0..SpeechBurst
    /\ batches \in [Speakers -> Batch]
    /\ generators \in [Speaking -> [SpeechLanguages -> Generator]]
    /\ generated \in [Speaking -> SUBSET SpeechLanguages]
    /\ speechStats \in [batches : Nat, total : Nat, successful : Nat, failed : Nat]

NoBatch == [at |-> "idle", langs |-> {}, resultChan |-> {}, closed |-> FALSE, ttsAudioMap |-> {}]

NoSpeech == [batches |-> 0, total |-> 0, successful |-> 0, failed |-> 0]

SpeechInit ==
    /\ speechBreaker = [state |-> "closed", failureCount |-> 0]
    /\ speechRetryDue = TRUE /\ speechTokens = SpeechBurst
    /\ batches = [s \in Speakers |-> NoBatch]
    /\ \E first \in SpeechLanguages : generators = [s \in Speaking |-> [l \in SpeechLanguages |->
            IF s = WarmUpSpeaker /\ l = first THEN "start" ELSE "none"]]
    /\ generated = [s \in Speaking |-> {}]
    /\ speechStats = NoSpeech

-------------------------------------------------------------------------------

(* generateTTSParallel starts a goroutine for each translation; a          *)
(* translation that is blank or too long fails at once.                    *)
GenerateTTSParallel(s, langs, refused) ==
    /\ batches[s] = NoBatch /\ langs # {} /\ speechStats.batches < MaxBatches
    /\ batches' = [batches EXCEPT ![s] = [NoBatch EXCEPT !.at = "collect", !.langs = langs]]
    /\ generators' = [generators EXCEPT ![s] = [l \in SpeechLanguages |->
            IF l \notin langs THEN "none" ELSE IF l \in refused THEN "fail" ELSE "start"]]
    /\ generated' = [generated EXCEPT ![s] = {}]
    /\ UNCHANGED <<speechBreaker, speechRetryDue, speechTokens, speechStats>>

Generates(s, l, from, to) ==
    /\ generators[s][l] = from
    /\ generators' = [generators EXCEPT ![s][l] = to]

SpeechCanMakeAPICall == speechBreaker.state = "open" => speechRetryDue

GenerateTTS(s, l) ==
    /\ Generates(s, l, "start", IF SpeechCanMakeAPICall THEN "limit" ELSE "fail")
    /\ UNCHANGED <<speechBreaker, speechRetryDue, speechTokens, batches, generated, speechStats>>

AllowSpeech(s, l) ==
    /\ \/ /\ speechTokens > 0 /\ speechTokens' = speechTokens - 1
          /\ Generates(s, l, "limit", "calling")
       \/ /\ speechTokens = 0 /\ UNCHANGED speechTokens
          /\ Generates(s, l, "limit", "fail")
    /\ UNCHANGED <<speechBreaker, speechRetryDue, batches, generated, speechStats>>

(* The request fails, is refused, or gives audio; no audio is a failure.   *)
CallOpenAITTS(s, l) ==
    /\ \/ Generates(s, l, "calling", "succeeded") /\ generated' = [generated EXCEPT ![s] = @ \cup {l}]
       \/ Generates(s, l, "calling", "failed") /\ UNCHANGED generated
    /\ UNCHANGED <<speechBreaker, speechRetryDue, speechTokens, batches, speechStats>>

SpeechRecordAPISuccess(s, l) ==
    /\ Generates(s, l, "succeeded", "give")
    /\ speechBreaker' = [state |-> IF speechBreaker.state = "halfOpen" THEN "closed" ELSE speechBreaker.state,
                         failureCount |-> 0]
    /\ UNCHANGED <<speechRetryDue, speechTokens, batches, generated, speechStats>>

SpeechTrips == speechBreaker.failureCount + 1 >= SpeechMaxFailures

SpeechRecordAPIFailure(s, l) ==
    /\ Generates(s, l, "failed", "fail")
    /\ speechBreaker' = [state |-> IF SpeechTrips THEN "open" ELSE speechBreaker.state,
                         failureCount |-> speechBreaker.failureCount + 1]
    /\ speechRetryDue' = (speechRetryDue /\ ~SpeechTrips)
    /\ UNCHANGED <<speechTokens, batches, generated, speechStats>>

(* The goroutine sends its result and is done.                             *)
SendResult(s, l) ==
    /\ \E ok \in BOOLEAN :
          /\ Generates(s, l, IF ok THEN "give" ELSE "fail", "done")
          /\ batches' = [batches EXCEPT ![s].resultChan = @ \cup {[language |-> l, ok |-> ok]}]
    /\ UNCHANGED <<speechBreaker, speechRetryDue, speechTokens, generated, speechStats>>

\* Mutation of AllDone: the first goroutine that is done closes the channel.
SomeDone(s) == \E l \in batches[s].langs : generators[s][l] = "done"

AllDone(s) == \A l \in batches[s].langs : generators[s][l] = "done"

(* wg.Wait, then close(resultChan). *)
CloseResults(s) ==
    /\ batches[s].at = "collect" /\ ~batches[s].closed /\ AllDone(s)
    /\ batches' = [batches EXCEPT ![s].closed = TRUE]
    /\ UNCHANGED <<speechBreaker, speechRetryDue, speechTokens, generators, generated, speechStats>>

CollectResult(s) ==
    /\ batches[s].at = "collect"
    /\ \E r \in batches[s].resultChan :
          batches' = [batches EXCEPT ![s].resultChan = @ \ {r},
                          ![s].ttsAudioMap = IF r.ok THEN @ \cup {r.language} ELSE @]
    /\ UNCHANGED <<speechBreaker, speechRetryDue, speechTokens, generators, generated, speechStats>>

CollectingEnds(s) ==
    /\ batches[s].at = "collect" /\ batches[s].closed /\ batches[s].resultChan = {}
    /\ batches' = [batches EXCEPT ![s].at = "count"]
    /\ UNCHANGED <<speechBreaker, speechRetryDue, speechTokens, generators, generated, speechStats>>

UpdateSpeechStats(s) ==
    LET requested == Cardinality(batches[s].langs)
        successful == Cardinality(batches[s].ttsAudioMap) IN
    /\ batches[s].at = "count"
    /\ speechStats' = [batches |-> speechStats.batches + 1,
                       total |-> speechStats.total + requested,
                       successful |-> speechStats.successful + successful,
                       failed |-> speechStats.failed + (requested - successful)]
    /\ batches' = [batches EXCEPT ![s] = NoBatch]
    /\ generators' = [generators EXCEPT ![s] = [l \in SpeechLanguages |-> "none"]]
    /\ UNCHANGED <<speechBreaker, speechRetryDue, speechTokens, generated>>

(* The warm-up call ends, well or not, and resets the statistics.          *)
SpeechWarmUp(l) ==
    /\ \E ended \in {"give", "fail"} : Generates(WarmUpSpeaker, l, ended, "done")
    /\ speechStats' = NoSpeech
    /\ UNCHANGED <<speechBreaker, speechRetryDue, speechTokens, batches, generated>>

SpeechRetryComesDue ==
    /\ ~speechRetryDue /\ speechRetryDue' = TRUE
    /\ UNCHANGED <<speechBreaker, speechTokens, batches, generators, generated, speechStats>>

SpeechTokenRefills ==
    /\ speechTokens < SpeechBurst /\ speechTokens' = speechTokens + 1
    /\ UNCHANGED <<speechBreaker, speechRetryDue, batches, generators, generated, speechStats>>

SpeechNext ==
    \/ \E s \in Speakers, langs \in SUBSET SpeechLanguages :
          \E refused \in SUBSET langs : GenerateTTSParallel(s, langs, refused)
    \/ \E s \in Speaking, l \in SpeechLanguages :
          \/ GenerateTTS(s, l) \/ AllowSpeech(s, l) \/ CallOpenAITTS(s, l)
          \/ SpeechRecordAPISuccess(s, l) \/ SpeechRecordAPIFailure(s, l)
    \/ \E s \in Speakers, l \in SpeechLanguages : SendResult(s, l)
    \/ \E s \in Speakers : \/ CloseResults(s) \/ CollectResult(s) \/ CollectingEnds(s)
                           \/ UpdateSpeechStats(s)
    \/ \E l \in SpeechLanguages : SpeechWarmUp(l)
    \/ SpeechRetryComesDue \/ SpeechTokenRefills

SpeechSpec == SpeechInit /\ [][SpeechNext]_speechVars

-------------------------------------------------------------------------------
(* When Process has collected a frame, its audio map holds every language  *)
(* the API gave audio for and no other: no result is lost between the      *)
(* goroutines, the channel and its closing, and none comes from another    *)
(* frame (generateTTSParallel).                                            *)
NoSpeechLost ==
    \A s \in Speakers : batches[s].at = "count" => batches[s].ttsAudioMap = generated[s]
===============================================================================
