----------------------------- MODULE TranslationStage -----------------------------
(***************************************************************************)
(* TranslationStage: final transcriptions are sent to the translation API  *)
(* through a circuit breaker and a rate limiter.  The goroutines of all    *)
(* tracks share one stage, and the warm-up call is one more caller: what   *)
(* a call asked of the breaker may be stale when it reports to it.         *)
(*                                                                         *)
(* Time is retryDue: whether time.Now() is after breaker.nextRetryTime.    *)
(***************************************************************************)
EXTENDS Naturals, FiniteSets

CONSTANTS
    Translators,    \* goroutines that call Process
    WarmUp,         \* the goroutine of the warm-up call
    Languages,      \* languages a frame may ask for
    MaxFailures,    \* maxConsecutiveFailures
    Burst,          \* defaultBurstSize
    MaxTranslations \* bound on the calls counted in the metrics

ASSUME TranslationAssumption ==
    /\ MaxFailures \in Nat \ {0} /\ Burst \in Nat /\ MaxTranslations \in Nat
    /\ WarmUp \notin Translators /\ IsFiniteSet(Languages)

VARIABLES
    breaker,        \* ts.breaker: [state, failureCount]
    retryDue,       \* nextRetryTime is past
    tokens,         \* tokens of the rate limiter
    calls,          \* what each goroutine does: [at, langs]
    apiMetrics,     \* ts.metrics
    translationStats \* ts.stats

translationVars == <<breaker, retryDue, tokens, calls, apiMetrics, translationStats>>

Goroutines == Translators \cup {WarmUp}

CallAt == {"idle", "gate", "limit", "calling", "succeeded", "failed", "error", "done", "gone"}

TranslationStageTypeOK ==
    /\ breaker \in [state : {"closed", "open", "halfOpen"}, failureCount : Nat]
    /\ retryDue \in BOOLEAN
    /\ tokens \in 0..Burst
    /\ calls \in [Goroutines -> [at : CallAt, langs : SUBSET Languages]]
    /\ apiMetrics \in [totalCalls : Nat, successfulCalls : Nat, failedCalls : Nat,
                       circuitBreakerTrips : Nat, rateLimitExceeded : Nat]
    /\ translationStats \in [total : Nat, successful : Nat, failed : Nat, skipped : Nat]

NoCall == [at |-> "idle", langs |-> {}]

NoTranslations == [total |-> 0, successful |-> 0, failed |-> 0, skipped |-> 0]

TranslationStageInit ==
    /\ breaker = [state |-> "closed", failureCount |-> 0]
    /\ retryDue = TRUE
    /\ tokens = Burst
    /\ calls = [c \in Goroutines |->
                    IF c = WarmUp THEN [at |-> "gate", langs |-> {}] ELSE NoCall]
    /\ apiMetrics = [totalCalls |-> 0, successfulCalls |-> 0, failedCalls |-> 0,
                     circuitBreakerTrips |-> 0, rateLimitExceeded |-> 0]
    /\ translationStats = NoTranslations

Moves(c, at) == calls' = [calls EXCEPT ![c].at = at]

-------------------------------------------------------------------------------

(* Only a final transcription with text and a language is translated, into *)
(* the languages asked for that are not its own.                           *)
TargetLanguages(asked, source) == asked \ {source}

WithinBound ==
    /\ translationStats.total + translationStats.skipped < MaxTranslations
    /\ apiMetrics.totalCalls < MaxTranslations

ProcessTranscription(c, asked, source) ==
    LET targets == TargetLanguages(asked, source) IN
    /\ c \in Translators /\ calls[c] = NoCall /\ WithinBound
    /\ IF targets = {}
       THEN /\ translationStats' = [translationStats EXCEPT !.skipped = @ + 1]
            /\ UNCHANGED calls
       ELSE /\ calls' = [calls EXCEPT ![c] = [at |-> "gate", langs |-> targets]]
            /\ UNCHANGED translationStats
    /\ UNCHANGED <<breaker, retryDue, tokens, apiMetrics>>

CanMakeAPICall == breaker.state = "open" => retryDue

(* translateViaStreaming does without the breaker: a text too long or too  *)
(* many languages are an error, of a blank text nothing is translated.     *)
ValidateInput(c) ==
    /\ c \in Translators /\ calls[c].at = "gate"
    /\ \/ Moves(c, "error")
       \/ calls' = [calls EXCEPT ![c] = [at |-> "done", langs |-> {}]]
    /\ UNCHANGED <<breaker, retryDue, tokens, apiMetrics, translationStats>>

(* Any other input asks the breaker ...                                    *)
AskBreaker(c) ==
    /\ calls[c].at = "gate"
    /\ Moves(c, IF CanMakeAPICall THEN "limit" ELSE "error")
    /\ UNCHANGED <<breaker, retryDue, tokens, apiMetrics, translationStats>>

(* ... then the rate limiter ...                                           *)
AskLimiter(c) ==
    /\ calls[c].at = "limit"
    /\ IF tokens > 0
       THEN tokens' = tokens - 1 /\ Moves(c, "calling") /\ UNCHANGED apiMetrics
       ELSE /\ apiMetrics' = [apiMetrics EXCEPT !.rateLimitExceeded = @ + 1]
            /\ Moves(c, "error")
            /\ UNCHANGED tokens
    /\ UNCHANGED <<breaker, retryDue, translationStats>>

\* Mutation of CallOpenAI: a call that failed is not timed.
CallOpenAITimesSuccess(c) ==
    /\ calls[c].at = "calling"
    /\ \/ Moves(c, "succeeded") /\ apiMetrics' = [apiMetrics EXCEPT !.totalCalls = @ + 1]
       \/ Moves(c, "failed") /\ UNCHANGED apiMetrics
    /\ UNCHANGED <<breaker, retryDue, tokens, translationStats>>

(* ... and calls: recordAPILatency counts the call when it has ended,      *)
(* whichever way: refused, cut off, or read to its end.                    *)
CallOpenAI(c) ==
    /\ calls[c].at = "calling"
    /\ apiMetrics' = [apiMetrics EXCEPT !.totalCalls = @ + 1]
    /\ Moves(c, "succeeded") \/ Moves(c, "failed")
    /\ UNCHANGED <<breaker, retryDue, tokens, translationStats>>

\* Mutation of RecordSuccess: the failures stay counted.
RecordSuccessKeepsCount(b) ==
    [state |-> IF b.state = "halfOpen" THEN "closed" ELSE b.state, failureCount |-> b.failureCount]

RecordSuccess(b) ==
    [state |-> IF b.state = "halfOpen" THEN "closed" ELSE b.state, failureCount |-> 0]

(* A response that is no JSON is an error after the success was recorded.  *)
RecordAPISuccess(c) ==
    /\ calls[c].at = "succeeded"
    /\ breaker' = RecordSuccess(breaker)
    /\ apiMetrics' = [apiMetrics EXCEPT !.successfulCalls = @ + 1]
    /\ Moves(c, "done") \/ Moves(c, "error")
    /\ UNCHANGED <<retryDue, tokens, translationStats>>

\* Mutation of Trips: the breaker opens one failure late.
TripsLate(b) == b.failureCount >= MaxFailures

Trips(b) == b.failureCount + 1 >= MaxFailures

RecordAPIFailure(c) ==
    /\ calls[c].at = "failed"
    /\ breaker' = [state |-> IF Trips(breaker) THEN "open" ELSE breaker.state,
                   failureCount |-> breaker.failureCount + 1]
    /\ retryDue' = IF Trips(breaker) THEN FALSE ELSE retryDue
    /\ apiMetrics' = [apiMetrics EXCEPT !.failedCalls = @ + 1,
                          !.circuitBreakerTrips = IF Trips(breaker) THEN @ + 1 ELSE @]
    /\ Moves(c, "error")
    /\ UNCHANGED <<tokens, translationStats>>

(* What the response has of the languages asked for: it may lack some, and *)
(* have others, which nobody asked for.                                    *)
FilterRequested(answered, asked) == answered \cap asked

(* Process counts the translation, whole or failed.                        *)
UpdateTranslationStats(c) ==
    /\ c \in Translators /\ calls[c].at \in {"done", "error"}
    /\ \E answered \in SUBSET Languages :
          translationStats' =
              IF calls[c].at = "error" THEN [translationStats EXCEPT !.total = @ + 1, !.failed = @ + 1]
              ELSE [translationStats EXCEPT !.total = @ + 1,
                        !.successful = @ + Cardinality(FilterRequested(answered, calls[c].langs))]
    /\ calls' = [calls EXCEPT ![c] = NoCall]
    /\ UNCHANGED <<breaker, retryDue, tokens, apiMetrics>>

(* The warm-up takes whatever was counted so far out of the statistics.    *)
WarmUpEnds ==
    /\ calls[WarmUp].at \in {"done", "error"}
    /\ translationStats' = [NoTranslations EXCEPT !.skipped = translationStats.skipped]
    /\ Moves(WarmUp, "gone")
    /\ UNCHANGED <<breaker, retryDue, tokens, apiMetrics>>

RetryComesDue ==
    /\ ~retryDue
    /\ retryDue' = TRUE
    /\ UNCHANGED <<breaker, tokens, calls, apiMetrics, translationStats>>

TokenRefills ==
    /\ tokens < Burst
    /\ tokens' = tokens + 1
    /\ UNCHANGED <<breaker, retryDue, calls, apiMetrics, translationStats>>

TranslationStageNext ==
    \/ \E c \in Goroutines : \/ ValidateInput(c)
                             \/ AskBreaker(c) \/ AskLimiter(c) \/ CallOpenAI(c) \/ RecordAPISuccess(c)
                             \/ RecordAPIFailure(c) \/ UpdateTranslationStats(c)
    \/ \E c \in Translators, asked \in SUBSET Languages, source \in Languages :
          ProcessTranscription(c, asked, source)
    \/ WarmUpEnds \/ RetryComesDue \/ TokenRefills

TranslationStageSpec == TranslationStageInit /\ [][TranslationStageNext]_translationVars

-------------------------------------------------------------------------------
(* The phase a breaker is in.  Its state is never circuitHalfOpen, and     *)
(* once open never closed again: what tells the phases apart is the timer  *)
(* and the failures counted.                                               *)
CircuitPhase ==
    IF breaker.state = "closed" THEN "closed"
    ELSE IF ~retryDue THEN "open"
    ELSE IF breaker.failureCount >= MaxFailures THEN "halfOpen" ELSE "closed"

CircuitFailures == IF breaker.failureCount < MaxFailures THEN breaker.failureCount ELSE MaxFailures

Circuit == INSTANCE Breaker WITH phase <- CircuitPhase, failures <- CircuitFailures

(* The breaker of the stage does what a circuit breaker promises, though   *)
(* no code ever makes it half open (recordAPISuccess and recordAPIFailure):*)
(* it opens at the MaxFailures-th failure in a row and not before, stays   *)
(* open until the retry time, whatever calls under way report meanwhile,   *)
(* and opens again at the first failure after it.                          *)
TranslationBreaks == Circuit!BreakerSpec

(* Every call that was made is counted as one that succeeded or failed, or *)
(* is about to be; and the breaker is open exactly when it tripped, for it *)
(* never leaves that state.                                                *)
CallsCounted ==
    /\ apiMetrics.totalCalls
          = apiMetrics.successfulCalls + apiMetrics.failedCalls
            + Cardinality({c \in Goroutines : calls[c].at \in {"succeeded", "failed"}})
    /\ breaker.state = "open" <=> apiMetrics.circuitBreakerTrips > 0
===============================================================================
