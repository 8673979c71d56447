--------------------------------- MODULE Breaker ---------------------------------
(***************************************************************************)
(* What the circuit breaker of an API stage promises.  Calls pass unless   *)
(* it is open.  It opens at the MaxFailures-th failure in a row, stays     *)
(* open until its timer fires, and then lets calls try again: the next     *)
(* failure opens it again at once, a success closes it.  Calls that were   *)
(* under way when it opened may still succeed, and then it is closed when  *)
(* the timer fires.                                                        *)
(***************************************************************************)
EXTENDS Naturals

CONSTANT MaxFailures

VARIABLES phase, failures

BreakerInit == phase = "closed" /\ failures = 0

CallFailed ==
    /\ failures' = IF failures < MaxFailures THEN failures + 1 ELSE MaxFailures
    /\ phase' = IF failures' = MaxFailures THEN "open" ELSE phase

CallSucceeded ==
    /\ failures' = 0
    /\ phase' = IF phase = "halfOpen" THEN "closed" ELSE phase

TimerFires ==
    /\ phase = "open"
    /\ phase' = IF failures = MaxFailures THEN "halfOpen" ELSE "closed"
    /\ UNCHANGED failures

BreakerNext == CallFailed \/ CallSucceeded \/ TimerFires

BreakerSpec == BreakerInit /\ [][BreakerNext]_<<phase, failures>>
===============================================================================
