------------------------------- MODULE Broadcast -------------------------------
(***************************************************************************)
(* BroadcastStage: hands what a frame carries, a transcription or speech,  *)
(* to the callbacks registered, and counts what became of it.  The frames  *)
(* of several tracks pass through the stage at once.                       *)
(*                                                                         *)
(* Of a frame's metadata the model keeps whether there is a transcription, *)
(* partial or final, and whether there is speech.                          *)
(***************************************************************************)
EXTENDS Naturals, Sequences, FiniteSets, SequencesExt

CONSTANTS
    BroadcastTracks,    \* goroutines that process frames
    Listeners,          \* callbacks that may be registered
    MaxBroadcasts       \* bound on the frames

ASSUME BroadcastAssumption == MaxBroadcasts \in Nat /\ IsFiniteSet(Listeners)

Contents == [text : {"none", "partial", "final"}, speech : BOOLEAN]
NoContents == [text |-> "none", speech |-> FALSE]

VARIABLES
    broadcastCallbacks, \* bs.broadcastCallbacks
    frames,             \* every frame so far: contents, snapshot of the callbacks
    processing,         \* of each track, the frame in Process and the callbacks left
    heard,              \* frames each callback was called with, and whether it failed
    broadcastStats,     \* bs.stats
    passedOn            \* frames Process returned, with their mark

broadcastVars ==
    <<broadcastCallbacks, frames, processing, heard, broadcastStats, passedOn>>

NoFrame == [frame |-> 0, left |-> <<>>]
HeardCall == [frame : 1..MaxBroadcasts, failed : BOOLEAN]

BroadcastTypeOK ==
    /\ broadcastCallbacks \in Seq(Listeners)
    /\ frames \in Seq([contents : Contents, callbacks : Seq(Listeners)])
    /\ processing \in [BroadcastTracks -> [frame : 0..MaxBroadcasts, left : Seq(Listeners)]]
    /\ heard \in [Listeners -> Seq(HeardCall)]
    /\ broadcastStats \in [total : Nat, partial : Nat, final : Nat, failed : Nat]
    /\ passedOn \in [1..Len(frames) -> {"no", "plain", "marked"}]

BroadcastInit ==
    /\ broadcastCallbacks = <<>> /\ frames = <<>>
    /\ processing = [t \in BroadcastTracks |-> NoFrame]
    /\ heard = [l \in Listeners |-> <<>>]
    /\ broadcastStats = [total |-> 0, partial |-> 0, final |-> 0, failed |-> 0]
    /\ passedOn = <<>>

AddBroadcastCallback(l) ==
    /\ l \notin ToSet(broadcastCallbacks)
    /\ broadcastCallbacks' = Append(broadcastCallbacks, l)
    /\ UNCHANGED <<frames, processing, heard, broadcastStats, passedOn>>

\* A frame that carries nothing passes through at once; another is given the callbacks
\* there are now.
ProcessContents(t, contents) ==
    LET carries == contents # NoContents IN
    /\ processing[t] = NoFrame
    /\ Len(frames) < MaxBroadcasts
    /\ frames' = Append(frames, [contents |-> contents,
                                 callbacks |-> IF carries THEN broadcastCallbacks ELSE <<>>])
    /\ passedOn' = Append(passedOn, IF carries THEN "no" ELSE "plain")
    /\ processing' = IF carries
                     THEN [processing EXCEPT ![t] = [frame |-> Len(frames) + 1,
                                                     left |-> broadcastCallbacks]]
                     ELSE processing
    /\ UNCHANGED <<broadcastCallbacks, heard, broadcastStats>>

\* A broadcast is failed, final or partial; speech without a transcription is final.
UpdateBroadcastStats(final, failed) ==
    [broadcastStats EXCEPT !.total = @ + 1,
        !.failed = IF failed THEN @ + 1 ELSE @,
        !.final = IF ~failed /\ final THEN @ + 1 ELSE @,
        !.partial = IF ~failed /\ ~final THEN @ + 1 ELSE @]

\* One callback after the other; the one that fails does not keep the rest from the frame.
CallbackReturns(t, failed) ==
    LET n == processing[t].frame IN
    /\ processing[t].left # <<>>
    /\ heard' = [heard EXCEPT ![Head(processing[t].left)] =
                    Append(@, [frame |-> n, failed |-> failed])]
    /\ broadcastStats' = UpdateBroadcastStats(frames[n].contents.text # "partial", failed)
    /\ processing' = [processing EXCEPT ![t].left = Tail(@)]
    /\ UNCHANGED <<broadcastCallbacks, frames, passedOn>>

ProcessReturns(t) ==
    /\ processing[t].frame # 0 /\ processing[t].left = <<>>
    /\ passedOn' = [passedOn EXCEPT ![processing[t].frame] = "marked"]
    /\ processing' = [processing EXCEPT ![t] = NoFrame]
    /\ UNCHANGED <<broadcastCallbacks, frames, heard, broadcastStats>>

BroadcastNext ==
    \/ \E l \in Listeners : AddBroadcastCallback(l)
    \/ \E t \in BroadcastTracks :
        \/ \E contents \in Contents : ProcessContents(t, contents)
        \/ \E failed \in BOOLEAN : CallbackReturns(t, failed)
        \/ ProcessReturns(t)

BroadcastSpec == BroadcastInit /\ [][BroadcastNext]_broadcastVars

-------------------------------------------------------------------------------
(* Properties.                                                               *)

CallsOf(l, K) == Cardinality({i \in DOMAIN heard[l] : heard[l][i] \in K})
HeardOf(l, n) == CallsOf(l, {h \in HeardCall : h.frame = n})
Calls(K) == FoldFunction(+, 0, [l \in Listeners |-> CallsOf(l, K)])

FailedCalls == {h \in HeardCall : h.failed}
PartialCalls ==
    {h \in HeardCall :
        ~h.failed /\ h.frame \in DOMAIN frames /\ frames[h.frame].contents.text = "partial"}

\* A frame that passed on with its mark was handed to each callback that was registered when
\* it came, once, whichever of them failed; a frame without the mark to none.  The counts
\* are those of the calls, kind by kind, whatever tracks were in the stage at once.
BroadcastToAll ==
    /\ \A n \in DOMAIN frames, l \in Listeners :
        /\ passedOn[n] = "marked" =>
               HeardOf(l, n) = IF l \in ToSet(frames[n].callbacks) THEN 1 ELSE 0
        /\ passedOn[n] = "plain" => HeardOf(l, n) = 0
    /\ broadcastStats.total = Calls(HeardCall)
    /\ broadcastStats.failed = Calls(FailedCalls)
    /\ broadcastStats.partial = Calls(PartialCalls)
    /\ broadcastStats.total =
           broadcastStats.failed + broadcastStats.partial + broadcastStats.final
===============================================================================
