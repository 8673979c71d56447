-------------------------- MODULE RealtimeTranscription --------------------------
(***************************************************************************)
(* RealtimeTranscriptionStage: one peer connection to the transcription    *)
(* service, made by the first frame that finds none or by Connect, shared  *)
(* by the goroutines of all tracks.  The connection's state changes come   *)
(* as callbacks, each in a goroutine of its own, so they may come late and *)
(* in any order; the transcriptions come on its data channel.              *)
(*                                                                         *)
(* rts.mu guards the flags and the latest transcription.  It does not      *)
(* guard peerConnection and audioTrack, which a connecting goroutine       *)
(* writes and Process reads without it.                                    *)
(***************************************************************************)
EXTENDS Integers, Sequences, FiniteSets

CONSTANTS
    Feeders,        \* goroutines that call Process
    Callers,        \* goroutines that call Connect and Disconnect
    MaxPeers,       \* bound on the peer connections made
    MaxMessages,    \* bound on the messages of the service
    MaxFrames,      \* bound on the frames processed
    EventQueue,     \* capacity of eventChan
    MaxLoops        \* bound on the processEvents goroutines at a time

ASSUME TranscriptionAssumption ==
    /\ Feeders \cap Callers = {}
    /\ MaxPeers \in Nat /\ MaxMessages \in Nat /\ MaxFrames \in Nat /\ EventQueue \in Nat /\ MaxLoops \in Nat

VARIABLES
    peers,          \* the peer connections made: their state and the callbacks still to run
    peerConnection, \* rts.peerConnection, 0 for nil
    audioTrack,     \* the peer connection rts.audioTrack belongs to, 0 for nil
    connected,      \* rts.connected
    connecting,     \* rts.connecting
    users,          \* what each goroutine does, and the peer connection it makes
    loops,          \* processEvents goroutines that run
    closeChan,      \* rts.closeChan is closed
    eventChan,      \* number of events in rts.eventChan
    sequenceNumber, \* rts.sequenceNumber
    messages,       \* number of transcriptions that came
    latest,         \* rts.latestTranscription, 0 for nil
    included,       \* the transcriptions put into the metadata of frames, in order
    nilTrack,       \* WriteRTP was called on a nil track: the process panicked
    disconnected    \* a Disconnect returned, and neither Connect nor Process was called since

rtsVars == <<peers, peerConnection, audioTrack, connected, connecting, users, loops, closeChan,
             eventChan, sequenceNumber, messages, latest, included, nilTrack, disconnected>>

Users == Feeders \cup Callers

PeerState == {"new", "answered", "connected", "failed", "closed"}

User == [at : {"idle", "key", "make", "track", "exchange", "failed", "audio", "write", "output",
               "closing", "waiting", "cleanup"},
         mine : 0..MaxPeers]

Free == [at |-> "idle", mine |-> 0]

TranscriptionTypeOK ==
    /\ peers \in Seq([state : PeerState, reports : SUBSET {"connected", "failed", "closed"}])
    /\ Len(peers) <= MaxPeers
    /\ peerConnection \in 0..Len(peers) /\ audioTrack \in 0..Len(peers)
    /\ connected \in BOOLEAN /\ connecting \in BOOLEAN
    /\ users \in [Users -> User]
    /\ loops \in 0..MaxLoops /\ closeChan \in BOOLEAN
    /\ eventChan \in 0..EventQueue
    /\ sequenceNumber \in 0..MaxFrames /\ messages \in 0..MaxMessages /\ latest \in 0..messages
    /\ included \in Seq(1..MaxMessages)
    /\ nilTrack \in BOOLEAN /\ disconnected \in BOOLEAN

(* NewRealtimeTranscriptionStage *)
TranscriptionInit ==
    /\ peers = <<>> /\ peerConnection = 0 /\ audioTrack = 0
    /\ connected = FALSE /\ connecting = FALSE
    /\ users = [u \in Users |-> Free]
    /\ loops = 0 /\ closeChan = FALSE /\ eventChan = 0
    /\ sequenceNumber = 0 /\ messages = 0 /\ latest = 0
    /\ included = <<>>
    /\ nilTrack = FALSE /\ disconnected = FALSE

streamVars == <<sequenceNumber, messages, latest, included, nilTrack>>
linkVars == <<peers, peerConnection, audioTrack>>

Step(u, at) == users' = [users EXCEPT ![u].at = at]

(* pc.Close: the callback runs later. *)
ClosePeer(ps, i) ==
    IF ps[i].state = "closed" THEN ps
    ELSE [ps EXCEPT ![i] = [state |-> "closed", reports |-> @.reports \cup {"closed"}]]

-------------------------------------------------------------------------------
(* Connecting.                                                             *)

(* Process connects when nobody does, and goes on to its audio otherwise.  *)
ProcessFrame(u) ==
    /\ u \in Feeders /\ users[u] = Free /\ sequenceNumber < MaxFrames
    /\ IF ~connected /\ ~connecting
       THEN connecting' = TRUE /\ Step(u, "key")
       ELSE UNCHANGED connecting /\ Step(u, "audio")
    /\ disconnected' = FALSE
    /\ UNCHANGED <<linkVars, connected, loops, closeChan, eventChan, streamVars>>

Connect(u) ==
    /\ u \in Callers /\ users[u] = Free
    /\ ~connected /\ ~connecting
    /\ connecting' = TRUE
    /\ Step(u, "key")
    /\ disconnected' = FALSE
    /\ UNCHANGED <<linkVars, connected, loops, closeChan, eventChan, streamVars>>

(* The HTTP request for the key fails, or gives a key.                     *)
GetEphemeralKey(u) ==
    /\ users[u].at = "key"
    /\ \/ Step(u, "make") \/ Step(u, "failed")
    /\ UNCHANGED <<linkVars, connected, connecting, loops, closeChan, eventChan, streamVars, disconnected>>

MakePeer(u) ==
    /\ users[u].at = "make" /\ Len(peers) < MaxPeers
    /\ peers' = Append(peers, [state |-> "new", reports |-> {}])
    /\ peerConnection' = Len(peers')
    /\ users' = [users EXCEPT ![u] = [at |-> "track", mine |-> Len(peers')]]
    /\ UNCHANGED <<audioTrack, connected, connecting, loops, closeChan, eventChan, streamVars, disconnected>>

MakeTrack(u) ==
    /\ users[u].at = "track"
    /\ audioTrack' = users[u].mine
    /\ Step(u, "exchange")
    /\ UNCHANGED <<peers, peerConnection, connected, connecting, loops, closeChan, eventChan, streamVars, disconnected>>

(* What a goroutine does once it is connected: Connect clears connecting,  *)
(* Process leaves it to the callbacks and goes on to its audio.            *)
ConnectReturns(u) ==
    IF u \in Callers
    THEN connecting' = FALSE /\ users' = [users EXCEPT ![u] = Free]
    ELSE UNCHANGED connecting /\ users' = [users EXCEPT ![u] = [at |-> "audio", mine |-> 0]]

(* A refused offer closes the peer connection and leaves the fields as     *)
(* they are.                                                               *)
ExchangeSDP(u) ==
    LET i == users[u].mine IN
    /\ users[u].at = "exchange"
    /\ \/ /\ peers[i].state = "new" /\ peers' = [peers EXCEPT ![i].state = "answered"]
          /\ loops < MaxLoops /\ loops' = loops + 1
          /\ ConnectReturns(u)
       \/ /\ peers' = ClosePeer(peers, i)
          /\ Step(u, "failed")
          /\ UNCHANGED <<loops, connecting>>
    /\ UNCHANGED <<peerConnection, audioTrack, connected, closeChan, eventChan, streamVars, disconnected>>

ConnectFails(u) ==
    /\ users[u].at = "failed"
    /\ connecting' = FALSE
    /\ users' = [users EXCEPT ![u] = Free]
    /\ UNCHANGED <<linkVars, connected, loops, closeChan, eventChan, streamVars, disconnected>>

-------------------------------------------------------------------------------
(* The peer connections, and their callbacks.                              *)

PeerChanges(i, from, to) ==
    /\ peers[i].state \in from
    /\ peers' = [peers EXCEPT ![i] = [state |-> to, reports |-> @.reports \cup {to}]]
    /\ UNCHANGED <<peerConnection, audioTrack, connected, connecting, users, loops, closeChan,
                   eventChan, streamVars, disconnected>>

PeerConnects(i) == PeerChanges(i, {"answered"}, "connected")
PeerFails(i) == PeerChanges(i, {"answered", "connected"}, "failed")

ReportConnected(i) ==
    /\ "connected" \in peers[i].reports
    /\ peers' = [peers EXCEPT ![i].reports = @ \ {"connected"}]
    /\ connected' = TRUE
    /\ UNCHANGED <<peerConnection, audioTrack, connecting, users, loops, closeChan, eventChan, streamVars, disconnected>>

(* handleDisconnection closes whatever peer connection the stage has.      *)
HandleDisconnection(ps) ==
    IF peerConnection = 0
    THEN peers' = ps /\ UNCHANGED <<peerConnection, audioTrack, connected, connecting>>
    ELSE /\ peers' = ClosePeer(ps, peerConnection)
         /\ peerConnection' = 0 /\ audioTrack' = 0
         /\ connected' = FALSE /\ connecting' = FALSE

ReportDown(i, state) ==
    /\ state \in peers[i].reports \cap {"failed", "closed"}
    /\ HandleDisconnection([peers EXCEPT ![i].reports = @ \ {state}])
    /\ UNCHANGED <<users, loops, closeChan, eventChan, streamVars, disconnected>>

-------------------------------------------------------------------------------
(* Disconnect: nothing to do unless connected; closeChan is closed once    *)
(* for the life of the stage.                                              *)

Disconnect(u) ==
    /\ u \in Callers /\ users[u] = Free
    /\ IF connected THEN Step(u, "closing") /\ UNCHANGED disconnected
       ELSE disconnected' = TRUE /\ UNCHANGED users
    /\ UNCHANGED <<linkVars, connected, connecting, loops, closeChan, eventChan, streamVars>>

SignalShutdown(u) ==
    /\ users[u].at = "closing"
    /\ closeChan' = TRUE
    /\ Step(u, "waiting")
    /\ UNCHANGED <<linkVars, connected, connecting, loops, eventChan, streamVars, disconnected>>

AwaitLoops(u) ==
    /\ users[u].at = "waiting" /\ loops = 0
    /\ Step(u, "cleanup")
    /\ UNCHANGED <<linkVars, connected, connecting, loops, closeChan, eventChan, streamVars, disconnected>>

CleanUp(u) ==
    /\ users[u].at = "cleanup"
    /\ HandleDisconnection(peers)
    /\ users' = [users EXCEPT ![u] = Free]
    /\ disconnected' = TRUE
    /\ UNCHANGED <<loops, closeChan, eventChan, streamVars>>

(* processEvents: an event taken from the channel is of no type that       *)
(* processRealtimeEvent does something about; with both ready either case  *)
(* of the select may be taken.                                             *)
LoopEnds ==
    /\ loops > 0 /\ closeChan
    /\ loops' = loops - 1
    /\ UNCHANGED <<linkVars, connected, connecting, users, closeChan, eventChan, streamVars, disconnected>>

ProcessRealtimeEvent ==
    /\ loops > 0 /\ eventChan > 0
    /\ eventChan' = eventChan - 1
    /\ UNCHANGED <<linkVars, connected, connecting, users, loops, closeChan, streamVars, disconnected>>

-------------------------------------------------------------------------------
(* Messages of the data channel, and the frames.                           *)

(* notifyTranscription overwrites the latest transcription.                *)
NotifyTranscription == latest' = messages'

(* A transcription, final or not, or an error is kept; a message of any    *)
(* other type is queued, and dropped when the queue is full.               *)
HandleDataChannelMessage(i) ==
    /\ peers[i].state = "connected"
    /\ \/ /\ messages < MaxMessages /\ messages' = messages + 1
          /\ NotifyTranscription
          /\ UNCHANGED eventChan
       \/ /\ eventChan < EventQueue /\ eventChan' = eventChan + 1
          /\ UNCHANGED <<messages, latest>>
    /\ UNCHANGED <<linkVars, connected, connecting, users, loops, closeChan,
                   sequenceNumber, included, nilTrack, disconnected>>

(* The track is looked at, then a number is taken under rts.mu ...         *)
TakeSequenceNumber(u) ==
    /\ users[u].at = "audio"
    /\ IF audioTrack # 0 /\ sequenceNumber < MaxFrames
       THEN sequenceNumber' = sequenceNumber + 1 /\ Step(u, "write")
       ELSE UNCHANGED sequenceNumber /\ Step(u, "output")
    /\ UNCHANGED <<linkVars, connected, connecting, loops, closeChan, eventChan,
                   messages, latest, included, nilTrack, disconnected>>

(* ... and the track is used: a disconnection in between made it nil.      *)
WriteRTP(u) ==
    /\ users[u].at = "write"
    /\ nilTrack' = (audioTrack = 0)
    /\ Step(u, "output")
    /\ UNCHANGED <<linkVars, connected, connecting, loops, closeChan, eventChan,
                   sequenceNumber, messages, latest, included, disconnected>>

\* Mutation of IncludeLatest: the latest transcription is not cleared.
IncludeLatestKept(u) ==
    /\ users[u].at = "output"
    /\ included' = IF latest = 0 THEN included ELSE Append(included, latest)
    /\ users' = [users EXCEPT ![u] = Free]
    /\ UNCHANGED <<linkVars, connected, connecting, loops, closeChan, eventChan, latest,
                   sequenceNumber, messages, nilTrack, disconnected>>

IncludeLatest(u) ==
    /\ users[u].at = "output"
    /\ included' = IF latest = 0 THEN included ELSE Append(included, latest)
    /\ latest' = 0
    /\ users' = [users EXCEPT ![u] = Free]
    /\ UNCHANGED <<linkVars, connected, connecting, loops, closeChan, eventChan,
                   sequenceNumber, messages, nilTrack, disconnected>>

TranscriptionNext ==
    /\ ~nilTrack
    /\ \/ \E u \in Users : \/ ProcessFrame(u) \/ Connect(u) \/ GetEphemeralKey(u) \/ MakePeer(u)
                           \/ MakeTrack(u) \/ ExchangeSDP(u) \/ ConnectFails(u)
                           \/ Disconnect(u) \/ SignalShutdown(u) \/ AwaitLoops(u) \/ CleanUp(u)
                           \/ TakeSequenceNumber(u) \/ WriteRTP(u) \/ IncludeLatest(u)
       \/ \E i \in 1..Len(peers) : \/ PeerConnects(i) \/ PeerFails(i) \/ ReportConnected(i)
                                   \/ ReportDown(i, "failed") \/ ReportDown(i, "closed")
                                   \/ HandleDataChannelMessage(i)
       \/ LoopEnds \/ ProcessRealtimeEvent

TranscriptionSpec == TranscriptionInit /\ [][TranscriptionNext]_rtsVars

-------------------------------------------------------------------------------
(* "Clear after including in output to avoid duplicate sends": a           *)
(* transcription is put into one frame's metadata at most, and in the      *)
(* order they came, whichever tracks' frames take them.                    *)
IncludedOnce ==
    \A j \in 1..(Len(included) - 1) : included[j] < included[j + 1]

(* "Disconnect closes the connection to the Realtime API", media_pipeline_ *)
(* realtime_transcription.go:1102.  The code leaves a Disconnect that      *)
(* finds the connection still being set up without doing anything, and it  *)
(* comes up later.                                                         *)
DisconnectCloses ==
    (disconnected /\ \A u \in Users : users[u] = Free)
        => \A i \in 1..Len(peers) : peers[i].state \in {"failed", "closed"}
===============================================================================
