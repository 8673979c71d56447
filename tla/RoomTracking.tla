------------------------------ MODULE RoomTracking ------------------------------
(***************************************************************************)
(* What UniversalWorker keeps of the rooms it is in: the participants, the *)
(* target participant and the subscribed tracks.  The callbacks of a room  *)
(* come one after the other from the room SDK; callers of the worker       *)
(* subscribe and unsubscribe, and talk to the SDK outside w.mu.            *)
(*                                                                         *)
(* The records are keyed by identity and by publication, whatever the      *)
(* room.  Dimensions and frame rates stay in the record, and of a quality  *)
(* and of being enabled the SDK is told after the lock was given up.       *)
(***************************************************************************)
EXTENDS Naturals, Sequences

CONSTANTS
    TrackedRooms,   \* rooms the worker is in
    People,         \* identities of remote participants
    Targets,        \* identities of which a job of type PARTICIPANT names one
    NoTarget,
    Publications,   \* SIDs of publications
    Subscribers,    \* goroutines that call the worker
    VideoQualities, \* what SetTrackQuality may be called with
    High,           \* the quality of a new record
    NoRoomKnown,
    MaxCallbacks    \* bound on the callbacks of a publication that wait

ASSUME TrackingAssumption == Targets \subseteq People /\ NoTarget \notin People /\ MaxCallbacks \in Nat
                             /\ High \in VideoQualities /\ NoRoomKnown \notin TrackedRooms

VARIABLES
    present,        \* the participants the SDK has announced in each room
    known,          \* the identities in w.participants
    knownIn,        \* the room each of these was recorded for
    sender,         \* the room of the last data packet without a sender, and of the one found
    target,         \* w.targetParticipant
    shared,         \* identities that were in two rooms at once
    wanted,         \* what SetSubscribed was last called with
    delivered,      \* whether the SDK delivers a publication's track
    callbacks,      \* callbacks of a publication that have not run yet
    record,         \* w.subscribedTracks: no record, or one without or with its Track
    preferred,      \* PreferredQuality of each record
    shaped,         \* whether a record holds Dimensions or a FrameRate
    asked,          \* the quality the SDK was asked for, of each publication
    enabled,        \* what SetEnabled was last called with
    fresh,          \* publications whose record was made after the last quality was asked for
    calling         \* what each caller is doing with which publication

peopleVars == <<present, known, knownIn, sender, target, shared>>
settingVars == <<preferred, shaped, asked, enabled, fresh>>
trackVars == <<wanted, delivered, callbacks, record, calling, settingVars>>
trackingVars == <<peopleVars, trackVars>>

Record == {"none", "bare", "full"}

Idle == [doing |-> "nothing"]

TrackingTypeOK ==
    /\ present \in [TrackedRooms -> SUBSET People]
    /\ known \subseteq People
    /\ knownIn \in [People -> TrackedRooms \cup {NoRoomKnown}]
    /\ sender \in [identity : People \cup {NoTarget},
                  room : TrackedRooms \cup {NoRoomKnown}, found : TrackedRooms \cup {NoRoomKnown}]
    /\ target \in Targets \cup {NoTarget}
    /\ shared \subseteq People
    /\ wanted \in [Publications -> BOOLEAN]
    /\ delivered \in [Publications -> BOOLEAN]
    /\ callbacks \in [Publications -> Seq({"subscribed", "unsubscribed"})]
    /\ record \in [Publications -> Record]
    /\ calling \in [Subscribers ->
            {Idle} \cup [doing : {"record", "delete"}, pub : Publications]
                   \cup [doing : {"quality"}, pub : Publications, quality : VideoQualities]
                   \cup [doing : {"enable"}, pub : Publications, on : BOOLEAN]]
    /\ preferred \in [Publications -> VideoQualities]
    /\ shaped \in [Publications -> BOOLEAN]
    /\ asked \in [Publications -> VideoQualities]
    /\ enabled \in [Publications -> BOOLEAN]
    /\ fresh \subseteq Publications

TrackingInit ==
    /\ present = [r \in TrackedRooms |-> {}]
    /\ known = {}
    /\ knownIn = [i \in People |-> NoRoomKnown]
    /\ sender = [identity |-> NoTarget, room |-> NoRoomKnown, found |-> NoRoomKnown]
    /\ target = NoTarget
    /\ shared = {}
    /\ wanted \in [Publications -> BOOLEAN]
    /\ delivered = [p \in Publications |-> FALSE]
    /\ callbacks = [p \in Publications |-> <<>>]
    /\ record = [p \in Publications |-> "none"]
    /\ preferred = [p \in Publications |-> High]
    /\ shaped = [p \in Publications |-> FALSE]
    /\ asked = [p \in Publications |-> High]
    /\ enabled = [p \in Publications |-> TRUE]
    /\ fresh = {}
    /\ calling = [s \in Subscribers |-> Idle]

-------------------------------------------------------------------------------
(* Participants: callbacks of the rooms.                                     *)

Elsewhere(r, i) == \E o \in TrackedRooms \ {r} : i \in present[o]

OnParticipantConnected(r, i) ==
    /\ i \notin present[r]
    /\ present' = [present EXCEPT ![r] = @ \cup {i}]
    /\ known' = known \cup {i}
    /\ knownIn' = [knownIn EXCEPT ![i] = r]
    /\ target' = IF i \in Targets THEN i ELSE target
    /\ shared' = IF Elsewhere(r, i) THEN shared \cup {i} ELSE shared
    /\ UNCHANGED <<sender, trackVars>>

\* Mutation of OnParticipantDisconnected: the target is forgotten whoever leaves.
OnAnyoneDisconnected(r, i) ==
    /\ i \in present[r]
    /\ present' = [present EXCEPT ![r] = @ \ {i}]
    /\ known' = known \ {i}
    /\ knownIn' = [knownIn EXCEPT ![i] = NoRoomKnown]
    /\ target' = NoTarget
    /\ UNCHANGED <<sender, shared, trackVars>>

OnParticipantDisconnected(r, i) ==
    /\ i \in present[r]
    /\ present' = [present EXCEPT ![r] = @ \ {i}]
    /\ known' = known \ {i}
    /\ knownIn' = [knownIn EXCEPT ![i] = NoRoomKnown]
    /\ target' = IF target = i THEN NoTarget ELSE target
    /\ UNCHANGED <<sender, shared, trackVars>>

\* A data packet that names its sender by identity only: the sender is looked up in the
\* records, and there may be none by now.
OnDataPacket(r, i) ==
    /\ sender' = [identity |-> i, room |-> r, found |-> knownIn[i]]
    /\ UNCHANGED <<present, known, knownIn, target, shared, trackVars>>

\* The SDK hands on the packets of participants it has announced.
DataArrives == \E r \in TrackedRooms : \E i \in present[r] : OnDataPacket(r, i)

-------------------------------------------------------------------------------
(* Tracks: the SDK and its callbacks.                                        *)

\* The SDK follows what is wanted and announces it.
SdkFollows(p) ==
    /\ delivered[p] # wanted[p]
    /\ Len(callbacks[p]) < MaxCallbacks
    /\ delivered' = [delivered EXCEPT ![p] = wanted[p]]
    /\ callbacks' = [callbacks EXCEPT ![p] =
            Append(@, IF wanted[p] THEN "subscribed" ELSE "unsubscribed")]
    /\ UNCHANGED <<peopleVars, wanted, record, calling, settingVars>>

\* A record starts with the quality HIGH, whatever the SDK was asked for.
NewRecord(p, kind) ==
    /\ record' = [record EXCEPT ![p] = kind]
    /\ preferred' = [preferred EXCEPT ![p] = High]
    /\ shaped' = [shaped EXCEPT ![p] = FALSE]
    /\ fresh' = fresh \cup {p}
    /\ UNCHANGED <<asked, enabled>>

DeleteRecord(p) ==
    /\ record' = [record EXCEPT ![p] = "none"]
    /\ preferred' = [preferred EXCEPT ![p] = High]
    /\ shaped' = [shaped EXCEPT ![p] = FALSE]
    /\ UNCHANGED <<asked, enabled, fresh>>

OnTrackSubscribed(p) ==
    /\ callbacks[p] # <<>> /\ Head(callbacks[p]) = "subscribed"
    /\ callbacks' = [callbacks EXCEPT ![p] = Tail(@)]
    /\ NewRecord(p, "full")
    /\ UNCHANGED <<peopleVars, wanted, delivered, calling>>

OnTrackUnsubscribed(p) ==
    /\ callbacks[p] # <<>> /\ Head(callbacks[p]) = "unsubscribed"
    /\ callbacks' = [callbacks EXCEPT ![p] = Tail(@)]
    /\ DeleteRecord(p)
    /\ UNCHANGED <<peopleVars, wanted, delivered, calling>>

-------------------------------------------------------------------------------
(* Tracks: the callers.  They reach the SDK first and the records after.     *)

Ask(s, p, want, doing) ==
    /\ calling[s] = Idle
    /\ wanted' = [wanted EXCEPT ![p] = want]
    /\ calling' = [calling EXCEPT ![s] = [doing |-> doing, pub |-> p]]
    /\ UNCHANGED <<peopleVars, delivered, callbacks, record, settingVars>>

SubscribeToTrack(s, p) == Ask(s, p, TRUE, "record")
UnsubscribeFromTrack(s, p) == Ask(s, p, FALSE, "delete")

\* Mutation of Recorded: the record is not deleted.
RecordedOnly(s) ==
    /\ calling[s].doing \in {"record", "delete"}
    /\ IF calling[s].doing = "record"
       THEN NewRecord(calling[s].pub, "bare") ELSE UNCHANGED <<record, settingVars>>
    /\ calling' = [calling EXCEPT ![s] = Idle]
    /\ UNCHANGED <<peopleVars, wanted, delivered, callbacks>>

\* The record SubscribeToTrack makes replaces one with a Track.
Recorded(s) ==
    /\ \/ calling[s].doing = "record" /\ NewRecord(calling[s].pub, "bare")
       \/ calling[s].doing = "delete" /\ DeleteRecord(calling[s].pub)
    /\ calling' = [calling EXCEPT ![s] = Idle]
    /\ UNCHANGED <<peopleVars, wanted, delivered, callbacks>>

\* UnsubscribeTrack() does both under the lock, for a publication with a record.
UnsubscribeTrack(s, p) ==
    /\ calling[s] = Idle
    /\ record[p] # "none"
    /\ wanted' = [wanted EXCEPT ![p] = FALSE]
    /\ DeleteRecord(p)
    /\ UNCHANGED <<peopleVars, delivered, callbacks, calling>>

-------------------------------------------------------------------------------
(* Tracks: settings of a publication with a record.  The record is set under the lock, and *)
(* the SDK is told what was asked for, or only found here, after it.                       *)

SetTrackQuality(s, p, q) ==
    /\ calling[s] = Idle
    /\ record[p] # "none"
    /\ preferred' = [preferred EXCEPT ![p] = q]
    /\ calling' = [calling EXCEPT ![s] = [doing |-> "quality", pub |-> p, quality |-> q]]
    /\ fresh' = fresh \ {p}
    /\ UNCHANGED <<peopleVars, wanted, delivered, callbacks, record, shaped, asked, enabled>>

EnableTrack(s, p, on) ==
    /\ calling[s] = Idle
    /\ record[p] # "none"
    /\ calling' = [calling EXCEPT ![s] = [doing |-> "enable", pub |-> p, on |-> on]]
    /\ UNCHANGED <<peopleVars, wanted, delivered, callbacks, record, settingVars>>

\* SetTrackDimensions() and SetTrackFrameRate() end with the record.
SetTrackShape(s, p) ==
    /\ calling[s] = Idle
    /\ record[p] # "none"
    /\ shaped' = [shaped EXCEPT ![p] = TRUE]
    /\ UNCHANGED <<peopleVars, wanted, delivered, callbacks, record, calling,
                   preferred, asked, enabled, fresh>>

TellSdk(s) ==
    /\ \/ /\ calling[s].doing = "quality"
          /\ asked' = [asked EXCEPT ![calling[s].pub] = calling[s].quality]
          /\ UNCHANGED enabled
       \/ /\ calling[s].doing = "enable"
          /\ enabled' = [enabled EXCEPT ![calling[s].pub] = calling[s].on]
          /\ UNCHANGED asked
    /\ calling' = [calling EXCEPT ![s] = Idle]
    /\ UNCHANGED <<peopleVars, wanted, delivered, callbacks, record, preferred, shaped, fresh>>

\* GetSubscribedTracks() and GetTrackPublication(); GetTrackStats() of one of these.  No
\* call sets Enabled in a record, so that every track is said to be disabled.
GetSubscribedTracks == {p \in Publications : record[p] # "none"}
GetTrackStats(p) == [quality |-> High, shaped |-> shaped[p], enabled |-> FALSE]

-------------------------------------------------------------------------------
PeopleNext ==
    \/ \E r \in TrackedRooms, i \in People :
        OnParticipantConnected(r, i) \/ OnParticipantDisconnected(r, i)
    \/ DataArrives

TracksNext ==
    \/ \E p \in Publications :
        SdkFollows(p) \/ OnTrackSubscribed(p) \/ OnTrackUnsubscribed(p)
    \/ \E s \in Subscribers, p \in Publications :
        SubscribeToTrack(s, p) \/ UnsubscribeFromTrack(s, p) \/ UnsubscribeTrack(s, p)
        \/ \E q \in VideoQualities : SetTrackQuality(s, p, q)
        \/ \E on \in BOOLEAN : EnableTrack(s, p, on)
        \/ SetTrackShape(s, p)
    \/ \E s \in Subscribers : Recorded(s) \/ TellSdk(s)

TrackingNext == PeopleNext \/ TracksNext

TrackingSpec == TrackingInit /\ [][TrackingNext]_trackingVars

-------------------------------------------------------------------------------
(* Properties.                                                               *)

\* Everyone who is in a room is known, unless the identity was in two rooms at once, whose
\* records are one; and the target that is gone from all rooms is no target.
PresentAreKnown ==
    /\ \A i \in People \ shared : i \in known <=> \E r \in TrackedRooms : i \in present[r]
    /\ target # NoTarget => target \in known \cup shared
    /\ \A i \in Targets \ shared : i \in known /\ Targets = {i} => target = i

\* A packet is said to come from the sender in its own room, unless the identity was in two.
SenderInItsRoom ==
    sender.identity # NoTarget /\ sender.identity \notin shared => sender.found = sender.room

\* With a single caller the records and the SDK agree once callbacks and calls have
\* finished, in whatever order they came: a track is recorded exactly if it is delivered.
RecordsAgreeAtRest ==
    \A p \in Publications :
        delivered[p] = wanted[p] /\ callbacks[p] = <<>> /\ (\A s \in Subscribers : calling[s] = Idle)
            => (record[p] # "none" <=> delivered[p])

\* With a single caller, a record has the quality the SDK was asked for, or it was made
\* anew since: then it says HIGH, whatever the SDK still delivers.
QualityAskedFor ==
    \A p \in GetSubscribedTracks :
        \/ p \in fresh /\ preferred[p] = High
        \/ preferred[p] = asked[p]
        \/ \E s \in Subscribers : calling[s] # Idle
===============================================================================
