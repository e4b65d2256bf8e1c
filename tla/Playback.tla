------------------------------- MODULE Playback -------------------------------
(***************************************************************************)
(* The shared soundtrack as a value: apps/api/lib/playback.js, and the      *)
(* projection a listener makes of it (apps/web/sync-core.js; Android's       *)
(* PlaybackSync.kt computes the same).  Times and positions are whole        *)
(* units; a command carries what the code reads from a message.             *)
(***************************************************************************)
EXTENDS Integers

CONSTANTS
    Tracks,         \* track ids that cleanTrackId accepts
    Controllers,    \* members that may issue commands
    MaxPosition     \* MAX_POSITION_MS

NoTrack == "no track"
\* null in a message; a negative position or epoch is never valid.
NoPosition == -1
NoEpoch == -1
NoUpdater == "nobody"

ASSUME PlaybackAssumption == /\ MaxPosition \in Nat
                             /\ NoTrack \notin Tracks
                             /\ NoUpdater \notin Controllers

Statuses == {"idle", "paused", "playing"}

PlaybackState ==
    [trackId : Tracks \cup {NoTrack}, status : Statuses, positionMs : Nat,
     anchorServerMs : Nat, epoch : Nat, updatedBy : Controllers \cup {NoUpdater}]

CommandTypes ==
    {"playback.select", "playback.play", "playback.pause", "playback.seek",
     "playback.clear"}

\* A message as the handler reads it.
Command ==
    [type : CommandTypes, trackId : Tracks \cup {NoTrack},
     positionMs : Nat \cup {NoPosition}, autoplay : BOOLEAN,
     expectedEpoch : Nat \cup {NoEpoch}]

CreatePlaybackState(now) ==
    [trackId |-> NoTrack, status |-> "idle", positionMs |-> 0,
     anchorServerMs |-> now, epoch |-> 0, updatedBy |-> NoUpdater]

AtLeastZero(n) == IF n < 0 THEN 0 ELSE n

EffectivePositionMs(s, now) ==
    IF s.trackId = NoTrack THEN 0
    ELSE IF s.status # "playing" THEN s.positionMs
    ELSE s.positionMs + AtLeastZero(now - s.anchorServerMs)

\* The listener's projection of a state it was sent, at its estimate of the
\* server's clock.
PlaybackTargetMs(s, serverNow) == EffectivePositionMs(s, serverNow)

ValidPosition(p) == p \in 0 .. MaxPosition

\* checkEpoch().
EpochUnchecked(s, msg) == TRUE
EpochMatches(s, msg) == msg.expectedEpoch = NoEpoch \/ msg.expectedEpoch = s.epoch

\* checkEpoch, requireTrack, cleanTrackId and position: any of them throws.
\* A seek has to carry a position, the other commands may leave it out.
Accepted(s, msg) ==
    /\ EpochMatches(s, msg)
    /\ msg.type = "playback.select" => msg.trackId \in Tracks
    /\ msg.type \in {"playback.play", "playback.pause", "playback.seek"} =>
           s.trackId # NoTrack
    /\ \/ msg.type = "playback.clear"
       \/ msg.positionMs = NoPosition /\ msg.type # "playback.seek"
       \/ msg.positionMs # NoPosition /\ ValidPosition(msg.positionMs)

PositionAsSent(s, msg, now) == msg.positionMs
PositionAsStored(s, msg, now) ==
    IF msg.positionMs # NoPosition THEN msg.positionMs ELSE s.positionMs
PositionAfter(s, msg, now) ==
    IF msg.type = "playback.clear" THEN 0
    ELSE IF msg.positionMs # NoPosition THEN msg.positionMs
    ELSE IF msg.type = "playback.select" THEN 0
    ELSE EffectivePositionMs(s, now)

StatusAfter(s, msg) ==
    CASE msg.type = "playback.select" -> IF msg.autoplay THEN "playing" ELSE "paused"
      [] msg.type = "playback.play" -> "playing"
      [] msg.type = "playback.pause" -> "paused"
      [] msg.type = "playback.seek" -> IF s.status = "idle" THEN "paused" ELSE s.status
      [] msg.type = "playback.clear" -> "idle"

TrackAfter(s, msg) ==
    CASE msg.type = "playback.select" -> msg.trackId
      [] msg.type = "playback.clear" -> NoTrack
      [] OTHER -> s.trackId

EpochUnlessSeek(s, msg) ==
    IF msg.type = "playback.seek" THEN s.epoch ELSE s.epoch + 1
EpochAfter(s, msg) == s.epoch + 1

\* applyPlaybackCommand() for a command that is not rejected.
ApplyPlaybackCommand(s, msg, memberId, now) ==
    [trackId |-> TrackAfter(s, msg), status |-> StatusAfter(s, msg),
     positionMs |-> PositionAfter(s, msg, now), anchorServerMs |-> now,
     epoch |-> EpochAfter(s, msg), updatedBy |-> memberId]

=============================================================================
