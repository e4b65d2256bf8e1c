--------------------------- MODULE PlaybackControl ---------------------------
(***************************************************************************)
(* Who moves the shared soundtrack, and what every rider knows of it: the    *)
(* playback handlers of apps/api/lib/realtime.js against the clients of      *)
(* apps/web/app.js, over sockets that keep order, break and come back.       *)
(*                                                                          *)
(* A client writes with the epoch of the state it last saw; the server       *)
(* takes the command only if nothing has changed since.  When a socket       *)
(* breaks, the commands already sent on it may still reach the server        *)
(* (`leftover'), while what was on its way to the client is ignored.             *)
(***************************************************************************)
EXTENDS Playback, Sequences

CONSTANTS
    Listeners,      \* members without the right to control playback
    ChannelCap,     \* messages in flight on a socket, each way
    MaxCommands,    \* commands sent in a behaviour
    MaxClock        \* last instant of the server's clock

Clients == Controllers \cup Listeners
NoPlayback == [epoch |-> -1]

ASSUME ControlAssumption ==
    ChannelCap \in Nat /\ MaxCommands \in Nat /\ MaxClock \in Nat

VARIABLES
    clock,      \* the server's clock
    playback,   \* state.playback
    line,       \* "down", "up" or, after auth.ok, "ready"
    seen,       \* realtime.playback of each client
    out,        \* commands on the current socket of each client
    leftover,   \* commands left on the socket before
    inbox,      \* what the server has sent on the current socket
    sent        \* commands sent so far

controlVars == <<clock, playback, line, seen, out, leftover, inbox, sent>>

\* What a client has sent: basis is the state its sender saw, which no code reads.
Orders == [cmd : Command, basis : PlaybackState \cup {NoPlayback}]
Sends == [type : {"auth.ok"}] \cup [type : {"playback"}, playback : PlaybackState]

ControlTypeOK ==
    /\ clock \in 0 .. MaxClock
    /\ playback \in PlaybackState
    /\ line \in [Clients -> {"down", "up", "ready"}]
    /\ seen \in [Clients -> PlaybackState \cup {NoPlayback}]
    /\ out \in [Clients -> Seq(Orders)] /\ leftover \in [Clients -> Seq(Orders)]
    /\ inbox \in [Clients -> Seq(Sends)]
    /\ sent \in 0 .. MaxCommands

ControlInit ==
    /\ clock = 0
    /\ playback = CreatePlaybackState(0)
    /\ line = [c \in Clients |-> "down"]
    /\ seen = [c \in Clients |-> NoPlayback]
    /\ out = [c \in Clients |-> <<>>]
    /\ leftover = [c \in Clients |-> <<>>]
    /\ inbox = [c \in Clients |-> <<>>]
    /\ sent = 0

State(p) == [type |-> "playback", playback |-> p]

\* A broadcast needs room on every open socket; sockets that are down are not
\* registered.
HasRoom == \A c \in Clients : line[c] # "down" => Len(inbox[c]) < ChannelCap
AnnouncedToNobody(p) == inbox
Announced(p) == [c \in Clients |-> IF line[c] = "down" THEN inbox[c]
                              ELSE Append(inbox[c], State(p))]

-----------------------------------------------------------------------------
(* Clients *)

\* The client's socket opens and authenticates: auth.ok, then the snapshot.
Connect(c) ==
    /\ line[c] = "down"
    /\ line' = [line EXCEPT ![c] = "up"]
    /\ inbox' = [inbox EXCEPT ![c] = <<[type |-> "auth.ok"], State(playback)>>]
    /\ UNCHANGED <<clock, playback, seen, out, leftover, sent>>

\* The socket breaks: a prefix of what was sent still reaches the server.
Break(c) ==
    /\ line[c] # "down"
    /\ leftover[c] = <<>>
    /\ \E n \in 0 .. Len(out[c]) : leftover' = [leftover EXCEPT ![c] = SubSeq(out[c], 1, n)]
    /\ out' = [out EXCEPT ![c] = <<>>]
    /\ inbox' = [inbox EXCEPT ![c] = <<>>]
    /\ line' = [line EXCEPT ![c] = "down"]
    /\ UNCHANGED <<clock, playback, seen, sent>>

\* The message handler of the current socket.
Receive(c) ==
    /\ inbox[c] # <<>>
    /\ inbox' = [inbox EXCEPT ![c] = Tail(@)]
    /\ LET e == Head(inbox[c]) IN
       \/ /\ e.type = "auth.ok"
          /\ line' = [line EXCEPT ![c] = "ready"]
          /\ UNCHANGED seen
       \/ /\ e.type = "playback"
          /\ seen' = [seen EXCEPT ![c] = e.playback]
          /\ UNCHANGED line
    /\ UNCHANGED <<clock, playback, out, leftover, sent>>

\* sendPlayback(): the epoch on view, or 0 while the client has seen none.
SendPlayback(c, type, trackId, pos, autoplay) ==
    /\ line[c] = "ready"
    /\ sent < MaxCommands
    /\ Len(out[c]) < ChannelCap
    /\ sent' = sent + 1
    /\ out' = [out EXCEPT ![c] = Append(@,
          [cmd |-> [type |-> type, trackId |-> trackId, positionMs |-> pos,
                    autoplay |-> autoplay,
                    expectedEpoch |-> IF seen[c] = NoPlayback THEN 0 ELSE seen[c].epoch],
           basis |-> seen[c]])]
    /\ UNCHANGED <<clock, playback, line, seen, leftover, inbox>>

\* The controls, shown to controllers and enabled by the state on view; a
\* select also stands for a client that does not hide its controls.
Showing(c) == c \in Controllers /\ seen[c] # NoPlayback /\ seen[c].trackId # NoTrack

PressSelect(c, t) ==
    SendPlayback(c, "playback.select", t, 0, TRUE)
PressPlay(c) ==
    /\ Showing(c) /\ seen[c].status # "playing"
    /\ SendPlayback(c, "playback.play", NoTrack, NoPosition, FALSE)
PressPause(c) ==
    /\ Showing(c) /\ seen[c].status = "playing"
    /\ SendPlayback(c, "playback.pause", NoTrack, NoPosition, FALSE)
\* Ten seconds back or forward from the projected position: one unit here.
PressSeek(c, by) ==
    /\ Showing(c)
    /\ SendPlayback(c, "playback.seek", NoTrack,
                    AtLeastZero(PlaybackTargetMs(seen[c], clock) + by), FALSE)
PressClear(c) ==
    /\ Showing(c)
    /\ SendPlayback(c, "playback.clear", NoTrack, NoPosition, FALSE)

-----------------------------------------------------------------------------
(* The server *)

\* canControlPlayback and applyPlaybackCommand, for the first command on one
\* of the client's sockets; acknowledged by the broadcast of the new state.
Take(c, queue) ==
    /\ queue[c] # <<>>
    /\ c \in Controllers
    /\ Accepted(playback, Head(queue[c]).cmd)
    /\ HasRoom
    /\ playback' = ApplyPlaybackCommand(playback, Head(queue[c]).cmd, c, clock)
    /\ inbox' = Announced(playback')

\* playback.error carries the current state back, if the socket still stands;
\* to a client without the right to control playback it carries none.
Reject(c, queue, onCurrent) ==
    /\ queue[c] # <<>>
    /\ c \notin Controllers \/ ~Accepted(playback, Head(queue[c]).cmd)
    /\ HasRoom
    /\ inbox' = IF onCurrent /\ c \in Controllers
                THEN [inbox EXCEPT ![c] = Append(@, State(playback))] ELSE inbox
    /\ UNCHANGED playback

PlaybackCommand(c) ==
    /\ Take(c, out) \/ Reject(c, out, TRUE)
    /\ out' = [out EXCEPT ![c] = Tail(@)]
    /\ UNCHANGED <<clock, line, seen, leftover, sent>>

LateCommand(c) ==
    /\ Take(c, leftover) \/ Reject(c, leftover, FALSE)
    /\ leftover' = [leftover EXCEPT ![c] = Tail(@)]
    /\ UNCHANGED <<clock, line, seen, out, sent>>

\* #playbackSync: a hint that repeats the state while something plays.
PlaybackSync ==
    /\ playback.trackId # NoTrack
    /\ playback.status = "playing"
    /\ HasRoom
    /\ \E c \in Clients : line[c] # "down"
    /\ inbox' = Announced(playback)
    /\ UNCHANGED <<clock, playback, line, seen, out, leftover, sent>>

Tick ==
    /\ clock < MaxClock
    /\ clock' = clock + 1
    /\ UNCHANGED <<playback, line, seen, out, leftover, inbox, sent>>

Press(c) ==
    \/ \E t \in Tracks : PressSelect(c, t)
    \/ PressPlay(c) \/ PressPause(c) \/ PressClear(c)
    \/ \E by \in {-1, 1} : PressSeek(c, by)

ControlNext ==
    \/ \E c \in Clients :
          \/ Connect(c) \/ Break(c) \/ Receive(c) \/ Press(c)
          \/ PlaybackCommand(c) \/ LateCommand(c)
    \/ PlaybackSync
    \/ Tick

ControlSpec == ControlInit /\ [][ControlNext]_controlVars

-----------------------------------------------------------------------------
(* Properties *)

InFlight(c) == {inbox[c][i].playback : i \in {j \in DOMAIN inbox[c] : inbox[c][j].type = "playback"}}
Known(c) == InFlight(c) \cup ({seen[c]} \ {NoPlayback})

\* The epoch alone identifies a state: whatever a client has seen or will
\* receive with the server's epoch is the server's state, field by field, and
\* nothing is newer.  checkEpoch compares nothing else.
EpochIdentifiesState ==
    \A c \in Clients : \A p \in Known(c) :
        p.epoch <= playback.epoch /\ (p.epoch = playback.epoch => p = playback)

\* A write takes effect only over the very state its sender was looking at,
\* also when it was left over on a broken socket ("Playback epochs reject stale
\* controller writes"); a sender that has seen nothing stands at the idle state.
NoBlindWrite ==
    [][playback' # playback => \E c \in Controllers, q \in {out, leftover} :
          /\ q[c] # <<>>
          /\ \/ Head(q[c]).basis = playback
             \/ Head(q[c]).basis = NoPlayback /\ playback.epoch = 0]_controlVars

\* A client with nothing left to receive shows the room's state.
CaughtUp ==
    \A c \in Clients : line[c] = "ready" /\ inbox[c] = <<>> => seen[c] = playback

\* Play, pause and the periodic hint leave the music where it is: only a
\* select, a seek or a clear moves the position every listener projects.
NoJump ==
    [][/\ playback'.trackId = playback.trackId
       /\ playback'.epoch > playback.epoch
       /\ \A c \in Controllers : \A q \in {out, leftover} :
             q[c] # <<>> => Head(q[c]).cmd.positionMs = NoPosition
       => EffectivePositionMs(playback', clock) = EffectivePositionMs(playback, clock)]_controlVars

=============================================================================
