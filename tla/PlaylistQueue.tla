---------------------------- MODULE PlaylistQueue ----------------------------
(***************************************************************************)
(* A playlist played in the Ryde: the queue of apps/web/library-ui.js on the *)
(* page of one host, the transport of apps/web/dashboard.js on the same      *)
(* page, the shared soundtrack they drive through the buttons of             *)
(* apps/web/app.js, and the media element whose end of track moves the queue *)
(* on.  PlaybackControl has all the commands and every client; here the      *)
(* other controllers are one action.                                         *)
(*                                                                          *)
(* The room goes on "playing" after a track has ended: the engine of         *)
(* apps/web/audio-engine.js applies that state every two seconds and every   *)
(* play() of an element at its end starts it over, to end again.             *)
(*                                                                          *)
(* A state is shown as it comes; it reaches the element after a media grant, *)
(* which may be a request, and until then the old track plays on.  Whether   *)
(* the page still has a grant that is good for the track is left open.  What *)
(* apply() does in steps of its own, and a play() that is rejected, are the  *)
(* subject of Listening.                                                     *)
(***************************************************************************)
EXTENDS Integers, Sequences, FiniteSets

CONSTANTS
    Songs,          \* playable tracks of the playlist, in its order
    MaxTaps,        \* what the host taps in an instance
    MaxUpsets,      \* commands of other controllers, sockets that break and grants
                    \* that are refused in an instance, together
    MaxCalls        \* calls that wait for a grant at a time

Silence == "no song"

ASSUME QueueAssumption == Songs \in Seq(STRING \ {Silence}) /\ MaxTaps \in Nat

VARIABLES
    shared,         \* the playback the server holds
    shown,          \* realtime.playback of the host's page
    orders,         \* commands on their way to the server
    notices,        \* states on their way to the page
    wired,          \* the page's socket is open and authenticated
    armed,          \* the page listens
    element,        \* the media element: its track and the select that it is
                    \* at, and the one whose ended event is due (0: none)
    calls,          \* calls that wait for their media grant
    queue,          \* state.queue: its index, 0 while it is not active
    taps, upsets    \* what has happened of what is bounded

queueVars ==
    <<shared, shown, orders, notices, wired, armed, element, calls, queue,
      taps, upsets>>

\* take: the epoch of the last select, which restarts the position.
PlaybackOf(track, status, epoch, take) ==
    [track |-> track, status |-> status, epoch |-> epoch, take |-> take]

SongAt(i) == Songs[i]

Unloaded == [src |-> Silence, take |-> 0, sound |-> "off", ended |-> 0]

\* A call that waits for its grant with the playback it will apply.  The listen
\* button asks for a grant first, and then calls with what is shown by then.
Call(p, button) == [state |-> p, button |-> button]
FromButton == Call(PlaybackOf(Silence, "idle", 0, 0), TRUE)

QueueInit ==
    /\ shared = PlaybackOf(Silence, "idle", 0, 0)
    /\ shown = shared
    /\ orders = <<>> /\ notices = <<>>
    /\ wired = TRUE
    /\ armed = FALSE
    /\ element = Unloaded
    /\ calls = {}
    /\ queue = 0
    /\ taps = 0 /\ upsets = 0

-----------------------------------------------------------------------------
(* The media element and the engine *)

\* apply(): a clear and a new track unload the element, which forgets an event
\* that is due; the same track is moved to its position and played, or paused.
\* An element that is at its end starts over.
Sounding(p) == IF p.status = "playing" THEN "on" ELSE "off"
Loaded(p) == [src |-> p.track, take |-> p.take, sound |-> Sounding(p), ended |-> 0]
SettledOnce(e, p, on) ==
    CASE p.track = Silence -> Unloaded
      [] p.track # Silence /\ (~on \/ (e.sound = "over" /\ p.track = e.src)) -> e
      [] p.track # Silence /\ on /\ p.track = e.src ->
             [e EXCEPT !.take = p.take, !.sound = Sounding(p)]
      [] OTHER -> Loaded(p)
Settled(e, p, on) ==
    CASE p.track = Silence -> Unloaded
      [] p.track # Silence /\ ~on -> e
      [] p.track # Silence /\ on /\ p.track = e.src ->
             [e EXCEPT !.take = p.take, !.sound = Sounding(p)]
      [] OTHER -> Loaded(p)

\* A request for a grant: not for a page that is silent or a room that is.
Waits(c, p, on) ==
    /\ on /\ p.track # Silence /\ Cardinality(calls) < MaxCalls
    /\ calls' = calls \cup {c}

\* applyPlaybackToAudio(): at once, or after a grant.
Apply(p, on) ==
    \/ element' = Settled(element, p, on) /\ UNCHANGED calls
    \/ Waits(Call(p, FALSE), p, on) /\ UNCHANGED element

\* The next tick of the page's timer, or the next playback.sync, that finds the
\* element elsewhere than at what is shown, or at its end.
Reapply ==
    /\ armed /\ shown.track # Silence /\ element # Settled(element, shown, TRUE)
    /\ Apply(shown, TRUE)
    /\ UNCHANGED <<shared, shown, orders, notices, wired, armed, queue, taps, upsets>>

\* The grant of a call has come.  The call applies what it was made with, whatever
\* the page shows by now; the listen button's first one goes on with what is shown
\* by now, which may need a grant of its own.
GrantReturns(c) ==
    LET p == IF c = FromButton THEN shown ELSE c.state
    IN /\ \/ calls' = calls \ {c} /\ element' = Settled(element, p, armed)
          \/ /\ c = FromButton /\ armed /\ p.track # Silence
             /\ calls' = (calls \ {c}) \cup {Call(p, TRUE)}
             /\ UNCHANGED element
       /\ UNCHANGED <<shared, shown, orders, notices, wired, armed, queue,
                      taps, upsets>>

\* Its request fails: the call ends, and the listen button's disarms the page.
GrantFails(c) ==
    /\ upsets < MaxUpsets
    /\ upsets' = upsets + 1
    /\ calls' = calls \ {c}
    /\ IF c.button THEN armed' = FALSE /\ element' = [element EXCEPT !.sound = "off"]
       ELSE UNCHANGED <<armed, element>>
    /\ UNCHANGED <<shared, shown, orders, notices, wired, queue, taps>>

\* The track comes to its end: how long it is, and where in it, is left open.
EndIsReached ==
    /\ element.sound = "on"
    /\ element' = [element EXCEPT !.sound = "over", !.ended = element.take]
    /\ UNCHANGED <<shared, shown, orders, notices, wired, armed, calls, queue, taps, upsets>>

-----------------------------------------------------------------------------
(* The queue *)

\* sendPlayback(): heard is the select whose song has ended and that the page
\* still shows, if the command follows such an end.
Order(type, track, heard) ==
    orders' = IF wired
              THEN Append(orders, [type |-> type, track |-> track, expected |-> shown.epoch,
                                   heard |-> heard])
              ELSE orders

\* The listen button: an armed page applies what it sees, a disarmed one is
\* silent.
Listening(e, on) ==
    /\ armed' = on
    /\ \/ UNCHANGED calls
          /\ element' = IF on THEN Settled(e, shown, TRUE) ELSE [e EXCEPT !.sound = "off"]
       \/ Waits(FromButton, shown, on) /\ element' = e
ToggleListening == Listening(element, ~armed)

\* ensureLocalListening()
Listen(e) ==
    IF armed THEN element' = e /\ UNCHANGED <<armed, calls>> ELSE Listening(e, TRUE)

\* playQueueIndex(): the index moves with the request, not with the answer.
PlaySong(i, heard) ==
    /\ queue' = i
    /\ Order("select", SongAt(i), heard)

\* advanceQueue(): at the end of the list the queue stops and clears the room.
Advance(by, heard) ==
    LET next == IF queue + by < 1 THEN 1 ELSE queue + by
    IN IF next <= Len(Songs) THEN PlaySong(next, heard)
       ELSE /\ queue' = 0
            /\ IF shown.track # Silence THEN Order("clear", Silence, heard) ELSE UNCHANGED orders

\* The ended event.  A next song arms a page that has stopped listening.
SongEnds ==
    LET rest == [element EXCEPT !.ended = 0]
    IN /\ element.ended # 0
       /\ IF queue = 0 THEN UNCHANGED <<orders, queue>>
          ELSE Advance(1, IF element.ended = shown.take THEN shown.take ELSE 0)
       /\ IF queue \in 1 .. Len(Songs) - 1 THEN Listen(rest)
          ELSE element' = rest /\ UNCHANGED <<armed, calls>>
       /\ UNCHANGED <<shared, shown, notices, wired, taps, upsets>>

Tap ==
    /\ taps < MaxTaps
    /\ taps' = taps + 1
    /\ UNCHANGED <<shared, shown, notices, wired, upsets>>

StartQueue(i) == Tap /\ PlaySong(i, 0) /\ Listen(element)
\* Previous and Next; one that leads past the end arms nothing.
Skip(by) ==
    /\ Tap
    /\ queue # 0
    /\ Advance(by, 0)
    /\ IF queue + by <= Len(Songs) THEN Listen(element) ELSE UNCHANGED <<armed, element, calls>>
StopQueue == Tap /\ queue' = 0 /\ UNCHANGED <<orders, armed, element, calls>>

TapListen == Tap /\ ToggleListening /\ UNCHANGED <<orders, queue>>

\* The dashboard compares the text "PLAYING E<epoch>" with "PLAYING", and so
\* never proxies the pause button: the transport proxies play, which is disabled
\* while the room plays, and the mini player then falls back on the listen
\* button.
CanPlay == shown.track # Silence /\ shown.status # "playing"
TapTransport ==
    /\ Tap
    /\ IF CanPlay THEN Order("play", Silence, 0) ELSE UNCHANGED orders
    /\ UNCHANGED <<armed, element, calls, queue>>
TapMiniPlay ==
    /\ Tap /\ UNCHANGED queue
    /\ IF CanPlay THEN Order("play", Silence, 0) /\ UNCHANGED <<armed, element, calls>>
       ELSE ToggleListening /\ UNCHANGED orders

-----------------------------------------------------------------------------
(* The server, the others and the socket *)

Moved(o) ==
    LET e == shared.epoch + 1
    IN CASE o.type = "select" -> PlaybackOf(o.track, "playing", e, e)
         [] o.type = "clear" -> PlaybackOf(Silence, "idle", e, e)
         [] o.type = "play" -> PlaybackOf(shared.track, "playing", e, shared.take)
         [] OTHER -> PlaybackOf(shared.track, "paused", e, shared.take)

TakesStale(o) == o.type \in {"select", "clear"} \/ shared.track # Silence
Takes(o) == o.expected = shared.epoch /\ (o.type \in {"select", "clear"} \/ shared.track # Silence)

\* playback.state to the page, or playback.error with the state as it is.
Tell(n) == notices' = IF wired THEN Append(notices, n) ELSE notices

Obey ==
    /\ orders # <<>>
    /\ orders' = Tail(orders)
    /\ shared' = IF Takes(Head(orders)) THEN Moved(Head(orders)) ELSE shared
    /\ Tell([state |-> shared', error |-> ~Takes(Head(orders))])
    /\ UNCHANGED <<shown, wired, armed, element, calls, queue, taps, upsets>>

\* Another controller, who sees the room as it is: the first song of the list
\* stands for any, the one that plays, chosen anew, or another.  Its play and seek,
\* which take an epoch and move the position, are left out.
OthersMove ==
    /\ upsets < MaxUpsets
    /\ upsets' = upsets + 1
    /\ \E o \in [type : {"select"}, track : {SongAt(1)}] \cup [type : {"clear", "pause"}] :
          /\ o.type = "select" \/ shared.track # Silence
          /\ shared' = Moved(o)
    /\ Tell([state |-> shared', error |-> FALSE])
    /\ UNCHANGED <<shown, orders, wired, armed, element, calls, queue, taps>>

\* A state is shown at once and applied when there is a grant; an error is only
\* shown.
Notice ==
    /\ notices # <<>>
    /\ notices' = Tail(notices)
    /\ LET p == Head(notices).state
       IN /\ shown' = p
          /\ IF Head(notices).error THEN UNCHANGED <<element, calls>> ELSE Apply(p, armed)
    /\ UNCHANGED <<shared, orders, wired, armed, queue, taps, upsets>>

\* The socket breaks.  A prefix of the commands on it is still obeyed, here
\* before the page is back.
Lose ==
    /\ wired /\ upsets < MaxUpsets
    /\ upsets' = upsets + 1
    /\ wired' = FALSE
    /\ \E n \in 0 .. Len(orders) : orders' = SubSeq(orders, 1, n)
    /\ notices' = <<>>
    /\ UNCHANGED <<shared, shown, armed, element, calls, queue, taps>>
Rewire ==
    /\ ~wired /\ orders = <<>>
    /\ wired' = TRUE
    /\ notices' = <<[state |-> shared, error |-> FALSE]>>
    /\ UNCHANGED <<shared, shown, orders, armed, element, calls, queue, taps, upsets>>

-----------------------------------------------------------------------------
QueueNext ==
    \/ Reapply \/ EndIsReached \/ SongEnds
    \/ \E c \in calls : GrantReturns(c) \/ GrantFails(c)
    \/ \E i \in DOMAIN Songs : StartQueue(i)
    \/ Skip(1) \/ Skip(-1) \/ StopQueue \/ TapListen \/ TapTransport \/ TapMiniPlay
    \/ Obey \/ OthersMove \/ Notice \/ Lose \/ Rewire

QueueSpec == QueueInit /\ [][QueueNext]_queueVars

\* The timer, the media element and the network go on, and a request for a
\* grant is answered.
QueueFairness ==
    /\ WF_queueVars(\E c \in calls : GrantReturns(c))
    /\ WF_queueVars(Reapply) /\ WF_queueVars(EndIsReached)
    /\ WF_queueVars(SongEnds) /\ WF_queueVars(Obey) /\ WF_queueVars(Notice)
    /\ WF_queueVars(Rewire)

-----------------------------------------------------------------------------
(* Properties *)

QueueTypeOK ==
    /\ shared.epoch \in Nat /\ shown.epoch \in 0 .. shared.epoch
    /\ element.sound \in {"on", "off", "over"} /\ element.ended \in Nat
    /\ queue \in 0 .. Len(Songs)
    /\ Len(orders) <= MaxTaps + Len(Songs) * (MaxTaps + 1)

\* The queue of a page that listens comes to its end, or the room is silent or
\* paused: a request that is lost with its socket, or refused because another
\* controller was faster, does not leave it waiting for an end of track that
\* never comes.
QueueEnds ==
    QueueFairness => (queue # 0 ~> \/ queue = 0
                                   \/ shown.status # "playing"
                                   \/ ~armed)

\* When the page hears the end of the song it shows, the command that follows
\* moves the room away from that very song or not at all: whoever selects
\* another one, or the same one anew, before the page shows it is not cut short by
\* the queue.  (An end that is heard after the page has shown the new state, while
\* it waits for its grant, is not such an end, and does cut it short.)
EndMovesOnlyItsSong ==
    [][orders # <<>> /\ orders' = Tail(orders) /\ shared' # shared /\ Head(orders).heard # 0
         => Head(orders).heard = shared.take]_queueVars
=============================================================================
