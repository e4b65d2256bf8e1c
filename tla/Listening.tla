------------------------------ MODULE Listening ------------------------------
(***************************************************************************)
(* One rider's page listening with the crew: the calls of                    *)
(* applyPlaybackToAudio (apps/web/app.js) over the audio engine of           *)
(* apps/web/audio-engine.js, with the media grants of apps/api/server.js.    *)
(*                                                                          *)
(* Every message about the soundtrack, every two seconds of the timer and    *)
(* every tap on Listen starts a call that may wait for a grant, then for the *)
(* track's metadata, then for play().  The calls of a page overlap, and the  *)
(* rider may stop listening while any of them waits.                         *)
(*                                                                          *)
(* The media element (`src', `ready', `paused', and what becomes of the      *)
(* promises of play()) is the browser's: it is modelled from how the engine  *)
(* uses it.  Positions and playback rates are left out, and so is the timer  *)
(* that renews a grant every minute: it sends what the next tick would send. *)
(***************************************************************************)
EXTENDS Naturals, SequencesExt

CONSTANTS
    Tracks,         \* the tracks a host may select
    None,           \* no track
    MaxAsks,        \* requests for a grant a page has open at a time
    MaxWaiting,     \* calls of a page that wait for metadata at a time
    Leave           \* what the browser may say of a play(): TRUE lets it start

ASSUME BoundsAssumption == MaxAsks \in Nat /\ MaxWaiting \in Nat \ {0}

ASSUME LeaveAssumption == Leave \subseteq BOOLEAN /\ TRUE \in Leave

ASSUME NoneAssumption == None \notin Tracks \cup {"library"} /\ "library" \notin Tracks

VARIABLES
    entitled,   \* the rider is signed in and may use the EchoVerse library
    room,       \* the room's playback: what the server holds
    news,       \* the server has sent what the page has not read
    view,       \* realtime.playback
    player,     \* the engine and its media element
    asks,       \* calls that wait for a grant
    record,     \* mediaSessionScope and mediaSessionTrackId, while
                \* mediaSessionExpiresAt is more than 90 seconds away
    cookie      \* the rydesync_media cookie

vars == <<entitled, room, news, view, player, asks, record, cookie>>

Idle == [track |-> None, status |-> "idle"]
Shared == [track : Tracks, status : {"playing", "paused"}]
Playbacks == Shared \cup {Idle}

\* What a grant opens: nothing, the whole library, or one track.
Grants == {None, "library"} \cup Tracks

\* answer: "sent" while the request is open, then what the server granted: the
\* library, or the one track of a room grant.
Asks == [kind : {"follow", "listen", "relisten"}, playback : Shared,
         answer : {"sent", "library"} \cup Tracks]
NoAsk == [kind |-> "none"]

\* src is also currentTrackId: the engine sets both at once.  waiting holds the
\* status each call will apply once the metadata is there; interrupted says that
\* the element went silent while it played, or was about to.
Players == [armed : BOOLEAN, src : Tracks \cup {None},
            ready : {"none", "loading", "streaming", "ready", "failed"},
            paused : BOOLEAN, waiting : Seq({"playing", "paused"}),
            interrupted : BOOLEAN]

TypeOK ==
    /\ entitled \in BOOLEAN
    /\ room \in Playbacks /\ view \in Playbacks /\ news \in BOOLEAN
    /\ player \in Players /\ Len(player.waiting) <= MaxWaiting
    /\ asks \in [1 .. MaxAsks -> Asks \cup {NoAsk}]
    /\ record \in Grants /\ cookie \in Grants

Init ==
    /\ entitled \in BOOLEAN
    /\ room = Idle /\ view = Idle /\ news = FALSE
    /\ player = [armed |-> FALSE, src |-> None, ready |-> "none",
                 paused |-> TRUE, waiting |-> <<>>, interrupted |-> FALSE]
    /\ asks = [i \in 1 .. MaxAsks |-> NoAsk]
    /\ record = None /\ cookie = None

(***************************************************************************)
(* The media element.  Pausing it or giving it a new source rejects the      *)
(* promises of play() that are still pending.                                *)
(***************************************************************************)
Silence(pl) == [pl EXCEPT !.paused = TRUE, !.interrupted = @ \/ ~pl.paused]

Load(pl, t) ==
    [Silence(pl) EXCEPT !.src = t, !.ready = IF t = None THEN "none" ELSE "loading"]

(***************************************************************************)
(* The synchronous stretches of the engine.  play() is refused by an element *)
(* that failed to load, and by the browser where it wants a gesture; either  *)
(* way the engine disarms itself.                                            *)
(***************************************************************************)
Play(pl, leave) ==
    IF pl.ready = "failed" \/ (pl.paused /\ ~leave)
    THEN [pl EXCEPT !.armed = FALSE]
    ELSE [pl EXCEPT !.paused = FALSE]

Settle(pl, status, leave) == IF status = "playing" THEN Play(pl, leave) ELSE Silence(pl)

\* Two calls in a row that set the same status act as one; of more than
\* MaxWaiting the oldest is forgotten, for those that came after it act after it.
Wait(calls, status) ==
    IF calls # <<>> /\ Last(calls) = status THEN calls
    ELSE Append(IF Len(calls) = MaxWaiting THEN Tail(calls) ELSE calls, status)

\* engine.apply(), up to its first await.
ApplyUnarmed(pl, p, leave) ==
    CASE p.track = None -> Load(pl, None)
      [] p.track # None /\ pl.src = p.track -> Settle(pl, p.status, leave)
      [] OTHER -> [Load(pl, p.track) EXCEPT !.waiting = Wait(@, p.status)]
ApplyAnyTrack(pl, p, leave) ==
    CASE ~pl.armed -> pl
      [] pl.armed /\ pl.src = p.track -> Settle(pl, p.status, leave)
      [] OTHER -> [Load(pl, p.track) EXCEPT !.waiting = Wait(@, p.status)]
Apply(pl, p, leave) ==
    CASE p.track = None -> Load(pl, None)
      [] p.track # None /\ ~pl.armed -> pl
      [] p.track # None /\ pl.armed /\ pl.src = p.track -> Settle(pl, p.status, leave)
      [] OTHER -> [Load(pl, p.track) EXCEPT !.waiting = Wait(@, p.status)]

\* All the calls that wait for metadata go on, in the order they came.
SettleAll(pl, leave) ==
    LET after[n \in 0 .. Len(pl.waiting)] ==
            IF n = 0 THEN [pl EXCEPT !.ready = "ready", !.waiting = <<>>]
            ELSE Settle(after[n - 1], pl.waiting[n], leave)
    IN after[Len(pl.waiting)]

Disarm(pl) == [Silence(pl) EXCEPT !.armed = FALSE]

(***************************************************************************)
(* applyPlaybackToAudio: while the engine is armed, a track needs a grant    *)
(* with more than 90 seconds left before the engine is given the playback.   *)
(***************************************************************************)
Opens(g, t) == g \in {"library", t}

NeedsGrant(pl, g, p) == pl.armed /\ p.track # None /\ ~Opens(g, p.track)

FreeAsk == CHOOSE i \in 1 .. MaxAsks : asks[i] = NoAsk

Ask(kind, p) ==
    /\ \E i \in 1 .. MaxAsks : asks[i] = NoAsk
    /\ asks' = [asks EXCEPT ![FreeAsk] = [kind |-> kind, playback |-> p, answer |-> "sent"]]

Follow(pl, p, kind) ==
    \/ /\ NeedsGrant(pl, record, p)
       /\ Ask(kind, p)
       /\ player' = pl
    \/ /\ ~NeedsGrant(pl, record, p)
       /\ \E leave \in Leave : player' = Apply(pl, p, leave)
       /\ UNCHANGED asks

(***************************************************************************)
(* The room: the host selects, plays, pauses and clears, and the server      *)
(* broadcasts.  The page reads what it is sent in order; what it has not read *)
(* yet is taken as one message, the newest, as in a snapshot.                *)
(***************************************************************************)
Host(p) ==
    /\ p # room
    /\ room' = p /\ news' = TRUE
    /\ UNCHANGED <<entitled, view, player, asks, record, cookie>>

Receive ==
    /\ news
    /\ news' = FALSE /\ view' = room
    /\ Follow(player, room, "follow")
    /\ UNCHANGED <<entitled, room, record, cookie>>

\* The timer of every two seconds.
TickWhilePlaying ==
    /\ player.armed /\ view.status = "playing"
    /\ Follow(player, view, "follow")
    /\ UNCHANGED <<entitled, room, news, view, record, cookie>>
Tick ==
    /\ player.armed /\ view.track # None
    /\ Follow(player, view, "follow")
    /\ UNCHANGED <<entitled, room, news, view, record, cookie>>

(***************************************************************************)
(* The Listen button.  Stopping forgets the grant and asks the server to     *)
(* clear the cookie, without waiting for it.                                 *)
(***************************************************************************)
Listen ==
    /\ ~player.armed
    /\ LET on == [player EXCEPT !.armed = TRUE] IN Follow(on, view, "listen")
    /\ UNCHANGED <<entitled, room, news, view, record, cookie>>

Stop ==
    /\ player.armed
    /\ player' = Disarm(player)
    /\ record' = None
    /\ UNCHANGED <<entitled, room, news, view, asks, cookie>>

(***************************************************************************)
(* The server's side of a grant, and its answer reaching the page.  A room   *)
(* grant is for the track the room has when the request is handled; if the   *)
(* page asked for another, it has the cookie and throws.                     *)
(***************************************************************************)
Issue(i) ==
    /\ asks[i] # NoAsk /\ asks[i].answer = "sent"
    /\ \/ entitled /\ asks' = [asks EXCEPT ![i].answer = "library"]
       \/ ~entitled /\ room.track # None /\ asks' = [asks EXCEPT ![i].answer = room.track]
    /\ UNCHANGED <<entitled, room, news, view, player, record, cookie>>

Granted(a) == Opens(a.answer, a.playback.track)

\* What a call does when its grant is there: a tap on Listen takes up the
\* playback of now, and may need another grant; the others apply their own.
Resume(i, a) ==
    CASE a.kind = "listen" /\ NeedsGrant(player, a.answer, view) ->
            /\ asks' = [asks EXCEPT ![i] = [kind |-> "relisten", playback |-> view, answer |-> "sent"]]
            /\ UNCHANGED player
      [] OTHER ->
            /\ asks' = [asks EXCEPT ![i] = NoAsk]
            /\ LET p == IF a.kind = "listen" THEN view ELSE a.playback IN
               \E leave \in Leave : player' = Apply(player, p, leave)

GrantArrives(i) ==
    LET a == asks[i] IN
    /\ a # NoAsk /\ a.answer # "sent"
    /\ cookie' = a.answer
    /\ \/ /\ Granted(a)
          /\ record' = a.answer
          /\ Resume(i, a)
       \/ /\ ~Granted(a)
          /\ asks' = [asks EXCEPT ![i] = NoAsk]
          /\ player' = IF a.kind \in {"listen", "relisten"} THEN Disarm(player) ELSE player
          /\ UNCHANGED record
    /\ UNCHANGED <<entitled, room, news, view>>

Refused(i) ==
    /\ asks[i] # NoAsk /\ asks[i].answer = "sent"
    /\ asks' = [asks EXCEPT ![i] = NoAsk]
    /\ player' = IF asks[i].kind \in {"listen", "relisten"} THEN Disarm(player) ELSE player
    /\ UNCHANGED <<entitled, room, news, view, record, cookie>>

\* 90 seconds before its end the page no longer relies on a grant.
GrantRunsOut ==
    /\ record # None
    /\ record' = None
    /\ UNCHANGED <<entitled, room, news, view, player, asks, cookie>>

\* The cookie expires, or the answer to the DELETE of an earlier Stop clears it,
\* which may be after a newer grant: so it may go at any time.
CookieGoes ==
    /\ cookie # None
    /\ cookie' = None
    /\ UNCHANGED <<entitled, room, news, view, player, asks, record>>

(***************************************************************************)
(* The track's request at the server, and the events of the element.         *)
(***************************************************************************)
\* The cookie is read here and not when the request was sent: what has come to
\* it since only adds behaviours.
MayStream(t) ==
    \/ cookie = "library"
    \/ cookie = None /\ entitled
    \/ cookie = t /\ room.track = t

Serve ==
    /\ player.ready = "loading" /\ MayStream(player.src)
    /\ player' = [player EXCEPT !.ready = "streaming"]
    /\ UNCHANGED <<entitled, room, news, view, asks, record, cookie>>

Loaded ==
    /\ player.ready = "streaming"
    /\ \E leave \in Leave : player' = SettleAll(player, leave)
    /\ UNCHANGED <<entitled, room, news, view, asks, record, cookie>>

LoadFails ==
    /\ player.ready \in {"loading", "streaming"}
    /\ player' = [Silence(player) EXCEPT !.ready = "failed", !.waiting = <<>>]
    /\ UNCHANGED <<entitled, room, news, view, asks, record, cookie>>

\* If the promise of play() was still pending it is rejected now, and the catch
\* of play() takes any rejection for the browser's.
Interrupted ==
    /\ player.interrupted
    /\ \E armed \in {player.armed, FALSE} :
          player' = [player EXCEPT !.interrupted = FALSE, !.armed = armed]
    /\ UNCHANGED <<entitled, room, news, view, asks, record, cookie>>

Next ==
    \/ \E p \in Playbacks : Host(p)
    \/ Receive \/ Tick \/ Listen \/ Stop
    \/ \E i \in 1 .. MaxAsks : Issue(i) \/ GrantArrives(i) \/ Refused(i)
    \/ GrantRunsOut \/ CookieGoes \/ Serve \/ Loaded \/ LoadFails \/ Interrupted

Spec == Init /\ [][Next]_vars

(***************************************************************************)
(* Fairness: the socket delivers, the timer fires, a request is answered and *)
(* not refused for ever, the element loads or fails and tells what became of *)
(* play().  Nothing is asked of the host, of the rider or of the browser's   *)
(* leave to play.                                                            *)
(***************************************************************************)
Fairness ==
    /\ SF_vars(Receive) /\ WF_vars(Tick)
    /\ \A i \in 1 .. MaxAsks :
          SF_vars(Issue(i)) /\ WF_vars(Issue(i) \/ Refused(i) \/ GrantArrives(i))
    /\ WF_vars(Serve \/ Loaded \/ LoadFails)
    /\ WF_vars(Interrupted)

FairSpec == Spec /\ Fairness

NothingUnderWay ==
    /\ \A i \in 1 .. MaxAsks : asks[i] = NoAsk
    /\ player.waiting = <<>>

\* "audio never starts automatically" (app.js): once every call begun while the
\* rider was listening has ended, neither a message nor a timer starts the
\* element of a rider who is not listening, nor gives it a track to load.
NeverStartsByItself ==
    [][~player.armed /\ ~player'.armed /\ NothingUnderWay =>
          /\ player.paused => player'.paused
          /\ player'.src \in {player.src, None}]_vars

\* Grants that come late, loads that overlap and promises of play() that are
\* rejected leave no lasting mark.  Once the host rests, an armed page has the
\* room's track, sounding or silent as the room says; and a guest's page is silent
\* once the host has cleared the track, armed or not: a call that wakes up later
\* may ask for the old track again, but the server checks the grant against the
\* room as it is and no longer streams it.
MustFollow == IF room.track = None THEN ~entitled ELSE player.armed

Follows ==
    /\ player.paused = (room.status # "playing")
    /\ room.track # None => player.src = room.track

FollowsRoom == (<>[][UNCHANGED room]_vars /\ <>[]MustFollow) => <>[]Follows

\* "OFF . audio never starts automatically", and "Stop Listening" belongs to
\* every rider (index.html): no sound while the page says it is not listening.
OffIsSilent == ~player.armed => player.paused
=============================================================================
