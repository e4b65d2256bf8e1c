# RydeSync in TLA+

RydeSync is a Node server without a database (`apps/api`) and a web page without
a framework (`apps/web`).  Riders open a *Ryde* (a room), share their live
location, listen to one shared soundtrack and talk over push-to-talk.
Everything that is shared lives in one process's memory and is kept consistent
by single-threaded handlers; what is hard is the order in which those handlers
run: messages of several sockets, sockets that are replaced and close late,
timers, deadlines, process restarts, and the clients at the other end.  A device
adds what its tabs share: cookies, `localStorage`, the service worker.

## 1. Inventory

| Component | State it keeps | Operations | Talks to |
|---|---|---|---|
| Room registry `lib/rooms.js` | `rooms`, `codes`; mode, host, members, lock and expiry of each room | create, join, resolve, setLocked, end, prune | called by the routes and the hub |
| Permissions `lib/permissions.js` | none | canUseVoice, canControlPlayback | hub |
| Room tokens `lib/room-token.js` | none (signed claims with an expiry) | issue, verify | registry issues, hub and routes verify |
| Realtime hub `lib/realtime.js` | per room: connections, locations, throttle, playback, voicePeers, floor, seq; per socket: room, member, alive, replacing | upgrade, auth, 12 kinds of message, disconnect, heartbeat, playback hint | registry, WebSocket layer, clients |
| WebSocket layer `lib/websocket.js` | closed, closeSent, receive buffer | sendJson, ping, close, terminate, frame parser | hub |
| Playback `lib/playback.js` | a value: track, status, position, anchor, epoch | select, play, pause, seek, clear | hub; projected by `web/sync-core.js` and `PlaybackSync.kt` |
| Location `lib/location.js` | none | normalizeLocation | hub |
| Page client `web/app.js` | `realtime` (socket, snapshot fold, playback), location sharing, media grant | connect, reconnect, buttons | hub, routes, voice client, audio engine |
| Voice client `web/voice.js` | stream, peers, enabled, joined, floorMemberId, pressActive | enable, disable, press, release, rejoin, handle | hub through the page; other clients over WebRTC |
| Audio engine `web/audio-engine.js` | armed, current track, rate timer | setArmed, apply | page, media element |
| Media sessions `lib/media-session.js` | signed cookie | issue, verify | routes, page |
| TURN `lib/turn-credentials.js` | none; credentials carry an expiry | credentials for a member | routes, voice client |
| Identity, sign-in `lib/identity.js`, `lib/browser-auth.js`, `lib/browser-session.js` | login state and session cookies | resolve, capability check, login, callback, refresh | external identity service |
| EchoVerse proxy, AeroCore adapter, HTTP, config | none | forwarding, parsing | external services |
| Catalog bridge `web/catalog-bridge.js` | the stored session and the bookmarks (`localStorage`), picker | wraps each socket and decides what its close means, leave, bookmark, forget, render | page, storage, routes |
| Library and dashboard `web/library-ui.js`, `web/dashboard.js` | the playlist queue | start, skip, stop, move on at the end of a track | the page's playback buttons, media element |
| Release bootstrap, PWA, service worker `web/release-bootstrap.js`, `web/pwa.js`, `web/sw.js` | stored release, markers in the address, worker and caches | clean, reload, probe, register, update | all tabs of the browser |
| Map, shell, join page, QR | view state | rendering, requests | page |
| Android | a scaffold | projection of playback | API |

Behaviours that are hard to test, and where the project looks for them
(`PROJECT.json` lists each with its line under `hazards`):

* **Late sockets.** `ws.close()` only ends the writing side; frames that are
  on their way in are still handled until the peer's FIN arrives.  So a
  replaced connection, one of an ended Ryde, or one whose auth timed out can
  still act; its close event comes after a newer connection has registered.
* **State made on demand.** `#state(roomId)` recreates the state of a room that
  has ended if a late message asks for it.
* **Several maps for one fact.** `rooms` and `codes`; `voicePeers` and
  `voiceFloorMemberId`; `connections`, `locations` and `lastLocationAt`.
* **Clients that never ask again.** A page folds events over one snapshot; a
  broadcast missing on one path stays wrong until the next reconnect.
* **Timers.** The heartbeat is the only thing that ends dead sockets, sockets of
  expired rooms, and stale coordinates.
* **Half-broken sockets.** Either end can lose a socket first; requests sent on
  the old one may be handled after the new one has authenticated.
* **Awaits in the page.** `getUserMedia`, the ICE refresh, media grants and
  `audio.play()` all settle later than the check made before them.
* **What tabs share.** Two tabs sign in, store sessions, and delete each other's
  caches; a close event of one page clears a storage that all of them read.
* **Work that asks for more work.** A render writes, and a write asks for a render; a
  page cleans up and reloads; a queue selects at the end of each track.
* **Two clocks and two throttles.** Relay credentials expire by the server's clock and are
  renewed by the page's; page and server both hold back locations.

What makes each modelled component correct:

* registry: the code index and the room map agree; a code leads to a live room
  that carries it;
* hub: the registered connection is the current one, every open authenticated
  socket is registered, views converge, a room that is gone lets go of its sockets, a late close
  is harmless, dead peers, stale coordinates and abandoned rooms go away;
* voice: the floor is held by a peer who may speak, one at a time, and passes
  only by release, leave or drop; the mesh is bounded;
* playback: no blind write, epochs identify states, views never go back;
* listening: an armed page settles on the room's soundtrack, whatever overtook what
  on the way there, and nothing starts on a page whose rider has not asked;
* voice client: a microphone is on only while its button is held on a floor it
  believes to have, and the belief follows the server;
* location: what a rider stopped sharing is gone, and who goes on sharing stays visible;
* relay credentials: what the page uses without asking again is still honoured;
* sign-in: an attempt is let through exactly until it has come to its own end, whatever other tabs do;
* stored session and bookmarks: a session is kept while its Ryde is open, cleaned up when it
  is not, not fought over by two pages; a host's room is in the list; renders end;
* playlist queue: it comes to its end, and the end of the song shown moves no other;
* releases: a page does not reload for ever.

## 2. Modules

| Module | Models | Corresponds to |
|---|---|---|
| `RoomStore` | the registry with roles, permissions and token expiry | one action per method; pruning is part of every one |
| `RealtimeHub` (extends `RoomStore`) | the hub with the clients' fold of its events | one action per handler, timer, close event and deadline |
| `VoiceChannel` | abstract: a set of peers and one holder | what the documents promise of the talk floor; refined by `RealtimeHub` per room |
| `Playback` | `applyPlaybackCommand`, `effectivePositionMs`, `playbackTargetMs` as operators | used by `PlaybackControl` |
| `PlaybackControl` | hub playback handlers and pages over sockets that break | one action per button, message and hint |
| `TalkFloor` | voice handlers of the hub, `VoiceClient` and the page per rider | one action per button, await, message and socket event at each end |
| `Listening` | the Listen button, the page's media grants and the audio engine, with the routes that grant and stream | one action per tap, timer, message, answer and event of the media element |
| `RoomSession` | the pages of a device, the session they share and the sockets the bridge wraps | one action per form, button, load, request, answer, socket and close event, and per way a connection is refused |
| `SavedRooms` | bookmarks, picker, active card and the renders that writes ask for | one action per tap, answer and microtask |
| `PlaylistQueue` | the queue and the dashboard's transport on a host's page, the room's soundtrack and the media element | one action per tap, command, state, error, grant, tick and event of the element |
| `LocationShare` | the location switch, the page's and the server's throttles, the coordinate | one action per tap, sample, frame, tick, heartbeat and socket event |
| `TurnLease` | relay credentials: signed, cached and refreshed against two clocks | one action per request, signature, answer and tick |
| `SignIn` | login, callback and logout of one browser with several tabs | one action per request and answer, and per step of a callback between its awaits |
| `Release` | bootstrap, probe, update button, workers and caches of several tabs | one action per step between two awaits, and per event of the worker |
| `*Proofs` | theorems and proofs about the module of the name; `DeviceProofs` and `RideProofs` about parts of `MCDevice` and `MCRide` | see section 5 |
| `MCRealtimeHub` | model values and symmetry sets for TLC | |
| `MCRide` | `Release`, `SignIn`, `RoomStore`, `TurnLease`, `PlaybackControl`, `TalkFloor` side by side | see section 3 |
| `MCDevice` | `SavedRooms`, `PlaylistQueue`, `LocationShare`, `TalkFloor` side by side | see section 3 |

### RoomStore

`stored` is the key set of `this.rooms`, `codes` is `this.codes`, and `room` keeps
the room objects, including those no longer stored: the hub holds on to a
room object through the closure of a socket, and so does the model.  `expired` and
`lapsed` are deadlines that the clock has reached.  Ids and codes are drawn at
random in the code; `Create` takes any id not drawn before, and any code
that is not in use (the code loops until it finds one).  The role of a member
is a function of the mode and of being host, because nothing changes a role.

### RealtimeHub

A connection is `idle` (unused), `open`, `closing` (after `close()`; still
read) or `destroyed` (after `terminate()`; not read any more); `Disconnect` is
its close event and makes the model value free to be a new socket.  The maps of
a room state are functions on members, since a member id belongs to one room
(`Membership`, proved).  In the code they are fields of one object, which goes with its
room; that they are empty for a room outside `states` is therefore an obligation of this
encoding, proved as `NoResidue` of `RealtimeHubProofs`, and no property of the system.  `loc` keeps the age class of a coordinate and `hot` the
members within the throttle interval.  `view[c]` is what the client at the
other end of `c` has been told, folded the way `app.js` folds it.  TCP delivers
in order, so folding at the moment of sending loses nothing about what a client
finally knows; delays between the two are the subject of `TalkFloor` and
`PlaybackControl`.

`Commands` and `Deadlines` choose what clients send and which timers and
deadlines fire in an instance.  They only remove behaviours, so that TLC can
look at one subject at a time with more sockets; the theorems hold for every
choice, the full one included.  `RoomEndThrows` is the uncaught exception of
`#roomEnd` on an expired room: the process stops, and `Restart` (also possible at any time) starts a
new one with empty maps.  A query stands for `room.state.get`; `playback.state.get`
and the playback commands touch only the soundtrack and are in `PlaybackControl`.

### VoiceChannel

A channel and its holder: peers join and leave, a free floor is taken by a peer,
a holder gives it up or loses it when it leaves, and everything may be closed at once.  `RealtimeHub`
shows that each room's `voicePeers` and floor do nothing else.

### Playback and PlaybackControl

Times are whole units.  A client is `down`, `up` (socket open, not yet
`auth.ok`) or `ready`.  `out` and `inbox` are the two directions of its socket; a
break discards what was on its way to the client (the page ignores any socket
but its current one) and leaves any prefix of its commands in `leftover`, which the
server handles whenever it reads them.  `basis` is a history variable: the
state that the sender was looking at; no action reads it.

### TalkFloor

A socket is `on`, `cut` (the server has dropped it, the client does not know),
`ghost` (the client has lost it, the server does not know) or `off`.  A
reconnect over a `ghost` replaces a live registration, which keeps channel and
floor; over `off` the rider comes back with neither.  `asking` and `refreshing` count
the awaits that are open: `getUserMedia` and the ICE refresh of `rejoin()`.
`mic` is whether a track of `this.stream` is enabled, `stray` whether a track of
a stream that was replaced still is.  Who may join, and how a Ryde
ends, is left to `RealtimeHub`; so is the limit of the mesh.

### Listening

`player` is the engine with its media element.  Each stretch of `apply()` between
two awaits is one operator from a player to the next: `Apply` up to `ensureTrack`, `Settle`
from there to `play()`.  `waiting` holds the calls that wait for
`loadedmetadata`; the event wakes all of them in the order they came
(`SettleAll`), also those whose source was replaced since.  `asks` holds the calls
that wait for a grant, with the playback they were made with.  A grant is what
it opens, since of its age the code only asks whether 90 seconds are left (`record`,
the page's side) and whether it has expired (`cookie`, the browser's and the server's
side); the two part ways when a track changes while its grant is opened, and when
the DELETE of a Stop is answered after a newer grant.  What a media element does with `play()`
promises (rejected by `pause()`, by a new source and by a failed load; refused
for want of a gesture) follows the HTML standard and is external.  `entitled`
is fixed in a behaviour; a signed-in rider without the capability is a guest who
first asks in vain, and a rider whose identity service fails is not modelled.

### RoomSession

A page holds its session in memory (`tab[t].session`), the device in `localStorage` (`last`).
`Phases` follow the socket a page calls its own; `old` are sockets it has
given up, whose close events come when they like and still run the bridge's listener, which
clears `last` by the name of the Ryde.  The bridge's question whether a room still exists
is a phase of its own (`asking`), since the page goes on meanwhile.  `newest` and `left`
are history variables.  The server is reduced to what a page sees of it: whether it accepts, with which code
it closes, whether a room is there.  A token may run out while its Ryde is open, since the two lifetimes are
configured apart: when it is first refused (4003, `RefuseToken`) the session joins `lapsed`, and the bridge clears it from the storage.  4004 is left
out: it needs a member that is gone or changed, which the registry never makes of one it has added.
`past` are the Rydes whose `expiresAt` has passed, also after their end, because a stored session of a host
whose Ryde is past it jams the page (`Jammed`, finding 4).

### SavedRooms

A render reads the list, filters it and may write; each write queues another render
(`rendering` alternates between 1 and 2, so that a queued render is a step even if it changes
nothing else).  Every other action waits for `Idling`: microtasks run before tasks.

### PlaylistQueue

The host's page alone is modelled in full; other controllers are one action (`OthersMove`) on the
room's playback: they select the first song of the list, anew or instead of another, clear and pause; their play and
seek, which move the position, are left out.  `queue` is `state.queue.index`, moved by the request and not by the answer.
A state is `shown` as it comes and goes to the `element` at once or after a media grant: `calls` are the calls of
`applyPlaybackToAudio` and of the listen button that wait for one, each with the playback it will apply.  Whether the page
still has a grant that will do is left open, so that every call may wait, and be overtaken.  An error is shown and not applied.
`take` is the epoch of the last select: it tells two plays of one song apart.  `element.ended` is the take whose `ended` event is due;
how long a track is, and so when it ends, is left open.  Commands carry the take whose end caused them if the page still showed
it then (`heard`, a history field).

### LocationShare

Ages instead of timestamps, which stop growing where nothing tells them apart.  `line` is as in
`TalkFloor`; `strays` are frames of a socket that was replaced.  `held` is a history variable: Stop was pressed
on a connection that worked and nothing has been started or lost since.

### TurnLease

Milliseconds are units, `Second` of them make a second; `Issued` cuts and rounds as
`issueTurnIceServers` does.  Fetches overlap without limit in the code (`MaxFetches` bounds them in an
instance) and their answers come in any order.  `Skew` is how far the server's clock is ahead.

### SignIn

`jar` are the state cookies of the browser, one per attempt.  A request carries the cookies of
the moment it is sent (`names`) and its answer edits those of the moment it arrives.  A callback
is checked, exchanges its handoff code and resolves the session, with the gateway free to refuse, to lose its answer
or to end a session in between.  `ended` and `over` are history.

### Release

A page is what `release-bootstrap.js` makes of it: `loading`, then settled at once, or `looking`,
`clearing` (unregister) and `emptying` (delete what was found), then loading again with the release in its address.  `storing` is
whether the browser lets pages use `localStorage`.  Workers follow the service worker
specification as far as the code uses it (external): the first one is active at once, later ones wait until told or until no
page is left, and claim all pages.  `again` counts the reloads a page made by itself since
the last deployment or the rider's last request.

## 3. Runs

| Run | Instance | Shows |
|---|---|---|
| `hub_presence` | 2 members, 3 sockets; location, heartbeat, staleness | types, `OneConnection`, `ViewsConverge` |
| `hub_voice` | 2 members, 3 sockets; all voice commands | `ViewsConverge`, `LateCloseHarmless`, `ImplementsVoiceChannel` |
| `hub_end` | 2 members, 2 sockets, a mesh of 1; lock, end, expiry, heartbeat | `ViewsConverge` |
| `hub_liveness` | 1 member, 2 sockets; queries, every deadline | `DeadPeersLeave`, `GoneRoomsEmpty`, `GhostPeersEnd`, `StaleLocationsClear` |
| `hub_coordinates` | as `hub_presence` | violation: a coordinate outlives the member's connection (finding 1) |
| `ride` | six parts side by side (below) | types; `NoReloadLoop`; `AttemptsStandAlone`; `CodeIndex`, `CodeLeadsToLiveRoom`; `RelayStaysValid`; `EpochIdentifiesState`, `CaughtUp`, `NoBlindWrite`, `NoJump`; `MicOnlyWhileHeld`, `BeliefFollowsFloor`, `MicWithoutFloorIsBrief` |
| `device` | four parts side by side (below) | types; `HostPlaceIsSaved`, `RendersEnd`; `QueueEnds`, `EndMovesOnlyItsSong`; `StoppedIsGone`, `SharingStaysVisible`; `HolderLearns` |
| `room_session` | 2 pages, 2 Rydes, 2 memberships, 1 upset | types, `LiveSessionIsKept`, `StaleSessionsEnd`, `NoTugOfWar` |
| `renders_settle` | 1 room | violation: renders without end (finding 4) |
| `talk_stray` | 2 riders, two microphone requests may be open | violation: a live track that nothing mutes (finding 2) |
| `listening` | guest or member, 2 tracks, 1 open request, 2 calls waiting for metadata | types, `NeverStartsByItself`, `FollowsRoom` |
| `listening_off` | the same, in a browser that never wants a gesture | violation: a track that starts after Stop (finding 3) |

**Parts side by side.**  `ride` and `device` hold several modules that share no step.  `part` picks
one of them at the start and the others stay in their initial state, so that the
states of the parts add up and do not multiply; each property speaks of one part, and holds
trivially while that part rests.  The liveness properties of `device` carry their fairness as a premise
(`SavedFairness`, `QueueFairness`, `LocationFairness`, and the one inside `HolderLearns`), so that each is judged under
the fairness of its own part.  Both runs, and `room_session`, have `CHECK_DEADLOCK FALSE`: parts stop when they have
used up what an instance allows them.

**Bounds and why they are enough.**

* *Hub.*  Three sockets let a member be replaced
  while the replaced socket is closing and another member watches; two are enough
  where replacement against an ending room is the question.  One room suffices
  because no handler of one room reads the state of another except
  pruning, which the registry part covers (the theorems cover any number).
  `MaxPeers = 1` in `hub_end` puts the mesh at its limit; `SnapshotCap = 2`
  never refuses a snapshot in the runs, and the refusing branch is covered by the proofs, which
  hold for every cap.
* *Registry.*  Two rooms, three members and two codes: a code is freed by expiry or end and drawn again.
* *Playback.** *Playback.*  One controller and one listener; `MaxCommands = 3` lets two writes cross and a third follow; `MaxClock = 2` separates anchor,
  sending and arrival; `ChannelCap = 2` lets a command and the next be in flight together.  A controller that is overtaken is here one whose socket broke with
  commands in flight; that several controllers do not write blindly over each other rests on the theorem `WritesAreInformed`.
* *Push-to-talk.*  `Cap = 2` lets a request and a release, or a grant and a denial, be in flight together.
  `MaxBreaks = 1` is one broken live socket: all that follows from it (ghost, late frames, replacement, rejoin) is unbounded.
  `CutOff`, `DropOut` and `Leavers` name which riders may break or leave, one of two, the other being the witness.
* *Listening.*  Two tracks let a load or a grant be overtaken by another; two waiting calls
  are one that was overtaken and the one that overtook it; `MaxAsks = 1` leaves out two
  requests that overlap each other, not one that is overtaken by states for which
  the page has a grant, or that need none.  Broadcasts the page has not read yet are merged into the newest.
* *Sessions.*  Two pages are what a takeover needs, two Rydes what a late close of another Ryde needs; `MaxMembers = 2`
  lets a Ryde be joined anew; `MaxUpsets = 1` is one load, break, restart or token that runs out, with closes, refusals, takeovers and reconnects unbounded.
* *Bookmarks.*  Three rooms in a list of two: one is pushed out.
* *Queue.*  Two songs are a move within the queue and its end; two taps and one upset (a move of another controller, a lost socket or a refused grant)
  put each before, between and after the others; `MaxCalls = 1` is one call at a time that waits for its grant, and that states for
  which the page has a grant, and taps, overtake.  How several overlap is the subject of `Listening`.
* *Location.*  `MinInterval 2 < StillInterval 3 <= MaxClientAge 3 < StaleAfter 6`, in the order of the shipped values (5 s, 15 s, 30 s, 120 s) and
  with room for a sample that waits for both throttles; two starts and one broken or replaced socket.
* *Relay.*  A second of 2 and a lifetime of 3 make rounding, margin (3), pause (3) and skew (2) all matter; the Ryde ends two units after
  the page's clock (`RoomEnd 13`, `Horizon 11`, skew 2), so that expiries are cut.
* *Sign-in.*  Two attempts with two open callbacks and a logout are what one tab can do to another.
* *Releases.*  Two tabs, and two releases deployed forward and back any number of times.

**Fairness.**  `RealtimeHub!Fairness` has the interval timer fire
(`setInterval`), the authentication timer fire, an ended or destroyed socket report its close
(`socket.end()` and `destroy()`; the operating system times out a peer that does not
answer), and the supervisor start the process again (the compose
file's restart policy).  Clients owe nothing: no pong, no message, no close.  That the clock
reaches the end of every Ryde is not assumed by the specification, where it would make
everything go away in the end, but by the one property that needs it (`GhostPeersEnd`).
Fairness of the heartbeat is what the four liveness properties rest on.  In `TalkFloor` a live socket is read
and delivers and a fetch settles; no rider has to press anything.  Reading and the fetch are
strongly fair because the bound `Cap`, which the code does not have, can hold
them back again and again; without the bound weak fairness would do.  In `Listening`
messages are read (strongly fair for the same reason: `MaxAsks`), the timer of two seconds fires, a
request settles and is not refused for ever, and the element loads or fails; `FollowsRoom` further
has the host rest, which is its premise and not a fairness.  In `RoomSession` timers fire, closes are reported, a request about a room
settles, and the server accepts or refuses a connection and ends the sockets of a room that is gone; no rider has to do anything.  What happens in a page
(timer, close event, answer) is fair only while no page is jammed: a page that renders a stored session of a host whose Ryde is past its time
never leaves its microtasks (finding 4), and `StaleSessionsEnd` and `NoTugOfWar` promise nothing of it.  `NoTugOfWar` leaves aside
a rider who presses Leave at each new attempt to connect, as its premise says.  `SavedFairness` is that microtasks run.
`QueueFairness` is that a request for a grant is answered, the engine's timer fires, the media element plays and ends, commands and states are read and a socket is opened again;
the host owes no tap.  `LocationFairness` is that time passes, frames are read, the heartbeat runs and a socket is opened again;
that the watch delivers samples is a premise of `SharingStaysVisible`.

**What is not safe by design and holds all the same.**  `MicWithoutFloorIsBrief` says
precisely how far "one transmitter" goes: while a broadcast is in transit, or while a
client sits on a socket that the server has already dropped, a rider can still
transmit after another has taken the floor.

## 4. Findings

1. `hub_coordinates` / `CoordinatesNeedConnection`: `docs/ARCHITECTURE.md:131` promises that
   coordinates clear on disconnect.  A `location.update` that a replaced socket
   still delivers after the member's current connection has gone is stored, and
   no close clears it; it stays until it goes stale (`StaleLocationsClear` holds).
2. `talk_stray` / `ReleaseMutes`: `docs/VOICE_DEPLOYMENT.md:68` says that releasing PTT mutes the local
   track immediately.  Two clicks on Enable before the first `getUserMedia` settles
   leave the first stream without a reference, and if its track was enabled
   when the second one came, nothing mutes or stops it.
3. `listening_off` / `OffIsSilent`: `apps/web/index.html:264` leaves Stop Listening to every
   rider, and `apps/web/app.js:322` labels a page that is not listening "OFF · audio never
   starts automatically".  `apply()` tests `armed` before its first await only: a
   Stop while the metadata is on its way is followed by `play()`, and as the engine is disarmed nothing pauses it.

4. `renders_settle` / `RendersSettle`: `apps/web/catalog-bridge.js:463` tells the rider that "The stale session was
   cleaned up automatically".  When the stored session is of a host whose Ryde has expired, `renderActiveRoomCard()`
   bookmarks the room, the next read filters it out, both are writes, and each queues a microtask
   that renders: the page never gets to a timer or a close event that would clean up.

Behaviours that the models contain, or that were met while modelling, and that no run is about:

* The `catch` of `play()` takes every rejection for the browser's, so a pause or a new track that
  arrives while a track is starting disarms the page; and a track whose load failed counts as
  loaded, so that Listen cannot recover it (`Listening`).
* Stop pressed while the page has no connection sends nothing, and a reconnect over a registration the server still has keeps
  the coordinate until it is stale, though the page shows "Off" (`app.js:239`); a takeover by another page (4009) or a reload
  leaves it as well.  `StoppedIsGone` therefore speaks of a Stop on a connection that worked.
* Leave finds no socket to mark while the page waits for its reconnect timer, and a close that breaks off arrives as 1006: the page
  reconnects to the Ryde that was left.  Leaving a Ryde and joining it again before the first socket's close event has
  the new session cleared by that event; `LiveSessionIsKept` exempts Rydes that were left.
* A page shows a new state at once and plays the old track until its media grant has come (`app.js:338`, `549`), and a call that waited longer may bring the
  old track back.  If the old track ends meanwhile, the queue's command carries the new epoch and the server takes it: what another controller has just chosen is
  cut short, or the host's own queue skips a song.  `EndMovesOnlyItsSong` is about ends of the song the page shows, and leaves these out.
* A page that has stopped listening while an `ended` event was due is armed again by it, since the queue's next select presses Listen (`library-ui.js:105-114`).
* A join that is retried after its answer was lost adds a second member for the same rider (`rooms.js:98`); a
  `voice.signal` that is forwarded can be longer than the one that came in and pass the frame limit (`realtime.js:345`); the
  picker may show the answer about another room than the one chosen last (`catalog-bridge.js:355`).

## 5. Proofs

`RoomStoreProofs` proves `StoreInv` (types, `Membership`, `CodeIndex`,
`StoredWasCreated`) invariant of `StoreSpec`.  `Membership` is needed because a
room is reached by code and joined by a fresh member id; `StoredWasCreated` because an id
that was drawn must not be drawn again while its room is stored or expired.
`CodeLeadsToLiveRoomHolds` is an action property that follows from the same invariant.

`RealtimeHubProofs` proves
`IInv == StoreInv /\ TypeOK /\ SocketsInv /\ ResidueInv /\ VoiceInv`
invariant of `Spec`.  None of the published invariants is inductive alone:

* every step of the hub is a step of the registry or leaves it alone
  (`HubStepIsStoreStep`), which gives `StoreInv` and the theorem `HubUsesRegistry`;
* `SocketsInv` adds to `OneConnection` that every socket
  in use belongs to a created room and an authenticated one to a member of that
  very room (`SocketsBelong`): a late close can only be told from a current one by this;
* `ResidueInv` is about the model more than about the code: a dropped state is an empty one (`NoResidue`) and a member id still to be
  drawn has left nothing anywhere (`NewcomersAreClean`), which is what makes it
  sound to model the maps of a state by functions on members;
* `VoiceInv` adds to `FloorHolderIsPeer` and `VoiceWithinLimit` that only finitely many
  members are in voice (`FiniteVoice`), without which cardinalities say nothing; no finiteness
  of `Members` is assumed.

The proof of each part has one step per action; actions that touch none of its
variables are dispatched by a frame lemma, the three ways of dropping state
(end, heartbeat, reset) share one.  The invariant gives `TypeCorrect`, `RegistrationCorrect`,
`FloorCorrect`, `MeshBounded`, and the action property
`LateCloseCorrect`; `FloorHolderIsPeer` and `VoiceWithinLimit`, which restate guards of the code, are proved and not run.  `HubImplementsVoiceChannel` is the refinement: the initial states
map to initial states (`ChannelInit`), and each action maps, room by room, to a step
of `VoiceChannel` or to a stutter (`EveryStepMaps`).

`ViewsAreTrue` is the theorem about the sockets: `ViewsConverge` is inductive relative to `IInv`
(`IInv /\ IInv' /\ ViewsConverge /\ [Next]_vars => ViewsConverge'`).  Each event reaches every open authenticated socket of
its room, so that the proof is, action by action, that what was broadcast is what changed (`LocationUpdateTold` and the lemmas after it);
`IInv` gives that each open authenticated socket is registered, that members of one room are not members of another, and that a room
without state has nothing to tell.

`TalkFloorProofs` proves `TalkInv`.  What a client believes about the floor is right only when it has read everything, so the invariant
speaks of the frames on their way: a frame that names the holder, and that no broadcast follows, names the holder of now
(`TellsLast`), and a joined client on a live socket is about to hear or knows (`Informed`).  The lemmas about `Append`, `Tail` and
`Head` say how that survives an answer, a broadcast and a read.  Frames of a lost socket (`late`) change the server and so send a broadcast like any others.
`MicrophoneFollowsFloor` follows from the rule of the microphone (`MicHeld`) and the belief.

`PlaybackControlProofs` proves `ControlInv`.  `EpochIdentifiesState` speaks of what clients have and will read; a command that is still on
its way would break it, unless what it was based on is known to be the room's state or overtaken (`Behind`) and its `expectedEpoch` is
the epoch of its basis (`WellMade`), on broken sockets too; and `CaughtUp` needs that the last message on a socket is the room's state
(`EndsWith`).  `NoBlindWrite` and `NoJump` are action properties: the first is `checkEpoch` read against that invariant, the second arithmetic over
the projection of positions.

`RoomSessionProofs` proves `SessionInv`.  `LiveSessionIsKept` speaks of `localStorage`, which any socket's close event may clear however late it comes;
it needs that a code that ends the session is only carried by a socket of a Ryde that is gone or was left *still*, not only when the code was
sent (`ClosesAreJust`), and that the Ryde of a membership was opened and so is not opened again (`RydesWereOpened`).  `SocketStep` states once what a
step of sockets and server may do to Rydes, storage, pages and given-up sockets; each action is shown to do no more.

`RideProofs` holds the proofs about `TurnLease`, `SignIn` and `Release`.  `LeaseInv == LeaseTypeOK /\ Covered /\ Promised` for each open fetch: `RelayStaysValid` speaks
of the present time and so is not inductive; what time does not change is how expiry and time of the next request lie to each other (`Covered`), and that follows from
what each signature promises for the time its request began (`Promised`), whatever the order of the answers.
`SignInv`: `AttemptsStandAlone` needs that the jar holds exactly the attempts under way (`JarIsUnderWay`),
which a logout disturbs unless it carried the cookie of each attempt that was under way when it was pressed and has not ended since (`LogoutsCarry`).
`ReloadInv`: two reloads are the bound because a page that has a reason to reload has not reloaded since that reason
(`WithReason`), a page in the bootstrap has at most one behind it, none if it is of a release no longer deployed, and the second leads
to an address that settles it (`OnItsWay`).  Nothing is assumed of workers, caches or storage, which is why other tabs do not matter.

`DeviceProofs` holds the proofs about `LocationShare`, `PlaylistQueue` and `SavedRooms`.  `LocationInv`: `StoppedIsGone` speaks of the moment when everything has been read; on
the way there the stop is the last word of its socket (`StopIsLast`), and only one socket has words on their way (`OneWay`).
`QueueInv`: `EndMovesOnlyItsSong` speaks of the moment a command is obeyed; on its way there the command carries the epoch of a state at the very take whose end it
follows (`OwnSong`), which holds when it is sent because two states of one epoch are at the same take, for what is shown and what is on its way to the page
(`WasShared`), and stays true because whatever moves the room takes a new epoch.  Nothing is assumed of when grants come, nor of which track the element plays.
`Budget` bounds the commands on their way: each tap sends one and lets the whole playlist end once more.
`SavedInv` is `SavedTypeOK`, `HostPlaceIsSaved` and that no room is twice on the list at any time: a write queues a rendering, and the only rendering that leaves the
page idle wrote nothing, so that the list it read had the host's room already.

`ListeningProofs` proves that `TypeOK` of `Listening` is inductive, and from it `NeverStartsByItself`: an unarmed page asks for no grant, `apply()` leaves its element alone or unloads it,
and the metadata's event wakes nobody.

Two definitions are recursive functions over a list: `Excluding` of `SavedRooms` and `SettleAll` of `Listening`.  The induction theorems of the library take an operator
as a parameter, which the provers cannot instantiate; `EveryNat` states induction with a set in its place, and follows from the library's theorem on minimal elements.
With it, `SievesExist` and `WakesExist` show that the functions exist, and `ExcludingFits` and `WakesKeep` what they compute.

`RideTypesHold` and `DeviceTypesHold` are about the compositions `MCRide` and `MCDevice`: a step there is a step of one part and leaves the others alone (`PartsRunAlone`), so
that each part runs as it does by itself, and what is proved of its specification holds there too.

Assumptions are the named ones of the modules: absent values are distinct from ids, modes are among
the five, `MaxPeers` and `SnapshotCap` are naturals, `Commands` and `Deadlines` are
among the known names, and for the relay (`LifetimeAssumption`) that pause and a second of rounding fit in a lifetime and the skew in the margin, which the
configuration's lower bound of 300 seconds gives for a skew of up to a minute.

The clients' assumptions are `TalkAssumption` (a socket takes at least one frame), `ControlAssumption` and `SessionAssumption` (bounds are
naturals, the absent Ryde is none), `QueueAssumption` (songs are names, none of them the one reserved; the taps are a natural number),
`BoundsAssumption` of `Listening` (one call at least may wait for metadata) and `SavedAssumption` (one bookmark at least is kept: 24 in the code).

Every invariant that a passing run checks, and every action property, is stated by a theorem.  Only model-checked are the properties that need fairness (`DeadPeersLeave`, `GoneRoomsEmpty`,
`GhostPeersEnd`, `StaleLocationsClear`, `FollowsRoom`, `SharingStaysVisible`, `RendersEnd`, `QueueEnds`, `HolderLearns`, and those of `RoomSession`), which is beyond the prover.

## 6. Not modelled, and why

* The frame parser, signatures, numeric ranges and text limits: data whose
  details no property here tells apart.
* `voice.signal` and the RTCPeerConnection mesh (`ensurePeer`, `handleSignal`).  What a rider wants of it, that two enabled riders hear each other, is
  not what the code promises without many exemptions, and rests on WebRTC, which the code only configures: a reconnect over a live registration makes no `voice.peer.joined`, so
  that a pair whose initiator is the other rider comes back only when one of them toggles; a disable during an ICE refresh leaves an entry in
  `peers`; two messages about one peer create two connections and lose one (`hazards`).
* Drift correction of the audio engine: arithmetic on continuous positions.
* Identity resolution and the capability check: one request to an external service per call, nothing kept between calls.
* EchoVerse proxy, configuration: stateless.  Of the AeroCore adapter the signatures.
* The install prompt and the device setup panel; a worker that goes on serving pages after it was unregistered.
* Map, shell, QR code, the panels of library, dashboard and join page: rendering.
* Android: a scaffold whose one algorithm is the projection of `Playback`.

## 7. Plan

Done: registry, hub, voice refinement, playback, the push-to-talk client, listening; then sessions and
bookmarks of a device, the playlist queue, the live location, relay credentials, sign-in and releases, their
runs, and the proofs of section 5.  Next, in this order:

1. The safety halves of the temporal properties, as invariants that can be proved: that only boundedly many renderings of `SavedRooms` in a row write (behind `RendersEnd`),
   and that a room without members sharing or speaking has nothing left for the timers to do (behind `StaleLocationsClear` and `GhostPeersEnd`).
2. An abstract soundtrack that `PlaybackControl` implements, as `VoiceChannel` is for the hub.
