----------------------------- MODULE RealtimeHub -----------------------------
(***************************************************************************)
(* The WebSocket hub of apps/api/lib/realtime.js over the rooms of          *)
(* RoomStore: sockets that open, authenticate, are replaced, die or close;  *)
(* live location; the voice channel and its talk floor; the host's lock and *)
(* end; the heartbeat.  Every handler runs to its end before another event  *)
(* is taken, so a handler is one action; what interleaves is the messages   *)
(* of different sockets, the close events, the timers and the clock.        *)
(*                                                                          *)
(* A socket is "open", then "closing" once close() has sent its frame       *)
(* (frames already on their way in are still delivered until the peer's FIN *)
(* comes back), or "destroyed" after terminate(); the close event ends it.  *)
(*                                                                          *)
(* The maps of a room state (connections, locations, lastLocationAt) are    *)
(* functions on Members, since a member id belongs to one room; they are    *)
(* empty for a room without state, i.e. outside `states'.  `view' is what a *)
(* socket has been told, folded as apps/web/app.js and voice.js fold it.    *)
(***************************************************************************)
EXTENDS RoomStore, Naturals

CONSTANTS
    Conns,          \* sockets; one may be used again after its close event
    Commands,       \* message types the clients of an instance send
    Deadlines,      \* timers that fire and deadlines that pass in an instance
    MaxPeers,       \* config.voice.maxPeers
    SnapshotCap,    \* members whose snapshot still fits maxMessageBytes
    VoiceEnabled    \* config.voice.enabled

NoConn == "no connection"

CommandNames ==
    {"presence.ping", "query", "location.update", "location.stop", "voice.join",
     "voice.leave", "voice.talk.start", "voice.talk.stop", "room.lock.set",
     "room.end"}

DeadlineNames == {"heartbeat", "room.ttl", "token.ttl", "location.stale",
                  "location.interval"}

ASSUME HubAssumption == /\ NoConn \notin Conns
                        /\ Commands \subseteq CommandNames
                        /\ Deadlines \subseteq DeadlineNames
                        /\ MaxPeers \in Nat
                        /\ SnapshotCap \in Nat
                        /\ VoiceEnabled \in BOOLEAN

VARIABLES
    up,         \* the process runs
    states,     \* keys of this.roomStates
    conn,       \* the connection objects
    reg,        \* state.connections: member -> registered connection
    loc,        \* state.locations: "none", or the age class of the coordinate
    hot,        \* members whose lastLocationAt is less than minIntervalMs old
    voice,      \* the union of the rooms' voicePeers
    floor,      \* voiceFloorMemberId of each room
    view        \* what each socket has been told since it authenticated

hubVars == <<up, states, conn, reg, loc, hot, voice, floor, view>>
vars == <<storeVars, hubVars>>

Phases == {"idle", "open", "closing", "destroyed"}
Ages == {"none", "fresh", "stale"}

ConnRecord ==
    [phase : Phases, room : Rooms \cup {NoRoom}, member : Members \cup {NoMember},
     alive : BOOLEAN, replacing : BOOLEAN]

IdleConn ==
    [phase |-> "idle", room |-> NoRoom, member |-> NoMember, alive |-> FALSE,
     replacing |-> FALSE]

ViewRecord ==
    [online : SUBSET Members, located : SUBSET Members, locked : BOOLEAN,
     joined : BOOLEAN, peers : SUBSET Members, floor : Members \cup {NoMember}]

BlankView ==
    [online |-> {}, located |-> {}, locked |-> FALSE, joined |-> FALSE,
     peers |-> {}, floor |-> NoMember]

TypeOK ==
    /\ StoreTypeOK
    /\ up \in BOOLEAN
    /\ states \subseteq Rooms
    /\ conn \in [Conns -> ConnRecord]
    /\ reg \in [Members -> Conns \cup {NoConn}]
    /\ loc \in [Members -> Ages]
    /\ hot \subseteq Members
    /\ voice \subseteq Members
    /\ floor \in [Rooms -> Members \cup {NoMember}]
    /\ view \in [Conns -> ViewRecord]

HubReset ==
    /\ states' = {}
    /\ conn' = [c \in Conns |-> IdleConn]
    /\ reg' = [m \in Members |-> NoConn]
    /\ loc' = [m \in Members |-> "none"]
    /\ hot' = {}
    /\ voice' = {}
    /\ floor' = [r \in Rooms |-> NoMember]
    /\ view' = [c \in Conns |-> BlankView]

Init ==
    /\ StoreInit
    /\ up = TRUE
    /\ states = {}
    /\ conn = [c \in Conns |-> IdleConn]
    /\ reg = [m \in Members |-> NoConn]
    /\ loc = [m \in Members |-> "none"]
    /\ hot = {}
    /\ voice = {}
    /\ floor = [r \in Rooms |-> NoMember]
    /\ view = [c \in Conns |-> BlankView]

-----------------------------------------------------------------------------
(* Helpers *)

\* #state(): the room's state comes into being when it is first asked for.
Touch(r) == states' = states \cup {r}

\* Sockets whose incoming frames are still handled.
Reading(c) == conn[c].phase \in {"open", "closing"}

\* close() on an open socket; on any other it changes nothing.
Closed(k) == [k EXCEPT !.phase = IF @ = "open" THEN "closing" ELSE @]

\* The connection that another one of the same member replaces.
ReplacedLeftOpen(k) == [k EXCEPT !.replacing = TRUE]
Replaced(k) == [Closed(k) EXCEPT !.replacing = TRUE]

\* Whether c is the connection on record for its member.
IsRegisteredToAnyone(c) == conn[c].member # NoMember
IsRegistered(c) == conn[c].member # NoMember /\ reg[conn[c].member] = c

Online(r) == {m \in room[r].members : reg[m] # NoConn}
Located(r) == {m \in room[r].members : loc[m] # "none"}
Peers(r) == voice \cap room[r].members

\* A snapshot lists every member; one that exceeds maxMessageBytes throws.
SnapshotFits(r) == Cardinality(room[r].members) <= SnapshotCap

\* What an event adds to what a socket has been told.
Fold(v, e) ==
    CASE e.type = "member.online" -> [v EXCEPT !.online = @ \cup {e.member}]
      [] e.type = "member.offline" -> [v EXCEPT !.online = @ \ {e.member}]
      [] e.type = "location.member" -> [v EXCEPT !.located = @ \cup {e.member}]
      [] e.type = "location.cleared" -> [v EXCEPT !.located = @ \ {e.member}]
      [] e.type = "voice.peer.joined" -> [v EXCEPT !.peers = @ \cup {e.member}]
      [] e.type = "voice.peer.left" -> [v EXCEPT !.peers = @ \ {e.member}]
      [] e.type = "voice.floor" -> [v EXCEPT !.floor = e.member]
      [] e.type = "room.locked" -> [v EXCEPT !.locked = e.locked]

Event(type, m) == [type |-> type, member |-> m]

\* #broadcast(): the event goes to the sockets registered for the members in
\* `to' that can still be written to.
Broadcast(vs, to, e) ==
    [c \in Conns |->
        IF conn[c].phase = "open" /\ \E m \in to : reg[m] = c
        THEN Fold(vs[c], e) ELSE vs[c]]

\* #clearLocation(): what the sockets of `to' are told of member m.
ToldNothing(vs, to, m) == vs
ToldCleared(vs, to, m) ==
    IF loc[m] = "none" THEN vs ELSE Broadcast(vs, to, Event("location.cleared", m))

\* An authenticated connection takes a message of this type from its peer.
Receives(c, type) ==
    /\ up
    /\ type \in Commands
    /\ Reading(c)
    /\ conn[c].member # NoMember

\* #snapshot() as a socket sees it.
Snapshot(r, online) ==
    [BlankView EXCEPT !.online = online, !.located = Located(r),
                      !.locked = room[r].locked]

-----------------------------------------------------------------------------
(* The life of a socket *)

\* #upgrade(): the room is resolved once and kept in the closure.
Upgrade(c, r) ==
    /\ up
    /\ conn[c].phase = "idle"
    /\ r \in Live
    /\ Pruned
    /\ conn' = [conn EXCEPT ![c] = [IdleConn EXCEPT !.phase = "open", !.room = r,
                                                    !.alive = TRUE]]
    /\ UNCHANGED <<room, expired, lapsed, up, states, reg, loc, hot, voice, floor, view>>

\* authTimer, or a first message that is not an acceptable auth, or a later
\* message that cannot be parsed or is of no known type.
Refuse(c) ==
    /\ up
    /\ conn[c].phase = "open"
    /\ conn' = [conn EXCEPT ![c] = Closed(@)]
    /\ UNCHANGED <<storeVars, up, states, reg, loc, hot, voice, floor, view>>

\* #authenticate() with the token of member m.  The room is the one of the
\* closure, stored or not.
Authenticate(c, m) ==
    LET r == conn[c].room
        previous == reg[m]
        online == Online(r) \cup {m}
    IN
    /\ up
    /\ Reading(c)
    /\ conn[c].member = NoMember
    /\ m \in room[r].members \ lapsed
    /\ Touch(r)
    /\ conn' = [d \in Conns |->
          IF d = c
          THEN [conn[c] EXCEPT !.member = m, !.alive = TRUE,
                   !.phase = IF @ = "open" /\ ~SnapshotFits(r) THEN "destroyed" ELSE @]
          ELSE IF d = previous
          THEN Replaced(conn[d])
          ELSE conn[d]]
    /\ reg' = [reg EXCEPT ![m] = c]
    /\ view' = [Broadcast(view, room[r].members \ {m}, Event("member.online", m))
                   EXCEPT ![c] = Snapshot(r, online)]
    /\ UNCHANGED <<storeVars, up, loc, hot, voice, floor>>

\* presence.ping, and the pong that answers a heartbeat ping.
Ping(c) ==
    /\ Receives(c, "presence.ping")
    /\ Touch(conn[c].room)
    /\ conn' = [conn EXCEPT ![c].alive = TRUE]
    /\ UNCHANGED <<storeVars, up, reg, loc, hot, voice, floor, view>>

Pong(c) ==
    /\ up
    /\ "heartbeat" \in Deadlines
    /\ Reading(c)
    /\ conn' = [conn EXCEPT ![c].alive = TRUE]
    /\ UNCHANGED <<storeVars, up, states, reg, loc, hot, voice, floor, view>>

\* room.state.get: a fresh snapshot, which says nothing of the voice channel
\* to the fold of the client.
StateGet(c) ==
    LET r == conn[c].room IN
    /\ Receives(c, "query")
    /\ Touch(r)
    /\ IF SnapshotFits(r) \/ conn[c].phase # "open"
       THEN /\ view' = [view EXCEPT ![c] = [Snapshot(r, Online(r)) EXCEPT
                 !.joined = view[c].joined, !.peers = view[c].peers,
                 !.floor = view[c].floor]]
            /\ UNCHANGED conn
       ELSE /\ conn' = [conn EXCEPT ![c].phase = "destroyed"]
            /\ UNCHANGED view
    /\ UNCHANGED <<storeVars, up, reg, loc, hot, voice, floor>>

-----------------------------------------------------------------------------
(* Live location *)

\* #locationUpdate() with a sample that normalizeLocation accepts.
LocationUpdate(c) ==
    LET m == conn[c].member
        r == conn[c].room
    IN
    /\ Receives(c, "location.update")
    /\ m \notin hot
    /\ Touch(r)
    /\ hot' = hot \cup {m}
    /\ loc' = [loc EXCEPT ![m] = "fresh"]
    /\ view' = Broadcast(view, room[r].members, Event("location.member", m))
    /\ UNCHANGED <<storeVars, up, conn, reg, voice, floor>>

\* A sample that comes too early, or that normalizeLocation rejects.
LocationRejected(c) ==
    /\ Receives(c, "location.update")
    /\ Touch(conn[c].room)
    /\ UNCHANGED <<storeVars, up, conn, reg, loc, hot, voice, floor, view>>

\* location.stop through #clearLocation(), which forgets the throttle too.
LocationStopMarksOnly(c) ==
    /\ Receives(c, "location.stop")
    /\ loc' = [loc EXCEPT ![conn[c].member] = "stopped"]
    /\ UNCHANGED <<storeVars, up, states, conn, reg, hot, voice, floor, view>>
LocationStop(c) ==
    LET m == conn[c].member
        r == conn[c].room
    IN
    /\ Receives(c, "location.stop")
    /\ hot' = hot \ {m}
    /\ loc' = [loc EXCEPT ![m] = "none"]
    /\ view' = ToldCleared(view, room[r].members, m)
    /\ UNCHANGED <<storeVars, up, states, conn, reg, voice, floor>>

-----------------------------------------------------------------------------
(* The voice channel *)

MayUseVoice(r, m) == CanUseVoice(room[r].mode, RoleOf(r, m))

\* A rejoin needs no place of its own.
HasPlace(r, m) == m \in voice \/ Cardinality(Peers(r)) < MaxPeers

VoiceJoin(c) ==
    LET m == conn[c].member
        r == conn[c].room
        peers == Peers(r) \cup {m}
        told == IF m \in voice THEN view
                ELSE Broadcast(view, room[r].members \ {m},
                               Event("voice.peer.joined", m))
    IN
    /\ Receives(c, "voice.join")
    /\ VoiceEnabled
    /\ MayUseVoice(r, m)
    /\ HasPlace(r, m)
    /\ Touch(r)
    /\ voice' = voice \cup {m}
    /\ view' = IF conn[c].phase = "open"
               THEN [told EXCEPT ![c].joined = TRUE, ![c].floor = floor[r],
                                 ![c].peers = peers \ {m}]
               ELSE told
    /\ UNCHANGED <<storeVars, up, conn, reg, loc, hot, floor>>

\* The three refusals of #voiceJoin.
VoiceJoinRefused(c) ==
    LET m == conn[c].member
        r == conn[c].room
    IN
    /\ Receives(c, "voice.join")
    /\ \/ ~VoiceEnabled
       \/ ~MayUseVoice(r, m)
       \/ ~HasPlace(r, m)
    /\ Touch(r)
    /\ UNCHANGED <<storeVars, up, conn, reg, loc, hot, voice, floor, view>>

\* #voiceLeave(): what the sockets of `to' are told when peer m goes.
ToldLeftOnly(vs, to, r, m) ==
    IF m \in voice THEN Broadcast(vs, to, Event("voice.peer.left", m)) ELSE vs
ToldLeft(vs, to, r, m) ==
    IF m \notin voice THEN vs
    ELSE Broadcast(IF floor[r] = m
                   THEN Broadcast(vs, to, Event("voice.floor", NoMember))
                   ELSE vs,
                   to, Event("voice.peer.left", m))

FloorWithout(r, m) ==
    [floor EXCEPT ![r] = IF m \in voice /\ @ = m THEN NoMember ELSE @]

\* The client that sends voice.leave has left the channel already.
VoiceLeave(c) ==
    LET m == conn[c].member
        r == conn[c].room
    IN
    /\ Receives(c, "voice.leave")
    /\ voice' = voice \ {m}
    /\ floor' = FloorWithout(r, m)
    /\ view' = [ToldLeft(view, room[r].members, r, m) EXCEPT ![c].joined = FALSE]
    /\ UNCHANGED <<storeVars, up, states, conn, reg, loc, hot>>

\* #voiceTalkStart(): the floor is taken if it is free, kept by its holder
\* without a word, and denied to anyone else.
MayTakeBusyFloor(r, m) == m \in voice /\ MayUseVoice(r, m)
MayTakeFloor(r, m) == m \in voice /\ MayUseVoice(r, m) /\ floor[r] = NoMember

TalkStart(c) ==
    LET m == conn[c].member
        r == conn[c].room
    IN
    /\ Receives(c, "voice.talk.start")
    /\ Touch(r)
    /\ \/ /\ MayTakeFloor(r, m)
          /\ floor' = [floor EXCEPT ![r] = m]
          /\ view' = Broadcast(view, room[r].members, Event("voice.floor", m))
       \/ ~MayTakeFloor(r, m) /\ UNCHANGED <<floor, view>>
    /\ UNCHANGED <<storeVars, up, conn, reg, loc, hot, voice>>

TalkStop(c) ==
    LET m == conn[c].member
        r == conn[c].room
    IN
    /\ Receives(c, "voice.talk.stop")
    /\ Touch(r)
    /\ \/ /\ floor[r] = m
          /\ floor' = [floor EXCEPT ![r] = NoMember]
          /\ view' = Broadcast(view, room[r].members, Event("voice.floor", NoMember))
       \/ floor[r] # m /\ UNCHANGED <<floor, view>>
    /\ UNCHANGED <<storeVars, up, conn, reg, loc, hot, voice>>

-----------------------------------------------------------------------------
(* The host's controls *)

ToldHostLocked(vs, r, b) ==
    Broadcast(vs, {room[r].host}, [type |-> "room.locked", locked |-> b])
ToldLocked(vs, r, b) ==
    Broadcast(vs, room[r].members, [type |-> "room.locked", locked |-> b])

RoomLock(c, b) ==
    LET r == conn[c].room IN
    /\ Receives(c, "room.lock.set")
    /\ conn[c].member = room[r].host
    /\ SetLocked(r, b)
    /\ Touch(r)
    /\ view' = ToldLocked(view, r, b)
    /\ UNCHANGED <<expired, lapsed, up, conn, reg, loc, hot, voice, floor>>

\* The error setLocked throws is caught: not the host, or the room is gone.
\* Either way resolve() has pruned.
RoomLockRefused(c) ==
    LET r == conn[c].room IN
    /\ Receives(c, "room.lock.set")
    /\ conn[c].member # room[r].host \/ r \notin Live
    /\ Pruned
    /\ Touch(r)
    /\ UNCHANGED <<room, expired, lapsed, up, conn, reg, loc, hot, voice, floor, view>>

\* The maps of a room go with its state; stale coordinates go as well.
DropState(gone, stale) ==
    LET members == UNION {room[r].members : r \in gone} IN
    /\ states' = states \ gone
    /\ reg' = [m \in Members |-> IF m \in members THEN NoConn ELSE reg[m]]
    /\ loc' = [m \in Members |-> IF m \in members \cup stale THEN "none" ELSE loc[m]]
    /\ hot' = hot \ (members \cup stale)
    /\ voice' = voice \ members
    /\ floor' = [r \in Rooms |-> IF r \in gone THEN NoMember ELSE floor[r]]

RegisteredIn(c, r) == \E m \in room[r].members : reg[m] = c

\* The sockets on record for the rooms in gone are closed.
HangUpOnNobody(gone) == conn
HangUp(gone) ==
    [c \in Conns |-> IF \E r \in gone : RegisteredIn(c, r) THEN Closed(conn[c])
                     ELSE conn[c]]

\* #roomEnd() by the host of a room that is still stored.
RoomEnd(c) ==
    LET r == conn[c].room IN
    /\ Receives(c, "room.end")
    /\ conn[c].member = room[r].host
    /\ End(r)
    /\ conn' = HangUp({r})
    /\ DropState({r}, {})
    /\ UNCHANGED <<expired, lapsed, up, view>>

RoomEndRefused(c) ==
    LET r == conn[c].room IN
    /\ Receives(c, "room.end")
    /\ conn[c].member # room[r].host
    /\ Touch(r)
    /\ UNCHANGED <<storeVars, up, conn, reg, loc, hot, voice, floor, view>>

\* rooms.end() throws for a room that is gone, nothing catches it, and the
\* process exits with all it holds in memory.
RoomEndThrows(c) ==
    LET r == conn[c].room IN
    /\ Receives(c, "room.end")
    /\ conn[c].member = room[r].host
    /\ r \notin Live
    /\ up' = FALSE
    /\ StoreReset
    /\ HubReset

-----------------------------------------------------------------------------
(* Close events, timers, the clock *)

\* The close event of a socket: #disconnect().  A connection that is not the
\* registered one leaves no trace; the offline event is only sent while the
\* room resolves, and resolving prunes.
Disconnect(c) ==
    LET m == conn[c].member
        r == conn[c].room
        others == room[r].members \ {m}
        offline(vs) == IF r \in Live
                       THEN Broadcast(vs, others, Event("member.offline", m))
                       ELSE vs
    IN
    /\ up
    /\ conn[c].phase # "idle"
    /\ conn' = [conn EXCEPT ![c] = IdleConn]
    /\ IF IsRegistered(c)
       THEN /\ reg' = [reg EXCEPT ![m] = NoConn]
            /\ voice' = voice \ {m}
            /\ floor' = FloorWithout(r, m)
            /\ loc' = [loc EXCEPT ![m] = "none"]
            /\ hot' = hot \ {m}
            /\ view' = [offline(ToldCleared(ToldLeft(view, others, r, m), others, m)) EXCEPT ![c] = BlankView]
            /\ Pruned
       ELSE /\ view' = [view EXCEPT ![c] = BlankView]
            /\ UNCHANGED <<reg, voice, floor, loc, hot, stored, codes>>
    /\ UNCHANGED <<room, expired, lapsed, up, states>>

\* setInterval(#heartbeat).  State of rooms that are gone is dropped, stale
\* coordinates are cleared, and a registered socket that has not answered since
\* the last beat is destroyed.  Unregistered sockets are not looked at.
AbandonedNever == {}
Abandoned == states \ Live

StaleNever == {}
Stale == {m \in UNION {room[r].members : r \in states \cap Live} : loc[m] = "stale"}

BeatWithoutTerminate(k) == [k EXCEPT !.alive = FALSE]
Beat(k) == IF k.alive THEN [k EXCEPT !.alive = FALSE] ELSE [k EXCEPT !.phase = "destroyed"]

Heartbeat ==
    LET kept(c) == \E r \in states \cap Live : RegisteredIn(c, r) IN
    /\ up
    /\ "heartbeat" \in Deadlines
    /\ Pruned
    /\ DropState(Abandoned, Stale)
    /\ conn' = [c \in Conns |-> IF kept(c) THEN Beat(conn[c]) ELSE HangUp(Abandoned)[c]]
    /\ view' = [c \in Conns |-> IF conn[c].phase = "open" /\ kept(c)
                                THEN [view[c] EXCEPT !.located = @ \ Stale] ELSE view[c]]
    /\ UNCHANGED <<room, expired, lapsed, up>>

\* A coordinate becomes older than staleAfterMs.
GoStale(m) ==
    /\ "location.stale" \in Deadlines
    /\ loc[m] = "fresh"
    /\ loc' = [loc EXCEPT ![m] = "stale"]
    /\ UNCHANGED <<storeVars, up, states, conn, reg, hot, voice, floor, view>>

\* minIntervalMs have passed since a member's last accepted coordinate.
IntervalElapses(m) ==
    /\ "location.interval" \in Deadlines
    /\ m \in hot
    /\ hot' = hot \ {m}
    /\ UNCHANGED <<storeVars, up, states, conn, reg, loc, voice, floor, view>>

\* The process is stopped and started, or started again after a crash.
Restart ==
    /\ up' = TRUE
    /\ StoreReset
    /\ HubReset

-----------------------------------------------------------------------------
(* The whole server *)

Http ==
    /\ up
    /\ \/ \E r \in Rooms, m \in Members, k \in Codes, mode \in Modes : Create(r, m, k, mode)
       \/ \E ref \in Rooms \cup Codes, m \in Members : Join(ref, m)
       \/ Lookup
    /\ UNCHANGED hubVars

RoomDeadline(r) == "room.ttl" \in Deadlines /\ ExpireRoom(r) /\ UNCHANGED hubVars
TokenDeadline(m) == "token.ttl" \in Deadlines /\ LapseToken(m) /\ UNCHANGED hubVars

Clock ==
    \/ \E r \in Rooms : RoomDeadline(r)
    \/ \E m \in Members : TokenDeadline(m) \/ GoStale(m) \/ IntervalElapses(m)

Message(c) ==
    \/ \E m \in Members : Authenticate(c, m)
    \/ Ping(c) \/ Pong(c) \/ StateGet(c)
    \/ LocationUpdate(c) \/ LocationRejected(c) \/ LocationStop(c)
    \/ VoiceJoin(c) \/ VoiceJoinRefused(c) \/ VoiceLeave(c)
    \/ TalkStart(c) \/ TalkStop(c)
    \/ \E b \in BOOLEAN : RoomLock(c, b)
    \/ RoomLockRefused(c)
    \/ RoomEnd(c) \/ RoomEndRefused(c) \/ RoomEndThrows(c)

Next ==
    \/ Http
    \/ Clock
    \/ \E c \in Conns : Message(c) \/ Refuse(c) \/ Disconnect(c)
    \/ \E c \in Conns, r \in Rooms : Upgrade(c, r)
    \/ Heartbeat
    \/ Restart

Spec == Init /\ [][Next]_vars

\* What the code's scheduling justifies: the interval timer fires, a socket
\* that was ended or destroyed reports its close, authentication times out, and
\* the supervisor starts the process again.  Clients owe nothing.
Ending(c) == conn[c].phase \in {"closing", "destroyed"} /\ Disconnect(c)

AuthTimeout(c) == conn[c].member = NoMember /\ Refuse(c)

Fairness ==
    /\ WF_vars(Heartbeat)
    /\ \A c \in Conns : WF_vars(AuthTimeout(c))
    /\ \A c \in Conns : WF_vars(Ending(c))
    /\ WF_vars(~up /\ Restart)

FairSpec == Spec /\ Fairness

-----------------------------------------------------------------------------
(* Safety *)

\* The connection registered for a member is that member's newest one: it has
\* authenticated as this member of this room, its close event is still to
\* come, and no other has replaced it (the map that #authenticate and
\* #disconnect keep across reconnects, late closes and dropped states).
RegisteredIsCurrent ==
    \A m \in Members : reg[m] # NoConn =>
        /\ conn[reg[m]].phase # "idle"
        /\ conn[reg[m]].member = m
        /\ conn[reg[m]].room \in states
        /\ m \in room[conn[reg[m]].room].members
        /\ ~conn[reg[m]].replacing

\* No authenticated socket that is still open escapes the heartbeat and the
\* close that ends a room: it is the registered one (both walk the registered
\* connections only).
OpenIsRegistered ==
    \A c \in Conns : conn[c].phase = "open" /\ conn[c].member # NoMember =>
        reg[conn[c].member] = c

\* Both together: takeovers, late closes, dropped states and restarts leave each
\* member with one connection on record, the newest, and no open one besides it.
OneConnection == RegisteredIsCurrent /\ OpenIsRegistered

\* The talk floor is never held by someone outside the channel or without the
\* right to speak, in whatever order leave, end, expiry, disconnect and
\* reconnect come (voiceFloorMemberId is kept apart from voicePeers).
FloorHolderIsPeer ==
    \A r \in Rooms : floor[r] # NoMember =>
        floor[r] \in Peers(r) /\ MayUseVoice(r, floor[r])

\* The voice mesh never outgrows maxPeers, rejoins included (#voiceJoin).
VoiceWithinLimit == \A r \in Rooms : Cardinality(Peers(r)) <= MaxPeers

\* The snapshot and the events after it tell an open client the whole truth:
\* who is online, whose coordinate is shared, whether the room is locked and,
\* once it has joined the channel, who is in it and who has the floor.  The
\* client never asks again, so one missing broadcast would stay wrong.
ViewsConverge ==
    \A c \in Conns :
        LET m == conn[c].member
            r == conn[c].room
        IN
        conn[c].phase = "open" /\ m # NoMember /\ r \in Live =>
            /\ view[c].online = Online(r)
            /\ view[c].located = Located(r)
            /\ view[c].locked = room[r].locked
            /\ view[c].joined =>
                 /\ view[c].floor = floor[r]
                 /\ view[c].peers \ {m} = Peers(r) \ {m}

\* The late close event of a socket that was replaced, or whose room state was
\* dropped and made anew, takes nothing from the connection that came after it.
LateCloseHarmless ==
    [][\A c \in Conns : conn'[c] # conn[c] /\ Disconnect(c) =>
          \A m \in Members : reg[m] # c =>
              /\ reg'[m] = reg[m]
              /\ loc'[m] = loc[m]
              /\ m \in voice => m \in voice'
              /\ \A r \in Rooms : floor[r] = m => floor'[r] = m]_vars

(* Liveness *)

\* A registered connection whose peer has stopped answering does not stay
\* registered: a second heartbeat destroys it and its close takes it out.
DeadPeersLeave ==
    \A m \in Members : []<>(reg[m] # NoConn => conn[reg[m]].alive)

\* A coordinate that is not refreshed is cleared (the heartbeat's sweep).
StaleLocationsClear == \A m \in Members : loc[m] = "stale" ~> loc[m] # "stale"

Gone(r) == room[r].host # NoMember /\ r \notin Live

\* A Ryde that ended or expired lets go of its state and of every open socket,
\* even if late messages make the state anew in between.
GoneRoomsEmpty ==
    \A r \in Rooms : Gone(r) ~>
        /\ r \notin states
        /\ \A c \in Conns : conn[c].room = r => conn[c].phase # "open"

\* The clock reaches every expiresAt.
ClockRuns == \A r \in Rooms : WF_vars(RoomDeadline(r))

\* A voice peer without a connection (a replaced socket can still join the
\* channel after the member has gone) does not outlive its Ryde.
GhostPeersEnd ==
    ClockRuns => \A m \in Members :
        m \in voice /\ reg[m] = NoConn ~> m \notin voice \/ reg[m] # NoConn

-----------------------------------------------------------------------------
(* The voice handlers implement the push-to-talk channel, room by room *)

Channel(r) == INSTANCE VoiceChannel WITH channel <- Peers(r), holder <- floor[r]

\* "One server-owned talk floor": whatever joins, leaves, reconnects, ends or
\* crashes, each room's channel and floor only take the steps of VoiceChannel.
ImplementsVoiceChannel ==
    /\ \A r \in Rooms : Channel(r)!Init
    /\ [][\A r \in Rooms : Channel(r)!Next \/ UNCHANGED <<Peers(r), floor[r]>>]_vars

-----------------------------------------------------------------------------
(* What the documents say *)

\* "Coordinates clear on explicit stop, disconnect, staleness or room expiry":
\* no coordinate is kept for a member without a registered connection.
CoordinatesNeedConnection == \A m \in Members : loc[m] # "none" => reg[m] # NoConn

=============================================================================
